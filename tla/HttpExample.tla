----------------------------- MODULE HttpExample -----------------------------
(***************************************************************************)
(* The HTTP example: handlers for one demo user over maps of ceremony      *)
(* states and credential records under one mutex.  A login is begun for    *)
(* some stored credential, which the handler picks.  There are no          *)
(* sessions: what a login yields is its answer.  The counter policy is the *)
(* default one, so clone risk is reported by the library and tolerated     *)
(* here.                                                                   *)
(*                                                                         *)
(* Actions, tokens and cookies are as in Quickstart.                       *)
(***************************************************************************)
EXTENDS Ceremony, Maps

CONSTANTS
    RP,                  \* configuration of the relying party
    User,                \* handle of the demo user
    Requests,            \* handler slots
    CeremonyIDs,         \* state identifiers, and challenges
    Registrations,       \* registration responses browsers may send
    Assertions,          \* authentication responses browsers may send
    InitialRecords,      \* credentials registered earlier: id -> record
    MaxTime              \* bound on the clock

\* The example leaves the counter policy of its configuration at the default,
\* which never writes a counter that shows clone risk.
ASSUME HttpExampleAssumption ==
    /\ ConfigValid(RP) /\ RP.stateTTL \in Nat \ {0} /\ MaxTime \in Nat
    /\ RP.rpId \in RPIDs /\ ~RP.updateOnCloneRisk
    /\ User \in UserHandles
ASSUME ResponsesAssumption ==
    /\ \A r \in Registrations :
           /\ r.credentialId \in CredentialIDs /\ r.key \in Keys /\ r.alg \in Algorithms
           /\ FlagsTyped(r.authData)
    /\ \A a \in Assertions : FlagsTyped(a.authData)
ASSUME InitialRecordsAssumption ==
    /\ DOMAIN InitialRecords \subseteq CredentialIDs
    /\ \A c \in DOMAIN InitialRecords :
           /\ InitialRecords[c] \in CredentialRecord /\ InitialRecords[c].id = c
           /\ RecordValid(InitialRecords[c])

VARIABLES
    now,       \* the clock
    states,    \* the two maps of states: kind -> identifier -> state
    records,   \* credential records: identifier -> record
    calls,     \* the handlers: where each is, and its locals
    issued,    \* tokens drawn so far
    answers    \* history: the successful answers, and what they rest on

vars == <<now, states, records, calls, issued, answers>>

Kinds == {"registration", "authentication"}

Idle == [pc |-> "idle"]

At(r, pc) == calls[r].pc = pc

Goto(r, call) == calls' = [calls EXCEPT ![r] = call]

Return(r) == Goto(r, Idle)

\* The example asks for credProps with every registration.
CredProps ==
    [NoExtensions EXCEPT !.inputs = [id \in {"credProps"} |-> TRUE]]

\* pruneExpiredLocked.
Pruned ==
    [k \in Kinds |->
        Without(states[k], {i \in DOMAIN states[k] : now >= states[k][i].expires})]

\* beginRegistration, to saveRegistrationState.
BeginRegistration(r, id) ==
    /\ At(r, "idle")
    /\ id \in CeremonyIDs \ issued
    /\ issued' = issued \cup {id}
    /\ Goto(r, [pc |-> "save", kind |-> "registration", id |-> id,
                state |-> RegistrationState(RP, User, CredProps, FALSE, id, now)])
    /\ UNCHANGED <<now, states, records, answers>>

\* beginAuthentication, to saveAuthenticationState: firstCredential returns
\* whichever record the map iteration meets first; without one it is refused.
BeginAuthentication(r, credential, id) ==
    /\ At(r, "idle")
    /\ credential \in DOMAIN records
    /\ id \in CeremonyIDs \ issued
    /\ issued' = issued \cup {id}
    /\ Goto(r, [pc |-> "save", kind |-> "authentication", id |-> id,
                state |-> AuthenticationState(RP, records[credential].user,
                              {credential}, NoExtensions, id, now)])
    /\ UNCHANGED <<now, states, records, answers>>

\* saveRegistrationState and saveAuthenticationState: prune, then store.
SaveState(r) ==
    /\ At(r, "save")
    /\ LET call == calls[r] IN
       states' = [Pruned EXCEPT ![call.kind] = With(@, call.id, call.state)]
    /\ Return(r)
    /\ UNCHANGED <<now, records, issued, answers>>

\* The consume functions reading without deleting.
ConsumeStateKeeps(r, kind, id) ==
    /\ At(r, "idle")
    /\ states' = Pruned
    /\ IF id \in DOMAIN Pruned[kind]
       THEN Goto(r, [pc |-> kind, id |-> id, state |-> states[kind][id]])
       ELSE Return(r)
    /\ UNCHANGED <<now, records, issued, answers>>

\* finishRegistration and finishAuthentication, to the consume functions.
ConsumeState(r, kind, id) ==
    /\ At(r, "idle")
    /\ states' = [Pruned EXCEPT ![kind] = Without(@, {id})]
    /\ IF id \in DOMAIN Pruned[kind]
       THEN Goto(r, [pc |-> kind, id |-> id, state |-> states[kind][id]])
       ELSE Return(r)
    /\ UNCHANGED <<now, records, issued, answers>>

VerifyRegistration(r, response) ==
    /\ At(r, "registration")
    /\ LET call == calls[r] IN
       IF FinishRegistrationAccepts(RP, call.state, response, now)
       THEN Goto(r, [pc |-> "insert", id |-> call.id, response |-> response,
                     record |-> RegisteredCredential(call.state, response)])
       ELSE Return(r)
    /\ UNCHANGED <<now, states, records, issued, answers>>

\* insertCredential, and the answer: 201, or 409 for a duplicate.
InsertCredential(r) ==
    /\ At(r, "insert")
    /\ LET call == calls[r] IN
       IF call.record.id \notin DOMAIN records
       THEN /\ records' = With(records, call.record.id, call.record)
            /\ answers' = answers \cup {[kind |-> "registered", ceremony |-> call.id,
                  record |-> call.record, response |-> call.response]}
       ELSE UNCHANGED <<records, answers>>
    /\ Return(r)
    /\ UNCHANGED <<now, states, issued>>

\* credentialByRawID.
Lookup(r, response) ==
    /\ At(r, "authentication")
    /\ IF response.rawId \in DOMAIN records
       THEN Goto(r, [pc |-> "verify", id |-> calls[r].id, state |-> calls[r].state,
                     response |-> response, record |-> records[response.rawId]])
       ELSE Return(r)
    /\ UNCHANGED <<now, states, records, issued, answers>>

VerifyAuthentication(r) ==
    /\ At(r, "verify")
    /\ LET call == calls[r] IN
       IF FinishAuthenticationAccepts(RP, call.state, call.response, call.record, now)
       THEN Goto(r, [call EXCEPT !.pc = "update"])
       ELSE Return(r)
    /\ UNCHANGED <<now, states, records, issued, answers>>

\* applyCredentialUpdate without ApplyTo's comparison.
UpdateAdmitsBlindly(update) == update.id \in DOMAIN records

\* applyCredentialUpdate.
UpdateAdmits(update) ==
    update.id \in DOMAIN records /\ ApplySucceeds(update, records[update.id])

\* applyCredentialUpdate, and the answer: authenticated, or 409.
UpdateCredential(r) ==
    /\ At(r, "update")
    /\ LET call == calls[r]
           update == CredentialUpdate(call.record, call.response.authData,
                         call.response.attachment, RP.updateOnCloneRisk, FALSE)
       IN  IF UpdateAdmits(update)
           THEN /\ records' = [records EXCEPT ![update.id] = Applied(update, @)]
                /\ answers' = answers \cup {[kind |-> "authenticated",
                      ceremony |-> call.id, state |-> call.state,
                      record |-> call.record, response |-> call.response]}
           ELSE UNCHANGED <<records, answers>>
    /\ Return(r)
    /\ UNCHANGED <<now, states, issued>>

Tick ==
    /\ now < MaxTime
    /\ now' = now + 1
    /\ UNCHANGED <<states, records, calls, issued, answers>>

-----------------------------------------------------------------------------

Init ==
    /\ now = 0
    /\ states = [k \in Kinds |-> NoEntries]
    /\ records = InitialRecords
    /\ calls = [r \in Requests |-> Idle]
    /\ issued = {}
    /\ answers = {}

Step(r) ==
    \/ SaveState(r)
    \/ \E response \in Registrations : VerifyRegistration(r, response)
    \/ InsertCredential(r)
    \/ \E response \in Assertions : Lookup(r, response)
    \/ VerifyAuthentication(r)
    \/ UpdateCredential(r)

Next ==
    \/ \E r \in Requests : Step(r)
    \/ \E r \in Requests, id \in CeremonyIDs :
           \/ BeginRegistration(r, id)
           \/ \E credential \in CredentialIDs : BeginAuthentication(r, credential, id)
           \/ \E kind \in Kinds : ConsumeState(r, kind, id)
    \/ Tick

Spec == Init /\ [][Next]_vars

-----------------------------------------------------------------------------
(***************************************************************************)
(* Properties.                                                             *)
(***************************************************************************)

Authenticated == {a \in answers : a.kind = "authenticated"}

\* An answer "authenticated" rests on the credential the ceremony was begun for:
\* it is the one that was listed, it belongs to the expected user, its stored
\* key signed this ceremony's challenge, and no second answer comes from the
\* same ceremony (beginAuthentication, finishAuthentication).
AnswersAuthentic ==
    /\ \A a \in Authenticated :
           /\ a.state.allow = {a.record.id}
           /\ records[a.record.id].user = a.state.expected
           /\ a.response.signature.key = records[a.record.id].key
           /\ a.response.clientData.challenge = a.ceremony
    /\ \A a, b \in answers : a.ceremony = b.ceremony => a = b

\* A stored counter never goes back, although a login whose counter did is
\* answered "authenticated", and although an update may rest on a record that
\* others have changed and changed back since it was read
\* (applyCredentialUpdate, ApplyTo).
CountersNeverGoBack ==
    [][\A c \in DOMAIN records :
           c \in DOMAIN records' /\ records'[c].signCount >= records[c].signCount]_vars
=============================================================================
