----------------------------- MODULE Quickstart -----------------------------
(***************************************************************************)
(* The quickstart application: one demo account, one in-memory store under *)
(* one mutex, and HTTP handlers for registration, discoverable login, the  *)
(* session query and logout.                                               *)
(*                                                                         *)
(* An action is what a handler does from one locked section to the next.   *)
(* A browser names its ceremonies and its session in cookies, whose values *)
(* are arbitrary here; a cookie that is missing is None.  A ceremony's     *)
(* identifier and its challenge are both 256 fresh random bits: one token  *)
(* stands for the two.                                                     *)
(***************************************************************************)
EXTENDS Ceremony, Maps, FiniteSets

CONSTANTS
    RP,                  \* configuration of the relying party
    User,                \* handle of the demo account
    Requests,            \* handler slots
    CeremonyIDs,         \* ceremony identifiers, and challenges
    SessionIDs,          \* session identifiers
    Registrations,       \* registration responses browsers may send
    Assertions,          \* authentication responses browsers may send
    InitialCredentials,  \* credentials registered earlier: id -> record
    CeremonyCapacity,    \* ceremonies of a kind the store holds; 128 in the code
    CredentialCapacity,  \* credentials it holds; 64 in the code
    SessionCapacity,     \* sessions it holds; 128 in the code
    SessionTTL,          \* lifetime of a session; an hour in the code
    MaxTime              \* bound on the clock

ASSUME QuickstartAssumption ==
    /\ ConfigValid(RP) /\ RP.stateTTL \in Nat \ {0} /\ SessionTTL \in Nat \ {0}
    /\ User \in UserHandles
    /\ {CeremonyCapacity, CredentialCapacity, SessionCapacity, MaxTime} \subseteq Nat
\* The demo runs preset.PasskeyConfig, which demands user verification.
ASSUME PasskeyConfigAssumption ==
    RP.rpId \in RPIDs /\ RP.authenticationUV = "required"
ASSUME ResponsesAssumption ==
    /\ \A r \in Registrations :
           /\ r.credentialId \in CredentialIDs /\ r.key \in Keys /\ r.alg \in Algorithms
           /\ FlagsTyped(r.authData)
    /\ \A a \in Assertions : FlagsTyped(a.authData)
ASSUME InitialCredentialsAssumption ==
    /\ DOMAIN InitialCredentials \subseteq CredentialIDs
    /\ IsFiniteSet(DOMAIN InitialCredentials)
    /\ Cardinality(DOMAIN InitialCredentials) <= CredentialCapacity
    /\ \A c \in DOMAIN InitialCredentials :
           /\ InitialCredentials[c] \in CredentialRecord
           /\ RecordValid(InitialCredentials[c])
           /\ InitialCredentials[c].id = c
           /\ InitialCredentials[c].user = User

VARIABLES
    now,          \* the clock
    ceremonies,   \* the two maps of states: kind -> identifier -> state
    credentials,  \* identifier -> record
    sessions,     \* identifier -> [expires, ceremony]
    calls,        \* the handlers: where each is, and its locals
    issued,       \* tokens drawn so far
    commits       \* history: what each insert and update that wrote had seen

vars == <<now, ceremonies, credentials, sessions, calls, issued, commits>>

Kinds == {"registration", "authentication"}

-----------------------------------------------------------------------------
(***************************************************************************)
(* The store.                                                              *)
(***************************************************************************)

\* prune with the deadline taken one tick early.
ExpiredEarly(entries) == {k \in DOMAIN entries : now + 1 >= entries[k].expires}

Expired(entries) == {k \in DOMAIN entries : now >= entries[k].expires}

\* prune: what is left of the ceremonies and the sessions.
Pruned ==
    [ceremonies |-> [k \in Kinds |->
         Without(ceremonies[k], Expired(ceremonies[k]))],
     sessions |-> Without(sessions, Expired(sessions))]

\* A begin handler's write with its limit off by one.
SavedStatesOverfull(kind, cookie, id, state) ==
    LET kept == Without(Pruned.ceremonies[kind], {cookie}) IN
    IF Cardinality(DOMAIN kept) > CeremonyCapacity THEN kept
    ELSE With(kept, id, state)

\* A begin handler's write that keeps the browser's own entry.
SavedStatesAccumulate(kind, cookie, id, state) ==
    LET kept == Pruned.ceremonies[kind] IN
    IF Cardinality(DOMAIN kept) >= CeremonyCapacity THEN kept
    ELSE With(kept, id, state)

\* A begin handler's write: the ceremony the browser had open is dropped, and
\* the new one stored when there is room.
SavedStates(kind, cookie, id, state) ==
    LET kept == Without(Pruned.ceremonies[kind], {cookie}) IN
    IF Cardinality(DOMAIN kept) >= CeremonyCapacity THEN kept
    ELSE With(kept, id, state)

\* insert.
InsertAdmits(record) ==
    /\ record.id \notin DOMAIN credentials
    /\ Cardinality(DOMAIN credentials) < CredentialCapacity

\* lookup: the handle of the response must be the owner's.
LookupFinds(id, user) ==
    id \in DOMAIN credentials /\ credentials[id].user = user

\* update that writes over whatever is stored.
UpdateAdmitsBlindly(update) == update.id \in DOMAIN credentials

\* update.
UpdateAdmits(update) ==
    /\ update.id \in DOMAIN credentials
    /\ ApplySucceeds(update, credentials[update.id])

-----------------------------------------------------------------------------
(***************************************************************************)
(* Handlers.                                                               *)
(***************************************************************************)

Idle == [pc |-> "idle"]

At(r, pc) == calls[r].pc = pc

Goto(r, call) == calls' = [calls EXCEPT ![r] = call]

Return(r) == Goto(r, Idle)

\* beginRegistration and beginAuthentication, to the lock.  The descriptors
\* read first only fill the excludeCredentials of the options.
Begin(r, kind, id) ==
    /\ At(r, "idle")
    /\ id \in CeremonyIDs \ issued
    /\ issued' = issued \cup {id}
    /\ Goto(r, [pc |-> "save", kind |-> kind, id |-> id,
                state |-> IF kind = "registration"
                    THEN RegistrationState(RP, User, NoExtensions, FALSE, id, now)
                    ELSE AuthenticationState(RP, None, {}, NoExtensions, id, now)])
    /\ UNCHANGED <<now, ceremonies, credentials, sessions, commits>>

\* Their locked section; a full store answers 429.
Save(r, cookie) ==
    /\ At(r, "save")
    /\ LET call == calls[r] IN
       ceremonies' = [Pruned.ceremonies EXCEPT ![call.kind] =
                          SavedStates(call.kind, cookie, call.id, call.state)]
    /\ sessions' = Pruned.sessions
    /\ Return(r)
    /\ UNCHANGED <<now, credentials, issued, commits>>

\* finishRegistration and finishAuthentication, their first locked section: the
\* state is taken out of the store before the body is read.
Consume(r, kind, id) ==
    /\ At(r, "idle")
    /\ ceremonies' = [Pruned.ceremonies EXCEPT ![kind] = Without(@, {id})]
    /\ sessions' = Pruned.sessions
    /\ IF id \in DOMAIN Pruned.ceremonies[kind]
       THEN Goto(r, [pc |-> kind, id |-> id, state |-> ceremonies[kind][id]])
       ELSE Return(r)
    /\ UNCHANGED <<now, credentials, issued, commits>>

\* finishRegistration, between its locked sections.
VerifyRegistration(r, response) ==
    /\ At(r, "registration")
    /\ LET call == calls[r] IN
       IF FinishRegistrationAccepts(RP, call.state, response, now)
       THEN Goto(r, [pc |-> "insert", id |-> call.id, response |-> response,
                     record |-> RegisteredCredential(call.state, response)])
       ELSE Return(r)
    /\ UNCHANGED <<now, ceremonies, credentials, sessions, issued, commits>>

InsertCredential(r) ==
    /\ At(r, "insert")
    /\ LET call == calls[r] IN
       IF InsertAdmits(call.record)
       THEN /\ credentials' = With(credentials, call.record.id, call.record)
            /\ commits' = commits \cup
                 {[kind |-> "registration", ceremony |-> call.id,
                   record |-> call.record, response |-> call.response]}
       ELSE UNCHANGED <<credentials, commits>>
    /\ Return(r)
    /\ UNCHANGED <<now, ceremonies, sessions, issued>>

\* finishAuthentication, to lookup.
Lookup(r, response) ==
    /\ At(r, "authentication")
    /\ IF LookupFinds(response.rawId, response.userHandle)
       THEN Goto(r, [pc |-> "verify", id |-> calls[r].id,
                     state |-> calls[r].state, response |-> response,
                     record |-> credentials[response.rawId]])
       ELSE Return(r)
    /\ UNCHANGED <<now, ceremonies, credentials, sessions, issued, commits>>

\* A demo that refuses clone risk only.
RiskyCloneOnly(record, authData) == CloneRisk(record.signCount, authData.signCount)

\* A result the demo refuses although the library verified it.
Risky(record, authData) ==
    \/ CloneRisk(record.signCount, authData.signCount)
    \/ UVInitializationPending(record, authData, FALSE)

VerifyAuthentication(r) ==
    /\ At(r, "verify")
    /\ LET call == calls[r] IN
       IF /\ FinishAuthenticationAccepts(RP, call.state, call.response, call.record, now)
          /\ ~Risky(call.record, call.response.authData)
       THEN Goto(r, [call EXCEPT !.pc = "update"])
       ELSE Return(r)
    /\ UNCHANGED <<now, ceremonies, credentials, sessions, issued, commits>>

UpdateCredential(r) ==
    /\ At(r, "update")
    /\ LET call == calls[r]
           update == CredentialUpdate(call.record, call.response.authData,
                         call.response.attachment, RP.updateOnCloneRisk, FALSE)
       IN  IF UpdateAdmits(update)
           THEN /\ credentials' = [credentials EXCEPT ![update.id] = Applied(update, @)]
                /\ commits' = commits \cup
                     {[kind |-> "authentication", ceremony |-> call.id,
                       record |-> call.record, response |-> call.response]}
                /\ Goto(r, [pc |-> "create session", id |-> call.id])
           ELSE Return(r) /\ UNCHANGED <<credentials, commits>>
    /\ UNCHANGED <<now, ceremonies, sessions, issued>>

\* The sessions once a login has replaced the browser's previous session.
SessionsAfterLogin(cookie, id, ceremony) ==
    LET kept == Without(Pruned.sessions, {cookie}) IN
    IF Cardinality(DOMAIN kept) >= SessionCapacity THEN kept
    ELSE With(kept, id, [expires |-> now + SessionTTL, ceremony |-> ceremony])

\* finishAuthentication's last locked section.  A full store answers 429: the
\* ceremony is spent and the counter has moved, but there is no session.
CreateSession(r, cookie, id) ==
    /\ At(r, "create session")
    /\ id \in SessionIDs \ issued
    /\ issued' = issued \cup {id}
    /\ ceremonies' = Pruned.ceremonies
    /\ sessions' = SessionsAfterLogin(cookie, id, calls[r].id)
    /\ Return(r)
    /\ UNCHANGED <<now, credentials, commits>>

\* token failed to read randomness: 500, after the update was written.
TokenFails(r) ==
    /\ At(r, "create session")
    /\ Return(r)
    /\ UNCHANGED <<now, ceremonies, credentials, sessions, issued, commits>>

\* me.
Me ==
    /\ ceremonies' = Pruned.ceremonies
    /\ sessions' = Pruned.sessions
    /\ UNCHANGED <<now, credentials, calls, issued, commits>>

\* The answer of me to a browser with this cookie, were it asked now.
MeAnswer(cookie) == cookie \in DOMAIN Pruned.sessions

\* logout; the store is not pruned here.
Logout(cookie) ==
    /\ sessions' = Without(sessions, {cookie})
    /\ UNCHANGED <<now, ceremonies, credentials, calls, issued, commits>>

Tick ==
    /\ now < MaxTime
    /\ now' = now + 1
    /\ UNCHANGED <<ceremonies, credentials, sessions, calls, issued, commits>>

-----------------------------------------------------------------------------

Init ==
    /\ now = 0
    /\ ceremonies = [k \in Kinds |-> NoEntries]
    /\ credentials = InitialCredentials
    /\ sessions = NoEntries
    /\ calls = [r \in Requests |-> Idle]
    /\ issued = {}
    /\ commits = {}

Step(r) ==
    \/ \E cookie \in CeremonyIDs \cup {None} : Save(r, cookie)
    \/ \E response \in Registrations : VerifyRegistration(r, response)
    \/ InsertCredential(r)
    \/ \E response \in Assertions : Lookup(r, response)
    \/ VerifyAuthentication(r)
    \/ UpdateCredential(r)
    \/ \E cookie \in SessionIDs \cup {None}, id \in SessionIDs : CreateSession(r, cookie, id)
    \/ TokenFails(r)

Next ==
    \/ \E r \in Requests : Step(r)
    \/ \E r \in Requests, kind \in Kinds, id \in CeremonyIDs :
           Begin(r, kind, id) \/ Consume(r, kind, id)
    \/ Me
    \/ \E cookie \in SessionIDs : Logout(cookie)
    \/ Tick

Spec == Init /\ [][Next]_vars

-----------------------------------------------------------------------------
(***************************************************************************)
(* Properties.                                                             *)
(***************************************************************************)

Logins == {c \in commits : c.kind = "authentication"}

\* Whoever `me' calls authenticated has a stored login behind it: a credential
\* of the demo account, registered with user verification, signed the challenge
\* of the very ceremony the session came from, and the session has at most an
\* hour left (me, finishAuthentication).
SessionsAuthentic ==
    \A s \in SessionIDs : MeAnswer(s) =>
        /\ sessions[s].expires \in now + 1 .. now + SessionTTL
        /\ \E c \in Logins :
            /\ c.ceremony = sessions[s].ceremony
            /\ c.response.clientData.challenge = c.ceremony
            /\ c.response.signature.key = credentials[c.record.id].key
            /\ c.response.authData.uv /\ credentials[c.record.id].uvInitialized

LiveEntries(entries) == {k \in DOMAIN entries : now < entries[k].expires}

\* Admission is exact.  A begin or a login is refused for lack of room only
\* while that many live entries belong to other browsers (the 429 answers): an
\* entry that has expired, and the browser's own previous one, never keep it
\* out.  And however handlers interleave, no map outgrows its limit.
AdmissionExact ==
    [][/\ \A r \in Requests :
            /\ \A cookie \in CeremonyIDs :
                (Save(r, cookie) /\ calls[r].id \notin DOMAIN ceremonies'[calls[r].kind]) =>
                    Cardinality(LiveEntries(ceremonies[calls[r].kind]) \ {cookie})
                        >= CeremonyCapacity
            /\ \A cookie, id \in SessionIDs :
                (CreateSession(r, cookie, id) /\ id \notin DOMAIN sessions') =>
                    Cardinality(LiveEntries(sessions) \ {cookie}) >= SessionCapacity
       /\ \A k \in Kinds : Cardinality(DOMAIN ceremonies'[k]) <= CeremonyCapacity
       /\ Cardinality(DOMAIN sessions') <= SessionCapacity
       /\ Cardinality(DOMAIN credentials') <= CredentialCapacity]_vars

\* A live ceremony or session disappears only when a request that carries its
\* own cookie begins, finishes, logs in or logs out: no pruning and no other
\* browser takes it away (prune and the deletes of the handlers).
OnlyOwnEntriesRemoved ==
    [][/\ \A k \in Kinds : \A id \in LiveEntries(ceremonies[k]) \ DOMAIN ceremonies'[k] :
              \E r \in Requests : Save(r, id) \/ Consume(r, k, id)
       /\ \A s \in LiveEntries(sessions) \ DOMAIN sessions' :
              Logout(s) \/ \E r \in Requests, id \in SessionIDs : CreateSession(r, s, id)]_vars

-----------------------------------------------------------------------------

Passkey(record) ==
    [user |-> record.user, key |-> record.key, count |-> record.signCount]

Service == INSTANCE PasskeyService WITH
    InitialPasskeys <- [c \in DOMAIN InitialCredentials |-> Passkey(InitialCredentials[c])],
    passkeys <- [c \in DOMAIN credentials |-> Passkey(credentials[c])],
    spent <- {c.ceremony : c \in commits},
    earned <- {[user |-> User, ceremony |-> calls[r].id] :
                  r \in {q \in Requests : At(q, "create session")}},
    open <- [s \in DOMAIN sessions |-> [user |-> User, ceremony |-> sessions[s].ceremony]]

\* The handlers implement the atomic passkey service: an update that compares
\* only the four previous values, without a row version, is enough for every
\* login to move its counter forward and to spend its own ceremony, whatever
\* other handlers do between lookup and update (finishRegistration,
\* finishAuthentication, store.go).
ImplementsService == Service!ServiceSpec
=============================================================================
