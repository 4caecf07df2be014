----------------------------- MODULE Integration -----------------------------
(***************************************************************************)
(* The reference integration: concurrent HTTP handlers that run the four   *)
(* operations of the application (begin and finish of enrollment and of    *)
(* login) against four stores, each protected by its own mutex.            *)
(*                                                                         *)
(* An action is what one handler does from one store operation to the      *)
(* next: a store operation is atomic under its lock, and the computation   *)
(* that follows it touches only the handler's locals.  Between two actions *)
(* of a handler any other handler, the clock, a change of enrollment       *)
(* grants or a cancellation of the request may step in.                    *)
(*                                                                         *)
(* The random ceremony identifier and the random challenge of a ceremony   *)
(* are drawn together, from a finite set that stands for 256 fresh bits    *)
(* each, so one token names both.  It is drawn when the request arrives:   *)
(* nothing can depend on it earlier than the code draws it.                *)
(*                                                                         *)
(* What a browser sends (session cookie, ceremony identifier, response     *)
(* body) is arbitrary: it is chosen from the constants below with no       *)
(* relation to what was issued.                                            *)
(***************************************************************************)
EXTENDS Ceremony

CONSTANTS
    RP,                  \* configuration of the relying party
    BrowserSessions,     \* browser sessions the host has established
    PresentedSessions,   \* session values requests carry; None is an empty one
    Requests,            \* handler slots
    CeremonyIDs,         \* ceremony identifiers, and challenges
    SessionIDs,          \* identifiers of authenticated sessions
    Registrations,       \* registration responses browsers may send
    Assertions,          \* authentication responses browsers may send
    InitialCredentials,  \* rows stored earlier: id -> [record, version]
    InitialGrants,       \* enrollment grants: browser session -> user
    Operations,          \* the requests and host operations that occur
    Capacity,            \* entries the ceremony store holds; 128 in the code
    MaxVersion,          \* largest row version; 2^64 - 1 in the code
    MaxTime              \* bound on the clock

ASSUME RPAssumption ==
    ConfigValid(RP) /\ RP.rpId \in RPIDs /\ RP.stateTTL \in Nat \ {0}
ASSUME SessionAssumption ==
    None \notin BrowserSessions /\ PresentedSessions \subseteq BrowserSessions \cup {None}
ASSUME BoundAssumption ==
    /\ Capacity \in Nat
    /\ MaxVersion \in Nat \ {0}
    /\ MaxTime \in Nat
ASSUME ResponseAssumption ==
    /\ \A r \in Registrations :
           /\ r.credentialId \in CredentialIDs
           /\ r.key \in Keys
           /\ r.alg \in Algorithms
           /\ r.authData.signCount \in SignCount
           /\ r.authData.be \in BOOLEAN
           /\ r.authData.bs \in BOOLEAN
           /\ r.authData.uv \in BOOLEAN
    /\ \A a \in Assertions :
           /\ a.authData.signCount \in SignCount
           /\ a.authData.bs \in BOOLEAN
           /\ a.authData.uv \in BOOLEAN
ASSUME InitialAssumption ==
    /\ InitialGrants \in [BrowserSessions -> UserHandles \cup {None}]
    /\ DOMAIN InitialCredentials \subseteq CredentialIDs
    /\ \A c \in DOMAIN InitialCredentials :
           /\ InitialCredentials[c] \in [record : CredentialRecord, version : 1 .. MaxVersion]
           /\ InitialCredentials[c].record.id = c
           /\ RecordValid(InitialCredentials[c].record)

VARIABLES
    now,          \* the clock
    grants,       \* accountStore: which account a session may enroll for
    ceremonies,   \* ceremonyStore: identifier -> savedCeremony
    credentials,  \* credentialStore: identifier -> [record, version]
    sessions,     \* sessionStore: identifier -> [user, ceremony]
    calls,        \* the handlers: where each is, and its locals
    issued,       \* tokens drawn so far
    commits       \* history: what each Insert and Update that wrote had seen

vars == <<now, grants, ceremonies, credentials, sessions, calls, issued, commits>>

-----------------------------------------------------------------------------
(***************************************************************************)
(* Stores.                                                                 *)
(***************************************************************************)

\* EnrollmentUser; None is errDenied.
EnrollmentUser(session) ==
    IF session \in BrowserSessions THEN grants[session] ELSE None

\* The identifiers that List returns for a user.
CredentialsOf(user) ==
    {c \in DOMAIN credentials : credentials[c].record.user = user}

Live(saved) == now < saved.expires

\* Save's pruning left out.
KeptUnpruned(id) == TRUE

\* Save first prunes what has expired.
Kept(id) == Live(ceremonies[id])

KeptIDs == {id \in DOMAIN ceremonies : Kept(id)}

\* Save's limit, off by one.
RoomForTooMany(ids) == Cardinality(ids) <= Capacity

\* Save's limit.
RoomFor(ids) == Cardinality(ids) < Capacity

SaveAdmits(id, saved) ==
    /\ id \notin KeptIDs
    /\ saved.session # None
    /\ Live(saved)
    /\ RoomFor(KeptIDs)

\* Consume's comparison.  `accounts' are the accounts the caller accepts.
ConsumeMatchesAnyAccount(id, session, kind, accounts) ==
    /\ id \in DOMAIN ceremonies
    /\ session # None
    /\ ceremonies[id].session = session
    /\ ceremonies[id].kind = kind

ConsumeMatches(id, session, kind, accounts) ==
    /\ id \in DOMAIN ceremonies
    /\ session # None
    /\ ceremonies[id].session = session
    /\ ceremonies[id].kind = kind
    /\ ceremonies[id].account \in accounts

AnyAccount == UserHandles \cup {None}

-----------------------------------------------------------------------------
(***************************************************************************)
(* Handlers.                                                               *)
(***************************************************************************)

Idle == [pc |-> "idle"]

At(r, pc) == calls[r].pc = pc

Goto(r, call) == calls' = [calls EXCEPT ![r] = call]

\* The handler returns, with a result or with an error.
Return(r) == Goto(r, Idle)

Arrives(r, operation) == operation \in Operations /\ At(r, "idle")

\* Consume that deletes the entry before it looks at whose it is.
ConsumeUnchecked(r, id, session, kind, accounts, next) ==
    /\ ceremonies' = [i \in DOMAIN ceremonies \ {id} |-> ceremonies[i]]
    /\ Goto(r, IF ConsumeMatches(id, session, kind, accounts) /\ Live(ceremonies[id])
               THEN next ELSE Idle)

\* Consume that leaves the entry in the store.
ConsumeKeeps(r, id, session, kind, accounts, next) ==
    /\ Goto(r, IF ConsumeMatches(id, session, kind, accounts) /\ Live(ceremonies[id])
               THEN next ELSE Idle)
    /\ UNCHANGED ceremonies

\* Consume: only the request the ceremony belongs to removes it, and that
\* request removes it even when it turns out to be too late.
Consume(r, id, session, kind, accounts, next) ==
    IF ConsumeMatches(id, session, kind, accounts)
    THEN /\ ceremonies' = [i \in DOMAIN ceremonies \ {id} |-> ceremonies[i]]
         /\ Goto(r, IF Live(ceremonies[id]) THEN next ELSE Idle)
    ELSE Return(r) /\ UNCHANGED ceremonies

\* beginEnrollment, to EnrollmentUser.  A denied request changes nothing.
BeginEnrollment(r, session, id) ==
    /\ Arrives(r, "beginEnrollment")
    /\ id \in CeremonyIDs \ issued
    /\ EnrollmentUser(session) # None
    /\ issued' = issued \cup {id}
    /\ Goto(r, [pc |-> "start registration", id |-> id, session |-> session,
                user |-> EnrollmentUser(session)])
    /\ UNCHANGED <<now, grants, ceremonies, credentials, sessions, commits>>

\* List, whose answer only fills the excludeCredentials of the options, and
\* StartRegistration, which cannot fail without extension inputs.
StartRegistration(r) ==
    /\ At(r, "start registration")
    /\ LET call == calls[r]
           state == RegistrationState(RP, call.user, NoExtensions, FALSE,
                                      call.id, now)
       IN  Goto(r, [pc |-> "save", id |-> call.id,
                    saved |-> [kind |-> "registration", session |-> call.session,
                               account |-> call.user,
                               expires |-> state.expires, state |-> state]])
    /\ UNCHANGED <<now, grants, ceremonies, credentials, sessions, issued, commits>>

\* beginLogin with a username, to UserByName.  An unknown name is denied.
BeginLogin(r, session, user, id) ==
    /\ Arrives(r, "beginLogin")
    /\ id \in CeremonyIDs \ issued
    /\ issued' = issued \cup {id}
    /\ Goto(r, [pc |-> "list credentials", id |-> id, session |-> session,
                user |-> user])
    /\ UNCHANGED <<now, grants, ceremonies, credentials, sessions, commits>>

\* beginLogin without one: nothing to look up before StartAuthentication.
BeginDiscoverableLogin(r, session, id) ==
    /\ Arrives(r, "beginLogin")
    /\ id \in CeremonyIDs \ issued
    /\ issued' = issued \cup {id}
    /\ Goto(r, [pc |-> "start authentication", id |-> id, session |-> session,
                expected |-> None, allow |-> {}])
    /\ UNCHANGED <<now, grants, ceremonies, credentials, sessions, commits>>

\* ListCredentials without the empty-list check.
ListCredentialsUnchecked(r) ==
    /\ At(r, "list credentials")
    /\ LET call == calls[r] IN
       Goto(r, [pc |-> "start authentication", id |-> call.id,
                session |-> call.session, expected |-> call.user,
                allow |-> CredentialsOf(call.user)])
    /\ UNCHANGED <<now, grants, ceremonies, credentials, sessions, issued, commits>>

\* List: an account without credentials is denied, because an empty allow
\* list would be a discoverable login.
ListCredentials(r) ==
    /\ At(r, "list credentials")
    /\ LET call == calls[r] IN
       IF CredentialsOf(call.user) = {}
       THEN Return(r)
       ELSE Goto(r, [pc |-> "start authentication", id |-> call.id,
                     session |-> call.session, expected |-> call.user,
                     allow |-> CredentialsOf(call.user)])
    /\ UNCHANGED <<now, grants, ceremonies, credentials, sessions, issued, commits>>

StartAuthentication(r) ==
    /\ At(r, "start authentication")
    /\ LET call == calls[r]
           state == AuthenticationState(RP, call.expected, call.allow,
                                        NoExtensions, call.id, now)
       IN  Goto(r, [pc |-> "save", id |-> call.id,
                    saved |-> [kind |-> "authentication", session |-> call.session,
                               account |-> call.expected,
                               expires |-> state.expires, state |-> state]])
    /\ UNCHANGED <<now, grants, ceremonies, credentials, sessions, issued, commits>>

\* Save that waits for a free entry.
SaveCeremonyWaits(r) ==
    /\ At(r, "save")
    /\ SaveAdmits(calls[r].id, calls[r].saved)
    /\ ceremonies' = [i \in KeptIDs \cup {calls[r].id} |->
                         IF i = calls[r].id THEN calls[r].saved ELSE ceremonies[i]]
    /\ Return(r)
    /\ UNCHANGED <<now, grants, credentials, sessions, issued, commits>>

\* save, and Save of the store; an empty session is refused before the store
\* prunes.
SaveCeremony(r) ==
    /\ At(r, "save")
    /\ LET id == calls[r].id
           saved == calls[r].saved
       IN  ceremonies' =
             IF saved.session = None THEN ceremonies
             ELSE [i \in KeptIDs \cup (IF SaveAdmits(id, saved) THEN {id} ELSE {})
                      |-> IF i = id THEN saved ELSE ceremonies[i]]
    /\ Return(r)
    /\ UNCHANGED <<now, grants, credentials, sessions, issued, commits>>

-----------------------------------------------------------------------------

\* finishEnrollment, to EnrollmentUser: the grant is read again.
FinishEnrollment(r, session, id) ==
    /\ Arrives(r, "finishEnrollment")
    /\ EnrollmentUser(session) # None
    /\ Goto(r, [pc |-> "consume registration", id |-> id, session |-> session,
                user |-> EnrollmentUser(session)])
    /\ UNCHANGED <<now, grants, ceremonies, credentials, sessions, issued, commits>>

ConsumeRegistration(r) ==
    /\ At(r, "consume registration")
    /\ LET call == calls[r] IN
       Consume(r, call.id, call.session, "registration", {call.user},
               [pc |-> "verify registration", id |-> call.id,
                session |-> call.session, user |-> call.user,
                saved |-> ceremonies[call.id]])
    /\ UNCHANGED <<now, grants, credentials, sessions, issued, commits>>

\* The stored payload decodes to a state that agrees with its envelope, and
\* FinishRegistration accepts the body.
VerifyRegistration(r, response) ==
    /\ At(r, "verify registration")
    /\ LET call == calls[r]
           saved == call.saved
       IN  IF /\ saved.state.user = saved.account
              /\ saved.state.expires = saved.expires
              /\ FinishRegistrationAccepts(RP, saved.state, response, now)
           THEN Goto(r, [pc |-> "insert", id |-> call.id,
                         session |-> call.session, user |-> call.user,
                         saved |-> saved, response |-> response,
                         record |-> RegisteredCredential(saved.state, response),
                         verifiedAt |-> now])
           ELSE Return(r)
    /\ UNCHANGED <<now, grants, ceremonies, credentials, sessions, issued, commits>>

\* Insert that replaces an existing row.
InsertOverwrites(id) == TRUE

\* Insert's uniqueness constraint.
InsertAdmits(id) == id \notin DOMAIN credentials

InsertCredential(r) ==
    /\ At(r, "insert")
    /\ LET call == calls[r]
           id == call.record.id
       IN  IF RecordValid(call.record) /\ InsertAdmits(id)
           THEN /\ credentials' =
                     [c \in DOMAIN credentials \cup {id} |->
                         IF c = id THEN [record |-> call.record, version |-> 1]
                         ELSE credentials[c]]
                /\ commits' = commits \cup
                     {[kind |-> "registration", ceremony |-> call.id,
                       session |-> call.session, user |-> call.user,
                       saved |-> call.saved, response |-> call.response,
                       record |-> call.record, version |-> 0,
                       verifiedAt |-> call.verifiedAt]}
           ELSE UNCHANGED <<credentials, commits>>
    /\ Return(r)
    /\ UNCHANGED <<now, grants, ceremonies, sessions, issued>>

-----------------------------------------------------------------------------

\* finishLogin, to Consume: any account the ceremony was started for.
FinishLogin(r, session, id) ==
    /\ Arrives(r, "finishLogin")
    /\ Consume(r, id, session, "authentication", AnyAccount,
               [pc |-> "lookup", id |-> id, session |-> session,
                saved |-> ceremonies[id]])
    /\ UNCHANGED <<now, grants, credentials, sessions, issued, commits>>

\* The account whose credential is looked up: the expected one, or the one
\* the response hints at.
LookupUser(state, response) ==
    IF state.expected # None THEN state.expected ELSE response.userHandle

\* Lookup returns a credential of that account.
LookupFinds(id, user) ==
    /\ user # None
    /\ id \in DOMAIN credentials
    /\ credentials[id].record.user = user

LookupCredential(r, response) ==
    /\ At(r, "lookup")
    /\ LET call == calls[r]
           saved == call.saved
       IN  IF /\ saved.state.expected = saved.account
              /\ saved.state.expires = saved.expires
              /\ LookupFinds(response.rawId, LookupUser(saved.state, response))
           THEN Goto(r, [pc |-> "verify authentication", id |-> call.id,
                         session |-> call.session, saved |-> saved,
                         response |-> response,
                         record |-> credentials[response.rawId].record,
                         version |-> credentials[response.rawId].version])
           ELSE Return(r)
    /\ UNCHANGED <<now, grants, ceremonies, credentials, sessions, issued, commits>>

\* finishLogin denies a risky result; it never authorises UV initialisation.
Risky(record, authData) ==
    \/ CloneRisk(record.signCount, authData.signCount)
    \/ UVInitializationPending(record, authData, FALSE)

VerifyAuthentication(r) ==
    /\ At(r, "verify authentication")
    /\ LET call == calls[r]
           authData == call.response.authData
       IN  IF /\ FinishAuthenticationAccepts(RP, call.saved.state, call.response,
                                             call.record, now)
              /\ ~Risky(call.record, authData)
           THEN Goto(r, [pc |-> "update", id |-> call.id,
                         session |-> call.session, saved |-> call.saved,
                         response |-> call.response, record |-> call.record,
                         version |-> call.version, verifiedAt |-> now])
           ELSE Return(r)
    /\ UNCHANGED <<now, grants, ceremonies, credentials, sessions, issued, commits>>

\* The Update of the AuthenticationResult, computed from what was read.
UpdateOf(call) ==
    CredentialUpdate(call.record, call.response.authData,
                     call.response.attachment, RP.updateOnCloneRisk, FALSE)

\* Update without the row version: only the values are compared.
UpdateAdmitsSameValues(update, version) ==
    /\ update.id \in DOMAIN credentials
    /\ ApplySucceeds(update, credentials[update.id].record)

\* Update without its guard against wrapping the version.
UpdateAdmitsAtLimit(update, version) ==
    /\ update.id \in DOMAIN credentials
    /\ credentials[update.id].version = version
    /\ ApplySucceeds(update, credentials[update.id].record)

\* Update's compare-and-swap on the row version, and ApplyTo.
UpdateAdmits(update, version) ==
    /\ update.id \in DOMAIN credentials
    /\ credentials[update.id].version = version
    /\ version # MaxVersion
    /\ ApplySucceeds(update, credentials[update.id].record)

\* A conflict ends the login without a session.
UpdateCredential(r) ==
    /\ At(r, "update")
    /\ LET call == calls[r]
           update == UpdateOf(call)
       IN  IF UpdateAdmits(update, call.version)
           THEN /\ credentials' = [credentials EXCEPT ![update.id] =
                     [record |-> Applied(update, @.record),
                      version |-> call.version + 1]]
                /\ commits' = commits \cup
                     {[kind |-> "authentication", ceremony |-> call.id,
                       session |-> call.session, user |-> call.record.user,
                       saved |-> call.saved, response |-> call.response,
                       record |-> call.record, version |-> call.version,
                       verifiedAt |-> call.verifiedAt]}
                /\ Goto(r, [pc |-> "create session", id |-> call.id,
                            user |-> call.record.user])
           ELSE Return(r) /\ UNCHANGED <<credentials, commits>>
    /\ UNCHANGED <<now, grants, ceremonies, sessions, issued>>

\* sessions.Create; the ceremony it came from is history.
CreateSession(r, id) ==
    /\ At(r, "create session")
    /\ id \in SessionIDs \ DOMAIN sessions
    /\ sessions' = [s \in DOMAIN sessions \cup {id} |->
                       IF s = id THEN [user |-> calls[r].user,
                                       ceremony |-> calls[r].id]
                       ELSE sessions[s]]
    /\ Return(r)
    /\ UNCHANGED <<now, grants, ceremonies, credentials, issued, commits>>

-----------------------------------------------------------------------------
(***************************************************************************)
(* The environment.                                                        *)
(***************************************************************************)

\* The request's context is cancelled: the next store operation, and the
\* extension verification, return the context's error.  With durable stores
\* this is also a crash of the handler.
Cancel(r) ==
    /\ ~At(r, "idle")
    /\ "cancel" \in Operations
    /\ Return(r)
    /\ UNCHANGED <<now, grants, ceremonies, credentials, sessions, issued, commits>>

Tick ==
    /\ now < MaxTime
    /\ now' = now + 1
    /\ UNCHANGED <<grants, ceremonies, credentials, sessions, calls, issued, commits>>

\* The host grants, moves or revokes the enrollment right of a session.
Provision(session, user) ==
    /\ "provision" \in Operations
    /\ grants' = [grants EXCEPT ![session] = user]
    /\ UNCHANGED <<now, ceremonies, credentials, sessions, calls, issued, commits>>

-----------------------------------------------------------------------------

Init ==
    /\ now = 0
    /\ grants = InitialGrants
    /\ ceremonies = [id \in {} |-> Idle]
    /\ credentials = InitialCredentials
    /\ sessions = [id \in {} |-> Idle]
    /\ calls = [r \in Requests |-> Idle]
    /\ issued = {}
    /\ commits = {}

\* A request arrives.
Request(r) ==
    \E session \in PresentedSessions, id \in CeremonyIDs :
        \/ BeginEnrollment(r, session, id)
        \/ FinishEnrollment(r, session, id)
        \/ \E user \in UserHandles : BeginLogin(r, session, user, id)
        \/ BeginDiscoverableLogin(r, session, id)
        \/ FinishLogin(r, session, id)

\* A handler under way takes its next step.
Step(r) ==
    \/ StartRegistration(r)
    \/ ListCredentials(r)
    \/ StartAuthentication(r)
    \/ SaveCeremony(r)
    \/ ConsumeRegistration(r)
    \/ \E response \in Registrations : VerifyRegistration(r, response)
    \/ InsertCredential(r)
    \/ \E response \in Assertions : LookupCredential(r, response)
    \/ VerifyAuthentication(r)
    \/ UpdateCredential(r)
    \/ \E id \in SessionIDs : CreateSession(r, id)

Next ==
    \/ \E r \in Requests : Request(r) \/ Step(r) \/ Cancel(r)
    \/ Tick
    \/ \E session \in BrowserSessions, user \in UserHandles \cup {None} :
           Provision(session, user)

Spec == Init /\ [][Next]_vars

\* Go runs every runnable goroutine and no store operation blocks for ever:
\* a handler that can take its next step eventually does.
Fairness == \A r \in Requests : WF_vars(Step(r))

FairSpec == Spec /\ Fairness

-----------------------------------------------------------------------------
(***************************************************************************)
(* Types.                                                                  *)
(***************************************************************************)

RegistrationStates ==
    {RegistrationState(RP, user, NoExtensions, FALSE, id, time) :
        user \in UserHandles, id \in CeremonyIDs, time \in 0 .. MaxTime}

AuthenticationStates ==
    {AuthenticationState(RP, expected, allow, NoExtensions, id, time) :
        expected \in AnyAccount, allow \in SUBSET CredentialIDs,
        id \in CeremonyIDs, time \in 0 .. MaxTime}

SavedRegistration ==
    [kind : {"registration"}, session : PresentedSessions, account : UserHandles,
     expires : Nat, state : RegistrationStates]

SavedAuthentication ==
    [kind : {"authentication"}, session : PresentedSessions, account : AnyAccount,
     expires : Nat, state : AuthenticationStates]

SavedCeremony == SavedRegistration \cup SavedAuthentication

Time == 0 .. MaxTime
Version == 1 .. MaxVersion

\* A row of the credential store.
Row == [record : CredentialRecord, version : Version]

\* A handler's locals, one set for each place where it can be.
UserCall ==
    [pc : {"start registration", "consume registration", "list credentials"},
     id : CeremonyIDs, session : PresentedSessions, user : UserHandles]

StartAuthenticationCall ==
    [pc : {"start authentication"}, id : CeremonyIDs, session : PresentedSessions,
     expected : AnyAccount, allow : SUBSET CredentialIDs]

SaveCall == [pc : {"save"}, id : CeremonyIDs, saved : SavedCeremony]

VerifyRegistrationCall ==
    [pc : {"verify registration"}, id : CeremonyIDs, session : PresentedSessions,
     user : UserHandles, saved : SavedRegistration]

InsertCall ==
    [pc : {"insert"}, id : CeremonyIDs, session : PresentedSessions,
     user : UserHandles, saved : SavedRegistration, response : Registrations,
     record : CredentialRecord, verifiedAt : Time]

LookupCall ==
    [pc : {"lookup"}, id : CeremonyIDs, session : PresentedSessions,
     saved : SavedAuthentication]

VerifyAuthenticationCall ==
    [pc : {"verify authentication"}, id : CeremonyIDs,
     session : PresentedSessions, saved : SavedAuthentication,
     response : Assertions, record : CredentialRecord, version : Version]

UpdateCall ==
    [pc : {"update"}, id : CeremonyIDs, session : PresentedSessions,
     saved : SavedAuthentication, response : Assertions,
     record : CredentialRecord, version : Version, verifiedAt : Time]

CreateSessionCall ==
    [pc : {"create session"}, id : CeremonyIDs, user : UserHandles]

Call ==
    {Idle} \cup UserCall \cup StartAuthenticationCall \cup SaveCall
    \cup VerifyRegistrationCall \cup InsertCall \cup LookupCall
    \cup VerifyAuthenticationCall \cup UpdateCall \cup CreateSessionCall

RegistrationCommit ==
    [kind : {"registration"}, ceremony : CeremonyIDs, session : PresentedSessions,
     user : UserHandles, saved : SavedRegistration, response : Registrations,
     record : CredentialRecord, version : {0}, verifiedAt : Time]

LoginCommit ==
    [kind : {"authentication"}, ceremony : CeremonyIDs, session : PresentedSessions,
     user : UserHandles, saved : SavedAuthentication, response : Assertions,
     record : CredentialRecord, version : Version, verifiedAt : Time]

\* A partial function from a subset of D to R.
Partial(f, D, R) == DOMAIN f \subseteq D /\ \A x \in DOMAIN f : f[x] \in R

\* Type invariant of the stores and the handlers (app.go, memory.go).  The
\* row versions stay within MaxVersion, so they never wrap to a value that an
\* older snapshot could match.
TypeOK ==
    /\ now \in Time
    /\ grants \in [BrowserSessions -> UserHandles \cup {None}]
    /\ Partial(ceremonies, CeremonyIDs, SavedCeremony)
    /\ Partial(credentials, CredentialIDs, Row)
    /\ Partial(sessions, SessionIDs, [user : UserHandles, ceremony : CeremonyIDs])
    /\ calls \in [Requests -> Call]
    /\ issued \subseteq CeremonyIDs
    /\ commits \subseteq RegistrationCommit \cup LoginCommit

-----------------------------------------------------------------------------
(***************************************************************************)
(* Safety.                                                                 *)
(***************************************************************************)

\* What never changes about a credential.
Identity(record) ==
    [id |-> record.id, user |-> record.user, rpId |-> record.rpId,
     key |-> record.key, alg |-> record.alg, be |-> record.backupEligible]

Logins == {c \in commits : c.kind = "authentication"}

\* Every authenticated session rests on a stored login: the credential update
\* was written before the session existed, the session's user owns that
\* credential, the credential's key signed the challenge of exactly this
\* ceremony, and a login begun for a named user ended as that user with one of
\* the credentials listed for it (finishLogin).
SessionsAuthentic ==
    \A s \in DOMAIN sessions : \E c \in Logins :
        LET row == credentials[c.record.id].record IN
        /\ c.ceremony = sessions[s].ceremony
        /\ c.user = sessions[s].user
        /\ row.user = c.user
        /\ c.response.signature.key = row.key
        /\ c.response.clientData.challenge = c.ceremony
        /\ c.saved.account \in {None, c.user}
        /\ c.saved.account # None => c.record.id \in c.saved.state.allow

\* A ceremony is used once: whatever two handlers do at the same time, no two
\* writes and no two sessions come from the same ceremony (Consume).
CeremoniesUsedOnce ==
    /\ \A c, d \in commits : c.ceremony = d.ceremony => c = d
    /\ \A s, t \in DOMAIN sessions :
           sessions[s].ceremony = sessions[t].ceremony => s = t

\* A handler owns the token it carries, except one that has yet to consume the
\* ceremony its request names.
Owns(r) == calls[r].pc \notin {"idle", "consume registration"}

StoredTokensIssued == DOMAIN ceremonies \subseteq issued

OwnedTokensApart ==
    \A r \in Requests : Owns(r) => calls[r].id \in issued \ DOMAIN ceremonies

OneOwner ==
    \A q, r \in Requests : (Owns(q) /\ Owns(r) /\ calls[q].id = calls[r].id) => q = r

\* A token with which something was written is gone, but for its session.
WrittenTokensApart ==
    \A c \in commits :
        /\ c.ceremony \in issued \ DOMAIN ceremonies
        /\ \A r \in Requests :
               (Owns(r) /\ calls[r].id = c.ceremony) => At(r, "create session")

WrittenOnce == \A c, d \in commits : c.ceremony = d.ceremony => c = d

SessionsToCreate ==
    \A r \in Requests : At(r, "create session") =>
        /\ \E c \in commits : c.ceremony = calls[r].id
        /\ \A s \in DOMAIN sessions : sessions[s].ceremony # calls[r].id

SessionsCreatedOnce ==
    \A s \in DOMAIN sessions :
        /\ \E c \in commits : c.ceremony = sessions[s].ceremony
        /\ \A t \in DOMAIN sessions :
               sessions[s].ceremony = sessions[t].ceremony => s = t

\* Every token is in one place: not yet issued, owned by one handler, in the
\* ceremony store, or used up by one write; and the session of a login is still
\* to be created by the handler that wrote its update or has been created once
\* (app.go, Save, Consume, Insert, Update, Create).
TokensInOnePlace ==
    /\ StoredTokensIssued
    /\ OwnedTokensApart
    /\ OneOwner
    /\ WrittenTokensApart
    /\ WrittenOnce
    /\ SessionsToCreate
    /\ SessionsCreatedOnce

\* Logins with one credential are totally ordered by the row version they
\* replaced, and along that order the authenticator's counter grows, unless it
\* is zero throughout: a cloned authenticator that repeats or lowers a counter
\* never gets a session, even when it races the original (Update, ApplyTo,
\* compareCounters).
CountersAdvance ==
    \A c, d \in Logins :
        (c # d /\ c.record.id = d.record.id) =>
            LET m == c.response.authData.signCount
                n == d.response.authData.signCount
            IN  /\ c.version # d.version
                /\ c.version < d.version => (m < n \/ (m = 0 /\ n = 0))

RowsOwnIDs == \A id \in DOMAIN credentials : credentials[id].record.id = id

\* What a handler read is the row, or an older version of it.
SnapshotBehind(call) ==
    LET row == credentials[call.record.id] IN
    /\ call.record.id \in DOMAIN credentials
    /\ Identity(call.record) = Identity(row.record)
    /\ call.version <= row.version
    /\ call.version = row.version => call.record = row.record

SnapshotsBehind ==
    \A r \in Requests :
        calls[r].pc \in {"verify authentication", "update"} => SnapshotBehind(calls[r])

\* What a login wrote has been overtaken by its row.
LoginsBehind ==
    \A c \in Logins :
        LET row == credentials[c.record.id] IN
        /\ c.record.id \in DOMAIN credentials
        /\ Identity(c.record) = Identity(row.record)
        /\ c.version < row.version
        /\ c.response.authData.signCount <= row.record.signCount

\* Snapshots, logins and rows are ordered by row version, with counters and
\* identities to match: a handler about to update either holds the latest row
\* or will be refused (Lookup, Update).
RowsOrdered == RowsOwnIDs /\ SnapshotsBehind /\ LoginsBehind

\* An enrolled credential belongs to the account that the browser session was
\* entitled to enroll for when the ceremony began and again when it finished,
\* and it was the same session both times (finishEnrollment, Consume).
EnrollmentAuthorized ==
    \A c \in commits :
        c.kind = "registration" =>
            /\ c.record.user = c.user
            /\ c.saved.account = c.user
            /\ c.saved.session = c.session

\* Whatever time passes between Consume and the verification, no response is
\* accepted once the ceremony has expired (validateRegistrationState,
\* validateAuthenticationState).
UsedBeforeExpiry == \A c \in commits : c.verifiedAt < c.saved.expires

\* A ceremony carries its own challenge, and one for a named user a list.
SavedFor(id, saved) ==
    /\ saved.state.challenge = id
    /\ (saved.kind = "authentication" /\ saved.account # None) =>
           saved.state.allow # {}

\* What FinishAuthentication establishes about an assertion of a login that was
\* begun as `saved', for the record it was given.
Authentic(saved, response, record) ==
    /\ response.signature.key = record.key
    /\ response.clientData.challenge = saved.state.challenge
    /\ saved.account \in {None, record.user}
    /\ saved.state.allow # {} => record.id \in saved.state.allow

\* What a handler has established, according to where it is.
VerifiedCall(c) ==
    /\ c.pc = "start authentication" => (c.expected # None => c.allow # {})
    /\ c.pc \in {"save", "verify registration", "insert", "lookup",
                 "verify authentication", "update"} => SavedFor(c.id, c.saved)
    /\ c.pc \in {"verify registration", "insert"} =>
           c.saved.account = c.user /\ c.saved.session = c.session
    /\ c.pc = "insert" => c.record.user = c.user
    /\ c.pc = "verify authentication" =>
           /\ c.saved.state.expected = c.saved.account
           /\ c.saved.state.expires = c.saved.expires
    /\ c.pc \in {"insert", "update"} => c.verifiedAt < c.saved.expires
    /\ c.pc = "update" =>
           /\ Authentic(c.saved, c.response, c.record)
           /\ ~CloneRisk(c.record.signCount, c.response.authData.signCount)

CallsVerified == \A r \in Requests : VerifiedCall(calls[r])

CeremoniesWhole == \A id \in DOMAIN ceremonies : SavedFor(id, ceremonies[id])

LoginsAuthentic ==
    \A c \in Logins :
        /\ c.user = c.record.user
        /\ SavedFor(c.ceremony, c.saved)
        /\ Authentic(c.saved, c.response, c.record)

\* A session, made or about to be made, has a login behind it.
SessionsBacked ==
    /\ \A r \in Requests : At(r, "create session") =>
           \E c \in Logins : c.ceremony = calls[r].id /\ c.user = calls[r].user
    /\ \A s \in DOMAIN sessions :
           \E c \in Logins : /\ c.ceremony = sessions[s].ceremony
                             /\ c.user = sessions[s].user

\* Whatever a handler carries from step to step has been verified as far as
\* the handler has come, and every session has a verified login behind it
\* (finishEnrollment, finishLogin).
HandlersSound ==
    /\ CallsVerified
    /\ CeremoniesWhole
    /\ EnrollmentAuthorized
    /\ UsedBeforeExpiry
    /\ LoginsAuthentic
    /\ SessionsBacked

\* A stored login ceremony for a named user lists at least one credential, and
\* only that user's, however the credential store changed in the meantime: an
\* empty list would turn it into a login that any account's passkey completes
\* (beginLogin).
AllowListOwned ==
    \A id \in DOMAIN ceremonies :
        LET saved == ceremonies[id] IN
        (saved.kind = "authentication" /\ saved.account # None) =>
            /\ saved.state.allow # {}
            /\ \A c \in saved.state.allow :
                   c \in DOMAIN credentials /\ credentials[c].record.user = saved.account

-----------------------------------------------------------------------------
(***************************************************************************)
(* Action properties.                                                      *)
(***************************************************************************)

CredentialsKept ==
    \A c \in DOMAIN credentials :
        /\ c \in DOMAIN credentials'
        /\ Identity(credentials'[c].record) = Identity(credentials[c].record)
        /\ credentials'[c].record.signCount >= credentials[c].record.signCount
        /\ \/ credentials'[c] = credentials[c]
           \/ credentials'[c].version = credentials[c].version + 1

\* A stored credential is never removed, never changes owner, key or backup
\* eligibility, its counter never goes back, and every write moves its version
\* by exactly one (Insert, Update).
CredentialsStable == [][CredentialsKept]_vars

\* A live ceremony leaves the store only into the hands of a handler that
\* serves the session that began it: no other request can burn it (Consume).
LiveCeremoniesKept ==
    [][\A id \in DOMAIN ceremonies \ DOMAIN ceremonies' :
          Live(ceremonies[id]) =>
              \E r \in Requests :
                  /\ calls'[r].pc \in {"verify registration", "lookup"}
                  /\ calls'[r].id = id
                  /\ calls'[r].session = ceremonies[id].session]_vars

LiveIDs == {id \in DOMAIN ceremonies : Live(ceremonies[id])}

\* Admission is exact.  A handler that is not cancelled fails to save a fresh
\* ceremony only when the store is full of live ones, because expired entries
\* never use up its capacity; and one that succeeds finds room for itself and
\* all of those, so the store never holds more than its capacity (Save).
AdmissionExact ==
    [][\A r \in Requests :
          ( /\ At(r, "save") /\ calls'[r] = Idle
            /\ calls[r].saved.session # None
            /\ Live(calls[r].saved) )
          => IF calls[r].id \in DOMAIN ceremonies'
             THEN /\ LiveIDs \subseteq DOMAIN ceremonies'
                  /\ Cardinality(DOMAIN ceremonies') <= Capacity
             ELSE Cardinality(LiveIDs) >= Capacity]_vars

-----------------------------------------------------------------------------
(***************************************************************************)
(* Liveness.                                                               *)
(***************************************************************************)

\* Every request is answered: no handler waits for ever for another one, for a
\* slot in the ceremony store or for a row version.
RequestsAnswered == \A r \in Requests : ~At(r, "idle") ~> At(r, "idle")
=============================================================================
