------------------------------- MODULE E2EApp -------------------------------
(***************************************************************************)
(* The end-to-end test application: accounts named by e-mail address and   *)
(* created on first use, registration and login in a platform and a        *)
(* roaming mode, and sessions after either, over one store with several    *)
(* indexes under one mutex.  Ceremonies are never pruned; only             *)
(* verification refuses an expired one.                                    *)
(*                                                                         *)
(* An action is what a handler does from one locked section to the next.   *)
(* A ceremony's identifier and its challenge are one token, as in          *)
(* Quickstart.  The application calls the library's functions directly:    *)
(* the requirement on user verification comes with the ceremony, not from  *)
(* a configuration.                                                        *)
(***************************************************************************)
EXTENDS Ceremony, Maps, FiniteSets

CONSTANTS
    RP,             \* relying party, origin, registries and counter policy
    Emails,         \* e-mail addresses; None is the empty one
    Requests,       \* handler slots
    CeremonyIDs,    \* ceremony identifiers, and challenges
    SessionIDs,     \* session identifiers
    Registrations,  \* registration responses browsers may send
    Assertions,     \* authentication responses browsers may send
    InitialUsers,   \* accounts created earlier: email -> handle
    InitialCredentials,  \* credentials registered earlier: id -> record
    MaxTime         \* bound on the clock

ASSUME E2EAppAssumption ==
    /\ ConfigValid(RP) /\ RP.rejectCloneRisk /\ RP.stateTTL \in Nat \ {0}
    /\ RP.rpId \in RPIDs
    /\ None \notin Emails /\ MaxTime \in Nat
ASSUME ResponsesAssumption ==
    /\ \A r \in Registrations :
           /\ r.credentialId \in CredentialIDs /\ r.key \in Keys /\ r.alg \in Algorithms
           /\ FlagsTyped(r.authData)
    /\ \A a \in Assertions : FlagsTyped(a.authData)
\* What earlier handlers left: accounts with handles of their own, and records
\* of these accounts.
ASSUME InitialStoreAssumption ==
    /\ DOMAIN InitialUsers \subseteq Emails
    /\ \A e \in DOMAIN InitialUsers :
           /\ InitialUsers[e] \in UserHandles
           /\ \A f \in DOMAIN InitialUsers : InitialUsers[e] = InitialUsers[f] => e = f
    /\ DOMAIN InitialCredentials \subseteq CredentialIDs
    /\ \A c \in DOMAIN InitialCredentials :
           /\ InitialCredentials[c] \in CredentialRecord /\ InitialCredentials[c].id = c
           /\ \E e \in DOMAIN InitialUsers : InitialCredentials[c].user = InitialUsers[e]

VARIABLES
    now,            \* the clock
    usersByEmail,   \* email -> handle
    usersByHandle,  \* handle -> email
    states,         \* ceremonies: identifier -> [kind, email, state]
    byID,           \* credentialsByID: identifier -> record
    byUser,         \* credentialsByUserHandle: handle -> identifiers
    sessions,       \* identifier -> [user, ceremony]
    calls,          \* the handlers: where each is, and its locals
    issued,         \* tokens drawn so far
    commits         \* history: what each write of a credential had seen

vars == <<now, usersByEmail, usersByHandle, states, byID, byUser, sessions,
          calls, issued, commits>>

Idle == [pc |-> "idle"]

At(r, pc) == calls[r].pc = pc

Goto(r, call) == calls' = [calls EXCEPT ![r] = call]

Return(r) == Goto(r, Idle)

Fresh(id) == id \notin issued /\ issued' = issued \cup {id}

Users == <<usersByEmail, usersByHandle>>
Credentials == <<byID, byUser>>

\* userVerificationForMode, and the selection of registerOptions.
UserVerificationForMode(mode) ==
    IF mode = "roaming" THEN "preferred" ELSE "required"

\* The library's functions take the ceremony's own requirement.
Relying(uv) == [RP EXCEPT !.registrationUV = uv, !.authenticationUV = uv]

-----------------------------------------------------------------------------
(***************************************************************************)
(* Registration.                                                           *)
(***************************************************************************)

\* getOrCreateUser that creates without looking the address up.
GetOrCreateUserAlways(email, handle) ==
    /\ handle \notin DOMAIN usersByHandle
    /\ usersByEmail' = With(usersByEmail, email, handle)
    /\ usersByHandle' = With(usersByHandle, handle, email)

\* getOrCreateUser: look up and create under one lock; the handle is random.
GetOrCreateUser(email, handle) ==
    IF email \in DOMAIN usersByEmail
    THEN handle = usersByEmail[email] /\ UNCHANGED Users
    ELSE /\ handle \notin DOMAIN usersByHandle
         /\ usersByEmail' = With(usersByEmail, email, handle)
         /\ usersByHandle' = With(usersByHandle, handle, email)

\* registerOptions, to getOrCreateUser and StartRegistration.
RegisterOptions(r, email, mode, handle, id) ==
    /\ At(r, "idle")
    /\ Fresh(id)
    /\ GetOrCreateUser(email, handle)
    /\ Goto(r, [pc |-> "save", id |-> id,
                saved |-> [kind |-> "registration", email |-> email,
                           state |-> RegistrationState(
                               Relying(UserVerificationForMode(mode)), handle,
                               NoExtensions, FALSE, id, now)]])
    /\ UNCHANGED <<now, states, Credentials, sessions, commits>>

\* saveRegistrationState and saveAuthenticationState.
SaveState(r) ==
    /\ At(r, "save")
    /\ states' = With(states, calls[r].id, calls[r].saved)
    /\ Return(r)
    /\ UNCHANGED <<now, Users, Credentials, sessions, issued, commits>>

\* The address of the request is not compared.
EmailMatchesAny(saved, email) == TRUE

\* The address of the request is the one the ceremony was begun for, except
\* that a discoverable login was begun for none.
EmailMatches(saved, email) ==
    saved.email = email \/ (saved.kind = "authentication" /\ saved.email = None)

Open(kind, id) == id \in DOMAIN states /\ states[id].kind = kind

\* registerFinish and loginFinish, to the consume of the ceremony: a request
\* with another address spends the ceremony and is refused.
Consume(r, kind, email, id) ==
    /\ At(r, "idle")
    /\ IF Open(kind, id) /\ EmailMatches(states[id], email)
       THEN Goto(r, [pc |-> kind, id |-> id, email |-> email, saved |-> states[id]])
       ELSE Return(r)
    /\ states' = IF Open(kind, id) THEN Without(states, {id}) ELSE states
    /\ UNCHANGED <<now, Users, Credentials, sessions, issued, commits>>

\* normalizePlaywrightRegistrationJSON: authenticator data that is missing, or
\* repeats the attestation object, is taken from that object.
Normalized(response) ==
    [response EXCEPT !.copyAgrees = @ \/ response.copy \in {"absent", "mirrors"}]

\* registerFinish, between consume and insert.
VerifyRegistration(r, response) ==
    /\ At(r, "registration")
    /\ LET call == calls[r]
           state == call.saved.state
       IN  IF FinishRegistrationAccepts(Relying(state.uv), state, Normalized(response), now)
           THEN Goto(r, [pc |-> "insert", id |-> call.id, saved |-> call.saved,
                         email |-> call.email, response |-> response,
                         record |-> RegisteredCredential(state, response), at |-> now])
           ELSE Return(r)
    /\ UNCHANGED <<now, Users, states, Credentials, sessions, issued, commits>>

\* insertCredential's second index.
Indexed(record) ==
    With(byUser, record.user,
         {record.id} \cup (IF record.user \in DOMAIN byUser THEN byUser[record.user] ELSE {}))

\* A commit of a handler's call, for the history.
Commit(call, kind) ==
    [kind |-> kind, ceremony |-> call.id, saved |-> call.saved, email |-> call.email,
     record |-> call.record, response |-> call.response, at |-> call.at]

InsertCredential(r) ==
    /\ At(r, "insert")
    /\ LET call == calls[r]
           record == call.record
       IN  IF record.id \notin DOMAIN byID
           THEN /\ byID' = With(byID, record.id, record)
                /\ byUser' = Indexed(record)
                /\ commits' = commits \cup {Commit(call, "registration")}
                /\ Goto(r, [pc |-> "set session", id |-> call.id, user |-> record.user])
           ELSE Return(r) /\ UNCHANGED <<Credentials, commits>>
    /\ UNCHANGED <<now, Users, states, sessions, issued>>

-----------------------------------------------------------------------------
(***************************************************************************)
(* Login.                                                                  *)
(***************************************************************************)

SavedLogin(mode, email, expected, allow, id) ==
    [kind |-> "authentication", email |-> email,
     state |-> AuthenticationState(Relying(UserVerificationForMode(mode)),
                                   expected, allow, NoExtensions, id, now)]

\* loginOptions in roaming mode, to userByEmail.
LoginOptionsRoaming(r, email, id) ==
    /\ At(r, "idle")
    /\ Fresh(id)
    /\ email \in DOMAIN usersByEmail
    /\ Goto(r, [pc |-> "list", id |-> id, email |-> email, user |-> usersByEmail[email]])
    /\ UNCHANGED <<now, Users, states, Credentials, sessions, commits>>

\* credentialsForUser and StartAuthentication.
ListCredentials(r) ==
    /\ At(r, "list")
    /\ LET call == calls[r] IN
       IF call.user \in DOMAIN byUser
       THEN Goto(r, [pc |-> "save", id |-> call.id,
                     saved |-> SavedLogin("roaming", call.email, call.user,
                                          byUser[call.user], call.id)])
       ELSE Return(r)
    /\ UNCHANGED <<now, Users, states, Credentials, sessions, issued, commits>>

\* loginOptions in any other mode: a discoverable login.
LoginOptions(r, id) ==
    /\ At(r, "idle")
    /\ Fresh(id)
    /\ Goto(r, [pc |-> "save", id |-> id,
                saved |-> SavedLogin("platform", None, None, {}, id)])
    /\ UNCHANGED <<now, Users, states, Credentials, sessions, commits>>

\* loginFinish, to credentialByID, which does not look at the owner.
Lookup(r, response) ==
    /\ At(r, "authentication")
    /\ IF response.rawId \in DOMAIN byID
       THEN Goto(r, [pc |-> "verify", id |-> calls[r].id, saved |-> calls[r].saved,
                     email |-> calls[r].email, response |-> response,
                     record |-> byID[response.rawId]])
       ELSE Return(r)
    /\ UNCHANGED <<now, Users, states, Credentials, sessions, issued, commits>>

VerifyAuthentication(r) ==
    /\ At(r, "verify")
    /\ LET call == calls[r]
           state == call.saved.state
       IN  IF FinishAuthenticationAccepts(Relying(state.uv), state, call.response,
                                          call.record, now)
           THEN Goto(r, [pc |-> "update", id |-> call.id, saved |-> call.saved,
                         email |-> call.email, response |-> call.response,
                         record |-> call.record, at |-> now])
           ELSE Return(r)
    /\ UNCHANGED <<now, Users, states, Credentials, sessions, issued, commits>>

\* updateCredential without its comparison.
UpdateAdmitsAnyValues(update) == update.id \in DOMAIN byID

\* updateCredential's comparison with the four previous values.
UpdateAdmits(update) ==
    update.id \in DOMAIN byID /\ UpdateMatches(update, byID[update.id])

UpdateCredential(r) ==
    /\ At(r, "update")
    /\ LET call == calls[r]
           update == CredentialUpdate(call.record, call.response.authData,
                                      call.response.attachment, FALSE, FALSE)
       IN  IF UpdateAdmits(update)
           THEN /\ byID' = [byID EXCEPT ![update.id] = Applied(update, @)]
                /\ commits' = commits \cup {Commit(call, "authentication")}
                /\ Goto(r, [pc |-> "set session", id |-> call.id, user |-> call.record.user])
           ELSE Return(r) /\ UNCHANGED <<byID, commits>>
    /\ UNCHANGED <<now, Users, states, byUser, sessions, issued>>

-----------------------------------------------------------------------------
(***************************************************************************)
(* Sessions.                                                               *)
(***************************************************************************)

\* setSession and createSession.  A browser's previous session stays.
CreateSession(r, id) ==
    /\ At(r, "set session")
    /\ Fresh(id)
    /\ sessions' = With(sessions, id, [user |-> calls[r].user, ceremony |-> calls[r].id])
    /\ Return(r)
    /\ UNCHANGED <<now, Users, states, Credentials, commits>>

\* Randomness for the session identifier fails after the credential was written.
TokenFails(r) ==
    /\ At(r, "set session")
    /\ Return(r)
    /\ UNCHANGED <<now, Users, states, Credentials, sessions, issued, commits>>

\* logout.
Logout(id) ==
    /\ id \in DOMAIN sessions
    /\ sessions' = Without(sessions, {id})
    /\ UNCHANGED <<now, Users, states, Credentials, calls, issued, commits>>

\* sessionUser, the answer of me: an address, or None.
SessionUser(id) ==
    IF id \in DOMAIN sessions /\ sessions[id].user \in DOMAIN usersByHandle
    THEN usersByHandle[sessions[id].user] ELSE None

Tick ==
    /\ now < MaxTime
    /\ now' = now + 1
    /\ UNCHANGED <<Users, states, Credentials, sessions, calls, issued, commits>>

-----------------------------------------------------------------------------

Init ==
    /\ now = 0
    /\ usersByEmail = InitialUsers
    /\ usersByHandle = [h \in {InitialUsers[e] : e \in DOMAIN InitialUsers} |->
                           CHOOSE e \in DOMAIN InitialUsers : InitialUsers[e] = h]
    /\ states = NoEntries
    /\ byID = InitialCredentials
    /\ byUser = [h \in {InitialCredentials[c].user : c \in DOMAIN InitialCredentials} |->
                    {c \in DOMAIN InitialCredentials : InitialCredentials[c].user = h}]
    /\ sessions = NoEntries
    /\ calls = [r \in Requests |-> Idle]
    /\ issued = {}
    /\ commits = {}

Arrive(r) ==
    \E id \in CeremonyIDs :
        \/ LoginOptions(r, id)
        \/ \E email \in Emails :
               \/ \E mode \in {"platform", "roaming"}, handle \in UserHandles :
                      RegisterOptions(r, email, mode, handle, id)
               \/ LoginOptionsRoaming(r, email, id)
               \/ Consume(r, "registration", email, id)
        \/ \E email \in Emails \cup {None} : Consume(r, "authentication", email, id)

Step(r) ==
    \/ SaveState(r)
    \/ \E response \in Registrations : VerifyRegistration(r, response)
    \/ InsertCredential(r)
    \/ ListCredentials(r)
    \/ \E response \in Assertions : Lookup(r, response)
    \/ VerifyAuthentication(r)
    \/ UpdateCredential(r)
    \/ \E id \in SessionIDs : CreateSession(r, id)
    \/ TokenFails(r)

Next ==
    \/ \E r \in Requests : Arrive(r) \/ Step(r)
    \/ \E id \in SessionIDs : Logout(id)
    \/ Tick

Spec == Init /\ [][Next]_vars

-----------------------------------------------------------------------------
(***************************************************************************)
(* Properties.                                                             *)
(***************************************************************************)

\* The indexes of the store agree at every moment, although several handlers
\* fill them: addresses and handles are inverse to each other, a credential is
\* listed for its owner and for nobody else, and every owner and every session
\* has an account, so neither me nor loginFinish meets a user it cannot find
\* (getOrCreateUser, insertCredential, sessionUser, userByHandle).
IndexesAgree ==
    /\ \A e \in DOMAIN usersByEmail :
           usersByEmail[e] \in DOMAIN usersByHandle /\ usersByHandle[usersByEmail[e]] = e
    /\ \A h \in DOMAIN usersByHandle :
           usersByHandle[h] \in DOMAIN usersByEmail /\ usersByEmail[usersByHandle[h]] = h
    /\ \A h \in UserHandles :
           (IF h \in DOMAIN byUser THEN byUser[h] ELSE {})
               = {c \in DOMAIN byID : byID[c].user = h}
    /\ \A c \in DOMAIN byID : byID[c].user \in DOMAIN usersByHandle
    /\ \A s \in DOMAIN sessions : SessionUser(s) # None

\* The account a session answers for is the one its ceremony was begun for: a
\* registration or a roaming login ends as the account of the address that was
\* given at both of its ends, and any login as the owner of the credential that
\* signed its challenge.  And although ceremonies stay in the store until
\* somebody finishes them, the response was verified before the deadline
\* (registerFinish, loginFinish).
SessionsAuthentic ==
    \A s \in DOMAIN sessions : \E c \in commits :
        /\ c.ceremony = sessions[s].ceremony
        /\ c.response.clientData.challenge = c.ceremony
        /\ c.at < c.saved.state.expires
        /\ byID[c.record.id].user = sessions[s].user
        /\ c.saved.email # None => c.saved.email = c.email /\ SessionUser(s) = c.email
        /\ c.kind = "authentication" =>
               c.response.signature.key = byID[c.record.id].key

Passkey(record) ==
    [user |-> record.user, key |-> record.key, count |-> record.signCount]

Service == INSTANCE PasskeyService WITH
    InitialPasskeys <- [c \in DOMAIN InitialCredentials |-> Passkey(InitialCredentials[c])],
    passkeys <- [c \in DOMAIN byID |-> Passkey(byID[c])],
    spent <- {c.ceremony : c \in commits},
    earned <- {[user |-> calls[r].user, ceremony |-> calls[r].id] :
                  r \in {q \in Requests : At(q, "set session")}},
    open <- sessions

\* The handlers implement the atomic passkey service: the library's rejection of
\* clone risk and the comparison of the four previous values order racing logins
\* (loginFinish, updateCredential, insertCredential).
ImplementsService == Service!ServiceSpec
=============================================================================
