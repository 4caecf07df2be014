-------------------------- MODULE IntegrationProofs --------------------------
(***************************************************************************)
(* Theorems about Integration, for any number of handlers, sessions,       *)
(* accounts, credentials and ceremonies: types; who enrolls and logs in    *)
(* with what, and the order of the writes to one credential; the ceremony  *)
(* store, what a stored ceremony may rely on while the credential store    *)
(* changes under it, how it may leave, and when Save may refuse; and the   *)
(* refinement: the handlers over their stores implement the atomic passkey *)
(* service.                                                                *)
(***************************************************************************)
EXTENDS IntegrationRefinement, FiniteSetTheorems, TLAPS

-----------------------------------------------------------------------------
(***************************************************************************)
(* Types.                                                                  *)
(***************************************************************************)

\* Where a handler is determines what its locals are.
LEMMA CallShape ==
    ASSUME NEW c \in Call
    PROVE  /\ c.pc \in {"start registration", "consume registration",
                        "list credentials"} => c \in UserCall
           /\ c.pc = "start authentication" => c \in StartAuthenticationCall
           /\ c.pc = "save" => c \in SaveCall
           /\ c.pc = "verify registration" => c \in VerifyRegistrationCall
           /\ c.pc = "insert" => c \in InsertCall
           /\ c.pc = "lookup" => c \in LookupCall
           /\ c.pc = "verify authentication" => c \in VerifyAuthenticationCall
           /\ c.pc = "update" => c \in UpdateCall
           /\ c.pc = "create session" => c \in CreateSessionCall
  <1>1. c = Idle => c.pc = "idle"
    BY DEF Idle
  <1>2. c \in UserCall =>
           c.pc \in {"start registration", "consume registration", "list credentials"}
    BY DEF UserCall
  <1>3. c \in StartAuthenticationCall => c.pc = "start authentication"
    BY DEF StartAuthenticationCall
  <1>4. c \in SaveCall => c.pc = "save"
    BY DEF SaveCall
  <1>5. c \in VerifyRegistrationCall => c.pc = "verify registration"
    BY DEF VerifyRegistrationCall
  <1>6. c \in InsertCall => c.pc = "insert"
    BY DEF InsertCall
  <1>7. c \in LookupCall => c.pc = "lookup"
    BY DEF LookupCall
  <1>8. c \in VerifyAuthenticationCall => c.pc = "verify authentication"
    BY DEF VerifyAuthenticationCall
  <1>9. c \in UpdateCall => c.pc = "update"
    BY DEF UpdateCall
  <1>10. c \in CreateSessionCall => c.pc = "create session"
    BY DEF CreateSessionCall
  <1> QED
    BY <1>1, <1>2, <1>3, <1>4, <1>5, <1>6, <1>7, <1>8, <1>9, <1>10 DEF Call

\* A handler's slot changes to another well-formed call.
LEMMA GotoTyped ==
    ASSUME TypeOK, NEW r \in Requests, NEW call \in Call, Goto(r, call)
    PROVE  calls' \in [Requests -> Call]
  BY DEF TypeOK, Goto

LEMMA IdleTyped == Idle \in Call
  BY DEF Call

LEMMA EnrollmentUserTyped ==
    ASSUME TypeOK, NEW session
    PROVE  EnrollmentUser(session) \in UserHandles \cup {None}
  BY DEF TypeOK, EnrollmentUser

\* What an accepted registration stores is a credential record.
LEMMA RegisteredCredentialTyped ==
    ASSUME NEW state \in RegistrationStates, NEW response \in Registrations,
           NEW time, FinishRegistrationAccepts(RP, state, response, time)
    PROVE  RegisteredCredential(state, response) \in CredentialRecord
  <1>1. state.user \in UserHandles /\ state.rpId \in RPIDs
    BY RPAssumption DEF RegistrationStates, RegistrationState
  <1>2. response.attestationType \in KnownAttestationType
    <2>1. Passes(AttestationChecks(RP, response))
      BY DEF FinishRegistrationAccepts
    <2>2. AttestationChecks(RP, response)[4][1]
      BY <2>1 DEF Passes, AttestationChecks
    <2> QED BY <2>2 DEF AttestationChecks
  <1>3. NormalizeAttachment(response.attachment) \in Attachment
    BY DEF NormalizeAttachment, Attachment, KnownAttachment
  <1> QED
    BY <1>1, <1>2, <1>3, ResponseAssumption
    DEF RegisteredCredential, CredentialRecord

\* Applying an update keeps a record a record and its identity as it was.
LEMMA AppliedTyped ==
    ASSUME NEW row \in CredentialRecord, NEW record \in CredentialRecord,
           NEW response \in Assertions, NEW call,
           call.record = record, call.response = response
    PROVE  /\ Applied(UpdateOf(call), row) \in CredentialRecord
           /\ Identity(Applied(UpdateOf(call), row)) = Identity(row)
  <1>1. NextSignCount(record, response.authData, RP.updateOnCloneRisk) \in SignCount
    BY ResponseAssumption DEF NextSignCount, CredentialRecord
  <1>2. NextUVInitialized(record, response.authData, FALSE) \in BOOLEAN
    BY ResponseAssumption DEF NextUVInitialized, CredentialRecord
  <1>3. NextAttachment(record, response.attachment) \in Attachment
    BY DEF NextAttachment, NormalizeAttachment, CredentialRecord, Attachment,
           KnownAttachment
  <1> DEFINE next == UpdateOf(call).next
  <1>4. /\ next.signCount \in SignCount
        /\ next.backupState \in BOOLEAN
        /\ next.uvInitialized \in BOOLEAN
        /\ next.attachment \in Attachment
    BY <1>1, <1>2, <1>3, ResponseAssumption DEF UpdateOf, CredentialUpdate
  <1>5. Applied(UpdateOf(call), row) =
           [row EXCEPT !.signCount = next.signCount,
                       !.backupState = next.backupState,
                       !.uvInitialized = next.uvInitialized,
                       !.attachment = next.attachment]
    BY DEF Applied
  <1> HIDE DEF next
  <1>6. Applied(UpdateOf(call), row) \in CredentialRecord
    BY <1>4, <1>5 DEF CredentialRecord
  <1>7. Identity(Applied(UpdateOf(call), row)) = Identity(row)
    BY <1>5 DEF CredentialRecord, Identity
  <1> QED BY <1>6, <1>7

\* Consume's effect on the handler and on the store.
LEMMA ConsumeTyped ==
    ASSUME TypeOK, NEW r \in Requests, NEW id, NEW session, NEW kind,
           NEW accounts, NEW next,
           ConsumeMatches(id, session, kind, accounts) => next \in Call,
           Consume(r, id, session, kind, accounts, next)
    PROVE  /\ Partial(ceremonies', CeremonyIDs, SavedCeremony)
           /\ calls' \in [Requests -> Call]
  <1>1. CASE ConsumeMatches(id, session, kind, accounts)
    BY <1>1, IdleTyped, GotoTyped DEF Consume, TypeOK, Partial, Goto
  <1>2. CASE ~ConsumeMatches(id, session, kind, accounts)
    BY <1>2, IdleTyped, GotoTyped DEF Consume, TypeOK, Partial, Return
  <1> QED BY <1>1, <1>2

\* The states that Start produces.
LEMMA StatesTyped ==
    /\ \A user \in UserHandles, id \in CeremonyIDs, time \in Time :
           RegistrationState(RP, user, NoExtensions, FALSE, id, time)
               \in RegistrationStates
    /\ \A expected \in AnyAccount, allow \in SUBSET CredentialIDs,
          id \in CeremonyIDs, time \in Time :
           AuthenticationState(RP, expected, allow, NoExtensions, id, time)
               \in AuthenticationStates
  <1> DEFINE R(user, id, time) ==
                RegistrationState(RP, user, NoExtensions, FALSE, id, time)
             A(expected, allow, id, time) ==
                AuthenticationState(RP, expected, allow, NoExtensions, id, time)
  <1>1. RegistrationStates =
           {R(user, id, time) : user \in UserHandles, id \in CeremonyIDs,
                                time \in 0 .. MaxTime}
    BY DEF RegistrationStates
  <1>2. AuthenticationStates =
           {A(expected, allow, id, time) :
               expected \in AnyAccount, allow \in SUBSET CredentialIDs,
               id \in CeremonyIDs, time \in 0 .. MaxTime}
    BY DEF AuthenticationStates
  <1> HIDE DEF R, A
  <1>3. \A user \in UserHandles, id \in CeremonyIDs, time \in Time :
           R(user, id, time) \in RegistrationStates
    BY <1>1 DEF Time
  <1>4. \A expected \in AnyAccount, allow \in SUBSET CredentialIDs,
          id \in CeremonyIDs, time \in Time :
           A(expected, allow, id, time) \in AuthenticationStates
    BY <1>2 DEF Time
  <1> QED BY <1>3, <1>4 DEF R, A

LEMMA InitTyped == Init => TypeOK
  <1> SUFFICES ASSUME Init PROVE TypeOK
    OBVIOUS
  <1>1. Partial(credentials, CredentialIDs, Row)
    BY InitialAssumption DEF Init, Partial, Row, Version
  <1>2. calls \in [Requests -> Call]
    BY IdleTyped DEF Init
  <1> QED
    BY <1>1, <1>2, InitialAssumption, BoundAssumption
    DEF Init, TypeOK, Partial, Time

\* Requests that arrive.
LEMMA RequestTyped ==
    ASSUME TypeOK, NEW r \in Requests, Request(r)
    PROVE  TypeOK'
  <1> PICK session \in PresentedSessions, id \in CeremonyIDs :
          \/ BeginEnrollment(r, session, id)
          \/ FinishEnrollment(r, session, id)
          \/ \E user \in UserHandles : BeginLogin(r, session, user, id)
          \/ BeginDiscoverableLogin(r, session, id)
          \/ FinishLogin(r, session, id)
    BY DEF Request
  <1>1. CASE BeginEnrollment(r, session, id)
    <2> DEFINE call == [pc |-> "start registration", id |-> id,
                        session |-> session, user |-> EnrollmentUser(session)]
    <2>1. call \in Call
      BY <1>1, EnrollmentUserTyped DEF BeginEnrollment, Call, UserCall
    <2>2. calls' \in [Requests -> Call]
      BY <1>1, <2>1, GotoTyped DEF BeginEnrollment
    <2> QED BY <1>1, <2>2 DEF BeginEnrollment, TypeOK, Partial
  <1>2. CASE FinishEnrollment(r, session, id)
    <2> DEFINE call == [pc |-> "consume registration", id |-> id,
                        session |-> session, user |-> EnrollmentUser(session)]
    <2>1. call \in Call
      BY <1>2, EnrollmentUserTyped DEF FinishEnrollment, Call, UserCall
    <2>2. calls' \in [Requests -> Call]
      BY <1>2, <2>1, GotoTyped DEF FinishEnrollment
    <2> QED BY <1>2, <2>2 DEF FinishEnrollment, TypeOK, Partial
  <1>3. ASSUME NEW user \in UserHandles, BeginLogin(r, session, user, id)
        PROVE  TypeOK'
    <2> DEFINE call == [pc |-> "list credentials", id |-> id,
                        session |-> session, user |-> user]
    <2>1. call \in Call
      BY DEF Call, UserCall
    <2>2. calls' \in [Requests -> Call]
      BY <1>3, <2>1, GotoTyped DEF BeginLogin
    <2> QED BY <1>3, <2>2 DEF BeginLogin, TypeOK, Partial
  <1>4. CASE BeginDiscoverableLogin(r, session, id)
    <2> DEFINE call == [pc |-> "start authentication", id |-> id,
                        session |-> session, expected |-> None, allow |-> {}]
    <2>1. call \in Call
      BY DEF Call, StartAuthenticationCall, AnyAccount
    <2>2. calls' \in [Requests -> Call]
      BY <1>4, <2>1, GotoTyped DEF BeginDiscoverableLogin
    <2> QED BY <1>4, <2>2 DEF BeginDiscoverableLogin, TypeOK, Partial
  <1>5. CASE FinishLogin(r, session, id)
    <2> DEFINE call == [pc |-> "lookup", id |-> id, session |-> session,
                        saved |-> ceremonies[id]]
    <2>1. ConsumeMatches(id, session, "authentication", AnyAccount) => call \in Call
      <3> SUFFICES ASSUME ConsumeMatches(id, session, "authentication", AnyAccount)
                   PROVE  call \in Call
        OBVIOUS
      <3>1. ceremonies[id] \in SavedAuthentication
        BY DEF ConsumeMatches, TypeOK, Partial, SavedCeremony, SavedRegistration,
               SavedAuthentication
      <3> QED BY <3>1 DEF Call, LookupCall
    <2>2. /\ Partial(ceremonies', CeremonyIDs, SavedCeremony)
          /\ calls' \in [Requests -> Call]
      <3> HIDE DEF call
      <3>1. Consume(r, id, session, "authentication", AnyAccount, call)
        BY <1>5 DEF FinishLogin, call
      <3> QED BY <2>1, <3>1, ConsumeTyped
    <2> QED BY <1>5, <2>2 DEF FinishLogin, TypeOK, Partial
  <1> QED BY <1>1, <1>2, <1>3, <1>4, <1>5

\* The steps of beginEnrollment and beginLogin.
LEMMA BeginStepTyped ==
    ASSUME TypeOK, NEW r \in Requests,
           \/ StartRegistration(r) \/ ListCredentials(r)
           \/ StartAuthentication(r) \/ SaveCeremony(r)
    PROVE  TypeOK'
  <1> DEFINE c == calls[r]
  <1>0. c \in Call
    BY DEF TypeOK
  <1>1. CASE StartRegistration(r)
    <2>1. c \in UserCall
      BY <1>0, <1>1, CallShape DEF StartRegistration, At
    <2> DEFINE state == RegistrationState(RP, c.user, NoExtensions, FALSE, c.id, now)
               saved == [kind |-> "registration", session |-> c.session,
                         account |-> c.user, expires |-> state.expires,
                         state |-> state]
    <2>2. state \in RegistrationStates
      BY <2>1, StatesTyped DEF UserCall, TypeOK
    <2>3. state.expires \in Nat
      BY RPAssumption, BoundAssumption DEF RegistrationState, TypeOK, Time
    <2>4. saved \in SavedCeremony
      <3> HIDE DEF state
      <3> QED BY <2>1, <2>2, <2>3 DEF SavedCeremony, SavedRegistration, UserCall
    <2>5. [pc |-> "save", id |-> c.id, saved |-> saved] \in Call
      <3> HIDE DEF saved
      <3> QED BY <2>1, <2>4 DEF Call, SaveCall, UserCall
    <2>6. calls' \in [Requests -> Call]
      BY <1>1, <2>5, GotoTyped DEF StartRegistration
    <2> QED BY <1>1, <2>6 DEF StartRegistration, TypeOK, Partial
  <1>2. CASE ListCredentials(r)
    <2>1. c \in UserCall
      BY <1>0, <1>2, CallShape DEF ListCredentials, At
    <2>2. CredentialsOf(c.user) \in SUBSET CredentialIDs
      BY DEF CredentialsOf, TypeOK, Partial
    <2>3. [pc |-> "start authentication", id |-> c.id, session |-> c.session,
           expected |-> c.user, allow |-> CredentialsOf(c.user)] \in Call
      BY <2>1, <2>2 DEF Call, StartAuthenticationCall, AnyAccount, UserCall
    <2>4. calls' \in [Requests -> Call]
      BY <1>2, <2>3, IdleTyped, GotoTyped DEF ListCredentials, Return
    <2> QED BY <1>2, <2>4 DEF ListCredentials, TypeOK, Partial
  <1>3. CASE StartAuthentication(r)
    <2>1. c \in StartAuthenticationCall
      BY <1>0, <1>3, CallShape DEF StartAuthentication, At
    <2> DEFINE state == AuthenticationState(RP, c.expected, c.allow, NoExtensions,
                                            c.id, now)
               saved == [kind |-> "authentication", session |-> c.session,
                         account |-> c.expected, expires |-> state.expires,
                         state |-> state]
    <2>2. state \in AuthenticationStates
      BY <2>1, StatesTyped DEF StartAuthenticationCall, TypeOK
    <2>3. state.expires \in Nat
      BY RPAssumption, BoundAssumption DEF AuthenticationState, TypeOK, Time
    <2>4. saved \in SavedCeremony
      <3> HIDE DEF state
      <3> QED
        BY <2>1, <2>2, <2>3
        DEF SavedCeremony, SavedAuthentication, StartAuthenticationCall
    <2>5. [pc |-> "save", id |-> c.id, saved |-> saved] \in Call
      <3> HIDE DEF saved
      <3> QED BY <2>1, <2>4 DEF Call, SaveCall, StartAuthenticationCall
    <2>6. calls' \in [Requests -> Call]
      BY <1>3, <2>5, GotoTyped DEF StartAuthentication
    <2> QED BY <1>3, <2>6 DEF StartAuthentication, TypeOK, Partial
  <1>4. CASE SaveCeremony(r)
    <2>1. c \in SaveCall
      BY <1>0, <1>4, CallShape DEF SaveCeremony, At
    <2>2. Partial(ceremonies', CeremonyIDs, SavedCeremony)
      BY <1>4, <2>1 DEF SaveCeremony, SaveCall, TypeOK, Partial, KeptIDs
    <2>3. calls' \in [Requests -> Call]
      BY <1>4, IdleTyped, GotoTyped DEF SaveCeremony, Return
    <2> QED BY <1>4, <2>2, <2>3 DEF SaveCeremony, TypeOK, Partial
  <1> QED BY <1>1, <1>2, <1>3, <1>4

\* The steps of finishEnrollment.
LEMMA EnrollmentStepTyped ==
    ASSUME TypeOK, NEW r \in Requests,
           \/ ConsumeRegistration(r)
           \/ \E response \in Registrations : VerifyRegistration(r, response)
           \/ InsertCredential(r)
    PROVE  TypeOK'
  <1> DEFINE c == calls[r]
  <1>0. c \in Call
    BY DEF TypeOK
  <1>1. CASE ConsumeRegistration(r)
    <2>1. c \in UserCall
      BY <1>0, <1>1, CallShape DEF ConsumeRegistration, At
    <2> DEFINE call == [pc |-> "verify registration", id |-> c.id,
                        session |-> c.session, user |-> c.user,
                        saved |-> ceremonies[c.id]]
    <2>2. ConsumeMatches(c.id, c.session, "registration", {c.user}) => call \in Call
      <3> SUFFICES ASSUME ConsumeMatches(c.id, c.session, "registration", {c.user})
                   PROVE  call \in Call
        OBVIOUS
      <3>1. ceremonies[c.id] \in SavedRegistration
        BY DEF ConsumeMatches, TypeOK, Partial, SavedCeremony, SavedRegistration,
               SavedAuthentication
      <3> QED BY <2>1, <3>1 DEF Call, VerifyRegistrationCall, UserCall
    <2>3. /\ Partial(ceremonies', CeremonyIDs, SavedCeremony)
          /\ calls' \in [Requests -> Call]
      <3> HIDE DEF call
      <3>1. Consume(r, c.id, c.session, "registration", {c.user}, call)
        BY <1>1 DEF ConsumeRegistration, call
      <3> QED BY <2>2, <3>1, ConsumeTyped
    <2> QED BY <1>1, <2>3 DEF ConsumeRegistration, TypeOK, Partial
  <1>2. ASSUME NEW response \in Registrations, VerifyRegistration(r, response)
        PROVE  TypeOK'
    <2>1. c \in VerifyRegistrationCall
      BY <1>0, <1>2, CallShape DEF VerifyRegistration, At
    <2> DEFINE record == RegisteredCredential(c.saved.state, response)
               call == [pc |-> "insert", id |-> c.id, session |-> c.session,
                        user |-> c.user, saved |-> c.saved,
                        response |-> response, record |-> record,
                        verifiedAt |-> now]
    <2>2. CASE FinishRegistrationAccepts(RP, c.saved.state, response, now)
      <3>1. record \in CredentialRecord
        BY <2>1, <2>2, RegisteredCredentialTyped
        DEF VerifyRegistrationCall, SavedRegistration
      <3>2. call \in Call
        <4> HIDE DEF record
        <4> QED BY <2>1, <3>1 DEF Call, InsertCall, VerifyRegistrationCall, TypeOK
      <3>3. Goto(r, call) \/ Goto(r, Idle)
        BY <1>2 DEF VerifyRegistration, Return
      <3> HIDE DEF call
      <3>4. calls' \in [Requests -> Call]
        BY <3>2, <3>3, IdleTyped, GotoTyped
      <3> QED BY <1>2, <3>4 DEF VerifyRegistration, TypeOK, Partial
    <2>3. CASE ~FinishRegistrationAccepts(RP, c.saved.state, response, now)
      <3>1. calls' \in [Requests -> Call]
        BY <1>2, <2>3, IdleTyped, GotoTyped DEF VerifyRegistration, Return
      <3> QED BY <1>2, <3>1 DEF VerifyRegistration, TypeOK, Partial
    <2> QED BY <2>2, <2>3
  <1>3. CASE InsertCredential(r)
    <2>1. c \in InsertCall
      BY <1>0, <1>3, CallShape DEF InsertCredential, At
    <2>2. calls' \in [Requests -> Call]
      BY <1>3, IdleTyped, GotoTyped DEF InsertCredential, Return
    <2>3. CASE RecordValid(c.record) /\ InsertAdmits(c.record.id)
      <3> DEFINE row == [record |-> c.record, version |-> 1]
                 commit == [kind |-> "registration", ceremony |-> c.id,
                            session |-> c.session, user |-> c.user,
                            saved |-> c.saved, response |-> c.response,
                            record |-> c.record, version |-> 0,
                            verifiedAt |-> c.verifiedAt]
      <3>1. row \in Row /\ c.record.id \in CredentialIDs
        BY <2>1, BoundAssumption DEF InsertCall, Row, Version, CredentialRecord
      <3>2. commit \in RegistrationCommit
        BY <2>1 DEF InsertCall, RegistrationCommit
      <3>3. /\ credentials' = [k \in DOMAIN credentials \cup {c.record.id} |->
                                  IF k = c.record.id THEN row ELSE credentials[k]]
            /\ commits' = commits \cup {commit}
        BY <1>3, <2>3 DEF InsertCredential
      <3> HIDE DEF row, commit
      <3>4. Partial(credentials', CredentialIDs, Row)
        BY <3>1, <3>3 DEF TypeOK, Partial
      <3>5. commits' \subseteq RegistrationCommit \cup LoginCommit
        BY <3>2, <3>3 DEF TypeOK
      <3> QED BY <1>3, <2>2, <3>4, <3>5 DEF InsertCredential, TypeOK, Partial
    <2>4. CASE ~(RecordValid(c.record) /\ InsertAdmits(c.record.id))
      BY <1>3, <2>2, <2>4 DEF InsertCredential, TypeOK, Partial
    <2> QED BY <2>3, <2>4
  <1> QED BY <1>1, <1>2, <1>3

\* The steps of finishLogin.
LEMMA LoginStepTyped ==
    ASSUME TypeOK, NEW r \in Requests,
           \/ \E response \in Assertions : LookupCredential(r, response)
           \/ VerifyAuthentication(r)
           \/ UpdateCredential(r)
           \/ \E id \in SessionIDs : CreateSession(r, id)
    PROVE  TypeOK'
  <1> DEFINE c == calls[r]
  <1>0. c \in Call
    BY DEF TypeOK
  <1>1. ASSUME NEW response \in Assertions, LookupCredential(r, response)
        PROVE  TypeOK'
    <2>1. c \in LookupCall
      BY <1>0, <1>1, CallShape DEF LookupCredential, At
    <2> DEFINE row == credentials[response.rawId]
               call == [pc |-> "verify authentication", id |-> c.id,
                        session |-> c.session, saved |-> c.saved,
                        response |-> response, record |-> row.record,
                        version |-> row.version]
    <2>2. CASE LookupFinds(response.rawId, LookupUser(c.saved.state, response))
      <3>1. row \in Row
        BY <2>2 DEF LookupFinds, TypeOK, Partial
      <3>2. call \in Call
        <4> HIDE DEF row
        <4> QED BY <2>1, <3>1 DEF Call, VerifyAuthenticationCall, LookupCall, Row
      <3>3. Goto(r, call) \/ Goto(r, Idle)
        BY <1>1 DEF LookupCredential, Return
      <3> HIDE DEF call
      <3>4. calls' \in [Requests -> Call]
        BY <3>2, <3>3, IdleTyped, GotoTyped
      <3> QED BY <1>1, <3>4 DEF LookupCredential, TypeOK, Partial
    <2>3. CASE ~LookupFinds(response.rawId, LookupUser(c.saved.state, response))
      <3>1. calls' \in [Requests -> Call]
        BY <1>1, <2>3, IdleTyped, GotoTyped DEF LookupCredential, Return
      <3> QED BY <1>1, <3>1 DEF LookupCredential, TypeOK, Partial
    <2> QED BY <2>2, <2>3
  <1>2. CASE VerifyAuthentication(r)
    <2>1. c \in VerifyAuthenticationCall
      BY <1>0, <1>2, CallShape DEF VerifyAuthentication, At
    <2> DEFINE call == [pc |-> "update", id |-> c.id, session |-> c.session,
                        saved |-> c.saved, response |-> c.response,
                        record |-> c.record, version |-> c.version,
                        verifiedAt |-> now]
    <2>2. call \in Call
      BY <2>1 DEF Call, UpdateCall, VerifyAuthenticationCall, TypeOK
    <2>3. Goto(r, call) \/ Goto(r, Idle)
      BY <1>2 DEF VerifyAuthentication, Return
    <2> HIDE DEF call
    <2>4. calls' \in [Requests -> Call]
      BY <2>2, <2>3, IdleTyped, GotoTyped
    <2> QED BY <1>2, <2>4 DEF VerifyAuthentication, TypeOK, Partial
  <1>3. CASE UpdateCredential(r)
    <2>1. c \in UpdateCall
      BY <1>0, <1>3, CallShape DEF UpdateCredential, At
    <2> DEFINE update == UpdateOf(c)
               call == [pc |-> "create session", id |-> c.id, user |-> c.record.user]
               commit == [kind |-> "authentication", ceremony |-> c.id,
                          session |-> c.session, user |-> c.record.user,
                          saved |-> c.saved, response |-> c.response,
                          record |-> c.record, version |-> c.version,
                          verifiedAt |-> c.verifiedAt]
    <2>2. CASE UpdateAdmits(update, c.version)
      <3>1. /\ update.id \in DOMAIN credentials
            /\ credentials[update.id] \in Row
        BY <2>2 DEF UpdateAdmits, TypeOK, Partial
      <3> DEFINE row == [record |-> Applied(update, credentials[update.id].record),
                         version |-> c.version + 1]
      <3>2. row.record \in CredentialRecord
        BY <2>1, <3>1, AppliedTyped DEF UpdateCall, Row
      <3>3. c.version + 1 \in Version
        BY <2>1, <2>2, BoundAssumption DEF UpdateAdmits, UpdateCall, Version
      <3>4. row \in Row
        BY <3>2, <3>3 DEF Row
      <3>5. /\ credentials' = [credentials EXCEPT ![update.id] = row]
            /\ commits' = commits \cup {commit}
            /\ Goto(r, call)
        BY <1>3, <2>2 DEF UpdateCredential
      <3>6. commit \in LoginCommit
        BY <2>1 DEF UpdateCall, LoginCommit, CredentialRecord
      <3>7. call \in Call
        BY <2>1 DEF UpdateCall, Call, CreateSessionCall, CredentialRecord
      <3> HIDE DEF row, commit, call, update
      <3>8. Partial(credentials', CredentialIDs, Row)
        BY <3>1, <3>4, <3>5 DEF TypeOK, Partial
      <3>9. commits' \subseteq RegistrationCommit \cup LoginCommit
        BY <3>5, <3>6 DEF TypeOK
      <3>10. calls' \in [Requests -> Call]
        BY <3>5, <3>7, GotoTyped
      <3> QED BY <1>3, <3>8, <3>9, <3>10 DEF UpdateCredential, TypeOK, Partial
    <2>3. CASE ~UpdateAdmits(update, c.version)
      <3>1. calls' \in [Requests -> Call]
        BY <1>3, <2>3, IdleTyped, GotoTyped DEF UpdateCredential, Return
      <3> QED BY <1>3, <2>3, <3>1 DEF UpdateCredential, TypeOK, Partial
    <2> QED BY <2>2, <2>3
  <1>4. ASSUME NEW id \in SessionIDs, CreateSession(r, id)
        PROVE  TypeOK'
    <2>1. c \in CreateSessionCall
      BY <1>0, <1>4, CallShape DEF CreateSession, At
    <2> DEFINE Session == [user : UserHandles, ceremony : CeremonyIDs]
               session == [user |-> c.user, ceremony |-> c.id]
    <2>2. Partial(sessions', SessionIDs, Session)
      <3>1. session \in Session
        BY <2>1 DEF CreateSessionCall
      <3>2. sessions' = [s \in DOMAIN sessions \cup {id} |->
                            IF s = id THEN session ELSE sessions[s]]
        BY <1>4 DEF CreateSession
      <3>3. Partial(sessions, SessionIDs, Session)
        BY DEF TypeOK
      <3> HIDE DEF session, Session
      <3> QED BY <3>1, <3>2, <3>3 DEF Partial
    <2>3. calls' \in [Requests -> Call]
      BY <1>4, IdleTyped, GotoTyped DEF CreateSession, Return
    <2> QED BY <1>4, <2>2, <2>3 DEF CreateSession, TypeOK, Partial
  <1> QED BY <1>1, <1>2, <1>3, <1>4

\* The clock, cancellations and the host.
LEMMA EnvironmentTyped ==
    ASSUME TypeOK,
           \/ \E r \in Requests : Cancel(r)
           \/ Tick
           \/ \E session \in BrowserSessions, user \in UserHandles \cup {None} :
                  Provision(session, user)
    PROVE  TypeOK'
  <1>1. ASSUME NEW r \in Requests, Cancel(r) PROVE TypeOK'
    <2>1. calls' \in [Requests -> Call]
      BY <1>1, IdleTyped, GotoTyped DEF Cancel, Return
    <2> QED BY <1>1, <2>1 DEF Cancel, TypeOK, Partial
  <1>2. CASE Tick
    BY <1>2, BoundAssumption DEF Tick, TypeOK, Partial, Time
  <1>3. ASSUME NEW session \in BrowserSessions, NEW user \in UserHandles \cup {None},
               Provision(session, user)
        PROVE  TypeOK'
    BY <1>3 DEF Provision, TypeOK, Partial
  <1> QED BY <1>1, <1>2, <1>3

\* TypeOK is inductive.
LEMMA StepTyped == TypeOK /\ [Next]_vars => TypeOK'
  <1> SUFFICES ASSUME TypeOK, [Next]_vars PROVE TypeOK'
    OBVIOUS
  <1>1. ASSUME NEW r \in Requests, Request(r) PROVE TypeOK'
    BY <1>1, RequestTyped
  <1>2. ASSUME NEW r \in Requests, Step(r) PROVE TypeOK'
    BY <1>2, BeginStepTyped, EnrollmentStepTyped, LoginStepTyped DEF Step
  <1>3. CASE UNCHANGED vars
    BY <1>3 DEF vars, TypeOK, Partial
  <1> QED BY <1>1, <1>2, <1>3, EnvironmentTyped DEF Next

\* The stores and the handlers of the integration always have their types; in
\* particular no row version ever passes the largest one (app.go, memory.go).
THEOREM TypeCorrect == Spec => []TypeOK
  BY InitTyped, StepTyped, PTL DEF Spec

-----------------------------------------------------------------------------
(***************************************************************************)
(* Single use.  A token is drawn fresh, so nobody else has it; Save moves  *)
(* it into the store and Consume out of it, under one lock; and a handler  *)
(* writes at most once with it.                                            *)
(***************************************************************************)

\* A handler returns, or goes on with the token it owns; nothing else changes.
LEMMA MoveKeepsTokens ==
    ASSUME TypeOK, TokensInOnePlace, NEW r \in Requests, NEW call,
           Goto(r, call),
           \/ call.pc \in {"idle", "consume registration"}
           \/ /\ Owns(r) /\ ~At(r, "create session")
              /\ call.id = calls[r].id /\ call.pc # "create session",
           ceremonies' = ceremonies, sessions' = sessions,
           issued' = issued, commits' = commits
    PROVE  TokensInOnePlace'
  <1>1. \A q \in Requests : calls'[q] = IF q = r THEN call ELSE calls[q]
    BY DEF Goto, TypeOK
  <1>2. \A q \in Requests : calls'[q].pc \notin {"idle", "consume registration"} =>
           Owns(q) /\ calls'[q].id = calls[q].id
    BY <1>1 DEF Owns
  <1>3. \A q \in Requests : calls'[q].pc = "create session" =>
           At(q, "create session") /\ calls'[q] = calls[q]
    BY <1>1 DEF At
  <1>4. \A q \in Requests : At(q, "create session") =>
           calls'[q].pc \in {"idle", "consume registration", "create session"}
    BY <1>1 DEF At
  <1>5. StoredTokensIssued'
    BY DEF TokensInOnePlace, StoredTokensIssued
  <1>6. OwnedTokensApart' /\ OneOwner'
    BY <1>2 DEF TokensInOnePlace, OwnedTokensApart, OneOwner, Owns
  <1>7. WrittenTokensApart' /\ WrittenOnce'
    <2>1. ASSUME NEW c \in commits, NEW q \in Requests, Owns(q)',
                 calls'[q].id = c.ceremony
          PROVE  At(q, "create session")'
      <3>1. Owns(q) /\ calls[q].id = c.ceremony
        BY <1>2, <2>1 DEF Owns
      <3>2. At(q, "create session")
        BY <3>1 DEF TokensInOnePlace, WrittenTokensApart
      <3> QED BY <1>4, <2>1, <3>2 DEF Owns, At
    <2> QED BY <2>1 DEF TokensInOnePlace, WrittenTokensApart, WrittenOnce
  <1>8. SessionsToCreate'
    BY <1>3 DEF TokensInOnePlace, SessionsToCreate, At
  <1>9. SessionsCreatedOnce'
    BY DEF TokensInOnePlace, SessionsCreatedOnce
  <1> QED BY <1>5, <1>6, <1>7, <1>8, <1>9 DEF TokensInOnePlace

\* A request arrives and draws a fresh token.
LEMMA FreshKeepsTokens ==
    ASSUME TypeOK, TokensInOnePlace, NEW r \in Requests,
           NEW id \in CeremonyIDs \ issued, issued' = issued \cup {id},
           NEW call, Goto(r, call), call.id = id,
           call.pc \notin {"idle", "consume registration", "create session"},
           ceremonies' = ceremonies, sessions' = sessions, commits' = commits
    PROVE  TokensInOnePlace'
  <1>1. \A q \in Requests : calls'[q] = IF q = r THEN call ELSE calls[q]
    BY DEF Goto, TypeOK
  <1>2. StoredTokensIssued'
    BY DEF TokensInOnePlace, StoredTokensIssued
  <1>3. OwnedTokensApart'
    BY <1>1 DEF TokensInOnePlace, StoredTokensIssued, OwnedTokensApart, Owns
  <1>4. OneOwner'
    BY <1>1 DEF TokensInOnePlace, OwnedTokensApart, OneOwner, Owns
  <1>5. WrittenTokensApart' /\ WrittenOnce'
    BY <1>1 DEF TokensInOnePlace, WrittenTokensApart, WrittenOnce, Owns, At
  <1>6. SessionsToCreate'
    BY <1>1 DEF TokensInOnePlace, SessionsToCreate, At
  <1>7. SessionsCreatedOnce'
    BY DEF TokensInOnePlace, SessionsCreatedOnce
  <1> QED BY <1>2, <1>3, <1>4, <1>5, <1>6, <1>7 DEF TokensInOnePlace

\* Save hands the token to the store, or drops it.
LEMMA SaveKeepsTokens ==
    ASSUME TypeOK, TokensInOnePlace, NEW r \in Requests, SaveCeremony(r)
    PROVE  TokensInOnePlace'
  <1>1. \A q \in Requests : calls'[q] = IF q = r THEN Idle ELSE calls[q]
    BY DEF SaveCeremony, Return, Goto, TypeOK
  <1>2. calls[r].pc = "save" /\ Idle.pc = "idle"
    BY DEF SaveCeremony, At, Idle
  <1>3. DOMAIN ceremonies' \subseteq DOMAIN ceremonies \cup {calls[r].id}
    BY DEF SaveCeremony, KeptIDs
  <1>4. sessions' = sessions /\ issued' = issued /\ commits' = commits
    BY DEF SaveCeremony
  <1>5. calls[r].id \in issued
    BY <1>2 DEF TokensInOnePlace, OwnedTokensApart, Owns
  <1>6. StoredTokensIssued'
    BY <1>3, <1>4, <1>5 DEF TokensInOnePlace, StoredTokensIssued
  <1>7. \A q \in Requests : Owns(q)' =>
           /\ q # r /\ Owns(q)
           /\ calls'[q] = calls[q] /\ calls[q].id # calls[r].id
    BY <1>1, <1>2 DEF TokensInOnePlace, OneOwner, Owns
  <1>8. OwnedTokensApart'
    BY <1>3, <1>4, <1>7 DEF TokensInOnePlace, OwnedTokensApart
  <1>9. OneOwner'
    BY <1>7 DEF TokensInOnePlace, OneOwner
  <1>10. \A c \in commits : c.ceremony # calls[r].id
    BY <1>2 DEF TokensInOnePlace, WrittenTokensApart, Owns, At
  <1>11. WrittenTokensApart'
    BY <1>3, <1>4, <1>7, <1>10, ZenonT(40) DEF TokensInOnePlace, WrittenTokensApart, At
  <1>12. SessionsToCreate'
    BY <1>1, <1>2, <1>4 DEF TokensInOnePlace, SessionsToCreate, At
  <1>13. WrittenOnce' /\ SessionsCreatedOnce'
    BY <1>4 DEF TokensInOnePlace, WrittenOnce, SessionsCreatedOnce
  <1> QED BY <1>6, <1>8, <1>9, <1>11, <1>12, <1>13 DEF TokensInOnePlace

\* Consume hands the token to one handler, or leaves it where it is.
LEMMA ConsumeKeepsTokens ==
    ASSUME TypeOK, TokensInOnePlace, NEW r \in Requests, ~Owns(r),
           NEW id, NEW session, NEW kind, NEW accounts, NEW next,
           next.id = id, next.pc \notin {"idle", "create session"},
           Consume(r, id, session, kind, accounts, next),
           sessions' = sessions, issued' = issued, commits' = commits
    PROVE  TokensInOnePlace'
  <1>1. CASE ~ConsumeMatches(id, session, kind, accounts)
    <2>1. Goto(r, Idle) /\ ceremonies' = ceremonies /\ Idle.pc = "idle"
      BY <1>1 DEF Consume, Return, Idle
    <2> QED BY <2>1, MoveKeepsTokens
  <1>2. CASE ConsumeMatches(id, session, kind, accounts)
    <2> DEFINE call == IF Live(ceremonies[id]) THEN next ELSE Idle
    <2>1. /\ DOMAIN ceremonies' = DOMAIN ceremonies \ {id}
          /\ Goto(r, call)
          /\ id \in DOMAIN ceremonies
      BY <1>2 DEF Consume, ConsumeMatches
    <2>2. /\ call.pc # "create session"
          /\ call.pc # "idle" => call.id = id
      BY DEF Idle
    <2> HIDE DEF call
    <2>3. \A q \in Requests : calls'[q] = IF q = r THEN call ELSE calls[q]
      BY <2>1 DEF Goto, TypeOK
    <2>4. id \in issued
      BY <2>1 DEF TokensInOnePlace, StoredTokensIssued
    <2>5. \A q \in Requests : Owns(q) => q # r /\ calls[q].id # id
      BY <2>1 DEF TokensInOnePlace, OwnedTokensApart
    <2>6. \A q \in Requests : Owns(q)' =>
             \/ q = r /\ calls'[q].id = id
             \/ q # r /\ Owns(q) /\ calls'[q] = calls[q]
      BY <2>2, <2>3 DEF Owns
    <2>7. StoredTokensIssued'
      BY <2>1 DEF TokensInOnePlace, StoredTokensIssued
    <2>8. OwnedTokensApart'
      BY <2>1, <2>4, <2>6 DEF TokensInOnePlace, OwnedTokensApart
    <2>9. OneOwner'
      BY <2>5, <2>6 DEF TokensInOnePlace, OneOwner
    <2>10. WrittenTokensApart'
      BY <2>1, <2>6, ZenonT(40) DEF TokensInOnePlace, WrittenTokensApart, At
    <2>11. SessionsToCreate'
      BY <2>2, <2>3 DEF TokensInOnePlace, SessionsToCreate, At
    <2>12. WrittenOnce' /\ SessionsCreatedOnce'
      BY DEF TokensInOnePlace, WrittenOnce, SessionsCreatedOnce
    <2> QED BY <2>7, <2>8, <2>9, <2>10, <2>11, <2>12 DEF TokensInOnePlace
  <1> QED BY <1>1, <1>2

\* A write with the token the handler owns.  An Insert ends the handler; an
\* Update leaves it the session to create.
LEMMA WriteKeepsTokens ==
    ASSUME TypeOK, TokensInOnePlace, NEW r \in Requests,
           Owns(r), ~At(r, "create session"),
           NEW call, Goto(r, call),
           \/ call.pc = "idle"
           \/ call.pc = "create session" /\ call.id = calls[r].id,
           NEW commit, commit.ceremony = calls[r].id,
           commits' = commits \cup {commit},
           ceremonies' = ceremonies, sessions' = sessions, issued' = issued
    PROVE  TokensInOnePlace'
  <1>1. \A q \in Requests : calls'[q] = IF q = r THEN call ELSE calls[q]
    BY DEF Goto, TypeOK
  <1>2. calls[r].id \in issued \ DOMAIN ceremonies
    BY DEF TokensInOnePlace, OwnedTokensApart
  <1>3. \A c \in commits : c.ceremony # calls[r].id
    BY DEF TokensInOnePlace, WrittenTokensApart
  <1>4. \A s \in DOMAIN sessions : sessions[s].ceremony # calls[r].id
    BY <1>3 DEF TokensInOnePlace, SessionsCreatedOnce
  <1>5. \A q \in Requests : Owns(q)' =>
           /\ Owns(q) /\ calls'[q].id = calls[q].id
           /\ q = r => At(q, "create session")'
           /\ q # r => calls[q].id # calls[r].id /\ calls'[q] = calls[q]
    BY <1>1 DEF TokensInOnePlace, OneOwner, Owns, At
  <1>6. StoredTokensIssued'
    BY DEF TokensInOnePlace, StoredTokensIssued
  <1>7. OwnedTokensApart'
    BY <1>5 DEF TokensInOnePlace, OwnedTokensApart
  <1>8. OneOwner'
    BY <1>5 DEF TokensInOnePlace, OneOwner
  <1>9. WrittenTokensApart'
    <2>1. ASSUME NEW c \in commits', NEW q \in Requests, Owns(q)',
                 calls'[q].id = c.ceremony
          PROVE  At(q, "create session")'
      <3>1. CASE q = r
        BY <1>5, <2>1, <3>1
      <3>2. CASE q # r
        <4>1. c \in commits /\ calls'[q] = calls[q] /\ Owns(q)
          BY <1>5, <2>1, <3>2
        <4>2. At(q, "create session")
          BY <2>1, <4>1 DEF TokensInOnePlace, WrittenTokensApart
        <4> QED BY <4>1, <4>2 DEF At
      <3> QED BY <3>1, <3>2
    <2>2. \A c \in commits' : c.ceremony \in issued \ DOMAIN ceremonies
      BY <1>2 DEF TokensInOnePlace, WrittenTokensApart
    <2> QED BY <2>1, <2>2 DEF WrittenTokensApart
  <1>10. WrittenOnce'
    BY <1>3 DEF TokensInOnePlace, WrittenOnce
  <1>11. SessionsToCreate'
    <2>1. ASSUME NEW q \in Requests, At(q, "create session")'
          PROVE  /\ \E c \in commits' : c.ceremony = calls'[q].id
                 /\ \A s \in DOMAIN sessions : sessions[s].ceremony # calls'[q].id
      <3>1. CASE q = r
        <4>1. calls'[q].id = calls[r].id
          BY <1>1, <2>1, <3>1 DEF At
        <4> QED BY <1>4, <4>1
      <3>2. CASE q # r
        <4>1. At(q, "create session") /\ calls'[q] = calls[q]
          BY <1>1, <2>1, <3>2 DEF At
        <4> QED BY <4>1 DEF TokensInOnePlace, SessionsToCreate
      <3> QED BY <3>1, <3>2
    <2> QED BY <2>1 DEF SessionsToCreate
  <1>12. SessionsCreatedOnce'
    BY DEF TokensInOnePlace, SessionsCreatedOnce
  <1> QED BY <1>6, <1>7, <1>8, <1>9, <1>10, <1>11, <1>12 DEF TokensInOnePlace

\* The session of a login is created by the handler that wrote its update.
LEMMA CreateKeepsTokens ==
    ASSUME TypeOK, TokensInOnePlace, NEW r \in Requests, NEW id \in SessionIDs,
           CreateSession(r, id)
    PROVE  TokensInOnePlace'
  <1> DEFINE token == calls[r].id
             session == [user |-> calls[r].user, ceremony |-> token]
  <1>1. \A q \in Requests : calls'[q] = IF q = r THEN Idle ELSE calls[q]
    BY DEF CreateSession, Return, Goto, TypeOK
  <1>2. calls[r].pc = "create session" /\ Idle.pc = "idle"
    BY DEF CreateSession, At, Idle
  <1>3. ceremonies' = ceremonies /\ issued' = issued /\ commits' = commits
    BY DEF CreateSession
  <1>4. /\ DOMAIN sessions' = DOMAIN sessions \cup {id}
        /\ id \notin DOMAIN sessions
        /\ sessions'[id].ceremony = token
        /\ \A s \in DOMAIN sessions : sessions'[s] = sessions[s]
    BY DEF CreateSession
  <1> HIDE DEF token
  <1>5. /\ \E c \in commits : c.ceremony = token
        /\ \A s \in DOMAIN sessions : sessions[s].ceremony # token
    BY <1>2 DEF TokensInOnePlace, SessionsToCreate, At, token
  <1>6. \A q \in Requests : Owns(q)' =>
           q # r /\ Owns(q) /\ calls'[q] = calls[q]
    BY <1>1, <1>2 DEF Owns
  <1>7. \A q \in Requests : At(q, "create session")' =>
           /\ At(q, "create session") /\ calls'[q] = calls[q]
           /\ calls[q].id # token
    BY <1>1, <1>2 DEF TokensInOnePlace, OneOwner, Owns, At, token
  <1>8. StoredTokensIssued' /\ WrittenOnce'
    BY <1>3 DEF TokensInOnePlace, StoredTokensIssued, WrittenOnce
  <1>9. OwnedTokensApart' /\ OneOwner'
    BY <1>3, <1>6 DEF TokensInOnePlace, OwnedTokensApart, OneOwner
  <1>10. WrittenTokensApart'
    BY <1>3, <1>6 DEF TokensInOnePlace, WrittenTokensApart, At
  <1>11. SessionsToCreate'
    BY <1>3, <1>4, <1>7, ZenonT(40) DEF TokensInOnePlace, SessionsToCreate
  <1>12. SessionsCreatedOnce'
    BY <1>3, <1>4, <1>5 DEF TokensInOnePlace, SessionsCreatedOnce
  <1> QED BY <1>8, <1>9, <1>10, <1>11, <1>12 DEF TokensInOnePlace

LEMMA InitTokens == Init => TokensInOnePlace
  <1> SUFFICES ASSUME Init PROVE TokensInOnePlace
    OBVIOUS
  <1>1. \A r \in Requests : calls[r].pc = "idle"
    BY DEF Init, Idle
  <1>2. DOMAIN ceremonies = {} /\ DOMAIN sessions = {} /\ commits = {}
    BY DEF Init
  <1> QED
    BY <1>1, <1>2
    DEF TokensInOnePlace, StoredTokensIssued, OwnedTokensApart, OneOwner,
        WrittenTokensApart, WrittenOnce, SessionsToCreate, SessionsCreatedOnce,
        Owns, At

LEMMA RequestKeepsTokens ==
    ASSUME TypeOK, TokensInOnePlace, NEW r \in Requests, Request(r)
    PROVE  TokensInOnePlace'
  <1>1. PICK session \in PresentedSessions, id \in CeremonyIDs :
           \/ BeginEnrollment(r, session, id)
           \/ FinishEnrollment(r, session, id)
           \/ \E user \in UserHandles : BeginLogin(r, session, user, id)
           \/ BeginDiscoverableLogin(r, session, id)
           \/ FinishLogin(r, session, id)
    BY DEF Request
  <1>2. CASE BeginEnrollment(r, session, id)
    <2> DEFINE call == [pc |-> "start registration", id |-> id,
                        session |-> session, user |-> EnrollmentUser(session)]
    <2>1. /\ Goto(r, call)
          /\ id \in CeremonyIDs \ issued /\ issued' = issued \cup {id}
          /\ ceremonies' = ceremonies /\ sessions' = sessions /\ commits' = commits
      BY <1>2 DEF BeginEnrollment
    <2>2. call.id = id /\ call.pc = "start registration"
      OBVIOUS
    <2> HIDE DEF call
    <2> QED BY <2>1, <2>2, FreshKeepsTokens
  <1>3. CASE FinishEnrollment(r, session, id)
    <2> DEFINE call == [pc |-> "consume registration", id |-> id,
                        session |-> session, user |-> EnrollmentUser(session)]
    <2>1. /\ Goto(r, call) /\ issued' = issued
          /\ ceremonies' = ceremonies /\ sessions' = sessions /\ commits' = commits
      BY <1>3 DEF FinishEnrollment
    <2>2. call.pc = "consume registration"
      OBVIOUS
    <2> HIDE DEF call
    <2> QED BY <2>1, <2>2, MoveKeepsTokens
  <1>4. ASSUME NEW user \in UserHandles, BeginLogin(r, session, user, id)
        PROVE  TokensInOnePlace'
    <2> DEFINE call == [pc |-> "list credentials", id |-> id,
                        session |-> session, user |-> user]
    <2>1. /\ Goto(r, call)
          /\ id \in CeremonyIDs \ issued /\ issued' = issued \cup {id}
          /\ ceremonies' = ceremonies /\ sessions' = sessions /\ commits' = commits
      BY <1>4 DEF BeginLogin
    <2>2. call.id = id /\ call.pc = "list credentials"
      OBVIOUS
    <2> HIDE DEF call
    <2> QED BY <2>1, <2>2, FreshKeepsTokens
  <1>5. CASE BeginDiscoverableLogin(r, session, id)
    <2> DEFINE call == [pc |-> "start authentication", id |-> id,
                        session |-> session, expected |-> None, allow |-> {}]
    <2>1. /\ Goto(r, call)
          /\ id \in CeremonyIDs \ issued /\ issued' = issued \cup {id}
          /\ ceremonies' = ceremonies /\ sessions' = sessions /\ commits' = commits
      BY <1>5 DEF BeginDiscoverableLogin
    <2>2. call.id = id /\ call.pc = "start authentication"
      OBVIOUS
    <2> HIDE DEF call
    <2> QED BY <2>1, <2>2, FreshKeepsTokens
  <1>6. CASE FinishLogin(r, session, id)
    <2> DEFINE next == [pc |-> "lookup", id |-> id, session |-> session,
                        saved |-> ceremonies[id]]
    <2>1. /\ Consume(r, id, session, "authentication", AnyAccount, next)
          /\ sessions' = sessions /\ issued' = issued /\ commits' = commits
      BY <1>6 DEF FinishLogin
    <2>2. ~Owns(r)
      BY <1>6 DEF FinishLogin, Arrives, At, Owns
    <2>3. next.id = id /\ next.pc = "lookup"
      OBVIOUS
    <2> HIDE DEF next
    <2> QED BY <2>1, <2>2, <2>3, ConsumeKeepsTokens
  <1> QED BY <1>1, <1>2, <1>3, <1>4, <1>5, <1>6

\* A handler on its way returns, or goes on with the token it owns.
LEMMA LocalMoveKeepsTokens ==
    ASSUME TypeOK, TokensInOnePlace, NEW r \in Requests, NEW call,
           Goto(r, Idle) \/ Goto(r, call),
           call.id = calls[r].id, call.pc # "create session",
           calls[r].pc \notin {"idle", "consume registration", "create session"},
           ceremonies' = ceremonies, sessions' = sessions,
           issued' = issued, commits' = commits
    PROVE  TokensInOnePlace'
  <1>1. Owns(r) /\ ~At(r, "create session") /\ Idle.pc = "idle"
    BY DEF Owns, At, Idle
  <1> QED BY <1>1, MoveKeepsTokens

\* A step that leaves the stores alone and keeps the token or gives it up.
LEMMA LocalStepKeepsTokens ==
    ASSUME TypeOK, TokensInOnePlace, NEW r \in Requests,
           \/ StartRegistration(r)
           \/ ListCredentials(r)
           \/ StartAuthentication(r)
           \/ \E response \in Registrations : VerifyRegistration(r, response)
           \/ \E response \in Assertions : LookupCredential(r, response)
           \/ VerifyAuthentication(r)
           \/ Cancel(r)
    PROVE  TokensInOnePlace'
  <1> USE DEF At
  <1>1. /\ ceremonies' = ceremonies /\ sessions' = sessions
        /\ issued' = issued /\ commits' = commits
    BY DEF StartRegistration, ListCredentials, StartAuthentication,
           VerifyRegistration, LookupCredential, VerifyAuthentication, Cancel
  <1>2. CASE StartRegistration(r)
    <2> DEFINE call ==
         LET state == RegistrationState(RP, calls[r].user, NoExtensions, FALSE,
                                        calls[r].id, now)
         IN  [pc |-> "save", id |-> calls[r].id,
              saved |-> [kind |-> "registration", session |-> calls[r].session,
                         account |-> calls[r].user,
                         expires |-> state.expires, state |-> state]]
    <2>1. Goto(r, Idle) \/ Goto(r, call)
      BY <1>2 DEF StartRegistration, Return
    <2>2. call.id = calls[r].id /\ call.pc = "save"
      OBVIOUS
    <2>3. At(r, "start registration")
      BY <1>2 DEF StartRegistration
    <2> HIDE DEF call
    <2> QED BY <1>1, <2>1, <2>2, <2>3, LocalMoveKeepsTokens
  <1>3. CASE ListCredentials(r)
    <2> DEFINE call ==
         [pc |-> "start authentication", id |-> calls[r].id,
          session |-> calls[r].session, expected |-> calls[r].user,
          allow |-> CredentialsOf(calls[r].user)]
    <2>1. Goto(r, Idle) \/ Goto(r, call)
      BY <1>3 DEF ListCredentials, Return
    <2>2. call.id = calls[r].id /\ call.pc = "start authentication"
      OBVIOUS
    <2>3. At(r, "list credentials")
      BY <1>3 DEF ListCredentials
    <2> HIDE DEF call
    <2> QED BY <1>1, <2>1, <2>2, <2>3, LocalMoveKeepsTokens
  <1>4. CASE StartAuthentication(r)
    <2> DEFINE call ==
         LET state == AuthenticationState(RP, calls[r].expected, calls[r].allow,
                                          NoExtensions, calls[r].id, now)
         IN  [pc |-> "save", id |-> calls[r].id,
              saved |-> [kind |-> "authentication", session |-> calls[r].session,
                         account |-> calls[r].expected,
                         expires |-> state.expires, state |-> state]]
    <2>1. Goto(r, Idle) \/ Goto(r, call)
      BY <1>4 DEF StartAuthentication, Return
    <2>2. call.id = calls[r].id /\ call.pc = "save"
      OBVIOUS
    <2>3. At(r, "start authentication")
      BY <1>4 DEF StartAuthentication
    <2> HIDE DEF call
    <2> QED BY <1>1, <2>1, <2>2, <2>3, LocalMoveKeepsTokens
  <1>5. ASSUME NEW response \in Registrations, VerifyRegistration(r, response)
        PROVE  TokensInOnePlace'
    <2> DEFINE call ==
         [pc |-> "insert", id |-> calls[r].id, session |-> calls[r].session,
          user |-> calls[r].user, saved |-> calls[r].saved, response |-> response,
          record |-> RegisteredCredential(calls[r].saved.state, response),
          verifiedAt |-> now]
    <2>1. Goto(r, Idle) \/ Goto(r, call)
      BY <1>5 DEF VerifyRegistration, Return
    <2>2. call.id = calls[r].id /\ call.pc = "insert"
      OBVIOUS
    <2>3. At(r, "verify registration")
      BY <1>5 DEF VerifyRegistration
    <2> HIDE DEF call
    <2> QED BY <1>1, <2>1, <2>2, <2>3, LocalMoveKeepsTokens
  <1>6. ASSUME NEW response \in Assertions, LookupCredential(r, response)
        PROVE  TokensInOnePlace'
    <2> DEFINE call ==
         [pc |-> "verify authentication", id |-> calls[r].id,
          session |-> calls[r].session, saved |-> calls[r].saved,
          response |-> response,
          record |-> credentials[response.rawId].record,
          version |-> credentials[response.rawId].version]
    <2>1. Goto(r, Idle) \/ Goto(r, call)
      BY <1>6 DEF LookupCredential, Return
    <2>2. call.id = calls[r].id /\ call.pc = "verify authentication"
      OBVIOUS
    <2>3. At(r, "lookup")
      BY <1>6 DEF LookupCredential
    <2> HIDE DEF call
    <2> QED BY <1>1, <2>1, <2>2, <2>3, LocalMoveKeepsTokens
  <1>7. CASE VerifyAuthentication(r)
    <2> DEFINE call ==
         [pc |-> "update", id |-> calls[r].id, session |-> calls[r].session,
          saved |-> calls[r].saved, response |-> calls[r].response,
          record |-> calls[r].record, version |-> calls[r].version,
          verifiedAt |-> now]
    <2>1. Goto(r, Idle) \/ Goto(r, call)
      BY <1>7 DEF VerifyAuthentication, Return
    <2>2. call.id = calls[r].id /\ call.pc = "update"
      OBVIOUS
    <2>3. At(r, "verify authentication")
      BY <1>7 DEF VerifyAuthentication
    <2> HIDE DEF call
    <2> QED BY <1>1, <2>1, <2>2, <2>3, LocalMoveKeepsTokens
  <1>8. CASE Cancel(r)
    <2>1. Goto(r, Idle) /\ Idle.pc = "idle"
      BY <1>8 DEF Cancel, Return, Idle
    <2> QED BY <1>1, <2>1, MoveKeepsTokens
  <1> QED BY <1>2, <1>3, <1>4, <1>5, <1>6, <1>7, <1>8

LEMMA StoreStepKeepsTokens ==
    ASSUME TypeOK, TokensInOnePlace, NEW r \in Requests,
           \/ ConsumeRegistration(r)
           \/ InsertCredential(r)
           \/ UpdateCredential(r)
    PROVE  TokensInOnePlace'
  <1>1. CASE ConsumeRegistration(r)
    <2> DEFINE id == calls[r].id
               next == [pc |-> "verify registration", id |-> id,
                        session |-> calls[r].session, user |-> calls[r].user,
                        saved |-> ceremonies[id]]
    <2>1. /\ Consume(r, id, calls[r].session, "registration", {calls[r].user}, next)
          /\ sessions' = sessions /\ issued' = issued /\ commits' = commits
      BY <1>1 DEF ConsumeRegistration
    <2>2. ~Owns(r)
      BY <1>1 DEF ConsumeRegistration, At, Owns
    <2>3. next.id = id /\ next.pc = "verify registration"
      OBVIOUS
    <2> HIDE DEF next, id
    <2> QED BY <2>1, <2>2, <2>3, ConsumeKeepsTokens
  <1>2. CASE InsertCredential(r)
    <2> DEFINE call == calls[r]
               commit == [kind |-> "registration", ceremony |-> call.id,
                          session |-> call.session, user |-> call.user,
                          saved |-> call.saved, response |-> call.response,
                          record |-> call.record, version |-> 0,
                          verifiedAt |-> call.verifiedAt]
    <2>1. /\ commits' = commits \/ commits' = commits \cup {commit}
          /\ Goto(r, Idle)
          /\ ceremonies' = ceremonies /\ sessions' = sessions /\ issued' = issued
      BY <1>2 DEF InsertCredential, Return
    <2>2. Owns(r) /\ ~At(r, "create session") /\ Idle.pc = "idle"
      BY <1>2 DEF InsertCredential, At, Owns, Idle
    <2>3. commit.ceremony = calls[r].id
      OBVIOUS
    <2> HIDE DEF commit
    <2>4. CASE commits' = commits
      BY <2>1, <2>2, <2>4, MoveKeepsTokens
    <2>5. CASE commits' = commits \cup {commit}
      BY <2>1, <2>2, <2>3, <2>5, WriteKeepsTokens
    <2> QED BY <2>1, <2>4, <2>5
  <1>3. CASE UpdateCredential(r)
    <2> DEFINE call == calls[r]
               commit == [kind |-> "authentication", ceremony |-> call.id,
                          session |-> call.session, user |-> call.record.user,
                          saved |-> call.saved, response |-> call.response,
                          record |-> call.record, version |-> call.version,
                          verifiedAt |-> call.verifiedAt]
               next == [pc |-> "create session", id |-> call.id,
                        user |-> call.record.user]
    <2>1. /\ \/ commits' = commits /\ Goto(r, Idle)
             \/ commits' = commits \cup {commit} /\ Goto(r, next)
          /\ ceremonies' = ceremonies /\ sessions' = sessions /\ issued' = issued
      BY <1>3 DEF UpdateCredential, Return
    <2>2. Owns(r) /\ ~At(r, "create session") /\ Idle.pc = "idle"
      BY <1>3 DEF UpdateCredential, At, Owns, Idle
    <2>3. /\ commit.ceremony = calls[r].id
          /\ next.id = calls[r].id /\ next.pc = "create session"
      OBVIOUS
    <2> HIDE DEF commit, next
    <2>4. CASE commits' = commits /\ Goto(r, Idle)
      BY <2>1, <2>2, <2>4, MoveKeepsTokens
    <2>5. CASE commits' = commits \cup {commit} /\ Goto(r, next)
      BY <2>1, <2>2, <2>3, <2>5, WriteKeepsTokens
    <2> QED BY <2>1, <2>4, <2>5
  <1> QED BY <1>1, <1>2, <1>3

\* TokensInOnePlace is inductive.
LEMMA StepKeepsTokens ==
    TypeOK /\ TokensInOnePlace /\ [Next]_vars => TokensInOnePlace'
  <1> SUFFICES ASSUME TypeOK, TokensInOnePlace, [Next]_vars
               PROVE  TokensInOnePlace'
    OBVIOUS
  <1>1. ASSUME NEW r \in Requests, Request(r) PROVE TokensInOnePlace'
    BY <1>1, RequestKeepsTokens
  <1>2. ASSUME NEW r \in Requests, Step(r) PROVE TokensInOnePlace'
    BY <1>2, LocalStepKeepsTokens, StoreStepKeepsTokens, SaveKeepsTokens,
       CreateKeepsTokens DEF Step
  <1>3. ASSUME NEW r \in Requests, Cancel(r) PROVE TokensInOnePlace'
    BY <1>3, LocalStepKeepsTokens
  <1>4. ASSUME calls' = calls, ceremonies' = ceremonies, sessions' = sessions,
               issued' = issued, commits' = commits
        PROVE  TokensInOnePlace'
    BY <1>4
    DEF TokensInOnePlace, StoredTokensIssued, OwnedTokensApart, OneOwner,
        WrittenTokensApart, WrittenOnce, SessionsToCreate, SessionsCreatedOnce,
        Owns, At
  <1>5. CASE Tick \/ UNCHANGED vars
    BY <1>4, <1>5 DEF Tick, vars
  <1>6. ASSUME NEW session \in BrowserSessions, NEW user \in UserHandles \cup {None},
               Provision(session, user)
        PROVE  TokensInOnePlace'
    BY <1>4, <1>6 DEF Provision
  <1> QED BY <1>1, <1>2, <1>3, <1>5, <1>6 DEF Next

\* Every ceremony token is in one place at any time: undrawn, with one handler,
\* in the store, or spent on one write and at most one session.
THEOREM TokensCorrect == Spec => []TokensInOnePlace
  BY InitTokens, StepKeepsTokens, TypeCorrect, PTL DEF Spec

\* However many handlers race to finish the same ceremony, at most one of them
\* writes a credential or an update with it and at most one session comes of
\* it (Consume, finishEnrollment, finishLogin).
THEOREM SingleUse == Spec => []CeremoniesUsedOnce
  <1>1. TokensInOnePlace => CeremoniesUsedOnce
    BY DEF TokensInOnePlace, WrittenOnce, SessionsCreatedOnce, CeremoniesUsedOnce
  <1> QED BY <1>1, TokensCorrect, PTL

-----------------------------------------------------------------------------
(***************************************************************************)
(* What the library's acceptance means.                                    *)
(***************************************************************************)

LEMMA RegistrationInTime ==
    ASSUME NEW state, NEW response, NEW time,
           FinishRegistrationAccepts(RP, state, response, time)
    PROVE  time < state.expires
  <1>1. Passes(RegistrationStateChecks(RP, state, time))
    BY DEF FinishRegistrationAccepts
  <1>2. RegistrationStateChecks(RP, state, time)[2][1]
    BY <1>1 DEF Passes, RegistrationStateChecks
  <1> QED BY <1>2 DEF RegistrationStateChecks, NotExpired

LEMMA AuthenticationAccepted ==
    ASSUME NEW state, NEW response, NEW record, NEW time,
           FinishAuthenticationAccepts(RP, state, response, record, time)
    PROVE  /\ time < state.expires
           /\ response.signature.key = record.key
           /\ response.clientData.challenge = state.challenge
           /\ state.expected \in {None, record.user}
           /\ state.allow # {} => record.id \in state.allow
  <1>1. time < state.expires
    <2>1. Passes(AuthenticationStateChecks(RP, state, record, time))
      BY DEF FinishAuthenticationAccepts
    <2>2. AuthenticationStateChecks(RP, state, record, time)[4][1]
      BY <2>1 DEF Passes, AuthenticationStateChecks
    <2> QED BY <2>2 DEF AuthenticationStateChecks, NotExpired
  <1>2. response.signature.key = record.key
    <2>1. Passes(AssertionChecks(RP, response, record))
      BY DEF FinishAuthenticationAccepts
    <2>2. AssertionChecks(RP, response, record)[2][1]
      BY <2>1 DEF Passes, AssertionChecks
    <2>3. response.signature =
             Signature(record.key, response.authData, response.clientData)
      BY <2>2 DEF AssertionChecks
    <2> QED BY <2>3 DEF Signature
  <1>3. response.clientData.challenge = state.challenge
    <2> DEFINE checks == ClientDataChecks(response.clientData, "webauthn.get", state)
    <2>1. Passes(checks)
      BY DEF FinishAuthenticationAccepts
    <2>2. checks[3][1]
      BY <2>1 DEF Passes, ClientDataChecks
    <2> QED BY <2>2 DEF ClientDataChecks
  <1>4. ASSUME state.expected # None PROVE state.expected = record.user
    <2>1. Passes(UserBindingChecks(state, response, record))
      BY DEF FinishAuthenticationAccepts
    <2> DEFINE checks ==
                 << <<record.user = state.expected, "ErrCredentialOwnershipMismatch">>,
                    <<response.userHandle \in {None, state.expected},
                      "ErrCredentialOwnershipMismatch">> >>
    <2>2. UserBindingChecks(state, response, record) = checks
      BY <1>4 DEF UserBindingChecks
    <2>3. checks[1][1]
      BY <2>1, <2>2 DEF Passes
    <2> QED BY <2>3
  <1>5. ASSUME state.allow # {} PROVE record.id \in state.allow
    <2>1. Passes(CredentialBindingChecks(state, response, record))
      BY DEF FinishAuthenticationAccepts
    <2> DEFINE listed == state.allow # {} => response.rawId \in state.allow
               same == record.id = response.rawId
               rpId == record.rpId = state.rpId
    <2>2. CredentialBindingChecks(state, response, record) =
             << <<rpId, "ErrCredentialRPIDMismatch">>,
                <<same, "ErrCredentialNotAllowed">>,
                <<listed, "ErrCredentialNotAllowed">> >>
      BY DEF CredentialBindingChecks
    <2> HIDE DEF listed, same, rpId
    <2>3. same /\ listed
      BY <2>1, <2>2 DEF Passes
    <2>4. record.id = response.rawId
      BY <2>3 DEF same
    <2>5. response.rawId \in state.allow
      BY <1>5, <2>3 DEF listed
    <2> QED BY <2>4, <2>5
  <1> QED BY <1>1, <1>2, <1>3, <1>4, <1>5

-----------------------------------------------------------------------------
(***************************************************************************)
(* What handlers have established.                                         *)
(***************************************************************************)

\* A handler moves on with what it has established; nothing is written but,
\* possibly, the ceremony store.
LEMMA MoveSound ==
    ASSUME TypeOK, HandlersSound, NEW r \in Requests, NEW call,
           Goto(r, call), VerifiedCall(call), call.pc # "create session",
           CeremoniesWhole', sessions' = sessions, commits' = commits
    PROVE  HandlersSound'
  <1>1. \A q \in Requests : calls'[q] = IF q = r THEN call ELSE calls[q]
    BY DEF Goto, TypeOK
  <1>2. CallsVerified'
    BY <1>1 DEF HandlersSound, CallsVerified
  <1>3. Logins' = Logins
    BY DEF Logins
  <1>4. /\ EnrollmentAuthorized'
        /\ UsedBeforeExpiry'
        /\ LoginsAuthentic'
    <2>1. EnrollmentAuthorized'
      BY DEF HandlersSound, EnrollmentAuthorized
    <2>2. UsedBeforeExpiry'
      BY DEF HandlersSound, UsedBeforeExpiry
    <2>3. LoginsAuthentic'
      BY <1>3 DEF HandlersSound, LoginsAuthentic
    <2> QED BY <2>1, <2>2, <2>3
  <1>5. \A q \in Requests : calls'[q].pc = "create session" => calls'[q] = calls[q]
    BY <1>1
  <1>6. SessionsBacked'
    BY <1>3, <1>5, ZenonT(40) DEF HandlersSound, SessionsBacked, At
  <1> QED BY <1>2, <1>4, <1>6 DEF HandlersSound

\* A request that has been answered owes no check.
LEMMA IdleVerified ==
    VerifiedCall(Idle)
  <1>1. Idle.pc = "idle"
    BY DEF Idle
  <1> QED BY <1>1 DEF VerifiedCall

LEMMA ReturnSound ==
    ASSUME TypeOK, HandlersSound, NEW r \in Requests, Return(r),
           CeremoniesWhole', sessions' = sessions, commits' = commits
    PROVE  HandlersSound'
  <1>1. Idle.pc = "idle"
    BY DEF Idle
  <1> QED BY <1>1, IdleVerified, MoveSound DEF Return

LEMMA WholeUnchanged ==
    ASSUME CeremoniesWhole, ceremonies' = ceremonies
    PROVE  CeremoniesWhole'
  BY DEF CeremoniesWhole

\* Consume hands on what the store held.
LEMMA ConsumeSound ==
    ASSUME TypeOK, HandlersSound, NEW r \in Requests,
           NEW id, NEW session, NEW kind, NEW accounts, NEW next,
           Consume(r, id, session, kind, accounts, next),
           ConsumeMatches(id, session, kind, accounts) => VerifiedCall(next),
           next.pc # "create session",
           sessions' = sessions, commits' = commits
    PROVE  HandlersSound'
  <1>1. CASE ~ConsumeMatches(id, session, kind, accounts)
    <2>1. CeremoniesWhole'
      BY <1>1, WholeUnchanged DEF Consume, HandlersSound
    <2> QED BY <1>1, <2>1, ReturnSound DEF Consume
  <1>2. CASE ConsumeMatches(id, session, kind, accounts)
    <2>1. CeremoniesWhole'
      BY <1>2 DEF Consume, HandlersSound, CeremoniesWhole
    <2>2. Goto(r, next) \/ Return(r)
      BY <1>2 DEF Consume, Return
    <2> QED BY <1>2, <2>1, <2>2, MoveSound, ReturnSound
  <1> QED BY <1>1, <1>2

LEMMA RequestSound ==
    ASSUME TypeOK, HandlersSound, NEW r \in Requests, Request(r)
    PROVE  HandlersSound'
  <1>1. PICK session \in PresentedSessions, id \in CeremonyIDs :
           \/ BeginEnrollment(r, session, id)
           \/ FinishEnrollment(r, session, id)
           \/ \E user \in UserHandles : BeginLogin(r, session, user, id)
           \/ BeginDiscoverableLogin(r, session, id)
           \/ FinishLogin(r, session, id)
    BY DEF Request
  <1>2. sessions' = sessions /\ commits' = commits
    BY <1>1 DEF BeginEnrollment, FinishEnrollment, BeginLogin,
                BeginDiscoverableLogin, FinishLogin
  <1>3. CASE FinishLogin(r, session, id)
    <2> DEFINE next == [pc |-> "lookup", id |-> id, session |-> session,
                        saved |-> ceremonies[id]]
    <2>1. Consume(r, id, session, "authentication", AnyAccount, next)
      BY <1>3 DEF FinishLogin
    <2>2. next.pc # "create session"
      OBVIOUS
    <2>3. ConsumeMatches(id, session, "authentication", AnyAccount) =>
             VerifiedCall(next)
      BY DEF ConsumeMatches, HandlersSound, CeremoniesWhole, VerifiedCall
    <2> HIDE DEF next
    <2> QED BY <1>2, <2>1, <2>2, <2>3, ConsumeSound
  <1>4. CASE ~FinishLogin(r, session, id)
    <2> DEFINE user == EnrollmentUser(session)
               begin == [pc |-> "start registration", id |-> id,
                         session |-> session, user |-> user]
               finish == [pc |-> "consume registration", id |-> id,
                          session |-> session, user |-> user]
               list(name) == [pc |-> "list credentials", id |-> id,
                              session |-> session, user |-> name]
               start == [pc |-> "start authentication", id |-> id,
                         session |-> session, expected |-> None, allow |-> {}]
    <2>1. ceremonies' = ceremonies
      BY <1>1, <1>4 DEF BeginEnrollment, FinishEnrollment, BeginLogin,
                        BeginDiscoverableLogin
    <2>2. \/ Goto(r, begin) \/ Goto(r, finish) \/ Goto(r, start)
          \/ \E name \in UserHandles : Goto(r, list(name))
      BY <1>1, <1>4 DEF BeginEnrollment, FinishEnrollment, BeginLogin,
                        BeginDiscoverableLogin
    <2>3. /\ begin.pc = "start registration" /\ finish.pc = "consume registration"
          /\ \A name : list(name).pc = "list credentials"
      OBVIOUS
    <2>4. start.pc = "start authentication" /\ start.allow = {} /\ start.expected = None
      OBVIOUS
    <2>5. CeremoniesWhole'
      BY <2>1, WholeUnchanged DEF HandlersSound
    <2> HIDE DEF begin, finish, list, start
    <2>6. VerifiedCall(begin) /\ VerifiedCall(finish)
      BY <2>3 DEF VerifiedCall
    <2>7. VerifiedCall(start)
      BY <2>4 DEF VerifiedCall
    <2>8. \A name : VerifiedCall(list(name))
      BY <2>3 DEF VerifiedCall
    <2>9. CASE Goto(r, begin)
      BY <1>2, <2>3, <2>5, <2>9, <2>6, MoveSound
    <2>10. CASE Goto(r, finish)
      BY <1>2, <2>3, <2>5, <2>10, <2>6, MoveSound
    <2>11. CASE Goto(r, start)
      BY <1>2, <2>4, <2>5, <2>11, <2>7, MoveSound
    <2>12. ASSUME NEW name \in UserHandles, Goto(r, list(name)) PROVE HandlersSound'
      BY <1>2, <2>3, <2>5, <2>12, <2>8, MoveSound
    <2> QED BY <2>2, <2>9, <2>10, <2>11, <2>12
  <1> QED BY <1>3, <1>4

\* The steps of beginEnrollment and beginLogin.
LEMMA BeginStepSound ==
    ASSUME TypeOK, HandlersSound, NEW r \in Requests,
           StartRegistration(r) \/ ListCredentials(r) \/ StartAuthentication(r)
    PROVE  HandlersSound'
  <1> DEFINE call == calls[r]
  <1>1. /\ sessions' = sessions /\ commits' = commits
        /\ CeremoniesWhole'
    <2>1. ceremonies' = ceremonies /\ sessions' = sessions /\ commits' = commits
      BY DEF StartRegistration, ListCredentials, StartAuthentication
    <2> QED BY <2>1, WholeUnchanged DEF HandlersSound
  <1>2. CASE StartRegistration(r)
    <2> DEFINE state == RegistrationState(RP, call.user, NoExtensions, FALSE,
                                          call.id, now)
               saved == [kind |-> "registration", session |-> call.session,
                         account |-> call.user, expires |-> state.expires,
                         state |-> state]
               next == [pc |-> "save", id |-> call.id, saved |-> saved]
    <2>1. Goto(r, next)
      BY <1>2 DEF StartRegistration
    <2>2. state.challenge = call.id
      BY DEF RegistrationState
    <2> HIDE DEF state
    <2>3. SavedFor(call.id, saved)
      BY <2>2 DEF SavedFor
    <2> HIDE DEF saved
    <2>4. VerifiedCall(next) /\ next.pc = "save"
      BY <2>3 DEF VerifiedCall
    <2> HIDE DEF next
    <2> QED BY <1>1, <2>1, <2>4, MoveSound
  <1>3. CASE ListCredentials(r)
    <2> DEFINE next == [pc |-> "start authentication", id |-> call.id,
                        session |-> call.session, expected |-> call.user,
                        allow |-> CredentialsOf(call.user)]
    <2>1. Return(r) \/ (Goto(r, next) /\ CredentialsOf(call.user) # {})
      BY <1>3 DEF ListCredentials
    <2>2. next.pc = "start authentication" /\ next.allow = CredentialsOf(call.user)
      OBVIOUS
    <2> HIDE DEF next
    <2>3. CredentialsOf(call.user) # {} => VerifiedCall(next)
      BY <2>2 DEF VerifiedCall
    <2>4. CASE Return(r)
      BY <1>1, <2>4, ReturnSound
    <2>5. CASE Goto(r, next) /\ CredentialsOf(call.user) # {}
      BY <1>1, <2>2, <2>3, <2>5, MoveSound
    <2> QED BY <2>1, <2>4, <2>5
  <1>4. CASE StartAuthentication(r)
    <2> DEFINE state == AuthenticationState(RP, call.expected, call.allow,
                                            NoExtensions, call.id, now)
               saved == [kind |-> "authentication", session |-> call.session,
                         account |-> call.expected, expires |-> state.expires,
                         state |-> state]
               next == [pc |-> "save", id |-> call.id, saved |-> saved]
    <2>1. Goto(r, next)
      BY <1>4 DEF StartAuthentication
    <2>2. state.challenge = call.id /\ state.allow = call.allow
      BY DEF AuthenticationState
    <2>3. call.expected # None => call.allow # {}
      BY <1>4 DEF StartAuthentication, At, HandlersSound, CallsVerified, VerifiedCall
    <2> HIDE DEF state
    <2>4. SavedFor(call.id, saved)
      BY <2>2, <2>3 DEF SavedFor
    <2> HIDE DEF saved
    <2>5. VerifiedCall(next) /\ next.pc = "save"
      BY <2>4 DEF VerifiedCall
    <2> HIDE DEF next
    <2> QED BY <1>1, <2>1, <2>5, MoveSound
  <1> QED BY <1>2, <1>3, <1>4

LEMMA SaveSound ==
    ASSUME TypeOK, HandlersSound, NEW r \in Requests, SaveCeremony(r)
    PROVE  HandlersSound'
  <1> DEFINE id == calls[r].id
             saved == calls[r].saved
  <1>1. SavedFor(id, saved)
    BY DEF SaveCeremony, At, HandlersSound, CallsVerified, VerifiedCall
  <1>2. \/ ceremonies' = ceremonies
        \/ /\ DOMAIN ceremonies' \subseteq DOMAIN ceremonies \cup {id}
           /\ \A i \in DOMAIN ceremonies' :
                  ceremonies'[i] = IF i = id THEN saved ELSE ceremonies[i]
    BY DEF SaveCeremony, KeptIDs
  <1> HIDE DEF id, saved
  <1>3. CeremoniesWhole'
    BY <1>1, <1>2 DEF HandlersSound, CeremoniesWhole
  <1>4. Return(r) /\ sessions' = sessions /\ commits' = commits
    BY DEF SaveCeremony
  <1> QED BY <1>3, <1>4, ReturnSound

LEMMA ConsumeRegistrationSound ==
    ASSUME TypeOK, HandlersSound, NEW r \in Requests, ConsumeRegistration(r)
    PROVE  HandlersSound'
  <1> DEFINE call == calls[r]
             next == [pc |-> "verify registration", id |-> call.id,
                      session |-> call.session, user |-> call.user,
                      saved |-> ceremonies[call.id]]
  <1>1. /\ Consume(r, call.id, call.session, "registration", {call.user}, next)
        /\ sessions' = sessions /\ commits' = commits
    BY DEF ConsumeRegistration
  <1>2. next.pc # "create session"
    OBVIOUS
  <1>3. ConsumeMatches(call.id, call.session, "registration", {call.user}) =>
           VerifiedCall(next)
    BY DEF ConsumeMatches, HandlersSound, CeremoniesWhole, VerifiedCall
  <1> HIDE DEF next
  <1> QED BY <1>1, <1>2, <1>3, ConsumeSound

LEMMA VerifyRegistrationSound ==
    ASSUME TypeOK, HandlersSound, NEW r \in Requests,
           NEW response \in Registrations, VerifyRegistration(r, response)
    PROVE  HandlersSound'
  <1> DEFINE call == calls[r]
             record == RegisteredCredential(call.saved.state, response)
             next == [pc |-> "insert", id |-> call.id, session |-> call.session,
                      user |-> call.user, saved |-> call.saved,
                      response |-> response, record |-> record,
                      verifiedAt |-> now]
  <1>1. \/ Return(r)
        \/ /\ Goto(r, next)
           /\ call.saved.state.user = call.saved.account
           /\ call.saved.state.expires = call.saved.expires
           /\ FinishRegistrationAccepts(RP, call.saved.state, response, now)
    BY DEF VerifyRegistration
  <1>2. sessions' = sessions /\ commits' = commits /\ CeremoniesWhole'
    BY WholeUnchanged DEF VerifyRegistration, HandlersSound
  <1>3. CASE Return(r)
    BY <1>2, <1>3, ReturnSound
  <1>4. CASE /\ Goto(r, next)
             /\ call.saved.state.user = call.saved.account
             /\ call.saved.state.expires = call.saved.expires
             /\ FinishRegistrationAccepts(RP, call.saved.state, response, now)
    <2>1. /\ call.saved.account = call.user /\ call.saved.session = call.session
          /\ SavedFor(call.id, call.saved)
      BY DEF VerifyRegistration, At, HandlersSound, CallsVerified, VerifiedCall
    <2>2. record.user = call.user
      BY <1>4, <2>1 DEF RegisteredCredential
    <2>3. now < call.saved.expires
      BY <1>4, RegistrationInTime
    <2> HIDE DEF record
    <2>4. VerifiedCall(next) /\ next.pc = "insert"
      BY <2>1, <2>2, <2>3 DEF VerifiedCall
    <2> HIDE DEF next
    <2> QED BY <1>2, <1>4, <2>4, MoveSound
  <1> QED BY <1>1, <1>3, <1>4

LEMMA LookupSound ==
    ASSUME TypeOK, HandlersSound, NEW r \in Requests,
           NEW response \in Assertions, LookupCredential(r, response)
    PROVE  HandlersSound'
  <1> DEFINE call == calls[r]
             next == [pc |-> "verify authentication", id |-> call.id,
                      session |-> call.session, saved |-> call.saved,
                      response |-> response,
                      record |-> credentials[response.rawId].record,
                      version |-> credentials[response.rawId].version]
  <1>1. \/ Return(r)
        \/ /\ Goto(r, next)
           /\ call.saved.state.expected = call.saved.account
           /\ call.saved.state.expires = call.saved.expires
    BY DEF LookupCredential
  <1>2. sessions' = sessions /\ commits' = commits /\ CeremoniesWhole'
    BY WholeUnchanged DEF LookupCredential, HandlersSound
  <1>3. CASE Return(r)
    BY <1>2, <1>3, ReturnSound
  <1>4. CASE /\ Goto(r, next)
             /\ call.saved.state.expected = call.saved.account
             /\ call.saved.state.expires = call.saved.expires
    <2>1. SavedFor(call.id, call.saved)
      BY DEF LookupCredential, At, HandlersSound, CallsVerified, VerifiedCall
    <2>2. VerifiedCall(next) /\ next.pc = "verify authentication"
      BY <1>4, <2>1 DEF VerifiedCall
    <2> HIDE DEF next
    <2> QED BY <1>2, <1>4, <2>2, MoveSound
  <1> QED BY <1>1, <1>3, <1>4

LEMMA VerifyAuthenticationSound ==
    ASSUME TypeOK, HandlersSound, NEW r \in Requests, VerifyAuthentication(r)
    PROVE  HandlersSound'
  <1> DEFINE call == calls[r]
             next == [pc |-> "update", id |-> call.id, session |-> call.session,
                      saved |-> call.saved, response |-> call.response,
                      record |-> call.record, version |-> call.version,
                      verifiedAt |-> now]
  <1>1. \/ Return(r)
        \/ /\ Goto(r, next)
           /\ FinishAuthenticationAccepts(RP, call.saved.state, call.response,
                                          call.record, now)
           /\ ~CloneRisk(call.record.signCount, call.response.authData.signCount)
    BY DEF VerifyAuthentication, Risky
  <1>2. sessions' = sessions /\ commits' = commits /\ CeremoniesWhole'
    BY WholeUnchanged DEF VerifyAuthentication, HandlersSound
  <1>3. CASE Return(r)
    BY <1>2, <1>3, ReturnSound
  <1>4. CASE /\ Goto(r, next)
             /\ FinishAuthenticationAccepts(RP, call.saved.state, call.response,
                                            call.record, now)
             /\ ~CloneRisk(call.record.signCount, call.response.authData.signCount)
    <2>1. /\ SavedFor(call.id, call.saved)
          /\ call.saved.state.expected = call.saved.account
          /\ call.saved.state.expires = call.saved.expires
      BY DEF VerifyAuthentication, At, HandlersSound, CallsVerified, VerifiedCall
    <2>2. now < call.saved.expires /\ Authentic(call.saved, call.response, call.record)
      BY <1>4, <2>1, AuthenticationAccepted DEF Authentic
    <2>3. VerifiedCall(next) /\ next.pc = "update"
      BY <1>4, <2>1, <2>2 DEF VerifiedCall
    <2> HIDE DEF next
    <2> QED BY <1>2, <1>4, <2>3, MoveSound
  <1> QED BY <1>1, <1>3, <1>4

LEMMA InsertSound ==
    ASSUME TypeOK, HandlersSound, NEW r \in Requests, InsertCredential(r)
    PROVE  HandlersSound'
  <1> DEFINE call == calls[r]
             commit == [kind |-> "registration", ceremony |-> call.id,
                        session |-> call.session, user |-> call.user,
                        saved |-> call.saved, response |-> call.response,
                        record |-> call.record, version |-> 0,
                        verifiedAt |-> call.verifiedAt]
  <1>1. Return(r) /\ (commits' = commits \/ commits' = commits \cup {commit})
    BY DEF InsertCredential
  <1>2. sessions' = sessions /\ CeremoniesWhole'
    BY WholeUnchanged DEF InsertCredential, HandlersSound
  <1>3. CASE commits' = commits
    BY <1>1, <1>2, <1>3, ReturnSound
  <1>4. CASE commits' = commits \cup {commit}
    <2>1. /\ call.saved.account = call.user /\ call.saved.session = call.session
          /\ call.record.user = call.user
          /\ call.verifiedAt < call.saved.expires
      BY DEF InsertCredential, At, HandlersSound, CallsVerified, VerifiedCall
    <2>2. /\ commit.kind = "registration" /\ commit.user = call.user
          /\ commit.session = call.session /\ commit.saved = call.saved
          /\ commit.record = call.record /\ commit.verifiedAt = call.verifiedAt
      OBVIOUS
    <2> HIDE DEF commit
    <2>3. Logins' = Logins
      BY <1>4, <2>2 DEF Logins
    <2>4. \A q \in Requests : calls'[q] = IF q = r THEN Idle ELSE calls[q]
      BY <1>1 DEF Return, Goto, TypeOK
    <2>5. Idle.pc = "idle"
      BY DEF Idle
    <2>6. CallsVerified'
      BY <2>4, IdleVerified DEF HandlersSound, CallsVerified
    <2>7. EnrollmentAuthorized'
      BY <1>4, <2>1, <2>2 DEF HandlersSound, EnrollmentAuthorized
    <2>8. UsedBeforeExpiry'
      BY <1>4, <2>1, <2>2 DEF HandlersSound, UsedBeforeExpiry
    <2>9. LoginsAuthentic'
      BY <2>3 DEF HandlersSound, LoginsAuthentic
    <2>10. SessionsBacked'
      BY <1>2, <2>3, <2>4, <2>5, ZenonT(40) DEF HandlersSound, SessionsBacked, At
    <2> QED BY <1>2, <2>6, <2>7, <2>8, <2>9, <2>10 DEF HandlersSound
  <1> QED BY <1>1, <1>3, <1>4

LEMMA UpdateSound ==
    ASSUME TypeOK, HandlersSound, NEW r \in Requests, UpdateCredential(r)
    PROVE  HandlersSound'
  <1> DEFINE call == calls[r]
             commit == [kind |-> "authentication", ceremony |-> call.id,
                        session |-> call.session, user |-> call.record.user,
                        saved |-> call.saved, response |-> call.response,
                        record |-> call.record, version |-> call.version,
                        verifiedAt |-> call.verifiedAt]
             next == [pc |-> "create session", id |-> call.id,
                      user |-> call.record.user]
  <1>1. \/ commits' = commits /\ Return(r)
        \/ commits' = commits \cup {commit} /\ Goto(r, next)
    BY DEF UpdateCredential
  <1>2. sessions' = sessions /\ CeremoniesWhole'
    BY WholeUnchanged DEF UpdateCredential, HandlersSound
  <1>3. CASE commits' = commits /\ Return(r)
    BY <1>2, <1>3, ReturnSound
  <1>4. CASE commits' = commits \cup {commit} /\ Goto(r, next)
    <2>1. /\ SavedFor(call.id, call.saved)
          /\ Authentic(call.saved, call.response, call.record)
          /\ call.verifiedAt < call.saved.expires
      BY DEF UpdateCredential, At, HandlersSound, CallsVerified, VerifiedCall
    <2>2. /\ commit.kind = "authentication" /\ commit.user = call.record.user
          /\ commit.ceremony = call.id /\ commit.saved = call.saved
          /\ commit.response = call.response /\ commit.record = call.record
          /\ commit.verifiedAt = call.verifiedAt
      OBVIOUS
    <2>3. /\ next.pc = "create session" /\ next.id = call.id
          /\ next.user = call.record.user
      OBVIOUS
    <2> HIDE DEF commit, next
    <2>4. Logins' = Logins \cup {commit}
      BY <1>4, <2>2 DEF Logins
    <2>5. \A q \in Requests : calls'[q] = IF q = r THEN next ELSE calls[q]
      BY <1>4 DEF Goto, TypeOK
    <2>6. VerifiedCall(next)
      BY <2>3 DEF VerifiedCall
    <2>7. CallsVerified'
      BY <2>5, <2>6 DEF HandlersSound, CallsVerified
    <2>8. EnrollmentAuthorized'
      BY <1>4, <2>2 DEF HandlersSound, EnrollmentAuthorized
    <2>9. UsedBeforeExpiry'
      BY <1>4, <2>1, <2>2 DEF HandlersSound, UsedBeforeExpiry
    <2>10. LoginsAuthentic'
      BY <2>1, <2>2, <2>4 DEF HandlersSound, LoginsAuthentic
    <2>11. ASSUME NEW q \in Requests, calls'[q].pc = "create session"
           PROVE  \E c \in Logins' : c.ceremony = calls'[q].id /\ c.user = calls'[q].user
      <3>1. CASE q = r
        BY <2>2, <2>3, <2>4, <2>5, <3>1
      <3>2. CASE q # r
        BY <2>4, <2>5, <2>11, <3>2, ZenonT(40) DEF HandlersSound, SessionsBacked, At
      <3> QED BY <3>1, <3>2
    <2>12. SessionsBacked'
      BY <1>2, <2>4, <2>11 DEF HandlersSound, SessionsBacked, At
    <2> QED BY <1>2, <2>7, <2>8, <2>9, <2>10, <2>12 DEF HandlersSound
  <1> QED BY <1>1, <1>3, <1>4

LEMMA CreateSessionSound ==
    ASSUME TypeOK, HandlersSound, NEW r \in Requests, NEW id \in SessionIDs,
           CreateSession(r, id)
    PROVE  HandlersSound'
  <1>1. Return(r) /\ commits' = commits /\ CeremoniesWhole'
    BY WholeUnchanged DEF CreateSession, HandlersSound
  <1>2. Logins' = Logins
    BY <1>1 DEF Logins
  <1>3. \A q \in Requests : calls'[q] = IF q = r THEN Idle ELSE calls[q]
    BY <1>1 DEF Return, Goto, TypeOK
  <1>4. Idle.pc = "idle"
    BY DEF Idle
  <1>5. CallsVerified'
    BY <1>3, IdleVerified DEF HandlersSound, CallsVerified
  <1>6. EnrollmentAuthorized' /\ UsedBeforeExpiry'
    BY <1>1 DEF HandlersSound, EnrollmentAuthorized, UsedBeforeExpiry
  <1>7. LoginsAuthentic'
    BY <1>2 DEF HandlersSound, LoginsAuthentic
  <1>8. PICK login \in Logins :
           login.ceremony = calls[r].id /\ login.user = calls[r].user
    BY DEF CreateSession, HandlersSound, SessionsBacked
  <1>9. \A s \in DOMAIN sessions' :
           \/ /\ s \in DOMAIN sessions /\ sessions'[s] = sessions[s]
           \/ sessions'[s].ceremony = calls[r].id /\ sessions'[s].user = calls[r].user
    BY DEF CreateSession
  <1>10. SessionsBacked'
    <2>1. ASSUME NEW q \in Requests, calls'[q].pc = "create session"
          PROVE  \E c \in Logins' : c.ceremony = calls'[q].id /\ c.user = calls'[q].user
      BY <1>2, <1>3, <1>4, <2>1, ZenonT(40) DEF HandlersSound, SessionsBacked, At
    <2>2. ASSUME NEW s \in DOMAIN sessions'
          PROVE  \E c \in Logins' : /\ c.ceremony = sessions'[s].ceremony
                                   /\ c.user = sessions'[s].user
      <3>1. CASE s \in DOMAIN sessions /\ sessions'[s] = sessions[s]
        BY <1>2, <3>1, ZenonT(40) DEF HandlersSound, SessionsBacked
      <3>2. CASE sessions'[s].ceremony = calls[r].id /\ sessions'[s].user = calls[r].user
        BY <1>2, <1>8, <3>2
      <3> QED BY <1>9, <3>1, <3>2
    <2> QED BY <2>1, <2>2 DEF SessionsBacked, At
  <1> QED BY <1>1, <1>5, <1>6, <1>7, <1>10 DEF HandlersSound

\* HandlersSound is inductive.
LEMMA StepSound ==
    TypeOK /\ HandlersSound /\ [Next]_vars => HandlersSound'
  <1> SUFFICES ASSUME TypeOK, HandlersSound, [Next]_vars
               PROVE  HandlersSound'
    OBVIOUS
  <1>1. ASSUME NEW r \in Requests, Request(r) PROVE HandlersSound'
    BY <1>1, RequestSound
  <1>2. ASSUME NEW r \in Requests, Step(r) PROVE HandlersSound'
    BY <1>2, BeginStepSound, SaveSound, ConsumeRegistrationSound,
       VerifyRegistrationSound, InsertSound, LookupSound,
       VerifyAuthenticationSound, UpdateSound, CreateSessionSound DEF Step
  <1>3. ASSUME NEW r \in Requests, Cancel(r) PROVE HandlersSound'
    BY <1>3, ReturnSound, WholeUnchanged DEF Cancel, HandlersSound
  <1>4. ASSUME calls' = calls, ceremonies' = ceremonies, sessions' = sessions,
               commits' = commits
        PROVE  HandlersSound'
    BY <1>4 DEF HandlersSound, CallsVerified, CeremoniesWhole,
       EnrollmentAuthorized, UsedBeforeExpiry, LoginsAuthentic, SessionsBacked,
       Logins, At
  <1>5. CASE Tick \/ UNCHANGED vars
    BY <1>4, <1>5 DEF Tick, vars
  <1>6. ASSUME NEW session \in BrowserSessions, NEW user \in UserHandles \cup {None},
               Provision(session, user)
        PROVE  HandlersSound'
    BY <1>4, <1>6 DEF Provision
  <1> QED BY <1>1, <1>2, <1>3, <1>5, <1>6 DEF Next

LEMMA InitSound == Init => HandlersSound
  <1> SUFFICES ASSUME Init PROVE HandlersSound
    OBVIOUS
  <1>1. Idle.pc = "idle"
    BY DEF Idle
  <1>2. \A r \in Requests : calls[r] = Idle
    BY DEF Init
  <1>3. DOMAIN ceremonies = {} /\ DOMAIN sessions = {} /\ commits = {}
    BY DEF Init
  <1>4. Logins = {}
    BY <1>3 DEF Logins
  <1>5. CallsVerified
    BY <1>1, <1>2 DEF CallsVerified, VerifiedCall
  <1>6. SessionsBacked
    BY <1>1, <1>2, <1>3 DEF SessionsBacked, At
  <1> QED BY <1>3, <1>4, <1>5, <1>6
    DEF HandlersSound, CeremoniesWhole, EnrollmentAuthorized, UsedBeforeExpiry,
        LoginsAuthentic

\* What a handler carries from one store operation to the next has been
\* verified as far as the handler has come (finishEnrollment, finishLogin).
THEOREM HandlersCorrect == Spec => []HandlersSound
  BY InitSound, StepSound, TypeCorrect, PTL DEF Spec

\* However grants move and handlers interleave, a credential is enrolled only
\* for the account its browser session was entitled to when the ceremony began
\* and when it finished (finishEnrollment, Consume).
THEOREM EnrollmentCorrect == Spec => []EnrollmentAuthorized
  <1>1. HandlersSound => EnrollmentAuthorized
    BY DEF HandlersSound
  <1> QED BY <1>1, HandlersCorrect, PTL

\* No response is accepted after its ceremony expired, however long the handler
\* waits after Consume (validateRegistrationState, validateAuthenticationState).
THEOREM InTime == Spec => []UsedBeforeExpiry
  <1>1. HandlersSound => UsedBeforeExpiry
    BY DEF HandlersSound
  <1> QED BY <1>1, HandlersCorrect, PTL

-----------------------------------------------------------------------------
(***************************************************************************)
(* The rows of the credential store, which concurrent logins read, verify  *)
(* against and conditionally update: the counters that were accepted, the  *)
(* identity of a credential, and what a session rests on.                  *)
(***************************************************************************)

\* What is inductive, with TypeOK and HandlersSound.
RowsInv == RowsOrdered /\ CountersAdvance

\* A handler moves on and writes nothing.
LEMMA MoveKeepsRows ==
    ASSUME TypeOK, RowsInv, NEW r \in Requests, NEW call, Goto(r, call),
           call.pc \in {"verify authentication", "update"} => SnapshotBehind(call),
           credentials' = credentials, commits' = commits
    PROVE  RowsInv'
  <1>1. \A q \in Requests : calls'[q] = IF q = r THEN call ELSE calls[q]
    BY DEF Goto, TypeOK
  <1>2. Logins' = Logins
    BY DEF Logins
  <1>3. SnapshotsBehind'
    BY <1>1 DEF RowsInv, RowsOrdered, SnapshotsBehind, SnapshotBehind
  <1>4. RowsOwnIDs' /\ LoginsBehind'
    BY <1>2 DEF RowsInv, RowsOrdered, RowsOwnIDs, LoginsBehind
  <1>5. CountersAdvance'
    BY <1>2 DEF RowsInv, CountersAdvance
  <1> QED BY <1>3, <1>4, <1>5 DEF RowsInv, RowsOrdered

LEMMA ReturnKeepsRows ==
    ASSUME TypeOK, RowsInv, NEW r \in Requests, Return(r),
           credentials' = credentials, commits' = commits
    PROVE  RowsInv'
  <1>1. Idle.pc = "idle"
    BY DEF Idle
  <1> QED BY <1>1, MoveKeepsRows DEF Return

\* The steps that neither read nor write a row.
LEMMA OtherStepKeepsRows ==
    ASSUME TypeOK, RowsInv, NEW r \in Requests,
           credentials' = credentials, commits' = commits,
           NEW call, Goto(r, call) \/ Return(r),
           call.pc \notin {"verify authentication", "update"}
    PROVE  RowsInv'
  BY MoveKeepsRows, ReturnKeepsRows

LEMMA RequestKeepsRows ==
    ASSUME TypeOK, RowsInv, NEW r \in Requests, Request(r)
    PROVE  RowsInv'
  <1>1. PICK session \in PresentedSessions, id \in CeremonyIDs :
           \/ BeginEnrollment(r, session, id)
           \/ FinishEnrollment(r, session, id)
           \/ \E user \in UserHandles : BeginLogin(r, session, user, id)
           \/ BeginDiscoverableLogin(r, session, id)
           \/ FinishLogin(r, session, id)
    BY DEF Request
  <1> DEFINE user == EnrollmentUser(session)
             begin == [pc |-> "start registration", id |-> id,
                       session |-> session, user |-> user]
             finish == [pc |-> "consume registration", id |-> id,
                        session |-> session, user |-> user]
             list(name) == [pc |-> "list credentials", id |-> id,
                            session |-> session, user |-> name]
             start == [pc |-> "start authentication", id |-> id,
                       session |-> session, expected |-> None, allow |-> {}]
             lookup == [pc |-> "lookup", id |-> id, session |-> session,
                        saved |-> ceremonies[id]]
  <1>2. credentials' = credentials /\ commits' = commits
    BY <1>1 DEF BeginEnrollment, FinishEnrollment, BeginLogin,
                BeginDiscoverableLogin, FinishLogin
  <1>3. \/ Goto(r, begin) \/ Goto(r, finish) \/ Goto(r, start) \/ Goto(r, lookup)
        \/ Return(r)
        \/ \E name \in UserHandles : Goto(r, list(name))
    BY <1>1 DEF BeginEnrollment, FinishEnrollment, BeginLogin,
                BeginDiscoverableLogin, FinishLogin, Consume, Return
  <1>4. /\ begin.pc = "start registration" /\ finish.pc = "consume registration"
        /\ start.pc = "start authentication" /\ lookup.pc = "lookup"
        /\ \A name : list(name).pc = "list credentials"
    OBVIOUS
  <1> HIDE DEF begin, finish, start, lookup, list
  <1>5. CASE Goto(r, begin) \/ Return(r)
    BY <1>2, <1>4, <1>5, OtherStepKeepsRows
  <1>6. CASE Goto(r, finish)
    BY <1>2, <1>4, <1>6, OtherStepKeepsRows
  <1>7. CASE Goto(r, start)
    BY <1>2, <1>4, <1>7, OtherStepKeepsRows
  <1>8. CASE Goto(r, lookup)
    BY <1>2, <1>4, <1>8, OtherStepKeepsRows
  <1>9. ASSUME NEW name \in UserHandles, Goto(r, list(name)) PROVE RowsInv'
    BY <1>2, <1>4, <1>9, OtherStepKeepsRows
  <1> QED BY <1>3, <1>5, <1>6, <1>7, <1>8, <1>9

LEMMA BeginStepKeepsRows ==
    ASSUME TypeOK, RowsInv, NEW r \in Requests,
           StartRegistration(r) \/ ListCredentials(r) \/ StartAuthentication(r)
    PROVE  RowsInv'
  <1>1. credentials' = credentials /\ commits' = commits
    BY DEF StartRegistration, ListCredentials, StartAuthentication
  <1> DEFINE call == calls[r]
             list == [pc |-> "start authentication", id |-> call.id,
                      session |-> call.session, expected |-> call.user,
                      allow |-> CredentialsOf(call.user)]
             save(saved) == [pc |-> "save", id |-> call.id, saved |-> saved]
  <1>2. CASE ListCredentials(r)
    <2>1. Goto(r, list) \/ Return(r)
      BY <1>2 DEF ListCredentials
    <2>2. list.pc = "start authentication"
      OBVIOUS
    <2> HIDE DEF list
    <2> QED BY <1>1, <2>1, <2>2, OtherStepKeepsRows
  <1>3. ASSUME NEW saved, Goto(r, save(saved)) PROVE RowsInv'
    <2>1. save(saved).pc = "save"
      OBVIOUS
    <2> HIDE DEF save
    <2> QED BY <1>1, <1>3, <2>1, OtherStepKeepsRows
  <1>4. CASE StartRegistration(r)
    <2>1. \E saved : Goto(r, save(saved))
      BY <1>4 DEF StartRegistration
    <2> QED BY <1>3, <2>1
  <1>5. CASE StartAuthentication(r)
    <2>1. \E saved : Goto(r, save(saved))
      BY <1>5 DEF StartAuthentication
    <2> QED BY <1>3, <2>1
  <1> QED BY <1>2, <1>4, <1>5

LEMMA EnrollmentStepKeepsRows ==
    ASSUME TypeOK, RowsInv, NEW r \in Requests,
           \/ SaveCeremony(r)
           \/ ConsumeRegistration(r)
           \/ \E response \in Registrations : VerifyRegistration(r, response)
    PROVE  RowsInv'
  <1>1. credentials' = credentials /\ commits' = commits
    BY DEF SaveCeremony, ConsumeRegistration, VerifyRegistration
  <1> DEFINE call == calls[r]
             verify == [pc |-> "verify registration", id |-> call.id,
                        session |-> call.session, user |-> call.user,
                        saved |-> ceremonies[call.id]]
             insert(response) ==
                 [pc |-> "insert", id |-> call.id, session |-> call.session,
                  user |-> call.user, saved |-> call.saved,
                  response |-> response,
                  record |-> RegisteredCredential(call.saved.state, response),
                  verifiedAt |-> now]
  <1>2. CASE SaveCeremony(r)
    BY <1>1, <1>2, ReturnKeepsRows DEF SaveCeremony
  <1>3. CASE ConsumeRegistration(r)
    <2>1. Goto(r, verify) \/ Return(r)
      BY <1>3 DEF ConsumeRegistration, Consume, Return
    <2>2. verify.pc = "verify registration"
      OBVIOUS
    <2> HIDE DEF verify
    <2> QED BY <1>1, <2>1, <2>2, OtherStepKeepsRows
  <1>4. ASSUME NEW response \in Registrations, VerifyRegistration(r, response)
        PROVE  RowsInv'
    <2>1. Goto(r, insert(response)) \/ Return(r)
      BY <1>4 DEF VerifyRegistration
    <2>2. insert(response).pc = "insert"
      OBVIOUS
    <2> HIDE DEF insert
    <2> QED BY <1>1, <2>1, <2>2, OtherStepKeepsRows
  <1> QED BY <1>2, <1>3, <1>4

LEMMA LookupKeepsRows ==
    ASSUME TypeOK, RowsInv, NEW r \in Requests,
           NEW response \in Assertions, LookupCredential(r, response)
    PROVE  RowsInv'
  <1> DEFINE call == calls[r]
             row == credentials[response.rawId]
             next == [pc |-> "verify authentication", id |-> call.id,
                      session |-> call.session, saved |-> call.saved,
                      response |-> response, record |-> row.record,
                      version |-> row.version]
  <1>1. \/ Return(r)
        \/ Goto(r, next) /\ response.rawId \in DOMAIN credentials
    BY DEF LookupCredential, LookupFinds
  <1>2. credentials' = credentials /\ commits' = commits
    BY DEF LookupCredential
  <1>3. CASE Return(r)
    BY <1>2, <1>3, ReturnKeepsRows
  <1>4. CASE Goto(r, next) /\ response.rawId \in DOMAIN credentials
    <2>1. next.record = row.record /\ next.version = row.version
      OBVIOUS
    <2>2. row.record.id = response.rawId
      BY <1>4 DEF RowsInv, RowsOrdered, RowsOwnIDs
    <2>3. row.version \in Int
      <3>1. row \in Row
        BY <1>4 DEF TypeOK, Partial
      <3> HIDE DEF row
      <3> QED BY <3>1, BoundAssumption DEF Row, Version
    <2> HIDE DEF next
    <2>4. SnapshotBehind(next)
      <3>1. credentials[next.record.id] = row /\ next.record.id = response.rawId
        BY <2>1, <2>2
      <3> HIDE DEF row
      <3> QED BY <1>4, <2>1, <2>3, <3>1 DEF SnapshotBehind
    <2> QED BY <1>2, <1>4, <2>4, MoveKeepsRows
  <1> QED BY <1>1, <1>3, <1>4

LEMMA VerifyAuthenticationKeepsRows ==
    ASSUME TypeOK, RowsInv, NEW r \in Requests, VerifyAuthentication(r)
    PROVE  RowsInv'
  <1> DEFINE call == calls[r]
             next == [pc |-> "update", id |-> call.id, session |-> call.session,
                      saved |-> call.saved, response |-> call.response,
                      record |-> call.record, version |-> call.version,
                      verifiedAt |-> now]
  <1>1. Return(r) \/ Goto(r, next)
    BY DEF VerifyAuthentication
  <1>2. credentials' = credentials /\ commits' = commits
    BY DEF VerifyAuthentication
  <1>3. SnapshotBehind(call)
    BY DEF VerifyAuthentication, At, RowsInv, RowsOrdered, SnapshotsBehind
  <1>4. next.record = call.record /\ next.version = call.version
    OBVIOUS
  <1> HIDE DEF next
  <1>5. SnapshotBehind(next)
    BY <1>3, <1>4 DEF SnapshotBehind
  <1>6. CASE Return(r)
    BY <1>2, <1>6, ReturnKeepsRows
  <1>7. CASE Goto(r, next)
    BY <1>2, <1>5, <1>7, MoveKeepsRows
  <1> QED BY <1>1, <1>6, <1>7

LEMMA VersionsIntegers == \A v \in Version : v \in Int
  BY BoundAssumption DEF Version

LEMMA InsertKeepsRows ==
    ASSUME TypeOK, RowsInv, NEW r \in Requests, InsertCredential(r)
    PROVE  RowsInv'
  <1> DEFINE call == calls[r]
             id == call.record.id
             row == [record |-> call.record, version |-> 1]
             commit == [kind |-> "registration", ceremony |-> call.id,
                        session |-> call.session, user |-> call.user,
                        saved |-> call.saved, response |-> call.response,
                        record |-> call.record, version |-> 0,
                        verifiedAt |-> call.verifiedAt]
  <1>1. /\ Return(r)
        /\ \/ credentials' = credentials /\ commits' = commits
           \/ /\ id \notin DOMAIN credentials
              /\ credentials' = [c \in DOMAIN credentials \cup {id} |->
                                    IF c = id THEN row ELSE credentials[c]]
              /\ commits' = commits \cup {commit}
    BY DEF InsertCredential, InsertAdmits
  <1>2. CASE credentials' = credentials /\ commits' = commits
    BY <1>1, <1>2, ReturnKeepsRows
  <1>3. CASE /\ id \notin DOMAIN credentials
             /\ credentials' = [c \in DOMAIN credentials \cup {id} |->
                                   IF c = id THEN row ELSE credentials[c]]
             /\ commits' = commits \cup {commit}
    <2>1. commit.kind = "registration" /\ row.record.id = id
      OBVIOUS
    <2> HIDE DEF commit, row, id
    <2>2. Logins' = Logins
      BY <1>3, <2>1 DEF Logins
    <2>3. /\ \A c \in DOMAIN credentials :
                c \in DOMAIN credentials' /\ credentials'[c] = credentials[c]
          /\ DOMAIN credentials' = DOMAIN credentials \cup {id}
          /\ credentials'[id] = row
      BY <1>3
    <2>4. \A q \in Requests : calls'[q] = IF q = r THEN Idle ELSE calls[q]
      BY <1>1 DEF Return, Goto, TypeOK
    <2>5. Idle.pc = "idle"
      BY DEF Idle
    <2>6. RowsOwnIDs'
      BY <2>1, <2>3 DEF RowsInv, RowsOrdered, RowsOwnIDs
    <2>7. SnapshotsBehind'
      <3> SUFFICES ASSUME NEW q \in Requests,
                          calls'[q].pc \in {"verify authentication", "update"}
                   PROVE  SnapshotBehind(calls[q])' 
        BY DEF SnapshotsBehind, SnapshotBehind
      <3>1. calls'[q] = calls[q] /\ SnapshotBehind(calls[q])
        BY <2>4, <2>5 DEF RowsInv, RowsOrdered, SnapshotsBehind
      <3> QED BY <2>3, <3>1 DEF SnapshotBehind
    <2>8. LoginsBehind'
      BY <2>2, <2>3 DEF RowsInv, RowsOrdered, LoginsBehind
    <2>9. CountersAdvance'
      BY <2>2 DEF RowsInv, CountersAdvance
    <2> QED BY <2>6, <2>7, <2>8, <2>9 DEF RowsInv, RowsOrdered
  <1> QED BY <1>1, <1>2, <1>3

\* What ApplyTo writes over the record that the verification read.
LEMMA AppliedAdvances ==
    ASSUME NEW call, call.record \in CredentialRecord, call.response \in Assertions,
           ~CloneRisk(call.record.signCount, call.response.authData.signCount)
    PROVE  LET record == call.record
               count == call.response.authData.signCount
               new == Applied(UpdateOf(call), record)
           IN  /\ count \in Int /\ record.signCount \in Int
               /\ new.id = record.id
               /\ Identity(new) = Identity(record)
               /\ new.signCount = count
               /\ \/ record.signCount = 0 /\ count = 0
                  \/ record.signCount < count
  <1> DEFINE record == call.record
             flags == call.response.authData
             update == UpdateOf(call)
             new == Applied(update, record)
             next == NextSignCount(record, flags, RP.updateOnCloneRisk)
  <1>1. update.next.signCount = next
    BY DEF UpdateOf, CredentialUpdate
  <1>2. record.signCount \in Int /\ flags.signCount \in Int
    BY ResponseAssumption DEF CredentialRecord, SignCount
  <1>3. /\ next = flags.signCount
        /\ \/ record.signCount = 0 /\ flags.signCount = 0
           \/ record.signCount < flags.signCount
    BY <1>2 DEF NextSignCount, CloneRisk, CompareCounters
  <1> HIDE DEF update, next
  <1>4. new.signCount = next
    BY <1>1 DEF Applied, CredentialRecord
  <1>5. /\ new.id = record.id /\ new.user = record.user /\ new.rpId = record.rpId
        /\ new.key = record.key /\ new.alg = record.alg
        /\ new.backupEligible = record.backupEligible
    BY DEF Applied, CredentialRecord
  <1> HIDE DEF new
  <1>6. Identity(new) = Identity(record)
    BY <1>5 DEF Identity
  <1> QED BY <1>2, <1>3, <1>4, <1>5, <1>6 DEF new, update

\* A row is written only over the record that was verified, and its counter
\* then is the one of the assertion.
LEMMA UpdateWrites ==
    ASSUME TypeOK, HandlersSound, RowsInv, NEW r \in Requests, UpdateCredential(r),
           credentials' # credentials \/ commits' # commits
    PROVE  LET call == calls[r]
               id == call.record.id
               commit == [kind |-> "authentication", ceremony |-> call.id,
                          session |-> call.session, user |-> call.record.user,
                          saved |-> call.saved, response |-> call.response,
                          record |-> call.record, version |-> call.version,
                          verifiedAt |-> call.verifiedAt]
               count == call.response.authData.signCount
           IN  /\ id \in DOMAIN credentials
               /\ credentials[id].record = call.record
               /\ credentials[id].version = call.version
               /\ DOMAIN credentials' = DOMAIN credentials
               /\ \A c \in DOMAIN credentials \ {id} : credentials'[c] = credentials[c]
               /\ credentials'[id].record.id = id
               /\ Identity(credentials'[id].record) = Identity(call.record)
               /\ credentials'[id].record.signCount = count
               /\ credentials'[id].version = call.version + 1
               /\ count \in Int /\ call.record.signCount \in Int
               /\ call.version \in Int
               /\ \/ call.record.signCount = 0 /\ count = 0
                  \/ call.record.signCount < count
               /\ commits' = commits \cup {commit}
               /\ Goto(r, [pc |-> "create session", id |-> call.id,
                           user |-> call.record.user])
  <1> DEFINE call == calls[r]
             id == call.record.id
             update == UpdateOf(call)
             count == call.response.authData.signCount
             new == Applied(update, credentials[id].record)
  <1>1. call \in UpdateCall
    BY CallShape DEF UpdateCredential, At, TypeOK
  <1>2. /\ call.record \in CredentialRecord /\ call.response \in Assertions
        /\ call.version \in Int
    BY <1>1, BoundAssumption DEF UpdateCall, Version
  <1>3. update.id = id
    BY DEF UpdateOf, CredentialUpdate
  <1>4. /\ UpdateAdmits(update, call.version)
        /\ credentials' = [credentials EXCEPT ![update.id] =
                 [record |-> Applied(update, @.record),
                  version |-> call.version + 1]]
        /\ commits' = commits \cup
             {[kind |-> "authentication", ceremony |-> call.id,
               session |-> call.session, user |-> call.record.user,
               saved |-> call.saved, response |-> call.response,
               record |-> call.record, version |-> call.version,
               verifiedAt |-> call.verifiedAt]}
        /\ Goto(r, [pc |-> "create session", id |-> call.id,
                    user |-> call.record.user])
    BY DEF UpdateCredential
  <1>5. id \in DOMAIN credentials /\ credentials[id].version = call.version
    BY <1>3, <1>4 DEF UpdateAdmits
  <1>6. credentials[id].record = call.record
    <2>1. SnapshotBehind(call)
      BY DEF UpdateCredential, At, RowsInv, RowsOrdered, SnapshotsBehind
    <2> QED BY <1>5, <2>1 DEF SnapshotBehind
  <1>7. ~CloneRisk(call.record.signCount, count)
    BY DEF UpdateCredential, At, HandlersSound, CallsVerified, VerifiedCall
  <1>8. count \in SignCount
    BY <1>2, ResponseAssumption
  <1>9. /\ new.id = id /\ Identity(new) = Identity(call.record)
        /\ new.signCount = count
        /\ \/ call.record.signCount = 0 /\ count = 0
           \/ call.record.signCount < count
    BY <1>2, <1>6, <1>7, AppliedAdvances
  <1>10. count \in Int /\ call.record.signCount \in Int
    BY <1>2, <1>8 DEF CredentialRecord, SignCount
  <1>11. /\ DOMAIN credentials' = DOMAIN credentials
         /\ \A c \in DOMAIN credentials \ {id} : credentials'[c] = credentials[c]
         /\ credentials'[id] = [record |-> new, version |-> call.version + 1]
    <2> HIDE DEF update
    <2> QED BY <1>3, <1>4, <1>5
  <1> HIDE DEF new
  <1>12. credentials'[id].record = new /\ credentials'[id].version = call.version + 1
    BY <1>11
  <1> QED BY <1>2, <1>4, <1>5, <1>6, <1>9, <1>10, <1>11, <1>12

LEMMA UpdateKeepsRows ==
    ASSUME TypeOK, HandlersSound, RowsInv, NEW r \in Requests, UpdateCredential(r)
    PROVE  RowsInv'
  <1> DEFINE call == calls[r]
             id == call.record.id
             commit == [kind |-> "authentication", ceremony |-> call.id,
                        session |-> call.session, user |-> call.record.user,
                        saved |-> call.saved, response |-> call.response,
                        record |-> call.record, version |-> call.version,
                        verifiedAt |-> call.verifiedAt]
             next == [pc |-> "create session", id |-> call.id,
                      user |-> call.record.user]
             count == call.response.authData.signCount
  <1>1. CASE credentials' = credentials /\ commits' = commits
    <2>1. next.pc = "create session"
      OBVIOUS
    <2>2. Goto(r, next) \/ Return(r)
      BY DEF UpdateCredential
    <2> HIDE DEF next
    <2> QED BY <1>1, <2>1, <2>2, OtherStepKeepsRows
  <1>2. CASE credentials' # credentials \/ commits' # commits
    <2>1. /\ id \in DOMAIN credentials
          /\ credentials[id].record = call.record
          /\ credentials[id].version = call.version
          /\ DOMAIN credentials' = DOMAIN credentials
          /\ \A c \in DOMAIN credentials \ {id} : credentials'[c] = credentials[c]
          /\ credentials'[id].record.id = id
          /\ Identity(credentials'[id].record) = Identity(call.record)
          /\ credentials'[id].record.signCount = count
          /\ credentials'[id].version = call.version + 1
          /\ count \in Int /\ call.record.signCount \in Int
          /\ call.version \in Int
          /\ \/ call.record.signCount = 0 /\ count = 0
             \/ call.record.signCount < count
          /\ commits' = commits \cup {commit}
          /\ Goto(r, next)
      BY <1>2, UpdateWrites
    <2>2. /\ commit.kind = "authentication" /\ commit.record = call.record
          /\ commit.version = call.version /\ commit.response = call.response
      OBVIOUS
    <2>3. next.pc = "create session"
      OBVIOUS
    <2>4. \A c \in Logins : c.version \in Int /\ c.response.authData.signCount \in Int
      <3> SUFFICES ASSUME NEW c \in Logins
                   PROVE  c.version \in Int /\ c.response.authData.signCount \in Int
        OBVIOUS
      <3>1. c \in LoginCommit
        BY DEF Logins, TypeOK, RegistrationCommit, LoginCommit
      <3>2. c.response \in Assertions /\ c.version \in Version
        BY <3>1 DEF LoginCommit
      <3> QED BY <3>2, ResponseAssumption, BoundAssumption DEF Version, SignCount
    <2>5. \A q \in Requests :
             calls[q].pc \in {"verify authentication", "update"} => calls[q].version \in Int
      <3> SUFFICES ASSUME NEW q \in Requests,
                          calls[q].pc \in {"verify authentication", "update"}
                   PROVE  calls[q].version \in Int
        OBVIOUS
      <3>1. calls[q] \in VerifyAuthenticationCall \/ calls[q] \in UpdateCall
        BY CallShape DEF TypeOK
      <3>2. calls[q].version \in Version
        BY <3>1 DEF VerifyAuthenticationCall, UpdateCall
      <3> QED BY <3>2, VersionsIntegers
    <2> HIDE DEF commit, next
    <2>6. Logins' = Logins \cup {commit}
      BY <2>1, <2>2 DEF Logins
    <2>7. \A q \in Requests : calls'[q] = IF q = r THEN next ELSE calls[q]
      BY <2>1 DEF Goto, TypeOK
    <2>8. RowsOwnIDs'
      BY <2>1 DEF RowsInv, RowsOrdered, RowsOwnIDs
    <2> HIDE DEF call, id, count
    <2>12. call.version \in Int
      BY <2>1
    <2>13. credentials'[id].version = call.version + 1
      BY <2>1
    <2>9. SnapshotsBehind'
      <3>1. ASSUME NEW q \in Requests,
                   calls'[q].pc \in {"verify authentication", "update"}
            PROVE  SnapshotBehind(calls[q])'
        <4>1. calls'[q] = calls[q] /\ SnapshotBehind(calls[q])
          BY <2>3, <2>7, <3>1 DEF RowsInv, RowsOrdered, SnapshotsBehind
        <4>2. CASE calls[q].record.id = id
          <5>1. calls[q].version \in Int
            BY <2>5, <3>1, <4>1
          <5>2. /\ Identity(calls[q].record) = Identity(call.record)
                /\ calls[q].version <= call.version
            BY <2>1, <4>1, <4>2 DEF SnapshotBehind
          <5>3. /\ calls[q].version <= credentials'[id].version
                /\ calls[q].version # credentials'[id].version
            BY <2>12, <2>13, <5>1, <5>2
          <5>4. Identity(calls[q].record) = Identity(credentials'[id].record)
            BY <2>1, <5>2
          <5> QED BY <2>1, <4>1, <4>2, <5>3, <5>4 DEF SnapshotBehind
        <4>3. CASE calls[q].record.id # id
          BY <2>1, <4>1, <4>3 DEF SnapshotBehind
        <4> QED BY <4>2, <4>3
      <3> QED BY <3>1 DEF SnapshotsBehind, SnapshotBehind
    <2>10. LoginsBehind'
      <3> SUFFICES ASSUME NEW c \in Logins'
                   PROVE  LET row == credentials'[c.record.id] IN
                          /\ c.record.id \in DOMAIN credentials'
                          /\ Identity(c.record) = Identity(row.record)
                          /\ c.version < row.version
                          /\ c.response.authData.signCount <= row.record.signCount
        BY DEF LoginsBehind
      <3>1. CASE c = commit
        BY <2>1, <2>2, <3>1 DEF id, count
      <3>2. CASE c \in Logins /\ c.record.id = id
        <4>1. /\ Identity(c.record) = Identity(call.record)
              /\ c.version < call.version
              /\ c.response.authData.signCount <= call.record.signCount
          BY <2>1, <3>2 DEF RowsInv, RowsOrdered, LoginsBehind
        <4> QED BY <2>1, <2>4, <3>2, <4>1
      <3>3. CASE c \in Logins /\ c.record.id # id
        BY <2>1, <3>3 DEF RowsInv, RowsOrdered, LoginsBehind
      <3> QED BY <2>6, <3>1, <3>2, <3>3
    <2>11. CountersAdvance'
      <3>1. ASSUME NEW c \in Logins, c.record.id = id
            PROVE  /\ c.version < call.version
                   /\ c.response.authData.signCount \in Int
                   /\ \/ c.response.authData.signCount < count
                      \/ c.response.authData.signCount = 0 /\ count = 0
        <4>1. /\ c.version < call.version
              /\ c.response.authData.signCount <= call.record.signCount
          BY <2>1, <3>1 DEF RowsInv, RowsOrdered, LoginsBehind
        <4>2. c.response.authData.signCount \in Nat
          <5>1. c \in LoginCommit
            BY DEF Logins, TypeOK, RegistrationCommit, LoginCommit
          <5> QED BY <5>1, ResponseAssumption DEF LoginCommit, SignCount
        <4> QED BY <2>1, <4>1, <4>2
      <3> SUFFICES ASSUME NEW c \in Logins', NEW d \in Logins',
                          c # d, c.record.id = d.record.id
                   PROVE  LET m == c.response.authData.signCount
                              n == d.response.authData.signCount
                          IN  /\ c.version # d.version
                              /\ c.version < d.version => (m < n \/ (m = 0 /\ n = 0))
        BY DEF CountersAdvance
      <3>2. /\ commit.record.id = id /\ commit.version = call.version
            /\ commit.response.authData.signCount = count
        BY <2>2 DEF id, count
      <3>3. CASE c \in Logins /\ d \in Logins
        BY <3>3 DEF RowsInv, CountersAdvance
      <3>4. CASE c \in Logins /\ d = commit
        BY <2>1, <2>4, <3>1, <3>2, <3>4
      <3>5. CASE c = commit /\ d \in Logins
        BY <2>1, <2>4, <3>1, <3>2, <3>5
      <3> QED BY <2>6, <3>3, <3>4, <3>5
    <2> QED BY <2>8, <2>9, <2>10, <2>11 DEF RowsInv, RowsOrdered
  <1> QED BY <1>1, <1>2

\* RowsInv is inductive.
LEMMA StepKeepsRows ==
    TypeOK /\ HandlersSound /\ RowsInv /\ [Next]_vars => RowsInv'
  <1> SUFFICES ASSUME TypeOK, HandlersSound, RowsInv, [Next]_vars
               PROVE  RowsInv'
    OBVIOUS
  <1>1. ASSUME NEW r \in Requests, Request(r) PROVE RowsInv'
    BY <1>1, RequestKeepsRows
  <1>2. ASSUME NEW r \in Requests, NEW id \in SessionIDs, CreateSession(r, id)
        PROVE  RowsInv'
    BY <1>2, ReturnKeepsRows DEF CreateSession
  <1>3. ASSUME NEW r \in Requests, Step(r) PROVE RowsInv'
    BY <1>2, <1>3, BeginStepKeepsRows, EnrollmentStepKeepsRows, InsertKeepsRows,
       LookupKeepsRows, VerifyAuthenticationKeepsRows, UpdateKeepsRows DEF Step
  <1>4. ASSUME NEW r \in Requests, Cancel(r) PROVE RowsInv'
    BY <1>4, ReturnKeepsRows DEF Cancel
  <1>5. ASSUME calls' = calls, credentials' = credentials, commits' = commits
        PROVE  RowsInv'
    BY <1>5 DEF RowsInv, RowsOrdered, RowsOwnIDs, SnapshotsBehind, SnapshotBehind,
       LoginsBehind, CountersAdvance, Logins
  <1>6. CASE Tick \/ UNCHANGED vars
    BY <1>5, <1>6 DEF Tick, vars
  <1>7. ASSUME NEW session \in BrowserSessions, NEW user \in UserHandles \cup {None},
               Provision(session, user)
        PROVE  RowsInv'
    BY <1>5, <1>7 DEF Provision
  <1> QED BY <1>1, <1>3, <1>4, <1>6, <1>7 DEF Next

LEMMA InitRows == Init => RowsInv
  <1> SUFFICES ASSUME Init PROVE RowsInv
    OBVIOUS
  <1>1. Idle.pc = "idle"
    BY DEF Idle
  <1>2. \A r \in Requests : calls[r] = Idle
    BY DEF Init
  <1>3. Logins = {}
    BY DEF Init, Logins
  <1>4. SnapshotsBehind
    BY <1>1, <1>2 DEF SnapshotsBehind
  <1>5. RowsOwnIDs
    BY InitialAssumption DEF Init, RowsOwnIDs
  <1> QED BY <1>3, <1>4, <1>5 DEF RowsInv, RowsOrdered, LoginsBehind, CountersAdvance

LEMMA RowsInvariant == Spec => []RowsInv
  BY InitRows, StepKeepsRows, TypeCorrect, HandlersCorrect, PTL DEF Spec

\* Whatever handlers read, verify and write concurrently, a handler about to
\* update either holds the latest row or an older version of it, and every
\* login has been overtaken by the row it wrote (Lookup, Update).
THEOREM RowsCorrect == Spec => []RowsOrdered
  <1>1. RowsInv => RowsOrdered
    BY DEF RowsInv
  <1> QED BY <1>1, RowsInvariant, PTL

\* The accepted counters of one credential grow strictly in the order of the
\* row versions, or are zero: however many copies of an authenticator log in
\* at once, no two logins rest on the same counter (Update, compareCounters).
THEOREM CountersCorrect == Spec => []CountersAdvance
  <1>1. RowsInv => CountersAdvance
    BY DEF RowsInv
  <1> QED BY <1>1, RowsInvariant, PTL

\* Every session belongs to the owner of a credential whose key signed the
\* challenge of the session's own ceremony (finishLogin).
THEOREM SessionsCorrect == Spec => []SessionsAuthentic
  <1>1. TypeOK /\ HandlersSound /\ RowsInv => SessionsAuthentic
    <2> SUFFICES ASSUME TypeOK, HandlersSound, RowsInv, NEW s \in DOMAIN sessions
                 PROVE  \E c \in Logins :
                          LET row == credentials[c.record.id].record IN
                          /\ c.ceremony = sessions[s].ceremony
                          /\ c.user = sessions[s].user
                          /\ row.user = c.user
                          /\ c.response.signature.key = row.key
                          /\ c.response.clientData.challenge = c.ceremony
                          /\ c.saved.account \in {None, c.user}
                          /\ c.saved.account # None => c.record.id \in c.saved.state.allow
      BY DEF SessionsAuthentic
    <2>1. PICK c \in Logins :
             c.ceremony = sessions[s].ceremony /\ c.user = sessions[s].user
      BY DEF HandlersSound, SessionsBacked
    <2> DEFINE row == credentials[c.record.id].record
    <2>2. /\ c.user = c.record.user
          /\ SavedFor(c.ceremony, c.saved)
          /\ Authentic(c.saved, c.response, c.record)
      BY DEF HandlersSound, LoginsAuthentic
    <2>3. row.user = c.record.user /\ row.key = c.record.key
      <3>1. Identity(c.record) = Identity(row)
        BY DEF RowsInv, RowsOrdered, LoginsBehind
      <3> HIDE DEF row
      <3>2. Identity(c.record).user = Identity(row).user
        BY <3>1
      <3>3. Identity(c.record).key = Identity(row).key
        BY <3>1
      <3> QED BY <3>2, <3>3 DEF Identity
    <2>4. c.saved.kind = "authentication"
      <3>1. c \in LoginCommit
        BY DEF Logins, TypeOK, RegistrationCommit, LoginCommit
      <3> QED BY <3>1 DEF LoginCommit, SavedAuthentication
    <2>5. c.response.clientData.challenge = c.ceremony
      BY <2>2 DEF SavedFor, Authentic
    <2>6. c.saved.account \in {None, c.user}
      BY <2>2 DEF Authentic
    <2>7. c.saved.account # None => c.record.id \in c.saved.state.allow
      BY <2>2, <2>4 DEF SavedFor, Authentic
    <2>8. c.response.signature.key = row.key /\ row.user = c.user
      BY <2>2, <2>3 DEF Authentic
    <2> QED BY <2>1, <2>5, <2>6, <2>7, <2>8
  <1> QED BY <1>1, TypeCorrect, HandlersCorrect, RowsInvariant, PTL

\* The only write to an existing row is an update.
LEMMA OthersKeepCredentials ==
    ASSUME TypeOK, [Next]_vars, ~(\E r \in Requests : UpdateCredential(r))
    PROVE  \A c \in DOMAIN credentials :
               c \in DOMAIN credentials' /\ credentials'[c] = credentials[c]
  <1>1. ASSUME NEW r \in Requests, Request(r) PROVE credentials' = credentials
    BY <1>1 DEF Request, BeginEnrollment, FinishEnrollment, BeginLogin,
                BeginDiscoverableLogin, FinishLogin
  <1>2. ASSUME NEW r \in Requests, InsertCredential(r)
        PROVE  \A c \in DOMAIN credentials :
                   c \in DOMAIN credentials' /\ credentials'[c] = credentials[c]
    BY <1>2 DEF InsertCredential, InsertAdmits
  <1>3. ASSUME NEW r \in Requests, Step(r), ~InsertCredential(r)
        PROVE  credentials' = credentials
    BY <1>3 DEF Step, StartRegistration, ListCredentials, StartAuthentication,
                SaveCeremony, ConsumeRegistration, VerifyRegistration,
                LookupCredential, VerifyAuthentication, CreateSession
  <1>4. ASSUME NEW r \in Requests, Cancel(r) PROVE credentials' = credentials
    BY <1>4 DEF Cancel
  <1>5. CASE Tick \/ UNCHANGED vars
    BY <1>5 DEF Tick, vars
  <1>6. ASSUME NEW session \in BrowserSessions, NEW user \in UserHandles \cup {None},
               Provision(session, user)
        PROVE  credentials' = credentials
    BY <1>6 DEF Provision
  <1> QED BY <1>1, <1>2, <1>3, <1>4, <1>5, <1>6 DEF Next

LEMMA StepKeepsCredentials ==
    TypeOK /\ HandlersSound /\ RowsInv /\ [Next]_vars => CredentialsKept
  <1> SUFFICES ASSUME TypeOK, HandlersSound, RowsInv, [Next]_vars,
                      NEW c \in DOMAIN credentials
               PROVE  /\ c \in DOMAIN credentials'
                      /\ Identity(credentials'[c].record) = Identity(credentials[c].record)
                      /\ credentials'[c].record.signCount >= credentials[c].record.signCount
                      /\ \/ credentials'[c] = credentials[c]
                         \/ credentials'[c].version = credentials[c].version + 1
    BY DEF CredentialsKept
  <1>1. credentials[c].record.signCount \in Int
    <2>1. credentials[c] \in Row
      BY DEF TypeOK, Partial
    <2>2. credentials[c].record \in CredentialRecord
      BY <2>1 DEF Row
    <2> QED BY <2>2 DEF CredentialRecord, SignCount
  <1>2. CASE c \in DOMAIN credentials' /\ credentials'[c] = credentials[c]
    BY <1>1, <1>2
  <1>3. ASSUME NEW r \in Requests, UpdateCredential(r),
               credentials' # credentials, c = calls[r].record.id
        PROVE  /\ c \in DOMAIN credentials'
               /\ Identity(credentials'[c].record) = Identity(credentials[c].record)
               /\ credentials'[c].record.signCount >= credentials[c].record.signCount
               /\ credentials'[c].version = credentials[c].version + 1
    <2> DEFINE call == calls[r]
               count == call.response.authData.signCount
    <2>1. /\ credentials[c].record = call.record
          /\ credentials[c].version = call.version
          /\ DOMAIN credentials' = DOMAIN credentials
          /\ Identity(credentials'[c].record) = Identity(call.record)
          /\ credentials'[c].record.signCount = count
          /\ credentials'[c].version = call.version + 1
          /\ count \in Int
          /\ \/ call.record.signCount = 0 /\ count = 0
             \/ call.record.signCount < count
      BY <1>3, UpdateWrites
    <2> HIDE DEF call, count
    <2>2. count \in Int
      BY <2>1
    <2>3. credentials'[c].record.signCount = count
      BY <2>1
    <2>4. \/ credentials[c].record.signCount = 0 /\ count = 0
          \/ credentials[c].record.signCount < count
      BY <2>1
    <2>5. credentials'[c].record.signCount >= credentials[c].record.signCount
      BY <1>1, <2>2, <2>3, <2>4
    <2> QED BY <2>1, <2>5
  <1>4. ASSUME NEW r \in Requests, UpdateCredential(r),
               credentials' # credentials, c # calls[r].record.id
        PROVE  c \in DOMAIN credentials' /\ credentials'[c] = credentials[c]
    BY <1>4, UpdateWrites
  <1> QED BY <1>2, <1>3, <1>4, OthersKeepCredentials

\* Under any interleaving a stored credential keeps its owner, key and backup
\* eligibility, its counter never goes back and every write moves its version
\* by one (Insert, Update, ApplyTo).
THEOREM CredentialsCorrect == Spec => CredentialsStable
  <1>1. TypeOK /\ HandlersSound /\ RowsInv /\ [Next]_vars => [CredentialsKept]_vars
    BY StepKeepsCredentials
  <1> QED BY <1>1, TypeCorrect, HandlersCorrect, RowsInvariant, PTL
          DEF Spec, CredentialsStable

-----------------------------------------------------------------------------
(***************************************************************************)
(* The ceremony store.                                                     *)
(***************************************************************************)

\* A list of credentials, none of them somebody else's.
OwnedBy(allow, user) ==
    /\ allow # {}
    /\ \A c \in allow : c \in DOMAIN credentials /\ credentials[c].record.user = user

SavedOwned(saved) ==
    (saved.kind = "authentication" /\ saved.account # None) =>
        OwnedBy(saved.state.allow, saved.account)

\* What AllowListOwned says of the store, for a ceremony still on its way there.
CallOwned(call) ==
    /\ (call.pc = "start authentication" /\ call.expected # None) =>
           OwnedBy(call.allow, call.expected)
    /\ call.pc = "save" => SavedOwned(call.saved)

AllowInv ==
    /\ \A r \in Requests : CallOwned(calls[r])
    /\ \A id \in DOMAIN ceremonies : SavedOwned(ceremonies[id])

\* A credential that is stored stays, and stays its owner's.
LEMMA OwnershipKept ==
    ASSUME CredentialsKept, NEW allow, NEW user, OwnedBy(allow, user)
    PROVE  OwnedBy(allow, user)'
  <1>1. ASSUME NEW c \in DOMAIN credentials
        PROVE  /\ c \in DOMAIN credentials'
               /\ credentials'[c].record.user = credentials[c].record.user
    <2>1. /\ c \in DOMAIN credentials'
          /\ Identity(credentials'[c].record) = Identity(credentials[c].record)
      BY DEF CredentialsKept
    <2>2. \A a, b : Identity(a) = Identity(b) => a.user = b.user
      BY DEF Identity
    <2> QED BY <2>1, <2>2
  <1> QED BY <1>1 DEF OwnedBy

LEMMA SavedOwnedKept ==
    ASSUME CredentialsKept, NEW saved, SavedOwned(saved)
    PROVE  SavedOwned(saved)'
  BY OwnershipKept DEF SavedOwned

LEMMA CallOwnedKept ==
    ASSUME CredentialsKept, NEW call, CallOwned(call)
    PROVE  CallOwned(call)'
  BY OwnershipKept, SavedOwnedKept DEF CallOwned

\* A handler moves on, and what the store holds was owned before the step.
LEMMA MoveOwned ==
    ASSUME TypeOK, AllowInv, CredentialsKept, NEW r \in Requests, NEW call,
           Goto(r, call), CallOwned(call),
           \A id \in DOMAIN ceremonies' : SavedOwned(ceremonies'[id])
    PROVE  AllowInv'
  <1>1. \A q \in Requests : calls'[q] = IF q = r THEN call ELSE calls[q]
    BY DEF Goto, TypeOK
  <1>2. \A q \in Requests : CallOwned(calls'[q])
    BY <1>1 DEF AllowInv
  <1>3. \A c : CallOwned(c) => CallOwned(c)'
    BY CallOwnedKept
  <1>4. \A s : SavedOwned(s) => SavedOwned(s)'
    BY SavedOwnedKept
  <1>5. (\A q \in Requests : CallOwned(calls[q]))'
    BY <1>2, <1>3 DEF CallOwned, SavedOwned, OwnedBy
  <1>6. (\A id \in DOMAIN ceremonies : SavedOwned(ceremonies[id]))'
    BY <1>4 DEF SavedOwned, OwnedBy
  <1> QED BY <1>5, <1>6 DEF AllowInv

LEMMA ReturnOwned ==
    ASSUME TypeOK, AllowInv, CredentialsKept, NEW r \in Requests, Return(r),
           \A id \in DOMAIN ceremonies' : SavedOwned(ceremonies'[id])
    PROVE  AllowInv'
  <1>1. Idle.pc = "idle"
    BY DEF Idle
  <1>2. CallOwned(Idle)
    BY <1>1 DEF CallOwned
  <1> QED BY <1>2, MoveOwned DEF Return

\* A handler that is neither about to start nor to save a ceremony has nothing
\* to keep.
LEMMA ElsewhereOwned ==
    ASSUME NEW call, call.pc \notin {"start authentication", "save"}
    PROVE  CallOwned(call)
  BY DEF CallOwned

LEMMA ConsumeOwned ==
    ASSUME TypeOK, AllowInv, CredentialsKept, NEW r \in Requests,
           NEW id, NEW session, NEW kind, NEW accounts, NEW next,
           Consume(r, id, session, kind, accounts, next),
           next.pc \notin {"start authentication", "save"}
    PROVE  AllowInv'
  <1>1. \A i \in DOMAIN ceremonies' : SavedOwned(ceremonies'[i])
    <2>1. \A i \in DOMAIN ceremonies' :
             i \in DOMAIN ceremonies /\ ceremonies'[i] = ceremonies[i]
      BY DEF Consume
    <2> QED BY <2>1 DEF AllowInv
  <1>2. Goto(r, next) \/ Return(r)
    BY DEF Consume, Return
  <1> QED BY <1>1, <1>2, ElsewhereOwned, MoveOwned, ReturnOwned

LEMMA RequestOwned ==
    ASSUME TypeOK, AllowInv, CredentialsKept, NEW r \in Requests, Request(r)
    PROVE  AllowInv'
  <1>1. PICK session \in PresentedSessions, id \in CeremonyIDs :
           \/ BeginEnrollment(r, session, id)
           \/ FinishEnrollment(r, session, id)
           \/ \E user \in UserHandles : BeginLogin(r, session, user, id)
           \/ BeginDiscoverableLogin(r, session, id)
           \/ FinishLogin(r, session, id)
    BY DEF Request
  <1>2. CASE FinishLogin(r, session, id)
    <2> DEFINE next == [pc |-> "lookup", id |-> id, session |-> session,
                        saved |-> ceremonies[id]]
    <2>1. Consume(r, id, session, "authentication", AnyAccount, next)
      BY <1>2 DEF FinishLogin
    <2>2. next.pc \notin {"start authentication", "save"}
      OBVIOUS
    <2> HIDE DEF next
    <2> QED BY <2>1, <2>2, ConsumeOwned
  <1>3. CASE ~FinishLogin(r, session, id)
    <2> DEFINE begin == [pc |-> "start registration", id |-> id,
                         session |-> session, user |-> EnrollmentUser(session)]
               finish == [pc |-> "consume registration", id |-> id,
                          session |-> session, user |-> EnrollmentUser(session)]
               list(name) == [pc |-> "list credentials", id |-> id,
                              session |-> session, user |-> name]
               start == [pc |-> "start authentication", id |-> id,
                         session |-> session, expected |-> None, allow |-> {}]
    <2>1. ceremonies' = ceremonies
      BY <1>1, <1>3 DEF BeginEnrollment, FinishEnrollment, BeginLogin,
                        BeginDiscoverableLogin
    <2>2. \/ Goto(r, begin) \/ Goto(r, finish) \/ Goto(r, start)
          \/ \E name \in UserHandles : Goto(r, list(name))
      BY <1>1, <1>3 DEF BeginEnrollment, FinishEnrollment, BeginLogin,
                        BeginDiscoverableLogin
    <2>3. /\ begin.pc = "start registration" /\ finish.pc = "consume registration"
          /\ \A name : list(name).pc = "list credentials"
          /\ start.pc = "start authentication" /\ start.expected = None
      OBVIOUS
    <2> HIDE DEF begin, finish, list, start
    <2>4. /\ CallOwned(begin) /\ CallOwned(finish) /\ CallOwned(start)
          /\ \A name : CallOwned(list(name))
      BY <2>3 DEF CallOwned
    <2>5. \A i \in DOMAIN ceremonies' : SavedOwned(ceremonies'[i])
      BY <2>1 DEF AllowInv
    <2> QED BY <2>2, <2>4, <2>5, MoveOwned
  <1> QED BY <1>2, <1>3

\* The steps of beginEnrollment and beginLogin: the list comes from List, and the
\* ceremony carries it.
LEMMA BeginStepOwned ==
    ASSUME TypeOK, AllowInv, CredentialsKept, NEW r \in Requests,
           StartRegistration(r) \/ ListCredentials(r) \/ StartAuthentication(r)
    PROVE  AllowInv'
  <1> DEFINE call == calls[r]
  <1>1. \A i \in DOMAIN ceremonies' : SavedOwned(ceremonies'[i])
    <2>1. ceremonies' = ceremonies
      BY DEF StartRegistration, ListCredentials, StartAuthentication
    <2> QED BY <2>1 DEF AllowInv
  <1>2. CASE StartRegistration(r)
    <2> DEFINE state == RegistrationState(RP, call.user, NoExtensions, FALSE,
                                          call.id, now)
               saved == [kind |-> "registration", session |-> call.session,
                         account |-> call.user, expires |-> state.expires,
                         state |-> state]
               next == [pc |-> "save", id |-> call.id, saved |-> saved]
    <2>1. Goto(r, next)
      BY <1>2 DEF StartRegistration
    <2> HIDE DEF state
    <2>2. SavedOwned(saved)
      BY DEF SavedOwned
    <2> HIDE DEF saved
    <2>3. CallOwned(next)
      BY <2>2 DEF CallOwned
    <2> HIDE DEF next
    <2> QED BY <1>1, <2>1, <2>3, MoveOwned
  <1>3. CASE ListCredentials(r)
    <2> DEFINE next == [pc |-> "start authentication", id |-> call.id,
                        session |-> call.session, expected |-> call.user,
                        allow |-> CredentialsOf(call.user)]
    <2>1. Return(r) \/ (Goto(r, next) /\ CredentialsOf(call.user) # {})
      BY <1>3 DEF ListCredentials
    <2>2. CredentialsOf(call.user) # {} => OwnedBy(CredentialsOf(call.user), call.user)
      BY DEF OwnedBy, CredentialsOf
    <2>3. CredentialsOf(call.user) # {} => CallOwned(next)
      BY <2>2 DEF CallOwned
    <2> HIDE DEF next
    <2> QED BY <1>1, <2>1, <2>3, MoveOwned, ReturnOwned
  <1>4. CASE StartAuthentication(r)
    <2> DEFINE state == AuthenticationState(RP, call.expected, call.allow,
                                            NoExtensions, call.id, now)
               saved == [kind |-> "authentication", session |-> call.session,
                         account |-> call.expected, expires |-> state.expires,
                         state |-> state]
               next == [pc |-> "save", id |-> call.id, saved |-> saved]
    <2>1. Goto(r, next)
      BY <1>4 DEF StartAuthentication
    <2>2. state.allow = call.allow
      BY DEF AuthenticationState
    <2>3. call.expected # None => OwnedBy(call.allow, call.expected)
      BY <1>4 DEF StartAuthentication, At, AllowInv, CallOwned
    <2> HIDE DEF state
    <2>4. SavedOwned(saved)
      BY <2>2, <2>3 DEF SavedOwned
    <2> HIDE DEF saved
    <2>5. CallOwned(next)
      BY <2>4 DEF CallOwned
    <2> HIDE DEF next
    <2> QED BY <1>1, <2>1, <2>5, MoveOwned
  <1> QED BY <1>2, <1>3, <1>4

\* What Save adds was with the handler, and what it keeps was in the store.
LEMMA SaveOwned ==
    ASSUME TypeOK, AllowInv, CredentialsKept, NEW r \in Requests, SaveCeremony(r)
    PROVE  AllowInv'
  <1> DEFINE id == calls[r].id
             saved == calls[r].saved
  <1>1. SavedOwned(saved)
    BY DEF SaveCeremony, At, AllowInv, CallOwned
  <1>2. \/ ceremonies' = ceremonies
        \/ /\ DOMAIN ceremonies' \subseteq DOMAIN ceremonies \cup {id}
           /\ \A i \in DOMAIN ceremonies' :
                  ceremonies'[i] = IF i = id THEN saved ELSE ceremonies[i]
    BY DEF SaveCeremony, KeptIDs
  <1> HIDE DEF id, saved
  <1>3. \A i \in DOMAIN ceremonies' : SavedOwned(ceremonies'[i])
    BY <1>1, <1>2 DEF AllowInv
  <1> QED BY <1>3, ReturnOwned DEF SaveCeremony

LEMMA ConsumeRegistrationOwned ==
    ASSUME TypeOK, AllowInv, CredentialsKept, NEW r \in Requests,
           ConsumeRegistration(r)
    PROVE  AllowInv'
  <1> DEFINE call == calls[r]
             next == [pc |-> "verify registration", id |-> call.id,
                      session |-> call.session, user |-> call.user,
                      saved |-> ceremonies[call.id]]
  <1>1. Consume(r, call.id, call.session, "registration", {call.user}, next)
    BY DEF ConsumeRegistration
  <1>2. next.pc \notin {"start authentication", "save"}
    OBVIOUS
  <1> HIDE DEF next
  <1> QED BY <1>1, <1>2, ConsumeOwned

\* The steps after Consume leave the ceremony store alone.
LEMMA FinishStepOwned ==
    ASSUME TypeOK, AllowInv, CredentialsKept, NEW r \in Requests,
           \/ \E response \in Registrations : VerifyRegistration(r, response)
           \/ InsertCredential(r)
           \/ \E response \in Assertions : LookupCredential(r, response)
           \/ VerifyAuthentication(r)
           \/ UpdateCredential(r)
           \/ \E id \in SessionIDs : CreateSession(r, id)
    PROVE  AllowInv'
  <1> DEFINE call == calls[r]
  <1>1. \A i \in DOMAIN ceremonies' : SavedOwned(ceremonies'[i])
    <2>1. ceremonies' = ceremonies
      BY DEF VerifyRegistration, InsertCredential, LookupCredential,
             VerifyAuthentication, UpdateCredential, CreateSession
    <2> QED BY <2>1 DEF AllowInv
  <1>2. ASSUME NEW response \in Registrations, VerifyRegistration(r, response)
        PROVE  AllowInv'
    <2> DEFINE next == [pc |-> "insert", id |-> call.id, session |-> call.session,
                        user |-> call.user, saved |-> call.saved,
                        response |-> response,
                        record |-> RegisteredCredential(call.saved.state, response),
                        verifiedAt |-> now]
    <2>1. Return(r) \/ Goto(r, next)
      BY <1>2 DEF VerifyRegistration
    <2>2. next.pc \notin {"start authentication", "save"}
      OBVIOUS
    <2> HIDE DEF next
    <2> QED BY <1>1, <2>1, <2>2, ElsewhereOwned, MoveOwned, ReturnOwned
  <1>3. ASSUME NEW response \in Assertions, LookupCredential(r, response)
        PROVE  AllowInv'
    <2> DEFINE next == [pc |-> "verify authentication", id |-> call.id,
                        session |-> call.session, saved |-> call.saved,
                        response |-> response,
                        record |-> credentials[response.rawId].record,
                        version |-> credentials[response.rawId].version]
    <2>1. Return(r) \/ Goto(r, next)
      BY <1>3 DEF LookupCredential
    <2>2. next.pc \notin {"start authentication", "save"}
      OBVIOUS
    <2> HIDE DEF next
    <2> QED BY <1>1, <2>1, <2>2, ElsewhereOwned, MoveOwned, ReturnOwned
  <1>4. CASE VerifyAuthentication(r)
    <2> DEFINE next == [pc |-> "update", id |-> call.id, session |-> call.session,
                        saved |-> call.saved, response |-> call.response,
                        record |-> call.record, version |-> call.version,
                        verifiedAt |-> now]
    <2>1. Return(r) \/ Goto(r, next)
      BY <1>4 DEF VerifyAuthentication
    <2>2. next.pc \notin {"start authentication", "save"}
      OBVIOUS
    <2> HIDE DEF next
    <2> QED BY <1>1, <2>1, <2>2, ElsewhereOwned, MoveOwned, ReturnOwned
  <1>5. CASE UpdateCredential(r)
    <2> DEFINE next == [pc |-> "create session", id |-> call.id,
                        user |-> call.record.user]
    <2>1. Return(r) \/ Goto(r, next)
      BY <1>5 DEF UpdateCredential
    <2>2. next.pc \notin {"start authentication", "save"}
      OBVIOUS
    <2> HIDE DEF next
    <2> QED BY <1>1, <2>1, <2>2, ElsewhereOwned, MoveOwned, ReturnOwned
  <1>6. CASE InsertCredential(r) \/ \E id \in SessionIDs : CreateSession(r, id)
    <2>1. Return(r)
      BY <1>6 DEF InsertCredential, CreateSession
    <2> QED BY <1>1, <2>1, ReturnOwned
  <1> QED BY <1>2, <1>3, <1>4, <1>5, <1>6

\* AllowInv is inductive, with the invariants of the rows.
LEMMA StepOwned ==
    TypeOK /\ HandlersSound /\ RowsInv /\ AllowInv /\ [Next]_vars => AllowInv'
  <1> SUFFICES ASSUME TypeOK, HandlersSound, RowsInv, AllowInv, [Next]_vars
               PROVE  AllowInv'
    OBVIOUS
  <1>1. CredentialsKept
    BY StepKeepsCredentials
  <1>2. ASSUME NEW r \in Requests, Request(r) PROVE AllowInv'
    BY <1>1, <1>2, RequestOwned
  <1>3. ASSUME NEW r \in Requests, Step(r) PROVE AllowInv'
    BY <1>1, <1>3, BeginStepOwned, SaveOwned, ConsumeRegistrationOwned,
       FinishStepOwned DEF Step
  <1>4. ASSUME NEW r \in Requests, Cancel(r) PROVE AllowInv'
    BY <1>1, <1>4, ReturnOwned DEF Cancel, AllowInv
  <1>5. ASSUME calls' = calls, ceremonies' = ceremonies, credentials' = credentials
        PROVE  AllowInv'
    BY <1>5 DEF AllowInv, CallOwned, SavedOwned, OwnedBy
  <1>6. CASE Tick \/ UNCHANGED vars
    BY <1>5, <1>6 DEF Tick, vars
  <1>7. ASSUME NEW session \in BrowserSessions, NEW user \in UserHandles \cup {None},
               Provision(session, user)
        PROVE  AllowInv'
    BY <1>5, <1>7 DEF Provision
  <1> QED BY <1>2, <1>3, <1>4, <1>6, <1>7 DEF Next

LEMMA InitOwned == Init => AllowInv
  <1> SUFFICES ASSUME Init PROVE AllowInv
    OBVIOUS
  <1>1. Idle.pc = "idle"
    BY DEF Idle
  <1>2. \A r \in Requests : calls[r] = Idle
    BY DEF Init
  <1>3. DOMAIN ceremonies = {}
    BY DEF Init
  <1>4. CallOwned(Idle)
    BY <1>1 DEF CallOwned
  <1> QED BY <1>2, <1>3, <1>4 DEF AllowInv

\* However credentials are added and updated while a named login is under way,
\* its stored ceremony lists at least one credential, and only that account's: it
\* never becomes a login that any passkey completes (beginLogin, List, Save).
THEOREM AllowListCorrect == Spec => []AllowListOwned
  <1>1. AllowInv => AllowListOwned
    BY DEF AllowInv, SavedOwned, OwnedBy, AllowListOwned
  <1>2. Spec => []AllowInv
    BY InitOwned, StepOwned, TypeCorrect, HandlersCorrect, RowsInvariant, PTL DEF Spec
  <1> QED BY <1>1, <1>2, PTL

-----------------------------------------------------------------------------
(***************************************************************************)
(* How a ceremony leaves the store.                                        *)
(***************************************************************************)

\* What LiveCeremoniesKept says of one step and one ceremony.
HandedOver(id) ==
    \E r \in Requests :
        /\ calls'[r].pc \in {"verify registration", "lookup"}
        /\ calls'[r].id = id
        /\ calls'[r].session = ceremonies[id].session

LiveKept ==
    \A id \in DOMAIN ceremonies \ DOMAIN ceremonies' :
        Live(ceremonies[id]) => HandedOver(id)

\* Consume removes what matches, and gives it to the handler while it is live.
LEMMA ConsumeKeepsLive ==
    ASSUME TypeOK, NEW r \in Requests,
           NEW id, NEW session, NEW kind, NEW accounts, NEW next,
           Consume(r, id, session, kind, accounts, next),
           next.pc \in {"verify registration", "lookup"},
           next.id = id, next.session = session
    PROVE  LiveKept
  <1> SUFFICES ASSUME NEW i \in DOMAIN ceremonies \ DOMAIN ceremonies',
                      Live(ceremonies[i])
               PROVE  HandedOver(i)
    BY DEF LiveKept
  <1>1. i = id /\ ConsumeMatches(id, session, kind, accounts)
    BY DEF Consume
  <1>2. Goto(r, next)
    BY <1>1 DEF Consume
  <1>3. calls'[r] = next
    BY <1>2 DEF Goto, TypeOK
  <1>4. ceremonies[id].session = session
    BY <1>1 DEF ConsumeMatches
  <1> QED BY <1>1, <1>3, <1>4 DEF HandedOver

\* Save prunes only what has expired.
LEMMA SaveKeepsLive ==
    ASSUME NEW r \in Requests, SaveCeremony(r)
    PROVE  LiveKept
  <1>1. KeptIDs \subseteq DOMAIN ceremonies'
    BY DEF SaveCeremony, KeptIDs
  <1>2. \A id \in DOMAIN ceremonies \ KeptIDs : ~Live(ceremonies[id])
    BY DEF KeptIDs, Kept
  <1> QED BY <1>1, <1>2 DEF LiveKept

LEMMA StepKeepsLive == TypeOK /\ [Next]_vars => LiveKept
  <1> SUFFICES ASSUME TypeOK, [Next]_vars PROVE LiveKept
    OBVIOUS
  <1>1. ASSUME ceremonies' = ceremonies PROVE LiveKept
    BY <1>1 DEF LiveKept
  <1>2. ASSUME NEW r \in Requests, NEW session, NEW id, FinishLogin(r, session, id)
        PROVE  LiveKept
    <2> DEFINE next == [pc |-> "lookup", id |-> id, session |-> session,
                        saved |-> ceremonies[id]]
    <2>1. Consume(r, id, session, "authentication", AnyAccount, next)
      BY <1>2 DEF FinishLogin
    <2>2. next.pc = "lookup" /\ next.id = id /\ next.session = session
      OBVIOUS
    <2> HIDE DEF next
    <2> QED BY <2>1, <2>2, ConsumeKeepsLive
  <1>3. ASSUME NEW r \in Requests, ConsumeRegistration(r) PROVE LiveKept
    <2> DEFINE call == calls[r]
               next == [pc |-> "verify registration", id |-> call.id,
                        session |-> call.session, user |-> call.user,
                        saved |-> ceremonies[call.id]]
    <2>1. Consume(r, call.id, call.session, "registration", {call.user}, next)
      BY <1>3 DEF ConsumeRegistration
    <2>2. /\ next.pc = "verify registration"
          /\ next.id = call.id /\ next.session = call.session
      OBVIOUS
    <2> HIDE DEF next
    <2> QED BY <2>1, <2>2, ConsumeKeepsLive
  <1>4. ASSUME NEW r \in Requests, Request(r) PROVE LiveKept
    <2>1. \/ ceremonies' = ceremonies
          \/ \E session \in PresentedSessions, id \in CeremonyIDs : FinishLogin(r, session, id)
      BY <1>4 DEF Request, BeginEnrollment, FinishEnrollment, BeginLogin,
                  BeginDiscoverableLogin
    <2> QED BY <1>1, <1>2, <2>1
  <1>5. ASSUME NEW r \in Requests, Step(r) PROVE LiveKept
    <2>1. \/ ceremonies' = ceremonies
          \/ SaveCeremony(r) \/ ConsumeRegistration(r)
      BY <1>5 DEF Step, StartRegistration, ListCredentials, StartAuthentication,
                  VerifyRegistration, InsertCredential, LookupCredential,
                  VerifyAuthentication, UpdateCredential, CreateSession
    <2> QED BY <1>1, <1>3, <2>1, SaveKeepsLive
  <1>6. ASSUME NEW r \in Requests, Cancel(r) PROVE LiveKept
    BY <1>1, <1>6 DEF Cancel
  <1>7. CASE Tick \/ UNCHANGED vars
    BY <1>1, <1>7 DEF Tick, vars
  <1>8. ASSUME NEW session \in BrowserSessions, NEW user \in UserHandles \cup {None},
               Provision(session, user)
        PROVE  LiveKept
    BY <1>1, <1>8 DEF Provision
  <1> QED BY <1>4, <1>5, <1>6, <1>7, <1>8 DEF Next

\* Nobody burns somebody else's ceremony: under any interleaving, and whatever
\* identifiers requests carry, a live ceremony leaves the store only into a
\* handler that serves the session that began it (Save, Consume).
THEOREM LiveCeremoniesCorrect == Spec => LiveCeremoniesKept
  <1>1. TypeOK /\ [Next]_vars =>
           [\A id \in DOMAIN ceremonies \ DOMAIN ceremonies' :
               Live(ceremonies[id]) =>
                   \E r \in Requests :
                       /\ calls'[r].pc \in {"verify registration", "lookup"}
                       /\ calls'[r].id = id
                       /\ calls'[r].session = ceremonies[id].session]_vars
    BY StepKeepsLive DEF LiveKept, HandedOver
  <1> QED BY <1>1, TypeCorrect, PTL DEF Spec, LiveCeremoniesKept

-----------------------------------------------------------------------------
(***************************************************************************)
(* Admission.  That LiveIDs has a number of elements at all needs the      *)
(* store to be finite, which is the strengthening here.                    *)
(***************************************************************************)

StoreFinite == IsFiniteSet(DOMAIN ceremonies)

\* The only step that adds an entry is a save.
LEMMA OthersAddNothing ==
    ASSUME [Next]_vars, ~\E r \in Requests : SaveCeremony(r)
    PROVE  DOMAIN ceremonies' \subseteq DOMAIN ceremonies
  <1>1. ASSUME NEW r \in Requests, Request(r) PROVE DOMAIN ceremonies' \subseteq DOMAIN ceremonies
    BY <1>1 DEF Request, BeginEnrollment, FinishEnrollment, BeginLogin,
                BeginDiscoverableLogin, FinishLogin, Consume
  <1>2. ASSUME NEW r \in Requests, Step(r) PROVE DOMAIN ceremonies' \subseteq DOMAIN ceremonies
    BY <1>2 DEF Step, StartRegistration, ListCredentials, StartAuthentication,
                ConsumeRegistration, Consume, VerifyRegistration, InsertCredential,
                LookupCredential, VerifyAuthentication, UpdateCredential, CreateSession
  <1>3. ASSUME NEW r \in Requests, Cancel(r) PROVE DOMAIN ceremonies' \subseteq DOMAIN ceremonies
    BY <1>3 DEF Cancel
  <1>4. CASE Tick \/ UNCHANGED vars
    BY <1>4 DEF Tick, vars
  <1>5. ASSUME NEW session \in BrowserSessions, NEW user \in UserHandles \cup {None},
               Provision(session, user)
        PROVE  DOMAIN ceremonies' \subseteq DOMAIN ceremonies
    BY <1>5 DEF Provision
  <1> QED BY <1>1, <1>2, <1>3, <1>4, <1>5 DEF Next

LEMMA StepKeepsFinite == StoreFinite /\ [Next]_vars => StoreFinite'
  <1> SUFFICES ASSUME StoreFinite, [Next]_vars PROVE StoreFinite'
    OBVIOUS
  <1>1. ASSUME NEW r \in Requests, SaveCeremony(r) PROVE StoreFinite'
    <2>1. DOMAIN ceremonies' \subseteq DOMAIN ceremonies \cup {calls[r].id}
      BY <1>1 DEF SaveCeremony, KeptIDs
    <2>2. IsFiniteSet(DOMAIN ceremonies \cup {calls[r].id})
      BY FS_AddElement DEF StoreFinite
    <2> QED BY <2>1, <2>2, FS_Subset DEF StoreFinite
  <1>2. CASE ~\E r \in Requests : SaveCeremony(r)
    BY <1>2, OthersAddNothing, FS_Subset DEF StoreFinite
  <1> QED BY <1>1, <1>2

\* A handler is at "save" and back at "idle" afterwards only by saving.
LEMMA OnlySaveReturns ==
    ASSUME TypeOK, [Next]_vars, "cancel" \notin Operations, NEW r \in Requests,
           At(r, "save"), calls'[r] = Idle
    PROVE  SaveCeremony(r)
  <1>1. calls[r].pc = "save" /\ Idle.pc = "idle"
    BY DEF At, Idle
  <1>2. calls' # calls
    BY <1>1
  <1>3. ASSUME NEW q \in Requests, NEW call, Goto(q, call) PROVE q = r
    BY <1>1, <1>3 DEF Goto, TypeOK
  <1>4. ASSUME NEW q \in Requests, Request(q) PROVE FALSE
    <2>1. \E call : Goto(q, call)
      BY <1>4 DEF Request, BeginEnrollment, FinishEnrollment, BeginLogin,
                  BeginDiscoverableLogin, FinishLogin, Consume, Return
    <2>2. At(q, "idle")
      BY <1>4 DEF Request, BeginEnrollment, FinishEnrollment, BeginLogin,
                  BeginDiscoverableLogin, FinishLogin, Arrives
    <2> QED BY <1>1, <1>3, <2>1, <2>2 DEF At
  <1>5. ASSUME NEW q \in Requests, Step(q) PROVE SaveCeremony(r)
    <2>1. \E call : Goto(q, call)
      BY <1>5 DEF Step, StartRegistration, ListCredentials, StartAuthentication,
                  SaveCeremony, ConsumeRegistration, Consume, VerifyRegistration,
                  InsertCredential, LookupCredential, VerifyAuthentication,
                  UpdateCredential, CreateSession, Return
    <2>2. q = r
      BY <1>3, <2>1
    <2>3. SaveCeremony(q) \/ calls[q].pc # "save"
      BY <1>5 DEF Step, StartRegistration, ListCredentials, StartAuthentication,
                  ConsumeRegistration, VerifyRegistration, InsertCredential,
                  LookupCredential, VerifyAuthentication, UpdateCredential,
                  CreateSession, At
    <2> QED BY <1>1, <2>2, <2>3
  <1>6. ~\E q \in Requests : Cancel(q)
    BY DEF Cancel
  <1>7. ~Tick /\ ~UNCHANGED vars
    BY <1>2 DEF Tick, vars
  <1>8. \A session, user : ~Provision(session, user)
    BY <1>2 DEF Provision
  <1> QED BY <1>4, <1>5, <1>6, <1>7, <1>8 DEF Next

LEMMA SaveExact ==
    ASSUME TypeOK, TokensInOnePlace, StoreFinite, NEW r \in Requests, SaveCeremony(r),
           calls[r].saved.session # None, Live(calls[r].saved)
    PROVE  IF calls[r].id \in DOMAIN ceremonies'
           THEN /\ LiveIDs \subseteq DOMAIN ceremonies'
                /\ Cardinality(DOMAIN ceremonies') <= Capacity
           ELSE Cardinality(LiveIDs) >= Capacity
  <1> DEFINE id == calls[r].id
             saved == calls[r].saved
  <1>1. KeptIDs = LiveIDs
    BY DEF KeptIDs, LiveIDs, Kept
  <1>2. IsFiniteSet(LiveIDs) /\ Cardinality(LiveIDs) \in Nat /\ Capacity \in Nat
    BY FS_Subset, FS_CardinalityType, BoundAssumption DEF StoreFinite, LiveIDs
  <1>3. id \notin LiveIDs
    <2>1. Owns(r)
      BY DEF SaveCeremony, At, Owns
    <2> QED BY <2>1 DEF TokensInOnePlace, OwnedTokensApart, LiveIDs
  <1>4. SaveAdmits(id, saved) <=> Cardinality(LiveIDs) < Capacity
    BY <1>1, <1>3 DEF SaveAdmits, RoomFor
  <1>5. DOMAIN ceremonies' = LiveIDs \cup (IF SaveAdmits(id, saved) THEN {id} ELSE {})
    BY <1>1 DEF SaveCeremony
  <1>6. CASE SaveAdmits(id, saved)
    <2>1. DOMAIN ceremonies' = LiveIDs \cup {id}
      BY <1>5, <1>6
    <2>2. Cardinality(LiveIDs \cup {id}) = Cardinality(LiveIDs) + 1
      BY <1>2, <1>3, FS_AddElement
    <2> QED BY <1>2, <1>4, <1>6, <2>1, <2>2
  <1>7. CASE ~SaveAdmits(id, saved)
    <2>1. id \notin DOMAIN ceremonies'
      BY <1>3, <1>5, <1>7
    <2> QED BY <1>2, <1>4, <1>7, <2>1
  <1> QED BY <1>6, <1>7

\* Theorem: as long as requests are not cancelled, a fresh ceremony is refused
\* only when the store is full of live ones, and an admitted one keeps the store
\* within its capacity without displacing any of them, whatever the capacity and
\* however many handlers save at once (Save).
THEOREM AdmissionCorrect ==
    ASSUME "cancel" \notin Operations
    PROVE  Spec => AdmissionExact
  <1>1. Init => StoreFinite
    <2> SUFFICES ASSUME Init PROVE StoreFinite
      OBVIOUS
    <2>1. DOMAIN ceremonies = {}
      BY DEF Init
    <2> QED BY <2>1, FS_EmptySet DEF StoreFinite
  <1>2. TypeOK /\ TokensInOnePlace /\ StoreFinite /\ [Next]_vars =>
          [\A r \in Requests :
              ( /\ At(r, "save") /\ calls'[r] = Idle
                /\ calls[r].saved.session # None
                /\ Live(calls[r].saved) )
              => IF calls[r].id \in DOMAIN ceremonies'
                 THEN /\ LiveIDs \subseteq DOMAIN ceremonies'
                      /\ Cardinality(DOMAIN ceremonies') <= Capacity
                 ELSE Cardinality(LiveIDs) >= Capacity]_vars
    BY OnlySaveReturns, SaveExact
  <1>3. Spec => []StoreFinite
    BY <1>1, StepKeepsFinite, PTL DEF Spec
  <1> QED BY <1>2, <1>3, TypeCorrect, TokensCorrect, PTL DEF Spec, AdmissionExact

-----------------------------------------------------------------------------
(***************************************************************************)
(* The handlers and stores implement the atomic passkey service.  Insert   *)
(* is an enrollment of the service, Update a login; a step that leaves     *)
(* "create session" opens the session or abandons it; no other step shows. *)
(***************************************************************************)

LoginOf(call) == [user |-> call.user, ceremony |-> call.id]
EarnedIn(handlers) ==
    {LoginOf(handlers[r]) : r \in {q \in Requests : handlers[q].pc = "create session"}}
SpentIn(history) == {c.ceremony : c \in history}

LEMMA EarnedStays ==
    ASSUME TypeOK, NEW r \in Requests, NEW call, Goto(r, call),
           calls[r].pc # "create session", call.pc # "create session"
    PROVE  EarnedIn(calls') = EarnedIn(calls)
  <1>1. \A q \in Requests : calls'[q] = IF q = r THEN call ELSE calls[q]
    BY DEF Goto, TypeOK
  <1>2. {q \in Requests : calls'[q].pc = "create session"}
            = {q \in Requests : calls[q].pc = "create session"}
    BY <1>1
  <1>3. \A q \in {p \in Requests : calls[p].pc = "create session"} : calls'[q] = calls[q]
    BY <1>1
  <1> QED BY <1>2, <1>3 DEF EarnedIn

LEMMA EarnedGrows ==
    ASSUME TypeOK, NEW r \in Requests, NEW call, Goto(r, call),
           calls[r].pc # "create session", call.pc = "create session"
    PROVE  EarnedIn(calls') = EarnedIn(calls) \cup {LoginOf(call)}
  <1>1. \A q \in Requests : calls'[q] = IF q = r THEN call ELSE calls[q]
    BY DEF Goto, TypeOK
  <1>2. {q \in Requests : calls'[q].pc = "create session"}
            = {q \in Requests : calls[q].pc = "create session"} \cup {r}
    BY <1>1
  <1>3. \A q \in {p \in Requests : calls[p].pc = "create session"} : calls'[q] = calls[q]
    BY <1>1
  <1>4. calls'[r] = call
    BY <1>1
  <1>5. \A x : x \in EarnedIn(calls') <=> x \in EarnedIn(calls) \/ x = LoginOf(call)
    BY <1>2, <1>3, <1>4 DEF EarnedIn
  <1> QED BY <1>5

\* No two handlers hold the same token, so the one that returns takes exactly
\* its own login away.
LEMMA EarnedShrinks ==
    ASSUME TypeOK, TokensInOnePlace, NEW r \in Requests, Return(r),
           calls[r].pc = "create session"
    PROVE  /\ LoginOf(calls[r]) \in EarnedIn(calls)
           /\ EarnedIn(calls') = EarnedIn(calls) \ {LoginOf(calls[r])}
  <1> DEFINE waiting == {q \in Requests : calls[q].pc = "create session"}
  <1>0. Idle.pc = "idle"
    BY DEF Idle
  <1>1. \A q \in Requests : calls'[q] = IF q = r THEN Idle ELSE calls[q]
    BY DEF Return, Goto, TypeOK
  <1>2. {q \in Requests : calls'[q].pc = "create session"} = waiting \ {r}
    BY <1>0, <1>1
  <1>3. \A q \in waiting \ {r} : calls'[q] = calls[q]
    BY <1>1
  <1>4. \A q \in waiting \ {r} : LoginOf(calls[q]) # LoginOf(calls[r])
    <2> SUFFICES ASSUME NEW q \in waiting \ {r} PROVE LoginOf(calls[q]) # LoginOf(calls[r])
      OBVIOUS
    <2>1. calls[q].id # calls[r].id
      BY DEF TokensInOnePlace, OneOwner, Owns
    <2> QED BY <2>1 DEF LoginOf
  <1>5. r \in waiting
    OBVIOUS
  <1>6. LoginOf(calls[r]) \in EarnedIn(calls)
    BY <1>5 DEF EarnedIn
  <1>7. ASSUME NEW x \in EarnedIn(calls')
        PROVE  x \in EarnedIn(calls) \ {LoginOf(calls[r])}
    <2>1. PICK q \in waiting \ {r} : x = LoginOf(calls[q])
      BY <1>2, <1>3 DEF EarnedIn
    <2> QED BY <1>4, <2>1 DEF EarnedIn
  <1>8. ASSUME NEW x \in EarnedIn(calls), x # LoginOf(calls[r])
        PROVE  x \in EarnedIn(calls')
    <2>1. PICK q \in waiting \ {r} : x = LoginOf(calls[q])
      BY <1>8 DEF EarnedIn
    <2> QED BY <1>2, <1>3, <2>1 DEF EarnedIn
  <1> QED BY <1>6, <1>7, <1>8

\* The token of a handler that is about to write has had no effect yet.
LEMMA UnspentBeforeWrite ==
    ASSUME TypeOK, TokensInOnePlace, NEW r \in Requests,
           calls[r].pc \in {"insert", "update"}
    PROVE  calls[r].id \notin SpentIn(commits)
  <1>1. Owns(r) /\ ~At(r, "create session")
    BY DEF Owns, At
  <1> QED BY <1>1 DEF TokensInOnePlace, WrittenTokensApart, SpentIn

LEMMA SpentGrows ==
    ASSUME NEW history, NEW effect
    PROVE  SpentIn(history \cup {effect}) = SpentIn(history) \cup {effect.ceremony}
  BY DEF SpentIn

\* The ways to take a step of the service.
LEMMA StepStutters ==
    ASSUME UNCHANGED <<credentials, sessions, commits>>, EarnedIn(calls') = EarnedIn(calls)
    PROVE  Service!ServiceNext
  <1>1. Service!Close
    BY DEF Service!Close, Service!SomeSessionsEnd, Earned, EarnedIn, LoginOf, At
  <1> QED BY <1>1 DEF Service!ServiceNext

LEMMA StepEnrolls ==
    ASSUME NEW credential \in CredentialIDs, NEW ceremony \in CeremonyIDs,
           NEW passkey \in [user : UserHandles, key : Keys, count : 0 .. MaxSignCount],
           Service!Enroll(credential, passkey, ceremony)
    PROVE  Service!ServiceNext
  BY Zenon DEF Service!ServiceNext

LEMMA StepLogsIn ==
    ASSUME NEW credential \in CredentialIDs, NEW ceremony \in CeremonyIDs,
           NEW count \in 0 .. MaxSignCount, Service!LogIn(credential, count, ceremony)
    PROVE  Service!ServiceNext
  BY Zenon DEF Service!ServiceNext

LEMMA StepOpens ==
    ASSUME NEW login \in EarnedIn(calls), NEW id \in SessionIDs,
           Service!OpenSession(login, id)
    PROVE  Service!ServiceNext
  BY Zenon DEF Service!ServiceNext, Earned, EarnedIn, LoginOf, At

LEMMA StepAbandons ==
    ASSUME NEW login \in EarnedIn(calls), Service!Abandon(login)
    PROVE  Service!ServiceNext
  BY Zenon DEF Service!ServiceNext, Earned, EarnedIn, LoginOf, At

LEMMA PasskeyTyped ==
    ASSUME NEW record \in CredentialRecord
    PROVE  Passkey(record) \in [user : UserHandles, key : Keys, count : 0 .. MaxSignCount]
  BY DEF Passkey, CredentialRecord, SignCount

LEMMA InsertEnrolls ==
    ASSUME TypeOK, TokensInOnePlace, NEW r \in Requests, InsertCredential(r)
    PROVE  Service!ServiceNext
  <1> DEFINE call == calls[r]
             id == call.record.id
             row == [record |-> call.record, version |-> 1]
             effect == [kind |-> "registration", ceremony |-> call.id,
                        session |-> call.session, user |-> call.user,
                        saved |-> call.saved, response |-> call.response,
                        record |-> call.record, version |-> 0,
                        verifiedAt |-> call.verifiedAt]
  <1>1. call.pc = "insert" /\ Return(r) /\ UNCHANGED sessions
    BY DEF InsertCredential, At
  <1>2. EarnedIn(calls') = EarnedIn(calls)
    <2>1. Idle.pc # "create session"
      BY DEF Idle
    <2> QED BY <1>1, <2>1, EarnedStays DEF Return
  <1>3. CASE UNCHANGED <<credentials, commits>>
    BY <1>1, <1>2, <1>3, StepStutters
  <1>4. CASE /\ InsertAdmits(id)
             /\ credentials' = [c \in DOMAIN credentials \cup {id} |->
                                   IF c = id THEN row ELSE credentials[c]]
             /\ commits' = commits \cup {effect}
    <2>1. call.record \in CredentialRecord /\ call.id \in CeremonyIDs
      <3>1. call \in InsertCall
        BY <1>1, CallShape DEF TypeOK
      <3> QED BY <3>1 DEF InsertCall
    <2>2. id \in CredentialIDs
      BY <2>1 DEF CredentialRecord
    <2>3. id \notin DOMAIN credentials
      BY <1>4 DEF InsertAdmits
    <2>4. call.id \notin SpentIn(commits)
      BY <1>1, UnspentBeforeWrite
    <2>5. SpentIn(commits') = SpentIn(commits) \cup {call.id}
      <3>1. effect.ceremony = call.id
        OBVIOUS
      <3> HIDE DEF effect
      <3> QED BY <1>4, <3>1, SpentGrows
    <2>6. row.record = call.record
      OBVIOUS
    <2> HIDE DEF row
    <2>7. /\ DOMAIN credentials' = DOMAIN credentials \cup {id}
          /\ credentials'[id].record = call.record
          /\ \A c \in DOMAIN credentials : credentials'[c] = credentials[c]
      BY <1>4, <2>3, <2>6
    <2>8. PICK credential, passkey, ceremony :
              credential = id /\ passkey = Passkey(call.record) /\ ceremony = call.id
      OBVIOUS
    <2>9. Service!Enroll(credential, passkey, ceremony)
      <3>1. [c \in DOMAIN credentials |-> Passkey(credentials[c].record)]'
            = [c \in DOMAIN credentials \cup {id} |->
                  IF c = id THEN Passkey(call.record)
                  ELSE [b \in DOMAIN credentials |-> Passkey(credentials[b].record)][c]]
        BY <2>3, <2>7 DEF Passkey
      <3> QED BY <1>1, <1>2, <2>3, <2>4, <2>5, <2>8, <3>1
              DEF Service!Enroll, SpentIn, Earned, EarnedIn, LoginOf, At
    <2>10. passkey \in [user : UserHandles, key : Keys, count : 0 .. MaxSignCount]
      BY <2>1, <2>8, PasskeyTyped
    <2> QED BY <2>1, <2>2, <2>8, <2>9, <2>10, StepEnrolls
  <1> QED BY <1>3, <1>4 DEF InsertCredential

LEMMA UpdateLogsIn ==
    ASSUME TypeOK, TokensInOnePlace, HandlersSound, RowsInv, NEW r \in Requests,
           UpdateCredential(r)
    PROVE  Service!ServiceNext
  <1> DEFINE call == calls[r]
             id == call.record.id
             count == call.response.authData.signCount
             next == [pc |-> "create session", id |-> call.id, user |-> call.record.user]
             effect == [kind |-> "authentication", ceremony |-> call.id,
                        session |-> call.session, user |-> call.record.user,
                        saved |-> call.saved, response |-> call.response,
                        record |-> call.record, version |-> call.version,
                        verifiedAt |-> call.verifiedAt]
  <1>1. call.pc = "update" /\ UNCHANGED sessions
    BY DEF UpdateCredential, At
  <1>2. effect.ceremony = call.id
    OBVIOUS
  <1>3. next.pc = "create session"
        /\ LoginOf(next) = [user |-> call.record.user, ceremony |-> call.id]
    BY DEF LoginOf
  <1>4. \/ Return(r) /\ UNCHANGED <<credentials, commits>>
        \/ commits' = commits \cup {effect}
    BY DEF UpdateCredential
  <1>5. CASE Return(r) /\ UNCHANGED <<credentials, commits>>
    <2>1. Idle.pc # "create session"
      BY DEF Idle
    <2>2. EarnedIn(calls') = EarnedIn(calls)
      BY <1>1, <1>5, <2>1, EarnedStays DEF Return
    <2> QED BY <1>1, <1>5, <2>2, StepStutters
  <1>6. CASE commits' = commits \cup {effect}
    <2>1. call.id \notin SpentIn(commits)
      BY <1>1, UnspentBeforeWrite
    <2>2. commits' # commits
      BY <1>2, <1>6, <2>1 DEF SpentIn
    <2>3. /\ id \in DOMAIN credentials
          /\ credentials[id].record = call.record
          /\ DOMAIN credentials' = DOMAIN credentials
          /\ \A c \in DOMAIN credentials \ {id} : credentials'[c] = credentials[c]
          /\ Identity(credentials'[id].record) = Identity(call.record)
          /\ credentials'[id].record.signCount = count
          /\ count \in Int /\ call.record.signCount \in Int
          /\ \/ call.record.signCount = 0 /\ count = 0
             \/ call.record.signCount < count
          /\ Goto(r, next)
      BY <2>2, UpdateWrites
    <2> HIDE DEF effect, next
    <2>4. SpentIn(commits') = SpentIn(commits) \cup {call.id}
      BY <1>2, <1>6, SpentGrows
    <2>5. EarnedIn(calls') = EarnedIn(calls) \cup
              {[user |-> call.record.user, ceremony |-> call.id]}
      BY <1>1, <1>3, <2>3, EarnedGrows
    <2>6. call.id \in CeremonyIDs /\ count \in 0 .. MaxSignCount
      <3>1. call \in UpdateCall
        BY <1>1, CallShape DEF TypeOK
      <3> QED BY <3>1, ResponseAssumption DEF UpdateCall, SignCount
    <2>7. id \in CredentialIDs
      BY <2>3 DEF TypeOK, Partial
    <2>8. credentials'[id].record.user = call.record.user
          /\ credentials'[id].record.key = call.record.key
      BY <2>3 DEF Identity
    <2> HIDE DEF count
    <2> DEFINE passkeys == [c \in DOMAIN credentials |-> Passkey(credentials[c].record)]
    <2>9. passkeys' = [passkeys EXCEPT ![id].count = count]
      <3>1. Passkey(credentials'[id].record)
                = [Passkey(credentials[id].record) EXCEPT !.count = count]
        BY <2>3, <2>8 DEF Passkey
      <3>2. \A c \in DOMAIN credentials : Passkey(credentials'[c].record) =
                IF c = id THEN [Passkey(credentials[id].record) EXCEPT !.count = count]
                ELSE Passkey(credentials[c].record)
        BY <2>3, <3>1
      <3> QED BY <2>3, <3>2
    <2>10. /\ passkeys[id].user = call.record.user
           /\ passkeys[id].count = call.record.signCount
           /\ DOMAIN passkeys = DOMAIN credentials
      BY <2>3 DEF Passkey
    <2>11. PICK credential, counter, ceremony :
               credential = id /\ counter = count /\ ceremony = call.id
      OBVIOUS
    <2>12. Service!LogIn(credential, counter, ceremony)
      BY <1>1, <2>1, <2>3, <2>4, <2>5, <2>9, <2>10, <2>11
         DEF Service!LogIn, Service!Progress, SpentIn, Earned, EarnedIn, LoginOf, At
    <2> QED BY <2>6, <2>7, <2>11, <2>12, StepLogsIn
  <1> QED BY <1>4, <1>5, <1>6

LEMMA CreateOpens ==
    ASSUME TypeOK, TokensInOnePlace, NEW r \in Requests, NEW id \in SessionIDs,
           CreateSession(r, id)
    PROVE  Service!ServiceNext
  <1>1. PICK login : login = LoginOf(calls[r])
    OBVIOUS
  <1>2. /\ calls[r].pc = "create session" /\ Return(r) /\ id \notin DOMAIN sessions
        /\ sessions' = [s \in DOMAIN sessions \cup {id} |->
                           IF s = id THEN login ELSE sessions[s]]
        /\ UNCHANGED <<credentials, commits>>
    BY <1>1 DEF CreateSession, At, LoginOf
  <1>3. login \in EarnedIn(calls) /\ EarnedIn(calls') = EarnedIn(calls) \ {login}
    BY <1>1, <1>2, EarnedShrinks
  <1>4. /\ DOMAIN sessions' = DOMAIN sessions \cup {id}
        /\ sessions'[id] = login
        /\ \A s \in DOMAIN sessions : s # id => sessions'[s] = sessions[s]
    BY <1>2
  <1>5. Service!OpenSession(login, id)
    BY <1>2, <1>3, <1>4
       DEF Service!OpenSession, Service!SomeSessionsEnd, Earned, EarnedIn, LoginOf, At
  <1> QED BY <1>3, <1>5, StepOpens

LEMMA CancelAbandons ==
    ASSUME TypeOK, TokensInOnePlace, NEW r \in Requests, Cancel(r)
    PROVE  Service!ServiceNext
  <1>1. Return(r) /\ UNCHANGED <<credentials, sessions, commits>>
    BY DEF Cancel
  <1>2. CASE calls[r].pc = "create session"
    <2>1. PICK login : login = LoginOf(calls[r])
      OBVIOUS
    <2>2. login \in EarnedIn(calls) /\ EarnedIn(calls') = EarnedIn(calls) \ {login}
      BY <1>1, <1>2, <2>1, EarnedShrinks
    <2>3. Service!Abandon(login)
      BY <1>1, <2>2 DEF Service!Abandon, Service!SomeSessionsEnd, Earned, EarnedIn,
                        LoginOf, At
    <2> QED BY <2>2, <2>3, StepAbandons
  <1>3. CASE calls[r].pc # "create session"
    <2>1. Idle.pc # "create session"
      BY DEF Idle
    <2>2. EarnedIn(calls') = EarnedIn(calls)
      BY <1>1, <1>3, <2>1, EarnedStays DEF Return
    <2> QED BY <1>1, <2>2, StepStutters
  <1> QED BY <1>2, <1>3

\* A handler moves on between two places that the service does not see.
LEMMA MoveStutters ==
    ASSUME TypeOK, NEW r \in Requests, NEW call, Goto(r, call),
           calls[r].pc # "create session", call.pc # "create session",
           UNCHANGED <<credentials, sessions, commits>>
    PROVE  Service!ServiceNext
  BY EarnedStays, StepStutters

LEMMA ReturnStutters ==
    ASSUME TypeOK, NEW r \in Requests, Return(r), calls[r].pc # "create session",
           UNCHANGED <<credentials, sessions, commits>>
    PROVE  Service!ServiceNext
  <1>1. Idle.pc # "create session"
    BY DEF Idle
  <1> QED BY <1>1, MoveStutters DEF Return

LEMMA ConsumeStutters ==
    ASSUME TypeOK, NEW r \in Requests,
           NEW id, NEW session, NEW kind, NEW accounts, NEW next,
           Consume(r, id, session, kind, accounts, next), next.pc # "create session",
           calls[r].pc # "create session", UNCHANGED <<credentials, sessions, commits>>
    PROVE  Service!ServiceNext
  <1>1. Goto(r, next) \/ Return(r)
    BY DEF Consume, Return
  <1> QED BY <1>1, MoveStutters, ReturnStutters

LEMMA RequestStutters ==
    ASSUME TypeOK, NEW r \in Requests, Request(r)
    PROVE  Service!ServiceNext
  <1>1. PICK session \in PresentedSessions, id \in CeremonyIDs :
            \/ BeginEnrollment(r, session, id)
            \/ FinishEnrollment(r, session, id)
            \/ \E user \in UserHandles : BeginLogin(r, session, user, id)
            \/ BeginDiscoverableLogin(r, session, id)
            \/ FinishLogin(r, session, id)
    BY DEF Request
  <1>2. CASE BeginEnrollment(r, session, id)
    <2> DEFINE next == [pc |-> "start registration", id |-> id, session |-> session,
                        user |-> EnrollmentUser(session)]
    <2>1. Goto(r, next) /\ next.pc = "start registration"
      BY <1>2 DEF BeginEnrollment
    <2> HIDE DEF next
    <2> QED BY <1>2, <2>1, MoveStutters DEF BeginEnrollment, Arrives, At
  <1>3. CASE FinishEnrollment(r, session, id)
    <2> DEFINE next == [pc |-> "consume registration", id |-> id, session |-> session,
                        user |-> EnrollmentUser(session)]
    <2>1. Goto(r, next) /\ next.pc = "consume registration"
      BY <1>3 DEF FinishEnrollment
    <2> HIDE DEF next
    <2> QED BY <1>3, <2>1, MoveStutters DEF FinishEnrollment, Arrives, At
  <1>4. ASSUME NEW user \in UserHandles, BeginLogin(r, session, user, id)
        PROVE  Service!ServiceNext
    <2> DEFINE next == [pc |-> "list credentials", id |-> id, session |-> session,
                        user |-> user]
    <2>1. Goto(r, next) /\ next.pc = "list credentials"
      BY <1>4 DEF BeginLogin
    <2> HIDE DEF next
    <2> QED BY <1>4, <2>1, MoveStutters DEF BeginLogin, Arrives, At
  <1>5. CASE BeginDiscoverableLogin(r, session, id)
    <2> DEFINE next == [pc |-> "start authentication", id |-> id, session |-> session,
                        expected |-> None, allow |-> {}]
    <2>1. Goto(r, next) /\ next.pc = "start authentication"
      BY <1>5 DEF BeginDiscoverableLogin
    <2> HIDE DEF next
    <2> QED BY <1>5, <2>1, MoveStutters DEF BeginDiscoverableLogin, Arrives, At
  <1>6. CASE FinishLogin(r, session, id)
    <2> DEFINE next == [pc |-> "lookup", id |-> id, session |-> session,
                        saved |-> ceremonies[id]]
    <2>1. Consume(r, id, session, "authentication", AnyAccount, next)
      BY <1>6 DEF FinishLogin
    <2>2. next.pc = "lookup"
      OBVIOUS
    <2> HIDE DEF next
    <2> QED BY <1>6, <2>1, <2>2, ConsumeStutters DEF FinishLogin, Arrives, At
  <1> QED BY <1>1, <1>2, <1>3, <1>4, <1>5, <1>6

LEMMA StepRefines ==
    ASSUME TypeOK, TokensInOnePlace, HandlersSound, RowsInv, NEW r \in Requests, Step(r)
    PROVE  Service!ServiceNext
  <1> DEFINE call == calls[r]
  <1>1. CASE StartRegistration(r)
    <2> DEFINE state == RegistrationState(RP, call.user, NoExtensions, FALSE, call.id, now)
               next == [pc |-> "save", id |-> call.id,
                        saved |-> [kind |-> "registration", session |-> call.session,
                                   account |-> call.user,
                                   expires |-> state.expires, state |-> state]]
    <2>1. Goto(r, next) /\ next.pc = "save"
      BY <1>1 DEF StartRegistration
    <2> HIDE DEF next
    <2> QED BY <1>1, <2>1, MoveStutters DEF StartRegistration, At
  <1>2. CASE ListCredentials(r)
    <2> DEFINE next == [pc |-> "start authentication", id |-> call.id,
                        session |-> call.session, expected |-> call.user,
                        allow |-> CredentialsOf(call.user)]
    <2>1. next.pc = "start authentication" /\ (Goto(r, next) \/ Return(r))
      BY <1>2 DEF ListCredentials
    <2> HIDE DEF next
    <2> QED BY <1>2, <2>1, MoveStutters, ReturnStutters DEF ListCredentials, At
  <1>3. CASE StartAuthentication(r)
    <2> DEFINE state == AuthenticationState(RP, call.expected, call.allow, NoExtensions,
                                            call.id, now)
               next == [pc |-> "save", id |-> call.id,
                        saved |-> [kind |-> "authentication", session |-> call.session,
                                   account |-> call.expected,
                                   expires |-> state.expires, state |-> state]]
    <2>1. Goto(r, next) /\ next.pc = "save"
      BY <1>3 DEF StartAuthentication
    <2> HIDE DEF next
    <2> QED BY <1>3, <2>1, MoveStutters DEF StartAuthentication, At
  <1>4. CASE SaveCeremony(r)
    BY <1>4, ReturnStutters DEF SaveCeremony, At
  <1>5. CASE ConsumeRegistration(r)
    <2> DEFINE next == [pc |-> "verify registration", id |-> call.id,
                        session |-> call.session, user |-> call.user,
                        saved |-> ceremonies[call.id]]
    <2>1. Consume(r, call.id, call.session, "registration", {call.user}, next)
      BY <1>5 DEF ConsumeRegistration
    <2>2. next.pc = "verify registration"
      OBVIOUS
    <2> HIDE DEF next
    <2> QED BY <1>5, <2>1, <2>2, ConsumeStutters DEF ConsumeRegistration, At
  <1>6. ASSUME NEW response \in Registrations, VerifyRegistration(r, response)
        PROVE  Service!ServiceNext
    <2> DEFINE next == [pc |-> "insert", id |-> call.id,
                        session |-> call.session, user |-> call.user,
                        saved |-> call.saved, response |-> response,
                        record |-> RegisteredCredential(call.saved.state, response),
                        verifiedAt |-> now]
    <2>1. next.pc = "insert" /\ (Goto(r, next) \/ Return(r))
      BY <1>6 DEF VerifyRegistration
    <2> HIDE DEF next
    <2> QED BY <1>6, <2>1, MoveStutters, ReturnStutters DEF VerifyRegistration, At
  <1>7. ASSUME NEW response \in Assertions, LookupCredential(r, response)
        PROVE  Service!ServiceNext
    <2> DEFINE next == [pc |-> "verify authentication", id |-> call.id,
                        session |-> call.session, saved |-> call.saved,
                        response |-> response,
                        record |-> credentials[response.rawId].record,
                        version |-> credentials[response.rawId].version]
    <2>1. next.pc = "verify authentication" /\ (Goto(r, next) \/ Return(r))
      BY <1>7 DEF LookupCredential
    <2> HIDE DEF next
    <2> QED BY <1>7, <2>1, MoveStutters, ReturnStutters DEF LookupCredential, At
  <1>8. CASE VerifyAuthentication(r)
    <2> DEFINE next == [pc |-> "update", id |-> call.id,
                        session |-> call.session, saved |-> call.saved,
                        response |-> call.response, record |-> call.record,
                        version |-> call.version, verifiedAt |-> now]
    <2>1. next.pc = "update" /\ (Goto(r, next) \/ Return(r))
      BY <1>8 DEF VerifyAuthentication
    <2> HIDE DEF next
    <2> QED BY <1>8, <2>1, MoveStutters, ReturnStutters DEF VerifyAuthentication, At
  <1> QED BY <1>1, <1>2, <1>3, <1>4, <1>5, <1>6, <1>7, <1>8,
             InsertEnrolls, UpdateLogsIn, CreateOpens DEF Step

LEMMA NextRefines ==
    ASSUME TypeOK, TokensInOnePlace, HandlersSound, RowsInv, Next
    PROVE  Service!ServiceNext
  <1>1. ASSUME UNCHANGED <<credentials, sessions, calls, commits>>
        PROVE  Service!ServiceNext
    <2>1. EarnedIn(calls') = EarnedIn(calls)
      BY <1>1
    <2> QED BY <1>1, <2>1, StepStutters
  <1>2. CASE Tick
    BY <1>1, <1>2 DEF Tick
  <1>3. ASSUME NEW session, NEW user, Provision(session, user)
        PROVE  Service!ServiceNext
    BY <1>1, <1>3 DEF Provision
  <1> QED BY <1>2, <1>3, RequestStutters, StepRefines, CancelAbandons DEF Next

\* Theorem: the concurrent handlers and stores of the integration implement the
\* atomic passkey service, for any number of handlers, accounts and credentials
\* and whatever is cancelled in between: an enrollment takes effect at Insert
\* and a login at Update, each spends its own ceremony, a login moves the
\* counter forward, and it yields at most one session (app.go, memory.go).
THEOREM IntegrationImplements == Spec => ImplementsService
  <1>1. Init => Service!ServiceInit
    <2> SUFFICES ASSUME Init PROVE Service!ServiceInit
      OBVIOUS
    <2>1. {q \in Requests : At(q, "create session")} = {}
      BY DEF Init, At, Idle
    <2>2. sessions = [id \in {} |-> 0]
      BY DEF Init
    <2> QED BY <2>1, <2>2 DEF Init, Service!ServiceInit, Earned
  <1>2. TypeOK /\ TokensInOnePlace /\ HandlersSound /\ RowsInv /\ [Next]_vars =>
            [Service!ServiceNext]_(Service!service)
    <2>1. TypeOK /\ TokensInOnePlace /\ HandlersSound /\ RowsInv /\ Next =>
              Service!ServiceNext
      BY NextRefines
    <2>2. UNCHANGED vars => UNCHANGED Service!service
      BY DEF vars, Service!service, Earned, At
    <2> QED BY <2>1, <2>2
  <1> QED BY <1>1, <1>2, TypeCorrect, TokensCorrect, HandlersCorrect, RowsInvariant, PTL
          DEF Spec, ImplementsService, Service!ServiceSpec
=============================================================================
