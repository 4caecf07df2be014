---------------------------- MODULE CeremonyProofs ----------------------------
(***************************************************************************)
(* Lemmas about the library that the proofs about its callers share: what  *)
(* the lists of checks of Ceremony compute (the error returned is that of  *)
(* the first check that fails), what an acceptance implies, what Start     *)
(* binds, and what an update does to a record.                             *)
(***************************************************************************)
EXTENDS Ceremony, Maps, FiniteSetTheorems, SequenceTheorems, WellFoundedInduction,
        TLAPS

-----------------------------------------------------------------------------
(***************************************************************************)
(* Lists of checks.                                                        *)
(***************************************************************************)

\* A nonempty set of naturals has a least element.
LEMMA LeastNatural ==
    ASSUME NEW T, T \subseteq Nat, T # {}
    PROVE  \E i \in T : \A j \in T : i <= j
  <1> DEFINE R == OpToRel(<, Nat)
  <1>1. \E i \in T : \A j \in T : ~(<<j, i>> \in R)
    <2> HIDE DEF R
    <2>1. IsWellFoundedOn(R, Nat)
      BY NatLessThanWellFounded DEF R
    <2> QED BY <2>1, WFMin
  <1>2. \A i, j \in Nat : j < i => <<j, i>> \in R
    BY DEF OpToRel
  <1> HIDE DEF R
  <1>3. PICK i \in T : \A j \in T : ~(<<j, i>> \in R)
    BY <1>1
  <1>4. ASSUME NEW j \in T PROVE i <= j
    <2>1. i \in Nat /\ j \in Nat /\ ~(j < i)
      BY <1>2, <1>3, <1>4
    <2> QED BY <2>1
  <1> QED BY <1>4

\* A list that does not pass returns the error of its first failing check.
LEMMA FirstErrorIsFirst ==
    ASSUME NEW S, NEW checks \in Seq(S), ~Passes(checks)
    PROVE  \E i \in 1 .. Len(checks) :
               /\ ~checks[i][1]
               /\ FirstError(checks) = checks[i][2]
               /\ \A j \in 1 .. Len(checks) : j < i => checks[j][1]
  <1> DEFINE failed == {i \in DOMAIN checks : ~checks[i][1]}
             first == CHOOSE i \in failed : \A j \in failed : i <= j
  <1>1. DOMAIN checks = 1 .. Len(checks) /\ Len(checks) \in Nat
    BY LenProperties
  <1>2. failed \subseteq Nat /\ failed # {}
    BY <1>1 DEF Passes
  <1>3. \E i \in failed : \A j \in failed : i <= j
    <2> HIDE DEF failed
    <2> QED BY <1>2, LeastNatural
  <1>4. first \in failed /\ \A j \in failed : first <= j
    <2> HIDE DEF failed
    <2> QED BY <1>3
  <1>5. FirstError(checks) = checks[first][2]
    BY DEF FirstError
  <1>6. \A j \in 1 .. Len(checks) : j < first => checks[j][1]
    <2> SUFFICES ASSUME NEW j \in 1 .. Len(checks), j < first, ~checks[j][1]
                 PROVE  FALSE
      OBVIOUS
    <2>1. j \in failed
      BY <1>1
    <2> HIDE DEF failed, first
    <2> QED BY <1>1, <1>2, <1>4, <2>1
  <1>7. first \in 1 .. Len(checks) /\ ~checks[first][1]
    <2> HIDE DEF first
    <2> QED BY <1>1, <1>4
  <1> HIDE DEF first
  <1> QED BY <1>5, <1>6, <1>7

\* No check of the list fails with an error of the set.
Avoids(checks, errors) ==
    /\ checks \in Seq({checks[i] : i \in DOMAIN checks})
    /\ \A i \in DOMAIN checks : checks[i][1] \/ checks[i][2] \notin errors

\* One list after the other fails with no error that neither fails with, and
\* passes when both do.
LEMMA ChecksConcat ==
    ASSUME NEW errors, NEW s, NEW t, Avoids(s, errors), Avoids(t, errors)
    PROVE  /\ Avoids(s \o t, errors)
           /\ Passes(s \o t) <=> Passes(s) /\ Passes(t)
  <1> DEFINE S == {s[i] : i \in DOMAIN s} \cup {t[i] : i \in DOMAIN t}
             u == s \o t
  <1>1. s \in Seq(S) /\ t \in Seq(S)
    BY SeqMonotonic DEF Avoids
  <1>2. /\ u \in Seq(S)
        /\ Len(u) = Len(s) + Len(t)
        /\ \A i \in 1 .. Len(s) + Len(t) :
               u[i] = IF i <= Len(s) THEN s[i] ELSE t[i - Len(s)]
    BY <1>1, ConcatProperties
  <1>3. /\ Len(s) \in Nat /\ DOMAIN s = 1 .. Len(s)
        /\ Len(t) \in Nat /\ DOMAIN t = 1 .. Len(t)
        /\ Len(u) \in Nat /\ DOMAIN u = 1 .. Len(u)
    BY <1>1, <1>2, LenProperties
  <1>4. u \in Seq({u[i] : i \in DOMAIN u})
    <2>1. Range(u) = {u[i] : i \in DOMAIN u}
      BY DEF Range
    <2>2. u \in Seq(Range(u))
      BY <1>2, SeqOfRange
    <2> QED BY <2>1, <2>2
  <1> HIDE DEF u, S
  <1>5. \A i \in DOMAIN u : u[i][1] \/ u[i][2] \notin errors
    <2> SUFFICES ASSUME NEW i \in DOMAIN u
                 PROVE  u[i][1] \/ u[i][2] \notin errors
      OBVIOUS
    <2>1. CASE i <= Len(s)
      BY <1>2, <1>3, <2>1 DEF Avoids
    <2>2. CASE ~(i <= Len(s))
      <3>1. i - Len(s) \in DOMAIN t /\ u[i] = t[i - Len(s)]
        BY <1>2, <1>3, <2>2
      <3> QED BY <3>1 DEF Avoids
    <2> QED BY <2>1, <2>2
  <1>6. Passes(u) <=> Passes(s) /\ Passes(t)
    <2>1. ASSUME Passes(u) PROVE Passes(s)
      <3> SUFFICES ASSUME NEW i \in DOMAIN s PROVE s[i][1]
        BY DEF Passes
      <3>1. i \in DOMAIN u /\ u[i] = s[i]
        BY <1>2, <1>3
      <3> QED BY <2>1, <3>1 DEF Passes
    <2>2. ASSUME Passes(u) PROVE Passes(t)
      <3> SUFFICES ASSUME NEW i \in DOMAIN t PROVE t[i][1]
        BY DEF Passes
      <3>1. Len(s) + i \in DOMAIN u /\ u[Len(s) + i] = t[i]
        BY <1>2, <1>3
      <3> QED BY <2>2, <3>1 DEF Passes
    <2>3. ASSUME Passes(s), Passes(t) PROVE Passes(u)
      <3> SUFFICES ASSUME NEW i \in DOMAIN u PROVE u[i][1]
        BY DEF Passes
      <3>1. CASE i <= Len(s)
        BY <1>2, <1>3, <2>3, <3>1 DEF Passes
      <3>2. CASE ~(i <= Len(s))
        <4>1. i - Len(s) \in DOMAIN t /\ u[i] = t[i - Len(s)]
          BY <1>2, <1>3, <3>2
        <4> QED BY <2>3, <4>1 DEF Passes
      <3> QED BY <3>1, <3>2
    <2> QED BY <2>1, <2>2, <2>3
  <1> QED BY <1>4, <1>5, <1>6 DEF Avoids, u

\* The error of a list that fails is none that the list avoids.
LEMMA ErrorAvoided ==
    ASSUME NEW errors, NEW checks, Avoids(checks, errors), ~Passes(checks)
    PROVE  FirstError(checks) \notin errors
  <1>1. PICK i \in 1 .. Len(checks) :
            ~checks[i][1] /\ FirstError(checks) = checks[i][2]
    BY FirstErrorIsFirst DEF Avoids
  <1>2. i \in DOMAIN checks
    BY <1>1, LenProperties DEF Avoids
  <1> QED BY <1>1, <1>2 DEF Avoids

-----------------------------------------------------------------------------
(***************************************************************************)
(* The lists of Ceremony that do not look at the configuration's own state *)
(* fail with none of these.                                                *)
(***************************************************************************)

StateErrors == {"ok", "ErrInvalidCeremonyState", "ErrInvalidConfiguration"}

LEMMA ShapeAvoids ==
    ASSUME NEW response
    PROVE  /\ Avoids(RegistrationShapeChecks(response), StateErrors)
           /\ Avoids(AuthenticationShapeChecks(response), StateErrors)
           /\ Avoids(AttestationObjectChecks(response), StateErrors)
  BY DEF Avoids, RegistrationShapeChecks, AuthenticationShapeChecks,
         AttestationObjectChecks, StateErrors

LEMMA ClientDataAvoids ==
    ASSUME NEW clientData, NEW type, NEW state
    PROVE  Avoids(ClientDataChecks(clientData, type, state), StateErrors)
  BY DEF Avoids, ClientDataChecks, StateErrors

LEMMA RegistrationAvoids ==
    ASSUME NEW rp, NEW state, NEW response
    PROVE  /\ Avoids(RegistrationAuthDataChecks(state, response.authData), StateErrors)
           /\ Avoids(AttestedCredentialChecks(state, response), StateErrors)
           /\ Avoids(AttestationChecks(rp, response), StateErrors)
           /\ Avoids(ExtensionChecks(rp, state, response), StateErrors)
  <1>1. Avoids(RegistrationAuthDataChecks(state, response.authData), StateErrors)
    <2> DEFINE checks == RegistrationAuthDataChecks(state, response.authData)
    <2>1. checks \in Seq({checks[i] : i \in DOMAIN checks}) /\ Len(checks) = 6
      BY DEF RegistrationAuthDataChecks
    <2>2. /\ checks[1][2] \notin StateErrors
          /\ checks[2][2] \notin StateErrors
          /\ checks[3][2] \notin StateErrors
          /\ checks[4][2] \notin StateErrors
          /\ checks[5][2] \notin StateErrors
          /\ checks[6][2] \notin StateErrors
      BY DEF RegistrationAuthDataChecks, StateErrors
    <2> HIDE DEF checks
    <2>3. \A i \in DOMAIN checks : checks[i][2] \notin StateErrors
      BY <2>1, <2>2
    <2> QED BY <2>1, <2>3 DEF checks, Avoids
  <1>2. Avoids(AttestedCredentialChecks(state, response), StateErrors)
    BY DEF Avoids, AttestedCredentialChecks, StateErrors
  <1>3. Avoids(AttestationChecks(rp, response), StateErrors)
    BY DEF Avoids, AttestationChecks, StateErrors
  <1>4. Avoids(ExtensionChecks(rp, state, response), StateErrors)
    BY DEF Avoids, ExtensionChecks, StateErrors
  <1> QED BY <1>1, <1>2, <1>3, <1>4

LEMMA AuthenticationAvoids ==
    ASSUME NEW rp, NEW state, NEW response, NEW record
    PROVE  /\ Avoids(CredentialBindingChecks(state, response, record), StateErrors)
           /\ Avoids(UserBindingChecks(state, response, record), StateErrors)
           /\ Avoids(AuthenticationAuthDataChecks(rp, state, response, record), StateErrors)
           /\ Avoids(AssertionChecks(rp, response, record), StateErrors)
  <1>1. Avoids(CredentialBindingChecks(state, response, record), StateErrors)
    BY DEF Avoids, CredentialBindingChecks, StateErrors
  <1>2. Avoids(UserBindingChecks(state, response, record), StateErrors)
    <2>1. CASE state.expected # None
      BY <2>1 DEF Avoids, UserBindingChecks, StateErrors
    <2>2. CASE state.expected = None
      BY <2>2 DEF Avoids, UserBindingChecks, StateErrors
    <2> QED BY <2>1, <2>2
  <1>3. Avoids(AuthenticationAuthDataChecks(rp, state, response, record), StateErrors)
    <2> DEFINE checks == AuthenticationAuthDataChecks(rp, state, response, record)
    <2>1. checks \in Seq({checks[i] : i \in DOMAIN checks}) /\ Len(checks) = 7
      BY SMTT(40) DEF AuthenticationAuthDataChecks
    <2>2. /\ checks[1][2] \notin StateErrors
          /\ checks[2][2] \notin StateErrors
          /\ checks[3][2] \notin StateErrors
          /\ checks[4][2] \notin StateErrors
          /\ checks[5][2] \notin StateErrors
          /\ checks[6][2] \notin StateErrors
          /\ checks[7][2] \notin StateErrors
      BY DEF AuthenticationAuthDataChecks, StateErrors
    <2> HIDE DEF checks
    <2>3. \A i \in DOMAIN checks : checks[i][2] \notin StateErrors
      BY <2>1, <2>2
    <2> QED BY <2>1, <2>3 DEF checks, Avoids
  <1>4. Avoids(AssertionChecks(rp, response, record), StateErrors)
    BY DEF Avoids, AssertionChecks, StateErrors
  <1> QED BY <1>1, <1>2, <1>3, <1>4

\* Eight lists one after the other, the first of which avoids the errors.
LEMMA EightLists ==
    ASSUME NEW errors, errors \subseteq StateErrors,
           NEW a, NEW b, NEW c, NEW d, NEW e, NEW f, NEW g, NEW h,
           Avoids(a, errors), Avoids(b, StateErrors), Avoids(c, StateErrors),
           Avoids(d, StateErrors), Avoids(e, StateErrors), Avoids(f, StateErrors),
           Avoids(g, StateErrors), Avoids(h, StateErrors),
           ~(/\ Passes(a) /\ Passes(b) /\ Passes(c) /\ Passes(d)
             /\ Passes(e) /\ Passes(f) /\ Passes(g) /\ Passes(h))
    PROVE  FirstError(a \o b \o c \o d \o e \o f \o g \o h) \notin errors
  <1>1. \A s : Avoids(s, StateErrors) => Avoids(s, errors)
    BY DEF Avoids
  <1> DEFINE ab == a \o b
             abc == ab \o c
             abcd == abc \o d
             abcde == abcd \o e
             abcdef == abcde \o f
             abcdefg == abcdef \o g
             all == abcdefg \o h
  <1> HIDE DEF ab, abc, abcd, abcde, abcdef, abcdefg, all
  <1>2. Avoids(ab, errors) /\ (Passes(ab) <=> Passes(a) /\ Passes(b))
    BY <1>1, ChecksConcat DEF ab
  <1>3. Avoids(abc, errors) /\ (Passes(abc) <=> Passes(ab) /\ Passes(c))
    BY <1>1, <1>2, ChecksConcat DEF abc
  <1>4. Avoids(abcd, errors) /\ (Passes(abcd) <=> Passes(abc) /\ Passes(d))
    BY <1>1, <1>3, ChecksConcat DEF abcd
  <1>5. Avoids(abcde, errors) /\ (Passes(abcde) <=> Passes(abcd) /\ Passes(e))
    BY <1>1, <1>4, ChecksConcat DEF abcde
  <1>6. Avoids(abcdef, errors) /\ (Passes(abcdef) <=> Passes(abcde) /\ Passes(f))
    BY <1>1, <1>5, ChecksConcat DEF abcdef
  <1>7. Avoids(abcdefg, errors) /\ (Passes(abcdefg) <=> Passes(abcdef) /\ Passes(g))
    BY <1>1, <1>6, ChecksConcat DEF abcdefg
  <1>8. Avoids(all, errors) /\ (Passes(all) <=> Passes(abcdefg) /\ Passes(h))
    BY <1>1, <1>7, ChecksConcat DEF all
  <1>9. ~Passes(all)
    BY <1>2, <1>3, <1>4, <1>5, <1>6, <1>7, <1>8
  <1>10. FirstError(all) \notin errors
    BY <1>8, <1>9, ErrorAvoided
  <1> QED BY <1>10 DEF ab, abc, abcd, abcde, abcdef, abcdefg, all

\* A registration that is refused is refused with no error that the checks of
\* its state avoid.
LEMMA RegistrationRefused ==
    ASSUME NEW rp, NEW state, NEW response, NEW time,
           NEW errors, errors \subseteq StateErrors,
           Avoids(RegistrationStateChecks(rp, state, time), errors),
           ~FinishRegistrationAccepts(rp, state, response, time)
    PROVE  FinishRegistrationError(rp, state, response, time) \notin errors
  <1> DEFINE a == RegistrationStateChecks(rp, state, time)
             b == RegistrationShapeChecks(response)
             c == ClientDataChecks(response.clientData, "webauthn.create", state)
             d == AttestationObjectChecks(response)
             e == RegistrationAuthDataChecks(state, response.authData)
             f == AttestedCredentialChecks(state, response)
             g == AttestationChecks(rp, response)
             h == ExtensionChecks(rp, state, response)
  <1>1. /\ Avoids(b, StateErrors) /\ Avoids(c, StateErrors) /\ Avoids(d, StateErrors)
        /\ Avoids(e, StateErrors) /\ Avoids(f, StateErrors) /\ Avoids(g, StateErrors)
        /\ Avoids(h, StateErrors)
    BY ShapeAvoids, ClientDataAvoids, RegistrationAvoids
  <1>2. ~(/\ Passes(a) /\ Passes(b) /\ Passes(c) /\ Passes(d)
          /\ Passes(e) /\ Passes(f) /\ Passes(g) /\ Passes(h))
    BY DEF FinishRegistrationAccepts
  <1>3. FinishRegistrationError(rp, state, response, time) =
            FirstError(a \o b \o c \o d \o e \o f \o g \o h)
    BY DEF FinishRegistrationError
  <1>4. Avoids(a, errors)
    OBVIOUS
  <1> HIDE DEF a, b, c, d, e, f, g, h
  <1> QED BY <1>1, <1>2, <1>3, <1>4, EightLists

\* An assertion that is refused, likewise.
LEMMA AuthenticationRefused ==
    ASSUME NEW rp, NEW state, NEW response, NEW record, NEW time,
           NEW errors, errors \subseteq StateErrors,
           Avoids(AuthenticationStateChecks(rp, state, record, time), errors),
           ~FinishAuthenticationAccepts(rp, state, response, record, time)
    PROVE  FinishAuthenticationError(rp, state, response, record, time) \notin errors
  <1> DEFINE a == AuthenticationStateChecks(rp, state, record, time)
             b == AuthenticationShapeChecks(response)
             c == CredentialBindingChecks(state, response, record)
             d == UserBindingChecks(state, response, record)
             e == ClientDataChecks(response.clientData, "webauthn.get", state)
             f == AuthenticationAuthDataChecks(rp, state, response, record)
             g == AssertionChecks(rp, response, record)
             h == ExtensionChecks(rp, state, response)
  <1>1. /\ Avoids(b, StateErrors) /\ Avoids(c, StateErrors) /\ Avoids(d, StateErrors)
        /\ Avoids(e, StateErrors) /\ Avoids(f, StateErrors) /\ Avoids(g, StateErrors)
        /\ Avoids(h, StateErrors)
    BY ShapeAvoids, ClientDataAvoids, RegistrationAvoids, AuthenticationAvoids
  <1>2. ~(/\ Passes(a) /\ Passes(b) /\ Passes(c) /\ Passes(d)
          /\ Passes(e) /\ Passes(f) /\ Passes(g) /\ Passes(h))
    BY DEF FinishAuthenticationAccepts
  <1>3. FinishAuthenticationError(rp, state, response, record, time) =
            FirstError(a \o b \o c \o d \o e \o f \o g \o h)
    BY DEF FinishAuthenticationError
  <1>4. Avoids(a, errors)
    OBVIOUS
  <1> HIDE DEF a, b, c, d, e, f, g, h
  <1> QED BY <1>1, <1>2, <1>3, <1>4, EightLists

-----------------------------------------------------------------------------
(***************************************************************************)
(* What an acceptance implies.                                             *)
(***************************************************************************)

\* What both ceremonies have established about the configuration, the state
\* and the response when they accept.
Established(rp, state, response, time) ==
    /\ state.rpId = rp.rpId /\ state.policy = rp.policy
    /\ FinishBindingsMatch(state.requested, state.bindings, rp.registry)
    /\ response.clientData.origin \in Members(state.policy.origins)
    /\ state.uv = "required" => response.authData.uv
    /\ response.clientData.challenge = state.challenge
    /\ time < state.expires

LEMMA ClientDataPasses ==
    ASSUME NEW clientData, NEW type, NEW state,
           Passes(ClientDataChecks(clientData, type, state))
    PROVE  /\ clientData.challenge = state.challenge
           /\ clientData.origin \in Members(state.policy.origins)
  <1>1. clientData.challenge = state.challenge
    <2>1. ClientDataChecks(clientData, type, state)[3][1]
      BY DEF Passes, ClientDataChecks
    <2> QED BY <2>1 DEF ClientDataChecks
  <1>2. clientData.origin \in Members(state.policy.origins)
    <2>1. ClientOriginAccepted(state.policy, clientData, None)
      BY DEF Passes, ClientDataChecks
    <2> QED BY <2>1 DEF ClientOriginAccepted
  <1> QED BY <1>1, <1>2

LEMMA RegistrationAccepted ==
    ASSUME NEW rp, NEW state, NEW response, NEW time,
           FinishRegistrationAccepts(rp, state, response, time)
    PROVE  /\ Established(rp, state, response, time)
           /\ state.uv = rp.registrationUV /\ state.algorithms = rp.algorithms
           /\ response.alg \in Members(state.algorithms)
           /\ response.authData.rpIdHash = Sha256(state.rpId)
           /\ response.attestationType \in KnownAttestationType
  <1>1. /\ state.rpId = rp.rpId /\ state.policy = rp.policy
        /\ state.uv = rp.registrationUV /\ state.algorithms = rp.algorithms
    <2>1. RegistrationStateChecks(rp, state, time)[1][1]
      BY DEF FinishRegistrationAccepts, Passes, RegistrationStateChecks
    <2> QED BY <2>1 DEF RegistrationStateChecks, MatchesOrigin
  <1>2. FinishBindingsMatch(state.requested, state.bindings, rp.registry)
    BY DEF FinishRegistrationAccepts, Passes, RegistrationStateChecks
  <1>3. /\ response.clientData.origin \in Members(state.policy.origins)
        /\ response.clientData.challenge = state.challenge
    BY ClientDataPasses DEF FinishRegistrationAccepts
  <1>4. /\ state.uv = "required" => response.authData.uv
        /\ response.authData.rpIdHash = Sha256(state.rpId)
    <2> DEFINE verified == state.uv = "required" => response.authData.uv
               hash == response.authData.rpIdHash = Sha256(state.rpId)
    <2>1. Passes(RegistrationAuthDataChecks(state, response.authData))
      BY DEF FinishRegistrationAccepts
    <2>2. RegistrationAuthDataChecks(state, response.authData) =
             << <<response.authData.parses, "ErrMalformedResponse">>,
                <<hash, "ErrRPIDHashMismatch">>,
                <<state.conditional \/ response.authData.up, "ErrUserPresenceRequired">>,
                <<verified, "ErrUserVerificationRequired">>,
                <<response.authData.bs => response.authData.be, "ErrInvalidBackupState">>,
                <<response.authData.attested, "ErrMalformedResponse">> >>
      BY DEF RegistrationAuthDataChecks
    <2> HIDE DEF verified, hash
    <2>3. hash /\ verified
      BY <2>1, <2>2 DEF Passes
    <2> QED BY <2>3 DEF hash, verified
  <1>5. response.alg \in Members(state.algorithms)
    <2>1. AttestedCredentialChecks(state, response)[3][1]
      BY DEF FinishRegistrationAccepts, Passes, AttestedCredentialChecks
    <2> QED BY <2>1 DEF AttestedCredentialChecks
  <1>6. time < state.expires
    <2>1. RegistrationStateChecks(rp, state, time)[2][1]
      BY DEF FinishRegistrationAccepts, Passes, RegistrationStateChecks
    <2> QED BY <2>1 DEF RegistrationStateChecks, NotExpired
  <1>7. response.attestationType \in KnownAttestationType
    <2>1. AttestationChecks(rp, response)[4][1]
      BY DEF FinishRegistrationAccepts, Passes, AttestationChecks
    <2> QED BY <2>1 DEF AttestationChecks
  <1> QED BY <1>1, <1>2, <1>3, <1>4, <1>5, <1>6, <1>7 DEF Established

LEMMA AssertionAccepted ==
    ASSUME NEW rp, NEW state, NEW response, NEW record, NEW time,
           FinishAuthenticationAccepts(rp, state, response, record, time)
    PROVE  /\ Established(rp, state, response, time)
           /\ state.uv = rp.authenticationUV
           /\ record.alg \in Members(rp.algorithms)
           /\ RPIDHashAccepted(rp, state, response)
           /\ response.userHandle \in {None, record.user}
           /\ state.expected \in {None, record.user}
           /\ response.userHandle # None \/ state.expected # None
           /\ response.signature.key = record.key
           /\ record.id = response.rawId
           /\ state.allow # {} => response.rawId \in state.allow
           /\ rp.rejectCloneRisk =>
                 ~CloneRisk(record.signCount, response.authData.signCount)
  <1>1. /\ state.rpId = rp.rpId /\ state.policy = rp.policy
        /\ state.uv = rp.authenticationUV
    <2>1. AuthenticationStateChecks(rp, state, record, time)[1][1]
      BY DEF FinishAuthenticationAccepts, Passes, AuthenticationStateChecks
    <2> QED BY <2>1 DEF AuthenticationStateChecks, MatchesOrigin
  <1>2. /\ FinishBindingsMatch(state.requested, state.bindings, rp.registry)
        /\ record.alg \in Members(rp.algorithms)
    <2>1. /\ AuthenticationStateChecks(rp, state, record, time)[3][1]
          /\ AuthenticationStateChecks(rp, state, record, time)[6][1]
      BY DEF FinishAuthenticationAccepts, Passes, AuthenticationStateChecks
    <2> QED BY <2>1 DEF AuthenticationStateChecks
  <1>3. /\ response.clientData.origin \in Members(state.policy.origins)
        /\ response.clientData.challenge = state.challenge
    BY ClientDataPasses DEF FinishAuthenticationAccepts
  <1>4. /\ state.uv = "required" => response.authData.uv
        /\ RPIDHashAccepted(rp, state, response)
    <2> DEFINE checks == AuthenticationAuthDataChecks(rp, state, response, record)
    <2>1. checks[2][1] /\ checks[4][1]
      BY DEF FinishAuthenticationAccepts, Passes, AuthenticationAuthDataChecks
    <2>2. checks[2][1] <=> RPIDHashAccepted(rp, state, response)
      BY DEF AuthenticationAuthDataChecks
    <2>3. checks[4][1] <=> (state.uv = "required" => response.authData.uv)
      BY DEF AuthenticationAuthDataChecks
    <2> QED BY <2>1, <2>2, <2>3
  <1>5. /\ response.userHandle \in {None, record.user}
        /\ state.expected \in {None, record.user}
        /\ response.userHandle # None \/ state.expected # None
    <2> DEFINE checks == UserBindingChecks(state, response, record)
    <2>0. Passes(checks)
      BY DEF FinishAuthenticationAccepts
    <2> HIDE DEF checks
    <2>1. CASE state.expected # None
      <3>1. checks = << <<record.user = state.expected, "ErrCredentialOwnershipMismatch">>,
                        <<response.userHandle \in {None, state.expected},
                          "ErrCredentialOwnershipMismatch">> >>
        BY <2>1 DEF UserBindingChecks, checks
      <3>2. checks[1][1] /\ checks[2][1]
        BY <2>0, <3>1 DEF Passes
      <3>3. record.user = state.expected /\ response.userHandle \in {None, state.expected}
        BY <3>1, <3>2
      <3> QED BY <2>1, <3>3
    <2>2. CASE state.expected = None
      <3>1. checks = << <<response.userHandle # None, "ErrUserHandleRequired">>,
                        <<response.userHandle = record.user,
                          "ErrCredentialOwnershipMismatch">> >>
        BY <2>2 DEF UserBindingChecks, checks
      <3>2. checks[1][1] /\ checks[2][1]
        BY <2>0, <3>1 DEF Passes
      <3>3. response.userHandle # None /\ response.userHandle = record.user
        BY <3>1, <3>2
      <3> QED BY <2>2, <3>3
    <2> QED BY <2>1, <2>2
  <1>6. time < state.expires
    <2>1. AuthenticationStateChecks(rp, state, record, time)[4][1]
      BY DEF FinishAuthenticationAccepts, Passes, AuthenticationStateChecks
    <2> QED BY <2>1 DEF AuthenticationStateChecks, NotExpired
  <1>7. /\ response.signature.key = record.key
        /\ rp.rejectCloneRisk =>
              ~CloneRisk(record.signCount, response.authData.signCount)
    <2> DEFINE checks == AssertionChecks(rp, response, record)
               risk == rp.rejectCloneRisk =>
                           ~CloneRisk(record.signCount, response.authData.signCount)
    <2>1. checks[2][1] /\ checks[3][1]
      BY DEF FinishAuthenticationAccepts, Passes, AssertionChecks
    <2>2. checks[2][1] <=> response.signature =
              Signature(record.key, response.authData, response.clientData)
      BY DEF AssertionChecks
    <2>3. checks[3][1] <=> risk
      BY DEF AssertionChecks
    <2> HIDE DEF checks, risk
    <2>4. risk
      BY <2>1, <2>3
    <2>5. response.signature = Signature(record.key, response.authData, response.clientData)
      BY <2>1, <2>2
    <2> QED BY <2>4, <2>5 DEF risk, Signature
  <1>8. /\ record.id = response.rawId
        /\ state.allow # {} => response.rawId \in state.allow
    <2> DEFINE checks == CredentialBindingChecks(state, response, record)
               allowed == state.allow # {} => response.rawId \in state.allow
    <2>1. checks[2][1] /\ checks[3][1]
      <3>1. Passes(checks)
        BY DEF FinishAuthenticationAccepts
      <3>2. DOMAIN checks = 1 .. 3
        BY DEF CredentialBindingChecks
      <3> HIDE DEF checks
      <3> QED BY <3>1, <3>2 DEF Passes
    <2>2. checks[2][1] <=> record.id = response.rawId
      BY DEF CredentialBindingChecks
    <2>3. checks[3][1] = allowed
      BY DEF CredentialBindingChecks
    <2> HIDE DEF checks, allowed
    <2>4. allowed /\ record.id = response.rawId
      BY <2>1, <2>2, <2>3
    <2> QED BY <2>4 DEF allowed
  <1> QED BY <1>1, <1>2, <1>3, <1>4, <1>5, <1>6, <1>7, <1>8 DEF Established

-----------------------------------------------------------------------------
(***************************************************************************)
(* What Start writes, and which hosts a policy admits.                     *)
(***************************************************************************)

\* The bindings Start prepares are those Finish wants to see under the same
\* registry.
LEMMA PreparedBindingsSound ==
    ASSUME NEW inputs, NEW registry, NEW rejectUnknown, RegistryValid(registry),
           PrepareAccepts(inputs, registry, rejectUnknown)
    PROVE  /\ BindingStateValid(DOMAIN inputs, PreparedBindings(inputs, registry))
           /\ FinishBindingsMatch(DOMAIN inputs, PreparedBindings(inputs, registry),
                                  registry)
  <1> DEFINE bindings == PreparedBindings(inputs, registry)
  <1>1. /\ DOMAIN bindings = DOMAIN inputs \cap DOMAIN registry.handlers
        /\ \A id \in DOMAIN bindings : bindings[id] = registry.handlers[id]
    BY DEF PreparedBindings
  <1>2. BoundedIDs(DOMAIN inputs)
    <2>1. CASE DOMAIN inputs = {}
      BY <2>1, FS_EmptySet, MaxEntriesAssumption DEF BoundedIDs
    <2>2. CASE DOMAIN inputs # {}
      BY <2>2 DEF PrepareAccepts
    <2> QED BY <2>1, <2>2
  <1>3. \A id \in DOMAIN inputs \cap DOMAIN BuiltInBinding :
            id \in DOMAIN bindings /\ bindings[id] = BuiltInBinding[id]
    BY <1>1 DEF PrepareAccepts, RegistryValid
  <1> HIDE DEF bindings
  <1>4. BindingStateValid(DOMAIN inputs, bindings)
    BY <1>1, <1>2, <1>3 DEF BindingStateValid
  <1>5. FinishBindingsMatch(DOMAIN inputs, bindings, registry)
    BY <1>1 DEF FinishBindingsMatch
  <1> QED BY <1>4, <1>5 DEF bindings

\* A host in the scope of an identifier is some labels followed by it.
LEMMA ScopeIsSuffix ==
    ASSUME NEW host \in Seq(STRING), NEW rpId, HostInScope(host, rpId)
    PROVE  \E n \in 0 .. Len(host) : host = SubSeq(host, 1, n) \o rpId
  <1>1. PICK n \in 0 .. Len(host) : SubSeq(host, n + 1, Len(host)) = rpId
    BY DEF HostInScope
  <1>2. Len(host) \in Nat
    BY LenProperties
  <1>3. SubSeq(host, 1, n) \o SubSeq(host, n + 1, Len(host)) = SubSeq(host, 1, Len(host))
    <2>1. /\ 1 \in 1 .. Len(host) + 1
          /\ n \in 1 - 1 .. Len(host)
          /\ Len(host) \in n .. Len(host)
      BY <1>2
    <2> QED BY <2>1, ConcatAdjacentSubSeq, Zenon
  <1>4. SubSeq(host, 1, Len(host)) = host
    BY SubSeqFull
  <1> QED BY <1>1, <1>3, <1>4

-----------------------------------------------------------------------------
(***************************************************************************)
(* Credential records and their updates.                                   *)
(***************************************************************************)

\* What an accepted registration stores is a credential record.
LEMMA RegisteredTyped ==
    ASSUME NEW state, NEW response,
           response.attestationType \in KnownAttestationType,
           state.user \in UserHandles, state.rpId \in RPIDs,
           response.credentialId \in CredentialIDs, response.key \in Keys,
           response.alg \in Algorithms, FlagsTyped(response.authData)
    PROVE  RegisteredCredential(state, response) \in CredentialRecord
  <1>1. NormalizeAttachment(response.attachment) \in Attachment
    BY DEF NormalizeAttachment, Attachment, KnownAttachment
  <1> QED BY <1>1 DEF RegisteredCredential, CredentialRecord, FlagsTyped

\* The counter an update proposes: that of the assertion when it moves forward,
\* and never a smaller one unless clone risk is to be written.
LEMMA NextSignCountAdvances ==
    ASSUME NEW record \in CredentialRecord, NEW flags, FlagsTyped(flags), NEW onRisk
    PROVE  LET next == NextSignCount(record, flags, onRisk) IN
           /\ next \in SignCount
           /\ ~onRisk => next >= record.signCount
           /\ ~CloneRisk(record.signCount, flags.signCount) =>
                 /\ next = flags.signCount
                 /\ next > record.signCount \/ (next = 0 /\ record.signCount = 0)
  <1>1. record.signCount \in SignCount /\ flags.signCount \in SignCount
    BY DEF CredentialRecord, FlagsTyped
  <1>2. SignCount \subseteq Nat
    BY MaxSignCountAssumption DEF SignCount
  <1> DEFINE old == record.signCount
             count == flags.signCount
             next == NextSignCount(record, flags, onRisk)
  <1>3. next = IF (count > old /\ ~(old = 0 /\ count = 0))
                  \/ (CloneRisk(old, count) /\ onRisk)
               THEN count ELSE old
    BY DEF NextSignCount, CompareCounters
  <1>4. CloneRisk(old, count) <=> ~(old = 0 /\ count = 0) /\ ~(count > old)
    BY DEF CloneRisk, CompareCounters
  <1> HIDE DEF old, count, next
  <1>5. old \in Nat /\ count \in Nat /\ old \in SignCount /\ count \in SignCount
    BY <1>1, <1>2 DEF old, count
  <1>6. /\ next \in SignCount
        /\ ~onRisk => next >= old
        /\ ~CloneRisk(old, count) =>
              next = count /\ (next > old \/ (next = 0 /\ old = 0))
    BY <1>3, <1>4, <1>5
  <1> QED BY <1>6 DEF old, count, next

\* The update of an assertion when no further factor authorises it to
\* initialise user verification.
PlainUpdate(seen, flags, attachment, onRisk) ==
    CredentialUpdate(seen, flags, attachment, onRisk, FALSE)

\* An update that matches changes the four values of the record it was computed
\* from, and nothing else.
LEMMA AppliedRecord ==
    ASSUME NEW record \in CredentialRecord, NEW seen \in CredentialRecord,
           NEW flags, FlagsTyped(flags), NEW attachment, NEW onRisk, NEW update, NEW new,
           update = PlainUpdate(seen, flags, attachment, onRisk),
           UpdateMatches(update, record), new = Applied(update, record)
    PROVE  /\ new \in CredentialRecord
           /\ new.id = record.id /\ new.user = record.user /\ new.key = record.key
           /\ new.uvInitialized = record.uvInitialized
           /\ new.signCount = NextSignCount(seen, flags, onRisk)
           /\ record.id = seen.id
           /\ record.signCount = seen.signCount
           /\ record.uvInitialized = seen.uvInitialized
  <1> DEFINE next == update.next
  <1>1. /\ next.signCount = NextSignCount(seen, flags, onRisk)
        /\ next.backupState = flags.bs
        /\ next.uvInitialized = NextUVInitialized(seen, flags, FALSE)
        /\ next.attachment = NextAttachment(seen, attachment)
    BY DEF PlainUpdate, CredentialUpdate
  <1>2. /\ record.id = seen.id
        /\ Mutable(record) = Mutable(seen)
    BY DEF UpdateMatches, PlainUpdate, CredentialUpdate
  <1>3. record.signCount = seen.signCount /\ record.uvInitialized = seen.uvInitialized
    BY <1>2 DEF Mutable
  <1>4. /\ next.signCount \in SignCount
        /\ next.backupState \in BOOLEAN
        /\ next.uvInitialized = record.uvInitialized
        /\ next.attachment \in Attachment
    <2>1. next.signCount \in SignCount
      <3>1. NextSignCount(seen, flags, onRisk) \in SignCount
        BY NextSignCountAdvances
      <3> QED BY <1>1, <3>1
    <2>2. next.uvInitialized = record.uvInitialized
      <3>1. seen.uvInitialized \in BOOLEAN
        BY DEF CredentialRecord
      <3>2. NextUVInitialized(seen, flags, FALSE) = seen.uvInitialized
        BY <3>1, Zenon DEF NextUVInitialized
      <3> QED BY <1>1, <1>3, <3>2
    <2>3. next.attachment \in Attachment
      BY <1>1 DEF NextAttachment, NormalizeAttachment, CredentialRecord, Attachment,
                  KnownAttachment
    <2> QED BY <1>1, <2>1, <2>2, <2>3 DEF FlagsTyped
  <1>5. new = [record EXCEPT !.signCount = next.signCount,
                             !.backupState = next.backupState,
                             !.uvInitialized = next.uvInitialized,
                             !.attachment = next.attachment]
    BY DEF Applied
  <1> HIDE DEF next
  <1>6. /\ new \in CredentialRecord
        /\ new.id = record.id /\ new.user = record.user /\ new.key = record.key
        /\ new.uvInitialized = record.uvInitialized
        /\ new.signCount = next.signCount
    BY <1>4, <1>5 DEF CredentialRecord
  <1> QED BY <1>1, <1>2, <1>3, <1>6

-----------------------------------------------------------------------------
(***************************************************************************)
(* Maps.                                                                   *)
(***************************************************************************)

LEMMA WithoutFacts ==
    ASSUME NEW f, NEW keys
    PROVE  /\ DOMAIN Without(f, keys) = DOMAIN f \ keys
           /\ \A k \in DOMAIN Without(f, keys) : Without(f, keys)[k] = f[k]
  BY DEF Without

LEMMA WithFacts ==
    ASSUME NEW f, NEW key, NEW value
    PROVE  /\ DOMAIN With(f, key, value) = DOMAIN f \cup {key}
           /\ With(f, key, value)[key] = value
           /\ \A k \in DOMAIN f : k # key => With(f, key, value)[k] = f[k]
  BY DEF With
===============================================================================
