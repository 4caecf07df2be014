--------------------------- MODULE DeploymentProofs ---------------------------
(***************************************************************************)
(* Theorems about ceremonies that outlive a deployment, for any set of     *)
(* configurations, requests and responses.                                 *)
(*                                                                         *)
(* The inductive invariant: a stored ceremony still says what its starting *)
(* configuration put into it, and a verdict is what Finish answered about  *)
(* such a state.                                                           *)
(***************************************************************************)
EXTENDS Deployment, CeremonyProofs

-----------------------------------------------------------------------------
(***************************************************************************)
(* The inductive invariant.                                                *)
(***************************************************************************)

\* What Start wrote into the state of a ceremony under a configuration.
StartedAs(kind, config, state) ==
    /\ config \in Configurations /\ ConfigValid(config)
    /\ state.rpId = config.rpId /\ state.policy = config.policy
    /\ BindingStateValid(state.requested, state.bindings)
    /\ FinishBindingsMatch(state.requested, state.bindings, config.registry)
    /\ kind = "registration" =>
           /\ state.uv = config.registrationUV
           /\ state.algorithms = config.algorithms
           /\ state.attestation = config.attestation
           /\ state.user = User
    /\ kind = "authentication" =>
           /\ state.uv = config.authenticationUV
           /\ LargeBlobContextValid(state.largeBlobWrite, Cardinality(state.allow))

\* A verdict is what Finish answered about such a state.
VerdictSound(v) ==
    /\ v.kind \in {"registration", "authentication"}
    /\ v.config \in Configurations /\ ConfigValid(v.config)
    /\ StartedAs(v.kind, v.startedBy, v.state)
    /\ v.kind = "registration" =>
           /\ v.record = RegisteredCredential(v.state, v.response)
           /\ v.outcome = "ok" =>
                  FinishRegistrationAccepts(v.config, v.state, v.response, 0)
    /\ v.kind = "authentication" =>
           /\ v.response \in Assertions
           /\ v.outcome = "ok" =>
                  FinishAuthenticationAccepts(v.config, v.state, v.response, v.record, 0)
    /\ v.outcome = "ok" =>
           v.interpreted = ExtensionResults(v.state.requested,
               v.response.clientOutputs \cup v.response.authenticatorOutputs,
               v.config.registry, v.config.outputPolicy)
    /\ v.config = v.startedBy =>
           v.outcome \notin {"ErrInvalidCeremonyState", "ErrInvalidConfiguration"}

CeremonySound(c) ==
    /\ c.kind \in {"registration", "authentication"}
    /\ StartedAs(c.kind, c.startedBy, c.state)

DeploymentInv ==
    /\ running \in Configurations /\ ConfigValid(running)
    /\ ceremony = Nothing \/ CeremonySound(ceremony)
    /\ verdict = Nothing \/ VerdictSound(verdict)

\* The state checks of a registration fail with no "ok", and under the
\* configuration that started it with no complaint about state or
\* configuration either.
LEMMA RegistrationStateAvoids ==
    ASSUME NEW rp, NEW config, NEW state, StartedAs("registration", config, state)
    PROVE  /\ Avoids(RegistrationStateChecks(rp, state, 0), {"ok"})
           /\ rp = config => Avoids(RegistrationStateChecks(rp, state, 0), StateErrors)
  <1>1. Avoids(RegistrationStateChecks(rp, state, 0), {"ok"})
    BY DEF Avoids, RegistrationStateChecks
  <1>2. ASSUME rp = config
        PROVE  Avoids(RegistrationStateChecks(rp, state, 0), StateErrors)
    <2> DEFINE matches == MatchesOrigin(rp, state) /\ state.uv = rp.registrationUV
                 /\ state.algorithms = rp.algorithms
                 /\ state.attestation = rp.attestation
               valid == RegistrationStateValid(state)
               bound == FinishBindingsMatch(state.requested, state.bindings, rp.registry)
    <2>1. matches
      BY <1>2 DEF StartedAs, MatchesOrigin
    <2>2. valid
      <3>1. state.algorithms # << >> /\ state.user # None
        BY ConfigurationsAssumption, UserAssumption DEF StartedAs
      <3> QED BY <3>1 DEF StartedAs, RegistrationStateValid, ConfigValid
    <2>3. bound
      BY <1>2 DEF StartedAs
    <2> DEFINE checks == RegistrationStateChecks(rp, state, 0)
    <2>4. checks[1][1] /\ checks[3][1] /\ checks[4][1]
      <3>1. checks[1][1] = matches
        BY DEF RegistrationStateChecks
      <3>2. checks[3][1] = valid
        BY DEF RegistrationStateChecks
      <3>3. checks[4][1] = bound
        BY DEF RegistrationStateChecks
      <3> HIDE DEF checks, matches, valid, bound
      <3> QED BY <2>1, <2>2, <2>3, <3>1, <3>2, <3>3
    <2>5. DOMAIN checks = 1 .. 4 /\ checks[2][2] = "ErrCeremonyExpired"
      BY DEF RegistrationStateChecks
    <2> HIDE DEF checks
    <2>6. \A i \in DOMAIN checks : checks[i][1] \/ checks[i][2] \notin StateErrors
      BY <2>4, <2>5 DEF StateErrors
    <2> QED BY <1>1, <2>6 DEF Avoids, checks
  <1> QED BY <1>1, <1>2

\* Those of an authentication, likewise.
LEMMA AuthenticationStateAvoids ==
    ASSUME NEW rp, NEW config, NEW state, NEW record,
           StartedAs("authentication", config, state)
    PROVE  /\ Avoids(AuthenticationStateChecks(rp, state, record, 0), {"ok"})
           /\ rp = config =>
                 Avoids(AuthenticationStateChecks(rp, state, record, 0), StateErrors)
  <1>1. Avoids(AuthenticationStateChecks(rp, state, record, 0), {"ok"})
    BY DEF Avoids, AuthenticationStateChecks
  <1>2. ASSUME rp = config
        PROVE  Avoids(AuthenticationStateChecks(rp, state, record, 0), StateErrors)
    <2> DEFINE matches == MatchesOrigin(rp, state) /\ state.uv = rp.authenticationUV
               valid == AuthenticationStateValid(state)
               bound == FinishBindingsMatch(state.requested, state.bindings, rp.registry)
    <2>1. matches
      BY <1>2 DEF StartedAs, MatchesOrigin
    <2>2. valid
      BY DEF StartedAs, AuthenticationStateValid, ConfigValid
    <2>3. bound
      BY <1>2 DEF StartedAs
    <2> DEFINE checks == AuthenticationStateChecks(rp, state, record, 0)
    <2>4. checks[1][1] /\ checks[5][1] /\ checks[6][1]
      <3>1. checks[1][1] = matches
        BY DEF AuthenticationStateChecks
      <3>2. checks[5][1] = valid
        BY DEF AuthenticationStateChecks
      <3>3. checks[6][1] = bound
        BY DEF AuthenticationStateChecks
      <3> HIDE DEF checks, matches, valid, bound
      <3> QED BY <2>1, <2>2, <2>3, <3>1, <3>2, <3>3
    <2>5. /\ DOMAIN checks = 1 .. 6
          /\ checks[2][2] = "ErrInvalidCredentialRecord"
          /\ checks[3][2] = "ErrUnsupportedAlgorithm"
          /\ checks[4][2] = "ErrCeremonyExpired"
      BY DEF AuthenticationStateChecks
    <2> HIDE DEF checks
    <2>6. \A i \in DOMAIN checks : checks[i][1] \/ checks[i][2] \notin StateErrors
      BY <2>4, <2>5 DEF StateErrors
    <2> QED BY <1>1, <2>6 DEF Avoids, checks
  <1> QED BY <1>1, <1>2

\* What the two Starts write.
LEMMA RegistrationStarted ==
    ASSUME NEW config \in Configurations, ConfigValid(config), NEW request,
           NEW conditional, NEW challenge,
           StartRegistrationAccepts(config, request, challenge)
    PROVE  StartedAs("registration", config,
               RegistrationState(config, User, request, conditional, challenge, 0))
  <1> DEFINE state == RegistrationState(config, User, request, conditional, challenge, 0)
  <1>1. RegistryValid(config.registry)
    BY DEF ConfigValid
  <1>2. /\ state.requested = DOMAIN request.inputs
        /\ state.bindings = PreparedBindings(request.inputs, config.registry)
        /\ state.rpId = config.rpId /\ state.policy = config.policy
        /\ state.uv = config.registrationUV /\ state.algorithms = config.algorithms
        /\ state.attestation = config.attestation /\ state.user = User
    BY DEF RegistrationState
  <1>3. /\ BindingStateValid(state.requested, state.bindings)
        /\ FinishBindingsMatch(state.requested, state.bindings, config.registry)
    BY <1>1, <1>2, PreparedBindingsSound DEF StartRegistrationAccepts
  <1> HIDE DEF state
  <1>4. StartedAs("registration", config, state)
    BY <1>2, <1>3 DEF StartedAs
  <1> QED BY <1>4 DEF state

LEMMA AuthenticationStarted ==
    ASSUME NEW config \in Configurations, ConfigValid(config), NEW request,
           NEW expected, NEW allow, NEW challenge,
           StartAuthenticationAccepts(config, request, allow, challenge)
    PROVE  StartedAs("authentication", config,
               AuthenticationState(config, expected, allow, request, challenge, 0))
  <1> DEFINE state == AuthenticationState(config, expected, allow, request, challenge, 0)
  <1>1. RegistryValid(config.registry)
    BY DEF ConfigValid
  <1>2. /\ state.requested = DOMAIN request.inputs
        /\ state.bindings = PreparedBindings(request.inputs, config.registry)
        /\ state.rpId = config.rpId /\ state.policy = config.policy
        /\ state.uv = config.authenticationUV
        /\ state.largeBlobWrite = request.largeBlobWrite /\ state.allow = allow
    BY DEF AuthenticationState
  <1>3. /\ BindingStateValid(state.requested, state.bindings)
        /\ FinishBindingsMatch(state.requested, state.bindings, config.registry)
    BY <1>1, <1>2, PreparedBindingsSound DEF StartAuthenticationAccepts
  <1>4. LargeBlobContextValid(state.largeBlobWrite, Cardinality(state.allow))
    BY <1>2 DEF StartAuthenticationAccepts
  <1> HIDE DEF state
  <1>5. StartedAs("authentication", config, state)
    BY <1>2, <1>3, <1>4 DEF StartedAs
  <1> QED BY <1>5 DEF state

-----------------------------------------------------------------------------
(***************************************************************************)
(* The invariant is inductive: one lemma per action.                       *)
(***************************************************************************)

LEMMA InitSound == Init => DeploymentInv
  BY DEF Init, DeploymentInv

LEMMA DeploySound ==
    ASSUME DeploymentInv, NEW config \in Configurations, Deploy(config)
    PROVE  DeploymentInv'
  BY DEF Deploy, DeploymentInv, CeremonySound, StartedAs, Nothing

LEMMA StartRegistrationSound ==
    ASSUME DeploymentInv, NEW request \in Extended, NEW conditional, NEW challenge,
           StartRegistration(request, conditional, challenge)
    PROVE  DeploymentInv'
  <1> DEFINE state == RegistrationState(running, User, request, conditional, challenge, 0)
  <1>1. StartedAs("registration", running, state)
    BY RegistrationStarted DEF DeploymentInv, StartRegistration
  <1>2. ceremony' = [kind |-> "registration", startedBy |-> running, state |-> state]
    BY DEF StartRegistration
  <1> HIDE DEF state
  <1>3. CeremonySound(ceremony')
    BY <1>1, <1>2 DEF CeremonySound
  <1>4. verdict' = Nothing /\ running' = running
    BY DEF StartRegistration
  <1> QED BY <1>3, <1>4 DEF DeploymentInv, CeremonySound, Nothing

LEMMA StartAuthenticationSound ==
    ASSUME DeploymentInv, NEW request \in Extended, NEW expected, NEW allow,
           NEW challenge, StartAuthentication(request, expected, allow, challenge)
    PROVE  DeploymentInv'
  <1> DEFINE state == AuthenticationState(running, expected, allow, request, challenge, 0)
  <1>1. StartedAs("authentication", running, state)
    BY AuthenticationStarted DEF DeploymentInv, StartAuthentication
  <1>2. ceremony' = [kind |-> "authentication", startedBy |-> running, state |-> state]
    BY DEF StartAuthentication
  <1> HIDE DEF state
  <1>3. CeremonySound(ceremony')
    BY <1>1, <1>2 DEF CeremonySound
  <1>4. verdict' = Nothing /\ running' = running
    BY DEF StartAuthentication
  <1> QED BY <1>3, <1>4 DEF DeploymentInv, CeremonySound, Nothing

LEMMA FinishRegistrationSound ==
    ASSUME DeploymentInv, NEW response \in Registrations, FinishRegistration(response)
    PROVE  DeploymentInv'
  <1> DEFINE state == ceremony.state
             accepts == FinishRegistrationAccepts(running, state, response, 0)
             error == FinishRegistrationError(running, state, response, 0)
             record == RegisteredCredential(state, response)
  <1>1. ceremony.kind = "registration" /\ CeremonySound(ceremony)
    BY DEF DeploymentInv, FinishRegistration, Nothing
  <1>2. StartedAs("registration", ceremony.startedBy, state)
    BY <1>1 DEF CeremonySound
  <1>3. ~accepts => error # "ok"
    BY <1>2, RegistrationStateAvoids, RegistrationRefused DEF StateErrors
  <1>4. ~accepts /\ running = ceremony.startedBy =>
            error \notin {"ErrInvalidCeremonyState", "ErrInvalidConfiguration"}
    BY <1>2, RegistrationStateAvoids, RegistrationRefused DEF StateErrors
  <1>5. verdict' = Verdict("registration", response, record, accepts, error)
    BY DEF FinishRegistration
  <1>6. accepts \in BOOLEAN
    BY DEF FinishRegistrationAccepts
  <1>7. accepts = FinishRegistrationAccepts(running, state, response, 0)
    OBVIOUS
  <1> HIDE DEF accepts, error, record
  <1>8. VerdictSound(verdict')
    BY <1>2, <1>3, <1>4, <1>5, <1>6, <1>7
       DEF Verdict, VerdictSound, DeploymentInv, record
  <1>9. running' = running /\ ceremony' = ceremony
    BY DEF FinishRegistration
  <1> QED BY <1>8, <1>9 DEF DeploymentInv

LEMMA FinishAuthenticationSound ==
    ASSUME DeploymentInv, NEW response \in Assertions, NEW record \in Stored,
           FinishAuthentication(response, record)
    PROVE  DeploymentInv'
  <1> DEFINE state == ceremony.state
             accepts == FinishAuthenticationAccepts(running, state, response, record, 0)
             error == FinishAuthenticationError(running, state, response, record, 0)
  <1>1. ceremony.kind = "authentication" /\ CeremonySound(ceremony)
    BY DEF DeploymentInv, FinishAuthentication, Nothing
  <1>2. StartedAs("authentication", ceremony.startedBy, state)
    BY <1>1 DEF CeremonySound
  <1>3. ~accepts => error # "ok"
    BY <1>2, AuthenticationStateAvoids, AuthenticationRefused DEF StateErrors
  <1>4. ~accepts /\ running = ceremony.startedBy =>
            error \notin {"ErrInvalidCeremonyState", "ErrInvalidConfiguration"}
    BY <1>2, AuthenticationStateAvoids, AuthenticationRefused DEF StateErrors
  <1>5. verdict' = Verdict("authentication", response, record, accepts, error)
    BY DEF FinishAuthentication
  <1>6. accepts \in BOOLEAN
    BY DEF FinishAuthenticationAccepts
  <1>7. accepts = FinishAuthenticationAccepts(running, state, response, record, 0)
    OBVIOUS
  <1> HIDE DEF accepts, error
  <1>8. VerdictSound(verdict')
    BY <1>2, <1>3, <1>4, <1>5, <1>6, <1>7
       DEF Verdict, VerdictSound, DeploymentInv
  <1>9. running' = running /\ ceremony' = ceremony
    BY DEF FinishAuthentication
  <1> QED BY <1>8, <1>9 DEF DeploymentInv

LEMMA StepSound == DeploymentInv /\ [Next]_vars => DeploymentInv'
  <1> SUFFICES ASSUME DeploymentInv, [Next]_vars PROVE DeploymentInv'
    OBVIOUS
  <1>1. CASE UNCHANGED vars
    BY <1>1 DEF vars, DeploymentInv
  <1>2. CASE Next
    BY <1>2, DeploySound, StartRegistrationSound, StartAuthenticationSound,
       FinishRegistrationSound, FinishAuthenticationSound DEF Next
  <1> QED BY <1>1, <1>2

LEMMA DeploymentSound == Spec => []DeploymentInv
  BY InitSound, StepSound, PTL DEF Spec

-----------------------------------------------------------------------------
(***************************************************************************)
(* The theorems.                                                           *)
(***************************************************************************)

\* What the invariant says of an accepted response.
LEMMA AcceptedVerdict ==
    ASSUME DeploymentInv, Accepted
    PROVE  /\ VerdictSound(verdict)
           /\ Established(verdict.config, verdict.state, verdict.response, 0)
  <1>1. VerdictSound(verdict) /\ verdict.outcome = "ok"
    BY DEF DeploymentInv, Accepted
  <1>2. CASE verdict.kind = "registration"
    BY <1>1, <1>2, RegistrationAccepted DEF VerdictSound
  <1>3. CASE verdict.kind = "authentication"
    BY <1>1, <1>3, AssertionAccepted DEF VerdictSound
  <1> QED BY <1>1, <1>2, <1>3 DEF VerdictSound

\* Whatever is deployed between the start and the finish of a ceremony, an
\* accepted response comes from an origin both configurations allow and, without
\* related origins, one within the relying party identifier
\* (verifyCollectedClientOrigin, validateRPIDOriginPolicy).
THEOREM OriginsInScope == Spec => []AcceptedOriginInScope
  <1>1. DeploymentInv => AcceptedOriginInScope
    <2> SUFFICES ASSUME DeploymentInv, Accepted PROVE AcceptedOriginInScope
      BY DEF AcceptedOriginInScope
    <2> DEFINE origin == verdict.response.clientData.origin
               policy == verdict.config.policy
    <2>1. VerdictSound(verdict) /\ Established(verdict.config, verdict.state, verdict.response, 0)
      BY AcceptedVerdict
    <2>2. /\ verdict.config.rpId = verdict.startedBy.rpId
          /\ policy = verdict.startedBy.policy
          /\ origin \in Members(policy.origins)
      BY <2>1 DEF VerdictSound, Established, StartedAs
    <2>3. /\ verdict.config \in Configurations
          /\ OriginPolicyValid(policy)
          /\ RPIDOriginPolicyValid(verdict.config.rpId, policy)
      BY <2>1 DEF VerdictSound, ConfigValid
    <2>4. origin.scheme = "https" \/ origin.host \in LoopbackHosts
      <3>1. origin.scheme \in DOMAIN DefaultPort
            /\ (origin.scheme = "http" => origin.host \in LoopbackHosts)
        BY <2>2, <2>3 DEF OriginPolicyValid, WebAuthnOriginValid
      <3>2. DOMAIN DefaultPort = {"https", "http"}
        BY DEF DefaultPort
      <3> QED BY <3>1, <3>2
    <2>5. ASSUME ~policy.related
          PROVE  \E n \in 0 .. Len(origin.host) :
                     origin.host = SubSeq(origin.host, 1, n) \o verdict.config.rpId
      <3>1. HostInScope(origin.host, verdict.config.rpId)
        BY <2>2, <2>3, <2>5 DEF RPIDOriginPolicyValid
      <3>2. origin.host \in Seq(STRING)
        BY <2>2, <2>3, ConfigurationsAssumption
      <3> QED BY <3>1, <3>2, ScopeIsSuffix
    <2> QED BY <2>2, <2>4, <2>5 DEF AcceptedOriginInScope
  <1> QED BY <1>1, DeploymentSound, PTL

\* User verification that either configuration requires was performed, and the
\* algorithm is one that both accept when they use it (FinishRegistration,
\* FinishAuthentication of RelyingParty).
THEOREM NeverWeakened == Spec => []DeploymentNeverWeakens
  <1>1. DeploymentInv => DeploymentNeverWeakens
    <2> SUFFICES ASSUME DeploymentInv, Accepted PROVE DeploymentNeverWeakens
      BY DEF DeploymentNeverWeakens
    <2>1. VerdictSound(verdict) /\ Established(verdict.config, verdict.state, verdict.response, 0)
      BY AcceptedVerdict
    <2>2. CASE verdict.kind = "registration"
      <3>1. FinishRegistrationAccepts(verdict.config, verdict.state, verdict.response, 0)
        BY <2>1, <2>2 DEF VerdictSound, Accepted
      <3>2. /\ verdict.state.uv = verdict.config.registrationUV
            /\ verdict.state.algorithms = verdict.config.algorithms
            /\ verdict.response.alg \in Members(verdict.state.algorithms)
        BY <3>1, RegistrationAccepted
      <3>3. /\ verdict.state.uv = verdict.startedBy.registrationUV
            /\ verdict.state.algorithms = verdict.startedBy.algorithms
            /\ verdict.record.alg = verdict.response.alg
        BY <2>1, <2>2 DEF VerdictSound, StartedAs, RegisteredCredential
      <3> QED BY <2>1, <2>2, <3>2, <3>3 DEF DeploymentNeverWeakens, Established
    <2>3. CASE verdict.kind = "authentication"
      <3>1. FinishAuthenticationAccepts(verdict.config, verdict.state,
                verdict.response, verdict.record, 0)
        BY <2>1, <2>3 DEF VerdictSound, Accepted
      <3>2. /\ verdict.state.uv = verdict.config.authenticationUV
            /\ verdict.record.alg \in Members(verdict.config.algorithms)
        BY <3>1, AssertionAccepted
      <3>3. verdict.state.uv = verdict.startedBy.authenticationUV
        BY <2>1, <2>3 DEF VerdictSound, StartedAs
      <3> QED BY <2>1, <2>3, <3>2, <3>3 DEF DeploymentNeverWeakens, Established
    <2> QED BY <2>1, <2>2, <2>3 DEF VerdictSound
  <1> QED BY <1>1, DeploymentSound, PTL

\* An extension output is interpreted only under the handler revision that
\* normalised its input (validateFinishExtensionBindings, verifyExtension).
THEOREM NormalisedThenInterpreted == Spec => []InterpretedAsNormalised
  <1>1. DeploymentInv => InterpretedAsNormalised
    <2> SUFFICES ASSUME DeploymentInv, Accepted, NEW id \in DOMAIN verdict.interpreted
                 PROVE  /\ id \in verdict.state.requested
                        /\ id \in DOMAIN verdict.startedBy.registry.handlers
                        /\ verdict.interpreted[id] = verdict.startedBy.registry.handlers[id]
      BY DEF InterpretedAsNormalised
    <2> DEFINE requested == verdict.state.requested
               bindings == verdict.state.bindings
               now == verdict.config.registry
               then == verdict.startedBy.registry
    <2>1. VerdictSound(verdict) /\ Established(verdict.config, verdict.state, verdict.response, 0)
      BY AcceptedVerdict
    <2>2. /\ FinishBindingsMatch(requested, bindings, now)
          /\ FinishBindingsMatch(requested, bindings, then)
      BY <2>1 DEF VerdictSound, Established, StartedAs
    <2>3. verdict.interpreted = ExtensionResults(requested,
               verdict.response.clientOutputs \cup verdict.response.authenticatorOutputs,
               now, verdict.config.outputPolicy)
      BY <2>1 DEF VerdictSound, Accepted
    <2>4. id \in requested /\ id \in DOMAIN now.handlers
      BY <2>3 DEF ExtensionResults, Disposition
    <2>5. verdict.interpreted[id] = now.handlers[id]
      BY <2>3 DEF ExtensionResults
    <2> QED BY <2>2, <2>4, <2>5 DEF FinishBindingsMatch
  <1> QED BY <1>1, DeploymentSound, PTL

\* What Start writes, a Finish under the same configuration never refuses for
\* its state or its configuration (Validate, prepareExtensionInputs,
\* validateExtensionBindingState, validateFinishExtensionBindings).
THEOREM StartAndFinishAgree == Spec => []SameConfigurationAgrees
  <1>1. DeploymentInv => SameConfigurationAgrees
    BY DEF DeploymentInv, VerdictSound, SameConfigurationAgrees
  <1> QED BY <1>1, DeploymentSound, PTL

\* The hash of an application identifier is accepted only for the identifier
\* that was requested, is configured and that the client says it used
\* (expectedAuthenticationRPIDHash).
THEOREM AppIdRequested == Spec => []AppIdOnlyWhenRequested
  <1>1. DeploymentInv => AppIdOnlyWhenRequested
    <2> SUFFICES ASSUME DeploymentInv, Accepted,
                        verdict.response.authData.rpIdHash # Sha256(verdict.config.rpId)
                 PROVE  AppIdOnlyWhenRequested
      BY DEF AppIdOnlyWhenRequested
    <2>1. VerdictSound(verdict) /\ Established(verdict.config, verdict.state, verdict.response, 0)
      BY AcceptedVerdict
    <2>2. verdict.state.rpId = verdict.config.rpId
      BY <2>1 DEF Established
    <2>3. CASE verdict.kind = "registration"
      <3>1. FinishRegistrationAccepts(verdict.config, verdict.state, verdict.response, 0)
        BY <2>1, <2>3 DEF VerdictSound, Accepted
      <3> QED BY <2>2, <3>1, RegistrationAccepted
    <2>4. CASE verdict.kind = "authentication"
      <3>1. /\ FinishAuthenticationAccepts(verdict.config, verdict.state,
                   verdict.response, verdict.record, 0)
            /\ verdict.response \in Assertions
        BY <2>1, <2>4 DEF VerdictSound, Accepted
      <3>2. RPIDHashAccepted(verdict.config, verdict.state, verdict.response)
        BY <3>1, AssertionAccepted
      <3>3. /\ verdict.response.appIdUsed
            /\ verdict.state.appId # None /\ verdict.state.appId = verdict.config.appId
            /\ verdict.response.authData.rpIdHash = Sha256(verdict.state.appId)
        BY <2>2, <3>2 DEF RPIDHashAccepted
      <3> QED BY <2>4, <3>1, <3>3, AssertionsAssumption DEF AppIdOnlyWhenRequested
    <2> QED BY <2>1, <2>3, <2>4 DEF VerdictSound
  <1> QED BY <1>1, DeploymentSound, PTL

\* A login is by a credential of the user it was started for, or of the user the
\* response names; a registration is for the user it was started for
\* (verifyAuthenticationUserBinding, FinishRegistration).
THEOREM UsersBound == Spec => []AcceptedUserBound
  <1>1. DeploymentInv => AcceptedUserBound
    <2> SUFFICES ASSUME DeploymentInv, Accepted PROVE AcceptedUserBound
      BY DEF AcceptedUserBound
    <2>1. VerdictSound(verdict) /\ verdict.outcome = "ok"
      BY DEF DeploymentInv, Accepted
    <2>2. CASE verdict.kind = "registration"
      BY <2>1, <2>2 DEF VerdictSound, RegisteredCredential, AcceptedUserBound
    <2>3. CASE verdict.kind = "authentication"
      <3>1. FinishAuthenticationAccepts(verdict.config, verdict.state,
                verdict.response, verdict.record, 0)
        BY <2>1, <2>3 DEF VerdictSound
      <3>2. /\ verdict.response.userHandle \in {None, verdict.record.user}
            /\ verdict.state.expected \in {None, verdict.record.user}
            /\ verdict.response.userHandle # None \/ verdict.state.expected # None
        BY <3>1, AssertionAccepted
      <3> QED BY <2>3, <3>2 DEF AcceptedUserBound
    <2> QED BY <2>1, <2>2, <2>3 DEF VerdictSound
  <1> QED BY <1>1, DeploymentSound, PTL
===============================================================================
