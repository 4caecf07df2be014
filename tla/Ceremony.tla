------------------------------ MODULE Ceremony ------------------------------
(***************************************************************************)
(* The ceremonies of the library as functions: what RelyingParty's Start   *)
(* methods put into the ceremony state that callers store, and the ordered *)
(* checks that its Finish methods run over that state, the browser's       *)
(* response and, for an assertion, the stored credential.                  *)
(*                                                                         *)
(* A Finish function is the list of its checks, each with the error it     *)
(* returns; the first check that fails decides.  Cryptography is symbolic: *)
(* a signature is the record of what was signed with which key, a hash is  *)
(* a tagged value.                                                         *)
(***************************************************************************)
EXTENDS Credential, Origin, Extensions

\* Every check of a list of <<condition, error>> pairs holds.
Passes(checks) == \A i \in DOMAIN checks : checks[i][1]

\* The error a failing list of checks returns.
FirstError(checks) ==
    LET failed == {i \in DOMAIN checks : ~checks[i][1]}
        first == CHOOSE i \in failed : \A j \in failed : i <= j
    IN  checks[first][2]

\* SHA-256, as far as verification can tell: injective.
Sha256(value) == <<"sha256", value>>

UserVerification == {"required", "preferred", "discouraged"}

AttestationConveyance == {"none", "indirect", "direct", "enterprise"}

-----------------------------------------------------------------------------
(***************************************************************************)
(* Configuration.  A configuration `rp' is a record with fields            *)
(*   rpId, policy       relying party identifier and origin policy         *)
(*   algorithms         accepted algorithms, in preference order           *)
(*   registrationUV, authenticationUV   requested user verification        *)
(*   attestation        conveyance preference                              *)
(*   formats            attestation formats with a registered verifier     *)
(*   trusted            attestation types the trust policy accepts         *)
(*   verifiable         algorithms the algorithm policy accepts            *)
(*   registry, rejectUnknownInput, outputPolicy    extensions              *)
(*   appId              application identifier honoured for `appid'        *)
(*   rejectCloneRisk, updateOnCloneRisk            counter policy          *)
(*   stateTTL           lifetime of ceremony state                         *)
(***************************************************************************)

\* validateConfig, and NewRegistry for its registry, for the parts of a
\* configuration modelled here.
ConfigValid(rp) ==
    /\ OriginPolicyValid(rp.policy)
    /\ RPIDOriginPolicyValid(rp.rpId, rp.policy)
    /\ rp.registrationUV \in UserVerification
    /\ rp.authenticationUV \in UserVerification
    /\ rp.attestation \in AttestationConveyance
    /\ ~(rp.rejectCloneRisk /\ rp.updateOnCloneRisk)
    /\ Members(rp.algorithms) \subseteq rp.verifiable
    /\ RegistryValid(rp.registry)

\* RelyingParty.matchesOrigin.
MatchesOrigin(rp, state) ==
    state.rpId = rp.rpId /\ state.policy = rp.policy

-----------------------------------------------------------------------------
(***************************************************************************)
(* Ceremony state.                                                         *)
(***************************************************************************)

\* What a caller may ask of a ceremony beyond its user and credentials:
\*   inputs           extension inputs (see Extensions)
\*   appId            value of the appid input, None without one
\*   remote           remote client data, None without any
\*   largeBlobWrite   the largeBlob input asks for a write
NoExtensions ==
    [inputs |-> [id \in {} |-> TRUE], appId |-> None, remote |-> None,
     largeBlobWrite |-> FALSE]

\* RelyingParty.StartRegistration under a valid configuration fails only on
\* its extension inputs.
StartRegistrationAccepts(rp, request, challenge) ==
    /\ PrepareAccepts(request.inputs, rp.registry, rp.rejectUnknownInput)
    /\ RemoteClientDataAccepts(request.remote, None, rp.registry, challenge)

\* The RegistrationState of StartRegistration.
RegistrationState(rp, user, request, conditional, challenge, now) ==
    [challenge |-> challenge, rpId |-> rp.rpId, policy |-> rp.policy,
     conditional |-> conditional, user |-> user, uv |-> rp.registrationUV,
     requested |-> DOMAIN request.inputs, remote |-> request.remote,
     bindings |-> PreparedBindings(request.inputs, rp.registry),
     algorithms |-> rp.algorithms, attestation |-> rp.attestation,
     expires |-> now + rp.stateTTL]

\* RelyingParty.StartAuthentication, likewise.
StartAuthenticationAccepts(rp, request, allow, challenge) ==
    /\ PrepareAccepts(request.inputs, rp.registry, rp.rejectUnknownInput)
    /\ RemoteClientDataAccepts(request.remote, None, rp.registry, challenge)
    /\ LargeBlobContextValid(request.largeBlobWrite, Cardinality(allow))

\* The AuthenticationState of StartAuthentication.
AuthenticationState(rp, expected, allow, request, challenge, now) ==
    [challenge |-> challenge, rpId |-> rp.rpId, policy |-> rp.policy,
     uv |-> rp.authenticationUV, requested |-> DOMAIN request.inputs,
     remote |-> request.remote, appId |-> request.appId,
     largeBlobWrite |-> request.largeBlobWrite,
     bindings |-> PreparedBindings(request.inputs, rp.registry),
     allow |-> allow, expected |-> expected, expires |-> now + rp.stateTTL]

\* RegistrationState.Validate.
RegistrationStateValid(state) ==
    /\ OriginPolicyValid(state.policy)
    /\ RPIDOriginPolicyValid(state.rpId, state.policy)
    /\ state.user # None
    /\ state.algorithms # << >>
    /\ state.attestation \in AttestationConveyance
    /\ state.uv \in UserVerification
    /\ BindingStateValid(state.requested, state.bindings)

\* AuthenticationState.Validate.
AuthenticationStateValid(state) ==
    /\ OriginPolicyValid(state.policy)
    /\ RPIDOriginPolicyValid(state.rpId, state.policy)
    /\ state.uv \in UserVerification
    /\ BindingStateValid(state.requested, state.bindings)
    /\ LargeBlobContextValid(state.largeBlobWrite, Cardinality(state.allow))

-----------------------------------------------------------------------------
(***************************************************************************)
(* Checks shared by the two ceremonies.  Client data is a record           *)
(*   [parses, type, challenge, origin, crossOrigin, topOrigin];            *)
(* authenticator data is a record                                          *)
(*   [parses, rpIdHash, up, uv, be, bs, attested, extensionsDecode,        *)
(*    signCount].                                                          *)
(***************************************************************************)

\* validateRegistrationState and validateAuthenticationState without the
\* deadline.
NotExpiredIgnored(state, now) == TRUE

\* validateRegistrationState and validateAuthenticationState: the deadline
\* itself is already too late.
NotExpired(state, now) == now < state.expires

\* verifyClientData without the challenge.
ClientDataChecksAnyChallenge(clientData, type, state) ==
    << <<clientData.parses /\ clientData.type = type, "ErrMalformedResponse">>,
       <<ClientOriginAccepted(state.policy, clientData, None),
         "ErrOriginMismatch">> >>

\* verifyClientData.
ClientDataChecks(clientData, type, state) ==
    << <<clientData.parses, "ErrMalformedResponse">>,
       <<clientData.type = type, "ErrMalformedResponse">>,
       <<clientData.challenge = state.challenge, "ErrChallengeMismatch">>,
       <<ClientOriginAccepted(state.policy, clientData, None),
         "ErrOriginMismatch">> >>

-----------------------------------------------------------------------------
(***************************************************************************)
(* RelyingParty.FinishRegistration.  A response is a record                *)
(*   [wellFormed, rawId, clientData, authData, copyAgrees, credentialId,   *)
(*    key, alg, keyDecodes, claimedAlg, format, statementValid,            *)
(*    attestationType, attachment, clientOutputs, authenticatorOutputs,    *)
(*    failing].                                                            *)
(***************************************************************************)

\* The wrapper's comparison with the running configuration, then
\* validateRegistrationState and validateFinishExtensionBindings.
RegistrationStateChecks(rp, state, now) ==
    << <<MatchesOrigin(rp, state) /\ state.uv = rp.registrationUV
           /\ state.algorithms = rp.algorithms
           /\ state.attestation = rp.attestation, "ErrInvalidCeremonyState">>,
       <<NotExpired(state, now), "ErrCeremonyExpired">>,
       <<RegistrationStateValid(state), "ErrInvalidCeremonyState">>,
       <<FinishBindingsMatch(state.requested, state.bindings, rp.registry),
         "ErrInvalidConfiguration">> >>

\* verifyRegistrationAuthenticatorData.
RegistrationAuthDataChecks(state, authData) ==
    << <<authData.parses, "ErrMalformedResponse">>,
       <<authData.rpIdHash = Sha256(state.rpId), "ErrRPIDHashMismatch">>,
       <<state.conditional \/ authData.up, "ErrUserPresenceRequired">>,
       <<state.uv = "required" => authData.uv, "ErrUserVerificationRequired">>,
       <<authData.bs => authData.be, "ErrInvalidBackupState">>,
       <<authData.attested, "ErrMalformedResponse">> >>

\* The attested credential: identifier, decodeCredentialPublicKeyAndExtensions
\* and the algorithm the ceremony allowed.
AttestedCredentialChecks(state, response) ==
    << <<response.credentialId = response.rawId, "ErrMalformedResponse">>,
       <<response.keyDecodes /\ response.authData.extensionsDecode,
         "ErrMalformedResponse">>,
       <<response.alg \in Members(state.algorithms),
         "ErrUnsupportedAlgorithm">>,
       <<response.claimedAlg \in {None, response.alg},
         "ErrMalformedResponse">> >>

\* verifyRegistrationAttestation.  `statementValid' is the answer of the
\* format's verifier, `trusted' the trust policy's.
AttestationChecks(rp, response) ==
    << <<response.format \notin InvalidIDs, "ErrInvalidAttestation">>,
       <<response.format \in rp.formats, "ErrUnsupportedAttestationFormat">>,
       <<response.statementValid, "ErrInvalidAttestation">>,
       <<response.attestationType \in KnownAttestationType,
         "ErrInvalidAttestation">>,
       <<response.attestationType \in rp.trusted,
         "ErrRejectedAttestationPolicy">> >>

\* verifyRegistrationExtensions and verifyAuthenticationExtensions.
ExtensionChecks(rp, state, response) ==
    << <<RemoteClientDataBound(state.remote, None, state.bindings,
                               response.clientData), "ErrExtensionPolicy">>,
       <<ExtensionsVerify(state.requested,
             response.clientOutputs \cup response.authenticatorOutputs,
             response.failing, rp.registry, rp.outputPolicy),
         "ErrExtensionPolicy">> >>

\* The shape of the response, before its client data is parsed.
RegistrationShapeChecks(response) ==
    << <<response.wellFormed, "ErrMalformedResponse">>,
       <<ClientResultsValid(response.clientOutputs), "ErrExtensionPolicy">> >>

\* The attestation object decodes, and authenticator data that is reported
\* separately is the one in it.
AttestationObjectChecks(response) ==
    << <<response.copyAgrees, "ErrMalformedResponse">> >>

\* FinishRegistration returns no error.
FinishRegistrationAccepts(rp, state, response, now) ==
    /\ Passes(RegistrationStateChecks(rp, state, now))
    /\ Passes(RegistrationShapeChecks(response))
    /\ Passes(ClientDataChecks(response.clientData, "webauthn.create", state))
    /\ Passes(AttestationObjectChecks(response))
    /\ Passes(RegistrationAuthDataChecks(state, response.authData))
    /\ Passes(AttestedCredentialChecks(state, response))
    /\ Passes(AttestationChecks(rp, response))
    /\ Passes(ExtensionChecks(rp, state, response))

\* The error it returns otherwise.
FinishRegistrationError(rp, state, response, now) ==
    FirstError(RegistrationStateChecks(rp, state, now)
        \o RegistrationShapeChecks(response)
        \o ClientDataChecks(response.clientData, "webauthn.create", state)
        \o AttestationObjectChecks(response)
        \o RegistrationAuthDataChecks(state, response.authData)
        \o AttestedCredentialChecks(state, response)
        \o AttestationChecks(rp, response)
        \o ExtensionChecks(rp, state, response))

\* The CredentialRecord of a successful registration.
RegisteredCredential(state, response) ==
    [id |-> response.credentialId, user |-> state.user, rpId |-> state.rpId,
     key |-> response.key, alg |-> response.alg,
     signCount |-> response.authData.signCount,
     backupEligible |-> response.authData.be,
     backupState |-> response.authData.bs,
     uvInitialized |-> response.authData.uv,
     attachment |-> NormalizeAttachment(response.attachment),
     attestationType |-> response.attestationType]

-----------------------------------------------------------------------------
(***************************************************************************)
(* RelyingParty.FinishAuthentication.  A response is a record              *)
(*   [wellFormed, rawId, userHandle, clientData, authData, signature,      *)
(*    attachment, appIdUsed, clientOutputs, authenticatorOutputs,          *)
(*    failing];                                                            *)
(* `record' is the stored credential the caller looked up.                 *)
(***************************************************************************)

\* A signature is what was signed, and with which private key.
Signature(key, authData, clientData) ==
    [key |-> key, authData |-> authData, hash |-> Sha256(clientData)]

\* AuthenticationStateChecks without the comparison of user verification.
AuthenticationStateChecksAnyUV(rp, state, record, now) ==
    << <<MatchesOrigin(rp, state), "ErrInvalidCeremonyState">>,
       <<RecordValid(record), "ErrInvalidCredentialRecord">>,
       <<record.alg \in Members(rp.algorithms), "ErrUnsupportedAlgorithm">>,
       <<NotExpired(state, now), "ErrCeremonyExpired">>,
       <<AuthenticationStateValid(state), "ErrInvalidCeremonyState">>,
       <<FinishBindingsMatch(state.requested, state.bindings, rp.registry),
         "ErrInvalidConfiguration">> >>

\* The wrapper's checks, validateAuthenticationDependencies,
\* validateAuthenticationState and validateFinishExtensionBindings.
AuthenticationStateChecks(rp, state, record, now) ==
    << <<MatchesOrigin(rp, state) /\ state.uv = rp.authenticationUV,
         "ErrInvalidCeremonyState">>,
       <<RecordValid(record), "ErrInvalidCredentialRecord">>,
       <<record.alg \in Members(rp.algorithms), "ErrUnsupportedAlgorithm">>,
       <<NotExpired(state, now), "ErrCeremonyExpired">>,
       <<AuthenticationStateValid(state), "ErrInvalidCeremonyState">>,
       <<FinishBindingsMatch(state.requested, state.bindings, rp.registry),
         "ErrInvalidConfiguration">> >>

\* verifyAuthenticationCredentialBinding.
CredentialBindingChecks(state, response, record) ==
    << <<record.rpId = state.rpId, "ErrCredentialRPIDMismatch">>,
       <<record.id = response.rawId, "ErrCredentialNotAllowed">>,
       <<state.allow # {} => response.rawId \in state.allow,
         "ErrCredentialNotAllowed">> >>

\* verifyAuthenticationUserBinding that, for a named user, does not look at
\* the handle of the response.
UserBindingChecksNoHandle(state, response, record) ==
    IF state.expected # None
    THEN << <<record.user = state.expected, "ErrCredentialOwnershipMismatch">> >>
    ELSE << <<response.userHandle # None, "ErrUserHandleRequired">>,
            <<response.userHandle = record.user,
              "ErrCredentialOwnershipMismatch">> >>

\* verifyAuthenticationUserBinding: a named user decides; otherwise the
\* response must name the owner itself.
UserBindingChecks(state, response, record) ==
    IF state.expected # None
    THEN << <<record.user = state.expected, "ErrCredentialOwnershipMismatch">>,
            <<response.userHandle \in {None, state.expected},
              "ErrCredentialOwnershipMismatch">> >>
    ELSE << <<response.userHandle # None, "ErrUserHandleRequired">>,
            <<response.userHandle = record.user,
              "ErrCredentialOwnershipMismatch">> >>

\* expectedAuthenticationRPIDHash that honours the configured application
\* identifier whether or not the ceremony asked for it.
RPIDHashAcceptedUnrequested(rp, state, response) ==
    response.authData.rpIdHash =
        IF response.appIdUsed THEN Sha256(rp.appId) ELSE Sha256(state.rpId)

\* expectedAuthenticationRPIDHash: a response that used appid carries the
\* hash of the application identifier that was requested and is configured.
RPIDHashAccepted(rp, state, response) ==
    IF response.appIdUsed
    THEN /\ state.appId # None
         /\ state.appId = rp.appId
         /\ response.authData.rpIdHash = Sha256(state.appId)
    ELSE response.authData.rpIdHash = Sha256(state.rpId)

\* verifyAuthenticationAuthenticatorData and decodeAuthenticationExtensions.
AuthenticationAuthDataChecks(rp, state, response, record) ==
    LET authData == response.authData IN
    << <<authData.parses /\ ~authData.attested, "ErrMalformedResponse">>,
       <<RPIDHashAccepted(rp, state, response), "ErrRPIDHashMismatch">>,
       <<authData.up, "ErrUserPresenceRequired">>,
       <<state.uv = "required" => authData.uv, "ErrUserVerificationRequired">>,
       <<authData.bs => authData.be, "ErrInvalidBackupState">>,
       <<authData.be = record.backupEligible, "ErrBackupEligibilityMismatch">>,
       <<authData.extensionsDecode, "ErrMalformedResponse">> >>

\* The algorithm policy, verifyAuthenticationSignature and the counter
\* policy.
AssertionChecks(rp, response, record) ==
    << <<record.alg \in rp.verifiable, "ErrUnsupportedAlgorithm">>,
       <<response.signature =
             Signature(record.key, response.authData, response.clientData),
         "ErrInvalidSignature">>,
       <<rp.rejectCloneRisk =>
             ~CloneRisk(record.signCount, response.authData.signCount),
         "ErrCloneRisk">> >>

\* The shape of the response.
AuthenticationShapeChecks(response) ==
    << <<response.wellFormed, "ErrMalformedResponse">>,
       <<ClientResultsValid(response.clientOutputs), "ErrExtensionPolicy">> >>

\* FinishAuthentication returns no error.
FinishAuthenticationAccepts(rp, state, response, record, now) ==
    /\ Passes(AuthenticationStateChecks(rp, state, record, now))
    /\ Passes(AuthenticationShapeChecks(response))
    /\ Passes(CredentialBindingChecks(state, response, record))
    /\ Passes(UserBindingChecks(state, response, record))
    /\ Passes(ClientDataChecks(response.clientData, "webauthn.get", state))
    /\ Passes(AuthenticationAuthDataChecks(rp, state, response, record))
    /\ Passes(AssertionChecks(rp, response, record))
    /\ Passes(ExtensionChecks(rp, state, response))

\* The error it returns otherwise.
FinishAuthenticationError(rp, state, response, record, now) ==
    FirstError(AuthenticationStateChecks(rp, state, record, now)
        \o AuthenticationShapeChecks(response)
        \o CredentialBindingChecks(state, response, record)
        \o UserBindingChecks(state, response, record)
        \o ClientDataChecks(response.clientData, "webauthn.get", state)
        \o AuthenticationAuthDataChecks(rp, state, response, record)
        \o AssertionChecks(rp, response, record)
        \o ExtensionChecks(rp, state, response))
=============================================================================
