----------------------------- MODULE MCResponses -----------------------------
(***************************************************************************)
(* Accounts, authenticators and responses for the instances of the         *)
(* applications: the configuration of preset.PasskeyConfig for one origin, *)
(* and responses that pass the checks of Ceremony unless a field is        *)
(* changed.                                                                *)
(***************************************************************************)
EXTENDS Ceremony

CONSTANTS alice, bob, phone, token, laptop, phoneKey, tokenKey, otherKey

Example == <<"example", "com">>

ExampleOrigin ==
    [scheme |-> "https", host |-> Example, port |-> 0, canonical |-> TRUE]

\* preset.PasskeyConfig; the time to live is chosen per instance.
PasskeyConfig(ttl) ==
    [rpId |-> Example,
     policy |-> [origins |-> <<ExampleOrigin>>, topOrigins |-> << >>,
                 related |-> FALSE, crossOriginWithoutTop |-> FALSE],
     algorithms |-> <<"ES256">>, registrationUV |-> "required",
     authenticationUV |-> "required", attestation |-> "none",
     formats |-> {"none"}, trusted |-> {"none"}, verifiable |-> {"ES256"},
     registry |-> [nil |-> FALSE, handlers |-> BuiltInBinding],
     rejectUnknownInput |-> FALSE,
     outputPolicy |-> [rejectUnknown |-> FALSE, rejectUnrequested |-> FALSE],
     appId |-> None, rejectCloneRisk |-> FALSE, updateOnCloneRisk |-> FALSE,
     stateTTL |-> ttl]

RP1 == PasskeyConfig(1)
RP2 == PasskeyConfig(2)

NoInvalidIDs == {}
NoResponses == {}
ExampleRPIDs == {Example}
NoIPHosts == {}
NoLoopbackHosts == {}

ClientData(type, challenge) ==
    [parses |-> TRUE, type |-> type, challenge |-> challenge,
     origin |-> ExampleOrigin, crossOrigin |-> FALSE, topOrigin |-> None]

AuthData(attested, count, uv) ==
    [parses |-> TRUE, rpIdHash |-> Sha256(Example), up |-> TRUE, uv |-> uv,
     be |-> FALSE, bs |-> FALSE, attested |-> attested,
     extensionsDecode |-> TRUE, signCount |-> count]

Registration(credential, key, challenge, attachment) ==
    [wellFormed |-> TRUE, rawId |-> credential,
     clientData |-> ClientData("webauthn.create", challenge),
     authData |-> AuthData(TRUE, 0, TRUE), copyAgrees |-> TRUE,
     credentialId |-> credential, key |-> key, alg |-> "ES256",
     keyDecodes |-> TRUE, claimedAlg |-> None, format |-> "none",
     statementValid |-> TRUE, attestationType |-> "none",
     attachment |-> attachment, clientOutputs |-> {},
     authenticatorOutputs |-> {}, failing |-> {}]

Assertion(credential, handle, challenge, key, count) ==
    LET clientData == ClientData("webauthn.get", challenge)
        authData == AuthData(FALSE, count, TRUE)
    IN  [wellFormed |-> TRUE, rawId |-> credential, userHandle |-> handle,
         clientData |-> clientData, authData |-> authData,
         signature |-> Signature(key, authData, clientData),
         attachment |-> "platform", appIdUsed |-> FALSE, clientOutputs |-> {},
         authenticatorOutputs |-> {}, failing |-> {}]

Record(credential, user, key, count, initialized) ==
    [id |-> credential, user |-> user, rpId |-> Example, key |-> key,
     alg |-> "ES256", signCount |-> count, backupEligible |-> FALSE,
     backupState |-> FALSE, uvInitialized |-> initialized, attachment |-> "",
     attestationType |-> "none"]
=============================================================================
