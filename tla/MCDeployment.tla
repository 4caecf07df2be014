---------------------------- MODULE MCDeployment ----------------------------
(***************************************************************************)
(* An instance of Deployment: configurations that differ from a base one   *)
(* in one respect each, and responses that differ from a genuine one in    *)
(* one or two fields each.                                                 *)
(***************************************************************************)
EXTENDS Deployment, TLC

CONSTANTS alice, bob, phone, token, phoneKey, tokenKey, c1, c2, app

Example == <<"example", "com">>
Login == <<"login", "example", "com">>
Lookalike == <<"notexample", "com">>
Localhost == <<"localhost">>
Address == <<"127", "0", "0", "1">>

MCRPIDs == {Example, Localhost, Address}
MCIPHosts == {Address}
MCLoopbackHosts == {Localhost, Address}
MCInvalidIDs == {"a b"}

Https(host) == [scheme |-> "https", host |-> host, port |-> 0, canonical |-> TRUE]

Policy(origins) ==
    [origins |-> origins, topOrigins |-> <<Https(Lookalike)>>, related |-> FALSE,
     crossOriginWithoutTop |-> FALSE]

\* All built-in handlers and one of the application's own.
Handlers(revision) == BuiltInBinding @@ ("custom" :> revision)
Registry(handlers) == [nil |-> FALSE, handlers |-> handlers]

Base ==
    [rpId |-> Example, policy |-> Policy(<<Https(Example), Https(Login)>>),
     algorithms |-> <<"ES256", "RS256">>, registrationUV |-> "required",
     authenticationUV |-> "required", attestation |-> "none",
     formats |-> {"none"}, trusted |-> {"none"}, verifiable |-> {"ES256", "RS256"},
     registry |-> Registry(Handlers("v1")), rejectUnknownInput |-> FALSE,
     outputPolicy |-> [rejectUnknown |-> FALSE, rejectUnrequested |-> FALSE],
     appId |-> app, rejectCloneRisk |-> TRUE, updateOnCloneRisk |-> FALSE,
     stateTTL |-> 1]

MCConfigurations ==
    {Base,
     [Base EXCEPT !.registrationUV = "preferred", !.authenticationUV = "preferred"],
     [Base EXCEPT !.registry = Registry(Handlers("v2"))],
     [Base EXCEPT !.registry = Registry(BuiltInBinding)],
     [Base EXCEPT !.registry = Registry("custom" :> "v1")],
     [Base EXCEPT !.registry = NilRegistry],
     [Base EXCEPT !.algorithms = <<"ES256">>, !.appId = None],
     [Base EXCEPT !.outputPolicy = [rejectUnknown |-> TRUE, rejectUnrequested |-> TRUE],
                  !.rejectUnknownInput = TRUE],
     [Base EXCEPT !.policy.related = TRUE,
                  !.policy.origins = <<Https(Lookalike)>>],
     [Base EXCEPT !.rpId = Localhost,
                  !.policy = Policy(<<[scheme |-> "http", host |-> Localhost,
                                       port |-> 8080, canonical |-> TRUE]>>)],
     \* These four New refuses: an origin out of scope, plain http, an address
     \* as identifier, a reserved extension under another revision.
     [Base EXCEPT !.policy = Policy(<<Https(Lookalike)>>)],
     [Base EXCEPT !.policy = Policy(<<[Https(Example) EXCEPT !.scheme = "http"]>>)],
     [Base EXCEPT !.rpId = Address, !.policy = Policy(<<Https(Address)>>)],
     [Base EXCEPT !.registry = Registry("credProps" :> "v1")]}

ClientData(type, challenge) ==
    [parses |-> TRUE, type |-> type, challenge |-> challenge,
     origin |-> Https(Example), crossOrigin |-> FALSE, topOrigin |-> None]

AuthData(attested) ==
    [parses |-> TRUE, rpIdHash |-> Sha256(Example), up |-> TRUE, uv |-> TRUE,
     be |-> TRUE, bs |-> FALSE, attested |-> attested,
     extensionsDecode |-> TRUE, signCount |-> 1]

\* One extension each, and none.
Asks(id, valid) == [NoExtensions EXCEPT !.inputs = (id :> valid)]

MCExtended ==
    {NoExtensions, Asks("custom", TRUE), Asks("custom", FALSE),
     Asks("credProps", TRUE), Asks("a b", TRUE),
     [Asks("appid", TRUE) EXCEPT !.appId = app],
     [Asks("largeBlob", TRUE) EXCEPT !.largeBlobWrite = TRUE]}
    \cup {[Asks("remoteClientDataJSON", TRUE) EXCEPT
              !.remote = ClientData("webauthn.get", challenge)] : challenge \in {c1, c2}}

-----------------------------------------------------------------------------

Genuine ==
    [wellFormed |-> TRUE, rawId |-> phone,
     clientData |-> ClientData("webauthn.create", c1),
     authData |-> AuthData(TRUE), copyAgrees |-> TRUE, credentialId |-> phone,
     key |-> phoneKey, alg |-> "RS256", keyDecodes |-> TRUE, claimedAlg |-> None,
     format |-> "none", statementValid |-> TRUE, attestationType |-> "none",
     attachment |-> "platform", clientOutputs |-> {},
     authenticatorOutputs |-> {}, failing |-> {}]

MCRegistrations ==
    {Genuine,
     [Genuine EXCEPT !.clientData.challenge = c2],
     [Genuine EXCEPT !.clientData.origin = Https(Login)],
     [Genuine EXCEPT !.clientData.origin = Https(Lookalike)],
     [Genuine EXCEPT !.clientData.crossOrigin = TRUE],
     [Genuine EXCEPT !.clientData.crossOrigin = TRUE,
                     !.clientData.topOrigin = Https(Lookalike)],
     [Genuine EXCEPT !.authData.uv = FALSE],
     [Genuine EXCEPT !.authData.rpIdHash = Sha256(app)],
     [Genuine EXCEPT !.claimedAlg = "ES256"],
     [Genuine EXCEPT !.alg = "EdDSA"],
     [Genuine EXCEPT !.format = "packed"],
     [Genuine EXCEPT !.attestationType = "self"],
     [Genuine EXCEPT !.clientOutputs = {"custom"}],
     [Genuine EXCEPT !.clientOutputs = {"custom"}, !.failing = {"custom"}],
     [Genuine EXCEPT !.clientOutputs = {"a b"}],
     [Genuine EXCEPT !.authenticatorOutputs = {"credProps"}]}

Unsigned ==
    [wellFormed |-> TRUE, rawId |-> phone, userHandle |-> alice,
     clientData |-> ClientData("webauthn.get", c1), authData |-> AuthData(FALSE),
     attachment |-> "", appIdUsed |-> FALSE, clientOutputs |-> {},
     authenticatorOutputs |-> {}, failing |-> {}, signature |-> None]

\* Every variant is signed with the key of the credential it names ...
Signed(key, a) ==
    [a EXCEPT !.signature = Signature(key, a.authData, a.clientData)]

AppIdUsed(a) ==
    [a EXCEPT !.appIdUsed = TRUE, !.clientOutputs = {"appid"},
              !.authData.rpIdHash = Sha256(app)]

MCAssertions ==
    {Signed(phoneKey, a) : a \in
        {Unsigned,
         [Unsigned EXCEPT !.userHandle = None],
         [Unsigned EXCEPT !.userHandle = bob],
         [Unsigned EXCEPT !.clientData.challenge = c2],
         [Unsigned EXCEPT !.clientData.origin = Https(Login)],
         [Unsigned EXCEPT !.clientData.origin = Https(Lookalike)],
         [Unsigned EXCEPT !.authData.uv = FALSE],
         AppIdUsed(Unsigned),
         [AppIdUsed(Unsigned) EXCEPT !.appIdUsed = FALSE],
         [AppIdUsed(Unsigned) EXCEPT !.authData.rpIdHash = Sha256(Example)],
         [Unsigned EXCEPT !.clientOutputs = {"custom"}],
         [Unsigned EXCEPT !.authenticatorOutputs = {"custom"}, !.failing = {"custom"}]}}
    \cup {Signed(tokenKey, [Unsigned EXCEPT !.rawId = token, !.userHandle = bob])}
    \* ... but for one signed with somebody else's.
    \cup {Signed(tokenKey, Unsigned)}

Record(credential, user, key, alg) ==
    [id |-> credential, user |-> user, rpId |-> Example, key |-> key,
     alg |-> alg, signCount |-> 0, backupEligible |-> TRUE,
     backupState |-> FALSE, uvInitialized |-> TRUE, attachment |-> "",
     attestationType |-> "none"]

MCStored == {Record(phone, alice, phoneKey, "RS256"), Record(token, bob, tokenKey, "ES256")}
=============================================================================
