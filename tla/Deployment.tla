------------------------------ MODULE Deployment ------------------------------
(***************************************************************************)
(* A ceremony that outlives a deployment.  The library keeps no state: a   *)
(* ceremony is started by a process running one configuration, its state   *)
(* travels through the application's store, and it is finished by a        *)
(* process that may run another one.  During a rolling deployment both run *)
(* at once; which one serves the next request is what Deploy changes.      *)
(*                                                                         *)
(* The clock stands still here (see Integration for expiry).               *)
(***************************************************************************)
EXTENDS Ceremony

CONSTANTS
    Configurations,   \* configurations an operator may try to deploy
    Extended,         \* extension requests of callers (see Ceremony)
    Challenges,       \* challenges that are generated
    User,             \* the account that registers
    Stored,           \* stored credentials that may be asserted
    Registrations,    \* registration responses
    Assertions        \* assertions

\* A configured host is a list of labels, and no configuration is left without
\* an algorithm: registrationCredentialParameters fills in the defaults.
ASSUME ConfigurationsAssumption ==
    \A config \in Configurations :
        /\ config.algorithms # << >>
        /\ \A origin \in Members(config.policy.origins) : origin.host \in Seq(STRING)

\* UserEntity.Validate: a user handle is never empty.
ASSUME UserAssumption == User # None

\* Whether appid was used is what the client output of that name says.
ASSUME AssertionsAssumption ==
    \A response \in Assertions :
        response.appIdUsed => "appid" \in response.clientOutputs

VARIABLES
    running,    \* the configuration of the process that serves requests
    ceremony,   \* the stored ceremony, or Nothing
    verdict     \* what the last Finish saw and answered, or Nothing

vars == <<running, ceremony, verdict>>

Nothing == [kind |-> "nothing"]

\* New accepts the configuration before the process serves anything.
Deploy(config) ==
    /\ ConfigValid(config)
    /\ running' = config
    /\ verdict' = Nothing
    /\ UNCHANGED ceremony

StartRegistration(request, conditional, challenge) ==
    /\ StartRegistrationAccepts(running, request, challenge)
    /\ ceremony' = [kind |-> "registration", startedBy |-> running,
                    state |-> RegistrationState(running, User, request,
                                                conditional, challenge, 0)]
    /\ verdict' = Nothing
    /\ UNCHANGED running

StartAuthentication(request, expected, allow, challenge) ==
    /\ StartAuthenticationAccepts(running, request, allow, challenge)
    /\ ceremony' = [kind |-> "authentication", startedBy |-> running,
                    state |-> AuthenticationState(running, expected, allow,
                                                  request, challenge, 0)]
    /\ verdict' = Nothing
    /\ UNCHANGED running

\* What a Finish answers: the outcome and the extensions it interpreted.
Verdict(kind, response, record, accepts, error) ==
    [kind |-> kind, config |-> running, state |-> ceremony.state,
     startedBy |-> ceremony.startedBy, response |-> response, record |-> record,
     outcome |-> IF accepts THEN "ok" ELSE error,
     interpreted |->
        IF accepts
        THEN ExtensionResults(ceremony.state.requested,
                 response.clientOutputs \cup response.authenticatorOutputs,
                 running.registry, running.outputPolicy)
        ELSE NoBindings]

FinishRegistration(response) ==
    /\ ceremony.kind = "registration"
    /\ verdict' =
         Verdict("registration", response,
                 RegisteredCredential(ceremony.state, response),
                 FinishRegistrationAccepts(running, ceremony.state, response, 0),
                 FinishRegistrationError(running, ceremony.state, response, 0))
    /\ UNCHANGED <<running, ceremony>>

FinishAuthentication(response, record) ==
    /\ ceremony.kind = "authentication"
    /\ verdict' =
         Verdict("authentication", response, record,
             FinishAuthenticationAccepts(running, ceremony.state, response, record, 0),
             FinishAuthenticationError(running, ceremony.state, response, record, 0))
    /\ UNCHANGED <<running, ceremony>>

Init ==
    /\ running \in {config \in Configurations : ConfigValid(config)}
    /\ ceremony = Nothing
    /\ verdict = Nothing

Next ==
    \/ \E config \in Configurations : Deploy(config)
    \/ \E request \in Extended, challenge \in Challenges :
           \/ \E conditional \in BOOLEAN :
                  StartRegistration(request, conditional, challenge)
           \/ \E record \in Stored :
                  \/ StartAuthentication(request, record.user, {record.id}, challenge)
                  \/ StartAuthentication(request, None, {}, challenge)
    \/ \E response \in Registrations : FinishRegistration(response)
    \/ \E response \in Assertions, record \in Stored :
           FinishAuthentication(response, record)

Spec == Init /\ [][Next]_vars

-----------------------------------------------------------------------------

Accepted == verdict # Nothing /\ verdict.outcome = "ok"

\* The client data of an accepted response came from an origin that both the
\* configuration that started the ceremony and the one that finishes it allow,
\* and unless related origins are enabled that origin lies within the relying
\* party identifier both of them use (matchesOrigin, validateRPIDOriginPolicy,
\* verifyCollectedClientOrigin).
AcceptedOriginInScope ==
    Accepted =>
        LET origin == verdict.response.clientData.origin IN
        /\ verdict.config.rpId = verdict.startedBy.rpId
        /\ origin \in Members(verdict.config.policy.origins)
        /\ origin \in Members(verdict.startedBy.policy.origins)
        /\ verdict.config.policy.related
             \/ \E n \in 0 .. Len(origin.host) :
                    origin.host = SubSeq(origin.host, 1, n) \o verdict.config.rpId
        /\ origin.scheme = "https" \/ origin.host \in LoopbackHosts

\* User verification that either configuration requires was performed, and the
\* credential's algorithm is one that both of them accept at the moment they
\* use it: a deployment never weakens a ceremony that is under way
\* (FinishRegistration, FinishAuthentication of RelyingParty).
DeploymentNeverWeakens ==
    Accepted =>
        LET uv(config) == IF verdict.kind = "registration"
                          THEN config.registrationUV ELSE config.authenticationUV
        IN  /\ "required" \in {uv(verdict.config), uv(verdict.startedBy)}
                   => verdict.response.authData.uv
            /\ verdict.record.alg \in Members(verdict.config.algorithms)
            /\ verdict.kind = "registration" =>
                   verdict.record.alg \in Members(verdict.startedBy.algorithms)

\* An extension output is interpreted only by the handler revision that
\* normalised the input when the ceremony started; an extension that had no
\* handler then is never interpreted (validateFinishExtensionBindings,
\* verifyExtension).
InterpretedAsNormalised ==
    Accepted =>
        \A id \in DOMAIN verdict.interpreted :
            /\ id \in verdict.state.requested
            /\ id \in DOMAIN verdict.startedBy.registry.handlers
            /\ verdict.interpreted[id] = verdict.startedBy.registry.handlers[id]

\* A process never rejects, for its state or its configuration, a ceremony
\* that a process with the same configuration started: what Start writes, the
\* validation at Finish accepts (Validate, prepareExtensionInputs,
\* validateExtensionBindingState, validateFinishExtensionBindings).
SameConfigurationAgrees ==
    (verdict # Nothing /\ verdict.config = verdict.startedBy) =>
        verdict.outcome \notin {"ErrInvalidCeremonyState", "ErrInvalidConfiguration"}

\* An authenticator that answered for an application identifier instead of the
\* relying party identifier is accepted only when the ceremony asked for that
\* very identifier, the finishing configuration honours it and the client says
\* it used it (expectedAuthenticationRPIDHash).
AppIdOnlyWhenRequested ==
    (Accepted /\ verdict.response.authData.rpIdHash # Sha256(verdict.config.rpId)) =>
        /\ verdict.kind = "authentication"
        /\ verdict.state.appId # None
        /\ verdict.config.appId = verdict.state.appId
        /\ verdict.response.authData.rpIdHash = Sha256(verdict.state.appId)
        /\ "appid" \in verdict.response.clientOutputs

\* An assertion accepted in a login for a named user is by a credential of that
\* user, and the record a registration returns is for the user it was started
\* for; a discoverable login is by the owner the response itself names
\* (verifyAuthenticationUserBinding, FinishRegistration).
AcceptedUserBound ==
    Accepted =>
        IF verdict.kind = "registration" THEN verdict.record.user = verdict.state.user
        ELSE /\ verdict.response.userHandle \in {None, verdict.record.user}
             /\ verdict.state.expected \in {None, verdict.record.user}
             /\ {verdict.response.userHandle, verdict.state.expected} # {None}
=============================================================================
