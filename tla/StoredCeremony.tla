--------------------------- MODULE StoredCeremony ---------------------------
(***************************************************************************)
(* A ceremony that outlives the process that started it: its extension     *)
(* inputs are normalised at start, the state is saved as an envelope, the  *)
(* process may end, the state is loaded again, by the right call or by the *)
(* call for another kind, and the browser's extension outputs, which come  *)
(* as JSON, are verified against what was loaded. The store may also hold  *)
(* what someone else wrote. Credential records pass through the same       *)
(* store.                                                                  *)
(***************************************************************************)
EXTENDS StorageJSON, BrowserJSON

CONSTANTS
    Requests,        \* what callers start: [operation, inputs, allow, user,
                     \* timeout, ttl], with both durations in Units
    Records,         \* credential records callers save
    Foreign,         \* envelopes this version of the library did not write
    Responses,       \* [operation, selected, client, authenticator, clientData,
                     \* at]: the client outputs as JSON, the time of the finish
    Registry,        \* the extension registry, before and after
    RejectUnknown,   \* ExtensionInputPolicy
    Policy,          \* extension output policy
    Challenge,
    Units,                   \* units of time in a millisecond
    DefaultBrowserTimeout,   \* in units
    DefaultChallengeTTL,     \* in units
    MaxMilliseconds          \* 2^32 - 1 in the code

VARIABLES
    item,       \* the state or record in memory, or Absent
    store,      \* the envelope in the store, or Absent
    outcome,    \* [request, response, results] of a finish, or Absent
    asked,      \* history: the request behind item
    saved,      \* history: the item and the request behind store, or Absent
    loadFailed  \* history: an envelope this process saved did not load

vars == <<item, store, outcome, asked, saved, loadFailed>>

Operation(kind) ==
    IF kind = "registration-state" THEN "registration" ELSE "authentication"

Kind(operation) ==
    IF operation = "registration" THEN "registration-state" ELSE "authentication-state"

\* timeoutState without the comparison of the two durations.
TimeoutStateUnrelated(timeout, stateTTL) ==
    LET browser == IF timeout = 0 THEN DefaultBrowserTimeout ELSE timeout
        ttl == IF stateTTL = 0 THEN DefaultChallengeTTL ELSE stateTTL
        milliseconds == Max({1, browser \div Units})
    IN  IF timeout >= 0 /\ stateTTL >= 0 /\ milliseconds <= MaxMilliseconds
        THEN [milliseconds |-> milliseconds, ttl |-> ttl] ELSE Invalid

\* timeoutState: the timeout the browser is told, which is rounded to whole
\* milliseconds but never to none, and the lifetime of the state.
TimeoutState(timeout, stateTTL) ==
    LET browser == IF timeout = 0 THEN DefaultBrowserTimeout ELSE timeout
        ttl == IF stateTTL = 0 THEN DefaultChallengeTTL ELSE stateTTL
        milliseconds == Max({1, browser \div Units})
    IN  IF timeout >= 0 /\ stateTTL >= 0 /\ ttl >= browser /\ milliseconds <= MaxMilliseconds
        THEN [milliseconds |-> milliseconds, ttl |-> ttl] ELSE Invalid

Texts(allow) == [i \in DOMAIN allow |-> CredentialText[allow[i]]]

-----------------------------------------------------------------------------
(***************************************************************************)
(* Extension inputs at start, and outputs at finish.                       *)
(***************************************************************************)

\* attachAllowedCredentialIDsToPRFInput, the only input transformation.
Transform(operation, id, value, allow) ==
    IF operation = "authentication" /\ id = "prf"
    THEN PRFInputWithCredentials(value, Texts(allow)) ELSE value

\* The input prepareExtensionInputs puts into the state, or Invalid.
Prepared(request, id) ==
    LET value == Transform(request.operation, id, request.inputs[id], request.allow) IN
    IF ~Clones(request.inputs[id]) \/ value = Invalid THEN Invalid
    ELSE IF id \notin DOMAIN Registry.handlers THEN value
    ELSE IF Clones(value) THEN ValidateInput(request.operation, id, value) ELSE Invalid

PreparedInputs(request) == [id \in DOMAIN request.inputs |-> Prepared(request, id)]

\* Remote client data among the inputs.
Remote(inputs) ==
    IF "remoteClientDataJSON" \in DOMAIN inputs
    THEN LET text == inputs["remoteClientDataJSON"][2] IN
         [parses |-> TRUE, challenge |-> ClientData[text].challenge, text |-> text]
    ELSE Absent

\* StartRegistration and StartAuthentication, as far as extensions and times decide.
StartAccepts(request) ==
    LET inputs == PreparedInputs(request) IN
    /\ PrepareAccepts([id \in DOMAIN inputs |-> inputs[id] # Invalid], Registry, RejectUnknown)
    /\ \A id \in DOMAIN inputs : inputs[id] # Invalid
    /\ TimeoutState(request.timeout, request.ttl) # Invalid
    /\ RemoteClientDataAccepts(Remote(inputs), Absent, Registry, Challenge)
    /\ (request.operation = "authentication" /\ "largeBlob" \in DOMAIN inputs) =>
           LargeBlobContextValid(inputs["largeBlob"][2].write # Absent, Len(request.allow))

\* The ceremony state; every ceremony starts at time 0.
Started(request) ==
    [kind |-> Kind(request.operation), challenge |-> Challenge, user |-> request.user,
     expires |-> TimeoutState(request.timeout, request.ttl).ttl, inputs |-> PreparedInputs(request),
     bindings |-> PreparedBindings(request.inputs, Registry), allow |-> request.allow,
     rest |-> [valid |-> TRUE]]

\* Only the built-in handlers are modelled.
ASSUME RegistryAssumption == DOMAIN Registry.handlers \subseteq DOMAIN BuiltInBinding

\* Inputs, and what is put into the state for them, are values.
ASSUME RequestsAssumption ==
    \A request \in Requests :
        /\ request.operation \in {"registration", "authentication"}
        /\ request.allow \in Seq(DOMAIN CredentialText)
        /\ IsFiniteSet(DOMAIN request.inputs) /\ DOMAIN request.inputs \subseteq DOMAIN Size
        /\ \A id \in DOMAIN request.inputs :
               /\ request.inputs[id] \in Values
               /\ Prepared(request, id) \in Values \cup {Invalid}

\* The caller's decoder reads the keys of the caller's records.
ASSUME RecordsAssumption ==
    \A record \in Records :
        record.kind = "credential-record" /\ record.key \in DecodableKeys \cup {Absent}

ASSUME ForeignAssumption ==
    \A envelope \in Foreign : \A kind \in DOMAIN envelope.payloads \cap States :
        LET inputs == envelope.payloads[kind].inputs IN
        /\ IsFiniteSet(DOMAIN inputs) /\ DOMAIN inputs \subseteq DOMAIN Size
        /\ \A id \in DOMAIN inputs : inputs[id] \in EncodedValues

OutputOf(outputs, id) == IF id \in DOMAIN outputs THEN outputs[id] ELSE Absent

\* A requested extension with a handler; any other is kept raw.
Handled(state, id) == id \in DOMAIN state.inputs /\ id \in DOMAIN Registry.handlers

\* The input as verifyExtension passes it on, and whether it can.
ClientInput(state, id) ==
    IF id \in DOMAIN state.inputs
    THEN Transform(Operation(state.kind), id, state.inputs[id], state.allow) ELSE Absent

InputFails(state, id) ==
    /\ id \in DOMAIN state.inputs
    /\ ClientInput(state, id) = Invalid \/ ~Clones(ClientInput(state, id))

\* PreserveRaw: the input, if there was one, and the outputs as they came.
PreserveRaw(state, response, client, id) ==
    [accepted |-> FALSE,
     output |-> [requested |-> id \in DOMAIN state.inputs, input |-> ClientInput(state, id),
                 client |-> OutputOf(client, id),
                 authenticator |-> OutputOf(response.authenticator, id)]]

\* verifyExtension after the policy on outputs.
Verified(state, response, client, id) ==
    IF ~Handled(state, id) THEN PreserveRaw(state, response, client, id)
    ELSE IF InputFails(state, id) THEN Invalid
    ELSE HandlerVerifies(id,
             [operation |-> Operation(state.kind), input |-> ClientInput(state, id),
              selected |-> response.selected, client |-> OutputOf(client, id),
              authenticator |-> OutputOf(response.authenticator, id)])

Client(response) == ClientExtensionResultsFromJSON(response.client)

Outputs(response) == DOMAIN Client(response) \cup DOMAIN response.authenticator

\* verifyExtensions: a result for whatever was requested or came back.
VerifyExtensions(state, response) ==
    [id \in DOMAIN state.inputs \cup Outputs(response) |->
        Verified(state, response, Client(response), id)]

\* The identifiers for which verifyExtension returns an error.
Failing(state, response) ==
    {id \in DOMAIN state.inputs \cup Outputs(response) :
        \/ InputFails(state, id)
        \/ Handled(state, id) /\ Verified(state, response, Client(response), id) = Invalid}

\* The checks of FinishRegistration and FinishAuthentication, as far as extensions
\* and times decide; an error for one extension is an error for all.
Accepts(state, response, client, failing) ==
    LET requested == DOMAIN state.inputs
        remote == Remote(state.inputs)
    IN  /\ client # Invalid
        /\ Validates(state)
        /\ response.at < state.expires
        /\ FinishBindingsMatch(requested, state.bindings, Registry)
        /\ state.allow # <<>> => \E i \in DOMAIN state.allow : state.allow[i] = response.selected
        /\ remote # Absent => response.clientData = remote.text
        /\ ClientResultsValid(DOMAIN client)
        /\ \A id \in DOMAIN response.authenticator : Clones(response.authenticator[id])
        /\ ExtensionsVerify(requested, Outputs(response), failing, Registry, Policy)
        /\ failing = {}

FinishAccepts(state, response) ==
    Accepts(state, response, Client(response), Failing(state, response))

\* The extension results of a finish, or Invalid.
Results(state, response) ==
    IF FinishAccepts(state, response) THEN VerifyExtensions(state, response) ELSE Invalid

-----------------------------------------------------------------------------

Start(request) ==
    /\ item = Absent /\ store = Absent /\ outcome = Absent
    /\ StartAccepts(request)
    /\ item' = Started(request)
    /\ asked' = request
    /\ UNCHANGED <<store, outcome, saved, loadFailed>>

\* A record made by a registration, in memory.
Register(record) ==
    /\ item = Absent /\ store = Absent /\ outcome = Absent
    /\ item' = record
    /\ asked' = Absent
    /\ UNCHANGED <<store, outcome, saved, loadFailed>>

\* Marshal...; nothing is stored when it fails.
Save ==
    /\ item # Absent /\ store = Absent
    /\ Marshals(item)
    /\ store' = Envelope(item)
    /\ saved' = [item |-> item, request |-> asked]
    /\ UNCHANGED <<item, outcome, asked, loadFailed>>

\* The store holds an envelope of unknown origin.
Arrive(envelope) ==
    /\ item = Absent /\ store = Absent /\ outcome = Absent
    /\ store' = envelope
    /\ saved' = Absent
    /\ UNCHANGED <<item, outcome, asked, loadFailed>>

\* Unmarshal...; the application takes the envelope out of its store.
Load(kind) ==
    /\ item = Absent /\ store # Absent
    /\ store' = Absent
    /\ saved' = Absent
    /\ item' = IF Unmarshals(store, kind) THEN Unmarshal(store, kind) ELSE Absent
    /\ loadFailed' = (saved # Absent /\ saved.item.kind = kind /\ ~Unmarshals(store, kind))
    /\ asked' = IF saved = Absent THEN Absent ELSE saved.request
    /\ UNCHANGED outcome

\* The process ends; what is in the store remains.
Crash ==
    /\ item # Absent
    /\ item' = Absent /\ asked' = Absent
    /\ UNCHANGED <<store, outcome, saved, loadFailed>>

Finish(response) ==
    /\ item # Absent /\ store = Absent
    /\ item.kind \in States
    /\ response.operation = Operation(item.kind)
    /\ item' = Absent
    /\ asked' = Absent
    /\ outcome' = [request |-> asked, response |-> response, results |-> Results(item, response)]
    /\ UNCHANGED <<store, saved, loadFailed>>

Return ==
    /\ outcome # Absent
    /\ outcome' = Absent
    /\ UNCHANGED <<item, store, asked, saved, loadFailed>>

-----------------------------------------------------------------------------

Init ==
    /\ item = Absent /\ store = Absent /\ outcome = Absent
    /\ asked = Absent /\ saved = Absent /\ loadFailed = FALSE

Next ==
    \/ \E request \in Requests : Start(request)
    \/ \E record \in Records : Register(record)
    \/ \E envelope \in Foreign : Arrive(envelope)
    \/ \E kind \in Kinds : Load(kind)
    \/ \E response \in Responses : Finish(response)
    \/ Save \/ Crash \/ Return

Spec == Init /\ [][Next]_vars

-----------------------------------------------------------------------------
(***************************************************************************)
(* Properties.                                                             *)
(***************************************************************************)

\* Results kept raw that differ at most in the Go type of the input, which is
\* stored as the same value.
SameRaw(result, other) ==
    LET raw == result.output
        same == other.output
    IN  /\ ~result.accepted /\ ~other.accepted
        /\ raw.requested <=> same.requested
        /\ raw.client = same.client /\ raw.authenticator = same.authenticator
        /\ raw.requested => EncodeValue(raw.input).result = EncodeValue(same.input).result

\* Two finishes with the same end: both are refused or neither is, a handler
\* returns the same, and what is kept raw is the same but for that type.
SameEnd(state, accepts, results, otherAccepts, otherResults) ==
    /\ accepts <=> otherAccepts
    /\ accepts =>
           /\ DOMAIN results = DOMAIN otherResults
           /\ \A id \in DOMAIN results :
                  IF Handled(state, id) THEN results[id] = otherResults[id]
                  ELSE SameRaw(results[id], otherResults[id])

\* Storage is invisible: whatever the browser answers, a ceremony finished from
\* its stored state ends as it would have in the process that started it,
\* although typed inputs come back as plain objects (normalizeBuiltInValue,
\* parsePRFInput, parseLargeBlobInput); what is kept raw shows that change of
\* type (PreserveRaw) and nothing else.
StorageTransparent ==
    (saved # Absent /\ saved.item.kind \in States) =>
        LET loaded == Unmarshal(store, saved.item.kind) IN
        Unmarshals(store, saved.item.kind) =>
            \A response \in {r \in Responses : r.operation = Operation(loaded.kind)} :
                SameEnd(loaded,
                        FinishAccepts(loaded, response), VerifyExtensions(loaded, response),
                        FinishAccepts(saved.item, response), VerifyExtensions(saved.item, response))

\* An envelope has one reading.  What Marshal wrote, Unmarshal of that kind
\* reads: no ceremony and no credential is lost between two processes because
\* the two directions disagree about a limit, although the budget is in raw
\* bytes when encoding and in base64 characters when decoding.  And no two
\* Unmarshal functions accept the same envelope, so a state never stands in for
\* one of another kind or for a credential (directValueBytes,
\* encodedValueBytes, marshalEnvelope, unmarshalEnvelope).
OneReading ==
    /\ ~loadFailed
    /\ store # Absent =>
           Cardinality({kind \in Kinds : Unmarshals(store, kind)}) <= 1

Finished(operation) ==
    /\ outcome # Absent /\ outcome.results # Invalid /\ outcome.request # Absent
    /\ outcome.request.operation = operation

AcceptedOutput(id) == id \in DOMAIN outcome.results /\ outcome.results[id].accepted

\* PRF results that an authentication accepts answer what the caller asked for
\* the credential that signed: its own values if there are any, else the common
\* ones; and values by credential are only for credentials of the ceremony,
\* whatever list the caller's input carries (PRFInputWithCredentials,
\* selectedPRFInput).
PRFResultsAsAsked ==
    (Finished("authentication") /\ AcceptedOutput("prf")) =>
        LET input == ParsePRFInput(outcome.request.inputs["prf"])
            own == CredentialText[outcome.response.selected]
            keys == IF input.by = Absent THEN {} ELSE DOMAIN input.by
            values == IF own \in keys THEN input.by[own] ELSE input.eval
            results == outcome.results["prf"].output.results
        IN  /\ keys \subseteq {Texts(outcome.request.allow)[i] :
                                  i \in DOMAIN outcome.request.allow}
            /\ results # Absent =>
                   values # Absent /\ (values.second = Absent) = (results.second = Absent)

\* An accepted largeBlob output of an authentication that asked to write says
\* whether it was written, and comes from the one credential the caller named
\* (validateLargeBlobOutput and validateLargeBlobCredentialContext).
WriteAnswered ==
    (Finished("authentication") /\ AcceptedOutput("largeBlob")) =>
        LET input == ParseLargeBlobInput(outcome.request.inputs["largeBlob"]) IN
        input.write # Absent =>
            /\ outcome.results["largeBlob"].output.written # Absent
            /\ outcome.request.allow = <<outcome.response.selected>>

\* What can be read can be written back, and reads the same again: a record is
\* read, updated and written at every login, and a state that was taken out may
\* be put back.  The decoder is nowhere more generous than the encoder, be the
\* envelope from this library or not, except for the length of the whole; and
\* an envelope of this library is written back as it was, so storage by itself
\* adds nothing from one login to the next (decodeExtensionValues and
\* encodeExtensionValues, decodeBytes, parseTime, marshalEnvelope).
StoredAgain ==
    store # Absent =>
        \A kind \in {k \in Kinds : Unmarshals(store, k)} :
            LET loaded == Unmarshal(store, kind)
                again == Envelope(loaded)
            IN  /\ EnvelopeFits(again) =>
                       /\ Marshals(loaded)
                       /\ Unmarshals(again, kind) /\ Unmarshal(again, kind) = loaded
                /\ saved # Absent => again = store

\* The options a client is given for a request.
Options(request) == ExtensionInputsToJSON(PreparedInputs(request))

\* The PRF results still fit when they are returned together with the inputs.
RoomForResults(inputs) ==
    "prf" \in DOMAIN inputs => PRFInputCost(inputs["prf"][2]).bytes + 64 <= MaxValueBytes

\* What start accepted, finish does not refuse by itself.  A client that reads
\* the options and follows the extensions it knows, whichever those are and
\* whichever credential signs, completes the ceremony if it answers within the
\* timeout it was told: after the inputs were turned into JSON for it, its
\* answer was read back from JSON, and in between the state was stored and
\* loaded (extensionInputsToJSON, clientExtensionResultsFromJSON, timeoutState
\* and the handlers on both sides).  Excepted are PRF inputs so long that the
\* results do not fit beside them, and a lifetime below one millisecond, which
\* the rounded timeout may exceed.
HonestClientAccepted ==
    (item # Absent /\ asked # Absent) =>
        LET options == Options(asked)
            credentials == IF asked.allow = <<>> THEN DOMAIN CredentialText
                           ELSE {asked.allow[i] : i \in DOMAIN asked.allow}
            clientData == IF "remoteClientDataJSON" \in DOMAIN asked.inputs
                          THEN asked.inputs["remoteClientDataJSON"][2] ELSE "its own"
            times == TimeoutState(asked.timeout, asked.ttl)
        IN  (/\ \A id \in DOMAIN options : options[id] # Invalid
             /\ RoomForResults(PreparedInputs(asked))
             /\ times.ttl >= Units) =>
                \A selected \in credentials :
                    \A answer \in HonestAnswers(asked.operation, options, selected) :
                        Results(item, [operation |-> asked.operation, selected |-> selected,
                                       client |-> answer, authenticator |-> [id \in {} |-> Absent],
                                       clientData |-> clientData,
                                       at |-> times.milliseconds * Units - 1]) # Invalid
=============================================================================
