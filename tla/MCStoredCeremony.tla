-------------------------- MODULE MCStoredCeremony --------------------------
(***************************************************************************)
(* StoredCeremony with the built-in handlers registered and a few unknown  *)
(* extensions.  The limits are small and the values are chosen around      *)
(* them: "long" fits the limit as it is but not as base64 in an envelope,  *)
(* "edge" fits exactly.                                                    *)
(***************************************************************************)
EXTENDS StoredCeremony

Sizes ==
    ("" :> 0) @@ ("salt" :> 4) @@ ("pepper" :> 4) @@ ("r32" :> 32) @@ ("s32" :> 32)
    @@ ("r16" :> 16) @@ ("edge" :> 118) @@ ("over" :> 119) @@ ("long" :> 170) @@ ("huge" :> 201)
    @@ ("first" :> 5) @@ ("second" :> 6) @@ ("eval" :> 4) @@ ("evalByCredential" :> 16)
    @@ ("allowCredentials" :> 16) @@ ("results" :> 7) @@ ("enabled" :> 7)
    @@ ("support" :> 7) @@ ("read" :> 4) @@ ("write" :> 5) @@ ("required" :> 8)
    @@ ("preferred" :> 9) @@ ("sometimes" :> 9)
    @@ ("supported" :> 9) @@ ("blob" :> 4) @@ ("written" :> 7) @@ ("rk" :> 2)
    @@ ("prf" :> 3) @@ ("largeBlob" :> 9) @@ ("appid" :> 5) @@ ("appidExclude" :> 12)
    @@ ("credProps" :> 9) @@ ("uvm" :> 3) @@ ("remoteClientDataJSON" :> 20)
    @@ ("x1" :> 2) @@ ("x2" :> 2) @@ ("bad id" :> 6)
    @@ ("c1-text" :> 4) @@ ("c2-text" :> 4) @@ ("c3-text" :> 4) @@ ("not base64" :> 4)
    @@ ("create-c" :> 20) @@ ("get-c" :> 20) @@ ("get-d" :> 20)
    @@ ("https://legacy.example" :> 22)

MCSize == Sizes

MCCredentialText == ("c1" :> "c1-text") @@ ("c2" :> "c2-text") @@ ("c3" :> "c3-text")

MCClientData ==
    ("create-c" :> [type |-> "webauthn.create", challenge |-> "c"])
    @@ ("get-c" :> [type |-> "webauthn.get", challenge |-> "c"])
    @@ ("get-d" :> [type |-> "webauthn.get", challenge |-> "d"])

MCRegistry == [nil |-> FALSE, handlers |-> BuiltInBinding]

MCPolicy == [rejectUnknown |-> FALSE, rejectUnrequested |-> FALSE]

None == [id \in {} |-> Absent]

\* An authenticator's PRF.
MCEvaluation == ("" :> "s32") @@ ("salt" :> "r32") @@ ("pepper" :> "s32") @@ ("long" :> "r32")

-----------------------------------------------------------------------------

Bytes(b) == <<"bytes", b>>
String(s) == <<"string", s>>
Bool(b) == <<"bool", b>>
Object(f) == <<"object", f>>
Array(s) == <<"array", s>>

Pair(first, second) == [first |-> first, second |-> second]
ValuesObject(first, second) ==
    Object([first |-> Bytes(first)] @@ IF second = Absent THEN None ELSE [second |-> Bytes(second)])

PRF(eval, by, allow) == <<"PRFInput", [eval |-> eval, by |-> by, allow |-> allow]>>
Blob(support, read, write) ==
    <<"LargeBlobInput", [support |-> support, read |-> read, write |-> write]>>

One == Pair("salt", Absent)
Two == Pair("salt", "pepper")
Same == Pair("salt", "salt")
EmptySecond == Pair("salt", "")

PRFInputs ==
    {PRF(eval, by, allow) :
        eval \in {Absent, One, Two},
        by \in {Absent, "c1-text" :> Two, "c3-text" :> One},
        allow \in {Absent, <<"c3-text">>}}
    \cup {PRF(eval, Absent, Absent) : eval \in {Same, EmptySecond, Pair(Absent, Absent), Pair("long", Absent)}}
    \cup {PRF(One, ("c1-text" :> Two) @@ ("c2-text" :> Same), Absent),
          PRF(One, None, Absent),
          Object([eval |-> ValuesObject("salt", "pepper")]),
          Object([eval |-> ValuesObject("salt", Absent),
                  evalByCredential |-> Object("c1-text" :> ValuesObject("salt", "")),
                  allowCredentials |-> Array(<<String("c1-text")>>)]),
          Object([eval |-> ValuesObject("salt", Absent), allowCredentials |-> Array(<<Bytes("")>>)]),
          Object([eval |-> Object([second |-> Bytes("salt")])]),
          String("salt")}

BlobInputs ==
    {Blob("", Absent, write) : write \in {Absent, "", "salt", "edge", "over", "long", "huge"}}
    \cup {Blob("", read, Absent) : read \in BOOLEAN}
    \cup {Blob(support, Absent, Absent) : support \in {"required", "preferred", "sometimes"}}
    \cup {Blob("", TRUE, "salt"), Object([write |-> Bytes("salt")]),
          Object([support |-> String("required")]), Object([read |-> String("salt")])}

AnyValue ==
    {PRF(Two, Absent, Absent), Blob("", TRUE, Absent), String("salt"), Bytes("long"),
     Bytes("huge"), Bool(FALSE), <<"null", "null">>, <<"int", 7>>, <<"float", NaN>>, <<"cloner", "c">>, <<"other", "o">>,
     Array(<<Array(<<Array(<<Bool(TRUE)>>)>>)>>),
     Array(<<Array(<<Array(<<Array(<<Bool(TRUE)>>)>>)>>)>>),
     Array([i \in 1 .. 20 |-> Bool(TRUE)]), Array([i \in 1 .. 30 |-> Bool(TRUE)])}

Request(operation, inputs, allow, user) ==
    [operation |-> operation, inputs |-> inputs, allow |-> allow, user |-> user,
     timeout |-> 0, ttl |-> 0]

Timed(request, timeout, ttl) == [request EXCEPT !.timeout = timeout, !.ttl = ttl]

Allows == {<<>>, <<"c1">>, <<"c1", "c2">>}

MCRequests ==
    {Request("authentication", [prf |-> input], allow, Absent) : input \in PRFInputs, allow \in Allows}
    \cup {Request("registration", [prf |-> input], <<>>, "u") : input \in PRFInputs}
    \cup {Request("authentication", [largeBlob |-> input], allow, "u") :
             input \in BlobInputs, allow \in Allows}
    \cup {Request("registration", [largeBlob |-> input], <<>>, "u") : input \in BlobInputs}
    \cup {Request("authentication", [appid |-> input], <<>>, "u") :
             input \in {String("https://legacy.example"), String(""), Bool(TRUE)}}
    \cup {Request("registration", [appidExclude |-> String("https://legacy.example"),
                                   credProps |-> Bool(TRUE), uvm |-> Bool(TRUE)], <<>>, "u"),
          Request("registration", [credProps |-> Bool(FALSE)], <<>>, "u"),
          Request("registration", [appid |-> String("https://legacy.example")], <<>>, "u"),
          Request("authentication", [appidExclude |-> String("https://legacy.example")], <<>>, "u"),
          Request("authentication", [credProps |-> Bool(TRUE)], <<>>, "u"),
          Request("authentication", [uvm |-> Bool(TRUE), x1 |-> String("salt"),
                                     x2 |-> <<"int", 7>>], <<>>, "u"),
          Request("authentication", [uvm |-> Bool(TRUE), x1 |-> Bytes("salt"), x2 |-> Bytes("salt"),
                                     prf |-> PRF(One, Absent, Absent)], <<>>, "u"),
          Request("authentication", "bad id" :> Bool(TRUE), <<>>, "u"),
          Request("authentication", None, <<>>, Absent),
          Request("authentication", [largeBlob |-> Blob("", Absent, "salt"),
                                     prf |-> PRF(Two, Absent, Absent)], <<"c1">>, "u")}
    \cup {Request("authentication", [x1 |-> value], <<>>, "u") : value \in AnyValue}
    \cup {Timed(Request("authentication", None, <<"c1">>, "u"), timeout, ttl) :
             timeout \in {-1, 0, 1, 4, 5, 6, 11}, ttl \in {-1, 0, 1, 2, 3, 4, 5}}
    \cup {Request(operation, [remoteClientDataJSON |-> String(text)], <<>>, "u") :
             operation \in {"registration", "authentication"},
             text \in {"create-c", "get-c", "get-d", "salt"}}

Response(operation, selected, client, authenticator, clientData) ==
    [operation |-> operation, selected |-> selected, client |-> client,
     authenticator |-> authenticator, clientData |-> clientData, at |-> 3]

ResultsObject(first, second) ==
    Object([first |-> Base64URL(first)] @@
           IF second = Absent THEN None ELSE [second |-> Base64URL(second)])

PRFOutputs ==
    {Object([results |-> ResultsObject("r32", second)]) : second \in {Absent, "r32", "s32"}}
    \cup {Object([results |-> ResultsObject("r16", Absent)]),
          Object([results |-> Object([first |-> <<"text", <<"padded", "r32">>>>])]), Object(None), Bool(TRUE),
          Object([enabled |-> Bool(TRUE)]),
          Object([enabled |-> Bool(FALSE), results |-> ResultsObject("r32", Absent)]),
          Object([enabled |-> Bool(TRUE), results |-> ResultsObject("r32", "s32")])}

BlobOutputs ==
    {Object(None), Object([written |-> Bool(TRUE)]), Object([written |-> Bool(FALSE)]),
     Object([blob |-> Base64URL("salt")]), Object([blob |-> Base64URL("huge")]),
     Object([blob |-> <<"text", <<"padded", "salt">>>>]),
     Object([supported |-> Bool(TRUE)]),
     Object([supported |-> Bool(FALSE)]), Object([written |-> String("salt")]), Bool(TRUE)}

UVM(type, method) == Array(<<Array(<<<<type, method>>, <<type, 4>>, <<type, 2>>>>)>>)

MCResponses ==
    {Response("authentication", selected, [prf |-> output], None, "get-c") :
        selected \in {"c1", "c2", "c3"}, output \in PRFOutputs}
    \cup {Response("registration", "c1", [prf |-> output], None, "create-c") : output \in PRFOutputs}
    \cup {Response("authentication", selected, [largeBlob |-> output], None, "get-c") :
             selected \in {"c1", "c2"}, output \in BlobOutputs}
    \cup {Response("registration", "c1", [largeBlob |-> output], None, "create-c") :
             output \in BlobOutputs}
    \cup {Response("authentication", selected, None, None, clientData) :
             selected \in {"c1", "c2", "c3"}, clientData \in {"get-c", "get-d"}}
    \cup {Response("registration", "c1", None, None, "create-c"),
          Response("registration", "c1", [appidExclude |-> Bool(TRUE),
                                          credProps |-> Object([rk |-> Bool(TRUE)])],
                   [uvm |-> UVM("uint", 2)], "create-c"),
          Response("registration", "c1", [appidExclude |-> Bool(FALSE)], None, "create-c"),
          Response("registration", "c1", [credProps |-> Object([rk |-> String("salt")])], None, "create-c"),
          Response("registration", "c1", None, [credProps |-> Bool(TRUE)], "create-c"),
          Response("registration", "c1", [remoteClientDataJSON |-> Bool(TRUE)], None, "create-c"),
          Response("authentication", "c1", [remoteClientDataJSON |-> Bool(TRUE)], None, "get-c"),
          Response("authentication", "c1", [remoteClientDataJSON |-> Bool(TRUE)], None, "get-d"),
          Response("authentication", "c1", [appid |-> Bool(TRUE)], None, "get-c"),
          Response("authentication", "c1", [appid |-> Bool(FALSE)], None, "get-c"),
          Response("authentication", "c1", [uvm |-> UVM("float", 2)], [uvm |-> UVM("uint", 2)], "get-c"),
          Response("authentication", "c1", [uvm |-> UVM("float", 2)], [uvm |-> UVM("uint", 4)], "get-c"),
          Response("authentication", "c1", [uvm |-> Array(<<>>)], None, "get-c"),
          Response("authentication", "c1", [x1 |-> Bool(TRUE)], [x2 |-> Bool(TRUE)], "get-c"),
          Response("authentication", "c1", [x1 |-> Bool(TRUE), appid |-> Bool(TRUE)], None, "get-c"),
          Response("authentication", "c1", "bad id" :> Bool(TRUE), None, "get-c")}

-----------------------------------------------------------------------------

Record(key, valid) ==
    [kind |-> "credential-record", id |-> "c1", user |-> "u", key |-> key,
     rest |-> [valid |-> valid]]

MCRecords == {Record("k1", TRUE), Record("k1", FALSE), Record(Absent, TRUE)}

\* The state of a login with a PRF input, as the library would write it.
ForeignPayload ==
    [challenge |-> Text("c"), user |-> Text("u"), expires |-> Text(12),
     inputs |-> [prf |-> Object([eval |-> Object([first |-> <<"bytes", Text("salt")>>]),
                                 allowCredentials |-> Array(<<String("c1-text")>>)])],
     bindings |-> [prf |-> BuiltInBinding["prf"]], allow |-> <<Text("c1")>>,
     rest |-> [valid |-> TRUE]]

ForeignEnvelope ==
    [size |-> 100, strict |-> TRUE, version |-> EnvelopeVersion, kind |-> "authentication-state",
     payloads |-> [kind \in {"authentication-state"} |-> ForeignPayload]]

WithPayload(kind, payload) ==
    [ForeignEnvelope EXCEPT !.kind = kind, !.payloads = kind :> payload]

\* Inputs no envelope of this version has, and one it could have.
ForeignInputs ==
    {[prf |-> <<"other", "two members">>],
     [prf |-> <<"bytes", <<"padded", "salt">>>>],
     [x1 |-> <<"float", NaN>>],
     [x1 |-> Array(<<Array(<<Array(<<Array(<<>>)>>)>>)>>)],
     [x1 |-> Array([i \in 1 .. 12 |-> Bool(TRUE)]), x2 |-> Array([i \in 1 .. 12 |-> Bool(TRUE)])],
     [largeBlob |-> Object("write" :> <<"bytes", Text("salt")>>)]}

\* Envelopes that differ from a proper one in one respect.
MCForeign ==
    LET payload == ForeignPayload
        record == Payload(Record("k1", TRUE))
        state(p) == WithPayload("authentication-state", p)
    IN  {[ForeignEnvelope EXCEPT !.version = 2],
         [ForeignEnvelope EXCEPT !.strict = FALSE],
         [ForeignEnvelope EXCEPT !.size = 0],
         [ForeignEnvelope EXCEPT !.size = MaxValueBytes + 1],
         [ForeignEnvelope EXCEPT !.kind = "registration-state"],
         [ForeignEnvelope EXCEPT !.payloads = @ @@ ("registration-state" :> payload)],
         [ForeignEnvelope EXCEPT !.kind = "credential-record",
             !.payloads = @ @@ ("credential-record" :> record)],
         WithPayload("registration-state", payload),
         WithPayload("registration-state", [payload EXCEPT !.user = Text(Absent)]),
         WithPayload("credential-record", [record EXCEPT !.key = Text("no COSE key")]),
         WithPayload("credential-record", [record EXCEPT !.id = <<"padded", "c1">>]),
         state([payload EXCEPT !.challenge = <<"padded", "c">>]),
         state([payload EXCEPT !.expires = <<"malformed", "soon">>]),
         state([payload EXCEPT !.bindings = None]),
         state([payload EXCEPT !.bindings = [prf |-> "an older revision"]]),
         state([payload EXCEPT !.rest.valid = FALSE]),
         state([payload EXCEPT !.allow = <<Text("c1"), Text("c2")>>])}
        \cup {state([payload EXCEPT !.inputs = inputs,
                         !.bindings = [id \in DOMAIN inputs \cap DOMAIN BuiltInBinding |->
                                          BuiltInBinding[id]],
                         !.allow = allow]) :
                 inputs \in ForeignInputs, allow \in {payload.allow, <<Text("c1"), Text("c2")>>}}

-----------------------------------------------------------------------------
(***************************************************************************)
(* The values of the instance: what callers ask for, what clients answer,  *)
(* and what becomes of both, with all parts.                               *)
(***************************************************************************)

\* A request's input and what preparing it makes of it.
InputsOf(request) ==
    UNION {LET value == request.inputs[id]
               transformed == Transform(request.operation, id, value, request.allow)
           IN  {value, transformed}
               \cup IF transformed = Invalid \/ id \notin DOMAIN MCRegistry.handlers THEN {}
                    ELSE {ValidateInput(request.operation, id, transformed)} :
           id \in DOMAIN request.inputs} \ {Invalid}

\* The outputs of a client that was given such inputs.
OutputsFor(operation, value) ==
    UNION {CASE value[1] = "PRFInput" ->
                  {PRFOutputFromJSON(answer) : answer \in
                      PRFAnswers(operation, PRFInputToJSON(value[2]), selected)}
             [] value[1] = "LargeBlobInput" ->
                  {LargeBlobOutputFromJSON(answer) : answer \in
                      LargeBlobAnswers(operation, LargeBlobInputToJSON(value[2]))}
             [] OTHER -> {} : selected \in DOMAIN MCCredentialText}

OutputsOf(response) ==
    {OutputFromJSON(id, response.client[id]) : id \in DOMAIN response.client}
    \cup {response.authenticator[id] : id \in DOMAIN response.authenticator}

FixedOutputs ==
    UNION {Answers("registration", id, Object(None), "c1") :
              id \in DOMAIN BuiltInBinding \ {"prf", "largeBlob"}}

\* The value and all its parts, as they are or as storage sees them.
RECURSIVE Parts(_)
Parts(value) ==
    LET normalised == NormalizeBuiltInValue(value)
        parts(v) == IF v[1] \in Container THEN {v[2][k] : k \in DOMAIN v[2]} ELSE {}
    IN  {value} \cup UNION {Parts(part) : part \in parts(value) \cup parts(normalised)}

RECURSIVE Encoded(_)
Encoded(value) ==
    EncodeLevel(value, [part \in Parts(value) \ {value} |-> Encoded(part)])

RECURSIVE Decoded(_)
Decoded(value) ==
    DecodeLevel(value, [part \in Parts(value) \ {value} |-> Decoded(part)])

ForeignValues ==
    UNION {UNION {Parts(inputs[id]) : id \in DOMAIN inputs} :
              inputs \in ForeignInputs \cup {ForeignPayload.inputs}}

GoValues ==
    UNION {Parts(value) : value \in
               UNION {InputsOf(request) : request \in MCRequests}
               \cup UNION {UNION {OutputsFor(request.operation, value) : value \in InputsOf(request)} :
                              request \in MCRequests}
               \cup (UNION {OutputsOf(response) : response \in MCResponses} \ {Invalid})
               \cup FixedOutputs}

\* TLC evaluates each of these two once.
StoredValues == {Encoded(value).result : value \in GoValues} \cup ForeignValues

AllValues == GoValues \cup {Decoded(value).result : value \in StoredValues}

MCEncodedValues == LET values == StoredValues IN values
MCValues == LET values == AllValues IN values
=============================================================================
