-------------------------- MODULE ExtensionHandlers --------------------------
(***************************************************************************)
(* The built-in extension handlers: ValidateInput, which normalises an     *)
(* input when the ceremony starts and again when it finishes, and          *)
(* VerifyOutput.  Both return Invalid for an error.                        *)
(*                                                                         *)
(* An output request is [operation, input, selected, client,               *)
(* authenticator], the last two Absent or a value; a result is [accepted,  *)
(* output].                                                                *)
(***************************************************************************)
EXTENDS ExtensionValues

CONSTANTS
    Invalid,
    ClientData,        \* strings that parse as client data: [type, challenge]
    CredentialText     \* base64url of the credential identifiers

\* What the typed inputs consist of; the members they are stored as are values.
PRFValuesTyped(values) ==
    /\ values \notin {Absent, Invalid}
    /\ values = [first |-> values.first, second |-> values.second]

PRFInputTyped(input) ==
    /\ input = [eval |-> input.eval, by |-> input.by, allow |-> input.allow]
    /\ input.eval # Absent =>
           PRFValuesTyped(input.eval) /\ PRFValuesObject(input.eval) \in Values
    /\ input.by # Absent =>
           /\ input.by = [id \in DOMAIN input.by |-> input.by[id]]
           /\ \A id \in DOMAIN input.by : PRFValuesTyped(input.by[id])
           /\ <<"object", [id \in DOMAIN input.by |-> PRFValuesObject(input.by[id])]>> \in Values
    /\ input.allow # Absent =>
           /\ input.allow = [i \in DOMAIN input.allow |-> input.allow[i]]
           /\ <<"array", [i \in DOMAIN input.allow |-> <<"string", input.allow[i]>>]>> \in Values

LargeBlobInputTyped(input) ==
    /\ input = [support |-> input.support, read |-> input.read, write |-> input.write]
    /\ input.support # Absent
    /\ input.support # "" => <<"string", input.support>> \in Values
    /\ input.read # Absent => <<"bool", input.read>> \in Values
    /\ input.write # Absent => <<"bytes", input.write>> \in Values

ASSUME TypedInputsAssumption ==
    /\ Absent # Invalid /\ Invalid \notin Values
    /\ \A value \in Values :
           /\ value[1] = "PRFValues" => PRFValuesTyped(value[2])
           /\ value[1] = "PRFInput" => PRFInputTyped(value[2])
           /\ value[1] = "LargeBlobInput" => LargeBlobInputTyped(value[2])

IsString(value) == value[1] = "string" /\ value[2] # ""

True == <<"bool", TRUE>>

\* Field `name' of an object is absent or of the given type.
FieldTyped(fields, name, type) == name \in DOMAIN fields => fields[name][1] = type

\* Its content, or Absent.
Field(fields, name) == IF name \in DOMAIN fields THEN fields[name][2] ELSE Absent

-----------------------------------------------------------------------------
(***************************************************************************)
(* prf.                                                                    *)
(***************************************************************************)

\* parsePRFValues and validatePRFValues, of an input.
ParsePRFValues(value) ==
    CASE value[1] = "PRFValues" -> IF value[2].first = Absent THEN Invalid ELSE value[2]
      [] value[1] = "object" ->
           IF /\ "first" \in DOMAIN value[2]
              /\ FieldTyped(value[2], "first", "bytes") /\ FieldTyped(value[2], "second", "bytes")
           THEN [first |-> Field(value[2], "first"), second |-> Field(value[2], "second")]
           ELSE Invalid
      [] OTHER -> Invalid

\* prfInputFromFields.
PRFInputFromFields(fields) ==
    LET eval == IF "eval" \in DOMAIN fields THEN ParsePRFValues(fields.eval) ELSE Absent
        entries == Field(fields, "evalByCredential")
        by == IF entries = Absent THEN Absent
              ELSE [id \in DOMAIN entries |-> ParsePRFValues(entries[id])]
        credentials == Field(fields, "allowCredentials")
        allow == IF credentials = Absent THEN Absent
                 ELSE [i \in DOMAIN credentials |-> credentials[i][2]]
    IN  IF /\ FieldTyped(fields, "evalByCredential", "object")
           /\ FieldTyped(fields, "allowCredentials", "array")
           /\ eval # Invalid
           /\ entries # Absent => \A id \in DOMAIN entries : by[id] # Invalid
           /\ credentials # Absent => \A i \in DOMAIN credentials : credentials[i][1] = "string"
        THEN [eval |-> eval, by |-> by, allow |-> allow]
        ELSE Invalid

\* parsePRFInput.
ParsePRFInput(value) ==
    CASE value[1] = "PRFInput" ->
           IF /\ value[2].eval # Absent => value[2].eval.first # Absent
              /\ value[2].by # Absent =>
                     \A id \in DOMAIN value[2].by : value[2].by[id].first # Absent
           THEN value[2] ELSE Invalid
      [] value[1] = "object" -> PRFInputFromFields(value[2])
      [] OTHER -> Invalid

\* PRFInputWithCredentials that leaves credentials the caller wrote alone.
PRFInputWithOwnCredentials(value, credentials) ==
    LET input == ParsePRFInput(value) IN
    IF input = Invalid THEN Invalid
    ELSE <<"PRFInput", [input EXCEPT !.allow =
               IF input.allow # Absent THEN input.allow
               ELSE IF credentials = <<>> THEN Absent ELSE credentials]>>

\* PRFInputWithCredentials: the allowed credentials are the ceremony's.
PRFInputWithCredentials(value, credentials) ==
    LET input == ParsePRFInput(value) IN
    IF input = Invalid THEN Invalid
    ELSE <<"PRFInput", [input EXCEPT !.allow =
               IF credentials = <<>> THEN Absent ELSE credentials]>>

ValidatePRFInput(operation, value) ==
    LET input == ParsePRFInput(value)
        keys == IF input.by = Absent THEN {} ELSE DOMAIN input.by
        allowed == IF input.allow = Absent THEN {}
                   ELSE {input.allow[i] : i \in DOMAIN input.allow}
    IN  IF /\ input # Invalid
           /\ operation = "registration" => input.by = Absent
           /\ operation = "authentication" =>
                  /\ keys \subseteq allowed \ {""}
                  /\ keys \subseteq {CredentialText[id] : id \in DOMAIN CredentialText}
        THEN <<"PRFInput", input>> ELSE Invalid

\* selectedPRFInput.
SelectedPRFInput(input, selected) ==
    IF input.by = Absent \/ DOMAIN input.by = {} THEN input.eval
    ELSE IF selected = Absent THEN Absent
    ELSE IF CredentialText[selected] \in DOMAIN input.by THEN input.by[CredentialText[selected]]
    ELSE input.eval

\* prfResultMatchesInput: as many results as values, and equal values have
\* equal results.
PRFResultMatches(input, results) ==
    /\ input # Absent
    /\ (input.second = Absent) = (results.second = Absent)
    /\ (input.second # Absent /\ input.first = input.second) => results.first = results.second

\* parsePRFOutput and validatePRFOutput.
PRFOutputValid(request, enabled, results) ==
    LET input == request.input[2] IN
    /\ results # Invalid
    /\ results # Absent =>
           Size[results.first] = 32 /\ (results.second # Absent => Size[results.second] = 32)
    /\ request.operation = "registration" =>
           /\ enabled # Absent
           /\ results # Absent => enabled /\ PRFResultMatches(input.eval, results)
    /\ request.operation = "authentication" =>
           /\ enabled = Absent
           /\ results # Absent =>
                  PRFResultMatches(SelectedPRFInput(input, request.selected), results)

VerifyPRF(request) ==
    LET fields == request.client[2]
        enabled == Field(fields, "enabled")
        results == IF "results" \in DOMAIN fields THEN ParsePRFValues(fields.results) ELSE Absent
    IN  IF request.authenticator # Absent THEN Invalid
        ELSE IF request.client = Absent THEN [accepted |-> FALSE, output |-> Absent]
        ELSE IF /\ request.client[1] = "object"
                /\ FieldTyped(fields, "enabled", "bool")
                /\ PRFOutputValid(request, enabled, results)
        THEN [accepted |-> TRUE, output |-> [enabled |-> enabled, results |-> results]]
        ELSE Invalid

-----------------------------------------------------------------------------
(***************************************************************************)
(* largeBlob.                                                              *)
(***************************************************************************)

\* parseLargeBlobInput: a field is present when it is not Absent, the support
\* of a typed input when it is not empty.
ParseLargeBlobInput(value) ==
    CASE value[1] = "LargeBlobInput" ->
           [value[2] EXCEPT !.support = IF @ = "" THEN Absent ELSE @]
      [] value[1] = "object" ->
           IF /\ FieldTyped(value[2], "support", "string") /\ FieldTyped(value[2], "read", "bool")
              /\ FieldTyped(value[2], "write", "bytes")
           THEN [support |-> Field(value[2], "support"), read |-> Field(value[2], "read"),
                 write |-> Field(value[2], "write")]
           ELSE Invalid
      [] OTHER -> Invalid

\* validateLargeBlobInput.
ValidateLargeBlobInput(operation, value) ==
    LET input == ParseLargeBlobInput(value) IN
    IF /\ input # Invalid
       /\ input.support \in {Absent, "required", "preferred"}
       /\ operation = "registration" => input.read = Absent /\ input.write = Absent
       /\ operation = "authentication" =>
              input.support = Absent /\ (input.read = Absent \/ input.write = Absent)
    THEN <<"LargeBlobInput", [input EXCEPT !.support = IF @ = Absent THEN "" ELSE @]>>
    ELSE Invalid

\* validateLargeBlobOutput satisfied without an answer to a write.
LargeBlobOutputUnanswered(operation, input, output) ==
    /\ operation = "registration" =>
           /\ output.blob = Absent /\ output.written = Absent /\ output.supported # Absent
           /\ input.support = "required" => output.supported
    /\ operation = "authentication" =>
           /\ output.supported = Absent
           /\ output.blob # Absent => input.read # Absent /\ input.read
           /\ output.written # Absent => input.write # Absent

\* validateLargeBlobOutput.
LargeBlobOutputValid(operation, input, output) ==
    /\ operation = "registration" =>
           /\ output.blob = Absent /\ output.written = Absent /\ output.supported # Absent
           /\ input.support = "required" => output.supported
    /\ operation = "authentication" =>
           /\ output.supported = Absent
           /\ output.blob # Absent => input.read # Absent /\ input.read
           /\ (output.written # Absent) = (input.write # Absent)

VerifyLargeBlob(request) ==
    LET fields == request.client[2]
        output == [supported |-> Field(fields, "supported"), blob |-> Field(fields, "blob"),
                   written |-> Field(fields, "written")]
    IN  IF request.authenticator # Absent THEN Invalid
        ELSE IF request.client = Absent THEN [accepted |-> FALSE, output |-> Absent]
        ELSE IF /\ request.client[1] = "object"
                /\ FieldTyped(fields, "supported", "bool") /\ FieldTyped(fields, "blob", "bytes")
                /\ FieldTyped(fields, "written", "bool")
                /\ LargeBlobOutputValid(request.operation, request.input[2], output)
        THEN [accepted |-> TRUE, output |-> output]
        ELSE Invalid

-----------------------------------------------------------------------------
(***************************************************************************)
(* appid, appidExclude, credProps, uvm, remoteClientDataJSON.              *)
(***************************************************************************)

\* An application identifier, of a login only.
ValidateAppID(operation, value) ==
    IF operation = "authentication" /\ IsString(value) THEN value ELSE Invalid

\* An application identifier, of a registration only.
ValidateAppIDExclude(operation, value) ==
    IF operation = "registration" /\ IsString(value) THEN value ELSE Invalid

ValidateCredProps(operation, value) ==
    IF operation = "registration" /\ value = True THEN value ELSE Invalid

ValidateUVM(operation, value) == IF value = True THEN value ELSE Invalid

\* The input is client data of the operation's type.
ValidateRemoteClientData(operation, value) ==
    IF /\ IsString(value) /\ value[2] \in DOMAIN ClientData
       /\ ClientData[value[2]].type =
              IF operation = "registration" THEN "webauthn.create" ELSE "webauthn.get"
    THEN value ELSE Invalid

\* A boolean client output and none from the authenticator.
VerifyBoolean(request, mayBeFalse, mayBeAbsent) ==
    IF request.authenticator # Absent THEN Invalid
    ELSE IF request.client = Absent
    THEN IF mayBeAbsent THEN [accepted |-> FALSE, output |-> Absent] ELSE Invalid
    ELSE IF request.client[1] = "bool" /\ (mayBeFalse \/ request.client[2])
    THEN [accepted |-> TRUE, output |-> request.client[2]]
    ELSE Invalid

VerifyAppID(request) ==
    IF request.operation = "authentication" THEN VerifyBoolean(request, TRUE, TRUE) ELSE Invalid

VerifyAppIDExclude(request) ==
    IF request.operation = "registration" THEN VerifyBoolean(request, FALSE, TRUE) ELSE Invalid

VerifyRemoteClientData(request) == VerifyBoolean(request, FALSE, FALSE)

\* parseCredentialPropertiesOutput.
VerifyCredProps(request) ==
    IF request.operation # "registration" \/ request.authenticator # Absent THEN Invalid
    ELSE IF request.client = Absent THEN [accepted |-> FALSE, output |-> Absent]
    ELSE IF request.client[1] = "object" /\ FieldTyped(request.client[2], "rk", "bool")
    THEN [accepted |-> TRUE, output |-> Field(request.client[2], "rk")]
    ELSE Invalid

\* unsignedValue, for the integers of the model; a whole float is one too.
UnsignedValue(value, max) ==
    value[1] \in {"int", "uint", "float"} /\ value[2] \in 0 .. max

\* parseUVMEntries: one to three entries of three integers each.
UVMEntriesValid(value, maxMethod, maxProtection) ==
    /\ value[1] = "array"
    /\ Len(value[2]) \in 1 .. 3
    /\ \A i \in DOMAIN value[2] :
           LET entry == value[2][i] IN
           /\ entry[1] = "array" /\ Len(entry[2]) = 3
           /\ UnsignedValue(entry[2][1], maxMethod)
           /\ UnsignedValue(entry[2][2], maxProtection)
           /\ UnsignedValue(entry[2][3], maxProtection)

UVMEntries(value) ==
    [i \in DOMAIN value[2] |-> [j \in 1 .. 3 |-> value[2][i][2][j][2]]]

\* uvm: an output of the client and one of the authenticator must agree.  The
\* code's limit for the method is 2^32 - 1.
VerifyUVM(request) ==
    LET outputs == {request.client, request.authenticator} \ {Absent} IN
    IF \A o \in outputs : UVMEntriesValid(o, 2147483647, 65535)
    THEN IF Cardinality({UVMEntries(o) : o \in outputs}) > 1 THEN Invalid
         ELSE [accepted |-> outputs # {},
               output |-> IF outputs = {} THEN Absent
                          ELSE CHOOSE e \in {UVMEntries(o) : o \in outputs} : TRUE]
    ELSE Invalid

-----------------------------------------------------------------------------

\* ValidateInput of the handler for an identifier: the normalised input.
ValidateInput(operation, id, value) ==
    CASE id = "appid" -> ValidateAppID(operation, value)
      [] id = "appidExclude" -> ValidateAppIDExclude(operation, value)
      [] id = "credProps" -> ValidateCredProps(operation, value)
      [] id = "uvm" -> ValidateUVM(operation, value)
      [] id = "largeBlob" -> ValidateLargeBlobInput(operation, value)
      [] id = "prf" -> ValidatePRFInput(operation, value)
      [] id = "remoteClientDataJSON" -> ValidateRemoteClientData(operation, value)

\* VerifyOutput of the handler for a requested identifier.
VerifyOutput(id, request) ==
    CASE id = "appid" -> VerifyAppID(request)
      [] id = "appidExclude" -> VerifyAppIDExclude(request)
      [] id = "credProps" -> VerifyCredProps(request)
      [] id = "uvm" -> VerifyUVM(request)
      [] id = "largeBlob" -> VerifyLargeBlob(request)
      [] id = "prf" -> VerifyPRF(request)
      [] id = "remoteClientDataJSON" -> VerifyRemoteClientData(request)

\* The result repeats the input and is copied under the same limits.
ResultClones(id, input, output) ==
    LET results == IF output = Absent THEN Absent ELSE output.results
        blob == IF output = Absent THEN Absent ELSE output.blob
        cost == PRFInputCost([input[2] EXCEPT !.allow = Absent])
        fits(nodes, bytes) == nodes <= MaxValueNodes /\ bytes <= MaxValueBytes
    IN  CASE id = "prf" ->
               fits(cost.nodes + (IF results = Absent THEN 0 ELSE 2),
                    cost.bytes + (IF results = Absent THEN 0 ELSE PRFValuesBytes(results)))
          [] id = "largeBlob" -> fits(6, SizeOf(input[2].write) + SizeOf(blob))
          [] id = "uvm" -> fits(1 + (IF output = Absent THEN 0 ELSE Len(output)), 0)
          [] OTHER -> fits(1, 0)

\* erasedAdapter.VerifyOutput: the input is normalised once more first.
HandlerVerifies(id, request) ==
    LET input == ValidateInput(request.operation, id, request.input)
        result == VerifyOutput(id, [request EXCEPT !.input = input])
    IN  IF input # Invalid /\ result # Invalid /\ ResultClones(id, input, result.output)
        THEN result ELSE Invalid
=============================================================================
