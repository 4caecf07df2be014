----------------------------- MODULE BrowserJSON -----------------------------
(***************************************************************************)
(* Package browser, for what passes through it in both directions: the     *)
(* extension inputs of the options and the extension results of the        *)
(* response.                                                               *)
(*                                                                         *)
(* JSON has no bytes and one kind of number.  <<"text", <<form, b>>>> is a *)
(* string that stands for the bytes b; only the form "url", unpadded and   *)
(* canonical base64url, is read back.  Numbers are <<"float", n>>.         *)
(***************************************************************************)
EXTENDS ExtensionHandlers, TLC

CONSTANT Evaluation    \* what an authenticator's PRF makes of an input

Base64URL(b) == <<"text", <<"url", b>>>>

IsBase64URL(value) == value[1] = "text" /\ value[2][1] = "url"

-----------------------------------------------------------------------------
(***************************************************************************)
(* Options.                                                                *)
(***************************************************************************)

\* A level of json.Marshal; `marshal' writes the next.  Invalid if a part is.
MarshalLevel(value, marshal) ==
    CASE value[1] = "bytes" -> <<"text", <<"standard", value[2]>>>>
      [] value[1] \in {"int", "uint"} -> <<"float", value[2]>>
      [] value[1] = "float" -> IF value[2] = NaN THEN Invalid ELSE value
      [] value[1] \in Container ->
           LET parts == [k \in DOMAIN value[2] |-> marshal[value[2][k]]] IN
           IF \E k \in DOMAIN parts : parts[k] = Invalid THEN Invalid ELSE <<value[1], parts>>
      [] OTHER -> value

\* json.Marshal of the value of an unknown extension, which has been copied and
\* so has no more levels than a copy may have.
MarshalJSON(value) ==
    LET at[room \in Rooms] ==
            [v \in Values |-> IF room = 0 THEN Invalid ELSE MarshalLevel(v, at[room - 1])]
    IN  at[MaxValueDepth + 1][value]

\* prfValuesToJSON.
PRFValuesToJSON(values) ==
    LET f == Fields(values, {"first", "second"}) IN
    <<"object", [name \in DOMAIN f |-> Base64URL(f[name])]>>

\* prfInputToJSON without the inputs of single credentials.
PRFInputToJSONEvalOnly(input) ==
    <<"object", Fields([eval |-> IF input.eval = Absent THEN Absent ELSE PRFValuesToJSON(input.eval)],
                       {"eval"})>>

\* prfInputToJSON, of the normalised input; the credentials stay behind.
PRFInputToJSON(input) ==
    <<"object", Fields(
        [eval |-> IF input.eval = Absent THEN Absent ELSE PRFValuesToJSON(input.eval),
         evalByCredential |->
             IF input.by = Absent THEN Absent
             ELSE <<"object", [id \in DOMAIN input.by |-> PRFValuesToJSON(input.by[id])]>>],
        {"eval", "evalByCredential"})>>

\* largeBlobInputToJSON, of the normalised input.
LargeBlobInputToJSON(input) ==
    <<"object", Fields(
        [support |-> IF input.support = "" THEN Absent ELSE <<"string", input.support>>,
         read |-> IF input.read = Absent THEN Absent ELSE <<"bool", input.read>>,
         write |-> IF input.write = Absent THEN Absent ELSE Base64URL(input.write)],
        {"support", "read", "write"})>>

\* extensionInputsToJSON.
ExtensionInputsToJSON(inputs) ==
    [id \in DOMAIN inputs |->
        CASE id = "largeBlob" -> LargeBlobInputToJSON(inputs[id][2])
          [] id = "prf" -> PRFInputToJSON(inputs[id][2])
          [] OTHER -> MarshalJSON(inputs[id])]

-----------------------------------------------------------------------------
(***************************************************************************)
(* Responses.                                                              *)
(***************************************************************************)

\* decodeBase64URL in the named fields of an object: a string there has to be
\* canonical, any other value is left to the handler.
DecodeFields(value, names) ==
    LET texts == {n \in names \cap DOMAIN value[2] : value[2][n][1] \in {"text", "string"}} IN
    IF value[1] # "object" THEN value
    ELSE IF \E n \in texts : ~IsBase64URL(value[2][n]) THEN Invalid
    ELSE <<"object", [n \in DOMAIN value[2] |->
               IF n \in texts THEN <<"bytes", value[2][n][2][2]>> ELSE value[2][n]]>>

\* prfOutputFromJSON.
PRFOutputFromJSON(value) ==
    IF value[1] = "object" /\ "results" \in DOMAIN value[2]
    THEN LET results == DecodeFields(value[2]["results"], {"first", "second"}) IN
         IF results = Invalid THEN Invalid
         ELSE <<"object", [value[2] EXCEPT !["results"] = results]>>
    ELSE value

\* largeBlobOutputFromJSON.
LargeBlobOutputFromJSON(value) == DecodeFields(value, {"blob"})

OutputFromJSON(id, value) ==
    CASE id = "prf" -> PRFOutputFromJSON(value)
      [] id = "largeBlob" -> LargeBlobOutputFromJSON(value)
      [] OTHER -> value

\* clientExtensionResultsFromJSON and ClientOutputsFromRaw, or Invalid.
ClientExtensionResultsFromJSON(results) ==
    LET outputs == [id \in DOMAIN results |-> OutputFromJSON(id, results[id])] IN
    IF \A id \in DOMAIN results : outputs[id] # Invalid /\ Clones(outputs[id])
    THEN outputs ELSE Invalid

-----------------------------------------------------------------------------
(***************************************************************************)
(* A client that follows the WebAuthn extensions it knows: the answers it  *)
(* may give to the options, where `selected' is the credential it used.    *)
(***************************************************************************)

PRFAnswers(operation, options, selected) ==
    LET fields == options[2]
        entries == IF "evalByCredential" \in DOMAIN fields THEN fields["evalByCredential"][2]
                   ELSE [id \in {} |-> Absent]
        values == IF CredentialText[selected] \in DOMAIN entries
                  THEN entries[CredentialText[selected]][2]
                  ELSE IF "eval" \in DOMAIN fields THEN fields["eval"][2] ELSE Absent
        results == ("results" :> <<"object", [name \in DOMAIN values |->
                                      Base64URL(Evaluation[values[name][2][2]])]>>)
        enabled(b) == "enabled" :> <<"bool", b>>
    IN  {<<"object", answer>> : answer \in
            IF operation = "registration"
            THEN {enabled(TRUE), enabled(FALSE)}
                 \cup IF values = Absent THEN {} ELSE {enabled(TRUE) @@ results}
            ELSE {[n \in {} |-> Absent]} \cup IF values = Absent THEN {} ELSE {results}}

LargeBlobAnswers(operation, options) ==
    LET fields == options[2] IN
    {<<"object", answer>> : answer \in
        IF operation = "registration"
        THEN {("supported" :> <<"bool", b>>) :
                 b \in IF Field(fields, "support") = "required" THEN {TRUE} ELSE BOOLEAN}
        ELSE IF "write" \in DOMAIN fields THEN {("written" :> <<"bool", b>>) : b \in BOOLEAN}
        ELSE {[n \in {} |-> Absent]}
             \cup IF Field(fields, "read") = TRUE THEN {"blob" :> Base64URL("salt")} ELSE {}}

\* What the client may put under an identifier.
Answers(operation, id, options, selected) ==
    CASE id = "prf" -> PRFAnswers(operation, options, selected)
      [] id = "largeBlob" -> LargeBlobAnswers(operation, options)
      [] id = "appid" -> {<<"bool", TRUE>>, <<"bool", FALSE>>}
      [] id \in {"appidExclude", "remoteClientDataJSON"} -> {<<"bool", TRUE>>}
      [] id = "credProps" -> {<<"object", "rk" :> <<"bool", TRUE>>>>, <<"object", [n \in {} |-> Absent]>>}
      [] id = "uvm" -> {<<"array", <<<<"array", <<<<"float", 2>>, <<"float", 4>>, <<"float", 2>>>>>>>>>>}
      [] OTHER -> {<<"bool", TRUE>>}

\* Its whole answers: an extension it does not know is left out, except that
\* remote client data it ignored would not be in the response at all.
HonestAnswers(operation, options, selected) ==
    LET answers(id) == Answers(operation, id, options[id], selected) IN
    UNION {{f \in [known -> UNION {answers(id) : id \in known}] :
               \A id \in known : f[id] \in answers(id)} :
           known \in {k \in SUBSET DOMAIN options :
                         "remoteClientDataJSON" \in DOMAIN options => "remoteClientDataJSON" \in k}}
=============================================================================
