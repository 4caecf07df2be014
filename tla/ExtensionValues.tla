--------------------------- MODULE ExtensionValues ---------------------------
(***************************************************************************)
(* Extension values as the library copies, stores and restores them.       *)
(*                                                                         *)
(* A value is a tuple: its Go type, then its content.  <<"bytes", b>> and  *)
(* <<"string", s>> name their content, whose length is Size.  Maps are     *)
(* <<"object", f>> with a function from keys, slices <<"array", s>>; the   *)
(* typed inputs are <<"PRFInput", r>>, <<"PRFValues", r>> and              *)
(* <<"LargeBlobInput", r>>, where a nil field is Absent; a type of the     *)
(* application is <<"cloner", x>> when it can copy itself (a Clone method) *)
(* and <<"other", x>> when it cannot.  <<"text", <<form, b>>>> is a string *)
(* that encodes the bytes b.  In an envelope bytes are text, which is      *)
(* <<"bytes", <<form, b>>>>, and there are no typed inputs.                *)
(*                                                                         *)
(* The code walks a value recursively, with the depth as an argument and   *)
(* a limit for it.  Here a walk is a function of the levels that are left, *)
(* and of the values of an instance.                                       *)
(***************************************************************************)
EXTENDS Integers, Sequences, FiniteSetsExt

CONSTANTS
    Absent,
    NaN,             \* a float that is not finite
    Values,          \* the Go values of an instance, with all their parts
    EncodedValues,   \* and the values in its envelopes
    Size,            \* length of a string or byte slice
    MaxValueDepth,   \* 32 in the code, for copies and for storage
    MaxValueNodes,   \* 4096 in the code, for copies and for storage
    MaxValueBytes    \* 2^20 in the code, for copies, storage and the envelope

ASSUME LimitsAssumption ==
    MaxValueDepth \in Nat /\ MaxValueNodes \in Nat /\ MaxValueBytes \in Nat

ASSUME SizeAssumption == \A content \in DOMAIN Size : Size[content] \in Nat

Scalar == {"null", "bool", "int", "uint"}

Container == {"array", "object"}

\* Length of unpadded base64url.
EncodedLength(n) == (4 * n + 2) \div 3

SizeOf(content) == IF content = Absent THEN 0 ELSE Size[content]

Fields(f, names) == [name \in {n \in names : f[n] # Absent} |-> f[name]]

-----------------------------------------------------------------------------
(***************************************************************************)
(* Budgets.  Work is what a walk consumes, whether it meets an error, and  *)
(* what it returns otherwise.  A budget is consumed piece by piece and the *)
(* walk fails at the first excess; since nothing is given back, that is to *)
(* say that the sums stay within the limits.                               *)
(***************************************************************************)

Work(nodes, bytes, ok, result) ==
    [nodes |-> nodes, bytes |-> bytes, ok |-> ok, result |-> result]

WithinBudget(work) ==
    work.ok /\ work.nodes <= MaxValueNodes /\ work.bytes <= MaxValueBytes

Total(f) == FoldFunction(+, 0, f)

\* The levels a walk has left: one more than the limit at the root, none at a
\* value that is too deep.
Rooms == 0 .. MaxValueDepth + 1

TooDeep(value) == Work(0, 0, FALSE, value)

\* The work of a container: itself and, for each entry, the key of a map and
\* the work of the value, which is inner[k].
ContainerWork(type, inner) ==
    LET named == type = "object" IN
    Work(1 + Total([k \in DOMAIN inner |-> inner[k].nodes + IF named THEN 1 ELSE 0]),
         Total([k \in DOMAIN inner |-> inner[k].bytes + IF named THEN Size[k] ELSE 0]),
         \A k \in DOMAIN inner : inner[k].ok,
         <<type, [k \in DOMAIN inner |-> inner[k].result]>>)

\* The work for a whole map of extension values, given the work of each.
ValuesWork(inner) ==
    Work(Total([id \in DOMAIN inner |-> inner[id].nodes + 1]),
         Total([id \in DOMAIN inner |-> inner[id].bytes + Size[id]]),
         \A id \in DOMAIN inner : inner[id].ok,
         [id \in DOMAIN inner |-> inner[id].result])

\* directCloneCost of the two PRF types.
PRFValuesBytes(values) == SizeOf(values.first) + SizeOf(values.second)
PRFInputCost(input) ==
    LET credentials == IF input.allow = Absent THEN <<>> ELSE input.allow
        entries == IF input.by = Absent THEN {} ELSE DOMAIN input.by
    IN  [nodes |-> 1 + Len(credentials) + 3 * Cardinality(entries)
                     + IF input.eval = Absent THEN 0 ELSE 2,
         bytes |-> MapThenSumSet(LAMBDA i : Size[credentials[i]], DOMAIN credentials)
                     + MapThenSumSet(LAMBDA id : Size[id] + PRFValuesBytes(input.by[id]), entries)
                     + IF input.eval = Absent THEN 0 ELSE PRFValuesBytes(input.eval)]

\* A level of cloneValueAt; `clone' is the walk of the next.
CloneLevel(value, clone) ==
    CASE value[1] \in {"string", "bytes"} -> Work(1, Size[value[2]], TRUE, value)
      [] value[1] = "text" -> Work(1, EncodedLength(Size[value[2][2]]), TRUE, value)
      [] value[1] \in Scalar \cup {"float", "cloner"} -> Work(1, 0, TRUE, value)
      [] value[1] \in Container ->
           ContainerWork(value[1], [k \in DOMAIN value[2] |-> clone[value[2][k]]])
      [] value[1] = "PRFValues" -> Work(3, PRFValuesBytes(value[2]), TRUE, value)
      [] value[1] = "PRFInput" ->
           LET cost == PRFInputCost(value[2]) IN Work(cost.nodes, cost.bytes, TRUE, value)
      [] value[1] = "LargeBlobInput" -> Work(3, SizeOf(value[2].write), TRUE, value)
      [] OTHER -> Work(1, 0, FALSE, value)

\* cloneValueAt.
CloneValueAt(levels) ==
    LET at[room \in Rooms] ==
            [value \in Values |->
                IF room = 0 THEN TooDeep(value) ELSE CloneLevel(value, at[room - 1])]
    IN  at[levels]

\* CloneValue, NewRawValue, CloneInput and NormalizeInput succeed.  The copy
\* itself is the value: nothing else in the model aliases it.
Clones(value) == WithinBudget(CloneValueAt(MaxValueDepth + 1)[value])

-----------------------------------------------------------------------------
(***************************************************************************)
(* Storage.                                                                *)
(***************************************************************************)

\* prfValuesObject that leaves out an empty second value.
PRFValuesObjectNonEmpty(values) ==
    LET second == IF values.second # Absent /\ Size[values.second] = 0
                  THEN Absent ELSE values.second
        f == Fields([first |-> values.first, second |-> second], {"first", "second"})
    IN  <<"object", [name \in DOMAIN f |-> <<"bytes", f[name]>>]>>

\* prfValuesObject; validated values always have a first one.
PRFValuesObject(values) ==
    LET f == Fields([first |-> values.first, second |-> values.second], {"first", "second"})
    IN  <<"object", [name \in DOMAIN f |-> <<"bytes", f[name]>>]>>

\* normalizeBuiltInValue.
NormalizeBuiltInValue(value) ==
    CASE value[1] = "PRFValues" -> PRFValuesObject(value[2])
      [] value[1] = "PRFInput" ->
           LET r == value[2] IN
           <<"object", Fields(
               [eval |-> IF r.eval = Absent THEN Absent ELSE PRFValuesObject(r.eval),
                evalByCredential |->
                    IF r.by = Absent THEN Absent
                    ELSE <<"object", [id \in DOMAIN r.by |-> PRFValuesObject(r.by[id])]>>,
                allowCredentials |->
                    IF r.allow = Absent THEN Absent
                    ELSE <<"array", [i \in DOMAIN r.allow |-> <<"string", r.allow[i]>>]>>],
               {"eval", "evalByCredential", "allowCredentials"})>>
      [] value[1] = "LargeBlobInput" ->
           LET r == value[2] IN
           <<"object", Fields(
               [support |-> IF r.support = "" THEN Absent ELSE <<"string", r.support>>,
                read |-> IF r.read = Absent THEN Absent ELSE <<"bool", r.read>>,
                write |-> IF r.write = Absent THEN Absent ELSE <<"bytes", r.write>>],
               {"support", "read", "write"})>>
      [] OTHER -> value

\* A level of encodeValueAt: bytes become text, a type it does not know is an
\* error.
EncodeLevel(raw, encode) ==
    LET value == NormalizeBuiltInValue(raw) IN
    CASE value[1] = "string" -> Work(1, Size[value[2]], TRUE, value)
      [] value[1] = "bytes" ->
           Work(1, Size[value[2]], TRUE, <<"bytes", <<"canonical", value[2]>>>>)
      [] value[1] = "float" -> Work(1, 0, value[2] # NaN, value)
      [] value[1] \in Scalar -> Work(1, 0, TRUE, value)
      [] value[1] \in Container ->
           ContainerWork(value[1], [k \in DOMAIN value[2] |-> encode[value[2][k]]])
      [] OTHER -> Work(1, 0, FALSE, value)

\* encodeValueAt.
EncodeValueAt(levels) ==
    LET at[room \in Rooms] ==
            [value \in Values |->
                IF room = 0 THEN TooDeep(value) ELSE EncodeLevel(value, at[room - 1])]
    IN  at[levels]

EncodeValue(value) == EncodeValueAt(MaxValueDepth + 1)[value]

\* A level of decodeValueAt, with validateEncodedValue: an encoded value whose
\* members do not fit its type is <<"other", x>>.
DecodeLevel(value, decode) ==
    CASE value[1] = "string" -> Work(1, Size[value[2]], TRUE, value)
      [] value[1] = "bytes" ->
           Work(1, EncodedLength(Size[value[2][2]]), value[2][1] = "canonical",
                <<"bytes", value[2][2]>>)
      [] value[1] = "float" -> Work(1, 0, value[2] # NaN, value)
      [] value[1] \in Scalar -> Work(1, 0, TRUE, value)
      [] value[1] \in Container ->
           ContainerWork(value[1], [k \in DOMAIN value[2] |-> decode[value[2][k]]])
      [] OTHER -> Work(1, 0, FALSE, value)

\* decodeValueAt.
DecodeValueAt(levels) ==
    LET at[room \in Rooms] ==
            [value \in EncodedValues |->
                IF room = 0 THEN TooDeep(value) ELSE DecodeLevel(value, at[room - 1])]
    IN  at[levels]

DecodeValue(value) == DecodeValueAt(MaxValueDepth + 1)[value]

-----------------------------------------------------------------------------
(***************************************************************************)
(* The values of an instance.                                              *)
(***************************************************************************)

\* A type and a content; the parts of a container are values of the set.
ValueIn(value, values) ==
    /\ value = <<value[1], value[2]>>
    /\ value[1] \in Container =>
           IsFiniteSet(DOMAIN value[2]) /\ value[2] \in [DOMAIN value[2] -> values]
    /\ value[1] = "object" => DOMAIN value[2] \subseteq DOMAIN Size
    /\ value[1] = "string" => value[2] \in DOMAIN Size

ASSUME ValuesAssumption ==
    \A value \in Values :
        /\ value # Absent /\ value[2] # Absent
        /\ ValueIn(value, Values)
        /\ ValueIn(NormalizeBuiltInValue(value), Values)
        /\ value[1] = "bytes" => value[2] \in DOMAIN Size

ASSUME EncodedValuesAssumption ==
    \A value \in EncodedValues :
        /\ ValueIn(value, EncodedValues)
        /\ value[1] = "bytes" =>
               value[2] = <<value[2][1], value[2][2]>> /\ value[2][2] \in DOMAIN Size

\* What one side writes is a value of the other.
ASSUME ClosedAssumption ==
    \A room \in Rooms :
        /\ \A value \in Values :
               EncodeValueAt(room)[value].ok => EncodeValueAt(room)[value].result \in EncodedValues
        /\ \A value \in EncodedValues :
               DecodeValueAt(room)[value].ok => DecodeValueAt(room)[value].result \in Values
=============================================================================
