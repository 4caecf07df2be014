----------------------------- MODULE StorageJSON -----------------------------
(***************************************************************************)
(* Package storagejson: ceremony states and credential records as          *)
(* versioned JSON envelopes.                                               *)
(*                                                                         *)
(* A stored item is a record with its `kind' and                           *)
(*   challenge, user, expires, inputs, bindings, allow   for a state,      *)
(*   id, user, key, rest                                 for a record;     *)
(* `user' is Absent where a login is not bound to a user.  Fields that are *)
(* copied without a conversion (rpId, origin policy, flags, ...) are       *)
(* `rest'.  Text that stands for bytes or for a time is <<form, value>>,   *)
(* where only the form "canonical" survives decoding.  An envelope is      *)
(* [size, strict, version, kind, payloads]: `strict' when the JSON has no  *)
(* unknown or duplicate member, `payloads' a function from the kinds that  *)
(* are present.                                                            *)
(***************************************************************************)
EXTENDS ExtensionHandlers, Extensions

CONSTANTS
    Overhead,          \* bytes of JSON around the values of an envelope
    NodeOverhead,      \* and around each value
    DecodableKeys      \* keys the caller's COSE decoder reads back

ASSUME OverheadAssumption == Overhead \in Nat \ {0} /\ NodeOverhead \in Nat

EnvelopeVersion == 1

States == {"registration-state", "authentication-state"}

Kinds == States \cup {"credential-record"}

Text(value) == <<"canonical", value>>

-----------------------------------------------------------------------------
(***************************************************************************)
(* Encoding.                                                               *)
(***************************************************************************)

\* The Validate methods, for what storage does not merely copy.
Validates(item) ==
    IF item.kind = "credential-record" THEN item.key # Absent /\ item.rest.valid
    ELSE /\ item.kind = "registration-state" => item.user # Absent
         /\ item.rest.valid
         /\ BindingStateValid(DOMAIN item.inputs, item.bindings)
         /\ (item.kind = "authentication-state" /\ "largeBlob" \in DOMAIN item.inputs) =>
                LET input == ValidateLargeBlobInput("authentication", item.inputs["largeBlob"])
                IN  /\ input # Invalid
                    /\ input[2].write # Absent => Len(item.allow) = 1

\* encodeExtensionValues.
ExtensionValuesEncode(inputs) ==
    /\ BoundedIDs(DOMAIN inputs)
    /\ \A id \in DOMAIN inputs : Clones(inputs[id])
    /\ WithinBudget(ValuesWork([id \in DOMAIN inputs |-> EncodeValue(inputs[id])]))

\* registrationStateDTO and authenticationStateDTO; a member that is left out
\* is Text(Absent).
StatePayload(state) ==
    [challenge |-> Text(state.challenge),
     user |-> Text(state.user),
     expires |-> Text(state.expires),
     inputs |-> [id \in DOMAIN state.inputs |-> EncodeValue(state.inputs[id]).result],
     bindings |-> state.bindings,
     allow |-> [i \in DOMAIN state.allow |-> Text(state.allow[i])],
     rest |-> state.rest]

\* credentialRecordDTO.
RecordPayload(record) ==
    [id |-> Text(record.id), user |-> Text(record.user), key |-> Text(record.key),
     rest |-> record.rest]

Payload(item) ==
    IF item.kind = "credential-record" THEN RecordPayload(item) ELSE StatePayload(item)

\* Length of the JSON: the text of every value is part of it.
EncodedSize(item) ==
    IF item.kind = "credential-record" THEN Overhead
    ELSE LET values == Payload(item).inputs
             work == ValuesWork([id \in DOMAIN values |-> DecodeValue(values[id])])
         IN  Overhead + work.bytes + NodeOverhead * work.nodes

\* marshalEnvelope.
Envelope(item) ==
    [size |-> EncodedSize(item), strict |-> TRUE, version |-> EnvelopeVersion,
     kind |-> item.kind, payloads |-> [kind \in {item.kind} |-> Payload(item)]]

\* marshalEnvelope without the limit.
EnvelopeFitsAny(envelope) == TRUE

\* The limit of marshalEnvelope.
EnvelopeFits(envelope) == envelope.size <= MaxValueBytes

\* MarshalRegistrationState, MarshalAuthenticationState, MarshalCredentialRecord.
Marshals(item) ==
    /\ Validates(item)
    /\ item.kind \in States => ExtensionValuesEncode(item.inputs)
    /\ EnvelopeFits(Envelope(item))

-----------------------------------------------------------------------------
(***************************************************************************)
(* Decoding.                                                               *)
(***************************************************************************)

\* unmarshalEnvelope that looks for the payload it wants and nothing else.
EnvelopeOpensByPayload(envelope, kind) ==
    /\ envelope.size \in 1 .. MaxValueBytes /\ envelope.strict
    /\ envelope.version = EnvelopeVersion
    /\ kind \in DOMAIN envelope.payloads

\* unmarshalEnvelope.
EnvelopeOpens(envelope, kind) ==
    /\ envelope.size \in 1 .. MaxValueBytes /\ envelope.strict
    /\ envelope.version = EnvelopeVersion
    /\ envelope.kind = kind
    /\ DOMAIN envelope.payloads = {kind}

\* decodeBytes and parseTime.
Canonical(text) == text[1] = "canonical"

\* decodeExtensionValues with a budget of its own for each extension.
ExtensionValuesDecodeEach(values) ==
    /\ BoundedIDs(DOMAIN values)
    /\ \A id \in DOMAIN values :
           WithinBudget(DecodeValue(values[id])) /\ Clones(DecodeValue(values[id]).result)

\* decodeExtensionValues; the budget is for all extensions together.
ExtensionValuesDecode(values) ==
    /\ BoundedIDs(DOMAIN values)
    /\ WithinBudget(ValuesWork([id \in DOMAIN values |-> DecodeValue(values[id])]))
    /\ \A id \in DOMAIN values : Clones(DecodeValue(values[id]).result)

\* Every conversion of a state's payload succeeds.
StateDecodes(payload) ==
    /\ Canonical(payload.challenge) /\ Canonical(payload.expires) /\ Canonical(payload.user)
    /\ \A i \in DOMAIN payload.allow : Canonical(payload.allow[i])
    /\ ExtensionValuesDecode(payload.inputs)

\* And of a record's; the key is read by the caller's decoder.
RecordDecodes(payload) ==
    /\ Canonical(payload.id) /\ Canonical(payload.user) /\ Canonical(payload.key)
    /\ payload.key[2] \in DecodableKeys

\* The state a payload decodes to.
StateFrom(payload, kind) ==
    [kind |-> kind, challenge |-> payload.challenge[2], user |-> payload.user[2],
     expires |-> payload.expires[2],
     inputs |-> [id \in DOMAIN payload.inputs |-> DecodeValue(payload.inputs[id]).result],
     bindings |-> payload.bindings,
     allow |-> [i \in DOMAIN payload.allow |-> payload.allow[i][2]],
     rest |-> payload.rest]

\* The record a payload decodes to.
RecordFrom(payload) ==
    [kind |-> "credential-record", id |-> payload.id[2], user |-> payload.user[2],
     key |-> payload.key[2], rest |-> payload.rest]

Item(payload, kind) ==
    IF kind \in States THEN StateFrom(payload, kind) ELSE RecordFrom(payload)

\* UnmarshalRegistrationState, UnmarshalAuthenticationState and
\* UnmarshalCredentialRecord succeed.
Unmarshals(envelope, kind) ==
    LET payload == envelope.payloads[kind] IN
    /\ EnvelopeOpens(envelope, kind)
    /\ IF kind \in States THEN StateDecodes(payload) ELSE RecordDecodes(payload)
    /\ Validates(Item(payload, kind))

\* What they return then.
Unmarshal(envelope, kind) == Item(envelope.payloads[kind], kind)
=============================================================================
