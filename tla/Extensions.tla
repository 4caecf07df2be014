----------------------------- MODULE Extensions -----------------------------
(***************************************************************************)
(* Extension plumbing of the library, without the individual handlers: the *)
(* handler registry with its frozen revisions, the preparation of inputs   *)
(* when a ceremony starts, the bindings written into the ceremony state,   *)
(* and what happens to outputs when it finishes.                           *)
(*                                                                         *)
(* A registry is a record [nil, handlers]: `handlers' maps the registered  *)
(* identifiers to the revision of their handler, and is empty for a nil    *)
(* registry.  Inputs map identifiers to BOOLEAN: would the handler's       *)
(* ValidateInput accept the value.  Bindings map identifiers to revisions; *)
(* the sorted, duplicate-free slice of the code is one encoding of that.   *)
(***************************************************************************)
EXTENDS Integers, FiniteSets

CONSTANTS
    MaxEntries,      \* extension.MaxEntries, 64 in the code
    InvalidIDs       \* identifiers outside the WebAuthn identifier grammar

ASSUME MaxEntriesAssumption == MaxEntries \in Nat

NoBindings == [id \in {} |-> 0]

\* Identifiers this package reserves, with the handler revision each requires.
BuiltInBinding ==
    [id \in {"appid", "appidExclude", "uvm", "credProps", "largeBlob", "prf",
             "remoteClientDataJSON"}
        |-> IF id = "remoteClientDataJSON" THEN "webauthn-ed-20260730"
            ELSE "webauthn-3-20260825"]

\* A nil *Registry: it contains nothing.
NilRegistry == [nil |-> TRUE, handlers |-> NoBindings]

\* protocolidentifier.Valid for every identifier of a set, and the entry
\* limit that every extension map is held to.
BoundedIDs(ids) ==
    /\ Cardinality(ids) <= MaxEntries
    /\ ids \cap InvalidIDs = {}

\* NewRegistry: a reserved identifier keeps its own revision.
RegistryValid(registry) ==
    /\ BoundedIDs(DOMAIN registry.handlers)
    /\ \A id \in DOMAIN registry.handlers \cap DOMAIN BuiltInBinding :
           registry.handlers[id] = BuiltInBinding[id]

\* prepareExtensionInputs that treats a reserved identifier without a handler
\* like any unknown one.
PrepareAcceptsReserved(inputs, registry, rejectUnknown) ==
    \/ DOMAIN inputs = {}
    \/ /\ BoundedIDs(DOMAIN inputs)
       /\ ~registry.nil
       /\ \A id \in DOMAIN inputs :
              IF id \in DOMAIN registry.handlers THEN inputs[id] ELSE ~rejectUnknown

\* prepareExtensionInputs succeeds.
PrepareAccepts(inputs, registry, rejectUnknown) ==
    \/ DOMAIN inputs = {}
    \/ /\ BoundedIDs(DOMAIN inputs)
       /\ ~registry.nil
       /\ \A id \in DOMAIN inputs :
              IF id \in DOMAIN registry.handlers
              THEN inputs[id]
              ELSE id \notin DOMAIN BuiltInBinding /\ ~rejectUnknown

\* The bindings prepareExtensionInputs returns: one for every input a
\* registered handler normalised.
PreparedBindings(inputs, registry) ==
    [id \in DOMAIN inputs \cap DOMAIN registry.handlers
        |-> registry.handlers[id]]

\* validateRemoteClientDataInput: remote client data that a registered handler
\* accepted was written for this ceremony's challenge.
RemoteClientDataAccepts(remote, none, registry, challenge) ==
    (remote # none /\ "remoteClientDataJSON" \in DOMAIN registry.handlers)
        => remote.parses /\ remote.challenge = challenge

\* verifyRemoteClientDataBinding: the response repeats it unchanged.
RemoteClientDataBound(remote, none, bindings, clientData) ==
    (remote # none /\ "remoteClientDataJSON" \in DOMAIN bindings)
        => clientData = remote

\* validateLargeBlobCredentialContext: a write names its only credential;
\* `allowed' is the length of the allow list.
LargeBlobContextValid(write, allowed) == write => allowed = 1

\* validateRequestedExtensionIDs and validateExtensionBindingState on a
\* stored ceremony state.
BindingStateValid(requested, bindings) ==
    /\ BoundedIDs(requested)
    /\ DOMAIN bindings \subseteq requested
    /\ \A id \in requested \cap DOMAIN BuiltInBinding :
           id \in DOMAIN bindings /\ bindings[id] = BuiltInBinding[id]

\* validateFinishExtensionBindings without its second case: an extension
\* nobody knew at start may be handled at finish.
FinishBindingsForgetUnbound(requested, bindings, registry) ==
    \A id \in requested \cap DOMAIN bindings :
        id \in DOMAIN registry.handlers /\ registry.handlers[id] = bindings[id]

\* validateFinishExtensionBindings: the handler that verifies outputs is the
\* one that normalised the input, or there was none and there is none.
FinishBindingsMatch(requested, bindings, registry) ==
    \A id \in requested :
        IF id \in DOMAIN bindings
        THEN /\ id \in DOMAIN registry.handlers
             /\ registry.handlers[id] = bindings[id]
        ELSE id \notin DOMAIN registry.handlers

\* validateClientExtensionResults.
ClientResultsValid(outputs) == BoundedIDs(outputs)

\* What verifyExtension does with one identifier.  `outputs' are the
\* identifiers with a client or an authenticator output.
Disposition(id, requested, outputs, registry, policy) ==
    LET known == id \in DOMAIN registry.handlers IN
    IF /\ id \in outputs
       /\ \/ ~known /\ policy.rejectUnknown
          \/ id \notin requested /\ policy.rejectUnrequested
    THEN "reject"
    ELSE IF id \in requested /\ known THEN "verify" ELSE "preserve raw"

\* verifyExtensions returns no error.  `failing' are the identifiers whose
\* handler's VerifyOutput would return one.
ExtensionsVerify(requested, outputs, failing, registry, policy) ==
    /\ BoundedIDs(requested \cup outputs)
    /\ \A id \in requested \cup outputs :
           LET disposition ==
                   Disposition(id, requested, outputs, registry, policy)
           IN  /\ disposition # "reject"
               /\ disposition = "verify" => id \notin failing

\* The results: which identifiers a handler interpreted, and under which
\* revision; every other one is preserved raw and not accepted.
ExtensionResults(requested, outputs, registry, policy) ==
    [id \in {i \in requested \cup outputs :
                Disposition(i, requested, outputs, registry, policy) = "verify"}
        |-> registry.handlers[id]]
=============================================================================
