----------------------------- MODULE TrustPolicy -----------------------------
(***************************************************************************)
(* The built-in attestation trust policies: what each says of a verified   *)
(* statement, and how AllOf and AnyOf combine their children.              *)
(*                                                                         *)
(* A policy is a record with its kind in `op'; Nil is a nil interface      *)
(* value.  A provider the caller supplies is "nil", "failing" or "up"; an  *)
(* answering one decides by the certificates' issuers and statuses or by   *)
(* the AAGUID.  A request is [format, aaguid, result], the result being    *)
(* [type, path, certificates, ...] of the format's verifier.               *)
(***************************************************************************)
EXTENDS Integers, Sequences, FiniteSetsExt

CONSTANTS
    Nil,
    Policies,        \* the policies, with every child of one of them
    PolicyDepth      \* how deep each of them is nested

Outcomes == {"accept", "reject", "error"}

Decide(condition) == IF condition THEN "accept" ELSE "reject"

\* AcceptNone, AcceptSelf, AllowTypes, RejectNone and RejectSelf.
AllowTypes(types) == [op |-> "types", allowed |-> types]
RejectTypes(types) == [op |-> "not types", rejected |-> types]

\* AllowFormats and RequireAAGUID.
AllowFormats(formats) == [op |-> "formats", allowed |-> formats]
RequireAAGUID(aaguids) == [op |-> "aaguid", allowed |-> aaguids]

\* RequireTrustedRoots, RequireTrustedMetadata, RequireCertificateStatus.
RequireTrustedRoots(provider, roots) ==
    [op |-> "roots", provider |-> provider, roots |-> roots]
RequireTrustedMetadata(provider, trusted) ==
    [op |-> "metadata", provider |-> provider, trusted |-> trusted]
RequireCertificateStatus(provider, allowed) ==
    [op |-> "status", provider |-> provider,
     allowed |-> IF allowed = {} THEN {"good"} ELSE allowed]

AllOf(policies) == [op |-> "all", policies |-> policies]
AnyOf(policies) == [op |-> "any", policies |-> policies]

HasX5C(request) == request.result.path = "x5c" /\ request.result.certificates # <<>>

Issuer(request) == request.result.certificates[Len(request.result.certificates)].issuer

\* A missing status is unknown.
Status(request) ==
    LET status == request.result.certificates[1].status IN
    IF status = "" THEN "unknown" ELSE status

\* What a policy without children says when its provider, if any, answers.
LeafAccepts(policy, request) ==
    CASE policy.op = "types" -> request.result.type \in policy.allowed
      [] policy.op = "not types" -> request.result.type \notin policy.rejected
      [] policy.op = "formats" -> request.format \in policy.allowed
      [] policy.op = "aaguid" -> request.aaguid \in policy.allowed
      [] policy.op = "roots" -> HasX5C(request) /\ Issuer(request) \in policy.roots
      [] policy.op = "metadata" -> request.aaguid \in policy.trusted
      [] policy.op = "status" -> HasX5C(request) /\ Status(request) \in policy.allowed

\* EvaluateAttestationTrust of a policy without children.  The policies about
\* certificates reject a statement without any before they ask.
EvaluateLeaf(policy, request) ==
    IF policy.op \notin {"roots", "metadata", "status"}
    THEN Decide(LeafAccepts(policy, request))
    ELSE IF policy.provider = "nil" THEN "error"
    ELSE IF policy.op # "metadata" /\ ~HasX5C(request) THEN "reject"
    ELSE IF policy.provider = "failing" THEN "error"
    ELSE Decide(LeafAccepts(policy, request))

\* The outcome of children tried in order until one of them ends the search.
FirstOf(outcomes, ends, otherwise) ==
    LET stops == {i \in DOMAIN outcomes : outcomes[i] \in ends} IN
    IF stops = {} THEN otherwise ELSE outcomes[Min(stops)]

\* AnyOf that passes over a child in error.
AnyOfOutcomeLenient(outcomes) == FirstOf(outcomes, {"accept"}, "reject")

\* anyOfPolicy and allOfPolicy, given their children's outcomes.
AnyOfOutcome(outcomes) == FirstOf(outcomes, {"accept", "error"}, "reject")

\* AllOf that stops at the first rejection only.
AllOfOutcomeLenient(outcomes) == FirstOf(outcomes, {"reject"}, "accept")

AllOfOutcome(outcomes) == FirstOf(outcomes, {"reject", "error"}, "accept")

\* The children of a combination.
Children(policy) ==
    IF policy # Nil /\ policy.op \in {"all", "any"}
    THEN {policy.policies[i] : i \in DOMAIN policy.policies} ELSE {}

\* A policy is nil, a leaf, or combines a list of policies that were there
\* before it: AllOf and AnyOf copy the list they are given.
ASSUME PolicyAssumption ==
    /\ PolicyDepth \in [Policies -> Nat]
    /\ \A policy \in Policies \ {Nil} :
           \/ policy.op \in {"types", "not types", "formats", "aaguid"}
           \/ policy.op \in {"roots", "metadata", "status"}
                  /\ policy.provider \in {"nil", "failing", "up"}
           \/ policy.op \in {"all", "any"}
                  /\ policy.policies \in Seq(Children(policy))
    /\ \A policy \in Policies : \A child \in Children(policy) :
           child \in Policies /\ PolicyDepth[child] < PolicyDepth[policy]

\* EvaluateAttestationTrust, given the outcomes of the children.  A combination
\* without children, and one that reaches a nil child, is a configuration error.
EvaluateStep(policy, request, outcome) ==
    IF policy = Nil THEN "error"
    ELSE IF policy.op \notin {"all", "any"} THEN EvaluateLeaf(policy, request)
    ELSE IF policy.policies = <<>> THEN "error"
    ELSE LET outcomes == [i \in DOMAIN policy.policies |-> outcome[policy.policies[i]]]
         IN  IF policy.op = "all" THEN AllOfOutcome(outcomes) ELSE AnyOfOutcome(outcomes)

\* EvaluateAttestationTrust.
Evaluate(policy, request) ==
    LET outcome[p \in Policies] == EvaluateStep(p, request, outcome) IN outcome[policy]

-----------------------------------------------------------------------------

\* What a policy means, with no order among its children: AllOf is "every one
\* of a non-empty list", AnyOf is "some one", and a provider that does not
\* answer grants nothing.
MeansStep(policy, request, means) ==
    /\ policy # Nil
    /\ CASE policy.op = "all" ->
              policy.policies # <<>> /\ \A i \in DOMAIN policy.policies : means[policy.policies[i]]
         [] policy.op = "any" -> \E i \in DOMAIN policy.policies : means[policy.policies[i]]
         [] policy.op \in {"roots", "metadata", "status"} ->
              policy.provider = "up" /\ LeafAccepts(policy, request)
         [] OTHER -> LeafAccepts(policy, request)

Means(policy, request) ==
    LET means[p \in Policies] == MeansStep(p, request, means) IN means[policy]

\* Somewhere in the policy a provider is missing or failing, a child is nil or
\* a list is empty.
MayFailStep(policy, mayFail) ==
    \/ policy = Nil
    \/ /\ policy.op \in {"all", "any"}
       /\ policy.policies = <<>> \/ \E i \in DOMAIN policy.policies : mayFail[policy.policies[i]]
    \/ policy.op \in {"roots", "metadata", "status"} /\ policy.provider # "up"

MayFail(policy) ==
    LET mayFail[p \in Policies] == MayFailStep(p, mayFail) IN mayFail[policy]
=============================================================================
