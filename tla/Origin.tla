------------------------------- MODULE Origin -------------------------------
(***************************************************************************)
(* Origin policy of the library: which configured origins are admissible   *)
(* for a relying party identifier, and which collected client data a       *)
(* policy accepts.                                                         *)
(*                                                                         *)
(* The lists of a policy keep their order: two policies are the same only  *)
(* when their lists are.  A host name is the sequence of its labels, so    *)
(* that "equal to the RP ID or a subdomain of it" is a statement about     *)
(* suffixes.  A configured origin is a record                              *)
(*   [scheme, host, port, canonical]                                       *)
(* where port 0 means that none is written and `canonical' abstracts what  *)
(* url.Parse and the spelling checks decide: no path, query, fragment or   *)
(* user part, lower case, canonical address, valid labels, port in range.  *)
(***************************************************************************)
EXTENDS Integers, Sequences

CONSTANTS
    IPHosts,         \* the hosts that are IP addresses
    LoopbackHosts    \* "localhost" and the loopback addresses

\* The members of a list.
Members(list) == {list[i] : i \in DOMAIN list}

\* The ports that must not be spelled out.
DefaultPort == [https |-> 443, http |-> 80]

\* validateWebAuthnOrigin.
WebAuthnOriginValid(origin) ==
    /\ origin.canonical
    /\ origin.scheme \in DOMAIN DefaultPort
    /\ origin.port # DefaultPort[origin.scheme]
    /\ origin.scheme = "http" => origin.host \in LoopbackHosts

\* validateOriginPolicy.
OriginPolicyValid(policy) ==
    /\ policy.origins # << >>
    /\ \A origin \in Members(policy.origins) : WebAuthnOriginValid(origin)
    /\ \A origin \in Members(policy.topOrigins) : WebAuthnOriginValid(origin)

\* validRPID: a DNS name, never an address.
RPIDValid(rpId) == rpId # << >> /\ rpId \notin IPHosts

\* The scope test left out.
HostInAnyScope(host, rpId) == TRUE

\* host = rpID, or host ends in "." + rpID.
HostInScope(host, rpId) ==
    \E skipped \in 0 .. Len(host) :
        SubSeq(host, skipped + 1, Len(host)) = rpId

\* validateRPIDOriginPolicy.
RPIDOriginPolicyValid(rpId, policy) ==
    /\ RPIDValid(rpId)
    /\ \/ policy.related
       \/ \A origin \in Members(policy.origins) : HostInScope(origin.host, rpId)

\* verifyCollectedClientOrigin.  Client data without topOrigin has `none'
\* there; an absent crossOrigin member is FALSE.
ClientOriginAccepted(policy, clientData, none) ==
    /\ clientData.origin \in Members(policy.origins)
    /\ IF clientData.topOrigin # none
       THEN /\ clientData.crossOrigin
            /\ clientData.topOrigin \in Members(policy.topOrigins)
       ELSE clientData.crossOrigin => policy.crossOriginWithoutTop
=============================================================================
