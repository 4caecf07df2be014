---------------------------- MODULE MCQuickstart ----------------------------
(***************************************************************************)
(* Instances of Quickstart: the demo account with a phone registered       *)
(* earlier, and a token that is still to be.  The origin is the example    *)
(* one; the demo's own, a loopback origin, differs only in data.           *)
(***************************************************************************)
EXTENDS Quickstart, MCResponses, TLC

Phone == phone :> Record(phone, alice, phoneKey, 0, TRUE)

Laptop == laptop :> Record(laptop, alice, otherKey, 0, FALSE)

PhoneAndLaptop == Phone @@ Laptop

TokenRegistrations ==
    {Registration(token, tokenKey, challenge, "hybrid") : challenge \in CeremonyIDs}
    \cup {Registration(phone, phoneKey, challenge, "platform") : challenge \in CeremonyIDs}

\* Any counter of the genuine phone, the phone under another key, a handle that
\* is not the owner's, and the laptop whose UV was never initialised.
PhoneAssertions ==
    {Assertion(phone, alice, challenge, phoneKey, count) :
        challenge \in CeremonyIDs, count \in SignCount}

SomeAssertions ==
    PhoneAssertions
    \cup {Assertion(phone, alice, challenge, otherKey, 1) : challenge \in CeremonyIDs}
    \cup {Assertion(phone, bob, challenge, phoneKey, 1) : challenge \in CeremonyIDs}
    \cup {Assertion(laptop, alice, challenge, otherKey, 0) : challenge \in CeremonyIDs}

MCSymmetry ==
    Permutations(Requests) \cup Permutations(CeremonyIDs) \cup Permutations(SessionIDs)
=============================================================================
