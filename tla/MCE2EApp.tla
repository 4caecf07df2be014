------------------------------ MODULE MCE2EApp ------------------------------
(***************************************************************************)
(* Instances of E2EApp: Alice has an account and a phone, Bob's account is *)
(* created by his first registration.                                      *)
(***************************************************************************)
EXTENDS E2EApp, MCResponses, TLC

CONSTANTS aliceMail, bobMail

StrictRP == [PasskeyConfig(1) EXCEPT !.rejectCloneRisk = TRUE]

AliceOnly == aliceMail :> alice

Phone == phone :> Record(phone, alice, phoneKey, 0, TRUE)

\* The shim's three ways of filling the convenience member, and a copy that
\* differs; one registration repeats Alice's phone.
TokenRegistrations ==
    {[copy |-> copy] @@ [Registration(token, tokenKey, challenge, "platform")
                            EXCEPT !.copyAgrees = FALSE] :
        copy \in {"mirrors", "differs"}, challenge \in CeremonyIDs}
    \cup {[copy |-> "agrees"] @@ Registration(phone, phoneKey, challenge, "platform") :
             challenge \in CeremonyIDs}

\* Alice's phone with any counter and her handle, Bob's or none, and a token
\* that answers for Bob.
SomeAssertions ==
    {Assertion(phone, alice, challenge, phoneKey, count) :
        challenge \in CeremonyIDs, count \in SignCount}
    \cup {Assertion(phone, bob, challenge, phoneKey, 1) : challenge \in CeremonyIDs}
    \cup {Assertion(token, bob, challenge, tokenKey, 1) : challenge \in CeremonyIDs}

MCSymmetry ==
    Permutations(Requests) \cup Permutations(CeremonyIDs) \cup Permutations(SessionIDs)
=============================================================================
