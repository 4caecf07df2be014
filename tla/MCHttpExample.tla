---------------------------- MODULE MCHttpExample ----------------------------
(***************************************************************************)
(* Instances of HttpExample: a phone registered earlier, a token that is   *)
(* still to be, and registrations with and without a credProps output.     *)
(***************************************************************************)
EXTENDS HttpExample, MCResponses, TLC

Phone == phone :> Record(phone, alice, phoneKey, 0, TRUE)

\* The example takes the defaults of Config: user verification is preferred.
DefaultConfig ==
    [PasskeyConfig(1) EXCEPT !.registrationUV = "preferred",
                             !.authenticationUV = "preferred"]

TokenRegistrations ==
    {[Registration(token, tokenKey, challenge, "platform")
         EXCEPT !.clientOutputs = {"credProps"}, !.failing = failing] :
        challenge \in CeremonyIDs, failing \in {{}, {"credProps"}}}

SomeAssertions ==
    {Assertion(phone, handle, challenge, phoneKey, count) :
        handle \in {alice, None}, challenge \in CeremonyIDs, count \in SignCount}
    \cup {Assertion(token, alice, challenge, key, 1) :
             challenge \in CeremonyIDs, key \in {tokenKey, phoneKey}}

MCSymmetry == Permutations(Requests) \cup Permutations(CeremonyIDs)
=============================================================================
