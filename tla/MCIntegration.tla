---------------------------- MODULE MCIntegration ----------------------------
(***************************************************************************)
(* Instances of Integration: two accounts, the configuration of            *)
(* preset.PasskeyConfig for one origin, and the responses browsers send.   *)
(***************************************************************************)
EXTENDS IntegrationRefinement, MCResponses, TLC

-----------------------------------------------------------------------------
(***************************************************************************)
(* Registration responses.                                                 *)
(***************************************************************************)

\* Either authenticator answers any challenge; one reports an attachment the
\* library does not know.
SomeRegistrations ==
    {Registration(phone, phoneKey, challenge, "hybrid") : challenge \in CeremonyIDs}
    \cup {Registration(token, tokenKey, challenge, "cross-platform") :
             challenge \in CeremonyIDs}

OneRegistration ==
    {Registration(phone, phoneKey, challenge, "hybrid") : challenge \in CeremonyIDs}

-----------------------------------------------------------------------------
(***************************************************************************)
(* Assertions.                                                             *)
(***************************************************************************)

\* Any counter of the genuine key, with or without the user handle; and the
\* same assertion under another key, or with another account's handle.
SomeAssertions ==
    {Assertion(phone, alice, challenge, phoneKey, count) :
        challenge \in CeremonyIDs, count \in SignCount}
    \cup {Assertion(phone, handle, challenge, key, 2) :
             handle \in {None, bob}, challenge \in CeremonyIDs,
             key \in {phoneKey, otherKey}}
    \cup {Assertion(token, bob, challenge, tokenKey, count) :
             challenge \in CeremonyIDs, count \in {0, 1}}

OneAssertion ==
    {Assertion(phone, alice, challenge, phoneKey, 1) : challenge \in CeremonyIDs}

AnyCounter ==
    {Assertion(phone, alice, challenge, phoneKey, count) :
        challenge \in CeremonyIDs, count \in SignCount}

\* Alice's phone is one write away from the version limit less one, Bob's
\* token at the last version that can still be written, his laptop was
\* registered without user verification.
StoredCredentials ==
    (phone :> [record |-> Record(phone, alice, phoneKey, 0, TRUE), version |-> MaxVersion - 2])
    @@ (token :> [record |-> Record(token, bob, tokenKey, 0, TRUE), version |-> MaxVersion])
    @@ (laptop :> [record |-> Record(laptop, bob, otherKey, 0, FALSE), version |-> 1])

AlicePhone ==
    phone :> [record |-> Record(phone, alice, phoneKey, 0, TRUE), version |-> 1]

NoCredentials == [c \in {} |-> Idle]
NoGrants == [s \in BrowserSessions |-> None]
AliceGrants == [s \in BrowserSessions |-> alice]

\* Handler slots, tokens and session identifiers are interchangeable: the
\* response sets are closed under permutations of the challenges.
MCSymmetry ==
    Permutations(Requests) \cup Permutations(CeremonyIDs) \cup Permutations(SessionIDs)
=============================================================================
