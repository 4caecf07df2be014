----------------------------- MODULE Attestation -----------------------------
(***************************************************************************)
(* Verification of a registration's attestation: the registry lookup, the  *)
(* format's verifier or, for a compound statement, the loop over its       *)
(* sub-statements, and then the relying party's trust policy.  The context *)
(* of the request may be cancelled, and time passes, at any point.         *)
(***************************************************************************)
EXTENDS AttestationFormats, TrustPolicy

CONSTANTS
    Registered,      \* formats in the registry, "compound" among them or not
    SubRegistered,   \* formats in the compound verifier's own registry
    Inputs,          \* what is presented: [ceremony, object, threshold, policy],
                     \* i.e. [authData, hash, key, alg, conveyance], an attestation
                     \* object [format, statement], a compound policy
                     \* [minimum, all, maximum] and a trust policy, which may be Nil
    InvalidFormats,  \* formats outside the identifier grammar
    DefaultMaxStatements,      \* 16 in the code
    MaxConfiguredStatements,   \* 64 in the code
    Start, MaxTime   \* the clock's range

ASSUME AttestationAssumption ==
    /\ Start \in Nat /\ MaxTime \in Nat
    /\ DefaultMaxStatements \in Nat /\ MaxConfiguredStatements \in Nat
    /\ 2 <= DefaultMaxStatements /\ DefaultMaxStatements <= MaxConfiguredStatements

\* The registered verifiers are the library's; what the ceremony decoded has
\* the types the code gives it.
ASSUME RegistryAssumption ==
    /\ Registered \subseteq Formats \cup {"compound"}
    /\ SubRegistered \subseteq Formats

ASSUME InputsAssumption ==
    /\ Absent \notin Inputs
    /\ \A i \in Inputs :
           /\ i.policy \in Policies
           /\ i.threshold.minimum \in Int /\ i.threshold.maximum \in Int
           /\ i.threshold.all \in BOOLEAN
           /\ i.ceremony.key.exponent \in Nat
           /\ i.object.format = "compound" =>
                  LET subs == i.object.statement.subs IN
                  subs \in Seq({subs[k] : k \in DOMAIN subs})

VARIABLES
    stage,      \* "idle", "verify", "statement", "sub", "policy", "done"
    input,      \* the input being verified
    next,       \* compound: the next sub-statement
    results,    \* compound: results of the sub-statements verified so far
    counted,    \* history: which sub-statements these are
    result,     \* the verification result the policy is asked about
    verdict,    \* "none", "accepted", or the error
    live,       \* the context is not done
    doneAt,     \* history: where `next' was when the context was cancelled
    now         \* the clock

vars == <<stage, input, next, results, counted, result, verdict, live, doneAt, now>>

\* The VerificationRequest for a statement of the input's ceremony.
Request(ceremony, object) ==
    [format |-> object.format, statement |-> object.statement,
     authData |-> ceremony.authData, hash |-> ceremony.hash, key |-> ceremony.key,
     alg |-> ceremony.alg, conveyance |-> ceremony.conveyance]

Subs == input.object.statement.subs

Ceremonies == {i.ceremony : i \in Inputs}

SubRequest(i) == Request(input.ceremony, Subs[i])

Fail(error) ==
    /\ stage' = "done"
    /\ verdict' = error
    /\ UNCHANGED <<input, next, results, counted, result>>

Context == <<live, doneAt, now>>

-----------------------------------------------------------------------------

\* verifyRegistrationAttestation, to the registry's answer.
Present(presented) ==
    /\ stage = "idle"
    /\ input' = presented
    /\ LET format == presented.object.format IN
       \/ /\ format \in InvalidFormats
          /\ stage' = "done" /\ verdict' = "ErrInvalidAttestation"
       \/ /\ format \notin InvalidFormats /\ format \notin Registered
          /\ stage' = "done" /\ verdict' = "ErrUnsupportedAttestationFormat"
       \/ /\ format \notin InvalidFormats /\ format \in Registered
          /\ stage' = "verify" /\ verdict' = "none"
    /\ UNCHANGED <<next, results, counted, result, Context>>

\* A format's verifier.
VerifyStatement ==
    /\ stage = "verify" /\ input.object.format # "compound"
    /\ LET req == Request(input.ceremony, input.object) IN
       IF FormatVerifies(req, now, live)
       THEN /\ stage' = "policy"
            /\ result' = FormatResult(req)
            /\ UNCHANGED <<input, next, results, counted, verdict>>
       ELSE Fail("ErrInvalidAttestation")
    /\ UNCHANGED Context

\* compoundSubStatements.
SubStatementsParse(statement) ==
    /\ statement.fields = {"statements"} /\ statement.typed
    /\ Len(statement.subs) >= 2
    /\ \A i \in DOMAIN statement.subs : statement.subs[i].format \notin InvalidFormats

\* requiredSuccesses: the policy can be met by this many statements.
ThresholdValid(threshold, total) ==
    LET maximum == IF threshold.maximum = 0 THEN DefaultMaxStatements ELSE threshold.maximum IN
    /\ maximum \in 2 .. MaxConfiguredStatements /\ total <= maximum
    /\ threshold.all \/ threshold.minimum = 0 \/ threshold.minimum \in 1 .. total

\* requiredSuccesses that takes the zero value at its word.
RequiredSuccessesZero(threshold, total) ==
    IF threshold.all THEN total ELSE threshold.minimum

\* requiredSuccesses.
RequiredSuccesses(threshold, total) ==
    IF threshold.all \/ threshold.minimum = 0 THEN total ELSE threshold.minimum

\* The compound verifier, to its loop.
BeginCompound ==
    /\ stage = "verify" /\ input.object.format = "compound"
    /\ IF /\ SubStatementsParse(input.object.statement)
          /\ ThresholdValid(input.threshold, Len(Subs))
       THEN stage' = "statement" /\ UNCHANGED <<input, next, results, counted, result, verdict>>
       ELSE Fail("ErrInvalidAttestation")
    /\ UNCHANGED Context

\* The loop's start without the test for a context that is done.
NextStatementUnchecked ==
    /\ stage = "statement" /\ next <= Len(Subs)
    /\ IF Subs[next].format = "compound" THEN Fail("ErrInvalidAttestation")
       ELSE IF Subs[next].format \notin SubRegistered
       THEN next' = next + 1 /\ UNCHANGED <<stage, input, results, counted, result, verdict>>
       ELSE stage' = "sub" /\ UNCHANGED <<input, next, results, counted, result, verdict>>
    /\ UNCHANGED Context

\* The loop's start: a context that is done ends it, so does a nested compound
\* statement; a format without a verifier is passed over with a warning.
NextStatement ==
    /\ stage = "statement" /\ next <= Len(Subs)
    /\ IF ~live \/ Subs[next].format = "compound" THEN Fail("ErrInvalidAttestation")
       ELSE IF Subs[next].format \notin SubRegistered
       THEN next' = next + 1 /\ UNCHANGED <<stage, input, results, counted, result, verdict>>
       ELSE stage' = "sub" /\ UNCHANGED <<input, next, results, counted, result, verdict>>
    /\ UNCHANGED Context

\* The loop's body: a sub-statement that does not verify costs a warning, also
\* when it fails because the context has been cancelled meanwhile.
VerifySubStatement ==
    /\ stage = "sub"
    /\ stage' = "statement"
    /\ next' = next + 1
    /\ IF FormatVerifies(SubRequest(next), now, live)
       THEN /\ results' = Append(results, FormatResult(SubRequest(next)))
            /\ counted' = counted \cup {next}
       ELSE UNCHANGED <<results, counted>>
    /\ UNCHANGED <<input, result, verdict, Context>>

\* After the loop.
FinishCompound ==
    /\ stage = "statement" /\ next > Len(Subs)
    /\ IF Len(results) >= RequiredSuccesses(input.threshold, Len(Subs))
       THEN /\ stage' = "policy"
            /\ result' = [format |-> "compound", type |-> "uncertain", path |-> "compound",
                          certificates |-> <<>>]
            /\ UNCHANGED <<input, next, results, counted, verdict>>
       ELSE Fail("ErrInvalidAttestation")
    /\ UNCHANGED Context

\* The TrustRequest.
TrustRequest ==
    [format |-> input.object.format, aaguid |-> input.ceremony.authData.aaguid,
     result |-> result]

\* The trust policy; without one everything is rejected.
EvaluateTrust ==
    /\ stage = "policy"
    /\ stage' = "done"
    /\ verdict' = IF input.policy # Nil /\ Evaluate(input.policy, TrustRequest) = "accept"
                  THEN "accepted" ELSE "ErrRejectedAttestationPolicy"
    /\ UNCHANGED <<input, next, results, counted, result, Context>>

\* verifyRegistrationAttestation returns; the next request is another one.
Return ==
    /\ stage = "done"
    /\ stage' = "idle" /\ input' = Absent /\ next' = 1 /\ results' = <<>>
    /\ counted' = {}
    /\ result' = Absent /\ verdict' = "none" /\ live' = TRUE /\ doneAt' = 0
    /\ UNCHANGED now

Cancel ==
    /\ live
    /\ stage \in {"verify", "statement", "sub", "policy"}
    /\ live' = FALSE
    /\ doneAt' = IF stage = "sub" THEN next + 1 ELSE next
    /\ UNCHANGED <<stage, input, next, results, counted, result, verdict, now>>

Tick ==
    /\ now < MaxTime
    /\ now' = now + 1
    /\ UNCHANGED <<stage, input, next, results, counted, result, verdict, live, doneAt>>

-----------------------------------------------------------------------------

Init ==
    /\ stage = "idle" /\ input = Absent /\ next = 1 /\ results = <<>>
    /\ counted = {}
    /\ result = Absent /\ verdict = "none" /\ live = TRUE /\ doneAt = 0
    /\ now = Start

Next ==
    \/ \E presented \in Inputs : Present(presented)
    \/ VerifyStatement \/ BeginCompound \/ NextStatement \/ VerifySubStatement
    \/ FinishCompound \/ EvaluateTrust \/ Return \/ Cancel \/ Tick

Spec == Init /\ [][Next]_vars

-----------------------------------------------------------------------------
(***************************************************************************)
(* Properties.                                                             *)
(***************************************************************************)

Accepted == verdict = "accepted"

\* The statements an acceptance rests on, each with its format.
Evidence ==
    IF input.object.format # "compound" THEN {input.object} ELSE {Subs[i] : i \in counted}

\* What a statement of a format speaks about.
Covers(object, ceremony) ==
    CASE object.format = "none" -> <<>>
      [] object.format = "fido-u2f" ->
           <<ceremony.authData.rpId, ceremony.authData.id, ceremony.hash, ceremony.key>>
      [] OTHER -> <<ceremony.authData, ceremony.hash>>

\* Evidence cannot be moved: a statement accepted for one registration would
\* not be accepted for a registration with other client data or other
\* authenticator data, whatever its format and also inside a compound statement.
\* "none" says nothing, and FIDO U2F covers neither the flags nor the AAGUID
\* (the VerifyAttestation functions and what each of them compares).
EvidenceNotTransferable ==
    Accepted => \A object \in Evidence, other \in Ceremonies :
        Covers(object, other) # Covers(object, input.ceremony) =>
            ~FormatVerifies(Request(other, object), now, TRUE)

\* An accepted compound statement has as many sub-statements that verify on
\* their own as the policy asks for, all of them unless it says otherwise, and
\* no statement is counted twice (the loop and requiredSuccesses).
CompoundThreshold ==
    (Accepted /\ input.object.format = "compound") =>
        LET total == Len(Subs)
            valid == {i \in 1 .. total :
                         Subs[i].format \in SubRegistered
                             /\ \E t \in Start .. now : FormatVerifies(SubRequest(i), t, TRUE)}
        IN  /\ Cardinality(valid) >= Len(results)
            /\ Len(results) >= IF input.threshold.all \/ input.threshold.minimum = 0
                               THEN total ELSE input.threshold.minimum
            /\ Len(results) >= 1

\* Once the request is cancelled no further sub-statement is started, and a
\* compound statement with statements left is not accepted (the select at the
\* top of the loop).
CancelledCompoundRefused ==
    (input # Absent /\ input.object.format = "compound" /\ ~live /\ doneAt <= Len(Subs))
        => ~Accepted

\* What a hardware-backed statement vouches for is this credential's own key, not
\* another key the same device holds: the key a TPM certified under the name in
\* its certInfo, or the key of the certificate (validatePublicAreaBinding,
\* validateCertInfoBinding, ValidatePublicKey).
KeyVouchedFor ==
    Accepted => \A object \in Evidence :
        LET s == object.statement IN
        /\ object.format = "tpm" =>
               PublicAreaKey(s.certInfo.name[2][2]) = input.ceremony.key
        /\ object.format \in {"android-key", "apple"} =>
               s.x5c[1].key = input.ceremony.key

\* An accepted TPM statement is about a key whose RSA exponent is an odd prime,
\* the default one when the public area says zero (validTPMRSAExponent).
TPMExponentPrime ==
    Accepted => \A object \in Evidence :
        (object.format = "tpm" /\ input.ceremony.key.kind = "RSA") =>
            LET e == input.ceremony.key.exponent IN
            e > 2 /\ \A d \in 2 .. e - 1 : e % d # 0

\* Acceptance is never wider than what the policy means, whatever the order of
\* its children and whichever provider fails; and when nothing in the policy
\* can fail it is exactly that (EvaluateAttestationTrust of AllOf and AnyOf).
PolicyMeansWhatItSays ==
    (stage = "done" /\ verdict \in {"accepted", "ErrRejectedAttestationPolicy"}) =>
        /\ Accepted => Means(input.policy, TrustRequest)
        /\ (~MayFail(input.policy) /\ Means(input.policy, TrustRequest)) => Accepted
=============================================================================
