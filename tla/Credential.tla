----------------------------- MODULE Credential -----------------------------
(***************************************************************************)
(* The stored credential record of the library and what verification and   *)
(* storage do with its mutable part: the sign-counter comparison, the      *)
(* conditional update a verified assertion produces, and ApplyTo, the      *)
(* compare-and-apply that callers run under their storage lock.            *)
(*                                                                         *)
(* Fields kept: the identity (id, user, rpId, key, alg), the attestation   *)
(* type, and the four mutable values the update compares (sign count,      *)
(* backup state, UV initialisation, attachment) with backup eligibility,   *)
(* which constrains them.  AAGUID and transports are never read back.      *)
(***************************************************************************)
EXTENDS Integers

CONSTANTS
    UserHandles,     \* opaque account identifiers
    CredentialIDs,   \* credential identifiers
    Keys,            \* credential public keys
    Algorithms,      \* COSE algorithm identifiers
    RPIDs,           \* relying party identifiers
    MaxSignCount,    \* largest counter value; 2^32 - 1 in the code
    None             \* the zero value of an identifier, a handle or an origin

ASSUME NoneAssumption ==
    None \notin UserHandles \cup CredentialIDs \cup RPIDs
ASSUME MaxSignCountAssumption == MaxSignCount \in Nat

SignCount == 0 .. MaxSignCount

\* protocol.AuthenticatorAttachment.Known
KnownAttachment == {"platform", "cross-platform"}

\* Stored attachments: "" stands for unknown.
Attachment == KnownAttachment \cup {""}

\* attestation.Type.Known
KnownAttestationType ==
    {"none", "self", "basic", "attca", "anonymization-ca", "uncertain"}

CredentialRecord ==
    [id : CredentialIDs, user : UserHandles, rpId : RPIDs, key : Keys,
     alg : Algorithms, signCount : SignCount, backupEligible : BOOLEAN,
     backupState : BOOLEAN, uvInitialized : BOOLEAN, attachment : Attachment,
     attestationType : KnownAttestationType]

\* CredentialRecord.Validate.
RecordValid(record) ==
    /\ record.id # None
    /\ record.user # None
    /\ record.rpId # None
    /\ record.backupState => record.backupEligible
    /\ record.attachment \in Attachment
    /\ record.attestationType \in KnownAttestationType

\* What authenticator data reports, once parsed: three flags and a counter.
FlagsTyped(flags) ==
    flags.signCount \in SignCount /\ {flags.be, flags.bs, flags.uv} \subseteq BOOLEAN

\* normalizeAuthenticatorAttachment: a value the library does not know is
\* dropped.
NormalizeAttachment(value) == IF value \in KnownAttachment THEN value ELSE ""

-----------------------------------------------------------------------------
(***************************************************************************)
(* The counter comparison.                                                 *)
(***************************************************************************)

\* compareCounters with >= in place of >, so a repeated counter counts as
\* progress.
CompareCountersLax(stored, new) ==
    IF stored = 0 /\ new = 0 THEN "unsupported"
    ELSE IF new >= stored THEN "incremented" ELSE "clone-risk"

\* compareCounters that takes any other value for progress.
CompareCountersDifferent(stored, new) ==
    IF stored = 0 /\ new = 0 THEN "unsupported"
    ELSE IF new # stored THEN "incremented" ELSE "clone-risk"

\* compareCounters.
CompareCounters(stored, new) ==
    IF stored = 0 /\ new = 0 THEN "unsupported"
    ELSE IF new > stored THEN "incremented" ELSE "clone-risk"

CloneRisk(stored, new) == CompareCounters(stored, new) = "clone-risk"

-----------------------------------------------------------------------------
(***************************************************************************)
(* The conditional update.  `flags' is the verified authenticator data:    *)
(* its user-verification and backup-state bits and its sign count.         *)
(***************************************************************************)

\* The counter the update proposes.
NextSignCount(record, flags, updateOnCloneRisk) ==
    IF \/ CompareCounters(record.signCount, flags.signCount) = "incremented"
       \/ CloneRisk(record.signCount, flags.signCount) /\ updateOnCloneRisk
    THEN flags.signCount
    ELSE record.signCount

\* An assertion with user verification initialises UV only when a further
\* factor authorises it; otherwise the initialisation stays pending.
UVInitializationPending(record, flags, authorized) ==
    ~record.uvInitialized /\ flags.uv /\ ~authorized

NextUVInitialized(record, flags, authorized) ==
    record.uvInitialized \/ (flags.uv /\ authorized)

\* A recognised response attachment replaces the stored one.
NextAttachment(record, reported) ==
    IF NormalizeAttachment(reported) = "" THEN record.attachment
    ELSE NormalizeAttachment(reported)

\* The four mutable values of a record, which an update carries twice: as
\* the verification read them and as it wants them to be.
Mutable(record) ==
    [signCount |-> record.signCount, backupState |-> record.backupState,
     uvInitialized |-> record.uvInitialized,
     attachment |-> record.attachment]

\* The CredentialUpdate of an AuthenticationResult.  Its Changed flags are
\* exactly "next differs from previous", so they are not stored again.
CredentialUpdate(record, flags, attachment, updateOnCloneRisk, authorized) ==
    [id |-> record.id,
     previous |-> Mutable(record),
     next |-> [signCount |-> NextSignCount(record, flags, updateOnCloneRisk),
               backupState |-> flags.bs,
               uvInitialized |-> NextUVInitialized(record, flags, authorized),
               attachment |-> NextAttachment(record, attachment)]]

-----------------------------------------------------------------------------
(***************************************************************************)
(* CredentialUpdate.ApplyTo.                                               *)
(***************************************************************************)

\* ApplyTo's comparison: same credential, same four previous values.
UpdateMatches(update, record) ==
    /\ record.id = update.id
    /\ Mutable(record) = update.previous

\* Writing the changed fields over a record whose four values are the
\* previous ones is writing all four.
Applied(update, record) ==
    [record EXCEPT !.signCount = update.next.signCount,
                   !.backupState = update.next.backupState,
                   !.uvInitialized = update.next.uvInitialized,
                   !.attachment = update.next.attachment]

\* ApplyTo returns a record, instead of an error, exactly here.
ApplySucceeds(update, record) ==
    /\ RecordValid(record)
    /\ UpdateMatches(update, record)
    /\ RecordValid(Applied(update, record))
=============================================================================
