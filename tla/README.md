# TLA+ verification of islishude/webauthn

The repository is a WebAuthn relying-party library in Go, with applications
that use it. The library itself keeps no state: `StartRegistration` and
`StartAuthentication` return a ceremony state that the application stores, and
the Finish functions verify a browser response against that state. What makes a
login safe is therefore spread over the library's checks and the application's
stores. This project models both, and their interplay.

## The system

| Part | State | Operations | Interacts with |
| --- | --- | --- | --- |
| integration application (`examples/integration`) | enrollment grants, ceremonies, credentials with row versions, sessions; locals of concurrent handlers | begin and finish of enrollment and login; Save, Consume, List, Lookup, Insert, Update, Create | calls the relying party between store operations; four mutexes |
| relying party (`relying_party.go`, `config.go`, `preset`) | frozen configuration | New, Start and Finish of both ceremonies | compares stored ceremony state with its own configuration |
| ceremonies (`registration*.go`, `authentication.go`, `ceremony.go`, `validation.go`) | none: the state travels through the application | Start builds it, Finish runs ordered checks | origin policy, extensions, attestation, signatures |
| credential record and update (`credential_update.go`) | the record, in the application's store | ApplyTo: compare four values, apply | application's conditional update |
| origin policy (`origin.go`) | part of the configuration and of the ceremony state | validation, client data decision | client data |
| extensions (`extension_verification.go`, `extension/`) | registry of handlers with frozen revisions; bindings in the ceremony state | prepare inputs, match bindings, verify outputs | ceremony state, response |
| attestation (`attestation/`) | registries; the loop of the compound verifier | verify a statement of one of eight formats, apply a trust policy | registration; the request's context |
| storage envelopes (`storage/json`) | none: bytes in the application's store | Marshal and Unmarshal of both states and of records | a process that starts a ceremony and another that finishes it |
| browser JSON (`browser`) | none | options out, responses in | extension inputs and results |
| quickstart (`examples/quickstart`) | ceremonies, credentials and sessions under one mutex, each limited and pruned | begin and finish of both ceremonies, me, logout | relying party; cookies |
| HTTP example (`examples/http`) | two state maps and records, no sessions | the same four handlers | relying party; clone risk is tolerated |
| end-to-end application (`internal/e2eapp`) | accounts by address and handle, states, two credential indexes, sessions | both ceremonies in two modes, me, logout | the library's functions without a facade |
| codec, transport (`codec`, `transport/http`) | none | decode, limit sizes | boundaries |

Hard behaviours, with the line each bites at, are the `hazards` of
`PROJECT.json`. In short: several handlers finish the same ceremony; a ceremony
expires between two steps of a handler; grants, credentials and configuration
change between start and finish; two logins update one row from the same
snapshot; a handler disappears between two writes; the store is full; the row
version is at its limit; a response is presented to another ceremony, session,
account or configuration than the one it was made for; a state is loaded by a
process that did not start it; a request is cancelled inside a compound
attestation; an extension value is exactly at a limit.

What makes each part correct:

- *integration application*: a ceremony has one effect; a session rests on a
  stored, verified login of its own ceremony; counters only advance; a
  credential belongs to the account entitled at both ends; a full store never
  blocks a handler or evicts a live ceremony;
- *relying party and ceremonies*: an accepted response satisfies the
  configuration that started the ceremony and the one that finishes it; what
  Start writes, Finish's validation accepts;
- *origin policy*: an accepted origin is listed and, unless related origins are
  on, within the RP ID;
- *extensions*: an output is interpreted by the revision that normalised the
  input, or by nobody; an accepted result answers what was asked of the
  credential that was used; a client that follows the options is accepted;
- *storage and browser JSON*: what was written can be read, as one thing only,
  what was read can be written back, and a ceremony has the same outcome whether or not it went through storage;
- *attestation*: accepted evidence speaks of this registration and of this key;
  a compound statement has as many good parts as its policy asks; a policy
  accepts what its combinators say;
- *other applications*: what each session or answer rests on, whose entries a
  request may remove, and that they implement the same abstract service.

## Modules

| Module | Models |
| --- | --- |
| `Credential` | `CredentialRecord`, `Validate`, `compareCounters`, the `CredentialUpdate` of a verified assertion, `ApplyTo` |
| `Origin` | `OriginPolicy` validation, RP ID scope, `verifyCollectedClientOrigin` |
| `Extensions` | registry, `prepareExtensionInputs`, bindings, `verifyExtensions` |
| `Ceremony` | configuration, both ceremony states, every check of both Finish functions in the code's order with its error |
| `Integration` | the integration application as a state machine |
| `PasskeyService` | abstract specification: atomic enrollment, login and session |
| `IntegrationRefinement` | the refinement mapping from `Integration` to `PasskeyService` |
| `Deployment` | one ceremony across a change of configuration |
| `Quickstart`, `E2EApp`, `HttpExample` | the three other applications as state machines; the first two also map to `PasskeyService` |
| `Maps` | Go maps as partial functions |
| `AttestationFormats` | the checks of packed, TPM, Android key, SafetyNet, Apple, FIDO U2F and none |
| `TrustPolicy` | the trust policies and their combinators |
| `Attestation` | the registration's attestation step: registry, format, compound loop, policy, cancellation |
| `ExtensionValues` | extension values with their sizes, and the budgets every value has to keep |
| `ExtensionHandlers` | input and output checks of every built-in extension |
| `StorageJSON` | envelopes, their kinds and versions, the tagged encoding of values |
| `BrowserJSON` | extension inputs on the way to the browser, results on the way back, and what a browser does in between |
| `StoredCeremony` | a ceremony from start through storage, a crash and a load to its finish |
| `MCIntegration`, `MCDeployment`, `MCQuickstart`, `MCE2EApp`, `MCHttpExample`, `MCAttestation`, `MCStoredCeremony` | instances for TLC |
| `MCResponses` | responses and configurations shared by the three application instances |
| `IntegrationProofs` | theorems about `Integration`: types, tokens, single use; what handlers have verified, rows, counters and sessions; stored ceremonies and admission; the refinement |
| `AttestationProofs` | theorems about `Attestation`, with what the trust policies and the TPM's primality test compute |
| `StoredCeremonyProofs` | theorems about `StoredCeremony`, with what the walks over extension values compute |
| `CeremonyProofs` | lemmas about the library's operators: check lists, acceptance, extension bindings, RP ID scope, credential updates, maps |
| `DeploymentProofs` | theorems about `Deployment` |
| `QuickstartProofs`, `E2EAppProofs`, `HttpExampleProofs` | theorems about the three other applications |

`Integration`, `Deployment` and the three other applications extend `Ceremony`,
which extends the first three modules: the library's functions are operators,
shared by the state machines. `StoredCeremony` extends `StorageJSON`,
`BrowserJSON` and through them `ExtensionHandlers`, `ExtensionValues` and
`Extensions`; `Attestation` extends `AttestationFormats` and `TrustPolicy`.

### Integration and the code

Each handler slot `calls[r]` holds where a handler is and its locals. One action
is the work from one store operation up to the next one; a store operation is
atomic because it runs under its store's mutex, and the library calls that
follow it only read locals.

| Code | Actions |
| --- | --- |
| `beginEnrollment` | `BeginEnrollment` (EnrollmentUser), `StartRegistration` (List, StartRegistration), `SaveCeremony` |
| `beginLogin` | `BeginLogin` (UserByName) then `ListCredentials`, or `BeginDiscoverableLogin`; `StartAuthentication`; `SaveCeremony` |
| `finishEnrollment` | `FinishEnrollment` (EnrollmentUser), `ConsumeRegistration`, `VerifyRegistration`, `InsertCredential` |
| `finishLogin` | `FinishLogin` (Consume), `LookupCredential`, `VerifyAuthentication`, `UpdateCredential`, `CreateSession` |
| `ctx.Err()` in every store operation | `Cancel` |
| the clock, the host's grants | `Tick`, `Provision` |

The session, ceremony identifier and response of a request are arbitrary
members of the instance's sets, unrelated to what the server issued.

Abstractions: the ceremony identifier and the challenge are drawn together as
one token, at the arrival of the request; signatures and hashes are symbolic
and injective; a stored payload decodes to what was encoded; wording, options
sent to the browser and the unused fields of a record are left out. `commits`
and the `ceremony` field of a session are history: no action reads them.

### Deployment and the code

`Deploy` is `New` accepting a configuration; the four other actions are the
methods of `RelyingParty`. The last Finish leaves a `verdict` with both
configurations, the state, the response and the outcome, which the properties
read. The clock stands still there: expiry is `Integration`'s subject.

### The other applications and the code

As in `Integration`, an action runs from one locked section to the next, cookies
are arbitrary members of the identifier sets, and a ceremony's identifier and
its challenge are one token. What each application does differently is what its
module is about:

- `Quickstart` has one account and discoverable logins only. Every locked
  section that touches ceremonies or sessions prunes all three maps first, begin
  drops the ceremony its own cookie names, and each map has a limit. Records
  carry no version: `update` relies on `ApplyTo` alone. The login refuses both
  risk signals that the library only reports, and may end without a session
  after its update was stored.
- `E2EApp` creates accounts on first use, asks for the address at both ends of a
  ceremony, keeps two credential indexes and never prunes. A platform login is
  begun for no address and ends as the owner of the credential. It
  also contains the check on the convenience copy of a key that the browser shim
  adds to a registration.
- `HttpExample` begins a login for one stored credential that the map iteration
  picks, accepts clone risk, and applies the update all the same.

### Attestation and the code

A statement is a record with the fields a verifier reads after parsing; a
signature, hash or certificate is the tuple it was computed over, so two are
equal exactly when they were made from the same values. The formats are
operators that list the checks in the code's order. A trust policy is a tree;
the policies of an instance are a set that is closed under taking parts, each
with its nesting depth, and what a policy decides is a recursive function on it.
The state machine is the call: `Present` is the arrival at the registry, `VerifyStatement` a plain
format, `BeginCompound`, `NextStatement`, `VerifySubStatement` and
`FinishCompound` the compound loop, `EvaluateTrust` the policy. `Cancel` and
`Tick` happen between any two of them, because verifiers and policies look at
the context and the clock when they run. `counted` is history: the
sub-statements a compound has verified.

### StoredCeremony and the code

`Start` is the input preparation and the timeout comparison of both Start
functions, `Save` and `Load` the Marshal and Unmarshal functions, `Crash` the
loss of everything outside the store, `Finish` the reading of the client outputs
from JSON followed by the extension verification of both Finish functions.
`Register` saves a credential record, `Arrive` puts an envelope of another
origin into the store. Values are trees of tagged nodes whose leaves have sizes,
so that every budget (depth, nodes, bytes, envelope) is computed the way the
code computes it on each side; base64 and JSON text appear as their effect on
sizes. The values of an instance are two sets, `Values` on the Go side and
`EncodedValues` in envelopes, closed under taking parts and under what either side
writes. `cloneValueAt`, `encodeValueAt` and `decodeValueAt`, which recurse with a
depth, are functions of the levels left and of these sets: a level of each is one
operator (`CloneLevel`, `EncodeLevel`, `DecodeLevel`).

## Runs

| Run | Question | Properties |
| --- | --- | --- |
| `enrollment` | who gets a credential when grants move, requests race and ceremonies expire | `EnrollmentAuthorized`, `LiveCeremoniesKept`, `CredentialsStable` |
| `login` | what a session rests on | `TypeOK`, `SessionsAuthentic`, `CeremoniesUsedOnce`, `UsedBeforeExpiry` |
| `counters` | can clones or races turn a counter back | `CountersAdvance`, `RowsOrdered` |
| `admission` | what a full store does | `AllowListOwned`, `AdmissionExact` |
| `answered` | is every request answered | `RequestsAnswered` |
| `service` | do the handlers implement the atomic service | `ImplementsService` |
| `deployment` | what a response has to satisfy when the configuration changes | `AcceptedOriginInScope`, `DeploymentNeverWeakens`, `InterpretedAsNormalised`, `SameConfigurationAgrees`, `AppIdOnlyWhenRequested`, `AcceptedUserBound` |
| `quickstart` | what a session of the quickstart rests on, who is refused, whose entries disappear | `SessionsAuthentic`, `AdmissionExact`, `OnlyOwnEntriesRemoved`, `ImplementsService` |
| `e2eapp` | do the indexes agree, and whose session is it | `IndexesAgree`, `SessionsAuthentic`, `ImplementsService` |
| `httpexample` | what an answer means when clone risk is tolerated | `AnswersAuthentic`, `CountersNeverGoBack` |
| `attestation` | what an accepted attestation vouches for | `EvidenceNotTransferable`, `KeyVouchedFor`, `CompoundThreshold`, `CancelledCompoundRefused`, `TPMExponentPrime`, `PolicyMeansWhatItSays` |
| `storedceremony` | does storage or JSON lose or confuse anything, and does an accepted output answer what was asked | `StorageTransparent`, `OneReading`, `PRFResultsAsAsked`, `WriteAnswered`, `StoredAgain`, `HonestClientAccepted` |

Two edges of the code are stated inside `HonestClientAccepted` as the exceptions
they are, each found by TLC when it was left out: PRF inputs so long that the
results do not fit beside them in the value budget (the result is cloned under
the budget of one value, `extension/extension.go:246`), and a state lifetime
below one millisecond (`ceremony.go:52` rounds the timeout up to one, beyond
that lifetime).

All pass: no disagreement between the code and its documentation was found in
the parts modelled. Every property has a mutant of the code, defined next to
the definition it replaces, that violates it.

### Bounds

- Two handlers. The races of the code are between two: two consumers of one
  ceremony, two updates of one row, a save against a consume. The theorems hold
  for any number.
- Two or three tokens: one to race for and one to mix it up with; three in
  `counters`, so that a stale update can meet a row written twice, and in
  `admission`, so that a store of two entries overflows.
- A store `Capacity` of one or two stands for 128, `MaxVersion` of two to four
  for 2^64 - 1 and `MaxSignCount` of one to three for 2^32 - 1: each limit is
  reached. In `login` one stored row starts at the limit and one two below it.
- A lifetime of one tick and a clock of one or two ticks: a ceremony can expire
  before it is saved, in the store, between Consume and the verification, or
  not at all.
- In `deployment`, configurations differ from a base one in one respect each,
  and four of them must be refused by `New`; responses differ from a genuine
  one in one or two fields each. One ceremony and one challenge suffice, since
  the library keeps nothing between ceremonies; a second challenge occurs in
  responses.
- In the three applications a limit of one to three entries stands for 64
  or 128, sessions live one tick, and two credentials exist or one can still be
  registered. `ImplementsService` is checked for the two applications that have
  sessions; their instance of the service has no row versions.
- In `attestation`, statements differ from a genuine one of their format in one
  respect each, ceremonies in one field each, and compound statements combine
  good, bad, unknown and nested parts around limits of three (16 in the code)
  and four (64). Certificates are valid for part of a clock of four ticks.
- In `storedceremony`, 200 bytes stand for 2^20, 24 nodes for 4096, depth 3 for
  32 and three identifiers for 64. Leaves come in sizes just under, at and over
  the limits, and sizes whose encoded form is over while the raw form is not. A
  millisecond is two units of the clock, so that durations below one and
  between two of them exist.
- Handler slots, tokens and session identifiers are symmetric: the response
  sets contain every challenge alike. The liveness run uses no symmetry.

### Fairness

`FairSpec` assumes weak fairness of `Step(r)` for each handler: Go schedules
every runnable goroutine, no store operation waits for anything but a mutex
that is held for a bounded computation, and none is held across another. New
requests, cancellation, the clock and grants are not assumed to happen.

## Proofs

`IntegrationProofs` proves, for every value of the constants:

- `TypeCorrect`: `Spec => []TypeOK`. `TypeOK` is inductive; what makes the
  proof more than bookkeeping is that a verified registration yields a
  well-formed record (which rests on the attestation type check and the
  normalised attachment) and that the version guard keeps row versions in range.
- `TokensCorrect`: `Spec => []TokensInOnePlace`. `CeremoniesUsedOnce` is not
  inductive: it says nothing of the token a handler is about to use. The
  strengthening follows a token through its places (undrawn, with one handler,
  in the store, spent) and through the session that is still to be created.
  One lemma covers each kind of move: a fresh token, a handler's own move,
  Save, Consume, a write, Create.
- `SingleUse`: `Spec => []CeremoniesUsedOnce`, a consequence.

A second part follows what a handler knows:

- `HandlersCorrect`: `Spec => []HandlersSound`. The properties of interest speak
  of the moment of a write, while the checks that ensure them ran one or more
  steps earlier, against locals. `HandlersSound` says for each place in a
  handler what has been established there (`VerifiedCall`), what a stored
  ceremony guarantees (`CeremoniesWhole`) and what lies behind each login and
  session. Two lemmas extract from the library's check lists what acceptance
  means (`RegistrationInTime`, `AuthenticationAccepted`).
- `EnrollmentCorrect`: `Spec => []EnrollmentAuthorized`, and `InTime`:
  `Spec => []UsedBeforeExpiry`, consequences.

A third part follows the rows:

- `RowsCorrect` and `CountersCorrect`: `Spec => []RowsOrdered` and
  `Spec => []CountersAdvance`, together inductive. A login compared its counter
  with a snapshot; that the snapshot is the row it overwrites follows from the
  version comparison, once every snapshot is known to be the row or an older
  version of it and every earlier login to be behind the row.
- `SessionsCorrect`: `Spec => []SessionsAuthentic`, from `HandlersSound` (the
  assertion was verified against the record the handler read) and `RowsOrdered`
  (that record and the row agree on owner and key, then and later).
- `CredentialsCorrect`: `Spec => CredentialsStable`, an action property.

The last part follows the ceremony store:

- `AllowListCorrect`: `Spec => []AllowListOwned`. The list is read from the
  credential store several steps before the ceremony is saved, so the invariant
  also speaks of the two places where a handler carries it, and that it stays
  true while rows are written rests on `CredentialsStable`'s step property.
- `LiveCeremoniesCorrect`: `Spec => LiveCeremoniesKept`, an action property: only
  Save and Consume remove entries, the one what has expired and the other what
  it hands on.

- `AdmissionCorrect`: `Spec => AdmissionExact`, assuming that the instance has no
  cancellation, as its run does: a cancelled Save returns without storing, and
  the property speaks of handlers that are not cancelled. The strengthening is
  `StoreFinite`, since a cardinality says something only of a finite set.
- `IntegrationImplements`: `Spec => ImplementsService`. Under the mapping of
  `IntegrationRefinement` an insert is an enrollment, an update a login, a
  Create the opening of a session, a handler that gives up between the last two
  an abandoned login, and everything else a stutter. That the enrollment or login
  is one the service allows needs `TokensInOnePlace` (the ceremony is unspent),
  `HandlersSound` and the row invariant (the passkey the update overwrites is the
  one the handler verified against).

`CeremonyProofs` holds what several of these need from the library. A Finish
function is a list of checks, and its outcome the error of the first that fails:
`RegistrationAccepted` and `AssertionAccepted` say what has been established when
none does, `RegistrationRefused` and `AuthenticationRefused` which errors are
impossible once the checks that give them hold, `AppliedRecord` and
`NextSignCountAdvances` what a conditional update writes.

`DeploymentProofs` covers all six invariants of `Deployment`, for any set of
configurations and responses:

- `OriginsInScope`, `NeverWeakened`, `NormalisedThenInterpreted`,
  `StartAndFinishAgree`, `AppIdRequested`, `UsersBound`. Their inductive
  invariant, `DeploymentInv`, says that an open ceremony carries what Start wrote
  under a valid configuration, and that a verdict is the outcome of Finish on
  such a ceremony; each theorem then follows from what acceptance, or the
  absence of the error, means.

`QuickstartProofs`, `E2EAppProofs` and `HttpExampleProofs` have one inductive
invariant each (`QuickstartInv`, `E2EInv`, `HttpInv`), of the same shape: a token
is in one place, a handler has established what its place says, and a login in
the history is still borne out by the stores. The parts take the state they
speak of as parameters, so that one lemma carries a part over to the next state.

- `QuickstartSessions`, `E2ESessions`: `Spec => []SessionsAuthentic`, and
  `HttpAnswers`: `Spec => []AnswersAuthentic`.
- `E2EIndexes`: `Spec => []IndexesAgree`.
- `OthersEntriesStay`: `Spec => OnlyOwnEntriesRemoved`, `QuickstartAdmission`:
  `Spec => AdmissionExact`, with the invariant `WithinCapacity`, and
  `HttpCounters`: `Spec => CountersNeverGoBack`. None of the three applications
  has row versions; that a stale update does no harm rests on `ApplyTo`'s
  comparison of the values that were read, which `AppliedRecord` states.
- `QuickstartImplements`, `E2EImplements`: `Spec => ImplementsService`.

`AttestationProofs` covers all six invariants of `Attestation`, for any set of
statements and policies. A verdict speaks of evidence that was checked many steps
earlier, in a loop that a cancellation may leave at any point, so the inductive
invariant `AttInv` says for each place of the call what has been established:
`LoopInv` that the compound loop has passed exactly the statements before its
position, `SubInv` and `VerifiedInv` that what counts as verified did verify
against this ceremony's client data and key, `CancelInv` that where
the context was cancelled the loop has gone no further, `PolicyInv` that the policy saw that result.

- `EvidenceNotTransferableHolds` and `KeyVouchedForHolds` go through the formats
  one by one: `StatementBinds` says that a statement which verifies was made over
  this client data and this credential, `KeyBinds` that the key it vouches for is
  the credential's, `CoversOnce` that no two ceremonies share what was signed.
- `CompoundThresholdHolds`, `CancelledCompoundRefusedHolds`: from the loop's part.
- `PolicyMeansWhatItSaysHolds`: the evaluation of a policy, with its early
  returns and errors, decides what the combinators mean. This is an induction over
  nested policies. The library's induction theorems take an operator, which the
  provers cannot instantiate; `DepthInduction` and `RecursionOnDepth` state the
  same facts of sets and functions and are proved from the induction on numbers.
- `PrimeExponentIsPrime` and `TPMExponentPrimeHolds`: what passes the trial
  division by the odd numbers up to the square root is an odd prime, for every
  number: a statement's exponent has no divisor from 2 up to itself. The converse,
  that no odd prime is refused, is not stated. Numbers are unbounded here; the
  code's are of 32 bits, but it finds the bound of its loop by a division and
  forms no product that could wrap.

`StoredCeremonyProofs` covers five of the six invariants of `StoredCeremony`, for
any set of values and any limits. What a stored ceremony decides depends on three
recursive walks over values (copy, encode, decode), each under its own budget, so
most of the proof is about those:

- `NaturalsIn` is the induction on numbers in a form the provers can use: of a
  set, proved from the well-foundedness of the order. With it `TotalRecursion`
  gives the sums a budget is made of, and `CloneRecursion`, `EncodeRecursion` and
  `DecodeRecursion` say that each walk is the recursive function of the levels
  left that the code computes.
- `EncodedReturns`: what is encoded can be decoded, with as many nodes, and its
  copy consumes what the encoding did. `DecodedStable`: what was decoded is
  written again as it was read. `PlainRestored`, `AllPartsRestored`,
  `PRFInputRestored` and `LargeBlobRestored`: a value without typed inputs comes
  back as it was; a typed input comes back as an object, which the handler parses
  to the same input.
- `MarshalledReads`: the decoder counts the base64 text, a third longer than the
  bytes the encoder counted, against the same limit. It never refuses what was
  written, because that text is part of the envelope, whose length the encoder
  limits.
- `AlikeResults`: states whose inputs mean the same accept the same responses.
  Their handlers return the same; what is kept raw (`PreserveRaw`) holds the
  input as it is in the state, so there the Go type may differ, and `SameRaw`
  says that nothing else does. `PreparedFaithful`: what start puts into a state is a value that
  storage preserves in this sense.
- `ContainerGrows`, `ValuesWorkGrows` and `StoredPayloads`: what the decoder has
  accepted, from whatever origin, the encoder accepts, since on every level it
  counts at most as much against each limit. With `WrittenBack` and
  `WrittenAsItWas` this gives `EnvelopesAreStoredAgain`: what was read can be
  written back, and what this library wrote is not changed by that.

The inductive invariant `StoredInv` carries this through the steps: the inputs of
a state in memory mean what start made of the caller's (`ItemInv`), an envelope
that this process wrote holds such a state and loading it has not failed
(`StoreInv`), and an outcome is the result of such a state (`OutcomeInv`).
`StorageTransparent` alone is not inductive, since it says nothing of a state that
was loaded and written again. From it follow `StorageIsTransparent`,
`EnvelopesHaveOneReading`, `EnvelopesAreStoredAgain`, `PRFResultsAnswerTheRequest`
and `WritesAreAnswered`.

The strengthenings (`TokensInOnePlace`, `HandlersSound`, `StoreFinite`,
`DeploymentInv`, `QuickstartInv`, `WithinCapacity`, `E2EInv`, `HttpInv`, `AttInv`,
`StoredInv`) are proved and appear in no run; TLC checked them while the proofs
were being made, all but `OutcomeInv`, which quantifies over every state an outcome
could come from.

All of them rest on the named assumptions of the modules they are about, which TLC
evaluates in every run: a valid configuration, `None` outside the identifier sets,
positive lifetimes and limits, responses and initial records of the right shape.
For `StoredCeremony` they are that the sets of values contain the parts of their
values and what the two walks make of them (`ValuesAssumption`,
`EncodedValuesAssumption`, `ClosedAssumption`), that typed inputs have the fields of
their Go types (`TypedInputsAssumption`), that the caller's inputs and records and
the envelopes of other origin are made of such values (`RequestsAssumption`,
`RecordsAssumption`, `ForeignAssumption`), and that an envelope is longer than the
text in it (`OverheadAssumption`). The
applications also assume of their configuration what their source fixes: the
quickstart that it requires user verification (`PasskeyConfigAssumption`, from
the passkey preset), the HTTP example that its counter policy is the default
one, which writes no counter that shows clone risk.

Only model-checked: `RequestsAnswered`, because liveness under fairness is outside
what the proof system handles here; and `HonestClientAccepted`, which says that
something is accepted. It would need, for every handler, that each check passes on
what a browser derives from the options through JSON, so a model of every such
derivation for arbitrary values; the instance enumerates them. Induction over data
takes a detail of form throughout: the operators of the library's induction theorems
cannot be instantiated, so the proofs above use sets instead.

## Plan

1. (done) Credential, Origin, Extensions, Ceremony; Integration with its
   abstract service; Deployment; types, single use,
   enrollment, expiry, counters, sessions and rows proved.
2. (done) The other applications, with the abstract service for the two that
   have sessions.
3. (done) Storage envelopes as a round trip across a crash, the built-in
   extension handlers and the extension part of browser JSON.
4. (done) Attestation formats, compound attestation and trust policies as check
   lists; open: the HTTP helpers, the authenticator data parser on bounded
   inputs, and the fixed members of browser JSON.
5. (done) Proofs: every safety property and action property of `Integration`,
   `Deployment`, `Quickstart`, `E2EApp` and `HttpExample`, and the three
   refinements.
6. (done) Proofs: every invariant of `Attestation`, and those of `StoredCeremony`
   but one; to be able to, policies and values are walked by recursive functions.

## Not modelled

Byte-level decoding (CBOR, COSE keys, X.509, JWS, TPM structures) and
cryptography stay symbolic: their outcomes are fields of a response or of a
statement. The fixed members of browser options and responses, JSON and base64
text, logging, build tools and the small example programs have no state of their
own. The HTTP helpers only limit and decode a body, which in the
applications' models is a response that is refused. In the applications and in
`Deployment` a timeout is one lifetime in clock ticks; the relation between
browser timeout and lifetime is `StoredCeremony`'s. The default values `New`
fills in are part of the configurations of an instance.
