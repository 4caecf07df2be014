\* Two handlers, three ceremonies, any counter: what an answer rests on.
SPECIFICATION Spec
CONSTANTS
    alice = alice
    bob = bob
    phone = phone
    token = token
    laptop = laptop
    phoneKey = phoneKey
    tokenKey = tokenKey
    otherKey = otherKey
    None = None
    UserHandles = {alice, bob}
    CredentialIDs = {phone, token, laptop}
    Keys = {phoneKey, tokenKey, otherKey}
    Algorithms = {"ES256"}
    RPIDs <- ExampleRPIDs
    MaxSignCount = 2
    IPHosts <- NoIPHosts
    LoopbackHosts <- NoLoopbackHosts
    MaxEntries = 8
    InvalidIDs <- NoInvalidIDs
    RP <- DefaultConfig
    User = alice
    Requests = {r1, r2}
    CeremonyIDs = {c1, c2, c3}
    Registrations <- TokenRegistrations
    Assertions <- SomeAssertions
    InitialRecords <- Phone
    MaxTime = 1
SYMMETRY MCSymmetry
INVARIANTS
    AnswersAuthentic
PROPERTIES
    CountersNeverGoBack
