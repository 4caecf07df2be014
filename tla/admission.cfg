\* Both kinds of ceremony compete for a store of two entries while time passes.
SPECIFICATION Spec
CONSTANTS
    alice = alice
    bob = bob
    phone = phone
    token = token
    laptop = laptop
    phoneKey = phoneKey
    tokenKey = tokenKey
    otherKey = otherKey
    None = None
    UserHandles = {alice, bob}
    CredentialIDs = {phone, token}
    Keys = {phoneKey, tokenKey, otherKey}
    Algorithms = {"ES256"}
    RPIDs <- ExampleRPIDs
    MaxSignCount = 1
    IPHosts <- NoIPHosts
    LoopbackHosts <- NoLoopbackHosts
    MaxEntries = 8
    InvalidIDs <- NoInvalidIDs
    RP <- RP1
    BrowserSessions = {s1}
    PresentedSessions = {s1, None}
    Requests = {r1, r2}
    CeremonyIDs = {c1, c2, c3}
    SessionIDs = {a1, a2}
    Registrations <- SomeRegistrations
    Assertions <- NoResponses
    InitialCredentials <- AlicePhone
    InitialGrants <- AliceGrants
    Operations = {"beginEnrollment", "finishEnrollment", "beginLogin"}
    Capacity = 2
    MaxVersion = 2
    MaxTime = 2
SYMMETRY MCSymmetry
INVARIANTS
    AllowListOwned
PROPERTIES
    AdmissionExact
