\* All four operations on a store that starts empty or nearly so, against the
\* atomic service.
SPECIFICATION Spec
CONSTANTS
    alice = alice
    bob = bob
    phone = phone
    token = token
    laptop = laptop
    phoneKey = phoneKey
    tokenKey = tokenKey
    otherKey = otherKey
    None = None
    UserHandles = {alice, bob}
    CredentialIDs = {phone, token}
    Keys = {phoneKey, tokenKey, otherKey}
    Algorithms = {"ES256"}
    RPIDs <- ExampleRPIDs
    MaxSignCount = 2
    IPHosts <- NoIPHosts
    LoopbackHosts <- NoLoopbackHosts
    MaxEntries = 8
    InvalidIDs <- NoInvalidIDs
    RP <- RP1
    BrowserSessions = {s1}
    PresentedSessions = {s1}
    Requests = {r1, r2}
    CeremonyIDs = {c1, c2}
    SessionIDs = {a1, a2}
    Registrations <- SomeRegistrations
    Assertions <- SomeAssertions
    InitialCredentials <- AlicePhone
    InitialGrants <- AliceGrants
    Operations = {"beginEnrollment", "finishEnrollment", "beginLogin", "finishLogin", "cancel"}
    Capacity = 2
    MaxVersion = 3
    MaxTime = 1
SYMMETRY MCSymmetry
PROPERTIES
    ImplementsService
