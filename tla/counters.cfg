\* Three logins with one credential, any counter, racing in two handlers.
SPECIFICATION Spec
CONSTANTS
    alice = alice
    bob = bob
    phone = phone
    token = token
    laptop = laptop
    phoneKey = phoneKey
    tokenKey = tokenKey
    otherKey = otherKey
    None = None
    UserHandles = {alice, bob}
    CredentialIDs = {phone}
    Keys = {phoneKey, tokenKey, otherKey}
    Algorithms = {"ES256"}
    RPIDs <- ExampleRPIDs
    MaxSignCount = 3
    IPHosts <- NoIPHosts
    LoopbackHosts <- NoLoopbackHosts
    MaxEntries = 8
    InvalidIDs <- NoInvalidIDs
    RP <- RP1
    BrowserSessions = {s1}
    PresentedSessions = {s1}
    Requests = {r1, r2}
    CeremonyIDs = {c1, c2, c3}
    SessionIDs = {a1, a2, a3}
    Registrations <- NoResponses
    Assertions <- AnyCounter
    InitialCredentials <- AlicePhone
    InitialGrants <- NoGrants
    Operations = {"beginLogin", "finishLogin"}
    Capacity = 3
    MaxVersion = 4
    MaxTime = 0
SYMMETRY MCSymmetry
INVARIANTS
    CountersAdvance
    RowsOrdered
