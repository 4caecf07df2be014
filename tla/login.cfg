\* Two handlers racing logins with stored credentials, two browser sessions
\* and requests without one.
SPECIFICATION Spec
CONSTANTS
    alice = alice
    bob = bob
    phone = phone
    token = token
    laptop = laptop
    phoneKey = phoneKey
    tokenKey = tokenKey
    otherKey = otherKey
    None = None
    UserHandles = {alice, bob}
    CredentialIDs = {phone, token, laptop}
    Keys = {phoneKey, tokenKey, otherKey}
    Algorithms = {"ES256"}
    RPIDs <- ExampleRPIDs
    MaxSignCount = 2
    IPHosts <- NoIPHosts
    LoopbackHosts <- NoLoopbackHosts
    MaxEntries = 8
    InvalidIDs <- NoInvalidIDs
    RP <- RP1
    BrowserSessions = {s1, s2}
    PresentedSessions = {s1, s2, None}
    Requests = {r1, r2}
    CeremonyIDs = {c1, c2}
    SessionIDs = {a1, a2}
    Registrations <- NoResponses
    Assertions <- SomeAssertions
    InitialCredentials <- StoredCredentials
    InitialGrants <- NoGrants
    Operations = {"beginLogin", "finishLogin", "cancel"}
    Capacity = 2
    MaxVersion = 3
    MaxTime = 1
SYMMETRY MCSymmetry
INVARIANTS
    TypeOK
    SessionsAuthentic
    CeremoniesUsedOnce
    UsedBeforeExpiry
