\* Two handlers, two browser sessions and grants that change at any time:
\* enrollment only.
SPECIFICATION Spec
CONSTANTS
    alice = alice
    bob = bob
    phone = phone
    token = token
    laptop = laptop
    phoneKey = phoneKey
    tokenKey = tokenKey
    otherKey = otherKey
    None = None
    UserHandles = {alice, bob}
    CredentialIDs = {phone, token}
    Keys = {phoneKey, tokenKey, otherKey}
    Algorithms = {"ES256"}
    RPIDs <- ExampleRPIDs
    MaxSignCount = 1
    IPHosts <- NoIPHosts
    LoopbackHosts <- NoLoopbackHosts
    MaxEntries = 8
    InvalidIDs <- NoInvalidIDs
    RP <- RP1
    BrowserSessions = {s1, s2}
    PresentedSessions = {s1, s2}
    Requests = {r1, r2}
    CeremonyIDs = {c1, c2}
    SessionIDs = {a1, a2}
    Registrations <- OneRegistration
    Assertions <- NoResponses
    InitialCredentials <- NoCredentials
    InitialGrants <- AliceGrants
    Operations = {"beginEnrollment", "finishEnrollment", "provision", "cancel"}
    Capacity = 2
    MaxVersion = 2
    MaxTime = 1
SYMMETRY MCSymmetry
INVARIANTS
    EnrollmentAuthorized
PROPERTIES
    LiveCeremoniesKept
    CredentialsStable
