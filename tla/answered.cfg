\* Every request is answered: all four operations, two handlers.
SPECIFICATION FairSpec
CONSTANTS
    alice = alice
    bob = bob
    phone = phone
    token = token
    laptop = laptop
    phoneKey = phoneKey
    tokenKey = tokenKey
    otherKey = otherKey
    None = None
    UserHandles = {alice, bob}
    CredentialIDs = {phone}
    Keys = {phoneKey, tokenKey, otherKey}
    Algorithms = {"ES256"}
    RPIDs <- ExampleRPIDs
    MaxSignCount = 1
    IPHosts <- NoIPHosts
    LoopbackHosts <- NoLoopbackHosts
    MaxEntries = 8
    InvalidIDs <- NoInvalidIDs
    RP <- RP1
    BrowserSessions = {s1}
    PresentedSessions = {s1}
    Requests = {r1, r2}
    CeremonyIDs = {c1, c2}
    SessionIDs = {a1, a2}
    Registrations <- OneRegistration
    Assertions <- OneAssertion
    InitialCredentials <- AlicePhone
    InitialGrants <- AliceGrants
    Operations = {"beginEnrollment", "finishEnrollment", "beginLogin", "finishLogin", "cancel"}
    Capacity = 1
    MaxVersion = 2
    MaxTime = 1
PROPERTIES
    RequestsAnswered
