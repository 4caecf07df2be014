\* Two handlers, two ceremonies, every counter: logins, registrations and sessions.
SPECIFICATION Spec
CONSTANTS
    alice = alice
    bob = bob
    phone = phone
    token = token
    laptop = laptop
    phoneKey = phoneKey
    tokenKey = tokenKey
    otherKey = otherKey
    None = None
    UserHandles = {alice, bob}
    CredentialIDs = {phone, token, laptop}
    Keys = {phoneKey, tokenKey, otherKey}
    Algorithms = {"ES256"}
    RPIDs <- ExampleRPIDs
    MaxSignCount = 2
    IPHosts <- NoIPHosts
    LoopbackHosts <- NoLoopbackHosts
    MaxEntries = 8
    InvalidIDs <- NoInvalidIDs
    RP <- RP1
    User = alice
    Requests = {r1, r2}
    CeremonyIDs = {c1, c2, c3}
    SessionIDs = {a1, a2}
    Registrations <- TokenRegistrations
    Assertions <- SomeAssertions
    InitialCredentials <- PhoneAndLaptop
    CeremonyCapacity = 2
    CredentialCapacity = 3
    SessionCapacity = 1
    SessionTTL = 1
    MaxTime = 2
SYMMETRY MCSymmetry
INVARIANTS
    SessionsAuthentic
PROPERTIES
    AdmissionExact
    OnlyOwnEntriesRemoved
    ImplementsService
