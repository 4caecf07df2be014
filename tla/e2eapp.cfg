\* Two handlers, two accounts, both modes: registrations and racing logins.
SPECIFICATION Spec
CONSTANTS
    alice = alice
    bob = bob
    phone = phone
    token = token
    laptop = laptop
    phoneKey = phoneKey
    tokenKey = tokenKey
    otherKey = otherKey
    None = None
    UserHandles = {alice, bob}
    CredentialIDs = {phone, token, laptop}
    Keys = {phoneKey, tokenKey, otherKey}
    Algorithms = {"ES256"}
    RPIDs <- ExampleRPIDs
    MaxSignCount = 2
    IPHosts <- NoIPHosts
    LoopbackHosts <- NoLoopbackHosts
    MaxEntries = 8
    InvalidIDs <- NoInvalidIDs
    aliceMail = aliceMail
    bobMail = bobMail
    RP <- StrictRP
    Emails = {aliceMail, bobMail}
    Requests = {r1, r2}
    CeremonyIDs = {c1, c2}
    SessionIDs = {a1, a2}
    Registrations <- TokenRegistrations
    Assertions <- SomeAssertions
    InitialUsers <- AliceOnly
    InitialCredentials <- Phone
    MaxTime = 1
SYMMETRY MCSymmetry
INVARIANTS
    IndexesAgree
    SessionsAuthentic
PROPERTIES
    ImplementsService
