\* One ceremony, any configuration at its start and at its finish.
SPECIFICATION Spec
CONSTANTS
    alice = alice
    bob = bob
    phone = phone
    token = token
    phoneKey = phoneKey
    tokenKey = tokenKey
    c1 = c1
    c2 = c2
    app = app
    None = None
    UserHandles = {alice, bob}
    CredentialIDs = {phone, token}
    Keys = {phoneKey, tokenKey}
    Algorithms = {"ES256", "RS256", "EdDSA"}
    RPIDs <- MCRPIDs
    MaxSignCount = 1
    IPHosts <- MCIPHosts
    LoopbackHosts <- MCLoopbackHosts
    MaxEntries = 8
    InvalidIDs <- MCInvalidIDs
    Configurations <- MCConfigurations
    Extended <- MCExtended
    Challenges = {c1}
    User = alice
    Stored <- MCStored
    Registrations <- MCRegistrations
    Assertions <- MCAssertions
INVARIANTS
    AcceptedOriginInScope
    DeploymentNeverWeakens
    InterpretedAsNormalised
    SameConfigurationAgrees
    AppIdOnlyWhenRequested
    AcceptedUserBound
