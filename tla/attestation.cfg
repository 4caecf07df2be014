SPECIFICATION Spec
CONSTANTS
    Absent = Absent
    Malformed = Malformed
    Nil = Nil
    Policies <- MCPolicies
    PolicyDepth <- MCPolicyDepth
    Algorithms = {"ES256", "RS256"}
    HardwareOnly = FALSE
    SafetyNet <- MCSafetyNet
    Registered <- MCRegistered
    SubRegistered <- Formats
    Inputs <- MCInputs
    InvalidFormats = {"bad name"}
    DefaultMaxStatements = 3
    MaxConfiguredStatements = 4
    Start = 1
    MaxTime = 4
INVARIANTS
    EvidenceNotTransferable
    KeyVouchedFor
    CompoundThreshold
    CancelledCompoundRefused
    TPMExponentPrime
    PolicyMeansWhatItSays
