SPECIFICATION Spec
CONSTANTS
    Absent = Absent
    Invalid = Invalid
    NaN = NaN
    Values <- MCValues
    EncodedValues <- MCEncodedValues
    Size <- MCSize
    MaxValueDepth = 3
    MaxValueNodes = 24
    MaxValueBytes = 200
    MaxEntries = 3
    InvalidIDs = {"bad id"}
    ClientData <- MCClientData
    CredentialText <- MCCredentialText
    Evaluation <- MCEvaluation
    Overhead = 20
    NodeOverhead = 2
    DecodableKeys = {"k1"}
    Requests <- MCRequests
    Records <- MCRecords
    Foreign <- MCForeign
    Responses <- MCResponses
    Registry <- MCRegistry
    RejectUnknown = FALSE
    Policy <- MCPolicy
    Challenge = "c"
    Units = 2
    DefaultBrowserTimeout = 4
    DefaultChallengeTTL = 12
    MaxMilliseconds = 4
INVARIANTS
    StorageTransparent
    OneReading
    PRFResultsAsAsked
    WriteAnswered
    StoredAgain
    HonestClientAccepted
