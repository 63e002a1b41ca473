SPECIFICATION Spec
CONSTANTS
    a = a
    b = b
    d = d
    Word <- MCWord
    Fold <- MCFold
    MaxGap = 1
    AgreementWindow = 2
    Setups <- MCWide
    ChunkUnits = 1
    SilenceUnits = 2
    MinSpeechUnits = 1
    MaxUtterance = 4
    RetryUnits = 1
    MaxPushes = 4
PROPERTIES
    StableIsAppendOnly
CHECK_DEADLOCK FALSE
