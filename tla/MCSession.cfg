SPECIFICATION FairSpec
CONSTANTS
    a = a
    b = b
    d = d
    Word <- MCWord
    Fold <- MCFold
    MaxGap = 1
    AgreementWindow = 2
    Setups <- MCBoth
    ChunkUnits = 1
    SilenceUnits = 1
    MinSpeechUnits = 1
    MaxUtterance = 4
    RetryUnits = 1
    MaxPushes = 4
INVARIANTS
    FlushDeliversFinal
    OnlyAccurateTextIsStable
PROPERTIES
    DeliversAStream
    ShownUtterancesAreSealed
    SpeechReachesTheDecoder
    FlushIsAnswered
CHECK_DEADLOCK FALSE
