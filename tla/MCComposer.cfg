SPECIFICATION ComposerSpec
CONSTANTS
    x = x
    y = y
    o = o
    s = s
    Char = {x, y, o, s}
    Space = s
    OwnText <- MCOwnText
    Stables <- MCStables
    Partials <- MCPartials
    Retractions = TRUE
    Fuses <- MCFuses
    MaxKeys = 99
    WholeCalls = TRUE
    MaxJams = 1
    MaxUtterance = 2
    MaxRevisions <- MCThreeThenOne
INVARIANTS
    ScreenShowsTheHypothesis
PROPERTIES
    KeptTextIsAppendOnly
    FinalSealsOnce
    TornDownStaysDown
CHECK_DEADLOCK FALSE
