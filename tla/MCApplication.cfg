SPECIFICATION FairSpec
CONSTANTS
    Hotkeys = {"chord", "bare"}
    Bare = {"bare"}
    Servers = {"one", "refused"}
    Invalid = {"refused"}
    ChannelSize = 2
    Setups <- MCSetups
INVARIANTS
    ShortcutIsTheSavedOne
    TestHasTheMicrophone
PROPERTIES
    FormUnlocks
    QuitEnds
CHECK_DEADLOCK FALSE
