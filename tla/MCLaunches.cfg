SPECIFICATION Spec
CONSTANTS
    Copies = {1, 2, 3}
    Worlds <- MCWorlds
INVARIANTS
    OneCopy
    FilesAreWhole
PROPERTIES
    NoSaveIsLost
    ModelIsKept
CHECK_DEADLOCK FALSE
