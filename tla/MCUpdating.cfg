SPECIFICATION FairSpec
CONSTANTS
    Junk = Junk
    Releases <- MCReleases
    FirstVersion <- MCFirst
    Replaceable <- MCReplaceable
    MaxBuilds = 2
    MaxInstalls = 2
    Worlds <- Both
INVARIANTS
    OnlyVerifiedPackagesAreInstalled
    EachPressInstallsOnce
PROPERTIES
    ButtonComesBack
    ReopensAfterQuit
CHECK_DEADLOCK FALSE
