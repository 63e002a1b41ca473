SPECIFICATION FairSpec
CONSTANTS
    ko = ko
    en = en
    Language = {ko, en}
    Settings <- MCSettings
    SavedSettings <- Saved
    OnDisk <- MCOnDisk
    MaxDials = 2
    MaxUpdates = 1
    Faults = {"crash", "hang", "stuck", "abort"}
INVARIANTS
    NoServerIsLost
    SettingsTakeEffect
PROPERTIES
    ServersComeToAnEnd
CHECK_DEADLOCK FALSE
