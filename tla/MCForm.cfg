SPECIFICATION Spec
CONSTANTS
    ko = ko
    en = en
    Language = {ko, en}
    Backends = {"cpu", "intel-gpu"}
    Families = {"large"}
    Microphones = {"headset"}
    Available = {"Ctrl"}
    Shortcuts <- MCShortcuts
    Initial <- MCInitial
    MaxSteps = 4
INVARIANT
    NoteIsCurrent
PROPERTIES
    SaveStoresTheForm
    DownloadedModelIsUsable
CHECK_DEADLOCK FALSE
