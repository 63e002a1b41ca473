SPECIFICATION Spec
CONSTANTS
    ko = ko
    en = en
    Language = {ko, en}
    Backends = {"cpu", "intel-gpu"}
    Families = {"large"}
    Microphones = {"headset"}
    Available = {"Ctrl"}
    Shortcuts <- MCShortcuts
    Initial <- MCConfigured
    MaxSteps = 3
PROPERTY
    PinnedMicrophoneStays
CHECK_DEADLOCK FALSE
