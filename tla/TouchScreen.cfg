CONSTANTS
    none = none
    Windows <- MCWindows
    Frames <- MCFrames
    NoFrame = none
    Points <- MCPoints
    VersionTaps = 2
SPECIFICATION Spec
INVARIANTS
    TapMeansWhatIsDrawn
    ScreenFollows
