CONSTANTS
    Frames <- MCFrames
    NoFrame = noframe
    MaxActivities = 2
    Creatable <- MCCreatable
SPECIFICATION LiveSpec
INVARIANTS
    BufferIsWithItsPainter
PROPERTIES
    OldThreadsFinish
    QuietFileStays
    GlobalsSettle
    OldThreadsLeave
