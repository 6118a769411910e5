CONSTANTS
    t1 = t1
    t2 = t2
    Threads <- MCThreads
SPECIFICATION LiveSpec
INVARIANTS
    OneOwner
    FileIsTrueUnlessCrossed
PROPERTIES
    DestroyedServiceGoes
    StoppedServiceLeaves
    StartRestoresWorker
