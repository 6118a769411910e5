CONSTANTS
    screen = screen
    report = report
    Runners <- MCRunners
SPECIFICATION CoreLiveSpec
INVARIANTS
    NothingStaysBehind
    RefusedOnlyAfterOverlap
    VerdictIsTrue
PROPERTIES
    NobodyWaitsInVain
    EveryProbeEnds
