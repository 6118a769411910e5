CONSTANTS
    first = first
    second = second
    Links <- MCLinks
    MaxAge = 2
    MaxTime = 3
    NoFile = nofile
    Empty = empty
    Torn = torn
    Loopback = loopback
    NoInvite = noinvite
    Tails <- MCTails
    Hellos <- MCHellos
    Verdicts <- MCVerdicts
SPECIFICATION HandshakeLiveSpec
INVARIANTS
    JudgedWhenHeard
    DialIsConsistent
PROPERTIES
    DialsOnlyFreshLinks
    ExpiredInvitationGoes
