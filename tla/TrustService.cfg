CONSTANTS
    home = home
    work = work
    guest = guest
    r1 = r1
    Keys = {home, guest}
    NoKey = nokey
    Capacity = 1
    Claims <- MCClaims
    Requests = {r1}
    NoRequest = norequest
    MaxKills = 1
SPECIFICATION Spec
INVARIANTS
    TypeOK
    NeverAutoPaired
    SessionHostPinned
PROPERTIES
    TrustChangesByCommand
    PromiseKept
