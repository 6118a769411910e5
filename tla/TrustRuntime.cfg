CONSTANTS
    home = home
    work = work
    guest = guest
    r1 = r1
    Keys = {home, guest}
    NoKey = nokey
    Capacity = 1
    Claims <- MCClaims
    Requests = {r1}
    NoRequest = norequest
    MaxKills = 1
    MaxTaps = 1
SPECIFICATION RuntimeLiveSpec
PROPERTIES
    ServiceSpec
    WorkerReturns
    DisconnectRevokes
