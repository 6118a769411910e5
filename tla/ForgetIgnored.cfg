CONSTANTS
    home = home
    work = work
    guest = guest
    r1 = r1
    Keys = {home}
    NoKey = nokey
    Capacity = 2
    Claims <- MCClaims
    Requests = {r1}
    NoRequest = norequest
    MaxKills = 0
SPECIFICATION AnsweringSpec
PROPERTY ForgetHeard
