CONSTANTS
    first = first
    second = second
    Offers <- MCOffers
    NoOffer = nooffer
    Ids = {first, second}
    NoId = noid
    Allowed <- MCAllowed
    Ttl = 3
    Skew = 1
    Turns = 2
    MaxTime = 1
SPECIFICATION LiveSpec
INVARIANTS
    ProofNeedsUnlock
    ProofOfWhatWasAuthorized
    NothingLeftOpen
PROPERTIES
    ProofLifetimeBounded
    EveryStepCounts
    PromiseKept
    EveryRequestEnds
