---- MODULE MCTrustService ----
EXTENDS TrustService

CONSTANTS home, work, guest, r1

\* Every host announces its key in one way: guest is a portable workstation.
MCClaims == {<<k, k = guest>> : k \in Keys}
====
