---- MODULE HostTrust ----
(***************************************************************************)
(* What the trust core promises, whatever its threads, files and sockets   *)
(* do: a host becomes trusted only after its own key was approved, a       *)
(* session is only ever open with a trusted host, and trust is not taken   *)
(* away or widened under an open session.                                  *)
(***************************************************************************)
CONSTANTS
    Keys,
    NoKey

VARIABLES
    asked,     \* keys the user approved at some time
    trusted,   \* keys the phone authenticates itself to
    session    \* the key of the open session, or NoKey

hostTrustVars == <<asked, trusted, session>>

Init ==
    /\ asked \in SUBSET Keys
    /\ trusted \in SUBSET asked
    /\ session = NoKey

Ask(k) ==
    /\ asked' = asked \cup {k}
    /\ UNCHANGED <<trusted, session>>

\* An approval pins its key; it may replace a temporary pin, and a full
\* registry may refuse it.
Pin(k) ==
    /\ session = NoKey
    /\ k \in asked
    /\ trusted' \subseteq trusted \cup {k}
    /\ UNCHANGED <<asked, session>>

Revoke ==
    /\ session = NoKey
    /\ trusted' \subseteq trusted
    /\ UNCHANGED <<asked, session>>

Open(k) ==
    /\ session = NoKey
    /\ k \in trusted
    /\ session' = k
    /\ UNCHANGED <<asked, trusted>>

Close ==
    /\ session' = NoKey
    /\ UNCHANGED <<asked, trusted>>

\* The process died: temporary pins are gone and changes of the registry that
\* were not written back are undone, revocations among them.
Restart ==
    /\ session' = NoKey
    /\ trusted' \subseteq asked
    /\ UNCHANGED asked

Next ==
    \/ \E k \in Keys : Ask(k) \/ Pin(k) \/ Open(k)
    \/ Revoke \/ Close \/ Restart

Spec == Init /\ [][Next]_hostTrustVars
====
