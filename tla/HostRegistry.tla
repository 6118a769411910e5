---- MODULE HostRegistry ----
(***************************************************************************)
(* The persistent registry of trusted workstations kept in                 *)
(* SharedPreferences "zorin_trust_runtime": the ';'-joined list            *)
(* "trusted_hosts_v2" and the single key "trusted_host_pub" that older     *)
(* releases wrote.  The list holds no duplicates and its order is never    *)
(* looked at, so it is a set of public keys.                               *)
(***************************************************************************)
EXTENDS FiniteSets, Naturals

CONSTANTS
    Keys,       \* public keys hosts can present in HOST_PUB
    NoKey,      \* the empty string: no key
    Capacity    \* keys that fit into the 4096-byte list buffer

ASSUME RegistryAssumption ==
    /\ NoKey \notin Keys
    /\ Capacity \in Nat

OptKey == Keys \cup {NoKey}

Prefs == [list : SUBSET Keys, legacy : OptKey]

\* What the buffers of the calls below can take in.
FitsBuffer(prefs) == IsFiniteSet(prefs.list) /\ Cardinality(prefs.list) <= Capacity

\* Slip: the room that is left is not looked at.
AddUnbounded(prefs, k) == [prefs EXCEPT !.list = @ \cup {k}]

\* trust_host_add: a known key is not added twice; when the list has no room
\* the call returns -2 and the list stays as it was.
Add(prefs, k) ==
    IF k \notin prefs.list /\ Cardinality(prefs.list) < Capacity
    THEN [prefs EXCEPT !.list = @ \cup {k}]
    ELSE prefs

\* trust_host_is_trusted, its answer.
IsTrusted(prefs, k) == k \in prefs.list \/ prefs.legacy = k

\* trust_host_is_trusted, its side effect: a key found only under the old
\* name is copied into the list; the old entry stays.
Migrate(prefs, k) ==
    IF k \notin prefs.list /\ prefs.legacy = k THEN Add(prefs, k) ELSE prefs

\* trust_host_remove: out of the list, and the old entry is blanked.
Remove(prefs, k) ==
    [list   |-> prefs.list \ {k},
     legacy |-> IF prefs.legacy = k THEN NoKey ELSE prefs.legacy]
====
