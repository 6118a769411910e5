---- MODULE OwnerProof ----
(***************************************************************************)
(* What the owner-proof broker promises the owner of the phone: a paired   *)
(* host has one request open at a time, a request is answered at most      *)
(* once, and a request that asks for the owner's decision is not proved    *)
(* before the owner said yes to its id.                                    *)
(***************************************************************************)
CONSTANTS
    Offers,     \* the requests a host can make, records with explicit and id
    Ids,        \* request ids
    NoOffer

VARIABLES
    offer,      \* the open request, or NoOffer
    answer,     \* "none", "proof" or "denial"
    said        \* ids the owner said yes to

ownerProofVars == <<offer, answer, said>>

Init ==
    /\ offer = NoOffer
    /\ answer = "none"
    /\ said = {}

Ask(o) ==
    /\ offer = NoOffer
    /\ offer' = o
    /\ answer' = "none"
    /\ UNCHANGED said

Consent(i) ==
    /\ said' = said \cup {i}
    /\ UNCHANGED <<offer, answer>>

Prove ==
    /\ offer # NoOffer
    /\ answer = "none"
    /\ offer.explicit => offer.id \in said
    /\ answer' = "proof"
    /\ UNCHANGED <<offer, said>>

\* Denied, or dropped without an answer because the connection broke.
Refuse ==
    /\ offer # NoOffer
    /\ answer = "none"
    /\ answer' = "denial"
    /\ UNCHANGED <<offer, said>>

Finish ==
    /\ offer # NoOffer
    /\ answer # "none"
    /\ offer' = NoOffer
    /\ answer' = "none"
    /\ UNCHANGED said

Next ==
    \/ \E o \in Offers : Ask(o)
    \/ \E i \in Ids : Consent(i)
    \/ Prove \/ Refuse \/ Finish

Spec == Init /\ [][Next]_ownerProofVars
====
