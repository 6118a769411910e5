---- MODULE DecisionSlot ----
(***************************************************************************)
(* How the owner decides on a request through one file: what the worker    *)
(* promises whoever writes trust-ui-command.  TrustService and ProofBroker *)
(* tell the same handler, one in two actions and one in detail; both       *)
(* implement this, so what they say of a decision is the same.             *)
(***************************************************************************)
EXTENDS Integers

CONSTANTS
    Ids,        \* request ids
    NoId        \* no request is open

VARIABLES
    request,    \* the open request, or NoId
    decision,   \* 1 approved, -1 denied, 0 not decided
    command     \* the answer in the file, or NoAnswer

slotVars == <<request, decision, command>>

Answers == [cmd : {"AUTH_APPROVE", "AUTH_DENY"}, binding : Ids]
NoAnswer == [cmd |-> "none", binding |-> NoId]

Init ==
    /\ request = NoId
    /\ decision = 0
    /\ command = NoAnswer

\* A request comes up undecided, whatever was decided before.
Open ==
    /\ request = NoId
    /\ request' \in Ids
    /\ decision' = 0
    /\ UNCHANGED command

\* An answer takes the place of the one that has not been read, as any other command
\* does, which leaves none.
Write ==
    /\ command' \in Answers \cup {NoAnswer}
    /\ UNCHANGED <<request, decision>>

\* An answer is read once.  It decides the request it names while that one is open, and
\* nothing at any other time; a denial is final, an approval can be taken back.
Take ==
    /\ command # NoAnswer
    /\ decision # -1
    /\ command' = NoAnswer
    /\ decision' = IF command.binding # request THEN decision
                   ELSE IF command.cmd = "AUTH_APPROVE" THEN 1 ELSE -1
    /\ UNCHANGED request

\* Answered, denied, out of time or lost with the process: the decision goes with it.
Close ==
    /\ request # NoId
    /\ request' = NoId
    /\ decision' = 0
    /\ UNCHANGED command

Next == Open \/ Write \/ Take \/ Close

Spec == Init /\ [][Next]_slotVars
====
