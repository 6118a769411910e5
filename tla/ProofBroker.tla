---- MODULE ProofBroker ----
(***************************************************************************)
(* The owner-proof broker, trust_handle_proof_request, in detail: the      *)
(* clock it reads, the keyguard it asks, the turns of its wait for the     *)
(* owner, the signature, and the command file that brings the decision.    *)
(* TrustService models the same handler as ImplicitRequest,                *)
(* ExplicitRequest, DecideConsume and DecideDone.                          *)
(***************************************************************************)
EXTENDS Integers

CONSTANTS
    Offers,     \* proof requests the paired host can send
    NoOffer,
    Ids,        \* REQUEST_IDs
    NoId,       \* the empty REQUEST_ID
    Allowed,    \* the action namespaces of trust_action_allowed
    Ttl,        \* longest proof window: 120 s
    Skew,       \* clock difference tolerated at the start: 30 s
    Turns,      \* turns of the wait for the owner: 500, of 100 ms each
    MaxTime     \* bound: the clock of the phone

\* issued and expires are ISSUED and EXPIRES, readable says that every field is
\* present and decodes.
ASSUME BrokerAssumption ==
    /\ Offers \subseteq [readable : BOOLEAN, action : STRING, explicit : BOOLEAN,
                         id : Ids \cup {NoId}, issued : Int, expires : Int]
    /\ NoOffer \notin Offers
    /\ NoId \notin Ids
    /\ Ttl \in Nat /\ Skew \in Nat /\ Turns \in Nat /\ MaxTime \in Nat

VARIABLES
    pc,         \* where the handler is
    offer,      \* the request being handled
    open,       \* g_authority_*, and the same fields of the published state
    decision,   \* g_authority_decision
    turn,       \* i in the wait for the owner, gone with the handler
    now,        \* now, the one reading of the clock, gone with the handler
    running,    \* g_running
    clock,      \* seconds of CLOCK_REALTIME
    locked,     \* KeyguardManager.isDeviceLocked
    cmdFile,    \* trust-ui-command
    view,       \* g_authority_* of the Activity: what it last read
    said,       \* history: ids AUTH_APPROVE was sent for
    consents,   \* history: requests in the view when it was sent
    asked,      \* history: explicit requests the owner was asked about
    unlocked    \* history: unlocked at some time since the request or the
                \* approval was taken

worker == <<pc, offer, open, decision, turn, now>>
phone == <<running, clock, locked>>
ui == <<cmdFile, view, said, consents>>
vars == <<worker, phone, ui, asked, unlocked>>

Maybe == Offers \cup {NoOffer}
NoCommand == [cmd |-> "none", binding |-> NoId]
Commands == [cmd : {"none", "AUTH_APPROVE", "AUTH_DENY", "other"}, binding : Ids \cup {NoId}]

\* The handler and the Activity hold requests the host can have sent, and the
\* counters stay inside their loops.
TypeOK ==
    /\ pc \in {"recv", "check", "guard", "turn", "judge", "sleep", "sign", "send", "deny"}
    /\ {offer, open, view} \subseteq Maybe
    /\ decision \in {-1, 0, 1}
    /\ turn \in 0 .. Turns
    /\ running \in BOOLEAN /\ locked \in BOOLEAN
    /\ clock \in 0 .. MaxTime /\ now \in 0 .. MaxTime
    /\ cmdFile \in Commands
    /\ said \in SUBSET Ids
    /\ {consents, asked} \subseteq SUBSET Offers
    /\ unlocked \in BOOLEAN

----------------------------------------------------------------------------
(* The handler                                                             *)

\* A PROOF_REQUEST frame.
Receive ==
    /\ pc = "recv"
    /\ \E o \in Offers : offer' = o
    /\ pc' = "check"
    /\ unlocked' = ~locked
    /\ UNCHANGED <<open, decision, turn, now, phone, ui, asked>>

\* Slip: the length of the window is not limited.
InWindowUnbounded(o, t) ==
    /\ o.expires > o.issued
    /\ t - Skew <= o.issued
    /\ o.issued <= t + Skew

InWindow(o, t) ==
    /\ o.expires > o.issued
    /\ o.expires - o.issued <= Ttl
    /\ t - Skew <= o.issued
    /\ o.issued <= t + Skew

\* The reasons malformed, encoding, action-not-allowed, ttl and
\* missing-request-id.
Acceptable(o) ==
    /\ o.readable
    /\ o.action \in Allowed
    /\ InWindow(o, clock)
    /\ o.explicit => o.id # NoId

Reject ==
    /\ pc = "check"
    /\ ~Acceptable(offer)
    /\ pc' = "deny"
    /\ UNCHANGED <<offer, open, decision, turn, now, phone, ui, asked, unlocked>>

\* clock_gettime fails: the reason clock, after the fields and the action are judged.
ClockFails ==
    /\ pc = "check"
    /\ offer.readable /\ offer.action \in Allowed
    /\ pc' = "deny"
    /\ UNCHANGED <<offer, open, decision, turn, now, phone, ui, asked, unlocked>>

AcceptImplicit ==
    /\ pc = "check"
    /\ Acceptable(offer) /\ ~offer.explicit
    /\ now' = clock
    /\ pc' = "guard"
    /\ UNCHANGED <<offer, open, decision, turn, phone, ui, asked, unlocked>>

\* The request is published for the owner.
AcceptExplicit ==
    /\ pc = "check"
    /\ Acceptable(offer) /\ offer.explicit
    /\ open' = offer
    /\ decision' = 0
    /\ turn' = 0
    /\ now' = clock
    /\ pc' = "turn"
    /\ asked' = asked \cup {offer}
    /\ UNCHANGED <<offer, phone, ui, unlocked>>

\* An implicit request is signed if the phone is unlocked.
Guard ==
    /\ pc = "guard"
    /\ pc' = IF locked THEN "deny" ELSE "sign"
    /\ UNCHANGED <<offer, open, decision, turn, now, phone, ui, asked, unlocked>>

Clear == open' = NoOffer /\ decision' = 0

\* Slip: the binding is not compared with the open request.
DecisionHeardUnbound ==
    cmdFile.cmd \in {"AUTH_APPROVE", "AUTH_DENY"} /\ open # NoOffer

DecisionHeard ==
    /\ cmdFile.cmd \in {"AUTH_APPROVE", "AUTH_DENY"}
    /\ open # NoOffer
    /\ cmdFile.binding = open.id

\* trust_ui_consume_command at the top of a turn.
TurnConsume ==
    /\ pc = "turn"
    /\ turn < Turns /\ running
    /\ cmdFile' = NoCommand
    /\ decision' = CASE DecisionHeard /\ cmdFile.cmd = "AUTH_APPROVE" -> 1
                     [] DecisionHeard /\ cmdFile.cmd = "AUTH_DENY" -> -1
                     [] OTHER -> decision
    /\ unlocked' = IF DecisionHeard THEN ~locked ELSE unlocked
    /\ pc' = "judge"
    /\ UNCHANGED <<offer, open, turn, now, phone, view, said, consents, asked>>

\* approval-timeout, or the service is being destroyed.
TurnsOver ==
    /\ pc = "turn"
    /\ turn = Turns \/ ~running
    /\ Clear
    /\ pc' = "deny"
    /\ UNCHANGED <<offer, turn, now, phone, ui, asked, unlocked>>

\* user-denied.
Denied ==
    /\ pc = "judge"
    /\ decision = -1
    /\ Clear
    /\ pc' = "deny"
    /\ UNCHANGED <<offer, turn, now, phone, ui, asked, unlocked>>

\* Slip: the keyguard is not asked once the owner has approved.
DecidedWhileLocked ==
    /\ pc = "judge"
    /\ decision = 1
    /\ pc' = "sign"
    /\ UNCHANGED <<offer, open, decision, turn, now, phone, ui, asked, unlocked>>

Decided ==
    /\ pc = "judge"
    /\ decision = 1 /\ ~locked
    /\ pc' = "sign"
    /\ UNCHANGED <<offer, open, decision, turn, now, phone, ui, asked, unlocked>>

Undecided ==
    /\ pc = "judge"
    /\ decision = 0 \/ (decision = 1 /\ locked)
    /\ pc' = "sleep"
    /\ UNCHANGED <<offer, open, decision, turn, now, phone, ui, asked, unlocked>>

\* Slip: a turn that only waited for the unlock is not counted.
WakeUncounted ==
    /\ pc = "sleep"
    /\ turn' = (IF decision = 0 THEN turn + 1 ELSE turn)
    /\ pc' = "turn"
    /\ UNCHANGED <<offer, open, decision, now, phone, ui, asked, unlocked>>

\* usleep returns; its delay is not measured with the clock that can be set.
Wake ==
    /\ pc = "sleep"
    /\ turn' = turn + 1
    /\ pc' = "turn"
    /\ UNCHANGED <<offer, open, decision, now, phone, ui, asked, unlocked>>

Sign ==
    /\ pc = "sign"
    /\ pc' = "send"
    /\ UNCHANGED <<offer, open, decision, turn, now, phone, ui, asked, unlocked>>

\* The Keystore refuses: the open request, if there is one, is cleared.
SignFails ==
    /\ pc = "sign"
    /\ Clear
    /\ pc' = "deny"
    /\ UNCHANGED <<offer, turn, now, phone, ui, asked, unlocked>>

\* Slip: the request stays open when the proof cannot be sent.
SendProofLeavesOpen ==
    /\ pc = "send"
    /\ offer' = NoOffer /\ turn' = 0 /\ now' = 0
    /\ pc' = "recv"
    /\ UNCHANGED <<open, decision, phone, ui, asked, unlocked>>

\* PROOF_RESULT OK, sent or lost with the connection; the open request is
\* cleared only now.
SendProof ==
    /\ pc = "send"
    /\ Clear
    /\ offer' = NoOffer /\ turn' = 0 /\ now' = 0
    /\ pc' = "recv"
    /\ UNCHANGED <<phone, ui, asked, unlocked>>

\* PROOF_RESULT DENY with its reason.
SendDenial ==
    /\ pc = "deny"
    /\ offer' = NoOffer /\ turn' = 0 /\ now' = 0
    /\ pc' = "recv"
    /\ UNCHANGED <<open, decision, phone, ui, asked, unlocked>>

\* Between two sessions the worker's loop takes commands too; no request is open.
LoopConsume ==
    /\ pc = "recv"
    /\ cmdFile' = NoCommand
    /\ UNCHANGED <<worker, phone, view, said, consents, asked, unlocked>>

----------------------------------------------------------------------------
(* The owner, the phone and time                                           *)

\* trust_ui_sync_from_service, by the refresh thread, before a drawing or for a touch.
Sync ==
    /\ view' = open
    /\ UNCHANGED <<worker, phone, cmdFile, said, consents, asked, unlocked>>

\* AUTHORIZE is hit; where it is drawn belongs to TouchScreen.  handle_touch reads the state
\* again, with Sync, and answers what was read last: this need not be what is on the screen,
\* which is not modelled here.  Refused here too while the phone is locked.
TapAuthorize ==
    /\ view # NoOffer
    /\ ~locked
    /\ cmdFile' = [cmd |-> "AUTH_APPROVE", binding |-> view.id]
    /\ said' = said \cup {view.id}
    /\ consents' = consents \cup {view}
    /\ UNCHANGED <<worker, phone, view, asked, unlocked>>

TapDeny ==
    /\ view # NoOffer
    /\ cmdFile' = [cmd |-> "AUTH_DENY", binding |-> view.id]
    /\ UNCHANGED <<worker, phone, view, said, consents, asked, unlocked>>

\* FORGET or RECONNECT overwrites whatever the file holds.
OtherCommand ==
    /\ cmdFile' = [cmd |-> "other", binding |-> NoId]
    /\ UNCHANGED <<worker, phone, view, said, consents, asked, unlocked>>

\* Time passes, or the owner sets the clock, forward or back.
SetClock ==
    /\ clock' \in 0 .. MaxTime
    /\ UNCHANGED <<worker, running, locked, ui, asked, unlocked>>

\* The phone is locked or unlocked.
ToggleLock ==
    /\ locked' = ~locked
    /\ unlocked' = (unlocked \/ ~locked')
    /\ UNCHANGED <<worker, running, clock, ui, asked>>

\* nativeOnDestroy.
StopRunning ==
    /\ running
    /\ running' = FALSE
    /\ UNCHANGED <<worker, clock, locked, ui, asked, unlocked>>

----------------------------------------------------------------------------

Init ==
    /\ pc = "recv" /\ offer = NoOffer /\ open = NoOffer
    /\ decision = 0 /\ turn = 0 /\ now = 0
    /\ running = TRUE /\ clock = 0 /\ locked \in BOOLEAN
    /\ cmdFile = NoCommand /\ view = NoOffer
    /\ said = {} /\ consents = {} /\ asked = {}
    /\ unlocked = ~locked

Handler ==
    \/ Reject \/ ClockFails \/ AcceptImplicit \/ AcceptExplicit \/ Guard
    \/ TurnConsume \/ TurnsOver \/ Denied \/ Decided \/ Undecided \/ Wake
    \/ Sign \/ SignFails \/ SendProof \/ SendDenial

Owner == Sync \/ TapAuthorize \/ TapDeny \/ OtherCommand
Phone == SetClock \/ ToggleLock \/ StopRunning

Next == Receive \/ LoopConsume \/ Handler \/ Owner \/ Phone

Spec == Init /\ [][Next]_vars

\* The thread runs, usleep returns and the Keystore answers; the owner, the host, the lock
\* and the clock owe nothing.
LiveSpec == Spec /\ WF_vars(Handler)

----------------------------------------------------------------------------
(* Properties                                                              *)

\* CHANGELOG.md 0.2.2: owner proofs are denied while the phone is locked.  A
\* signature is made only if the phone was unlocked at some moment after the
\* request came in and, for an explicit one, after the approval was heard.
ProofNeedsUnlock == pc \in {"sign", "send"} => unlocked

\* An explicit proof is made for the very request the Activity held when AUTHORIZE was hit,
\* and not for another whose approval is still in the file or comes late, unless the host
\* used the REQUEST_ID for more than one.  This does not say that the owner saw it: a request
\* that was published after the screen was drawn is read by the tap and approved unseen.
ProofOfWhatWasAuthorized ==
    (pc \in {"sign", "send"} /\ offer.explicit
        /\ \A o \in asked : o.id = offer.id => o = offer)
    => offer \in consents

\* However long the owner, the lock and the Keystore take, a proof is signed for at most
\* Ttl + Skew seconds beyond the time of its check, and so beyond the time of the signature
\* unless the clock has been set back in between.
ProofLifetimeBounded ==
    [][pc = "sign" /\ pc' = "send" =>
          /\ offer.expires <= now + Ttl + Skew
          /\ clock >= now => offer.expires <= clock + Ttl + Skew]_vars

\* On every path back to the session loop, failures of the Keystore and of the
\* socket among them, the request is no longer open to a decision.
NothingLeftOpen == pc \in {"recv", "check", "deny"} => open = NoOffer /\ decision = 0

\* The owner said yes to a request that was published with this id.
Said(i) == i \in said /\ \E o \in consents : o.id = i

\* The inductive invariant behind these.  What is published is the request being
\* handled, and a decision, in the file or heard, was given for a request that was
\* published with that id.
OpenInv ==
    /\ offer = NoOffer <=> pc = "recv"
    /\ pc \in {"recv", "check", "guard", "deny"} => open = NoOffer /\ decision = 0
    /\ pc \in {"turn", "judge", "sleep"} => open = offer /\ offer.explicit
    /\ pc \in {"sign", "send"} => IF offer.explicit THEN open = offer /\ decision = 1
                                                   ELSE open = NoOffer
    /\ pc = "guard" => ~offer.explicit
    /\ pc \in {"judge", "sleep"} => turn < Turns

ConsentInv ==
    /\ {open, view} \subseteq asked \cup {NoOffer}
    /\ consents \subseteq asked
    /\ \A o \in asked : o.explicit /\ o.id \in Ids
    /\ cmdFile.cmd = "AUTH_APPROVE" => Said(cmdFile.binding)
    /\ decision = 1 => Said(open.id)

LimitsInv ==
    /\ pc \in {"sign", "send"} => unlocked
    /\ ~locked => unlocked
    /\ pc \in {"guard", "turn", "judge", "sleep", "sign", "send"} =>
          offer.expires - offer.issued <= Ttl /\ offer.issued <= now + Skew

BrokerInv == OpenInv /\ ConsentInv /\ LimitsInv

\* Steps the handler still has before its answer is out: those of the turns that are
\* left, three each, and those from a decision to the answer.
StepsLeft ==
    CASE pc = "check" -> 3 * Turns + 4
      [] pc = "turn"  -> 3 * (Turns - turn) + 3
      [] pc = "judge" -> 3 * (Turns - turn) + 2
      [] pc = "sleep" -> 3 * (Turns - turn) + 1
      [] pc = "guard" -> 3
      [] pc = "sign"  -> 2
      [] pc \in {"send", "deny"} -> 1
      [] OTHER -> 0

\* Nothing sets a request back: whatever the owner taps or leaves untapped, however the
\* phone is locked, the clock is set and the Keystore fails, a step of the handler brings
\* the answer nearer and no other step touches it.  So one request takes the worker
\* away from the session for at most 3 * Turns + 4 steps.
EveryStepCounts ==
    [][pc # "recv" => StepsLeft' < StepsLeft \/ UNCHANGED worker]_vars

\* The abstract promise, read off the handler.
Promise == INSTANCE OwnerProof WITH
    answer <- CASE pc = "send" -> "proof" [] pc = "deny" -> "denial" [] OTHER -> "none"

\* The same promise of the owner's decision as TrustService keeps, whose DecideConsume and
\* DecideDone stand for all the turns of the wait.
Decisions == INSTANCE DecisionSlot WITH
    request  <- IF open = NoOffer THEN NoId ELSE open.id,
    command  <- IF cmdFile.cmd \in {"AUTH_APPROVE", "AUTH_DENY"} THEN cmdFile
                ELSE [cmd |-> "none", binding |-> NoId]

\* An answer decides the open request it names or nothing, a denial is never followed by
\* an approval, and no decision is left for the next request, however the last turn of the
\* wait falls.
DecisionsKept == Decisions!Spec

\* Every path of the handler answers its request once, an explicit request is proved only
\* after AUTH_APPROVE was sent for its id, and what decides it is what DecisionSlot says.
PromiseKept == Promise!Spec /\ DecisionsKept

\* The inductive invariant behind DecisionsKept: without a request nothing is
\* decided, a denial ends the wait at once, and an answer names a request.
AnswerInv ==
    /\ open = NoOffer => decision = 0
    /\ decision = -1 => pc = "judge"
    /\ cmdFile.cmd \in {"AUTH_APPROVE", "AUTH_DENY"} => cmdFile.binding \in Ids

\* A request never blocks the session loop for ever: not the owner who does not
\* decide, nor one who approves and leaves the phone locked.
EveryRequestEnds == pc # "recv" ~> pc = "recv"
====
