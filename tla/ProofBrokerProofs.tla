---- MODULE ProofBrokerProofs ----
(***************************************************************************)
(* The broker's properties for any set of requests, any limits and any     *)
(* number of turns.                                                        *)
(***************************************************************************)
EXTENDS ProofBroker, TLAPS

\* What BrokerAssumption says of one request.
LEMMA OfferTypes ==
    ASSUME NEW o \in Offers
    PROVE  /\ o.explicit \in BOOLEAN
           /\ o.id \in Ids \cup {NoId}
           /\ o.issued \in Int /\ o.expires \in Int
           /\ o # NoOffer
BY BrokerAssumption

\* The initial state is well typed.
LEMMA TypeInit == Init => TypeOK
BY BrokerAssumption DEF Init, TypeOK, Maybe, Commands, NoCommand

\* Every step keeps the types.
LEMMA TypeNext == TypeOK /\ OpenInv /\ ConsentInv /\ [Next]_vars => TypeOK'
<1> SUFFICES ASSUME TypeOK, OpenInv, ConsentInv, [Next]_vars PROVE TypeOK'
  OBVIOUS
<1> USE BrokerAssumption DEF TypeOK, Maybe, Commands, NoCommand, worker, phone, ui
<1>1. CASE Reject \/ ClockFails \/ AcceptImplicit \/ AcceptExplicit \/ Guard
  BY <1>1 DEF Reject, ClockFails, AcceptImplicit, AcceptExplicit, Guard, OpenInv
<1>11. CASE Receive
  <2>1. unlocked' \in BOOLEAN
    BY <1>11, Zenon DEF Receive
  <2> QED BY <1>11, <2>1 DEF Receive
<1>2. CASE LoopConsume \/ TurnsOver \/ Denied \/ Decided
  BY <1>2 DEF LoopConsume, TurnsOver, Denied, Decided, Clear
<1>3. CASE TurnConsume
  <2>1. decision' \in {-1, 0, 1}
    BY <1>3 DEF TurnConsume
  <2>2. unlocked' \in BOOLEAN
    BY <1>3, Zenon DEF TurnConsume
  <2> QED BY <1>3, <2>1, <2>2 DEF TurnConsume
<1>9. CASE Undecided
  BY <1>9 DEF Undecided
<1>10. CASE Wake
  <2>1. turn' \in 0 .. Turns
    BY <1>10 DEF Wake, OpenInv
  <2> QED BY <1>10, <2>1 DEF Wake
<1>4. CASE Sign \/ SignFails \/ SendProof \/ SendDenial
  BY <1>4 DEF Sign, SignFails, SendProof, SendDenial, Clear
<1>5. CASE Sync \/ OtherCommand
  BY <1>5 DEF Sync, OtherCommand
<1>6. CASE TapAuthorize \/ TapDeny
  <2>1. view \in Offers /\ view.id \in Ids
    BY <1>6 DEF TapAuthorize, TapDeny, ConsentInv
  <2> QED BY <1>6, <2>1 DEF TapAuthorize, TapDeny
<1>7. CASE SetClock
  BY <1>7 DEF SetClock
<1>13. CASE StopRunning
  <2>1. running' \in BOOLEAN
    BY <1>13, Zenon DEF StopRunning
  <2>2. /\ pc' = pc /\ offer' = offer /\ open' = open /\ decision' = decision
        /\ turn' = turn /\ now' = now /\ clock' = clock /\ locked' = locked
        /\ cmdFile' = cmdFile /\ view' = view /\ said' = said
        /\ consents' = consents /\ asked' = asked /\ unlocked' = unlocked
    BY <1>13, Zenon DEF StopRunning
  <2> QED BY <2>1, <2>2
<1>12. CASE ToggleLock
  <2>1. locked' \in BOOLEAN
    BY <1>12, Zenon DEF ToggleLock
  <2>2. unlocked' \in BOOLEAN
    BY <1>12, SMT DEF ToggleLock
  <2> QED BY <1>12, <2>1, <2>2 DEF ToggleLock
<1>8. CASE UNCHANGED vars
  BY <1>8 DEF vars
<1> QED BY <1>1, <1>2, <1>3, <1>4, <1>5, <1>6, <1>7, <1>8, <1>9, <1>10, <1>11, <1>12, <1>13
   DEF Next, Handler, Owner, Phone

\* No request is open or decided at first.
LEMMA BrokerInvInit == Init => BrokerInv
<1> SUFFICES ASSUME Init PROVE BrokerInv
  OBVIOUS
<1>1. ~locked => unlocked
  BY Zenon DEF Init
<1>2. OpenInv /\ ConsentInv
  BY DEF Init, OpenInv, ConsentInv, NoCommand
<1>3. LimitsInv
  BY <1>1 DEF Init, LimitsInv
<1> QED BY <1>2, <1>3 DEF BrokerInv

\* What is published is the request being handled, from AcceptExplicit until the
\* answer, whichever way the wait for the owner ends.
LEMMA OpenNext == TypeOK /\ OpenInv /\ [Next]_vars => OpenInv'
<1> SUFFICES ASSUME TypeOK, OpenInv, [Next]_vars PROVE OpenInv'
  OBVIOUS
<1> USE DEF OpenInv, worker, phone, ui
<1>1. CASE Receive
  <2>1. PICK o \in Offers : offer' = o
    BY <1>1 DEF Receive
  <2> QED BY <1>1, <2>1, OfferTypes DEF Receive
<1>2. CASE Reject \/ ClockFails \/ AcceptImplicit \/ AcceptExplicit \/ Guard
  BY <1>2 DEF Reject, ClockFails, AcceptImplicit, AcceptExplicit, Guard
<1>3. CASE LoopConsume
  BY <1>3 DEF LoopConsume
<1>4. CASE TurnConsume
  BY <1>4 DEF TurnConsume
<1>5. CASE TurnsOver \/ Denied \/ Decided \/ Undecided \/ Wake
  BY <1>5 DEF TurnsOver, Denied, Decided, Undecided, Wake, Clear
<1>6. CASE Sign \/ SignFails \/ SendProof \/ SendDenial
  BY <1>6 DEF Sign, SignFails, SendProof, SendDenial, Clear
<1>7. CASE Owner \/ Phone
  BY <1>7 DEF Owner, Sync, TapAuthorize, TapDeny, OtherCommand,
              Phone, SetClock, ToggleLock, StopRunning
<1>8. CASE UNCHANGED vars
  BY <1>8 DEF vars
<1> QED BY <1>1, <1>2, <1>3, <1>4, <1>5, <1>6, <1>7, <1>8 DEF Next, Handler

\* An approval is worth something only after it was given, and the histories of
\* what was asked and approved only grow.
LEMMA ConsentNext == TypeOK /\ OpenInv /\ ConsentInv /\ [Next]_vars => ConsentInv'
<1> SUFFICES ASSUME TypeOK, OpenInv, ConsentInv, [Next]_vars PROVE ConsentInv'
  OBVIOUS
<1> USE DEF ConsentInv, Said, worker, phone, ui
<1>1. CASE Receive \/ Reject \/ ClockFails \/ AcceptImplicit \/ Guard
  BY <1>1 DEF Receive, Reject, ClockFails, AcceptImplicit, Guard
<1>2. CASE AcceptExplicit
  <2>1. offer \in Offers
    BY <1>2 DEF AcceptExplicit, OpenInv, TypeOK, Maybe
  <2>2. offer.explicit /\ offer.id \in Ids
    BY <1>2, <2>1, OfferTypes DEF AcceptExplicit, Acceptable
  <2> QED BY <1>2, <2>2 DEF AcceptExplicit
<1>3. CASE LoopConsume
  BY <1>3 DEF LoopConsume, NoCommand
<1>4. CASE TurnConsume
  BY <1>4 DEF TurnConsume, NoCommand, DecisionHeard
<1>5. CASE TurnsOver \/ Denied \/ Decided \/ Undecided \/ Wake
  BY <1>5 DEF TurnsOver, Denied, Decided, Undecided, Wake, Clear
<1>6. CASE Sign \/ SignFails \/ SendProof \/ SendDenial
  BY <1>6 DEF Sign, SignFails, SendProof, SendDenial, Clear
<1>7. CASE Sync \/ TapDeny \/ OtherCommand \/ Phone
  BY <1>7 DEF Sync, TapDeny, OtherCommand, Phone, SetClock, ToggleLock, StopRunning
<1>8. CASE TapAuthorize
  BY <1>8 DEF TapAuthorize
<1>9. CASE UNCHANGED vars
  BY <1>9 DEF vars
<1> QED BY <1>1, <1>2, <1>3, <1>4, <1>5, <1>6, <1>7, <1>8, <1>9 DEF Next, Handler, Owner

\* The lock and the proof window are looked at before every signature, and
\* a clock that is set in the wait changes nothing of what was checked.
LEMMA LimitsNext == TypeOK /\ OpenInv /\ LimitsInv /\ [Next]_vars => LimitsInv'
<1> SUFFICES ASSUME TypeOK, OpenInv, LimitsInv, [Next]_vars PROVE LimitsInv'
  OBVIOUS
<1> USE DEF LimitsInv, worker, phone, ui
<1>1. CASE Reject \/ ClockFails \/ LoopConsume
  BY <1>1 DEF Reject, ClockFails, LoopConsume
<1>11. CASE Receive
  <2>1. ~locked' => unlocked'
    BY <1>11, Zenon DEF Receive
  <2> QED BY <1>11, <2>1 DEF Receive
<1>2. CASE AcceptImplicit \/ AcceptExplicit
  BY <1>2 DEF AcceptImplicit, AcceptExplicit, Acceptable, InWindow
<1>3. CASE Guard
  BY <1>3 DEF Guard
<1>4. CASE TurnConsume
  <2>1. ~locked' => unlocked'
    BY <1>4, Zenon DEF TurnConsume
  <2> QED BY <1>4, <2>1 DEF TurnConsume
<1>5. CASE TurnsOver \/ Denied \/ Decided \/ Undecided \/ Wake
  BY <1>5 DEF TurnsOver, Denied, Decided, Undecided, Wake
<1>6. CASE Sign \/ SignFails \/ SendProof \/ SendDenial
  BY <1>6 DEF Sign, SignFails, SendProof, SendDenial
<1>7. CASE Owner
  BY <1>7 DEF Owner, Sync, TapAuthorize, TapDeny, OtherCommand
<1>8. CASE StopRunning \/ SetClock
  BY <1>8 DEF StopRunning, SetClock
<1>12. CASE ToggleLock
  <2>1. (~locked' => unlocked') /\ (unlocked => unlocked')
    BY <1>12, Zenon DEF ToggleLock
  <2> QED BY <1>12, <2>1 DEF ToggleLock
<1>10. CASE UNCHANGED vars
  BY <1>10 DEF vars
<1> QED BY <1>1, <1>2, <1>3, <1>4, <1>5, <1>6, <1>7, <1>8, <1>10, <1>11, <1>12
   DEF Next, Handler, Phone

\* Types and the inductive invariant hold of every behaviour of the broker.
THEOREM Inductive == Spec => [](TypeOK /\ BrokerInv)
<1>1. Init => TypeOK /\ BrokerInv
  BY TypeInit, BrokerInvInit
<1>2. TypeOK /\ BrokerInv /\ [Next]_vars => (TypeOK /\ BrokerInv)'
  BY TypeNext, OpenNext, ConsentNext, LimitsNext DEF BrokerInv
<1> QED BY <1>1, <1>2, PTL DEF Spec

\* The handler, the request it holds and the counters keep their types.
THEOREM TypeCorrect == Spec => []TypeOK
BY Inductive, PTL

\* No signature without an unlocked phone, whatever the order of the request, the
\* approval and the lock.
THEOREM ProofNeedsUnlockHolds == Spec => []ProofNeedsUnlock
<1>1. BrokerInv => ProofNeedsUnlock
  BY DEF BrokerInv, LimitsInv, ProofNeedsUnlock
<1> QED BY <1>1, Inductive, PTL

\* An explicit proof is for the request the Activity held when AUTHORIZE was hit, unless the
\* host reused the id.
THEOREM ProofOfWhatWasAuthorizedHolds == Spec => []ProofOfWhatWasAuthorized
<1>1. TypeOK /\ BrokerInv => ProofOfWhatWasAuthorized
  <2> SUFFICES ASSUME TypeOK, BrokerInv,
                      pc \in {"sign", "send"}, offer.explicit,
                      \A o \in asked : o.id = offer.id => o = offer
               PROVE  offer \in consents
    BY DEF ProofOfWhatWasAuthorized
  <2>1. open = offer /\ decision = 1
    BY DEF BrokerInv, OpenInv
  <2>2. PICK o \in consents : o.id = offer.id
    BY <2>1 DEF BrokerInv, ConsentInv, Said
  <2>3. o \in asked
    BY <2>2 DEF BrokerInv, ConsentInv
  <2> QED BY <2>2, <2>3
<1> QED BY <1>1, Inductive, PTL

\* No path leaves a request open behind it.
THEOREM NothingLeftOpenHolds == Spec => []NothingLeftOpen
<1>1. BrokerInv => NothingLeftOpen
  BY DEF BrokerInv, OpenInv, NothingLeftOpen
<1> QED BY <1>1, Inductive, PTL

\* However long the wait, a proof is signed for at most Ttl + Skew beyond its check.
THEOREM ProofLifetimeHolds == Spec => ProofLifetimeBounded
<1>1. TypeOK /\ BrokerInv /\ [Next]_vars =>
        [pc = "sign" /\ pc' = "send" =>
            /\ offer.expires <= now + Ttl + Skew
            /\ clock >= now => offer.expires <= clock + Ttl + Skew]_vars
  <2> SUFFICES ASSUME TypeOK, BrokerInv, pc = "sign"
               PROVE  /\ offer.expires <= now + Ttl + Skew
                      /\ clock >= now => offer.expires <= clock + Ttl + Skew
    OBVIOUS
  <2>1. offer \in Offers
    BY DEF BrokerInv, OpenInv, TypeOK, Maybe
  <2>2. /\ offer.issued \in Int /\ offer.expires \in Int /\ clock \in Int /\ now \in Int
        /\ Ttl \in Int /\ Skew \in Int
    BY <2>1, OfferTypes, BrokerAssumption DEF TypeOK
  <2>3. offer.expires - offer.issued <= Ttl /\ offer.issued <= now + Skew
    BY DEF BrokerInv, LimitsInv
  <2> QED BY <2>2, <2>3
<1> QED BY <1>1, Inductive, PTL DEF Spec, ProofLifetimeBounded

\* The count falls with every step of the handler and is nobody else's to change.
LEMMA StepsNext ==
    ASSUME TypeOK, OpenInv, [Next]_vars, pc # "recv"
    PROVE  StepsLeft' < StepsLeft \/ UNCHANGED worker
<1> USE DEF StepsLeft
<1>1. turn \in 0 .. Turns /\ Turns \in Nat
  BY BrokerAssumption DEF TypeOK
<1>2. CASE Reject \/ ClockFails \/ AcceptImplicit
  BY <1>1, <1>2 DEF Reject, ClockFails, AcceptImplicit
<1>3. CASE AcceptExplicit
  BY <1>1, <1>3 DEF AcceptExplicit
<1>4. CASE Guard
  BY <1>4 DEF Guard
<1>5. CASE TurnConsume
  BY <1>1, <1>5 DEF TurnConsume
<1>6. CASE TurnsOver
  BY <1>1, <1>6 DEF TurnsOver
<1>7. CASE Denied \/ Decided \/ Undecided
  <2>1. turn < Turns
    BY <1>7 DEF OpenInv, Denied, Decided, Undecided
  <2> QED BY <1>1, <1>7, <2>1 DEF Denied, Decided, Undecided
<1>8. CASE Wake
  <2>1. turn < Turns
    BY <1>8 DEF OpenInv, Wake
  <2> QED BY <1>1, <1>8, <2>1 DEF Wake
<1>9. CASE Sign \/ SignFails \/ SendProof \/ SendDenial
  BY <1>9 DEF Sign, SignFails, SendProof, SendDenial
<1>10. CASE Owner \/ Phone \/ UNCHANGED vars
  BY <1>10 DEF Owner, Sync, TapAuthorize, TapDeny, OtherCommand,
               Phone, SetClock, ToggleLock, StopRunning, vars
<1>11. ~Receive /\ ~LoopConsume
  BY DEF Receive, LoopConsume
<1> QED BY <1>2, <1>3, <1>4, <1>5, <1>6, <1>7, <1>8, <1>9, <1>10, <1>11 DEF Next, Handler

\* One request costs the session at most as many steps as StepsLeft starts with, for every
\* number of turns.
THEOREM EveryStepCountsHolds == Spec => EveryStepCounts
<1>1. TypeOK /\ BrokerInv /\ [Next]_vars
        => [pc # "recv" => StepsLeft' < StepsLeft \/ UNCHANGED worker]_vars
  BY StepsNext DEF BrokerInv
<1> QED BY <1>1, Inductive, PTL DEF Spec, EveryStepCounts

\* The count is a natural number that is zero only between two requests, so it cannot fall
\* for ever and the handler has an answer out when it cannot fall any more.
THEOREM StepsLeftBounded ==
    Spec => [](StepsLeft \in 0 .. 3 * Turns + 4 /\ (StepsLeft = 0 <=> pc = "recv"))
<1>1. TypeOK => StepsLeft \in 0 .. 3 * Turns + 4 /\ (StepsLeft = 0 <=> pc = "recv")
  <2> SUFFICES ASSUME TypeOK
               PROVE  StepsLeft \in 0 .. 3 * Turns + 4 /\ (StepsLeft = 0 <=> pc = "recv")
    OBVIOUS
  <2>1. turn \in 0 .. Turns /\ Turns \in Nat
    BY BrokerAssumption DEF TypeOK
  <2> QED BY <2>1 DEF TypeOK, StepsLeft
<1> QED BY <1>1, TypeCorrect, PTL

\* The initial state of the broker is one of the promise.
LEMMA PromiseInit == Init => Promise!Init
BY DEF Init, Promise!Init

\* Each step of the broker is a step of the promise or leaves it alone.
LEMMA PromiseNext ==
    TypeOK /\ BrokerInv /\ [Next]_vars => [Promise!Next]_Promise!ownerProofVars
<1> SUFFICES ASSUME TypeOK, BrokerInv, [Next]_vars
             PROVE  [Promise!Next]_Promise!ownerProofVars
  OBVIOUS
<1> USE DEF Promise!ownerProofVars, worker, phone, ui
<1>1. CASE Receive
  <2>1. \E o \in Offers : Promise!Ask(o)
    BY <1>1 DEF Receive, Promise!Ask, BrokerInv, OpenInv
  <2> QED BY <2>1 DEF Promise!Next
<1>2. CASE Reject \/ ClockFails \/ TurnsOver \/ Denied \/ SignFails
  <2>1. Promise!Refuse
    BY <1>2 DEF Reject, ClockFails, TurnsOver, Denied, SignFails, Promise!Refuse, BrokerInv, OpenInv
  <2> QED BY <2>1 DEF Promise!Next
<1>3. CASE Guard
  <2>1. CASE locked
    <3>1. Promise!Refuse
      BY <1>3, <2>1 DEF Guard, Promise!Refuse, BrokerInv, OpenInv
    <3> QED BY <3>1 DEF Promise!Next
  <2>2. CASE ~locked
    BY <1>3, <2>2 DEF Guard
  <2> QED BY <2>1, <2>2
<1>4. CASE Sign
  <2>1. offer.explicit => offer.id \in said
    BY <1>4 DEF Sign, BrokerInv, OpenInv, ConsentInv, Said
  <2>2. Promise!Prove
    BY <1>4, <2>1 DEF Sign, Promise!Prove, BrokerInv, OpenInv
  <2> QED BY <2>2 DEF Promise!Next
<1>5. CASE SendProof \/ SendDenial
  <2>1. Promise!Finish
    BY <1>5 DEF SendProof, SendDenial, Promise!Finish, BrokerInv, OpenInv
  <2> QED BY <2>1 DEF Promise!Next
<1>6. CASE TapAuthorize
  <2>1. view.id \in Ids
    BY <1>6 DEF TapAuthorize, BrokerInv, ConsentInv
  <2>2. Promise!Consent(view.id)
    BY <1>6 DEF TapAuthorize, Promise!Consent
  <2> QED BY <2>1, <2>2 DEF Promise!Next
<1>7. CASE AcceptImplicit \/ AcceptExplicit \/ TurnConsume \/ Decided \/ Undecided \/ Wake
  BY <1>7 DEF AcceptImplicit, AcceptExplicit, TurnConsume, Decided, Undecided, Wake
<1>8. CASE LoopConsume \/ Sync \/ TapDeny \/ OtherCommand \/ Phone
  BY <1>8 DEF LoopConsume, Sync, TapDeny, OtherCommand, Phone, SetClock, ToggleLock, StopRunning
<1>9. CASE UNCHANGED vars
  BY <1>9 DEF vars
<1> QED BY <1>1, <1>2, <1>3, <1>4, <1>5, <1>6, <1>7, <1>8, <1>9 DEF Next, Handler, Owner

\* A denial is judged in the turn that hears it, and the Activity answers requests only
\* that it was shown.
LEMMA AnswerNext ==
    TypeOK /\ OpenInv /\ ConsentInv /\ AnswerInv /\ [Next]_vars => AnswerInv'
<1> SUFFICES ASSUME TypeOK, OpenInv, ConsentInv, AnswerInv, [Next]_vars PROVE AnswerInv'
  OBVIOUS
<1> USE DEF AnswerInv, NoCommand, worker, phone, ui
<1>1. CASE Receive \/ LoopConsume \/ Reject \/ ClockFails \/ AcceptImplicit \/ AcceptExplicit \/ Guard
  BY <1>1 DEF Receive, LoopConsume, Reject, ClockFails, AcceptImplicit, AcceptExplicit, Guard, OpenInv
<1>2. CASE TurnConsume
  BY <1>2 DEF TurnConsume, DecisionHeard
<1>3. CASE TurnsOver \/ Denied \/ Decided \/ Undecided \/ Wake
  BY <1>3 DEF TurnsOver, Denied, Decided, Undecided, Wake, Clear
<1>4. CASE Sign \/ SignFails \/ SendProof \/ SendDenial
  BY <1>4 DEF Sign, SignFails, SendProof, SendDenial, Clear
<1>5. CASE TapAuthorize \/ TapDeny
  <2>1. view.id \in Ids
    BY <1>5 DEF TapAuthorize, TapDeny, ConsentInv
  <2> QED BY <1>5, <2>1 DEF TapAuthorize, TapDeny
<1>6. CASE Sync \/ OtherCommand \/ Phone \/ UNCHANGED vars
  BY <1>6 DEF Sync, OtherCommand, Phone, SetClock, ToggleLock, StopRunning, vars
<1> QED BY <1>1, <1>2, <1>3, <1>4, <1>5, <1>6 DEF Next, Handler, Owner

\* Each step of the broker is a step of the decision slot or leaves it alone.
LEMMA DecisionsNext ==
    TypeOK /\ BrokerInv /\ AnswerInv /\ [Next]_vars => [Decisions!Next]_Decisions!slotVars
<1> SUFFICES ASSUME TypeOK, BrokerInv, AnswerInv, [Next]_vars
             PROVE  [Decisions!Next]_Decisions!slotVars
  OBVIOUS
<1> USE DEF worker, phone, ui
<1>0. \A o \in Offers : o.explicit /\ o.id # NoId => o.id \in Ids
  BY OfferTypes
<1>1. ASSUME UNCHANGED <<open, decision, cmdFile>>
      PROVE  [Decisions!Next]_Decisions!slotVars
  BY <1>1 DEF Decisions!slotVars
<1>2. ASSUME UNCHANGED <<open, decision>>, cmdFile' \in Commands,
             cmdFile'.cmd \in {"AUTH_APPROVE", "AUTH_DENY"} => cmdFile'.binding \in Ids
      PROVE  [Decisions!Next]_Decisions!slotVars
  <2>1. Decisions!Write
    BY <1>2 DEF Decisions!Write, Decisions!Answers, Decisions!NoAnswer, Commands
  <2> QED BY <2>1 DEF Decisions!Next
<1>3. ASSUME Clear, cmdFile' = cmdFile, open # NoOffer
      PROVE  [Decisions!Next]_Decisions!slotVars
  <2>1. open.id \in Ids
    BY <1>3 DEF BrokerInv, ConsentInv
  <2>2. Decisions!Close
    BY <1>3, <2>1, BrokerAssumption DEF Decisions!Close, Clear
  <2> QED BY <2>2 DEF Decisions!Next
<1>4. CASE Receive \/ Reject \/ ClockFails \/ AcceptImplicit \/ Guard \/ Decided \/ Undecided \/ Wake
           \/ Sign \/ SendDenial \/ Sync \/ Phone \/ UNCHANGED vars
  <2>1. UNCHANGED <<open, decision, cmdFile>>
    BY <1>4 DEF Receive, Reject, ClockFails, AcceptImplicit, Guard, Decided, Undecided, Wake, Sign,
                SendDenial, Sync, Phone, SetClock, ToggleLock, StopRunning, vars
  <2> QED BY <2>1, <1>1
<1>5. CASE TapAuthorize \/ TapDeny \/ OtherCommand
  <2>1. AnswerInv'
    BY AnswerNext DEF BrokerInv
  <2>2. TypeOK'
    BY TypeNext DEF BrokerInv
  <2>3. UNCHANGED <<open, decision>>
    BY <1>5 DEF TapAuthorize, TapDeny, OtherCommand
  <2>4. cmdFile' \in Commands
    BY <2>2 DEF TypeOK
  <2>5. cmdFile'.cmd \in {"AUTH_APPROVE", "AUTH_DENY"} => cmdFile'.binding \in Ids
    BY <2>1 DEF AnswerInv
  <2> QED BY <2>3, <2>4, <2>5, <1>2
<1>6. CASE AcceptExplicit
  <2>1. open = NoOffer /\ offer # NoOffer /\ offer.id \in Ids
    BY <1>6, <1>0 DEF AcceptExplicit, Acceptable, BrokerInv, OpenInv, TypeOK, Maybe
  <2>2. Decisions!Open
    BY <1>6, <2>1 DEF AcceptExplicit, Decisions!Open
  <2> QED BY <2>2 DEF Decisions!Next
<1>7. CASE TurnsOver \/ Denied \/ SignFails \/ SendProof
  <2>1. Clear /\ cmdFile' = cmdFile
    BY <1>7 DEF TurnsOver, Denied, SignFails, SendProof
  <2>2. CASE open = NoOffer
    <3>1. decision = 0
      BY <2>2 DEF AnswerInv
    <3> QED BY <2>1, <2>2, <3>1, <1>1 DEF Clear
  <2> QED BY <2>1, <2>2, <1>3
<1>8. CASE LoopConsume \/ TurnConsume
  <2>1. cmdFile' = NoCommand /\ open' = open
    BY <1>8 DEF LoopConsume, TurnConsume
  <2>2. decision # -1
    BY <1>8 DEF LoopConsume, TurnConsume, AnswerInv
  <2>3. CASE cmdFile.cmd \notin {"AUTH_APPROVE", "AUTH_DENY"}
    <3>1. decision' = decision
      BY <1>8, <2>3 DEF LoopConsume, TurnConsume, DecisionHeard
    <3> QED BY <2>1, <2>3, <3>1 DEF Decisions!slotVars, NoCommand
  <2>4. CASE cmdFile.cmd \in {"AUTH_APPROVE", "AUTH_DENY"}
    <3>1. cmdFile.binding \in Ids /\ cmdFile.binding # NoId
      BY <2>4, BrokerAssumption DEF AnswerInv
    <3>2. decision' = IF cmdFile.binding # (IF open = NoOffer THEN NoId ELSE open.id)
                      THEN decision
                      ELSE IF cmdFile.cmd = "AUTH_APPROVE" THEN 1 ELSE -1
      <4>1. CASE LoopConsume
        BY <4>1, <3>1 DEF LoopConsume, BrokerInv, OpenInv
      <4>2. CASE TurnConsume
        BY <4>2, <2>4, <3>1 DEF TurnConsume, DecisionHeard
      <4> QED BY <1>8, <4>1, <4>2
    <3>3. cmdFile # Decisions!NoAnswer
      BY <2>4 DEF Decisions!NoAnswer
    <3>4. Decisions!Take
      BY <2>1, <2>2, <2>4, <3>2, <3>3 DEF Decisions!Take, Decisions!NoAnswer, NoCommand
    <3> QED BY <3>4 DEF Decisions!Next
  <2> QED BY <2>3, <2>4
<1> QED BY <1>4, <1>5, <1>6, <1>7, <1>8 DEF Next, Handler, Owner

\* An answer decides the one open request it names, for as long as that is open: what the
\* handler does in any number of turns is what TrustService says of a decision.
THEOREM DecisionsHold == Spec => DecisionsKept
<1>1. Init => Decisions!Init /\ AnswerInv
  BY DEF Init, NoCommand, AnswerInv, Decisions!Init, Decisions!NoAnswer
<1>2. TypeOK /\ BrokerInv /\ AnswerInv /\ [Next]_vars => AnswerInv'
  BY AnswerNext DEF BrokerInv
<1>3. TypeOK /\ BrokerInv /\ AnswerInv /\ [Next]_vars => [Decisions!Next]_Decisions!slotVars
  BY DecisionsNext
<1> QED BY <1>1, <1>2, <1>3, Inductive, PTL DEF Spec, DecisionsKept, Decisions!Spec

\* The broker keeps its promise: one answer for a request, no explicit proof without the
\* owner's approval of its id, and no decision but of the request that is open.
THEOREM PromiseHolds == Spec => PromiseKept
<1>1. TypeOK /\ BrokerInv /\ [Next]_vars => [Promise!Next]_Promise!ownerProofVars
  BY PromiseNext
<1> QED BY <1>1, PromiseInit, Inductive, DecisionsHold, PTL DEF Spec, PromiseKept, Promise!Spec
====
