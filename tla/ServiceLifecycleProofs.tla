---- MODULE ServiceLifecycleProofs ----
(***************************************************************************)
(* One worker at a time, for any number of thread identities.              *)
(***************************************************************************)
EXTENDS ServiceLifecycle, TLAPS

\* What a thread formats is a publication.
LEMMA NowIsSnapshot ==
    ASSUME state \in States, alive \in BOOLEAN
    PROVE  Now \in Snapshots
BY Zenon DEF Now, Snapshots

\* And so is what it holds when it has written.
LEMMA NoTextIsSnapshot == NoText \in Snapshots
BY Zenon DEF NoText, Snapshots, States

\* The initial state is well typed.
LEMMA TypeInit == Init => TypeOK
<1> SUFFICES ASSUME Init PROVE TypeOK
  OBVIOUS
<1>1. state \in States /\ alive \in BOOLEAN
  BY DEF Init, States
<1>2. Now \in Snapshots
  BY <1>1, NowIsSnapshot
<1>3. mbuf \in Snapshots /\ stateFile \in Snapshots
  BY <1>2, NoTextIsSnapshot, Zenon DEF Init
<1>4. wbuf \in [Threads -> Snapshots]
  BY NoTextIsSnapshot DEF Init
<1>5. /\ wpc \in [Threads -> {"none", "format", "write", "test", "attempt", "session",
                              "recv", "pause", "leave"}]
      /\ wnext \in [Threads -> {"test", "session", "pause"}]
  BY DEF Init
<1>6. /\ created \in BOOLEAN /\ pulse \in BOOLEAN
      /\ overlay \in BOOLEAN /\ shown \in BOOLEAN /\ permitted \in BOOLEAN
      /\ running \in BOOLEAN /\ started \in BOOLEAN /\ requests \subseteq BOOLEAN
      /\ crossed \in BOOLEAN
  BY Zenon DEF Init
<1>7. mpc = "idle" /\ mnext = "start"
  BY DEF Init
<1> QED BY <1>1, <1>3, <1>4, <1>5, <1>6, <1>7, Zenon DEF TypeOK

\* Every step of the main thread keeps the types.
LEMMA TypeMain ==
    ASSUME TypeOK, OnCreate \/ OnStart \/ OnDestroy \/ MainLocal
    PROVE  TypeOK'
<1> USE DEF TypeOK, flags, workers, visual, published
<1>1. CASE OnCreate
  BY <1>1, Zenon DEF OnCreate
<1>2. CASE OnStart
  <2>1. pulse' \in BOOLEAN /\ requests' \subseteq BOOLEAN
    <3>1. pulse' \in requests /\ requests' = requests \ {pulse'} /\ requests \subseteq BOOLEAN
      BY <1>2, Zenon DEF OnStart
    <3> QED BY ONLY <3>1
  <2> QED BY <1>2, <2>1, Zenon DEF OnStart
<1>3. CASE OnDestroy
  BY <1>3, Zenon DEF OnDestroy, RemoveOverlay
<1>4. CASE MainFormat
  <2>1. Now \in Snapshots
    BY NowIsSnapshot, Zenon
  <2>2. crossed' \in BOOLEAN
    BY <1>4, Zenon DEF MainFormat
  <2> QED BY <1>4, <2>1, <2>2, Zenon DEF MainFormat
<1>5. CASE MainWrite
  BY <1>5, NoTextIsSnapshot, ZenonT(30) DEF MainWrite
<1>6. CASE StartWorker
  BY <1>6, ZenonT(30) DEF StartWorker
<1>7. CASE Spawn
  <2>1. /\ wpc' \in [Threads -> {"none", "format", "write", "test", "attempt", "session",
                                 "recv", "pause", "leave"}]
        /\ wnext' \in [Threads -> {"test", "session", "pause"}]
    <3>1. PICK t \in Threads : /\ wpc' = [wpc EXCEPT ![t] = "format"]
                               /\ wnext' = [wnext EXCEPT ![t] = "test"]
      BY <1>7, Zenon DEF Spawn
    <3>2. /\ wpc \in [Threads -> {"none", "format", "write", "test", "attempt", "session",
                                  "recv", "pause", "leave"}]
          /\ wnext \in [Threads -> {"test", "session", "pause"}]
      BY Zenon
    <3> QED BY ONLY <3>1, <3>2
  <2>2. UNCHANGED <<created, mnext, mbuf, pulse, visual, requests, flags, wbuf, published>>
        /\ mpc' = "pulse"
    BY <1>7, Zenon DEF Spawn
  <2> QED BY <2>1, <2>2, ZenonT(30)
<1>8. CASE SpawnFails
  BY <1>8, Zenon DEF SpawnFails, States
<1>9. CASE Pulse \/ NoPulse \/ Stop
  <2>1. CASE Pulse
    BY <2>1, Zenon DEF Pulse, ShowOverlay
  <2>2. CASE NoPulse
    BY <2>2, Zenon DEF NoPulse
  <2>3. CASE Stop
    BY <2>3, Zenon DEF Stop
  <2> QED BY <1>9, <2>1, <2>2, <2>3, Zenon
<1> QED BY <1>1, <1>2, <1>3, <1>4, <1>5, <1>6, <1>7, <1>8, <1>9 DEF MainLocal

\* Start requests, the permission and the end of the process keep the types.
LEMMA TypeSystem ==
    ASSUME TypeOK, (\E p \in BOOLEAN : StartService(p)) \/ Permit \/ Killed
    PROVE  TypeOK'
<1> USE DEF TypeOK, flags, workers, visual, published
<1>1. CASE \E p \in BOOLEAN : StartService(p)
  <2>1. PICK p \in BOOLEAN : StartService(p)
    BY <1>1
  <2>2. requests' \subseteq BOOLEAN
    <3>1. requests' = requests \cup {p} /\ requests \subseteq BOOLEAN
      BY <2>1, Zenon DEF StartService
    <3> QED BY ONLY <3>1, p \in BOOLEAN
  <2>3. UNCHANGED <<created, mpc, mnext, mbuf, pulse, visual, flags, workers, published>>
    BY <2>1, Zenon DEF StartService
  <2> QED BY <2>2, <2>3, SMTT(30)
<1>2. CASE Permit
  <2>1. permitted' \in BOOLEAN
    BY <1>2, Zenon DEF Permit
  <2>2. UNCHANGED <<created, mpc, mnext, mbuf, pulse, overlay, shown, requests, flags,
                    workers, published>>
    BY <1>2, Zenon DEF Permit
  <2> QED BY <2>1, <2>2, SMTT(30)
<1>3. CASE Killed
  <2>1. requests' \subseteq BOOLEAN
    <3>1. /\ requests' = IF created THEN requests \cup {FALSE} ELSE requests
          /\ requests \subseteq BOOLEAN
      BY <1>3, Zenon DEF Killed
    <3> QED BY ONLY <3>1
  <2>2. wpc' \in [Threads -> {"none", "format", "write", "test", "attempt", "session",
                              "recv", "pause", "leave"}]
    BY <1>3, Zenon DEF Killed
  <2>3. /\ mpc' = "idle" /\ mnext' = "start" /\ state' \in States
        /\ created' \in BOOLEAN /\ pulse' \in BOOLEAN /\ overlay' \in BOOLEAN
        /\ shown' \in BOOLEAN /\ permitted' \in BOOLEAN
        /\ running' \in BOOLEAN /\ started' \in BOOLEAN /\ alive' \in BOOLEAN
    BY <1>3, Zenon DEF Killed, States
  <2>4. UNCHANGED <<wnext, stateFile>> /\ crossed' \in BOOLEAN
    BY <1>3, Zenon DEF Killed
  <2>5. mbuf' \in Snapshots /\ wbuf' \in [Threads -> Snapshots]
    <3>1. mbuf' = NoText /\ wbuf' = [t \in Threads |-> NoText]
      BY <1>3, Zenon DEF Killed
    <3> QED BY ONLY <3>1, NoTextIsSnapshot
  <2> QED BY <2>1, <2>2, <2>3, <2>4, <2>5, Zenon
<1> QED BY <1>1, <1>2, <1>3

\* Every step of a worker keeps the types.
LEMMA TypeWorker ==
    ASSUME TypeOK, NEW t \in Threads, Worker(t)
    PROVE  TypeOK'
<1> USE DEF TypeOK, main, visual, flags, published
<1>1. CASE WorkerFormat(t)
  <2>1. Now \in Snapshots
    BY NowIsSnapshot, Zenon
  <2>2. wbuf' \in [Threads -> Snapshots]
    <3>1. wbuf' = [wbuf EXCEPT ![t] = Now] /\ wbuf \in [Threads -> Snapshots]
      BY <1>1, Zenon DEF WorkerFormat
    <3> QED BY ONLY <2>1, <3>1
  <2>3. wpc' \in [Threads -> {"none", "format", "write", "test", "attempt", "session",
                              "recv", "pause", "leave"}]
    BY <1>1 DEF WorkerFormat
  <2>4. UNCHANGED <<main, flags, wnext, stateFile>>
    BY <1>1, Zenon DEF WorkerFormat
  <2>5. crossed' \in BOOLEAN
    BY <1>1, Zenon DEF WorkerFormat
  <2> QED BY <2>2, <2>3, <2>4, <2>5, SMTT(30)
<1>2. CASE WorkerWrite(t)
  <2>1. stateFile' \in Snapshots
    <3>1. stateFile' = wbuf[t] /\ wbuf \in [Threads -> Snapshots]
      BY <1>2, Zenon DEF WorkerWrite
    <3> QED BY ONLY <3>1, t \in Threads
  <2>2. wpc' \in [Threads -> {"none", "format", "write", "test", "attempt", "session",
                              "recv", "pause", "leave"}]
    BY <1>2 DEF WorkerWrite
  <2>3. UNCHANGED <<main, flags, wnext, crossed>>
    BY <1>2, Zenon DEF WorkerWrite
  <2>4. wbuf' \in [Threads -> Snapshots]
    <3>1. wbuf' = [wbuf EXCEPT ![t] = NoText] /\ wbuf \in [Threads -> Snapshots]
      BY <1>2, Zenon DEF WorkerWrite
    <3> QED BY ONLY <3>1, NoTextIsSnapshot
  <2> QED BY <2>1, <2>2, <2>3, <2>4, SMTT(30)
<1>3. CASE LoopTest(t) \/ AttemptFails(t) \/ Poll(t) \/ Answered(t) \/ PauseOver(t)
  BY <1>3 DEF LoopTest, AttemptFails, Poll, Answered, PauseOver, Moves
<1>4. CASE Established(t) \/ SessionStopped(t) \/ SessionLost(t)
  BY <1>4 DEF Established, SessionStopped, SessionLost, Becomes, States
<1>5. CASE Leave(t)
  <2>1. wpc' \in [Threads -> {"none", "format", "write", "test", "attempt", "session",
                              "recv", "pause", "leave"}]
    <3>1. wpc' = [wpc EXCEPT ![t] = "none"]
      BY <1>5, Zenon DEF Leave
    <3>2. wpc \in [Threads -> {"none", "format", "write", "test", "attempt", "session",
                               "recv", "pause", "leave"}]
      BY Zenon
    <3> QED BY ONLY <3>1, <3>2
  <2>2. started' \in BOOLEAN
    BY <1>5, Zenon DEF Leave
  <2>3. UNCHANGED <<main, running, alive, state, wnext, wbuf, published>>
    BY <1>5, Zenon DEF Leave
  <2> QED BY <2>1, <2>2, <2>3
<1> QED BY <1>1, <1>2, <1>3, <1>4, <1>5 DEF Worker, WorkerLocal

\* The globals and positions stay within their types.
THEOREM TypeCorrect == Spec => []TypeOK
<1>1. TypeOK /\ [Next]_vars => TypeOK'
  <2> SUFFICES ASSUME TypeOK, [Next]_vars PROVE TypeOK'
    OBVIOUS
  <2>1. CASE UNCHANGED vars
    BY <2>1 DEF vars, main, visual, flags, workers, published, TypeOK
  <2> QED BY <2>1, TypeMain, TypeSystem, TypeWorker DEF Next
<1> QED BY <1>1, TypeInit, PTL DEF Spec

\* There is no worker at first.
LEMMA LifecycleInit == Init => LifecycleInv
BY DEF Init, LifecycleInv, OneOwner, FlagIsTrue, AtMostOneWorker, TrustedIsOwned, Anyone,
       Exists, InSession

\* The callbacks create a worker only when there is none.
LEMMA LifecycleMain ==
    ASSUME TypeOK, LifecycleInv, OnCreate \/ OnStart \/ OnDestroy \/ MainLocal
    PROVE  LifecycleInv'
<1> USE DEF LifecycleInv, OneOwner, FlagIsTrue, AtMostOneWorker, TrustedIsOwned, Anyone, Exists, InSession,
            flags, workers
<1>1. CASE OnCreate \/ OnStart \/ OnDestroy \/ MainWrite
             \/ StartWorker \/ Pulse \/ NoPulse \/ Stop
  BY <1>1 DEF OnCreate, OnStart, OnDestroy, MainWrite, StartWorker,
              Pulse, NoPulse, Stop, TypeOK
<1>1a. CASE MainFormat
  <2>1. mpc = "format" /\ mpc' = "write" /\ UNCHANGED <<flags, workers>>
    BY <1>1a, Zenon DEF MainFormat
  <2> QED BY <2>1
<1>2. CASE SpawnFails
  BY <1>2 DEF SpawnFails
<1>3. CASE Spawn
  <2>1. \A u \in Threads : wpc[u] = "none"
    BY <1>3 DEF Spawn
  <2>2. PICK t \in Threads : /\ wpc' = [wpc EXCEPT ![t] = "format"]
                             /\ wnext' = [wnext EXCEPT ![t] = "test"]
    BY <1>3 DEF Spawn
  <2>3. \A u \in Threads : wpc'[u] = IF u = t THEN "format" ELSE "none"
    BY <2>1, <2>2 DEF TypeOK
  <2>4. wnext'[t] = "test"
    BY <2>2 DEF TypeOK
  <2>5. state' = state /\ started' = started /\ mpc' = "pulse"
    BY <1>3 DEF Spawn
  <2>6. started /\ state # "trusted"
    BY <1>3, <2>1 DEF Spawn
  <2>7. \A u \in Threads : ~InSession(u)'
    BY <2>3, <2>4
  <2> QED BY <2>3, <2>5, <2>6, <2>7
<1> QED BY <1>1, <1>1a, <1>2, <1>3 DEF MainLocal

\* A killed process has no worker, and no flag that says so.
LEMMA LifecycleSystem ==
    ASSUME LifecycleInv, (\E p \in BOOLEAN : StartService(p)) \/ Permit \/ Killed
    PROVE  LifecycleInv'
<1> USE DEF LifecycleInv, OneOwner, FlagIsTrue, AtMostOneWorker, TrustedIsOwned, Anyone, Exists, InSession
<1>1. CASE (\E p \in BOOLEAN : StartService(p)) \/ Permit
  BY <1>1 DEF StartService, Permit, flags, workers
<1>2. CASE Killed
  BY <1>2 DEF Killed
<1> QED BY <1>1, <1>2

\* A worker that moves is the only one, and it lowers the flag only when it goes.
LEMMA LifecycleWorker ==
    ASSUME TypeOK, LifecycleInv, NEW t \in Threads, Worker(t)
    PROVE  LifecycleInv'
<1>1. /\ Exists(t)
      /\ \A u \in Threads : u # t => wpc[u] = "none"
      /\ started /\ mpc # "spawn"
  <2>1. Exists(t)
    BY DEF Worker, WorkerLocal, WorkerFormat, WorkerWrite, LoopTest, AttemptFails, Poll,
           Answered, PauseOver, Moves, Established, SessionStopped, SessionLost, Becomes,
           Leave, Exists
  <2> QED BY <2>1 DEF LifecycleInv, OneOwner, FlagIsTrue, AtMostOneWorker, Anyone, Exists, TypeOK
<1>2. /\ \A u \in Threads : u # t => wpc'[u] = "none"
      /\ mpc' = mpc
      /\ started' = started \/ (wpc'[t] = "none" /\ started' = FALSE)
  BY <1>1 DEF TypeOK, Worker, WorkerLocal, WorkerFormat, WorkerWrite, LoopTest,
              AttemptFails, Poll, Answered, PauseOver, Moves, Established, SessionStopped,
              SessionLost, Becomes, Leave, main, flags
<1>2a. wpc'[t] # "none" => started' = started
  <2>1. CASE Leave(t)
    BY <2>1 DEF TypeOK, Leave
  <2>2. CASE ~Leave(t)
    BY <2>2 DEF Worker, WorkerLocal, WorkerFormat, WorkerWrite, LoopTest, AttemptFails,
         Poll, Answered, PauseOver, Moves, Established, SessionStopped, SessionLost,
         Becomes, flags
  <2> QED BY <2>1, <2>2
<1>3. AtMostOneWorker'
  BY <1>2 DEF AtMostOneWorker, Exists
<1>4. FlagIsTrue' /\ (mpc = "spawn" => ~Anyone)'
  <2>1. CASE wpc'[t] = "none"
    BY <1>1, <1>2, <2>1 DEF FlagIsTrue, Anyone, Exists, Worker, WorkerLocal, WorkerFormat,
       WorkerWrite, LoopTest, AttemptFails, Poll, Answered, PauseOver, Moves, Established,
       SessionStopped, SessionLost, Becomes, Leave, TypeOK
  <2>2. CASE wpc'[t] # "none"
    <3>1. started' /\ Anyone' /\ mpc' # "spawn"
      BY <1>1, <1>2, <1>2a, <2>2 DEF Anyone, Exists
    <3> QED BY <3>1 DEF FlagIsTrue
  <2> QED BY <2>1, <2>2
<1>5. /\ state = "trusted" <=> InSession(t)
      /\ (\E u \in Threads : InSession(u)') <=> InSession(t)'
  BY <1>1, <1>2 DEF LifecycleInv, OneOwner, TrustedIsOwned, InSession
<1>6. state' = "trusted" <=> InSession(t)'
  <2> USE DEF TypeOK, main, flags, InSession
  <2>1. CASE WorkerFormat(t) \/ WorkerWrite(t)
    BY <1>5, <2>1 DEF WorkerFormat, WorkerWrite
  <2>2. CASE LoopTest(t) \/ AttemptFails(t) \/ Poll(t) \/ Answered(t) \/ PauseOver(t)
    BY <1>5, <2>2 DEF LoopTest, AttemptFails, Poll, Answered, PauseOver, Moves
  <2>3. CASE Established(t) \/ SessionStopped(t) \/ SessionLost(t)
    BY <2>3 DEF Established, SessionStopped, SessionLost, Becomes
  <2>4. CASE Leave(t)
    BY <1>5, <2>4 DEF Leave
  <2> QED BY <2>1, <2>2, <2>3, <2>4 DEF Worker, WorkerLocal
<1> QED BY <1>3, <1>4, <1>5, <1>6 DEF LifecycleInv, OneOwner, TrustedIsOwned

\* The inductive invariant holds of every behaviour of the process.
THEOREM Inductive == Spec => []LifecycleInv
<1>1. TypeOK /\ LifecycleInv /\ [Next]_vars => LifecycleInv'
  <2> SUFFICES ASSUME TypeOK, LifecycleInv, [Next]_vars PROVE LifecycleInv'
    OBVIOUS
  <2>1. CASE UNCHANGED vars
    BY <2>1 DEF vars, main, flags, workers, LifecycleInv, OneOwner, FlagIsTrue,
                AtMostOneWorker, TrustedIsOwned, Anyone, Exists, InSession
  <2> QED BY <2>1, LifecycleMain, LifecycleSystem, LifecycleWorker DEF Next
<1> QED BY <1>1, LifecycleInit, TypeCorrect, PTL DEF Spec

\* No order of callbacks, thread steps and kills runs two workers at once, the flag that
\* trust_start_worker tests is up exactly for a worker, and the trusted state always
\* belongs to a session of the living one.
THEOREM OneOwnerHolds == Spec => []OneOwner
<1>1. LifecycleInv => OneOwner
  BY DEF LifecycleInv
<1> QED BY <1>1, Inductive, PTL

----------------------------------------------------------------------------

\* Nothing is shown at first, and nobody works.
LEMMA ServiceInit == Init => ServiceInv
BY DEF Init, ServiceInv, Anyone, Exists, Stopping, Publishing

\* What a worker does changes nothing that a callback goes by.
LEMMA WorkerLeavesMain ==
    ASSUME TypeOK, NEW t \in Threads, Worker(t)
    PROVE  /\ UNCHANGED <<created, mpc, mnext, overlay, shown, running>>
           /\ Exists(t)
           /\ \A u \in Threads : u # t => wpc'[u] = wpc[u] /\ wnext'[u] = wnext[u]
<1> USE DEF Worker, WorkerLocal, WorkerFormat, WorkerWrite, LoopTest, AttemptFails, Poll,
            Answered, PauseOver, Moves, Established, SessionStopped, SessionLost, Becomes,
            Leave
<1>1. UNCHANGED main /\ running' = running
  BY DEF flags
<1>2. Exists(t)
  BY DEF Exists
<1>3. \A u \in Threads : u # t => wpc'[u] = wpc[u] /\ wnext'[u] = wnext[u]
  BY DEF TypeOK
<1> QED BY <1>1, <1>2, <1>3 DEF main, visual

\* Callbacks run in a service that is told to run, and it takes its overlay with it.
LEMMA ServiceStep ==
    ASSUME TypeOK, LifecycleInv, ServiceInv, [Next]_vars
    PROVE  ServiceInv'
<1> USE DEF ServiceInv, Stopping, Publishing, Anyone, Exists
<1>1. CASE UNCHANGED vars
  BY <1>1 DEF vars, main, flags, workers, visual
<1>2. CASE (\E p \in BOOLEAN : StartService(p)) \/ Permit
  BY <1>2 DEF StartService, Permit, flags, workers, visual
<1>2a. CASE Killed
  <2>1. ~created' /\ mpc' = "idle" /\ ~shown' /\ ~overlay' /\ \A t \in Threads : wpc'[t] = "none"
    BY <1>2a DEF Killed
  <2> QED BY <2>1
<1>3. CASE OnCreate
  BY <1>3 DEF OnCreate, workers, visual
<1>4. CASE OnStart \/ Stop
  BY <1>4 DEF OnStart, Stop, workers, visual
<1>4a. CASE OnDestroy
  <2>1. /\ ~overlay' /\ ~shown'
        /\ created /\ created' = created /\ running' = running
    BY <1>4a DEF OnDestroy, RemoveOverlay
  <2> QED BY <2>1, <1>4a DEF OnDestroy, workers
<1>5. CASE MainWrite \/ StartWorker \/ SpawnFails
  BY <1>5 DEF MainWrite, StartWorker, SpawnFails, flags, workers, visual
<1>5a. CASE MainFormat
  <2>1. /\ mpc = "format" /\ mpc' = "write"
        /\ UNCHANGED <<created, mnext, visual, flags, workers>>
    BY <1>5a, Zenon DEF MainFormat
  <2> QED BY <2>1 DEF flags, workers, visual
<1>6. CASE Spawn
  BY <1>6 DEF Spawn, flags, visual
<1>7. CASE Pulse \/ NoPulse
  BY <1>7 DEF Pulse, NoPulse, ShowOverlay, flags, workers, visual
<1>8. ASSUME NEW t \in Threads, Worker(t)
      PROVE  ServiceInv'
  BY <1>8, WorkerLeavesMain
<1> QED BY <1>1, <1>2, <1>2a, <1>3, <1>4, <1>4a, <1>5, <1>5a, <1>6, <1>7, <1>8 DEF Next, MainLocal

\* With g_running down every step of a worker leads towards its end.
LEMMA WorkerGoes ==
    ASSUME TypeOK, NEW t \in Threads, Worker(t), ~running
    PROVE  StepsToLeave(t)' < StepsToLeave(t)
<1> USE DEF TypeOK, StepsToLeave, AfterPublication
<1>1. CASE WorkerFormat(t) \/ WorkerWrite(t)
  BY <1>1 DEF WorkerFormat, WorkerWrite
<1>2. CASE LoopTest(t) \/ AttemptFails(t) \/ Answered(t) \/ PauseOver(t)
  BY <1>2 DEF LoopTest, AttemptFails, Answered, PauseOver, Moves
<1>3. CASE Established(t) \/ SessionStopped(t) \/ SessionLost(t)
  BY <1>3 DEF Established, SessionStopped, SessionLost, Becomes
<1>4. CASE Leave(t)
  BY <1>4 DEF Leave
<1> QED BY <1>1, <1>2, <1>3, <1>4 DEF Worker, WorkerLocal, Poll

\* Without a service no thread is created, and each that is there goes or waits.
LEMMA WorkersGo ==
    ASSUME TypeOK, ServiceInv, [Next]_vars, ~created, NEW t \in Threads
    PROVE  StepsToLeave(t)' < StepsToLeave(t) \/ UNCHANGED <<wpc[t], wnext[t]>>
<1>1. mpc = "idle"
  BY DEF ServiceInv
<1>2. CASE UNCHANGED vars \/ OnCreate \/ Permit \/ \E p \in BOOLEAN : StartService(p)
  BY <1>2 DEF vars, OnCreate, Permit, StartService, workers
<1>3. CASE Killed
  BY <1>3 DEF Killed, TypeOK, StepsToLeave, AfterPublication
<1>4. ASSUME NEW u \in Threads, Worker(u)
      PROVE  StepsToLeave(t)' < StepsToLeave(t) \/ UNCHANGED <<wpc[t], wnext[t]>>
  <2>1. ~running
    BY <1>4, WorkerLeavesMain DEF ServiceInv, Anyone
  <2> QED BY <1>4, <2>1, WorkerGoes, WorkerLeavesMain
<1>5. ~OnStart /\ ~OnDestroy /\ ~MainLocal
  BY <1>1 DEF OnStart, OnDestroy, MainLocal, MainFormat, MainWrite, StartWorker, Spawn,
              SpawnFails, Pulse, NoPulse, Stop
<1> QED BY <1>2, <1>3, <1>4, <1>5 DEF Next

\* A service that is destroyed leaves nothing on the screen, and a worker that goes for
\* ever nearer to its end: what StoppedServiceLeaves needs besides fair threads.
THEOREM DestroyedServiceGoesHolds == Spec => DestroyedServiceGoes
<1>1. TypeOK /\ LifecycleInv /\ ServiceInv /\ [Next]_vars => ServiceInv'
  BY ServiceStep
<1>2. ServiceInv => (~created => ~shown /\ (Anyone => ~running))
  BY DEF ServiceInv
<1>3. TypeOK /\ ServiceInv /\ [Next]_vars =>
        [~created => \A t \in Threads :
            StepsToLeave(t)' < StepsToLeave(t) \/ UNCHANGED <<wpc[t], wnext[t]>>]_vars
  BY WorkersGo
<1> QED BY <1>1, <1>2, <1>3, ServiceInit, TypeCorrect, Inductive, PTL
        DEF Spec, DestroyedServiceGoes

\* The bound of those steps.
THEOREM StepsToLeaveBounded ==
    Spec => [](\A t \in Threads : StepsToLeave(t) \in 0 .. 9 /\ (StepsToLeave(t) = 0 <=> ~Exists(t)))
<1>1. TypeOK => \A t \in Threads :
          StepsToLeave(t) \in 0 .. 9 /\ (StepsToLeave(t) = 0 <=> ~Exists(t))
  BY DEF TypeOK, StepsToLeave, AfterPublication, Exists
<1> QED BY <1>1, TypeCorrect, PTL

----------------------------------------------------------------------------

\* Nothing is published by this process yet.
LEMMA PublicationInit == Init => PublicationInv
BY DEF Init, PublicationInv

\* What the other actions leave alone of a publication.
LEMMA Unpublished ==
    ASSUME PublicationInv, UNCHANGED <<created, mpc, mnext, mbuf, alive, state, wpc, wbuf,
                                       stateFile, crossed>>
    PROVE  PublicationInv'
BY DEF PublicationInv, Stopping, Publishing, Now

\* A callback that changes a flag goes on to format, and what the main thread writes is true
\* unless the worker has yet to format or was at its writing.
LEMMA PublicationMain ==
    ASSUME TypeOK, PublicationInv, ServiceInv, OnCreate \/ OnStart \/ OnDestroy \/ MainLocal
    PROVE  PublicationInv'
<1> USE DEF PublicationInv, Stopping, Publishing
<1>1. CASE OnCreate \/ OnDestroy \/ SpawnFails
  <2>1. /\ mpc' = "format" /\ UNCHANGED <<wpc, crossed>>
        /\ created' /\ mnext' # "stop" => alive'
    <3>1. CASE OnCreate
      BY <3>1, Zenon DEF OnCreate, workers, published
    <3>2. CASE OnDestroy
      BY <3>2, Zenon DEF OnDestroy, workers, published
    <3>3. CASE SpawnFails
      <4>1. mpc = "spawn" /\ mpc' = "format" /\ UNCHANGED <<created, alive, workers, published>>
        BY <3>3, Zenon DEF SpawnFails
      <4> QED BY <4>1 DEF workers, published
    <3> QED BY <1>1, <3>1, <3>2, <3>3
  <2> QED BY <2>1
<1>2. CASE OnStart
  <2>1. /\ mpc = "idle" /\ mpc' = "start" /\ created /\ alive'
        /\ UNCHANGED <<created, mbuf, state, workers, published>>
    BY <1>2, Zenon DEF OnStart
  <2>2. alive
    BY <2>1
  <2>3. Now' = Now
    BY <2>1, <2>2 DEF Now
  <2> QED BY <2>1, <2>2, <2>3 DEF workers, published
<1>3. CASE MainFormat
  <2>1. /\ mpc = "format" /\ mpc' = "write" /\ mbuf' = Now /\ Now' = Now
        /\ UNCHANGED <<created, mnext, alive, wpc>>
    BY <1>3, Zenon DEF MainFormat, flags, workers, Now
  <2>2. ~crossed' => \A t \in Threads : wpc[t] # "write"
    BY <1>3, Zenon DEF MainFormat
  <2> QED BY <2>1, <2>2
<1>4. CASE MainWrite
  <2>1. /\ mpc = "write" /\ mpc' = mnext /\ stateFile' = mbuf /\ Now' = Now
        /\ mnext \in {"start", "pulse", "stop"}
        /\ UNCHANGED <<created, mnext, alive, wpc, wbuf, crossed>>
    BY <1>4, Zenon DEF MainWrite, TypeOK, flags, workers, Now
  <2> QED BY <2>1
<1>5. CASE StartWorker \/ Pulse \/ NoPulse \/ Stop
  <2>1. /\ mpc \in {"start", "pulse", "stop"} /\ mpc' \in {"pulse", "spawn", "idle"}
        /\ mpc = "stop" => ~created'
        /\ mpc # "stop" => created' = created
        /\ UNCHANGED <<alive, state, workers, published>>
    BY <1>5, Zenon DEF StartWorker, Pulse, NoPulse, Stop, flags
  <2>2. Now' = Now
    BY <2>1, Zenon DEF Now
  <2> QED BY <2>1, <2>2 DEF workers, published
<1>6. CASE Spawn
  <2>1. /\ mpc = "spawn" /\ mpc' = "pulse"
        /\ UNCHANGED <<created, alive, crossed>>
    BY <1>6, Zenon DEF Spawn, flags, published
  <2>2. \E t \in Threads : wpc'[t] = "format"
    BY <1>6 DEF Spawn, TypeOK
  <2> QED BY <2>1, <2>2
<1> QED BY <1>1, <1>2, <1>3, <1>4, <1>5, <1>6 DEF MainLocal

\* A worker that changes the state of the session goes on to format.
LEMMA PublicationWorker ==
    ASSUME TypeOK, LifecycleInv, PublicationInv, NEW t \in Threads, Worker(t)
    PROVE  PublicationInv'
<1> USE DEF PublicationInv, Stopping, Publishing
<1>1. /\ \A u \in Threads : u # t => wpc[u] = "none" /\ wpc'[u] = "none"
      /\ UNCHANGED <<created, mpc, mnext, mbuf, alive>>
  <2>1. \A u \in Threads : u # t => wpc[u] = "none" /\ wpc'[u] = wpc[u]
    BY WorkerLeavesMain DEF LifecycleInv, OneOwner, AtMostOneWorker, Exists
  <2>2. UNCHANGED <<created, mpc, mnext, mbuf, alive>>
    BY Zenon DEF Worker, WorkerLocal, WorkerFormat, WorkerWrite, LoopTest, AttemptFails,
       Poll, Answered, PauseOver, Moves, Established, SessionStopped, SessionLost, Becomes,
       Leave, main, flags
  <2> QED BY <2>1, <2>2
<1>2. CASE WorkerFormat(t)
  <2>1. Now' = Now
    BY <1>2, Zenon DEF WorkerFormat, flags, Now
  <2>2. wpc'[t] = "write" /\ wbuf'[t] = Now
    BY <1>2 DEF WorkerFormat, TypeOK
  <2>3. ~crossed' => mpc # "write"
    BY <1>2, Zenon DEF WorkerFormat
  <2> QED BY <1>1, <2>1, <2>2, <2>3
<1>3. CASE WorkerWrite(t)
  <2>1. Now' = Now /\ UNCHANGED crossed
    BY <1>3, Zenon DEF WorkerWrite, flags, Now
  <2>2. wpc[t] = "write" /\ wpc'[t] \in {"test", "session", "pause"} /\ stateFile' = wbuf[t]
    BY <1>3 DEF WorkerWrite, TypeOK
  <2> QED BY <1>1, <2>1, <2>2
<1>4. CASE Established(t) \/ SessionStopped(t) \/ SessionLost(t)
  <2>1. wpc'[t] = "format" /\ wpc[t] # "write"
    BY <1>4 DEF Established, SessionStopped, SessionLost, Becomes, TypeOK
  <2>2. UNCHANGED crossed
    BY <1>4, Zenon DEF Established, SessionStopped, SessionLost, Becomes, published
  <2> QED BY <1>1, <2>1, <2>2
<1>5. CASE LoopTest(t) \/ AttemptFails(t) \/ Poll(t) \/ Answered(t) \/ PauseOver(t) \/ Leave(t)
  <2>1. Now' = Now /\ UNCHANGED <<stateFile, crossed>>
    BY <1>5, Zenon DEF LoopTest, AttemptFails, Poll, Answered, PauseOver, Leave, Moves,
       published, flags, Now
  <2>2. wpc[t] \notin {"format", "write"} /\ wpc'[t] \notin {"format", "write"}
    BY <1>5 DEF LoopTest, AttemptFails, Poll, Answered, PauseOver, Leave, Moves, TypeOK
  <2> QED BY <1>1, <2>1, <2>2
<1> QED BY <1>2, <1>3, <1>4, <1>5 DEF Worker, WorkerLocal

\* Every step keeps what is said of publications; the end of the process ends it.
LEMMA PublicationStep ==
    ASSUME TypeOK, LifecycleInv, ServiceInv, PublicationInv, [Next]_vars
    PROVE  PublicationInv'
<1>1. CASE UNCHANGED vars \/ Permit \/ \E p \in BOOLEAN : StartService(p)
  <2>1. UNCHANGED <<created, mpc, mnext, mbuf, alive, state, wpc, wbuf, stateFile, crossed>>
    BY <1>1, Zenon DEF vars, main, Permit, StartService, flags, workers, published
  <2> QED BY <2>1, Unpublished
<1>2. CASE Killed
  <2>1. created' = FALSE /\ crossed' = TRUE
    BY <1>2, Zenon DEF Killed
  <2> QED BY <2>1 DEF PublicationInv
<1> QED BY <1>1, <1>2, PublicationMain, PublicationWorker DEF Next

\* With nobody publishing the state file says what the process has in memory, for any
\* interleaving of callbacks, worker and kills, unless two publications crossed.
THEOREM FileIsTrueHolds == Spec => []FileIsTrueUnlessCrossed
<1>1. TypeOK /\ LifecycleInv /\ ServiceInv /\ [Next]_vars => ServiceInv'
  BY ServiceStep
<1>2. TypeOK /\ LifecycleInv /\ ServiceInv /\ PublicationInv /\ [Next]_vars => PublicationInv'
  BY PublicationStep
<1>3. PublicationInv => FileIsTrueUnlessCrossed
  BY DEF PublicationInv, FileIsTrueUnlessCrossed, Publishing
<1> QED BY <1>1, <1>2, <1>3, ServiceInit, PublicationInit, TypeCorrect, Inductive, PTL
        DEF Spec
====
