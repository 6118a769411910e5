---- MODULE ActivityThreadsProofs ----
(***************************************************************************)
(* For any number of Activities: types, and a buffer for every painter.    *)
(***************************************************************************)
EXTENDS ActivityThreads, TLAPS

\* A thread does not run before its Activity has been created.
Unborn == \A t \in Creatable : own[t[2]] = 0 => pc[t] = "gone"

ThreadsInv == TypeOK /\ Unborn /\ BufferIsWithItsPainter

\* Nobody is no thread, and every other thread than Main belongs to an Activity.
LEMMA Names ==
    /\ NoThread \notin Threads
    /\ Main \notin Creatable
    /\ \A t \in Creatable : t[2] \in Numbers
BY ActivityAssumption DEF NoThread, Threads, Main, Numbers

\* Reading the state file keeps the types of what it changes.
LEMMA SyncTypes ==
    ASSUME TypeOK, NEW t \in Threads, NEW to \in {"test", "act", "render", "post"}, Sync(t, to),
           pc[t] \notin Decoding
    PROVE  /\ file' = file /\ known' = known
           /\ last' \in Frames \cup {NoFrame}
           /\ pc' \in [Threads -> {"gone", "idle", "test", "act", "render", "post"} \cup Decoding]
           /\ ret' \in [Threads -> {"test", "act", "render", "post"}]
           /\ frame' \in [Threads -> Frames \cup {NoFrame}]
           /\ \A q \in Threads : pc'[q] \in Decoding <=> frame'[q] # NoFrame
<1> USE DEF TypeOK, Sync, Goes, Decoding
<1>1. CASE file = NoFrame
  BY <1>1 DEF Skip, shared
<1>2. CASE file # NoFrame
  BY <1>2 DEF Take
<1> QED
  BY <1>1, <1>2

\* Every step keeps the types.
LEMMA TypeNext == TypeOK /\ Unborn /\ [Next]_vars => TypeOK'
<1> SUFFICES ASSUME TypeOK, Unborn, [Next]_vars PROVE TypeOK'
  OBVIOUS
<1>1. ASSUME NEW n \in Numbers, Callback(n) PROVE TypeOK'
  <2> USE DEF TypeOK, shared, Goes, Decoding
  <2>0. Main \in Threads
    BY DEF Threads
  <2>1. CASE OnCreate(n)
    <3>1. generation' \in Nat /\ own' \in [Numbers -> Nat]
      BY <2>1 DEF OnCreate
    <3>2. exists' \subseteq Numbers /\ alive' \in BOOLEAN
      BY <2>1 DEF OnCreate
    <3>3. PICK created \in SUBSET {t \in Creatable : t[2] = n} :
              pc' = [t \in Threads |-> IF t \in created THEN "test" ELSE pc[t]]
      BY <2>1 DEF OnCreate
    <3>4. \A t \in created : pc[t] = "gone"
      BY <2>1 DEF OnCreate, Unborn
    <3>5. \A t \in created : t \in Threads
      BY DEF Threads
    <3> QED
      BY <2>1, <3>1, <3>2, <3>3, <3>4, <3>5 DEF OnCreate
  <2>2. CASE OnWindow(n)
    BY <2>0, <2>2 DEF OnWindow
  <2>3. CASE OnWindowDestroyed(n)
    BY <2>3 DEF OnWindowDestroyed
  <2>4. CASE OnFocus(n)
    BY <2>0, <2>4 DEF OnFocus, activity
  <2>5. CASE OnDestroy(n)
    <3>1. exists' \subseteq Numbers /\ alive' \in BOOLEAN
      BY <2>5 DEF OnDestroy
    <3>2. generation' \in Nat /\ window' \in Numbers \cup {0}
      BY <2>5 DEF OnDestroy
    <3> QED
      BY <2>5, <3>1, <3>2 DEF OnDestroy
  <2> QED
    BY <1>1, <2>1, <2>2, <2>3, <2>4, <2>5 DEF Callback
<1>2. CASE Publish
  BY <1>2 DEF Publish, TypeOK, activity
<1>3. ASSUME NEW t \in Threads, Runs(t) \/ Touch(t) PROVE TypeOK'
  <2>1. CASE Decode(t)
    <3>1. frame[t] \in Frames
      BY <2>1 DEF Decode, TypeOK, Decoding
    <3>2. frame[t].trust \in BOOLEAN
      BY <3>1, ActivityAssumption
    <3> QED
      BY <2>1, <3>2 DEF Decode, TypeOK, activity, Goes, Decoding
  <2>2. CASE DecodeAsk(t)
    <3>1. frame[t] \in Frames
      BY <2>2 DEF DecodeAsk, TypeOK, Decoding
    <3>2. frame[t].ask \in BOOLEAN
      BY <3>1, ActivityAssumption
    <3> QED
      BY <2>2, <3>2 DEF DecodeAsk, TypeOK, activity, Goes, Decoding
  <2>3. CASE RenderSkipped(t)
    BY <2>3 DEF RenderSkipped, Rest, TypeOK, shared, activity, Goes, Decoding
  <2>4. CASE RenderState(t)
    <3>1. lock' \in [Numbers -> Threads \cup {NoThread}]
      BY <2>4 DEF RenderState, Lock, TypeOK
    <3> QED
      BY <2>4, <3>1, SyncTypes DEF RenderState, TypeOK, activity, Decoding
  <2>5. CASE RenderPlain(t)
    BY <2>5 DEF RenderPlain, Lock, TypeOK, shared, activity, Goes, Decoding
  <2>6. CASE Post(t)
    BY <2>6 DEF Post, Rest, TypeOK, shared, activity, Goes, Decoding
  <2>7. CASE Leave(t)
    BY <2>7 DEF Leave, TypeOK, shared, activity, Goes, Decoding
  <2>8. CASE RefreshTurn(t)
    BY <2>8, SyncTypes DEF RefreshTurn, TypeOK, activity, Decoding
  <2>9. CASE Touch(t)
    BY <2>9, SyncTypes DEF Touch, TypeOK, activity, Decoding
  <2>10. CASE Hit(t)
    BY <2>10 DEF Hit, TypeOK, shared, activity, Goes, Decoding
  <2>11. CASE Miss(t)
    BY <2>11 DEF Miss, TypeOK, shared, activity, Goes, Decoding
  <2> QED
    BY <1>3, <2>1, <2>2, <2>3, <2>4, <2>5, <2>6, <2>7, <2>8, <2>9, <2>10, <2>11 DEF Runs
<1>4. CASE UNCHANGED vars
  BY <1>4 DEF vars, shared, activity, TypeOK
<1> QED
  BY <1>1, <1>2, <1>3, <1>4 DEF Next

\* Only OnCreate starts threads, those of the Activity it creates.
LEMMA UnbornNext == TypeOK /\ Unborn /\ [Next]_vars => Unborn'
<1> SUFFICES ASSUME TypeOK, Unborn, [Next]_vars PROVE Unborn'
  OBVIOUS
<1> USE Names DEF Unborn, TypeOK, Goes
<1>0. Creatable \subseteq Threads
  BY DEF Threads
<1>1. ASSUME NEW n \in Numbers, Callback(n) PROVE Unborn'
  <2>1. CASE OnCreate(n)
    <3>1. own'[n] # 0 /\ \A m \in Numbers : m # n => own'[m] = own[m]
      BY <2>1 DEF OnCreate
    <3>2. PICK created \in SUBSET {t \in Creatable : t[2] = n} :
              pc' = [t \in Threads |-> IF t \in created THEN "test" ELSE pc[t]]
      BY <2>1 DEF OnCreate
    <3> QED
      BY <1>0, <3>1, <3>2
  <2>2. CASE OnWindow(n) \/ OnFocus(n)
    BY <1>0, <2>2 DEF OnWindow, OnFocus, activity
  <2>3. CASE OnWindowDestroyed(n) \/ OnDestroy(n)
    BY <2>3 DEF OnWindowDestroyed, OnDestroy
  <2> QED
    BY <1>1, <2>1, <2>2, <2>3 DEF Callback
<1>2. CASE Publish
  BY <1>2 DEF Publish, activity
<1>3. ASSUME NEW t \in Threads, Runs(t) \/ Touch(t) PROVE Unborn'
  <2>1. pc[t] # "gone" /\ own' = own /\ \A q \in Threads : q # t => pc'[q] = pc[q]
    BY <1>3 DEF Runs, Touch, Decode, DecodeAsk, RenderSkipped, RenderState, RenderPlain, Post,
         Leave, RefreshTurn, Hit, Miss, activity, Sync, Take, Skip
  <2> QED
    BY <1>0, <2>1
<1>4. CASE UNCHANGED vars
  BY <1>4 DEF vars, activity
<1> QED
  BY <1>1, <1>2, <1>3, <1>4 DEF Next

\* A thread that leaves the locks alone, and begins or ends no drawing, keeps the rest.
LEMMA SameBuffers ==
    ASSUME BufferIsWithItsPainter, lock' = lock,
           \A q \in Threads : Paints(q)' = Paints(q)
    PROVE  BufferIsWithItsPainter'
BY DEF BufferIsWithItsPainter, Held

\* Locking: the painter holds the one buffer, and the others what they held.
LEMMA Locking ==
    ASSUME TypeOK, BufferIsWithItsPainter, NEW t \in Threads, Lock(t), ~Paints(t), Paints(t)',
           \A q \in Threads : q # t => Paints(q)' = Paints(q)
    PROVE  BufferIsWithItsPainter'
<1> USE DEF TypeOK, Lock, Drawable
<1>1. window \in Numbers /\ lock[window] = NoThread
  OBVIOUS
<1>2. Held(t)' = {window}
  <2>1. Held(t) = {}
    BY DEF BufferIsWithItsPainter
  <2> QED
    BY <1>1, <2>1 DEF Held
<1>3. ASSUME NEW q \in Threads, q # t PROVE Held(q)' = Held(q)
  BY <1>1, <1>3, Names DEF Held
<1> QED
  BY <1>1, <1>2, <1>3 DEF BufferIsWithItsPainter

\* Every step keeps each buffer with its painter.
LEMMA BufferNext == ThreadsInv /\ [Next]_vars => BufferIsWithItsPainter'
<1> SUFFICES ASSUME ThreadsInv, [Next]_vars PROVE BufferIsWithItsPainter'
  OBVIOUS
<1> USE Names DEF ThreadsInv, TypeOK, Goes, Paints, Decoding
<1>1. ASSUME NEW n \in Numbers, Callback(n) PROVE BufferIsWithItsPainter'
  <2>1. CASE OnCreate(n)
    <3>1. PICK created \in SUBSET {t \in Creatable : t[2] = n} :
              pc' = [t \in Threads |-> IF t \in created THEN "test" ELSE pc[t]]
      BY <2>1 DEF OnCreate
    <3>2. \A t \in created : pc[t] = "gone"
      BY <2>1 DEF OnCreate, Unborn
    <3>3. \A q \in Threads : Paints(q)' = Paints(q)
      BY <2>1, <3>1, <3>2 DEF OnCreate
    <3> QED
      BY <2>1, <3>3, SameBuffers DEF OnCreate
  <2>2. CASE OnWindow(n) \/ OnFocus(n)
    <3>1. \A q \in Threads : Paints(q)' = Paints(q)
      BY <2>2 DEF OnWindow, OnFocus
    <3> QED
      BY <2>2, <3>1, SameBuffers DEF OnWindow, OnFocus
  <2>3. CASE OnWindowDestroyed(n) \/ OnDestroy(n)
    BY <2>3, SameBuffers DEF OnWindowDestroyed, OnDestroy
  <2> QED
    BY <1>1, <2>1, <2>2, <2>3 DEF Callback
<1>2. CASE Publish
  BY <1>2, SameBuffers DEF Publish
<1>3. ASSUME NEW t \in Threads, Runs(t) \/ Touch(t) PROVE BufferIsWithItsPainter'
  <2>1. CASE Decode(t)
    <3>1. \A q \in Threads : Paints(q)' = Paints(q)
      BY <2>1 DEF Decode
    <3> QED
      BY <2>1, <3>1, SameBuffers DEF Decode
  <2>2. CASE DecodeAsk(t)
    <3>1. \A q \in Threads : Paints(q)' = Paints(q)
      BY <2>2 DEF DecodeAsk
    <3> QED
      BY <2>2, <3>1, SameBuffers DEF DecodeAsk
  <2>3. CASE RenderSkipped(t) \/ Leave(t) \/ Hit(t) \/ Miss(t)
    <3>1. \A q \in Threads : Paints(q)' = Paints(q)
      BY <2>3 DEF RenderSkipped, Leave, Hit, Miss, Rest
    <3> QED
      BY <2>3, <3>1, SameBuffers DEF RenderSkipped, Leave, Hit, Miss
  <2>4. CASE RenderState(t)
    <3>1. ~Paints(t) /\ Paints(t)' /\ \A q \in Threads : q # t => Paints(q)' = Paints(q)
      BY <2>4 DEF RenderState, Sync, Take, Skip
    <3> QED
      BY <2>4, <3>1, Locking DEF RenderState
  <2>5. CASE RenderPlain(t)
    <3>1. ~Paints(t) /\ Paints(t)' /\ \A q \in Threads : q # t => Paints(q)' = Paints(q)
      BY <2>5 DEF RenderPlain
    <3> QED
      BY <2>5, <3>1, Locking DEF RenderPlain
  <2>6. CASE Post(t)
    <3>1. ~Paints(t)' /\ \A q \in Threads : q # t => Paints(q)' = Paints(q)
      BY <2>6 DEF Post, Rest
    <3>2. Held(t)' = {}
      BY <2>6 DEF Post, Held
    <3>3. ASSUME NEW q \in Threads, q # t PROVE Held(q)' = Held(q)
      BY <2>6, <3>3 DEF Post, Held
    <3> QED
      BY <3>1, <3>2, <3>3 DEF BufferIsWithItsPainter
  <2>7. CASE RefreshTurn(t) \/ Touch(t)
    <3>1. \A q \in Threads : Paints(q)' = Paints(q)
      BY <2>7 DEF RefreshTurn, Touch, Sync, Take, Skip
    <3> QED
      BY <2>7, <3>1, SameBuffers DEF RefreshTurn, Touch
  <2> QED
    BY <1>3, <2>1, <2>2, <2>3, <2>4, <2>5, <2>6, <2>7 DEF Runs
<1>4. CASE UNCHANGED vars
  BY <1>4, SameBuffers DEF vars
<1> QED
  BY <1>1, <1>2, <1>3, <1>4 DEF Next

\* The three parts hold together: a thread that is created was not drawing, because
\* it did not run.
THEOREM ThreadsInductive == Spec => []ThreadsInv
<1>1. Init => ThreadsInv
  <2> SUFFICES ASSUME Init PROVE ThreadsInv
    OBVIOUS
  <2> USE DEF Init
  <2>1. TypeOK
    BY DEF TypeOK, Decoding
  <2>2. Unborn
    BY Names DEF Unborn, Threads
  <2>3. BufferIsWithItsPainter
    BY Names DEF BufferIsWithItsPainter, Paints, Held, Decoding
  <2> QED
    BY <2>1, <2>2, <2>3 DEF ThreadsInv
<1>2. ThreadsInv /\ [Next]_vars => ThreadsInv'
  BY TypeNext, UnbornNext, BufferNext DEF ThreadsInv
<1> QED
  BY <1>1, <1>2, PTL DEF Spec

\* TypeOK, for any number of Activities and whichever threads can be created.
THEOREM TypeCorrect == Spec => []TypeOK
<1>1. ThreadsInv => TypeOK
  BY DEF ThreadsInv
<1> QED
  BY <1>1, ThreadsInductive, PTL

\* Neither an early return of render nor an Activity that comes or goes while a thread
\* draws leaves a buffer locked, or lets a thread draw without one.
THEOREM BufferIsWithItsPainterHolds == Spec => []BufferIsWithItsPainter
<1>1. ThreadsInv => BufferIsWithItsPainter
  BY DEF ThreadsInv
<1> QED
  BY <1>1, ThreadsInductive, PTL

----------------------------------------------------------------------------
(* Threads of earlier Activities                                           *)

\* The generation only grows: no Activity has one that is still to come.
Generations == \A n \in Numbers : own[n] <= generation

LEMMA GenerationsNext ==
    TypeOK /\ Generations /\ [Next]_vars => Generations' /\ \A t \in Creatable : Outdated(t) => Outdated(t)'
<1> SUFFICES ASSUME TypeOK, Generations, [Next]_vars
             PROVE  Generations' /\ \A t \in Creatable : Outdated(t) => Outdated(t)'
  OBVIOUS
<1> USE Names DEF TypeOK, Generations, Outdated
<1>1. CASE UNCHANGED <<own, generation>>
  BY <1>1
<1>2. ASSUME NEW n \in Numbers, OnCreate(n)
      PROVE  Generations' /\ \A t \in Creatable : Outdated(t) => Outdated(t)'
  <2>1. /\ generation' = generation + 1 /\ own[n] = 0
        /\ own' = [own EXCEPT ![n] = generation + 1]
    BY <1>2 DEF OnCreate
  <2>2. \A t \in Creatable : Outdated(t) => own'[t[2]] = own[t[2]]
    BY <2>1
  <2> QED
    BY <2>1, <2>2
<1>3. ASSUME NEW n \in Numbers, OnDestroy(n)
      PROVE  Generations' /\ \A t \in Creatable : Outdated(t) => Outdated(t)'
  BY <1>3 DEF OnDestroy
<1>4. ASSUME NEW n \in Numbers, OnWindow(n) \/ OnWindowDestroyed(n) \/ OnFocus(n)
      PROVE  UNCHANGED <<own, generation>>
  BY <1>4 DEF OnWindow, OnWindowDestroyed, OnFocus, activity
<1>5. ASSUME NEW t \in Threads, Runs(t) \/ Touch(t)
      PROVE  UNCHANGED <<own, generation>>
  BY <1>5 DEF Runs, Touch, Decode, DecodeAsk, RenderSkipped, RenderState, RenderPlain, Post,
     Leave, RefreshTurn, Hit, Miss, activity
<1> QED
  BY <1>1, <1>2, <1>3, <1>4, <1>5 DEF Next, Callback, Publish, vars, activity

\* What a thread does leaves the others where they are.
LEMMA OthersStay ==
    ASSUME TypeOK, NEW q \in Threads, Runs(q) \/ Touch(q), NEW t \in Threads, t # q
    PROVE  UNCHANGED <<pc[t], ret[t], frame[t]>>
BY DEF TypeOK, Runs, Touch, Decode, DecodeAsk, RenderSkipped, RenderState, RenderPlain, Post,
   Leave, RefreshTurn, Hit, Miss, Sync, Take, Skip, Goes

\* Every step of an outdated thread brings it nearer to its end.
LEMMA OutdatedFinishes ==
    ASSUME TypeOK, NEW t \in Creatable, Outdated(t), Runs(t) \/ Touch(t)
    PROVE  TurnLeft(t)' < TurnLeft(t)
<1> USE Names DEF TypeOK, TurnLeft, AfterDecoding, Goes
<1>0. t \in Threads /\ t # Main
  BY DEF Threads
<1>1. CASE Decode(t)
  BY <1>0, <1>1 DEF Decode
<1>2. CASE DecodeAsk(t)
  <2>1. pc[t] = "ask" /\ pc' = [pc EXCEPT ![t] = ret[t]]
    BY <1>2 DEF DecodeAsk
  <2>2. pc'[t] = ret[t] /\ ret[t] \in {"test", "act", "render", "post"}
    BY <1>0, <2>1
  <2> QED
    BY <2>1, <2>2
<1>3. CASE RenderSkipped(t) \/ Post(t)
  BY <1>0, <1>3 DEF RenderSkipped, Post, Rest
<1>4. CASE RenderState(t)
  BY <1>0, <1>4 DEF RenderState, Sync, Take, Skip
<1>5. CASE RenderPlain(t) \/ Leave(t) \/ Hit(t) \/ Miss(t)
  BY <1>0, <1>5 DEF RenderPlain, Leave, Hit, Miss
<1>6. ~RefreshTurn(t) /\ ~Touch(t)
  BY DEF RefreshTurn, Touch, Current, Outdated
<1> QED
  BY <1>1, <1>2, <1>3, <1>4, <1>5, <1>6 DEF Runs

\* A step of anyone: the outdated thread is where it was, or nearer to its end.
LEMMA OutdatedGoes ==
    ASSUME TypeOK, Unborn, [Next]_vars, NEW t \in Creatable, Outdated(t)
    PROVE  TurnLeft(t)' < TurnLeft(t) \/ UNCHANGED <<pc[t], ret[t], frame[t]>>
<1>0. t \in Threads /\ t # Main /\ t[2] \in Numbers
  BY Names DEF Threads
<1>1. CASE Publish \/ UNCHANGED vars
  BY <1>1 DEF Publish, vars
<1>2. ASSUME NEW n \in Numbers, Callback(n)
      PROVE  UNCHANGED <<pc[t], ret[t], frame[t]>>
  <2>1. CASE OnCreate(n)
    <3>1. own[n] = 0
      BY <2>1 DEF OnCreate
    <3>2. PICK created \in SUBSET {u \in Creatable : u[2] = n} :
              pc' = [u \in Threads |-> IF u \in created THEN "test" ELSE pc[u]]
      BY <2>1 DEF OnCreate
    <3>3. t \notin created
      BY <3>1 DEF Outdated
    <3> QED
      BY <1>0, <2>1, <3>2, <3>3 DEF OnCreate
  <2>2. CASE OnWindow(n) \/ OnFocus(n)
    BY <1>0, <2>2 DEF OnWindow, OnFocus, Goes, TypeOK
  <2>3. CASE OnWindowDestroyed(n) \/ OnDestroy(n)
    BY <2>3 DEF OnWindowDestroyed, OnDestroy
  <2> QED
    BY <1>2, <2>1, <2>2, <2>3 DEF Callback
<1>3. ASSUME NEW q \in Threads, Runs(q) \/ Touch(q)
      PROVE  TurnLeft(t)' < TurnLeft(t) \/ UNCHANGED <<pc[t], ret[t], frame[t]>>
  BY <1>0, <1>3, OthersStay, OutdatedFinishes
<1> QED
  BY <1>1, <1>2, <1>3 DEF Next

\* The threads of an Activity that is gone or overtaken only finish their turn: what
\* OldThreadsLeave needs besides fair threads.
THEOREM OldThreadsFinishHolds == Spec => OldThreadsFinish
<1>1. Init => Generations
  BY DEF Init, Generations
<1>2. TypeOK /\ Generations /\ [Next]_vars => Generations'
  BY GenerationsNext
<1>3. ThreadsInv /\ Generations /\ [Next]_vars =>
        [\A t \in Creatable : Outdated(t) =>
            /\ Outdated(t)'
            /\ TurnLeft(t)' < TurnLeft(t) \/ UNCHANGED <<pc[t], ret[t], frame[t]>>]_vars
  BY GenerationsNext, OutdatedGoes DEF ThreadsInv
<1> QED
  BY <1>1, <1>2, <1>3, ThreadsInductive, TypeCorrect, PTL DEF Spec, OldThreadsFinish

----------------------------------------------------------------------------
(* Decoding                                                                *)

\* A frame is held from the reading of the file to the decoding of its last field.
LEMMA FramesTaken ==
    ASSUME TypeOK, [Next]_vars, NEW t \in Threads
    PROVE  frame'[t] \in {frame[t], file, NoFrame}
<1> USE DEF TypeOK
<1>1. CASE UNCHANGED frame
  BY <1>1
<1>2. ASSUME NEW q \in Threads, Runs(q) \/ Touch(q)
      PROVE  frame'[t] \in {frame[t], file, NoFrame}
  BY <1>2 DEF Runs, Touch, Decode, DecodeAsk, RenderSkipped, RenderState, RenderPlain, Post,
     Leave, RefreshTurn, Hit, Miss, Sync, Take, Skip
<1>3. ASSUME NEW n \in Numbers, Callback(n)
      PROVE  UNCHANGED frame
  BY <1>3 DEF Callback, OnCreate, OnWindow, OnWindowDestroyed, OnFocus, OnDestroy
<1> QED
  BY <1>1, <1>2, <1>3 DEF Next, Publish, vars

\* A step that writes a global has it from a frame that a thread holds.
LEMMA FieldsFromFrames ==
    ASSUME TypeOK, [Next]_vars, NEW field \in {"trust", "ask"}
    PROVE  \/ known'[field] = known[field]
           \/ \E t \in Threads : frame[t] # NoFrame /\ known'[field] = frame[t][field]
<1> USE DEF TypeOK, Decoding
<1>1. CASE UNCHANGED known
  BY <1>1
<1>2. ASSUME NEW t \in Threads, Decode(t) \/ DecodeAsk(t)
      PROVE  \/ known'[field] = known[field]
             \/ \E q \in Threads : frame[q] # NoFrame /\ known'[field] = frame[q][field]
  <2>1. frame[t] # NoFrame
    BY <1>2 DEF Decode, DecodeAsk
  <2>2. CASE Decode(t)
    BY <2>1, <2>2 DEF Decode
  <2>3. CASE DecodeAsk(t)
    BY <2>1, <2>3 DEF DecodeAsk
  <2> QED
    BY <1>2, <2>2, <2>3
<1>3. ASSUME NEW t \in Threads, Runs(t) \/ Touch(t), ~Decode(t), ~DecodeAsk(t)
      PROVE  UNCHANGED known
  BY <1>3 DEF Runs, Touch, RenderSkipped, RenderState, RenderPlain, Post, Leave,
     RefreshTurn, Hit, Miss, Sync, Take, Skip, shared
<1>4. ASSUME NEW n \in Numbers, Callback(n)
      PROVE  UNCHANGED known
  BY <1>4 DEF Callback, OnCreate, OnWindow, OnWindowDestroyed, OnFocus, OnDestroy, shared
<1> QED
  BY <1>1, <1>2, <1>3, <1>4 DEF Next, Publish, vars, shared

\* However the decodings of several threads interleave, once the file is quiet and the
\* last old frame is decoded no field falls back: what GlobalsSettle needs besides a
\* thread that goes on reading.
THEOREM QuietFileStaysHolds == Spec => QuietFileStays
<1>1. ASSUME TypeOK, [Next]_vars, file' = file
      PROVE  /\ Behind' \subseteq Behind
             /\ Behind = {} => \A field \in {"trust", "ask"} : Agrees(field) => Agrees(field)'
  <2>1. Behind' \subseteq Behind
    BY <1>1, FramesTaken DEF Behind
  <2>2. ASSUME Behind = {}, NEW field \in {"trust", "ask"}, Agrees(field)
        PROVE  Agrees(field)'
    <3>1. \A t \in Threads : frame[t] \in {file, NoFrame}
      BY <2>2 DEF Behind
    <3> QED
      BY <1>1, <2>2, <3>1, FieldsFromFrames DEF Agrees
  <2> QED
    BY <2>1, <2>2
<1>2. TypeOK /\ [Next]_vars =>
        [file' = file =>
            /\ Behind' \subseteq Behind
            /\ Behind = {} => \A field \in {"trust", "ask"} : Agrees(field) => Agrees(field)']_vars
  BY <1>1
<1> QED
  BY <1>2, TypeCorrect, PTL DEF Spec, QuietFileStays
====
