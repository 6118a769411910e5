---- MODULE ActivityThreads ----
(***************************************************************************)
(* The Activities' process: the main thread that runs the callbacks of the *)
(* NativeActivity, and for every Activity an input thread and a refresh    *)
(* thread, which outlive it until they next look at g_ui_generation.  All  *)
(* of them read trust-ui-state into the same globals and draw into one     *)
(* window, whose buffer only one can hold.  The launch mode is Android's   *)
(* standard one, so that a link that is opened while an Activity exists    *)
(* creates another in the same process.  What is drawn and what a button   *)
(* sends is TrustRuntime's concern.                                        *)
(***************************************************************************)
EXTENDS Naturals

CONSTANTS
    Frames,           \* what the state file can say: a host's trust, and a question
    NoFrame,          \* no frame is held, or none has been published
    MaxActivities,    \* bound: Activities created in a behaviour
    Creatable         \* bound: the threads that can be created, by kind and Activity

ASSUME ActivityAssumption ==
    /\ Frames \subseteq [trust : BOOLEAN, ask : BOOLEAN]
    /\ NoFrame \notin Frames
    /\ MaxActivities \in Nat
    /\ Creatable \subseteq {"input", "refresh"} \X (1 .. MaxActivities)

VARIABLES
    file,        \* trust-ui-state
    last,        \* g_trust_ui_last_frame
    known,       \* the decoded globals
    generation,  \* g_ui_generation
    alive,       \* g_ui_alive, and g_activity is not null
    window,      \* g_window: the Activity it belongs to, or 0
    own,         \* the generation of each Activity created so far, or 0
    exists,      \* the Activities that have not been destroyed
    lock,        \* for each Activity's window, the thread that holds its buffer
    pc,          \* where each thread is
    ret,         \* where it goes on after decoding
    frame        \* the frame it has read

shared == <<file, last, known>>
activity == <<generation, alive, window, own, exists>>
vars == <<shared, activity, lock, pc, ret, frame>>

Numbers == 1 .. MaxActivities

Main == <<"main", 0>>
Inputs == {t \in Creatable : t[1] = "input"}
Refreshers == {t \in Creatable : t[1] = "refresh"}
Threads == {Main} \cup Creatable
NoThread == <<"none", 0>>

Decoding == {"decode", "ask"}

\* Each thread stays inside its function, and holds a frame while it decodes it.
TypeOK ==
    /\ file \in Frames \cup {NoFrame} /\ last \in Frames \cup {NoFrame}
    /\ known \in [trust : BOOLEAN, ask : BOOLEAN]
    /\ generation \in Nat
    /\ alive \in BOOLEAN /\ window \in Numbers \cup {0}
    /\ own \in [Numbers -> Nat]
    /\ exists \subseteq Numbers
    /\ lock \in [Numbers -> Threads \cup {NoThread}]
    /\ pc \in [Threads -> {"gone", "idle", "test", "act", "render", "post"} \cup Decoding]
    /\ ret \in [Threads -> {"test", "act", "render", "post"}]
    /\ frame \in [Threads -> Frames \cup {NoFrame}]
    /\ \A t \in Threads : pc[t] \in Decoding <=> frame[t] # NoFrame

Goes(t, to) == pc' = [pc EXCEPT ![t] = to]

----------------------------------------------------------------------------
(* trust_ui_sync_from_service and render, called by every thread           *)

\* Where a thread is when its turn is over.
Rest(t) == IF t = Main THEN "idle" ELSE "test"

\* What is read is kept in last, and in the caller's frame until it is decoded.
Take(t, to) ==
    /\ last' = file
    /\ frame' = [frame EXCEPT ![t] = file]
    /\ ret' = [ret EXCEPT ![t] = to]
    /\ Goes(t, "decode")
    /\ UNCHANGED <<file, known>>

Skip(t, to) == Goes(t, to) /\ UNCHANGED <<shared, ret, frame>>

\* Slip: a frame that has been seen is not decoded again.
SyncOnce(t, to) == IF file \in {NoFrame, last} THEN Skip(t, to) ELSE Take(t, to)

\* The file is read and compared with last.  The globals follow, whether or not the
\* frame is new, in the two steps below.
Sync(t, to) == IF file = NoFrame THEN Skip(t, to) ELSE Take(t, to)

Decode(t) ==
    /\ pc[t] = "decode"
    /\ known' = [known EXCEPT !.trust = frame[t].trust]
    /\ Goes(t, "ask")
    /\ UNCHANGED <<file, last, activity, lock, ret, frame>>

DecodeAsk(t) ==
    /\ pc[t] = "ask"
    /\ known' = [known EXCEPT !.ask = frame[t].ask]
    /\ frame' = [frame EXCEPT ![t] = NoFrame]
    /\ Goes(t, ret[t])
    /\ ret' = [ret EXCEPT ![t] = "test"]
    /\ UNCHANGED <<file, last, activity, lock>>

Drawable == alive /\ window # 0

\* Nothing to draw in, or another thread holds the buffer: render returns.
RenderSkipped(t) ==
    /\ pc[t] = "render"
    /\ Drawable => lock[window] # NoThread
    /\ Goes(t, Rest(t))
    /\ UNCHANGED <<shared, activity, lock, ret, frame>>

Lock(t) ==
    /\ Drawable
    /\ lock[window] = NoThread
    /\ lock' = [lock EXCEPT ![window] = t]

\* Slip: a page is drawn from the frame that was kept for comparison.
RenderLast(t) ==
    /\ pc[t] = "render"
    /\ Lock(t)
    /\ frame' = [frame EXCEPT ![t] = last]
    /\ ret' = [ret EXCEPT ![t] = "post"]
    /\ Goes(t, IF last = NoFrame THEN "post" ELSE "decode")
    /\ UNCHANGED <<shared, activity>>

\* Home, Requests, Devices and the TRUST tab read the file again while the buffer is
\* held.
RenderState(t) ==
    /\ pc[t] = "render"
    /\ Lock(t)
    /\ Sync(t, "post")
    /\ UNCHANGED activity

\* Slip: a page that has nothing to read leaves without posting what it has drawn.
RenderKeepsBuffer(t) ==
    /\ pc[t] = "render"
    /\ Lock(t)
    /\ Goes(t, Rest(t))
    /\ UNCHANGED <<shared, activity, ret, frame>>

\* Settings and the diagnostic tabs.
RenderPlain(t) ==
    /\ pc[t] = "render"
    /\ Lock(t)
    /\ Goes(t, "post")
    /\ UNCHANGED <<shared, activity, ret, frame>>

Post(t) ==
    /\ pc[t] = "post"
    /\ lock' = [n \in Numbers |-> IF lock[n] = t THEN NoThread ELSE lock[n]]
    /\ Goes(t, Rest(t))
    /\ UNCHANGED <<shared, activity, ret, frame>>

----------------------------------------------------------------------------
(* trust_ui_refresh_thread and input_thread                                *)

\* Slip: the thread asks only whether there is an Activity.
CurrentIfAlive(t) == alive

Current(t) == alive /\ own[t[2]] = generation

Leave(t) ==
    /\ pc[t] = "test"
    /\ ~Current(t)
    /\ Goes(t, "gone")
    /\ UNCHANGED <<shared, activity, lock, ret, frame>>

\* Only this thread looks at what trust_ui_sync_from_service returns: a change is drawn.
RefreshTurn(t) ==
    /\ t \in Refreshers /\ pc[t] = "test"
    /\ Current(t)
    /\ Sync(t, IF file # last THEN "render" ELSE "test")
    /\ UNCHANGED <<activity, lock>>

\* A finger is lifted.
Touch(t) ==
    /\ t \in Inputs /\ pc[t] = "test"
    /\ Current(t)
    /\ Sync(t, "act")
    /\ UNCHANGED <<activity, lock>>

\* It was on the navigation, on a tab, or on a button, and a page is drawn.
Hit(t) ==
    /\ pc[t] = "act"
    /\ Goes(t, "render")
    /\ UNCHANGED <<shared, activity, lock, ret, frame>>

\* It was on nothing, and nothing is drawn.
Miss(t) ==
    /\ pc[t] = "act"
    /\ Goes(t, "test")
    /\ UNCHANGED <<shared, activity, lock, ret, frame>>

----------------------------------------------------------------------------
(* The callbacks on the main thread                                        *)

\* ANativeActivity_onCreate: each of the two threads may fail to be created, which
\* nobody notices.
OnCreate(n) ==
    /\ pc[Main] = "idle"
    /\ own[n] = 0 /\ \A m \in 1 .. n - 1 : own[m] # 0
    /\ generation' = generation + 1
    /\ own' = [own EXCEPT ![n] = generation']
    /\ exists' = exists \cup {n}
    /\ alive' = TRUE
    /\ \E created \in SUBSET {t \in Creatable : t[2] = n} :
          pc' = [t \in Threads |-> IF t \in created THEN "test" ELSE pc[t]]
    /\ UNCHANGED <<shared, window, lock, ret, frame>>

\* onNativeWindowCreated, Resized and RedrawNeeded.
OnWindow(n) ==
    /\ pc[Main] = "idle" /\ n \in exists
    /\ window' = n
    /\ Goes(Main, "render")
    /\ UNCHANGED <<shared, generation, alive, own, exists, lock, ret, frame>>

\* Whether or not a thread is drawing in it.
OnWindowDestroyed(n) ==
    /\ pc[Main] = "idle" /\ window = n
    /\ window' = 0
    /\ UNCHANGED <<shared, generation, alive, own, exists, lock, pc, ret, frame>>

OnFocus(n) ==
    /\ pc[Main] = "idle" /\ n \in exists
    /\ Goes(Main, "render")
    /\ UNCHANGED <<shared, activity, lock, ret, frame>>

\* Whatever other Activity exists.
OnDestroy(n) ==
    /\ pc[Main] = "idle" /\ n \in exists
    /\ exists' = exists \ {n}
    /\ alive' = FALSE
    /\ generation' = generation + 1
    /\ window' = 0
    /\ UNCHANGED <<shared, own, lock, pc, ret, frame>>

\* The service publishes.
Publish ==
    /\ file' \in Frames \ {file}
    /\ UNCHANGED <<last, known, activity, lock, pc, ret, frame>>

----------------------------------------------------------------------------

Init ==
    /\ file \in Frames \cup {NoFrame}
    /\ last = NoFrame
    /\ known = [trust |-> FALSE, ask |-> FALSE]
    /\ generation = 0
    /\ alive = FALSE /\ window = 0
    /\ own = [n \in Numbers |-> 0] /\ exists = {}
    /\ lock = [n \in Numbers |-> NoThread]
    /\ pc = [t \in Threads |-> IF t = Main THEN "idle" ELSE "gone"]
    /\ ret = [t \in Threads |-> "test"]
    /\ frame = [t \in Threads |-> NoFrame]

Runs(t) ==
    \/ Decode(t) \/ DecodeAsk(t)
    \/ RenderSkipped(t) \/ RenderState(t) \/ RenderPlain(t) \/ Post(t)
    \/ Leave(t) \/ RefreshTurn(t) \/ Hit(t) \/ Miss(t)

Callback(n) ==
    OnCreate(n) \/ OnWindow(n) \/ OnWindowDestroyed(n) \/ OnFocus(n) \/ OnDestroy(n)

Next ==
    \/ \E n \in Numbers : Callback(n)
    \/ Publish
    \/ \E t \in Threads : Runs(t) \/ Touch(t)

Spec == Init /\ [][Next]_vars

\* Threads run; the user, Android and the service owe nothing.
LiveSpec == Spec /\ \A t \in Threads : WF_vars(Runs(t))

----------------------------------------------------------------------------
(* Properties                                                              *)

Paints(t) == pc[t] = "post" \/ (pc[t] \in Decoding /\ ret[t] = "post")
Held(t) == {n \in Numbers : lock[n] = t}

\* Whichever way a page returns, and however Activities come and go meanwhile, a
\* window's buffer is held by a thread that is drawing, and no thread draws without
\* exactly one.
BufferIsWithItsPainter ==
    \A t \in Threads : IF Paints(t) THEN \E n \in Numbers : Held(t) = {n} ELSE Held(t) = {}

\* Threads that decode an old frame while others decode a new one leave a mixture
\* behind, with last naming either.  Once the service is quiet, the globals agree with
\* the file all the same while the Activity created last stays, if its refresh thread
\* could be created and no other Activity is destroyed.
GlobalsSettle ==
    \A f \in Frames :
        (<>[](file = f) /\ <>[](\E t \in Refreshers : pc[t] # "gone" /\ Current(t)))
            => <>[](known = f)

\* The threads of an Activity that was destroyed, or that another has followed, leave,
\* although g_ui_alive has been set again.
OldThreadsLeave ==
    \A n \in Numbers :
        (own[n] # 0 /\ generation # own[n])
            ~> (\A t \in Creatable : t[2] = n => pc[t] = "gone")

\* The Activity a thread was created for was destroyed, or another has followed.
Outdated(t) == own[t[2]] # 0 /\ generation # own[t[2]]

\* Steps a thread has left until it is gone, if it does not begin another turn.
AfterDecoding(t) ==
    CASE ret[t] = "act" -> 6 [] ret[t] = "render" -> 5 [] ret[t] = "post" -> 2 [] OTHER -> 1

TurnLeft(t) ==
    CASE pc[t] = "test" -> 1
      [] pc[t] = "post" -> 2
      [] pc[t] = "render" -> 5
      [] pc[t] = "act" -> 6
      [] pc[t] = "ask" -> AfterDecoding(t) + 1
      [] pc[t] = "decode" -> AfterDecoding(t) + 2
      [] OTHER -> 0

\* g_ui_generation never comes back to a thread it has left behind, though g_ui_alive
\* does: the thread ends the turn it is in, with at most a page to decode, to draw and
\* to decode again, and begins no other, whatever other threads and callbacks do.
OldThreadsFinish ==
    [][\A t \in Creatable : Outdated(t) =>
          /\ Outdated(t)'
          /\ TurnLeft(t)' < TurnLeft(t) \/ UNCHANGED <<pc[t], ret[t], frame[t]>>]_vars

\* Threads that still hold what the file no longer says.
Behind == {t \in Threads : frame[t] \notin {file, NoFrame}}

Agrees(field) == file # NoFrame /\ known[field] = file[field]

\* While the service is quiet nobody reads an old frame any more, and when the last one
\* is decoded no field that agrees with the file is ever overwritten with anything else,
\* in whatever order the threads decode.
QuietFileStays ==
    [][file' = file =>
          /\ Behind' \subseteq Behind
          /\ Behind = {} => \A field \in {"trust", "ask"} : Agrees(field) => Agrees(field)']_vars
====
