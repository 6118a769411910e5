---- MODULE ServiceLifecycle ----
(***************************************************************************)
(* The :trust process from Android's side: the main thread that runs the   *)
(* service callbacks one after the other, the worker threads it starts,    *)
(* and the globals both use without a lock.  An assignment to a global, a  *)
(* test of one, the formatting of a publication and its writing are steps  *)
(* of their own.  What a session does is TrustService's concern; here only *)
(* whether there is one matters.  The process may be killed at any step.   *)
(***************************************************************************)
EXTENDS Naturals

CONSTANT Threads      \* threads pthread_create can return

VARIABLES
    created,   \* the service is between onCreate and onDestroy
    mpc,       \* where the main thread is
    mnext,     \* where it goes on after a publication
    mbuf,      \* the publication it has formatted, NoText once it is written
    pulse,     \* the start intent asks for the red pulse
    overlay,   \* g_visual_view is there
    shown,     \* the window manager shows it
    permitted, \* the owner lets the app draw over others
    requests,  \* start requests Android has not delivered: does one ask for the pulse
    running,   \* g_running
    started,   \* g_trust_thread_started
    alive,     \* g_trust_service_alive
    state,     \* g_trust_state, as far as a session goes
    wpc,       \* where each worker thread is
    wnext,     \* where it goes on after a publication
    wbuf,      \* the publication it has formatted, NoText once it is written
    stateFile, \* trust-ui-state
    crossed    \* history: another thread was at its writing when the last text was
               \* formatted, or no text is from this process yet

visual == <<overlay, shown, permitted>>
main == <<created, mpc, mnext, mbuf, pulse, visual, requests>>
flags == <<running, started, alive, state>>
workers == <<wpc, wnext, wbuf>>
published == <<stateFile, crossed>>
vars == <<main, flags, workers, published>>

States == {"failed", "offline", "trusted"}
Snapshots == [state : States, alive : BOOLEAN]
Now == [state |-> state, alive |-> alive]
NoText == [state |-> "offline", alive |-> FALSE]

\* Both threads stay inside the statements of their functions.
TypeOK ==
    /\ created \in BOOLEAN
    /\ mpc \in {"idle", "start", "spawn", "format", "write", "pulse", "stop"}
    /\ mnext \in {"start", "pulse", "stop"}
    /\ pulse \in BOOLEAN
    /\ overlay \in BOOLEAN /\ shown \in BOOLEAN /\ permitted \in BOOLEAN
    /\ requests \subseteq BOOLEAN
    /\ running \in BOOLEAN /\ started \in BOOLEAN /\ alive \in BOOLEAN
    /\ state \in States
    /\ wpc \in [Threads -> {"none", "format", "write", "test", "attempt", "session",
                            "recv", "pause", "leave"}]
    /\ wnext \in [Threads -> {"test", "session", "pause"}]
    /\ mbuf \in Snapshots /\ stateFile \in Snapshots
    /\ wbuf \in [Threads -> Snapshots]
    /\ crossed \in BOOLEAN

----------------------------------------------------------------------------
(* The callbacks on the main thread                                        *)

\* trust_start_service_from_context: an Activity wants the service there, or its PULSE
\* button was tapped and the permission found.
StartService(p) ==
    /\ p => permitted
    /\ requests' = requests \cup {p}
    /\ UNCHANGED <<created, mpc, mnext, mbuf, pulse, visual, flags, workers, published>>

\* The owner grants or withdraws the permission, at any time.
Permit ==
    /\ permitted' = ~permitted
    /\ UNCHANGED <<created, mpc, mnext, mbuf, pulse, overlay, shown, requests, flags,
                   workers, published>>

\* nativeOnCreate: flags first, then the publication, then the worker.
OnCreate ==
    /\ mpc = "idle" /\ ~created /\ requests # {}
    /\ created' = TRUE
    /\ running' = TRUE /\ alive' = TRUE
    /\ pulse' = FALSE
    /\ mpc' = "format" /\ mnext' = "start"
    /\ UNCHANGED <<mbuf, visual, requests, started, state, workers, published>>

\* nativeOnStart, for every start request.
OnStart ==
    /\ mpc = "idle" /\ created
    /\ running' = TRUE /\ alive' = TRUE
    /\ pulse' \in requests
    /\ requests' = requests \ {pulse'}
    /\ mpc' = "start"
    /\ UNCHANGED <<created, mnext, mbuf, visual, started, state, workers, published>>

\* trust_visual_remove does nothing without a view.
RemoveOverlay ==
    /\ shown' = (shown /\ ~overlay)
    /\ overlay' = FALSE
    /\ UNCHANGED permitted

\* Slip: the worker's flag is reset for the next onCreate.
OnDestroyForgetsWorker ==
    /\ mpc = "idle" /\ created
    /\ RemoveOverlay
    /\ alive' = FALSE
    /\ started' = FALSE
    /\ mpc' = "format" /\ mnext' = "stop"
    /\ UNCHANGED <<created, mbuf, pulse, requests, running, state, workers, published>>

\* nativeOnDestroy: g_running falls only after the publication.
OnDestroy ==
    /\ mpc = "idle" /\ created
    /\ RemoveOverlay
    /\ alive' = FALSE
    /\ mpc' = "format" /\ mnext' = "stop"
    /\ UNCHANGED <<created, mbuf, pulse, requests, running, started, state, workers, published>>

\* Slip: g_running is left alone.
StopKeepsRunning ==
    /\ mpc = "stop"
    /\ created' = FALSE
    /\ mpc' = "idle"
    /\ UNCHANGED <<mnext, mbuf, pulse, visual, requests, flags, workers, published>>

Stop ==
    /\ mpc = "stop"
    /\ running' = FALSE
    /\ created' = FALSE
    /\ mpc' = "idle"
    /\ UNCHANGED <<mnext, mbuf, pulse, visual, requests, started, alive, state, workers, published>>

\* trust_ui_publish_state on the main thread, without a lock.
MainFormat ==
    /\ mpc = "format"
    /\ mbuf' = Now
    /\ crossed' = \E t \in Threads : wpc[t] = "write"
    /\ mpc' = "write"
    /\ UNCHANGED <<created, mnext, pulse, visual, requests, flags, workers, stateFile>>

MainWrite ==
    /\ mpc = "write"
    /\ stateFile' = mbuf
    /\ mbuf' = NoText
    /\ mpc' = mnext
    /\ UNCHANGED <<created, mnext, pulse, visual, requests, flags, workers, crossed>>

\* trust_start_worker: nothing to do if the flag says there is a worker.
StartWorker ==
    /\ mpc = "start"
    /\ mpc' = IF started THEN "pulse" ELSE "spawn"
    /\ started' = TRUE
    /\ UNCHANGED <<created, mnext, mbuf, pulse, visual, requests, running, alive, state,
                   workers, published>>

\* A new thread derives the phone's fingerprint and publishes.
Spawn ==
    /\ mpc = "spawn"
    /\ \E t \in Threads :
          /\ wpc[t] = "none"
          /\ wpc' = [wpc EXCEPT ![t] = "format"]
          /\ wnext' = [wnext EXCEPT ![t] = "test"]
    /\ mpc' = "pulse"
    /\ UNCHANGED <<created, mnext, mbuf, pulse, visual, requests, flags, wbuf, published>>

\* Slip: the flag says that there is a worker although none could be created.
SpawnFailsSilent ==
    /\ mpc = "spawn"
    /\ state' = "failed"
    /\ mpc' = "format" /\ mnext' = "pulse"
    /\ UNCHANGED <<created, mbuf, pulse, visual, requests, running, started, alive,
                   workers, published>>

SpawnFails ==
    /\ mpc = "spawn"
    /\ started' = FALSE
    /\ state' = "failed"
    /\ mpc' = "format" /\ mnext' = "pulse"
    /\ UNCHANGED <<created, mbuf, pulse, visual, requests, running, alive, workers, published>>

\* trust_visual_show: one view is made and animated again by every later pulse.  It is
\* kept only if the window manager took it; the permission may go while it is made.
ShowOverlay ==
    /\ permitted /\ ~overlay
    /\ overlay' = TRUE /\ shown' = TRUE
    /\ UNCHANGED permitted

\* The state of the session is not looked at.
Pulse ==
    /\ mpc = "pulse"
    /\ pulse
    /\ ShowOverlay \/ UNCHANGED visual
    /\ mpc' = "idle"
    /\ UNCHANGED <<created, mnext, mbuf, pulse, requests, flags, workers, published>>

NoPulse ==
    /\ mpc = "pulse"
    /\ ~pulse
    /\ mpc' = "idle"
    /\ UNCHANGED <<created, mnext, mbuf, pulse, visual, requests, flags, workers, published>>

\* Android kills the process, and starts it again if it had the service: START_STICKY.
\* What was published stays.
Killed ==
    /\ created' = FALSE
    /\ mpc' = "idle" /\ mnext' = "start" /\ pulse' = FALSE
    /\ overlay' = FALSE /\ shown' = FALSE
    /\ requests' = IF created THEN requests \cup {FALSE} ELSE requests
    /\ running' = TRUE /\ started' = FALSE /\ alive' = FALSE /\ state' = "offline"
    /\ wpc' = [t \in Threads |-> "none"]
    /\ crossed' = TRUE
    /\ mbuf' = NoText /\ wbuf' = [t \in Threads |-> NoText]
    /\ UNCHANGED <<permitted, wnext, stateFile>>

----------------------------------------------------------------------------
(* A worker thread                                                         *)

WorkerFormat(t) ==
    /\ wpc[t] = "format"
    /\ wbuf' = [wbuf EXCEPT ![t] = Now]
    /\ crossed' = (mpc = "write" \/ \E u \in Threads \ {t} : wpc[u] = "write")
    /\ wpc' = [wpc EXCEPT ![t] = "write"]
    /\ UNCHANGED <<main, flags, wnext, stateFile>>

WorkerWrite(t) ==
    /\ wpc[t] = "write"
    /\ stateFile' = wbuf[t]
    /\ wbuf' = [wbuf EXCEPT ![t] = NoText]
    /\ wpc' = [wpc EXCEPT ![t] = wnext[t]]
    /\ UNCHANGED <<main, flags, wnext, crossed>>

Moves(t, from, to) ==
    /\ wpc[t] = from
    /\ wpc' = [wpc EXCEPT ![t] = to]
    /\ UNCHANGED <<main, flags, wnext, wbuf, published>>

\* The loop of trust_worker.
LoopTest(t) == Moves(t, "test", IF running THEN "attempt" ELSE "leave")

\* trust_auth_session fails before the session is established.
AttemptFails(t) == Moves(t, "attempt", "pause")

Becomes(t, s, next) ==
    /\ state' = s
    /\ wpc' = [wpc EXCEPT ![t] = "format"]
    /\ wnext' = [wnext EXCEPT ![t] = next]
    /\ UNCHANGED <<main, running, started, alive, wbuf, published>>

Established(t) == wpc[t] = "attempt" /\ Becomes(t, "trusted", "session")

\* Slip: the session goes on as long as the peer answers.
PollRegardless(t) == Moves(t, "session", "recv")

Poll(t) == running /\ Moves(t, "session", "recv")

\* g_running has fallen.
SessionStopped(t) ==
    /\ wpc[t] = "session"
    /\ ~running
    /\ Becomes(t, "offline", "pause")

Answered(t) == Moves(t, "recv", "session")

\* Slip: the end of the session is not published.
SessionLostSilent(t) ==
    /\ wpc[t] = "recv"
    /\ state' = "offline"
    /\ wpc' = [wpc EXCEPT ![t] = "pause"]
    /\ UNCHANGED <<main, running, started, alive, wnext, wbuf, published>>

\* The peer has closed its end or sent something else.
SessionLost(t) == wpc[t] = "recv" /\ Becomes(t, "offline", "pause")

PauseOver(t) == Moves(t, "pause", "test")

\* g_trust_thread_started = 0, and the thread returns.
Leave(t) ==
    /\ wpc[t] = "leave"
    /\ started' = FALSE
    /\ wpc' = [wpc EXCEPT ![t] = "none"]
    /\ UNCHANGED <<main, running, alive, state, wnext, wbuf, published>>

----------------------------------------------------------------------------

Init ==
    /\ created = FALSE
    /\ mpc = "idle" /\ mnext = "start" /\ pulse = FALSE
    /\ overlay = FALSE /\ shown = FALSE /\ permitted = FALSE
    /\ requests = {}
    /\ running = TRUE /\ started = FALSE /\ alive = FALSE /\ state = "offline"
    /\ stateFile = Now /\ crossed = TRUE
    /\ mbuf = NoText
    /\ wpc = [t \in Threads |-> "none"]
    /\ wnext = [t \in Threads |-> "test"]
    /\ wbuf = [t \in Threads |-> NoText]

\* Steps a thread takes without hearing from Android or from a peer.
MainLocal ==
    \/ MainFormat \/ MainWrite \/ StartWorker \/ Spawn \/ SpawnFails
    \/ Pulse \/ NoPulse \/ Stop

WorkerLocal(t) ==
    \/ WorkerFormat(t) \/ WorkerWrite(t) \/ LoopTest(t)
    \/ Poll(t) \/ SessionStopped(t) \/ PauseOver(t) \/ Leave(t)

Worker(t) ==
    \/ WorkerLocal(t)
    \/ AttemptFails(t) \/ Established(t) \/ Answered(t) \/ SessionLost(t)

Next ==
    \/ \E p \in BOOLEAN : StartService(p)
    \/ Permit \/ Killed
    \/ OnCreate \/ OnStart \/ OnDestroy \/ MainLocal
    \/ \E t \in Threads : Worker(t)

Spec == Init /\ [][Next]_vars

\* Every thread that can run is run; of Android and of the peers nothing is
\* assumed.
LiveSpec ==
    /\ Spec
    /\ WF_vars(MainLocal)
    /\ \A t \in Threads : WF_vars(WorkerLocal(t))

----------------------------------------------------------------------------
(* Properties                                                              *)

Publishing(position) == position \in {"format", "write"}

Exists(t) == wpc[t] # "none"
Anyone == \E t \in Threads : Exists(t)

\* Positions at which a thread owns the established session.
InSession(t) ==
    \/ wpc[t] \in {"session", "recv"}
    \/ wpc[t] \in {"format", "write"} /\ wnext[t] = "session"

\* However onCreate, onStart and onDestroy fall on the worker's last steps, two
\* workers never run the protocol, and its globals, at the same time.
AtMostOneWorker ==
    \A t, u \in Threads : Exists(t) /\ Exists(u) => t = u

\* A worker that outlives its service and serves the next one keeps the state
\* that belongs to its session.
TrustedIsOwned == state = "trusted" <=> \E t \in Threads : InSession(t)

\* What trust_start_worker goes by: the flag is up if there is a worker, or one is being
\* created, and otherwise down.  Up without one, and no start request would ever be
\* heard; down with one, and the next would create a second.
FlagIsTrue == started <=> Anyone \/ mpc = "spawn"

\* The trusted state has one owner, and nobody else can write it.
OneOwner == AtMostOneWorker /\ FlagIsTrue /\ TrustedIsOwned

\* trust_ui_publish_state formats and writes without a lock, on the main thread in
\* nativeOnCreate, nativeOnDestroy and when no thread could be created, on the worker
\* elsewhere.  With nobody publishing, the Activity reads what the process has in memory:
\* after each change of the session and of the service a text is written that says it.  Only
\* when one thread formats while the other is at its writing may the older text be the last
\* to be written, and then it stays until the next publication.
FileIsTrueUnlessCrossed ==
    (/\ ~Publishing(mpc)
     /\ \A t \in Threads : ~Publishing(wpc[t])
     /\ ~crossed)
    => stateFile = Now

\* The inductive invariant behind OneOwner: the flag that is up for a thread that does
\* not exist yet does not stand for another as well.
LifecycleInv == OneOwner /\ (mpc = "spawn" => ~Anyone)

\* Steps a worker has left when nothing tells it to go on, by where it is.
AfterPublication(t) == CASE wnext[t] = "test" -> 2 [] wnext[t] = "pause" -> 3 [] OTHER -> 6

StepsToLeave(t) ==
    CASE wpc[t] = "none" -> 0
      [] wpc[t] = "leave" -> 1
      [] wpc[t] = "test" -> 2
      [] wpc[t] = "pause" -> 3
      [] wpc[t] = "write" -> AfterPublication(t) + 1
      [] wpc[t] = "format" -> AfterPublication(t) + 2
      [] wpc[t] = "session" -> 6
      [] wpc[t] = "recv" -> 7
      [] OTHER -> 9

\* nativeOnDestroy takes the overlay away first and lowers g_running last.  However it
\* falls on the worker's steps, a service that is destroyed leaves nothing on the
\* screen, and its worker, told by g_running alone, takes no step that does not bring it
\* nearer to its end, until another service is created.
DestroyedServiceGoes ==
    /\ [](~created => ~shown /\ (Anyone => ~running))
    /\ [][~created => \A t \in Threads :
              StepsToLeave(t)' < StepsToLeave(t) \/ UNCHANGED <<wpc[t], wnext[t]>>]_vars

\* The inductive invariant behind DestroyedServiceGoes: callbacks run in a service, which is
\* told to run until it has stopped, and the overlay goes with the first step towards that.
Stopping == mpc = "stop" \/ (Publishing(mpc) /\ mnext = "stop")

ServiceInv ==
    /\ mpc # "idle" => created
    /\ created \/ Anyone => (created <=> running)
    /\ shown => overlay
    /\ overlay => created /\ ~Stopping

\* The inductive invariant behind FileIsTrueUnlessCrossed: one thread writes, and what it
\* holds is true unless another has yet to format; nativeOnStart, which does not publish,
\* finds g_trust_service_alive up.
PublicationInv ==
    /\ created /\ ~Stopping => alive
    /\ ~crossed =>
          /\ mpc = "write" => \A t \in Threads : wpc[t] # "write"
          /\ mpc = "format" \/ (\E t \in Threads : wpc[t] = "format") \/
                /\ mpc = "write" => mbuf = Now
                /\ \A t \in Threads : wpc[t] = "write" => wbuf[t] = Now
                /\ \/ mpc = "write"
                   \/ \E t \in Threads : wpc[t] = "write"
                   \/ stateFile = Now

\* Once the service stays destroyed its overlay is gone and its worker leaves, unless a
\* silent peer holds it in the handshake or in a poll: recv has no timeout.
StoppedServiceLeaves ==
    <>[](~created /\ mpc = "idle")
        => <>[](~shown /\ \A t \in Threads : wpc[t] \in {"none", "attempt", "recv"})

\* A worker lost between two incarnations of the service, or a thread that could
\* not be created, is made good as long as start requests keep arriving.
StartRestoresWorker ==
    (<>[]created /\ []<>(mpc = "start")) => []<>(Anyone \/ mpc = "spawn")
====
