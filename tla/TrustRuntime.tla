---- MODULE TrustRuntime ----
(***************************************************************************)
(* The :trust service composed with the NativeActivity process.  The two   *)
(* processes share no memory: the Activity reads trust-ui-state, shows it, *)
(* and writes trust-ui-command when the user taps a button.  A tap is two  *)
(* steps, because handle_touch reads the state file again before it acts   *)
(* and the service may publish in between.                                 *)
(***************************************************************************)
EXTENDS TrustService

CONSTANT MaxTaps      \* bound: taps of the user in a behaviour

ASSUME TapAssumption == MaxTaps \in Nat

VARIABLES
    screen,    \* state and host the user was last shown
    seen,      \* the Activity's globals, last synchronised with trust-ui-state
    touching,  \* handle_touch has synchronised them and not yet acted
    taps       \* history: taps so far

uiVars == <<screen, seen, touching, taps>>
vars == <<serviceVars, uiVars>>

Screens == [state : -1 .. 3, shown : OptKey]

\* What the Activity remembers of the state file is part of what can be published.
UITypeOK ==
    /\ screen \in Screens
    /\ seen \in Snapshots
    /\ touching \in BOOLEAN
    /\ taps \in 0 .. MaxTaps

\* render(): every page that shows the state reads the file again and draws it.
Drawn ==
    /\ seen' = stateFile
    /\ screen' = [state |-> stateFile.state, shown |-> stateFile.shown]

\* The refresh thread draws only if its own reading of the file changed the globals.
Refresh ==
    /\ seen # stateFile
    /\ Drawn
    /\ UNCHANGED <<serviceVars, touching, taps>>

\* Android wants the window drawn, or has given it the focus.
Redraw ==
    /\ Drawn
    /\ UNCHANGED <<serviceVars, touching, taps>>

\* handle_touch synchronises the globals with the state file.
TouchBegin ==
    /\ ~touching
    /\ taps < MaxTaps
    /\ taps' = taps + 1
    /\ touching' = TRUE
    /\ seen' = stateFile
    /\ UNCHANGED <<serviceVars, screen>>

\* A button was hit, and the page is drawn again at the end.
TouchEnd ==
    /\ touching
    /\ touching' = FALSE
    /\ Drawn
    /\ UNCHANGED <<endpoint, taps>>

\* The host of the synchronised globals is approved, if their state says one
\* is waiting; with no pending key the command carries no binding.
TouchApprove ==
    /\ TouchEnd
    /\ seen.state = AwaitingApproval
    /\ Send("APPROVE", seen.pending)

\* Slip: the Activity takes the host out of the registry itself.
TouchForgetDirect ==
    /\ TouchEnd
    /\ prefs' = Remove(prefs, screen.shown)
    /\ UNCHANGED <<pc, state, host, pending, portablePub, requested, authority,
                   link, disk, cmdFile, stateFile, history>>

TouchForget ==
    /\ TouchEnd
    /\ Send("FORGET", NoKey)

TouchDecision ==
    /\ TouchEnd
    /\ seen.request # NoRequest
    /\ \E c \in {"AUTH_APPROVE", "AUTH_DENY"} : Send(c, seen.request)

\* A button without effect on the service, or one whose condition does not hold.
TouchElsewhere ==
    /\ TouchEnd
    /\ UNCHANGED serviceVars

\* No button: handle_touch returns without drawing.
TouchNothing ==
    /\ touching
    /\ touching' = FALSE
    /\ UNCHANGED <<serviceVars, screen, seen, taps>>

Activity ==
    \/ Refresh \/ Redraw \/ TouchBegin
    \/ TouchApprove \/ TouchForget \/ TouchDecision \/ TouchElsewhere \/ TouchNothing
    \/ (DeepLink /\ UNCHANGED uiVars)

\* The service's own steps.
ServiceStep ==
    /\ Worker \/ System
    /\ UNCHANGED uiVars

UIInit ==
    /\ seen = stateFile
    /\ screen = [state |-> seen.state, shown |-> seen.shown]
    /\ touching = FALSE
    /\ taps = 0

RuntimeInit == Init /\ UIInit
RuntimeNext == ServiceStep \/ Activity

RuntimeSpec == RuntimeInit /\ [][RuntimeNext]_vars

\* The Activity's refresh thread runs, and START_STICKY brings the service back;
\* nothing is assumed of taps and redraws.
RuntimeLiveSpec ==
    /\ RuntimeSpec
    /\ WF_vars(WorkerLocal /\ ServiceStep)
    /\ WF_vars(Start /\ ServiceStep)
    /\ WF_vars(Refresh)

----------------------------------------------------------------------------
(* Properties                                                              *)

\* The Activity only ever does what the service allows for: it writes commands
\* and invitations and touches nothing else the service relies on.
ServiceSpec == Spec

\* verify_process_ipc.py: "approval is bound to displayed host fingerprint".
\* The key a tap on TRUST THIS WORKSTATION sends is the one on the screen.
ApprovalIsForDisplayedHost ==
    [][\A k \in Keys :
          (k \in approved' \ approved /\ screen.state = AwaitingApproval)
              => k = screen.shown]_vars
====
