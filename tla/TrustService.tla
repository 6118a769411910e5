---- MODULE TrustService ----
(***************************************************************************)
(* The trust core of the runtime: the worker thread of the :trust service  *)
(* process, the two app-private files through which it talks to the UI,    *)
(* the workstations that answer on its socket, and the deaths and restarts *)
(* of its process.  The UI may here write any command at any time;         *)
(* TrustRuntime puts the real one in its place.  A service here lives as   *)
(* long as its process: what nativeOnDestroy and a second nativeOnCreate   *)
(* publish from the main thread while a worker lives, without a lock, is   *)
(* ServiceLifecycle's.                                                     *)
(***************************************************************************)
EXTENDS HostRegistry, Integers

CONSTANTS
    Claims,       \* <<key, portable>> pairs hosts announce in their hello frame
    Requests,     \* REQUEST_IDs of explicit owner-proof requests
    NoRequest,    \* the empty request id
    MaxKills      \* bound: deaths of the service process in a behaviour

ASSUME RuntimeAssumption ==
    /\ Claims \subseteq Keys \X BOOLEAN
    /\ NoRequest \notin Requests
    /\ (Keys \cup {NoKey}) \cap (Requests \cup {NoRequest}) = {}
    /\ MaxKills \in Nat

\* g_trust_state.
Failed == -1
Offline == 0
AwaitingApproval == 1
Authenticating == 2
Trusted == 3

VARIABLES
    \* memory of the service process
    pc,           \* where the worker thread is
    state,        \* g_trust_state
    host,         \* g_trust_host_pub_current, .._is_portable, and the key whose
                  \* name and fingerprint are in g_trust_host_name/fp/identity
    pending,      \* g_trust_host_pub_pending, g_trust_pending_is_portable
    portablePub,  \* g_trust_portable_host_pub
    requested,    \* which of the approve/forget/reconnect request flags are 1
    authority,    \* g_authority_request_id (empty: not pending), .._decision
    link,         \* the workstation still holds its end of the socket open
    prefs,        \* SharedPreferences as the process sees them
    \* storage
    disk,         \* SharedPreferences as last written back by apply()
    cmdFile,      \* trust-ui-command
    stateFile,    \* trust-ui-state
    endpoint,     \* a direct-transport invitation file exists
    \* history
    approved,     \* keys an APPROVE command was ever sent for
    kills         \* deaths of the service process so far

process == <<state, host, pending, portablePub, requested, authority, prefs>>
files   == <<cmdFile, stateFile, endpoint, disk>>
history == <<approved, kills>>
serviceVars == <<pc, process, link, files, history>>

\* Positions of the worker while a session is established.
SessionPCs == {"poll", "recv", "decide", "pong"}
PCs == {"off", "top", "forget", "approve", "dial", "auth", "wait"} \cup SessionPCs

Flags == {"APPROVE", "FORGET", "RECONNECT"}
CommandNames == Flags \cup {"AUTH_APPROVE", "AUTH_DENY", "none"}
OptRequest == Requests \cup {NoRequest}
Command == [cmd : CommandNames, binding : OptKey \cup Requests]
NoCommand == [cmd |-> "none", binding |-> NoKey]
NoAuthority == [request |-> NoRequest, decision |-> 0]

\* What trust_ui_publish_state writes, as far as the UI acts on it.
Snapshots == [state : -1 .. 3, pending : OptKey, shown : OptKey, request : OptRequest]

\* The list of trusted hosts stays within the buffer that trust_host_remove copies it
\* through and trust_host_is_trusted reads it into, in memory and on disk: approvals
\* and migrations that find it full leave it as it is, through every restart.
RegistryFits == FitsBuffer(prefs) /\ FitsBuffer(disk)

\* The globals of the service, its preferences and its files hold what the
\* buffers and enumerations of trust_runtime.inc are declared for.
TypeOK ==
    /\ pc \in PCs
    /\ state \in -1 .. 3
    /\ host \in [pub : OptKey, portable : BOOLEAN, shown : OptKey]
    /\ pending \in [pub : OptKey, portable : BOOLEAN]
    /\ portablePub \in OptKey
    /\ requested \in SUBSET Flags
    /\ authority \in [request : OptRequest, decision : {-1, 0, 1}]
    /\ link \in BOOLEAN
    /\ prefs \in Prefs
    /\ disk \in Prefs
    /\ RegistryFits
    /\ cmdFile \in Command
    /\ stateFile \in Snapshots
    /\ endpoint \in BOOLEAN
    /\ approved \in SUBSET Keys
    /\ kills \in 0 .. MaxKills

----------------------------------------------------------------------------
(* Pieces the handlers share                                               *)

\* trust_ui_publish_state on the worker, or in nativeOnCreate before there is one: one step,
\* as nobody else publishes then.  Of the text only what the UI acts on is kept.  The label of
\* the transport and the fingerprint of the phone are not: they change before a connect and a
\* recv, and are in the file only with the next change of the state.
Publish ==
    stateFile' = [state   |-> state', pending |-> pending'.pub,
                  shown   |-> host'.shown, request |-> authority'.request]

\* trust_set_status: every change of state is published.
SetStatus(s) == state' = s /\ Publish

NoHost == [pub |-> NoKey, portable |-> FALSE, shown |-> NoKey]
NoPending == [pub |-> NoKey, portable |-> FALSE]

\* The host announced by the hello frame is pinned: the in-memory pin decides
\* for a portable host once there is one, the registry in every other case.
Pinned(k, portable) ==
    IF portable /\ portablePub # NoKey THEN portablePub = k ELSE IsTrusted(prefs, k)

\* Slip: the binding is not compared with the pending key.
ApprovalHeardUnbound ==
    cmdFile.cmd = "APPROVE" /\ state = AwaitingApproval /\ pending.pub # NoKey

\* An APPROVE is heard only for the host that is pending now.
ApprovalHeard ==
    /\ cmdFile.cmd = "APPROVE"
    /\ state = AwaitingApproval
    /\ pending.pub # NoKey
    /\ cmdFile.binding = pending.pub

DecisionHeard ==
    /\ cmdFile.cmd \in {"AUTH_APPROVE", "AUTH_DENY"}
    /\ authority.request # NoRequest
    /\ cmdFile.binding = authority.request

\* trust_ui_consume_command: the file is unlinked whatever it says.
Consume ==
    /\ cmdFile' = NoCommand
    /\ requested' = requested
                       \cup ({cmdFile.cmd} \cap {"FORGET", "RECONNECT"})
                       \cup (IF ApprovalHeard THEN {"APPROVE"} ELSE {})
    /\ authority' = IF DecisionHeard
                    THEN [authority EXCEPT
                            !.decision = IF cmdFile.cmd = "AUTH_APPROVE" THEN 1 ELSE -1]
                    ELSE authority

----------------------------------------------------------------------------
(* The worker's loop: commands, revocation, approval                       *)

LoopConsume ==
    /\ pc = "top"
    /\ Consume
    /\ pc' = "forget"
    /\ UNCHANGED <<state, host, pending, portablePub, prefs, link, stateFile,
                   endpoint, disk, history>>

ForgetSkipped ==
    /\ pc = "forget"
    /\ "FORGET" \notin requested
    /\ pc' = "approve"
    /\ UNCHANGED <<process, link, files, history>>

\* Slip: the host's key leaves the registry and the memory pin goes as well.
ApplyForgetBoth ==
    /\ pc = "forget"
    /\ "FORGET" \in requested
    /\ portablePub' = NoKey
    /\ prefs' = IF host.pub # NoKey THEN Remove(prefs, host.pub) ELSE prefs
    /\ requested' = requested \ {"FORGET", "APPROVE"}
    /\ pending' = NoPending
    /\ host' = NoHost
    /\ UNCHANGED <<authority, endpoint>>
    /\ SetStatus(Offline)
    /\ pc' = "approve"
    /\ UNCHANGED <<link, disk, cmdFile, history>>

\* A portable host loses its in-memory pin and its invitation; any other host
\* leaves the registry.  The request flags for reconnecting stay.
ApplyForget ==
    /\ pc = "forget"
    /\ "FORGET" \in requested
    /\ IF host.portable
       THEN portablePub' = NoKey /\ endpoint' = FALSE /\ UNCHANGED prefs
       ELSE /\ prefs' = IF host.pub # NoKey THEN Remove(prefs, host.pub) ELSE prefs
            /\ UNCHANGED <<portablePub, endpoint>>
    /\ requested' = requested \ {"FORGET", "APPROVE"}
    /\ pending' = NoPending
    /\ host' = NoHost
    /\ UNCHANGED authority
    /\ SetStatus(Offline)
    /\ pc' = "approve"
    /\ UNCHANGED <<link, disk, cmdFile, history>>

ApproveSkipped ==
    /\ pc = "approve"
    /\ ~(state = AwaitingApproval /\ "APPROVE" \in requested /\ pending.pub # NoKey)
    /\ pc' = "dial"
    /\ UNCHANGED <<process, link, files, history>>

\* The pending key is pinned in memory or in the registry, as its portable
\* flag says now; the flag is cleared and the pending key is not.
ApplyApprove ==
    /\ pc = "approve"
    /\ state = AwaitingApproval /\ "APPROVE" \in requested /\ pending.pub # NoKey
    /\ IF pending.portable
       THEN portablePub' = pending.pub /\ UNCHANGED prefs
       ELSE prefs' = Add(prefs, pending.pub) /\ UNCHANGED portablePub
    /\ host' = [host EXCEPT !.pub = pending.pub]
    /\ requested' = requested \ {"APPROVE"}
    /\ pending' = [pending EXCEPT !.portable = FALSE]
    /\ UNCHANGED authority
    /\ SetStatus(Offline)
    /\ pc' = "dial"
    /\ UNCHANGED <<link, disk, cmdFile, endpoint, history>>

\* The pause between two attempts (20 turns of 100 ms): commands are taken,
\* and an approval or a revocation ends it early.
WaitConsume ==
    /\ pc = "wait"
    /\ cmdFile # NoCommand
    /\ Consume
    /\ pc' = IF requested' \cap {"APPROVE", "FORGET"} # {} THEN "top" ELSE "wait"
    /\ UNCHANGED <<state, host, pending, portablePub, prefs, link, stateFile,
                   endpoint, disk, history>>

WaitDone ==
    /\ pc = "wait"
    /\ pc' = "top"
    /\ UNCHANGED <<process, link, files, history>>

----------------------------------------------------------------------------
(* One authentication attempt (trust_auth_session)                         *)

\* No socket, nobody listening, or no usable hello frame.  Reading the
\* endpoint drops an invitation that has expired or is malformed.
DialFail ==
    /\ pc = "dial"
    /\ endpoint' \in {endpoint, FALSE}
    /\ pc' = "wait"
    /\ link' = FALSE
    /\ UNCHANGED <<process, disk, cmdFile, stateFile, history>>

\* Slip: the name and the fingerprint of an earlier host stay on display.
HelloStaleName(k, portable) == host' = [host EXCEPT !.pub = k, !.portable = portable]

Hello(k, portable) == host' = [pub |-> k, portable |-> portable, shown |-> k]

\* The in-memory pin and the registry do not know the key: it becomes the
\* pending host and the connection is closed.
HelloUnknown ==
    /\ pc = "dial"
    /\ \E k \in Keys, portable \in BOOLEAN :
          /\ <<k, portable>> \in Claims
          /\ ~Pinned(k, portable)
          /\ Hello(k, portable)
          /\ pending' = [pub |-> k, portable |-> portable]
    /\ endpoint' \in {endpoint, FALSE}
    /\ UNCHANGED <<portablePub, requested, authority, prefs>>
    /\ SetStatus(AwaitingApproval)
    /\ pc' = "wait"
    /\ link' = FALSE
    /\ UNCHANGED <<disk, cmdFile, history>>

\* Slip: the pin of a portable host is not looked at.
HelloPinnedUnchecked ==
    /\ pc = "dial"
    /\ \E k \in Keys, portable \in BOOLEAN :
          /\ <<k, portable>> \in Claims
          /\ portable \/ Pinned(k, portable)
          /\ Hello(k, portable)
    /\ UNCHANGED <<portablePub, requested, authority, pending, prefs, endpoint>>
    /\ SetStatus(Authenticating)
    /\ pc' = "auth"
    /\ link' = TRUE
    /\ UNCHANGED <<disk, cmdFile, history>>

\* The key is pinned; a key known only under the old name is migrated.
HelloPinned ==
    /\ pc = "dial"
    /\ \E k \in Keys, portable \in BOOLEAN :
          /\ <<k, portable>> \in Claims
          /\ Pinned(k, portable)
          /\ Hello(k, portable)
          /\ prefs' = IF portable /\ portablePub # NoKey THEN prefs ELSE Migrate(prefs, k)
    /\ endpoint' \in {endpoint, FALSE}
    /\ UNCHANGED <<portablePub, requested, authority, pending>>
    /\ SetStatus(Authenticating)
    /\ pc' = "auth"
    /\ link' = TRUE
    /\ UNCHANGED <<disk, cmdFile, history>>

EndAttempt ==
    /\ pc = "auth"
    /\ pc' = "wait"
    /\ link' = FALSE
    /\ UNCHANGED <<host, pending, portablePub, requested, authority, prefs,
                   disk, cmdFile, endpoint, history>>

\* Keystore or signature failure, AUTH refused, or a host signature that does
\* not verify.
AuthFailed == EndAttempt /\ SetStatus(Failed)

\* No nonce, the connection broke, or the answer cannot be read: the attempt
\* ends and the state stays "authenticating".
AuthBroken == EndAttempt /\ UNCHANGED <<state, stateFile>>

\* AUTH PAIR_REQUIRED: the workstation does not know this phone.  The state
\* asks for approval while the pending host is whoever was pending before.
PairRequired == EndAttempt /\ SetStatus(AwaitingApproval)

\* AUTH OK and the host's signature over both nonces verifies.
AuthOk ==
    /\ pc = "auth"
    /\ requested' = requested \ {"RECONNECT"}
    /\ UNCHANGED <<host, pending, portablePub, authority, prefs>>
    /\ SetStatus(Trusted)
    /\ pc' = "poll"
    /\ UNCHANGED <<link, disk, cmdFile, endpoint, history>>

----------------------------------------------------------------------------
(* The established session                                                 *)

\* Slip: the session ends and the state stays behind.
EndSessionSilent ==
    /\ requested' = requested \ {"RECONNECT"}
    /\ UNCHANGED <<state, stateFile, host, pending, portablePub, authority, prefs>>
    /\ pc' = "wait"
    /\ link' = FALSE
    /\ UNCHANGED <<disk, cmdFile, endpoint, history>>

EndSession ==
    /\ requested' = requested \ {"RECONNECT"}
    /\ UNCHANGED <<host, pending, portablePub, authority, prefs>>
    /\ SetStatus(IF state = Trusted THEN Offline ELSE state)
    /\ pc' = "wait"
    /\ link' = FALSE
    /\ UNCHANGED <<disk, cmdFile, endpoint, history>>

StopRequested == requested \cap {"FORGET", "RECONNECT"} # {}

SendPoll ==
    /\ pc = "poll"
    /\ ~StopRequested
    /\ pc' = "recv"
    /\ UNCHANGED <<process, link, files, history>>

SessionStopped == pc = "poll" /\ StopRequested /\ EndSession

\* send or recv reports the closed connection.
SessionLost == pc \in {"poll", "recv", "pong"} /\ ~link /\ EndSession

\* Something that is neither a PONG nor a proof request ends the session.
SessionGarbled == pc \in {"recv", "pong"} /\ link /\ EndSession

Pong ==
    /\ pc \in {"recv", "pong"}
    /\ link
    /\ pc' = "poll"
    /\ UNCHANGED <<process, link, files, history>>

\* An implicit request is signed or denied at once, a malformed one denied.
ImplicitRequest ==
    /\ pc = "recv"
    /\ link
    /\ pc' = "pong"
    /\ UNCHANGED <<process, link, files, history>>

ExplicitRequest ==
    /\ pc = "recv"
    /\ link
    /\ \E r \in Requests : authority' = [request |-> r, decision |-> 0]
    /\ UNCHANGED <<host, pending, portablePub, requested, prefs, state>>
    /\ Publish
    /\ pc' = "decide"
    /\ UNCHANGED <<link, disk, cmdFile, endpoint, history>>

\* A turn of the wait for the user's decision takes commands of any kind.
DecideConsume ==
    /\ pc = "decide"
    /\ cmdFile # NoCommand
    /\ authority.decision # -1
    /\ Consume
    /\ UNCHANGED <<pc, state, host, pending, portablePub, prefs, link, stateFile,
                   endpoint, disk, history>>

\* Slip: the time limit is lost, only an answer of the user ends the wait.
DecideDoneWhenAnswered ==
    /\ pc = "decide"
    /\ authority.decision # 0
    /\ authority' = NoAuthority
    /\ UNCHANGED <<host, pending, portablePub, requested, prefs, state>>
    /\ Publish
    /\ pc' = "pong"
    /\ UNCHANGED <<link, disk, cmdFile, endpoint, history>>

\* Denied, timed out (500 turns without an approval while unlocked) or signed:
\* in every case the request is cleared and the host is answered.
DecideDone ==
    /\ pc = "decide"
    /\ authority' = NoAuthority
    /\ UNCHANGED <<host, pending, portablePub, requested, prefs, state>>
    /\ Publish
    /\ pc' = "pong"
    /\ UNCHANGED <<link, disk, cmdFile, endpoint, history>>

----------------------------------------------------------------------------
(* The command file, written by the NativeActivity process                 *)

\* trust_ui_send_command truncates the file and writes the new command over
\* whatever it holds.
Send(command, binding) ==
    /\ cmdFile' = [cmd |-> command, binding |-> binding]
    /\ approved' = IF command = "APPROVE" THEN approved \cup ({binding} \cap Keys)
                   ELSE approved
    /\ UNCHANGED <<pc, process, link, stateFile, disk, kills>>

\* trust_apply_transport_intent: an accepted zorintrust://connect link stores
\* its invitation and sends RECONNECT.
DeepLink == Send("RECONNECT", NoKey) /\ endpoint' = TRUE

AnyCommand ==
    /\ \/ \E k \in OptKey : Send("APPROVE", k)
       \/ \E c \in {"AUTH_APPROVE", "AUTH_DENY"}, r \in Requests : Send(c, r)
       \/ Send("FORGET", NoKey)
    /\ UNCHANGED endpoint

----------------------------------------------------------------------------
(* The workstation, the preference writer and the operating system         *)

PeerCloses ==
    /\ link
    /\ link' = FALSE
    /\ UNCHANGED <<pc, process, files, history>>

\* Editor.apply() returns before the preferences reach the disk.
WriteBack ==
    /\ pc # "off"
    /\ disk # prefs
    /\ disk' = prefs
    /\ UNCHANGED <<pc, process, link, cmdFile, stateFile, endpoint, history>>

\* The process dies without a callback; memory is gone, files stay.
Kill ==
    /\ pc # "off"
    /\ kills < MaxKills
    /\ kills' = kills + 1
    /\ pc' = "off"
    /\ link' = FALSE
    /\ state' = Offline /\ host' = NoHost /\ pending' = NoPending
    /\ portablePub' = NoKey /\ requested' = {} /\ authority' = NoAuthority
    /\ prefs' = disk
    /\ UNCHANGED <<files, approved>>

\* START_STICKY: nativeOnCreate in a new process publishes and starts the worker.
Start ==
    /\ pc = "off"
    /\ UNCHANGED process
    /\ Publish
    /\ pc' = "top"
    /\ UNCHANGED <<link, disk, cmdFile, endpoint, history>>

----------------------------------------------------------------------------

\* Keys that hosts announce as permanent workstations.
Workstations == {k \in Keys : <<k, FALSE>> \in Claims}

\* An installation upgraded from a release that knew a single workstation, or
\* a fresh one.
Init ==
    /\ pc = "off"
    /\ state = Offline /\ host = NoHost /\ pending = NoPending
    /\ portablePub = NoKey /\ requested = {} /\ authority = NoAuthority
    /\ link = FALSE
    /\ disk \in [list : {{}}, legacy : Workstations \cup {NoKey}]
    /\ prefs = disk
    /\ cmdFile = NoCommand
    /\ stateFile = [state |-> Offline, pending |-> NoKey, shown |-> NoKey,
                    request |-> NoRequest]
    /\ endpoint = FALSE
    /\ approved = {disk.legacy} \ {NoKey}
    /\ kills = 0

\* Steps the worker takes without hearing from anyone.
WorkerLocal ==
    \/ LoopConsume \/ ForgetSkipped \/ ApplyForget \/ ApproveSkipped \/ ApplyApprove
    \/ WaitDone \/ SendPoll \/ SessionStopped \/ SessionLost \/ DecideDone
    \/ (AuthBroken /\ ~link)

Worker ==
    \/ LoopConsume \/ ForgetSkipped \/ ApplyForget \/ ApproveSkipped \/ ApplyApprove
    \/ WaitConsume \/ WaitDone
    \/ DialFail \/ HelloUnknown \/ HelloPinned
    \/ AuthFailed \/ AuthBroken \/ PairRequired \/ AuthOk
    \/ SendPoll \/ SessionStopped \/ SessionLost \/ SessionGarbled
    \/ Pong \/ ImplicitRequest \/ ExplicitRequest \/ DecideConsume \/ DecideDone

System == PeerCloses \/ WriteBack \/ Kill \/ Start

Next == Worker \/ AnyCommand \/ DeepLink \/ System

Spec == Init /\ [][Next]_serviceVars

\* The thread runs whenever it can; nothing is assumed of the workstation, the
\* network, the user or the operating system.
LiveSpec == Spec /\ WF_serviceVars(WorkerLocal)

\* A workstation that answers every poll, on top of that.
AnsweringSpec == LiveSpec /\ WF_serviceVars(Pong)

----------------------------------------------------------------------------
(* Properties                                                              *)

\* Every key the phone would authenticate itself to.
Known == (prefs.list \cup {prefs.legacy, portablePub}) \ {NoKey}

\* SECURITY.md: unknown hosts never auto-pair.  Whatever the order of hello
\* frames, approvals, PAIR_REQUIRED answers, revocations and restarts, a key
\* is in the registry, in its older form, on disk or in the memory pin only
\* if the user sent an approval that named this key.
NeverAutoPaired ==
    /\ Known \subseteq approved
    /\ (disk.list \cup {disk.legacy}) \ {NoKey} \subseteq approved

\* While proofs can be signed, the peer is a host that is pinned at this
\* moment, and the fingerprint that goes into the signed transcript is that
\* of the key that authenticated.
SessionHostPinned ==
    pc \in SessionPCs =>
        /\ state = Trusted
        /\ Pinned(host.pub, host.portable)
        /\ host.shown = host.pub

\* CHANGELOG.md: portable keys are memory-only pins, never written to the
\* persistent registry.  A key that no host announces as a permanent
\* workstation is not in the list.
PortableNeverPersisted == prefs.list \subseteq Workstations

\* "Device trust established" never outlives the session: no path out of the session
\* loop leaves the state behind.
TrustedOnlyInSession == state = Trusted => pc \in SessionPCs

\* An approval that has been heard still means the host it was given for when
\* it is applied: no hello frame slips in and replaces the pending key.
HeardApprovalIsForPending ==
    "APPROVE" \in requested =>
        /\ state = AwaitingApproval
        /\ pending.pub \in approved
        /\ pc \in {"top", "forget", "approve"}

\* An owner-proof request is open for decision only while the worker waits for
\* that decision, so a late tap cannot decide anything else.
DecisionOnlyWhileAsked == (authority.request # NoRequest) <=> (pc = "decide")

\* The inductive invariant behind the safety properties above.  An approval still in the
\* file already counts as given, and the host that is being authenticated is
\* pinned from the hello frame on.
ApprovalInv ==
    /\ NeverAutoPaired
    /\ HeardApprovalIsForPending
    /\ cmdFile.cmd = "APPROVE" => cmdFile.binding \in approved \cup {NoKey}

SessionInv ==
    /\ SessionHostPinned
    /\ TrustedOnlyInSession
    /\ pc = "auth" => /\ Pinned(host.pub, host.portable)
                      /\ host.shown = host.pub
                      /\ host.pub # NoKey

InductiveInv == ApprovalInv /\ SessionInv /\ DecisionOnlyWhileAsked

\* The host a revocation is for: the one of the last attempt, or, if that was a
\* portable one, whichever is pinned in memory.
Revoked == IF host.portable THEN portablePub ELSE host.pub

GainedByApproval(k) ==
    k \notin Known /\ k \in Known' =>
        \/ pc = "approve" /\ "APPROVE" \in requested /\ pending.pub = k
        \/ kills' # kills

LostByRevocation(k) ==
    k \in Known /\ k \notin Known' =>
        \/ pc = "forget" /\ "FORGET" \in requested /\ k = Revoked
        \/ /\ pc = "approve" /\ "APPROVE" \in requested
           /\ pending.portable /\ k = portablePub
        \/ kills' # kills

\* What is trusted changes by the owner's commands alone.  A key becomes known only by
\* applying an approval that was heard for it.  It is lost only by applying a revocation,
\* and then it is the key of the host named by Revoked and no other, or because a
\* second portable host took the place of the one pinned in memory.  The death of the
\* process is the exception on both sides: it takes the memory pin and undoes what was
\* not written back.
TrustChangesByCommand ==
    [][\A k \in Keys : GainedByApproval(k) /\ LostByRevocation(k)]_serviceVars

\* The abstract promise, with the session and the pins read off the worker.
Promise == INSTANCE HostTrust WITH
    asked   <- approved,
    trusted <- Known,
    session <- IF pc \in SessionPCs THEN host.pub ELSE NoKey

\* What DecisionSlot promises of the owner's decision, with any other command standing for
\* no answer.
Decisions == INSTANCE DecisionSlot WITH
    Ids      <- Requests,
    NoId     <- NoRequest,
    request  <- authority.request,
    decision <- authority.decision,
    command  <- IF cmdFile.cmd \in {"AUTH_APPROVE", "AUTH_DENY"} THEN cmdFile
                ELSE [cmd |-> "none", binding |-> NoRequest]

\* The service keeps the promise of HostTrust: no path of trust_auth_session opens
\* a session with a host that was not pinned by its own approval, and no command
\* changes what is trusted under an open session.  It keeps that of DecisionSlot as well: no
\* answer in the command file, from before a restart or a request ago, decides anything but
\* the open request that it names, and a decision does not outlive its request.
PromiseKept == Promise!Spec /\ Decisions!Spec

\* The inductive invariant behind the second one: without a request nothing is decided.
NothingDecided == authority.request = NoRequest => authority.decision = 0

\* TRUST-SERVICE.md: the service consumes each command.  FORGET is taken out of
\* the file while the service lives, whatever the worker is doing.
ForgetHeard ==
    (cmdFile.cmd = "FORGET" /\ pc # "off") ~> (cmdFile.cmd # "FORGET" \/ pc = "off")

\* The worker comes back to the point where it takes commands again and again,
\* unless the service is dead, nobody completes the hello, or one peer keeps
\* its connection open: no wait of its own goes on for ever.
WorkerReturns ==
    []<>(pc = "top") \/ <>[](pc \in {"off", "dial"} \/ link)

\* SECURITY.md: a disconnect revokes the live owner session, also when it comes
\* while the worker waits for the user's decision.
DisconnectRevokes == (state = Trusted /\ ~link) ~> (state # Trusted)

\* Steps a session has left when its connection is closed, by where the worker is.
SessionLeft ==
    CASE pc = "decide" -> 3 [] pc = "poll" -> 2 [] pc \in {"recv", "pong"} -> 1 [] OTHER -> 0

\* Once the workstation has gone the worker answers no poll, opens no request and takes
\* up no new connection before the state that says so is published: whatever the owner
\* sends meanwhile, it takes at most three steps, apart from the commands it hears while
\* a decision is awaited, and none of them leads back.
ClosedSessionEnds ==
    [][~link /\ pc \in SessionPCs =>
          /\ pc' = pc \/ SessionLeft' < SessionLeft
          /\ authority'.request \in {authority.request, NoRequest}
          /\ IF pc' \in SessionPCs THEN ~link' ELSE state' # Trusted]_serviceVars
====
