# A TLA+ model of the Zorin Trust Runtime

Zorin Trust Runtime is an Android phone that vouches for its owner. A foreground
service in a process of its own (`:trust`) dials the paired workstation,
authenticates both ends, keeps a session, and signs *owner proofs* the workstation
asks for; a NativeActivity shows what the service is doing and lets the owner
approve, revoke and decide; a shell-side agent answers diagnostic queries of the
Activity. Everything is freestanding C: `app-native/src/native_core.c` (below
*core*), `app-native/src/trust_runtime.inc` (*runtime*), `bridge/src/agent.c`
(*agent*).

This directory holds TLA+ modules that model those parts, TLC configurations that
check them, and TLAPS proofs for all values of the constants. `PROJECT.json` names,
for each definition, the lines of code it stands for.

## Inventory

| Component | State it keeps | Operations | What makes it correct | Module |
|---|---|---|---|---|
| trusted-host registry | `trusted_hosts_v2`, the older `trusted_host_pub` (SharedPreferences, written back late) | contains (migrates), add (bounded), remove | only approved keys get in; a removed key is gone | `HostRegistry` |
| trust core | globals of the worker: state, host name/fingerprint/key, pending key, portable pin, request flags | command loop, revoke, approve, dial, hello, authenticate, poll, owner-proof wait | no auto-pairing; sessions only with pinned hosts; trusted state only in a session | `TrustService`, abstract `HostTrust`, `DecisionSlot` |
| trust UI | screen, synchronised globals | refresh thread, taps, deep links | what a tap sends is what the service may rely on | `TrustRuntime` |
| touch screen | page, tab, developer mode, the rectangle of every button | draw, tap, turn the page, collect the report | a tap means what is drawn under the finger; the screen follows the service | `ScreenLayout`, `TouchScreen` |
| Activity threads | `g_ui_generation`, `g_ui_alive`, the window and its buffer, the decoded globals | window callbacks, onCreate, onDestroy, input and refresh threads, render | every buffer is given back; globals settle; old threads leave | `ActivityThreads` |
| forked probes | pipe ends, the child, its result | pipe, fork, read, wait, report | nothing leaks; a verdict is of its own child; no probe hangs | `ProbeRunner` |
| calls to the Device Core | the Core's proxy, `g_core_class`, parcels and status objects | check, ping, associate, transact, read the answer | nothing is kept; the Core is refused to nobody | `DeviceCore` |
| owner-proof broker | the open request, the decision, the turns of the wait | check, ask the owner, sign, send, deny | no proof without unlock or consent; one answer per request; the wait ends | `ProofBroker`, abstract `OwnerProof`, `DecisionSlot` |
| service lifecycle | `g_running`, `g_trust_thread_started`, `g_trust_service_alive`, the worker thread | start requests, onCreate, onStart, onDestroy, worker start and exit, publication, death of the process | one worker at most, none lost, a stopped one leaves; the file says what is in memory unless two publications crossed | `ServiceLifecycle` |
| direct transport | file `direct-transport`, address, invitation, label of the dial | accept a link, write, read, judge, clear, connect, fall back | the invitation goes to its own host; expired links are not dialled | `DirectTransport` |
| frames on the socket | the bytes read so far | receive until an end is found, judge, send | a message is judged when it has been read to its end | `Handshake` |
| bridge client and agent | `g_bridge_token`, its saved copy, the agent's token and backlog | provision, HELLO/STATUS/SERVICES, save; accept, authorize, answer | data only for the token; rendering ends; only accepted tokens are saved | `ShellBridge` |
| Keystore identity | a key pair outside the process | sign, verify | external: only outcomes (works, fails, invalid) are modelled | within `TrustService`, `ProofBroker` |
| visual pulse | `g_visual_view`, the window manager's view | ask with the permission, show, remove | gone once the service stays stopped | within `ServiceLifecycle` |
| other diagnostics, drawing | none | one-shot queries, text into the buffer | no state to interleave | not modelled |
| builders, static checks, scripts, stubs | none | build-time only | sequential, no protocol | not modelled |

How they interact:

* Activity and service share **no memory**. The service writes `trust-ui-state`, the
  Activity reads it; the Activity writes the one-slot `trust-ui-command`, the service
  reads and unlinks it; the Activity writes `direct-transport`, the worker reads and
  unlinks it.
* Inside `:trust` the main thread (service callbacks) and the worker share globals
  **without a lock**.
* Inside the Activity the main thread, the input thread and the refresh thread share
  globals without a lock; threads of a destroyed Activity live on while the next is
  created.
* The workstation talks over one blocking socket without a timeout; the agent serves
  one blocking connection at a time.

What is hard about it: taps that race publications, commands that race hello frames,
the death of `:trust` between a change and its write-back, decisions that arrive in
the last turn of the wait, a clock and a keyguard that move between a check and the
signature, a worker that leaves while the next service starts, torn and replaced
files, torn tokens. `PROJECT.json` lists these hazards with their lines and the
properties aimed at them.

## Modules

**`HostRegistry`** — the registry as a record `[list, legacy]`: `IsTrusted`, `Add`,
`Remove`, `Migrate`. The list is a set with `Capacity` members; buffer arithmetic is
left out. No state of its own.

**`TrustService`** — one `pc` for the worker thread. `top`, `forget`, `approve`,
`wait` are the command loop of `trust_worker`; `dial`, `auth` the handshake of
`trust_auth_session`; the session positions its poll loop; `decide` the wait of
`trust_handle_proof_request`. A whole straight-line run of the code between two
points where another actor can be seen or heard is one action, with its trailing
publication (`trust_set_status` publishes; every such call is part of its action). That is
the file as the worker leaves it: `Publish` stands for a publication that no other thread
crosses, and which text stays when the main thread publishes at the same time is
`ServiceLifecycle`'s question. The transport label and the phone's fingerprint, which change
without a publication, are not part of the snapshot.
The environment writes any command at any time (`AnyCommand`), hello frames with any
claim, closes the connection, lets the preferences lag (`WriteBack`), kills and
restarts the process (`Kill`, `Start`: `START_STICKY`). Cryptography is its verdict:
a host that proves possession of a key *is* that key.

**`HostTrust`** — the promise: asked, trusted, session. `TrustService!PromiseKept` is
the refinement: `asked` is the history of approvals, `trusted` the union of registry,
older key and portable pin, `session` the authenticated host.

**`DecisionSlot`** — the promise about the one file through which the owner decides: an
answer is read once, decides the open request it names or nothing, a denial is final, and
no decision outlives its request. `TrustService`, where the wait for the owner is one
action, and `ProofBroker`, where it is a loop of turns, both implement it
(`Decisions` in each, part of their `PromiseKept`): the two tellings of
`trust_handle_proof_request` agree on what an answer does.

**`TrustRuntime`** — extends `TrustService`; `AnyCommand` is replaced by the real
Activity. A tap is two steps (`TouchBegin` synchronises, the `Touch…` actions act) since
`handle_touch` reads the state file again before it sends anything. The refresh thread
draws only if its own reading found a change, and a tap that hits nothing (`TouchNothing`)
synchronises without drawing.

**`ScreenLayout`, `TouchScreen`** — the pages, tabs and buttons with their pixels, and who
may press them. Drawing a page leaves the rectangles of its buttons in globals
(`RectAfter`; those of other pages stay), and `handle_touch` asks them one after the other
(`Tested`, in the order of `Rank`) under guards that are not the guards of drawing. `ScreenLayout` computes
the places as the code does, integer division included, so that overlaps of pages are the
real ones. `TouchScreen` has the main, the refresh and the input thread, the one buffer
they compete for, the seven taps on the version, the jump to Requests and the report
that COPY ALL collects.

**`ActivityThreads`** — the other side of the same code: not what is drawn, but by whom.
The main thread and, for each Activity, an input and a refresh thread with their
`pc`; `Sync` reads the file and remembers it, `Decode` and `DecodeAsk` are two of the field
copies, enough for a mixture of two frames to exist; `Lock` and `Post` are the window's
buffer. The manifest gives no launch mode, so a deep link can create a second Activity
in the process, and the destruction of either clears what both share. Which page
is drawn is left open (`RenderState`, `RenderPlain`), and so is what a tap hits (`Hit`, `Miss`).

**`ProbeRunner`** — `run_probe_kind` and its twin `run_child_syscall`: `pipe2`, `fork`, the child's
system call, write and exit, the parent's close, read and `waitpid`, each of which may
fail; the child may be killed anywhere and holds a copy of every descriptor open at
the fork, another runner's included.

**`DeviceCore`** — extends `ProbeRunner` with the Binder calls of the CENTER page: the proxy the
Binder library shares for as long as someone holds it, the class it is tied to,
`g_core_class`, which two threads may define at once, and the parcels and status objects
of a call, each step of which can fail. A restarted Core is a proxy that nobody holds.

**`OwnerProof`, `ProofBroker`** — the owner-proof request in detail: the window check, the
published request, the turns of the decision wait, `isDeviceLocked`, signing, sending,
every failure path. The clock, which the owner may set either way (`SetClock`), the keyguard,
the owner and `g_running` move between any two steps; `now` is the one reading of the clock
the handler takes. `view` is what the Activity has read last, which need not be what is on
the screen: `handle_touch` reads the file again before it sends the answer, and drawing is
not modelled here. The promise `OwnerProof` has one open request, one answer, and no
explicit proof without consent. The counter of the turns and the time read are locals
of the C function; the model sets them back when they go out of scope.

**`ServiceLifecycle`** — main thread `mpc` and worker threads `wpc[t]`, with
`trust_ui_publish_state` split into formatting and writing, and `trust_start_worker`
into test, flag and `pthread_create`. `crossed` is history: the last text was formatted while
another thread was at its writing, or none is from this process yet. Start requests queue
up as Android keeps them (`StartService`; a set, as equal ones make no difference), the overlay follows the
permission it needs (`ShowOverlay`, `Permit`), and the process may be `Killed` at any
step: threads and globals go, the state file stays, the window goes with the process, and
`START_STICKY` leaves a start request behind.

**`DirectTransport`** — the endpoint file at the granularity of its system calls (open
with truncation, write, read, unlink of whatever the path leads to now), and the dial
with its fallback to the USB tunnel.

**`Handshake`** — extends `DirectTransport` with what is read from the connection once it is
there. A stream has no frames: `Receive` takes any number of the parts sent so far, and the
two rules by which the code finds an end (`FrameEnds` in the handshake, `MessageEnds`
in the session) decide whether it reads on. The first rule also stops one character after
any END, at the end of a value (a host called WEEKEND) or in the middle of one (a policy
called VENDOR). So a message is a sequence of parts: a field's line is one part, or, if it
has an END in it, one part up to the character behind that END (a member of `Tails`) and one
for the rest of the line. The frame may end behind a member of `Tails` when a piece ends
there, and elsewhere it makes no difference where a piece ends. What is behind the end stays
in the stream and is read as the next message; `cut` remembers that a greeting was judged
before its end, or a verdict with more to come than its END line. `Dialled` and `HangUp`
are the two actions of `DirectTransport` it refines, all others leave the stream or the dial alone.

**`ShellBridge`** — the agent (accept, one read, answer, close; killed and restarted with
another token or without authentication), rendering threads (HELLO, STATUS, save,
SERVICES; a report asks more of the last kind), `onCreate` refilling the token byte by
byte (`Filling`: some shorter string, or one of full length that is half old, half
new), and other local clients, which may stay silent. A connection whose owner died
stays in the backlog until the agent reads end-of-file from it, and the model lets a thread of
the next process connect only then. `authed` and `clean` are history.

The `MC…` modules give the constants values for TLC. Definitions introduced by a
comment `Slip:` are not used by any specification: each is a plausible mistake in the
code, put in place of the definition below it to show that a property notices.

## Runs

| Run | Bounds | Shows |
|---|---|---|
| `trust_service` | a permanent and a portable host, capacity 1 (so that an approval meets a full registry), one request id, one kill | types, all safety invariants of the core, trust that changes only by a command, refinement of `HostTrust` and `DecisionSlot` |
| `trust_runtime` | the same hosts and capacity, one kill, one tap | the composition implements `TrustService`; the worker returns, a disconnect revokes |
| `proof_broker` | 8 requests (reused id, foreign namespace, no id, too long a window, unreadable; one begins before the clock does), window 3, skew 1, 2 turns, clock 0..1 | unlock, consent, lifetime, closing, refinement of `OwnerProof` and `DecisionSlot`, every step of the handler counts, the wait ends |
| `service_lifecycle` | 2 worker threads, any number of start requests, grants and kills | one owner of the trusted state, a flag that is exact, a state file that says what is in memory unless publications crossed, a stopped service leaves nothing on the screen and no worker, each step of whose way out counts, recovery |
| `direct_transport` | 6 links (two portable, a plain, a public, a malformed, one with an overlong mode), clock 0..3; 2 greetings and 4 verdicts, with an END at the end and in the middle of a value, before and behind the fields a message does not do without | right host for an invitation, true label, freshness, clean-up, messages judged when they are there |
| `probe_runner` | 2 threads that probe or call the Core | nothing left behind on any failing call, true verdicts, the Core refuses only after two threads defined its class at once, a runner only waits for somebody who runs, every probe ends |
| `activity_threads` | 2 Activities, overlapping or not, the first with both threads; 2 frames that differ in both fields | a buffer for every painter, nothing changes while the file is quiet, globals settle, old threads only go forward and leave |
| `touch_screen` | 1 upright window, 2 frames (pairing, a request in a session), 19 points on all buttons and their overlaps, developer mode after 2 taps | while the screen shows what the Activity has read, a tap means what is drawn under it; the screen follows |
| `shell_bridge` | 2 tokens, 1 rendering thread, 1 other client | token needed for data, nobody is overtaken in the backlog, rendering ends, only accepted tokens saved unless raced |

Only `trust_service` has TLC check types as well; the types of the other components are
proved (`TypeCorrect`).

The bounds are enough for the cases the properties tell apart: two hosts are needed
for one to replace the other; one kill for every crash point, since a kill forgets
all but the files and preferences; a tap acts on one snapshot, and one tap with any
number of publications around it covers every order of the two. Two turns
give a decision in the first, the last, and after it. The clock of the broker is set
forward and back between any two steps; two values suffice, as only its reading and its value
at the signature are compared. Two worker threads let an old one
overlap a new; that no third is ever needed is `OneOwner`, proved for any set. A greeting
is cut before its key, behind it and before its end; a third line of that kind would
only repeat the second.
Two tokens give an agent the Activity does not know yet. The Activity's second
thread could only race the first through the token and the saved flag, which the
proofs cover for any number of threads. Two runners are what it takes to inherit a
foreign pipe. The second Activity's own threads could not be created in
`activity_threads`: that it overtakes the first's threads and draws by the main thread is
what matters, and the buffer is proved for any set of threads. In `touch_screen` two taps on the
version instead of seven tell "not yet" from "now"; the refresh thread reads the file and
turns the page in one step, drawing from the lock to the post changes globals in one step,
and a window that is not there is `ActivityThreads`' concern. Other windows, low ones on
which the navigation covers buttons included, are covered by the proof. None of the runs uses
symmetry.

Runs that are expected to fail, each a disagreement between the code and what the
repository says of it (the quotations are in `PROJECT.json`):

* `portable_persisted` — after an approval the pending key stays but its portable flag is
  cleared; a `PAIR_REQUIRED` answer reopens the approval, and a second one writes the
  memory-only key to the persistent registry.
* `approval_unseen_host` — a tap approves the host published after the last draw.
* `forget_ignored` — a session loop with an answering workstation never reads the command
  file: REVOKE has no effect until the session ends.

## Fairness

Only steps a thread takes by itself are fair, and weakly: `WorkerLocal`, `MainLocal`,
`Dialing`, `Handler`, `Accept`/`Serve`, `Rendering(r)`, `Refresh`, `Runs(t)`, `Continues(r)`, `Lives(r)`
(`DeviceCore` and `Handshake` keep the fairness of the module they extend, and add none:
an answer of the Core or of the workstation is not assumed).
Android schedules runnable threads, and
these steps call nothing that can block (the agent's commands only read files and
properties). The wait for the owner needs no clock: `usleep` returns, and
its delay is not measured with the clock that can be set. `Start` is fair (the service is `START_STICKY`), and in
`DirectTransport` judging the link is strongly fair, because the owner may set the clock
back and forth under it and `clock_gettime` does not fail for ever. Nothing is assumed
of the workstation, the network, the owner, the agent's restarts or other local clients;
hence the escape clauses "unless a peer holds the connection", "unless a silent client
holds the agent". `AnsweringSpec`, used only by `forget_ignored`, adds a
workstation that answers, which makes the refutation stronger: not even then is
the command read.

## Proofs

Each proof module extends its component and proves, for all constants that satisfy the
component's named assumptions (disjointness of markers and values, natural-number
bounds), type correctness, an inductive strengthening, and the properties that follow.

* **`TrustProofs`** — of `TrustService`: `InductiveInv`. That every known key was approved is not
  inductive alone: an APPROVE passes through the command file and a request flag before it
  is applied, and the pending key could change meanwhile. `ApprovalInv` follows it: an
  approval in the file names an approved key; one that was heard is for the key pending
  *now*, and only at the three positions of the loop where no hello frame is read.
  `SessionInv` carries "pinned" from the hello frame through the handshake; it needs that
  commands are not applied in between. From it: `NeverAutoPaired`, `SessionHostPinned`
  and the step-by-step refinement of `HostTrust`.
  `TrustChangesByCommand` says both directions of it, action by action (`KnownNext`,
  `KnownLost`): a key becomes known by applying the approval of that very key or by a kill
  that undoes a revocation not yet written back, and stops being known by a revocation,
  by another portable approval, or by a kill that undoes what was not yet written back or
  ends a pin held in memory. `RegistryAnswers` says what the lookup
  answers after an approval, a revocation or a migration of any registry, and
  `RegistryFitsHolds` that neither list outgrows its buffer. `ClosedSessionEnds`: once the peer has closed, the
  worker's way to the publication that takes the trusted state back shortens with each step
  (`SessionLeft`) and passes no poll, no request and no dial. `NothingDecided` (without an open
  request there is no decision) gives the refinement of `DecisionSlot`.
  Of `TrustRuntime`: every step of the
  Activity is an `AnyCommand`, a deep link or a stutter of the service, so the composition
  implements `Spec` and inherits its theorems.
* **`ProofBrokerProofs`** — `BrokerInv`: `OpenInv` (where a request is open, and that it is the one
  being handled), `ConsentInv` (a decision, in the file or heard, was given for a published
  request with that id), `LimitsInv` (the checks of the window and of the lock outlive the
  wait; it speaks of the time read at the check, so the clock may go where it likes
  afterwards). From it the four safety properties and the refinement of `OwnerProof`. `AnswerInv`
  (a denial is judged in the turn that hears it) gives that of `DecisionSlot`
  (`DecisionsHold`). `EveryStepCounts`: each step of the handler lowers `StepsLeft`, which
  nobody else raises and which `StepsLeftBounded` bounds by the turns of the wait.
* **`ServiceLifecycleProofs`** — `LifecycleInv`: with the flag down, or raised for a thread that is
  still to be created, no worker exists; hence never two. A kill keeps it, as it takes
  threads and flags together. `OneOwner` adds that the trusted state is that of a session
  of the one worker, which no other thread writes, and that the flag is up exactly while
  there is a worker or one is being created (`FlagIsTrue`). `FileIsTrueUnlessCrossed` rests on
  `PublicationInv`: unless the publications crossed one thread at most is at its writing, and
  the text it holds is true or somebody has yet to format; with nobody publishing the file is.
  `DestroyedServiceGoes` rests on `ServiceInv` (without
  a service the overlay is gone and `g_running` is down for the worker): each step of the
  worker then lowers `StepsToLeave`, at most nine (`StepsToLeaveBounded`).
* **`DirectTransportProofs`** — `TransportInv`: address, flag, invitation and label are always
  those of one link, and every frame anywhere was acceptable when it was written.
  `Handshake` implements `DirectTransport`. `JudgedWhenHeard` rests on `StreamInv`: in the
  handshake the only END line of what has been sent is its last (`FrameInv`), so a frame that
  ends early ends behind an END in a value; and one stray END line at the start of a session
  message does not end it (`MessageInv`). `HandshakeAssumption` says of greetings and verdicts
  only that their END line is the last part and no other; which fields they have, in which
  order and with how many ENDs in them is open.
* **`ProbeRunnerProofs`** — `ProbeInv` ties each runner's position to its pipe ends and child, and
  the child's position to what may be in the pipe; the kept copies of the writing end play no
  part in safety, so the number of runners does not matter. `NobodyWaitsInVain`: a runner
  that waits for its pipe waits for a child that runs and still holds the writing end, one
  that waits for its child for that child, and the holders only become fewer. `CoreInv` adds what a thread
  owns at each step of a call (`OwnInv`) and, while no two threads have found `g_core_class`
  empty at once, that there is one class (`OneClass`).
* **`TouchScreenProofs`** — `ScreenInv`: the rectangles of the buttons on the page drawn last are where
  that drawing put them, and that page is the current one unless a thread is still to draw
  or `behind` says why not. `TapMeansWhatIsDrawn` then is geometry: for every window at least
  200 pixels wide, the guards of `handle_touch` and the places of the layout agree. It
  is proved from the layout's definitions, button by button.
* **`ActivityThreadsProofs`** — `ThreadsInv`: that a thread holds one buffer exactly while it draws is
  kept by every step except the creation of threads, for which it must be known that a
  thread did not run before (`Unborn`). `OldThreadsFinish`: a thread of an Activity that is
  gone or followed by another goes forward to its exit and never back to a turn of its loop.
  `QuietFileStays`: while the file is not written nobody takes up an old frame, and once the last of these
  is decoded a field that says what the file says does not change again.
* **`ShellBridgeProofs`** — `BridgeInv`: between the sending of STATUS and the save a rendering
  thread's token is the one on the wire and then the one the agent accepted, as long
  as `clean`. It deliberately allows a connection to be read again after its end
  (`wire = Closed`), so no reasoning about the backlog is needed. `NobodyIsOvertaken` is
  that reasoning: with `QueueInv` (no connection is in the backlog twice, none has been answered)
  those in front of a waiting connection only become fewer.

What stays with TLC: all liveness, since TLAPS reasons about neither fairness nor
`ENABLED`; and the expected violations. The safety half of most liveness properties is
proved, for all constants: nobody goes back, or a natural number falls with every step of the
thread. That the step is enabled and taken, by the thread or by whoever it waits for, is what
TLC adds. `SessionLeft` and `TurnLeft` are bounded by the cases of their definitions.

| Liveness, checked by TLC | Its safety half, proved |
|---|---|
| `EveryRequestEnds` | `EveryStepCounts`, `StepsLeftBounded` |
| `EveryProbeEnds` | `NobodyWaitsInVain` |
| `RenderEnds` | `NobodyIsOvertaken` |
| `StoppedServiceLeaves` | `DestroyedServiceGoes`, `StepsToLeaveBounded` |
| `StartRestoresWorker` | `OneOwner` (a flag that is down means no worker, one that is up a worker) |
| `OldThreadsLeave` | `OldThreadsFinish` |
| `GlobalsSettle` | `QuietFileStays` |
| `DisconnectRevokes` | `ClosedSessionEnds` |
| `WorkerReturns`, `ExpiredInvitationGoes` | none: both depend on somebody else, the peer or the owner who sets the clock |

## Not modelled

* Wording of frames and reports, hexadecimal and number parsing, buffer lengths (except
  where a frame is cut: `fits`, `Torn`). `Handshake` takes the fields of the workstation's
  frames in the order of its constants; no value of a proof request ends in PONG, which would
  end `trust_recv_session_message` early as well.
* What is on the screen when an owner-proof request is decided: `ProofBroker` has the request
  the Activity has read, not the drawing of it. With both the state space grew beyond what a
  run can cover; `approval_unseen_host` shows the same step of `handle_touch` for hosts.
* A `write` of the state file that fails or stops half-way; only `direct-transport` has it.
* JNI failures inside the registry (`trust_host_add` takes a failed read for an empty list).
* The in-process fallback worker of `ANativeActivity_onCreate`, where the UI's
  synchronisation and the worker share globals.
* Reading `trust-ui-state` and `trust-ui-command` in parts (`direct-transport` has this). The last
  frame the Activity remembers is copied byte by byte as well; only its comparison
  with the file depends on it, hence only whether a draw follows.
* The input queue's own callbacks, the notification of the foreground service and the
  settings intent of the overlay permission: calls to Android whose results are dropped.
* The one-shot JNI and procfs queries of the other diagnostic pages, which keep no state.
* The key pair in the Keystore, beyond whether a signature can be made: only the worker
  asks for it, so its creation has nothing to race.
* The answers of the agent's commands, other than the probes.
* The builders, the scripts and the drawing of text and boxes.

Seen while modelling and not kept as runs: `EXPIRES` is never compared with the clock,
and the owner may take longer than what is left of it, so an expired request can be
proved (1145), where TRUST-PROTOCOL.md speaks of a validated time window; a service
created while the old worker is about to leave has none until the next start request
(1716); any answer but one counts as success to `bridge_request`, so an agent without
authentication gets a token saved that nobody checked (core 1810), and onCreate can
refill the token between the check and the save; when a deep link has opened a second
Activity and either is destroyed, the other has no running threads and is not drawn any
more (core 3111); RECONNECT is ignored in a session just as
FORGET is; after `PAIR_REQUIRED` the phrase on screen is of one host while the pending key is
another's (runtime 1608); REVOKE removes the host that answered last, not the one on
screen (1674), and for a portable host it clears whichever portable pin is set but leaves a
portable key in the registry if it got there; the command slot can be overwritten before it is read (840), although
TRUST-SERVICE.md speaks of consuming each command once; `trust_action_allowed` accepts more namespaces than
TRUST-PROTOCOL.md lists (1072); the TEST button shows the pulse without a session
(core 1255); two unsynchronised publications can leave the older state in the file
until the next one (942), which is the exception in `FileIsTrueUnlessCrossed`; `g_trust_transport` (1375, 1438, 1485)
and `g_trust_phone_fp` (1546) change before a blocking connect or recv and are not published
until the next change of state; a killed service's file says ESTABLISHED until the next start;
an owner-proof request that is published between the draw and the tap is read by the tap
itself (core 2946) and authorized unseen (core 2964), as a host is in `approval_unseen_host`;
the time window of a proof is checked once (1140), so a clock that is set back during the
wait lets a proof be signed that is valid for longer ahead than window and skew together; `authenticated session` is printed for any non-empty token (core 2061). A tap that hits
nothing consumes the change the refresh thread waits for, and the screen stays as it was
(core 2946, 3041), where CHANGELOG.md:31 has the UI refresh by itself; `behind` in `TouchScreen` is this case.
A tap that comes while the screen lags (a page turned or a state read, and not yet drawn) is
tested against what the next drawing would show or the last one left; `TapMeansWhatIsDrawn`
speaks only of a screen that shows what the Activity has read.
With core and bridge both there the CENTER page prints no ACTIVE MODE (core 2098).
Two threads that define `g_core_class` at once make the living Core refuse one
of them (core 1843). `g_collect_report` is one flag for all threads: another that draws
meanwhile adds its page to the report COPY ALL collects. A frame that
is cut behind an END in a value is judged without its other fields (runtime 815): of a greeting
whose HOST_NAME is WEEKEND the optional ones take their defaults, and the rest of it is read
as the verdict, "HOST REJECTED DEVICE". A verdict whose POLICY is VENDOR is taken with the
policy "VENDO", and "R" with the END line then ends the first message of the session
(1088) before its PONG is there: the session is given up (1651). A permission that is withdrawn does not take
the overlay away. When the Keystore cannot be opened, `trust_ensure_identity` jumps over the
initialisation of the references it then deletes (runtime 580).

## Plan

1. *Done:* the components above, with their proofs: the core and its composition with the
   Activity, the broker, the lifecycle with kills and the overlay, the dial with its
   stream, the bridge, probes and Core calls, the Activity's threads, the touch screen.
2. Command and state files at system-call granularity (open with truncation, write, read,
   unlink), as in `DirectTransport`, composed with `TrustRuntime`.
3. The in-process fallback worker: composition of `ActivityThreads` with `ServiceLifecycle`, so
   that two workers in two processes can be asked about.
4. *Half done:* `ProofBroker` and the owner-proof actions of `TrustService` implement the same
   `DecisionSlot`. Left: `Handshake`'s verdicts as those of `TrustService`'s `auth`.
5. A broker with a screen, small enough for TLC, to ask of owner-proof requests what
   `approval_unseen_host` asks of hosts.
6. The parsers (ports, IPv4 addresses, expiry) as functions checked against reference
   definitions over bounded inputs.
7. *Done:* the registry keeps within its capacity. Left: the safety half of
   `ExpiredInvitationGoes` (judging an expired link removes it unless the owner turns the
   clock back) and of `WorkerReturns` (the worker's own way back to its command loop).
