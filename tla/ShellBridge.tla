---- MODULE ShellBridge ----
(***************************************************************************)
(* The shell bridge: the agent on 127.0.0.1, a single-threaded server that *)
(* accepts one connection, reads one command, answers and closes, and the  *)
(* Activity, whose threads render pages and reports from its answers while *)
(* onCreate fills in the token they send.  The agent is restarted with     *)
(* another token by the start script; other local clients may connect.     *)
(***************************************************************************)
EXTENDS Integers, Sequences

CONSTANTS
    Tokens,     \* tokens the start script can make, 16 characters or more
    Mixed,      \* a token of that length that nobody made: half old, half new
    Short,      \* a token of fewer than 16 characters
    NoToken,    \* the empty string
    NoPref,     \* no token in the preferences
    Renderers,  \* threads of the Activity that render
    Strangers,  \* other local processes that connect to the port
    NoClient

Clients == Renderers \cup Strangers
Usable == Tokens \cup {Mixed}               \* strlen >= 16
Strings == Usable \cup {Short, NoToken}

\* What a client has written to its connection: HELLO, a command with AUTH and
\* a token in front, one without, nothing yet; or it has closed the connection.
Hello == [kind |-> "hello"]
Plain == [kind |-> "plain"]
Auth(t) == [kind |-> "auth", token |-> t]
Nothing == [kind |-> "nothing"]
Closed == [kind |-> "closed"]
Wires == {Hello, Plain, Nothing, Closed} \cup {Auth(t) : t \in Strings}

ASSUME BridgeAssumption ==
    /\ NoClient \notin Clients
    /\ Renderers \cap Strangers = {}
    /\ {Mixed, Short, NoToken, NoPref} \cap Tokens = {}
    /\ NoPref \notin Strings /\ NoToken \notin Usable /\ Short \notin Usable

VARIABLES
    mode,       \* "down", or the authentication the agent was started with
    key,        \* g_token of the agent
    queue,      \* the listen backlog
    serving,    \* the connection handle_client is in
    wire,       \* per client, what it has sent
    answer,     \* per client, what it was sent
    apc,        \* the Activity: "none" in this process yet, "up", "gone", or inside
                \* bridge_token_from_intent, for the "first" time or "again"
    intent,     \* the token extra of the start intent
    token,      \* g_bridge_token
    saved,      \* g_bridge_token_saved
    prefs,      \* bridge_token in SharedPreferences
    pc,         \* per renderer, where it is
    stage,      \* per renderer, the request it is at
    authed,     \* tokens an agent has ever accepted (history)
    clean       \* no token was refilled under a renderer, no agent ran open (history)

agent == <<mode, key, queue, serving>>
app == <<apc, intent, token, saved>>
render == <<pc, stage>>
history == <<authed, clean>>
vars == <<agent, wire, answer, app, prefs, render, history>>

\* Nothing but what was provisioned, or a torn copy of it, gets anywhere.
TypeOK ==
    /\ mode \in {"down", "required", "disabled"}
    /\ key \in IF mode = "required" THEN Tokens ELSE {NoToken}
    /\ queue \in Seq(Clients)
    /\ serving \in Clients \cup {NoClient}
    /\ wire \in [Clients -> Wires]
    /\ answer \in [Clients -> {"none", "hello", "data", "unknown", "refused"}]
    /\ apc \in {"none", "first", "up", "gone", "again"}
    /\ intent \in Tokens \cup {Short, NoToken}
    /\ token \in Strings
    /\ saved \in BOOLEAN
    /\ prefs \in Strings \cup {NoPref}
    /\ pc \in [Renderers -> {"idle", "request", "answer", "check", "save"}]
    /\ stage \in [Renderers -> {"HELLO", "STATUS", "DETAIL"}]
    /\ authed \subseteq Tokens
    /\ clean \in BOOLEAN

InQueue(c) == \E i \in 1 .. Len(queue) : queue[i] = c
Connected(c) == serving = c \/ InQueue(c)

----------------------------------------------------------------------------
(* The agent                                                               *)

\* The start script kills the agent before it starts another, with a new token
\* of its own; a developer starts one with --insecure-localhost.
StartAgent ==
    /\ mode = "down"
    /\ \/ mode' = "required" /\ key' \in Tokens
       \/ mode' = "disabled" /\ key' = NoToken
    /\ UNCHANGED <<queue, serving, wire, answer, app, prefs, render, history>>

\* Every connection is reset.
KillAgent ==
    /\ mode # "down"
    /\ mode' = "down" /\ key' = NoToken
    /\ queue' = <<>> /\ serving' = NoClient
    /\ UNCHANGED <<wire, answer, app, prefs, render, history>>

Accept ==
    /\ serving = NoClient /\ queue # <<>>
    /\ serving' = Head(queue) /\ queue' = Tail(queue)
    /\ UNCHANGED <<mode, key, wire, answer, app, prefs, render, history>>

\* Slip: any AUTH will do.
ReplyUnchecked(w) ==
    CASE w = Closed -> "none"
      [] w = Hello -> "hello"
      [] w = Plain /\ mode = "disabled" -> "data"
      [] w.kind = "auth" /\ mode = "disabled" -> "unknown"
      [] w.kind = "auth" /\ mode = "required" -> "data"
      [] OTHER -> "refused"

\* authorize and the dispatch of handle_client.  Without authentication the
\* command is taken as it was sent, and "AUTH ..." is the name of no command.
Reply(w) ==
    CASE w = Closed -> "none"
      [] w = Hello -> "hello"
      [] w = Plain /\ mode = "disabled" -> "data"
      [] w.kind = "auth" /\ mode = "disabled" -> "unknown"
      [] w = Auth(key) /\ mode = "required" -> "data"
      [] OTHER -> "refused"

\* Slip: the connection is left open after the answer.
ServeWithoutClose ==
    /\ serving # NoClient /\ wire[serving] # Nothing
    /\ answer' = [answer EXCEPT ![serving] = Reply(wire[serving])]
    /\ authed' = IF answer'[serving] = "data" /\ mode = "required"
                 THEN authed \cup {key} ELSE authed
    /\ clean' = (clean /\ ~(serving \in Renderers /\ answer'[serving] = "unknown"))
    /\ UNCHANGED <<agent, wire, app, prefs, render>>

\* One blocking read, one answer, close.
Serve ==
    /\ serving # NoClient /\ wire[serving] # Nothing
    /\ answer' = [answer EXCEPT ![serving] = Reply(wire[serving])]
    /\ wire' = [wire EXCEPT ![serving] = Closed]
    /\ serving' = NoClient
    /\ authed' = IF answer'[serving] = "data" /\ mode = "required"
                 THEN authed \cup {key} ELSE authed
    /\ clean' = (clean /\ ~(serving \in Renderers /\ answer'[serving] = "unknown"))
    /\ UNCHANGED <<mode, key, queue, app, prefs, render>>

----------------------------------------------------------------------------
(* Other local clients: none of them knows a token, any may stay silent     *)

StrangerConnects(s) ==
    /\ mode # "down" /\ ~Connected(s)
    /\ queue' = Append(queue, s)
    /\ wire' = [wire EXCEPT ![s] = Nothing]
    /\ answer' = [answer EXCEPT ![s] = "none"]
    /\ UNCHANGED <<mode, key, serving, app, prefs, render, history>>

StrangerSends(s) ==
    /\ Connected(s) /\ wire[s] = Nothing
    /\ \E w \in {Plain, Closed} : wire' = [wire EXCEPT ![s] = w]
    /\ UNCHANGED <<agent, answer, app, prefs, render, history>>

----------------------------------------------------------------------------
(* Renderers: render_core asks HELLO, STATUS, SERVICES; a report more       *)

Goto(r, where, what) ==
    /\ pc' = [pc EXCEPT ![r] = where]
    /\ stage' = [stage EXCEPT ![r] = what]

\* A page, or one more section of a report.  A thread of an earlier Activity
\* still ends what it is doing while the next is created.
BeginRender(r) ==
    /\ pc[r] = "idle" /\ apc \in {"up", "gone", "again"}
    /\ Goto(r, "request", "HELLO") \/ Goto(r, "request", "DETAIL")
    /\ clean' = (clean /\ apc # "again")
    /\ UNCHANGED <<agent, wire, answer, app, prefs, authed>>

\* A failed HELLO ends the page; after STATUS the details are asked for anyway.
Failed(r) ==
    IF stage[r] = "STATUS" THEN Goto(r, "request", "DETAIL") ELSE Goto(r, "idle", "HELLO")

\* bridge_request up to recv: connect, read the token, send.
Request(r) ==
    /\ pc[r] = "request" /\ mode # "down" /\ ~Connected(r)
    /\ stage[r] = "HELLO" \/ token # NoToken
    /\ queue' = Append(queue, r)
    /\ wire' = [wire EXCEPT ![r] = IF stage[r] = "HELLO" THEN Hello ELSE Auth(token)]
    /\ answer' = [answer EXCEPT ![r] = "none"]
    /\ Goto(r, "answer", stage[r])
    /\ UNCHANGED <<mode, key, serving, app, prefs, history>>

\* Nobody listens, or there is no token to send: 401.
RequestFails(r) ==
    /\ pc[r] = "request"
    /\ mode = "down" \/ (stage[r] # "HELLO" /\ token = NoToken)
    /\ Failed(r)
    /\ UNCHANGED <<agent, wire, answer, app, prefs, history>>

\* Slip: a refusal is an answer like any other.
SucceededWithAnything(r) == answer[r] # "none"

\* Any text but the one refusal counts as success.
Succeeded(r) == answer[r] \in {"hello", "data", "unknown"}

\* recv returns 0: the agent has closed the connection, or is gone.
Receive(r) ==
    /\ pc[r] = "answer" /\ ~Connected(r)
    /\ IF ~Succeeded(r) THEN Failed(r)
       ELSE CASE stage[r] = "HELLO" -> Goto(r, "request", "STATUS")
              [] stage[r] = "STATUS" -> Goto(r, "check", "STATUS")
              [] stage[r] = "DETAIL" -> Goto(r, "idle", "HELLO")
    /\ wire' = [wire EXCEPT ![r] = Closed]
    /\ answer' = [answer EXCEPT ![r] = "none"]
    /\ UNCHANGED <<agent, app, prefs, history>>

\* bridge_save_authenticated_token looks at the globals once ...
CheckSave(r) ==
    /\ pc[r] = "check"
    /\ IF saved \/ token \notin Usable \/ apc = "gone"
       THEN Goto(r, "request", "DETAIL") ELSE Goto(r, "save", "STATUS")
    /\ UNCHANGED <<agent, wire, answer, app, prefs, history>>

\* ... and saves what it finds there a little later; g_bridge_token_saved tells
\* that something was saved, not what.
Save(r) ==
    /\ pc[r] = "save" /\ apc # "gone"
    /\ prefs' = token
    /\ saved' = TRUE
    /\ Goto(r, "request", "DETAIL")
    /\ UNCHANGED <<agent, wire, answer, apc, intent, token, history>>

\* A JNI call fails, or the process dies before Editor.apply() reaches the disk.
SaveFails(r) ==
    /\ pc[r] = "save" /\ apc # "gone"
    /\ Goto(r, "request", "DETAIL")
    /\ UNCHANGED <<agent, wire, answer, app, prefs, history>>

----------------------------------------------------------------------------
(* The Activity and its process                                            *)

\* onCreate enters bridge_token_from_intent, with renderers of an earlier
\* Activity possibly still at work; in between the token is anything shorter,
\* or the beginning of the new one followed by the end of the old.
CreateBegin ==
    /\ apc \in {"none", "up", "gone"}
    /\ apc' = IF apc = "none" THEN "first" ELSE "again"
    /\ intent' \in Tokens \cup {Short, NoToken}
    /\ token' = NoToken /\ saved' = FALSE
    /\ clean' = (clean /\ \A r \in Renderers : pc[r] = "idle")
    /\ UNCHANGED <<agent, wire, answer, prefs, render, authed>>

Filling ==
    /\ apc \in {"first", "again"}
    /\ token' \in {Short, Mixed}
    /\ UNCHANGED <<agent, wire, answer, apc, intent, saved, prefs, render, history>>

\* A usable token in the intent wins; without one the saved token replaces it.
CreateEnd ==
    /\ apc \in {"first", "again"}
    /\ apc' = "up" /\ intent' = NoToken
    /\ IF intent \in Usable \/ prefs = NoPref
       THEN token' = intent /\ saved' = saved
       ELSE token' = prefs /\ saved' = (prefs \in Usable)
    /\ UNCHANGED <<agent, wire, answer, prefs, render, history>>

Destroy ==
    /\ apc = "up"
    /\ apc' = "gone"
    /\ UNCHANGED <<agent, wire, answer, intent, token, saved, prefs, render, history>>

\* am force-stop, Android, or a save through the null g_activity: the process
\* goes with its globals, its threads and its ends of the connections.
Die ==
    /\ apc' = "none" /\ intent' = NoToken /\ token' = NoToken /\ saved' = FALSE
    /\ pc' = [r \in Renderers |-> "idle"]
    /\ stage' = [r \in Renderers |-> "HELLO"]
    /\ wire' = [c \in Clients |-> IF c \in Renderers THEN Closed ELSE wire[c]]
    /\ answer' = [c \in Clients |-> IF c \in Renderers THEN "none" ELSE answer[c]]
    /\ UNCHANGED <<agent, prefs, history>>

SaveCrashes(r) ==
    /\ pc[r] = "save" /\ apc = "gone"
    /\ Die

----------------------------------------------------------------------------

Init ==
    /\ mode = "down" /\ key = NoToken /\ queue = <<>> /\ serving = NoClient
    /\ wire = [c \in Clients |-> Closed]
    /\ answer = [c \in Clients |-> "none"]
    /\ apc = "none" /\ intent = NoToken /\ token = NoToken /\ saved = FALSE
    /\ prefs = NoPref
    /\ pc = [r \in Renderers |-> "idle"]
    /\ stage = [r \in Renderers |-> "HELLO"]
    /\ authed = {} /\ clean = TRUE

Rendering(r) ==
    \/ Request(r) \/ RequestFails(r) \/ Receive(r)
    \/ CheckSave(r) \/ Save(r) \/ SaveFails(r) \/ SaveCrashes(r)

Agent == StartAgent \/ KillAgent \/ Accept \/ Serve

Stranger == \E s \in Strangers : StrangerConnects(s) \/ StrangerSends(s)

Process == CreateBegin \/ Filling \/ CreateEnd \/ Destroy \/ Die

Next ==
    \/ Agent \/ Stranger \/ Process
    \/ \E r \in Renderers : BeginRender(r) \/ Rendering(r)

Spec == Init /\ [][Next]_vars

\* Threads run, and the agent's commands, which only read, return.
LiveSpec ==
    /\ Spec
    /\ WF_vars(Accept) /\ WF_vars(Serve)
    /\ \A r \in Renderers : WF_vars(Rendering(r))

----------------------------------------------------------------------------
(* Properties                                                              *)

\* docs/SECURITY-MODEL.md: a random token prevents unrelated apps from querying
\* the listener.  Whatever is answered, restarted, queued or torn in between, a
\* client only ever holds data of an agent that runs open, or that accepted the
\* token the client sent.
DataNeedsToken ==
    [][\A c \in Clients : answer[c] # "data" /\ answer'[c] = "data" =>
          mode = "disabled" \/ (c \in Renderers /\ wire[c] = Auth(key))]_vars

\* A connection holds the one thread of the agent and sends nothing.
Held == \E s \in Strangers : serving = s /\ wire[s] = Nothing

\* Rendering has no timeout, and ends all the same unless another local client
\* holds the agent for ever: whatever is killed or restarted, and however other
\* clients queue for the agent.
RenderEnds ==
    []<>~Held => \A r \in Renderers : pc[r] # "idle" ~> pc[r] = "idle"

\* Who is connected has not been answered yet, as an answer closes the connection, and no
\* renderer keeps the agent waiting: it connects with its command on the way.
OneAnswer(c) ==
    Connected(c) => answer[c] = "none" /\ (c \in Renderers => wire[c] # Nothing)

\* The other clients whose connections the agent closes before that of c.
Ahead(c) ==
    {d \in Clients \ {c} :
        \/ serving = d
        \/ \E j \in 1 .. Len(queue) : \E i \in 1 .. (j - 1) : queue[i] = d /\ queue[j] = c}

\* handle_client answers one command and closes: whoever waits for the end of its answer
\* waits for those only who were there before it, each of them for one answer, and nobody
\* who comes later, again or after a restart of the agent gets in front.
NobodyIsOvertaken ==
    /\ [](\A c \in Clients : OneAnswer(c))
    /\ [][\A c \in Clients : Connected(c) /\ Connected(c)' => Ahead(c)' \subseteq Ahead(c)]_vars

\* native_core.c: what is restored is the last token with a successful
\* authentication.
SavedWasAuthenticated == prefs \in authed \cup {NoPref}

\* It is, as long as onCreate never refills the token under a thread that
\* renders, and no agent without authentication was asked.
SavedUnlessRaced == clean => SavedWasAuthenticated

\* The inductive invariant: a renderer between a successful STATUS and the save has the token
\* the agent accepted, because nothing has changed it since it was sent.
RendererInv(r) ==
    /\ apc \in {"none", "first", "again"} => pc[r] = "idle"
    /\ pc[r] = "answer" /\ stage[r] = "STATUS" => wire[r] \in {Auth(token), Closed}
    /\ pc[r] \in {"check", "save"} => stage[r] = "STATUS" /\ token \in authed
    /\ pc[r] = "answer" /\ stage[r] = "STATUS" /\ answer[r] # "none" =>
          \/ answer[r] = "refused"
          \/ answer[r] = "data" /\ token \in authed

BridgeInv ==
    /\ clean => SavedWasAuthenticated /\ \A r \in Renderers : RendererInv(r)
    /\ \A s \in Strangers : wire[s].kind # "auth"

\* The inductive invariant of NobodyIsOvertaken: nobody is connected twice.
ConnectedOnce ==
    /\ \A i, j \in 1 .. Len(queue) : queue[i] = queue[j] => i = j
    /\ ~InQueue(serving)

QueueInv == ConnectedOnce /\ \A c \in Clients : OneAnswer(c)
====
