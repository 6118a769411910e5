---- MODULE ShellBridgeProofs ----
(***************************************************************************)
(* The saved token, for any number of rendering threads, other clients and *)
(* agents with tokens of their own.                                        *)
(***************************************************************************)
EXTENDS ShellBridge, SequenceTheorems, TLAPS

IInv == TypeOK /\ BridgeInv

\* What a client can have written is told apart by its kind.
LEMMA WireKinds ==
    /\ Closed # Hello /\ Closed # Plain /\ Closed # Nothing
    /\ \A t \in Strings : /\ Auth(t) # Closed /\ Auth(t) # Hello
                          /\ Auth(t) # Plain /\ Auth(t) # Nothing
                          /\ Auth(t).kind = "auth"
    /\ \A t, u \in Strings : Auth(t) = Auth(u) => t = u
    /\ Closed \in Wires /\ Nothing \in Wires /\ Plain \in Wires /\ Hello \in Wires
    /\ \A t \in Strings : Auth(t) \in Wires
    /\ Closed.kind = "closed" /\ Hello.kind = "hello" /\ Plain.kind = "plain"
    /\ Nothing.kind = "nothing"
<1>1. \A t : /\ Auth(t).kind = "auth" /\ Auth(t).token = t
    BY DEF Auth
<1>2. /\ Closed.kind = "closed" /\ Hello.kind = "hello" /\ Plain.kind = "plain"
      /\ Nothing.kind = "nothing"
    BY DEF Closed, Hello, Plain, Nothing
<1>3. \A t, u \in Strings : Auth(t) = Auth(u) => t = u
    BY <1>1
<1>4. /\ Closed # Hello /\ Closed # Plain /\ Closed # Nothing
      /\ \A t \in Strings : /\ Auth(t) # Closed /\ Auth(t) # Hello
                            /\ Auth(t) # Plain /\ Auth(t) # Nothing
    BY <1>1, <1>2
<1> QED BY <1>1, <1>2, <1>3, <1>4 DEF Wires

\* What the agent answers, by what it was sent.
LEMMA Replies ==
    ASSUME TypeOK, NEW w \in Wires
    PROVE  /\ Reply(w) \in {"none", "hello", "data", "unknown", "refused"}
           /\ w = Closed => Reply(w) = "none"
           /\ w.kind = "auth" => Reply(w) \in {"data", "unknown", "refused"}
           /\ w.kind = "auth" /\ Reply(w) = "data" => mode = "required" /\ w = Auth(key)
           /\ Reply(w) = "data" => mode = "disabled" \/ (mode = "required" /\ w = Auth(key))
<1>1. key \in Strings /\ mode \in {"down", "required", "disabled"}
    BY DEF TypeOK, Strings, Usable
<1> QED BY <1>1, WireKinds DEF Reply, Wires, TypeOK

LEMMA InitOK == Init => IInv
<1> SUFFICES ASSUME Init PROVE IInv
    OBVIOUS
<1>1. TypeOK
  <2>1. /\ wire \in [Clients -> Wires]
        /\ answer \in [Clients -> {"none", "hello", "data", "unknown", "refused"}]
      BY WireKinds DEF Init
  <2>2. /\ pc \in [Renderers -> {"idle", "request", "answer", "check", "save"}]
        /\ stage \in [Renderers -> {"HELLO", "STATUS", "DETAIL"}]
      BY DEF Init
  <2>3. queue \in Seq(Clients)
      BY EmptySeq DEF Init
  <2>4. /\ mode = "down" /\ key = NoToken /\ serving = NoClient
        /\ authed = {} /\ clean = TRUE
      BY DEF Init
  <2>5. /\ apc = "none" /\ intent = NoToken /\ token = NoToken
        /\ saved = FALSE /\ prefs = NoPref
      BY DEF Init
  <2> QED BY <2>1, <2>2, <2>3, <2>4, <2>5 DEF TypeOK, Strings
<1>2. BridgeInv
    BY WireKinds DEF Init, BridgeInv, RendererInv, SavedWasAuthenticated, Clients
<1> QED BY <1>1, <1>2 DEF IInv

\* An answer served: its kind, and what it adds to the accepted tokens.
LEMMA Served ==
    ASSUME TypeOK, Serve
    PROVE  /\ serving \in Clients /\ wire[serving] \in Wires
           /\ answer' = [answer EXCEPT ![serving] = Reply(wire[serving])]
           /\ answer'[serving] = Reply(wire[serving])
           /\ wire' = [wire EXCEPT ![serving] = Closed]
           /\ authed \subseteq authed'
           /\ authed' \subseteq Tokens
           /\ mode = "required" /\ Reply(wire[serving]) = "data" => key \in authed'
<1>1. serving \in Clients /\ wire[serving] \in Wires
    BY DEF TypeOK, Serve
<1>2. answer' = [answer EXCEPT ![serving] = Reply(wire[serving])] /\ wire' = [wire EXCEPT ![serving] = Closed]
    BY DEF Serve
<1>3. answer'[serving] = Reply(wire[serving])
    BY <1>1, <1>2 DEF TypeOK
<1>4. authed' = IF Reply(wire[serving]) = "data" /\ mode = "required" THEN authed \cup {key} ELSE authed
    BY <1>3 DEF Serve
<1>5. mode = "required" => key \in Tokens
    BY DEF TypeOK
<1> QED BY <1>1, <1>2, <1>3, <1>4, <1>5 DEF TypeOK

\* Types: the agent and its other clients.
LEMMA AgentTypes ==
    ASSUME TypeOK, Agent \/ Stranger
    PROVE  TypeOK'
<1>1. CASE StartAgent
    BY <1>1 DEF TypeOK, StartAgent, app, render, history
<1>2. CASE KillAgent
    BY <1>2 DEF TypeOK, KillAgent, app, render, history
<1>3. CASE Accept
  <2>1. Head(queue) \in Clients /\ Tail(queue) \in Seq(Clients)
      BY <1>3, HeadTailProperties DEF TypeOK, Accept
  <2> QED BY <1>3, <2>1 DEF TypeOK, Accept, app, render, history
<1>4. CASE Serve
  <2>1. wire' \in [Clients -> Wires]
      BY <1>4, Served, WireKinds DEF TypeOK
  <2>2. answer' \in [Clients -> {"none", "hello", "data", "unknown", "refused"}]
      BY <1>4, Served, Replies DEF TypeOK
  <2>3. authed' \subseteq Tokens /\ clean' \in BOOLEAN
      BY <1>4, Served DEF TypeOK, Serve
  <2> QED BY <1>4, <2>1, <2>2, <2>3 DEF TypeOK, Serve, app, render
<1>5. ASSUME NEW s \in Strangers, StrangerConnects(s)
      PROVE  TypeOK'
  <2>1. s \in Clients
      BY DEF Clients
  <2>2. queue' \in Seq(Clients)
      BY <1>5, <2>1, AppendProperties DEF TypeOK, StrangerConnects
  <2>3. wire' \in [Clients -> Wires]
      BY <1>5, <2>1, WireKinds DEF TypeOK, StrangerConnects
  <2> QED BY <1>5, <2>1, <2>2, <2>3 DEF TypeOK, StrangerConnects, app, render, history
<1>6. ASSUME NEW s \in Strangers, StrangerSends(s)
      PROVE  TypeOK'
  <2>1. wire' \in [Clients -> Wires]
    <3>1. PICK w \in {Plain, Closed} : wire' = [wire EXCEPT ![s] = w]
        BY <1>6 DEF StrangerSends
    <3>2. w \in Wires
        BY <3>1, WireKinds
    <3> QED BY <3>1, <3>2 DEF TypeOK
  <2> QED BY <1>6, <2>1 DEF TypeOK, StrangerSends, agent, app, render, history
<1> QED BY <1>1, <1>2, <1>3, <1>4, <1>5, <1>6 DEF Agent, Stranger

\* Types: a rendering thread.
LEMMA RendererTypes ==
    ASSUME TypeOK, NEW r \in Renderers, BeginRender(r) \/ Rendering(r)
    PROVE  TypeOK'
<1>1. r \in Clients
    BY DEF Clients
<1>2. CASE BeginRender(r)
    BY <1>2 DEF TypeOK, BeginRender, Goto, agent, app
<1>3. CASE Request(r)
  <2>1. queue' \in Seq(Clients)
      BY <1>1, <1>3, AppendProperties DEF TypeOK, Request
  <2>2. wire' \in [Clients -> Wires]
      BY <1>1, <1>3, WireKinds DEF TypeOK, Request
  <2> QED BY <1>1, <1>3, <2>1, <2>2 DEF TypeOK, Request, Goto, app, history
<1>4. CASE RequestFails(r)
    BY <1>4 DEF TypeOK, RequestFails, Failed, Goto, agent, app, history
<1>5. CASE Receive(r)
  <2>1. wire' \in [Clients -> Wires]
      BY <1>1, <1>5, WireKinds DEF TypeOK, Receive
  <2>2. pc' \in [Renderers -> {"idle", "request", "answer", "check", "save"}]
        /\ stage' \in [Renderers -> {"HELLO", "STATUS", "DETAIL"}]
      BY <1>5 DEF TypeOK, Receive, Failed, Goto
  <2> QED BY <1>1, <1>5, <2>1, <2>2 DEF TypeOK, Receive, agent, app, history
<1>6. CASE CheckSave(r)
    BY <1>6 DEF TypeOK, CheckSave, Goto, agent, app, history
<1>7. CASE Save(r)
    BY <1>7 DEF TypeOK, Save, Goto, agent, history
<1>8. CASE SaveFails(r)
    BY <1>8 DEF TypeOK, SaveFails, Goto, agent, app, history
<1>9. CASE SaveCrashes(r)
    BY <1>9, WireKinds DEF TypeOK, SaveCrashes, Die, agent, history, Strings
<1> QED BY <1>2, <1>3, <1>4, <1>5, <1>6, <1>7, <1>8, <1>9 DEF Rendering

\* Types: the Activity and its process.
LEMMA ProcessTypes ==
    ASSUME TypeOK, Process
    PROVE  TypeOK'
<1>1. CASE CreateBegin
    BY <1>1 DEF TypeOK, CreateBegin, agent, render, Strings
<1>2. CASE Filling
    BY <1>2 DEF TypeOK, Filling, agent, render, history, Strings, Usable
<1>3. CASE CreateEnd
  <2>1. saved' \in BOOLEAN
    <3>1. CASE intent \in Usable \/ prefs = NoPref
        BY <1>3, <3>1 DEF TypeOK, CreateEnd
    <3>2. CASE ~(intent \in Usable \/ prefs = NoPref)
      <4>1. saved' = (prefs \in Usable)
          BY <1>3, <3>2 DEF CreateEnd
      <4>2. CASE prefs \in Usable
          BY <4>1, <4>2
      <4>3. CASE prefs \notin Usable
          BY <4>1, <4>3
      <4> QED BY <4>2, <4>3
    <3> QED BY <3>1, <3>2
  <2>2. token' \in Strings
      BY <1>3 DEF TypeOK, CreateEnd, Strings, Usable
  <2> QED BY <1>3, <2>1, <2>2 DEF TypeOK, CreateEnd, agent, render, history
<1>4. CASE Destroy
    BY <1>4 DEF TypeOK, Destroy, agent, render, history
<1>5. CASE Die
    BY <1>5, WireKinds DEF TypeOK, Die, agent, history, Strings
<1> QED BY <1>1, <1>2, <1>3, <1>4, <1>5 DEF Process

LEMMA TypeStep == TypeOK /\ [Next]_vars => TypeOK'
<1> SUFFICES ASSUME TypeOK, [Next]_vars PROVE TypeOK'
    OBVIOUS
<1>1. CASE UNCHANGED vars
    BY <1>1 DEF TypeOK, vars, agent, app, render, history
<1>2. CASE Next
    BY <1>2, AgentTypes, RendererTypes, ProcessTypes DEF Next
<1> QED BY <1>1, <1>2

\* Types hold of every behaviour.
THEOREM TypeCorrect == Spec => []TypeOK
<1>1. Init => TypeOK
    BY InitOK DEF IInv
<1> QED BY <1>1, TypeStep, PTL DEF Spec

----------------------------------------------------------------------------

\* The agent and its other clients disturb no renderer between a STATUS and its
\* save: an answer to it is data for the token it sent, or a refusal.
LEMMA AgentKeeps ==
    ASSUME IInv, Agent \/ Stranger
    PROVE  BridgeInv'
<1> USE DEF IInv
<1>1. CASE StartAgent \/ KillAgent \/ Accept
    BY <1>1 DEF BridgeInv, RendererInv, SavedWasAuthenticated, StartAgent, KillAgent, Accept, app, render, history
<1>2. CASE Serve
  <2>1. serving \in Clients /\ wire[serving] \in Wires
      BY <1>2, Served
  <2>2. \A s \in Strangers : wire'[s].kind # "auth"
      BY <1>2, Served, WireKinds DEF TypeOK, BridgeInv, Clients
  <2>3. clean' => clean /\ ~(serving \in Renderers /\ Reply(wire[serving]) = "unknown")
      BY <1>2, Served DEF Serve
  <2>4. ASSUME clean' PROVE SavedWasAuthenticated'
      BY <1>2, <2>3, <2>4, Served DEF BridgeInv, SavedWasAuthenticated, Serve
  <2>5. ASSUME clean', NEW r \in Renderers PROVE RendererInv(r)'
    <3>1. RendererInv(r) /\ clean
        BY <2>3, <2>5 DEF BridgeInv
    <3>2. CASE serving # r
      <4>1. wire'[r] = wire[r] /\ answer'[r] = answer[r]
          BY <1>2, <3>2, Served DEF TypeOK, Clients
      <4> QED BY <1>2, <3>1, <4>1, Served DEF RendererInv, Serve, app, render
    <3>3. CASE serving = r
      <4>1. wire'[r] = Closed /\ answer'[r] = Reply(wire[r])
          BY <1>2, <2>1, <3>3, Served DEF TypeOK
      <4>2. ASSUME pc[r] = "answer", stage[r] = "STATUS", answer'[r] # "none"
            PROVE  answer'[r] = "refused" \/ (answer'[r] = "data" /\ token \in authed')
        <5>1. wire[r] = Auth(token)
            BY <2>1, <3>1, <3>3, <4>1, <4>2, Replies DEF RendererInv
        <5>2. token \in Strings /\ key \in Strings
            BY DEF TypeOK, Strings, Usable
        <5>3. Reply(wire[r]) \in {"data", "refused"}
            BY <2>1, <2>3, <2>5, <3>3, <5>1, <5>2, Replies, WireKinds
        <5>4. Reply(wire[r]) = "data" => mode = "required" /\ key = token
            BY <2>1, <3>3, <5>1, <5>2, Replies, WireKinds
        <5> QED BY <1>2, <3>3, <4>1, <5>3, <5>4, Served
      <4> QED BY <1>2, <3>1, <4>1, <4>2, Served DEF RendererInv, Serve, app, render
    <3> QED BY <3>2, <3>3
  <2> QED BY <2>2, <2>4, <2>5 DEF BridgeInv
<1>3. ASSUME NEW s \in Strangers, StrangerConnects(s) \/ StrangerSends(s)
      PROVE  BridgeInv'
  <2>1. \A r \in Renderers : wire'[r] = wire[r] /\ answer'[r] = answer[r]
      BY <1>3, BridgeAssumption DEF TypeOK, Clients, StrangerConnects, StrangerSends
  <2>2. \A u \in Strangers : wire'[u].kind # "auth"
      BY <1>3, WireKinds DEF TypeOK, BridgeInv, Clients, StrangerConnects, StrangerSends
  <2>3. UNCHANGED <<app, prefs, render, history>>
      BY <1>3 DEF StrangerConnects, StrangerSends
  <2> QED BY <2>1, <2>2, <2>3 DEF BridgeInv, RendererInv, SavedWasAuthenticated, app, render, history
<1> QED BY <1>1, <1>2, <1>3 DEF Agent, Stranger

\* What a renderer does leaves the others alone.
LEMMA OthersKept ==
    ASSUME IInv, NEW r \in Renderers, BeginRender(r) \/ Rendering(r), ~SaveCrashes(r),
           NEW q \in Renderers, q # r, clean', RendererInv(q)
    PROVE  RendererInv(q)'
<1>1. /\ wire'[q] = wire[q] /\ answer'[q] = answer[q]
      /\ pc'[q] = pc[q] /\ stage'[q] = stage[q]
    BY DEF IInv, TypeOK, Clients, BeginRender, Rendering, Request, RequestFails, Receive,
           CheckSave, Save, SaveFails, Failed, Goto
<1>2. UNCHANGED <<apc, token, authed>>
    BY DEF BeginRender, Rendering, Request, RequestFails, Receive, CheckSave, Save,
           SaveFails, app, history
<1> QED BY <1>1, <1>2 DEF RendererInv

\* A renderer saves the token that its STATUS was answered for.
LEMMA RendererKeeps ==
    ASSUME IInv, NEW r \in Renderers, BeginRender(r) \/ Rendering(r)
    PROVE  BridgeInv'
<1> USE DEF IInv
<1>1. r \in Clients /\ r \notin Strangers
    BY BridgeAssumption DEF Clients
<1>2. CASE SaveCrashes(r)
  <2>1. \A s \in Strangers : wire'[s] = wire[s]
      BY <1>2, BridgeAssumption DEF SaveCrashes, Die, Clients
  <2>2. \A q \in Renderers : RendererInv(q)'
      BY <1>2 DEF SaveCrashes, Die, RendererInv
  <2> QED BY <1>2, <2>1, <2>2 DEF BridgeInv, SavedWasAuthenticated, SaveCrashes, Die, history
<1>3. CASE ~SaveCrashes(r)
  <2>1. \A s \in Strangers : wire'[s] = wire[s]
      BY <1>1, <1>3 DEF TypeOK, Clients, BeginRender, Rendering, Request, RequestFails,
         Receive, CheckSave, Save, SaveFails, Failed, Goto
  <2>2. (clean' => clean) /\ authed' = authed
    <3>1. CASE BeginRender(r)
        BY <3>1 DEF BeginRender
    <3>2. CASE Rendering(r)
      <4>1. UNCHANGED history
          BY <1>3, <3>2 DEF Rendering, Request, RequestFails, Receive, CheckSave, Save, SaveFails
      <4> QED BY <4>1 DEF history
    <3> QED BY <3>1, <3>2
  <2>3. ASSUME clean' PROVE SavedWasAuthenticated'
    <3>1. prefs' = prefs \/ (pc[r] = "save" /\ prefs' = token)
        BY <1>3 DEF BeginRender, Rendering, Request, RequestFails, Receive, CheckSave,
           Save, SaveFails
    <3> QED BY <2>2, <2>3, <3>1 DEF BridgeInv, RendererInv, SavedWasAuthenticated
  <2>4. ASSUME clean' PROVE RendererInv(r)'
    <3>1. RendererInv(r)
        BY <2>2, <2>4 DEF BridgeInv
    <3>2. pc'[r] # "idle" => apc' \in {"up", "gone"}
        BY <1>3, <2>4, <3>1 DEF TypeOK, RendererInv, BeginRender, Rendering, Request,
           RequestFails, Receive, CheckSave, Save, SaveFails, Failed, Goto, app
    <3>3. CASE Request(r)
      <4>1. /\ pc'[r] = "answer" /\ stage'[r] = stage[r] /\ token' = token
            /\ wire'[r] = (IF stage[r] = "HELLO" THEN Hello ELSE Auth(token))
            /\ answer'[r] = "none"
          BY <1>1, <3>3 DEF TypeOK, Request, Goto, app
      <4> QED BY <3>2, <4>1 DEF RendererInv
    <3>4. CASE Receive(r)
      <4>1. pc'[r] # "answer" /\ UNCHANGED <<token, authed>>
          BY <3>4 DEF TypeOK, Receive, Failed, Goto, app, history
      <4>2. pc'[r] # "save"
          BY <3>4 DEF TypeOK, Receive, Failed, Goto
      <4>3. ASSUME pc'[r] = "check"
            PROVE  stage'[r] = "STATUS" /\ token \in authed
        <5>1. Succeeded(r) /\ stage[r] = "STATUS" /\ stage'[r] = "STATUS"
            BY <3>4, <4>3 DEF TypeOK, Receive, Failed, Goto
        <5> QED BY <3>1, <3>4, <5>1 DEF RendererInv, Receive, Succeeded
      <4> QED BY <3>2, <4>1, <4>2, <4>3 DEF RendererInv
    <3>5. CASE BeginRender(r) \/ RequestFails(r) \/ SaveFails(r) \/ Save(r)
      <4>1. pc'[r] \in {"idle", "request"}
          BY <3>5 DEF TypeOK, BeginRender, RequestFails, SaveFails, Save, Failed, Goto
      <4> QED BY <3>2, <4>1 DEF RendererInv
    <3>6. CASE CheckSave(r)
      <4>1. /\ pc'[r] = "request" \/ (pc'[r] = "save" /\ stage'[r] = "STATUS")
            /\ token' = token /\ token \in authed
          BY <3>1, <3>6 DEF TypeOK, CheckSave, Goto, app, RendererInv
      <4> QED BY <2>2, <3>2, <4>1 DEF RendererInv
    <3> QED BY <1>3, <3>3, <3>4, <3>5, <3>6 DEF Rendering
  <2>5. ASSUME clean', NEW q \in Renderers, q # r PROVE RendererInv(q)'
      BY <1>3, <2>2, <2>5, OthersKept DEF BridgeInv
  <2> QED BY <2>1, <2>3, <2>4, <2>5 DEF BridgeInv
<1> QED BY <1>2, <1>3

\* The token is only replaced while no renderer is between the two.
LEMMA ProcessKeeps ==
    ASSUME IInv, Process
    PROVE  BridgeInv'
<1> USE DEF IInv
<1>1. CASE CreateBegin
    BY <1>1 DEF TypeOK, BridgeInv, RendererInv, SavedWasAuthenticated, CreateBegin, agent, render
<1>2. CASE Filling
    BY <1>2 DEF BridgeInv, RendererInv, SavedWasAuthenticated, Filling, agent, render, history
<1>3. CASE CreateEnd
    BY <1>3 DEF BridgeInv, RendererInv, SavedWasAuthenticated, CreateEnd, agent, render, history
<1>4. CASE Destroy
    BY <1>4 DEF BridgeInv, RendererInv, SavedWasAuthenticated, Destroy, agent, render, history
<1>5. CASE Die
  <2>1. \A s \in Strangers : wire'[s] = wire[s]
      BY <1>5, BridgeAssumption DEF Die, Clients
  <2> QED BY <1>5, <2>1 DEF BridgeInv, RendererInv, SavedWasAuthenticated, Die, history
<1> QED BY <1>1, <1>2, <1>3, <1>4, <1>5 DEF Process

LEMMA StepOK == IInv /\ [Next]_vars => IInv'
<1> SUFFICES ASSUME IInv, [Next]_vars PROVE IInv'
    OBVIOUS
<1>1. TypeOK'
    BY TypeStep DEF IInv
<1>2. CASE UNCHANGED vars
    BY <1>1, <1>2 DEF IInv, BridgeInv, RendererInv, SavedWasAuthenticated, vars, app, render, history
<1>3. CASE Next
    BY <1>1, <1>3, AgentKeeps, RendererKeeps, ProcessKeeps DEF Next, IInv
<1> QED BY <1>2, <1>3

\* The strengthened invariant holds of every behaviour.
THEOREM Inductive == Spec => []BridgeInv
<1>1. IInv => BridgeInv
    BY DEF IInv
<1> QED BY <1>1, InitOK, StepOK, PTL DEF Spec

\* bridge_save_authenticated_token saves only tokens an agent has accepted, unless
\* onCreate refilled the token under a renderer or an agent ran without
\* authentication.
THEOREM SavedUnlessRacedHolds == Spec => []SavedUnlessRaced
<1>1. BridgeInv => SavedUnlessRaced
    BY DEF BridgeInv, SavedUnlessRaced
<1> QED BY <1>1, Inductive, PTL

\* authorize: data only goes to a client that sent the agent's own token.
THEOREM DataNeedsTokenHolds == Spec => DataNeedsToken
<1>1. ASSUME IInv, [Next]_vars, NEW c \in Clients, answer[c] # "data", answer'[c] = "data"
      PROVE  mode = "disabled" \/ (c \in Renderers /\ wire[c] = Auth(key))
  <2>1. Serve /\ serving = c
    <3>1. CASE Serve
        BY <1>1, <3>1, Served DEF IInv, TypeOK
    <3>2. CASE UNCHANGED answer
        BY <1>1, <3>2
    <3>3. CASE Stranger \/ Process \/ \E r \in Renderers : BeginRender(r) \/ Rendering(r)
        BY <1>1, <3>3 DEF IInv, TypeOK, Clients, Stranger, StrangerConnects, StrangerSends,
           Process, CreateBegin, Filling, CreateEnd, Destroy, Die, Rendering, BeginRender,
           Request, RequestFails, Receive, CheckSave, Save, SaveFails, SaveCrashes
    <3> QED BY <1>1, <3>1, <3>2, <3>3 DEF Next, Agent, StartAgent, KillAgent, Accept, vars
  <2>2. mode = "disabled" \/ (mode = "required" /\ wire[c] = Auth(key))
      BY <1>1, <2>1, Served, Replies DEF IInv
  <2>3. wire[c] = Auth(key) => c \in Renderers
      BY <1>1, WireKinds DEF IInv, TypeOK, BridgeInv, Clients, Strings, Usable
  <2> QED BY <2>2, <2>3
<1>2. IInv /\ [Next]_vars =>
        [\A c \in Clients : answer[c] # "data" /\ answer'[c] = "data" =>
            mode = "disabled" \/ (c \in Renderers /\ wire[c] = Auth(key))]_vars
    BY <1>1
<1> QED BY <1>2, InitOK, StepOK, PTL DEF Spec, DataNeedsToken

----------------------------------------------------------------------------
(* The backlog                                                             *)

\* Client c connects, and says what it wants at once if it is a renderer.
Joins(c) ==
    /\ ~Connected(c)
    /\ queue' = Append(queue, c) /\ serving' = serving
    /\ answer' = [answer EXCEPT ![c] = "none"]
    /\ \A d \in Clients \ {c} : wire'[d] = wire[d]
    /\ c \in Renderers => wire'[c] # Nothing

\* The connections stay as they are; what was received may be forgotten.
Settled ==
    /\ UNCHANGED <<queue, serving>>
    /\ \A c \in Clients : answer'[c] \in {answer[c], "none"}
    /\ \A r \in Renderers : wire'[r] \in {wire[r], Closed} \/ wire'[r] # Nothing

\* All that can happen to the connections.
LEMMA QueueSteps ==
    ASSUME TypeOK, [Next]_vars
    PROVE  Settled \/ KillAgent \/ Accept \/ Serve \/ \E c \in Clients : Joins(c)
<1>1. CASE UNCHANGED vars
    BY <1>1 DEF vars, agent, Settled
<1>2. CASE StartAgent
    BY <1>2 DEF StartAgent, Settled
<1>3. ASSUME NEW s \in Strangers, StrangerConnects(s)
      PROVE  Joins(s) /\ s \in Clients
    BY <1>3, BridgeAssumption DEF TypeOK, Clients, StrangerConnects, Joins
<1>4. ASSUME NEW s \in Strangers, StrangerSends(s)
      PROVE  Settled
    BY <1>4, BridgeAssumption DEF TypeOK, Clients, StrangerSends, Settled, agent
<1>5. ASSUME NEW r \in Renderers, Request(r)
      PROVE  Joins(r) /\ r \in Clients
  <2>1. token \in Strings
      BY DEF TypeOK
  <2>2. wire'[r] # Nothing
      BY <1>5, <2>1, WireKinds DEF TypeOK, Clients, Request, Hello, Nothing
  <2> QED BY <1>5, <2>2 DEF TypeOK, Clients, Request, Joins
<1>6. ASSUME NEW r \in Renderers, Receive(r)
      PROVE  Settled
    BY <1>6, WireKinds DEF TypeOK, Clients, Receive, Settled, agent
<1>7. ASSUME Die
      PROVE  Settled
    BY <1>7, WireKinds DEF TypeOK, Clients, Die, Settled, agent
<1>8. ASSUME NEW r \in Renderers,
             BeginRender(r) \/ RequestFails(r) \/ CheckSave(r) \/ Save(r) \/ SaveFails(r)
      PROVE  Settled
  <2>1. UNCHANGED <<agent, wire, answer>>
      BY <1>8 DEF BeginRender, RequestFails, CheckSave, Save, SaveFails
  <2> QED BY <2>1 DEF Settled, agent
<1>9. ASSUME NEW r \in Renderers, SaveCrashes(r)
      PROVE  Settled
    BY <1>7, <1>9 DEF SaveCrashes
<1>10. CASE CreateBegin \/ Filling \/ CreateEnd \/ Destroy
    BY <1>10 DEF CreateBegin, Filling, CreateEnd, Destroy, Settled, agent
<1> QED BY <1>1, <1>2, <1>3, <1>4, <1>5, <1>6, <1>7, <1>8, <1>9, <1>10
        DEF Next, Agent, Stranger, Process, Rendering

\* The backlog without its oldest connection, and with one more.
LEMMA Shorter ==
    ASSUME TypeOK, Accept
    PROVE  /\ serving' = queue[1] /\ Len(queue') = Len(queue) - 1
           /\ Len(queue) \in Nat \ {0}
           /\ \A i \in 1 .. Len(queue') : queue'[i] = queue[i + 1]
    BY HeadTailProperties, LenProperties DEF TypeOK, Accept

LEMMA Longer ==
    ASSUME TypeOK, NEW c \in Clients, Joins(c)
    PROVE  /\ Len(queue) \in Nat /\ Len(queue') = Len(queue) + 1
           /\ queue'[Len(queue) + 1] = c
           /\ \A i \in 1 .. Len(queue) : queue'[i] = queue[i]
    BY AppendProperties, LenProperties DEF TypeOK, Joins

\* Nobody is connected twice, and nobody who is connected was answered.
LEMMA QueueStep ==
    ASSUME TypeOK, QueueInv, [Next]_vars
    PROVE  QueueInv'
<1> USE DEF QueueInv
<1>1. CASE Settled
    BY <1>1, WireKinds DEF Settled, ConnectedOnce, OneAnswer, Connected, InQueue, Clients
<1>2. CASE KillAgent
  <2>1. queue' = <<>> /\ Len(queue') = 0 /\ serving' = NoClient
      BY <1>2 DEF KillAgent
  <2> QED BY <2>1, BridgeAssumption DEF ConnectedOnce, OneAnswer, Connected, InQueue
<1>3. CASE Accept
  <2>1. /\ serving' = queue[1] /\ Len(queue') = Len(queue) - 1
        /\ Len(queue) \in Nat \ {0}
        /\ \A i \in 1 .. Len(queue') : queue'[i] = queue[i + 1]
      BY <1>3, Shorter
  <2>2. ConnectedOnce'
      BY <2>1 DEF ConnectedOnce, InQueue
  <2>3. \A c \in Clients : Connected(c)' => Connected(c)
    <3>1. ASSUME NEW c \in Clients, InQueue(c)' PROVE InQueue(c)
        BY <2>1, <3>1 DEF InQueue
    <3>2. InQueue(queue[1])
        BY <2>1 DEF InQueue
    <3> QED BY <2>1, <3>1, <3>2 DEF Connected
  <2>4. answer' = answer /\ wire' = wire
      BY <1>3, Zenon DEF Accept
  <2> QED BY <2>2, <2>3, <2>4 DEF OneAnswer
<1>4. CASE Serve
  <2>1. /\ serving \in Clients /\ serving' = NoClient /\ queue' = queue
        /\ answer' = [answer EXCEPT ![serving] = Reply(wire[serving])]
        /\ wire' = [wire EXCEPT ![serving] = Closed]
      BY <1>4, Served DEF Serve
  <2>2. ASSUME NEW c \in Clients, Connected(c)'
        PROVE  c # serving /\ Connected(c)
      BY <2>1, <2>2, BridgeAssumption DEF ConnectedOnce, Connected, InQueue
  <2>3. ConnectedOnce'
    <3>1. ~InQueue(NoClient)
      <4>1. \A i \in 1 .. Len(queue) : queue[i] \in Clients
          BY ElementOfSeq DEF TypeOK
      <4> QED BY <4>1, BridgeAssumption DEF InQueue
    <3> QED BY <2>1, <3>1 DEF ConnectedOnce, InQueue
  <2>4. (\A c \in Clients : OneAnswer(c))'
      BY <2>1, <2>2 DEF OneAnswer, TypeOK
  <2> QED BY <2>3, <2>4
<1>5. ASSUME NEW c \in Clients, Joins(c)
      PROVE  QueueInv'
  <2>1. /\ Len(queue) \in Nat /\ Len(queue') = Len(queue) + 1
        /\ queue'[Len(queue) + 1] = c
        /\ \A i \in 1 .. Len(queue) : queue'[i] = queue[i]
      BY <1>5, Longer
  <2>2. ~Connected(c) /\ serving' = serving
      BY <1>5 DEF Joins
  <2>3. ConnectedOnce'
      BY <2>1, <2>2 DEF ConnectedOnce, Connected, InQueue
  <2>4. \A d \in Clients : Connected(d)' => d = c \/ Connected(d)
      BY <2>1, <2>2 DEF Connected, InQueue
  <2>5. (\A d \in Clients : OneAnswer(d))'
      BY <1>5, <2>4 DEF OneAnswer, Joins, TypeOK
  <2> QED BY <2>3, <2>5
<1> QED BY <1>1, <1>2, <1>3, <1>4, <1>5, QueueSteps

\* Whoever stays connected has nobody new in front.
LEMMA AheadOnlyShrinks ==
    ASSUME TypeOK, QueueInv, [Next]_vars,
           NEW c \in Clients, Connected(c), Connected(c)'
    PROVE  Ahead(c)' \subseteq Ahead(c)
<1>1. CASE Settled
    BY <1>1 DEF Settled, Ahead
<1>2. CASE KillAgent
    BY <1>2, BridgeAssumption DEF KillAgent, Connected, InQueue
<1>3. CASE Accept
  <2>1. /\ serving' = queue[1] /\ Len(queue') = Len(queue) - 1
        /\ Len(queue) \in Nat \ {0}
        /\ \A i \in 1 .. Len(queue') : queue'[i] = queue[i + 1]
      BY <1>3, Shorter
  <2>2. PICK k \in 1 .. Len(queue) : queue[k] = c
    <3>1. serving = NoClient
        BY <1>3 DEF Accept
    <3> QED BY <3>1, BridgeAssumption DEF Connected, InQueue
  <2>3. ASSUME NEW d \in Clients \ {c}, serving' = d
        PROVE  d \in Ahead(c)
    <3>1. queue[1] = d /\ k # 1
        BY <2>1, <2>2, <2>3
    <3> QED BY <2>1, <2>2, <3>1 DEF Ahead
  <2>4. ASSUME NEW d \in Clients \ {c}, NEW j \in 1 .. Len(queue'), NEW i \in 1 .. (j - 1),
               queue'[i] = d, queue'[j] = c
        PROVE  d \in Ahead(c)
    <3>1. /\ j + 1 \in 1 .. Len(queue) /\ i + 1 \in 1 .. ((j + 1) - 1)
          /\ queue[i + 1] = d /\ queue[j + 1] = c
        BY <2>1, <2>4
    <3> QED BY <3>1 DEF Ahead
  <2> QED BY <2>3, <2>4 DEF Ahead
<1>4. CASE Serve
    BY <1>4, BridgeAssumption DEF Serve, Ahead
<1>5. ASSUME NEW b \in Clients, Joins(b)
      PROVE  Ahead(c)' \subseteq Ahead(c)
  <2>1. /\ Len(queue) \in Nat /\ Len(queue') = Len(queue) + 1
        /\ queue'[Len(queue) + 1] = b
        /\ \A i \in 1 .. Len(queue) : queue'[i] = queue[i]
      BY <1>5, Longer
  <2>2. b # c /\ serving' = serving
      BY <1>5 DEF Joins
  <2>3. ASSUME NEW d \in Clients \ {c}, NEW j \in 1 .. Len(queue'), NEW i \in 1 .. (j - 1),
               queue'[i] = d, queue'[j] = c
        PROVE  d \in Ahead(c)
    <3>1. j \in 1 .. Len(queue) /\ i \in 1 .. Len(queue)
        BY <2>1, <2>2, <2>3
    <3>2. queue[i] = d /\ queue[j] = c
        BY <2>1, <2>3, <3>1
    <3> QED BY <3>1, <3>2 DEF Ahead
  <2> QED BY <2>2, <2>3 DEF Ahead
<1> QED BY <1>1, <1>2, <1>3, <1>4, <1>5, QueueSteps

\* The agent answers each connection once, in the order of the backlog, and no renderer
\* keeps it waiting: all that RenderEnds needs besides fair threads.
THEOREM NobodyIsOvertakenHolds == Spec => NobodyIsOvertaken
<1>1. Init => TypeOK /\ QueueInv
  <2> SUFFICES ASSUME Init PROVE TypeOK /\ QueueInv
      OBVIOUS
  <2>1. queue = <<>> /\ Len(queue) = 0 /\ serving = NoClient
      BY DEF Init
  <2> QED BY <2>1, InitOK, BridgeAssumption
          DEF IInv, QueueInv, ConnectedOnce, OneAnswer, Connected, InQueue
<1>2. TypeOK /\ QueueInv /\ [Next]_vars => (TypeOK /\ QueueInv)'
    BY TypeStep, QueueStep
<1>3. QueueInv => \A c \in Clients : OneAnswer(c)
    BY DEF QueueInv
<1>4. TypeOK /\ QueueInv /\ [Next]_vars =>
        [\A c \in Clients : Connected(c) /\ Connected(c)' => Ahead(c)' \subseteq Ahead(c)]_vars
    BY AheadOnlyShrinks
<1> QED BY <1>1, <1>2, <1>3, <1>4, PTL DEF Spec, NobodyIsOvertaken
====
