---- MODULE DirectTransportProofs ----
(***************************************************************************)
(* Where invitations go, and for how long, for every set of links, every   *)
(* setting of the clock and every interleaving of the two processes; and   *)
(* what is read from the connection, however the stream is cut.            *)
(***************************************************************************)
EXTENDS Handshake, SequenceTheorems, TLAPS

\* The initial state is well typed.
LEMMA TypeInit == Init => TypeOK
BY DEF Init, TypeOK

\* A frame has a link and the time it was accepted at.
LEMMA FrameParts ==
    ASSUME NEW f \in Frames
    PROVE  /\ f.link \in Links /\ f.at \in Clock
           /\ f.link.portable \in BOOLEAN
           /\ f.link.invite \in {l.invite : l \in Links}
BY TransportAssumption DEF Frames

\* The markers are not frames.
LEMMA Markers ==
    /\ NoFile \notin Frames /\ Empty \notin Frames
    /\ Torn \notin Frames /\ Loopback \notin Frames
BY MarkersAssumption

\* What the Activity is about to write is a fresh frame, or one cut short.
LEMMA AcceptedFrame ==
    ASSUME clock \in Clock, AcceptLink
    PROVE  draft' = Torn \/ (draft' \in Frames /\ Fresh(draft'))
<1>1. PICK l \in Links :
        /\ Acceptable(l)
        /\ draft' = IF l.fits THEN [link |-> l, at |-> clock] ELSE Torn
  BY Zenon DEF AcceptLink
<1>2. [link |-> l, at |-> clock] \in Frames
  BY Zenon DEF Frames
<1>3. Fresh([link |-> l, at |-> clock])
  BY <1>1 DEF Acceptable, Fresh
<1> QED BY <1>1, <1>2, <1>3, Zenon

\* Steps of the Activity keep the types.
LEMMA TypeActivity ==
    ASSUME TypeOK, Activity
    PROVE  TypeOK'
<1> USE DEF TypeOK, dial
<1>1. CASE AcceptLink
  <2>1. draft' \in Frames \cup {Torn}
    BY <1>1, AcceptedFrame
  <2>2. /\ apc' = "open" /\ clock' = clock /\ file' = file /\ linked' = linked
        /\ pc' = pc /\ read' = read /\ peer' = peer /\ portable' = portable
        /\ invite' = invite /\ label' = label
    BY <1>1, Zenon DEF AcceptLink
  <2>3. draft' \in Frames \cup {Torn, NoFile}
    BY <2>1, Zenon
  <2> QED BY ONLY TypeOK, <2>2, <2>3, ZenonT(30) DEF TypeOK
<1>2. CASE OpenFile
  BY <1>2 DEF OpenFile
<1>3. CASE WriteFile
  BY <1>3 DEF WriteFile
<1>4. CASE WriteCutShort
  BY <1>4 DEF WriteCutShort
<1> QED BY <1>1, <1>2, <1>3, <1>4 DEF Activity

\* Steps of the worker keep the types.
LEMMA TypeWorker ==
    ASSUME TypeOK, TransportInv, Dialing \/ Closed \/ ForgetPortable \/ SetClock
    PROVE  TypeOK'
<1> USE DEF TypeOK, activity, dial
<1>1. CASE ReadFile
  BY <1>1 DEF ReadFile, DialLoopback
<1>2. CASE JudgeUsable
  <2>1. read \in Frames
    BY <1>2, Markers DEF JudgeUsable, Usable, TransportInv, DialInv
  <2> QED BY <1>2, <2>1, FrameParts DEF JudgeUsable
<1>3. CASE JudgeUnusable \/ JudgeNoClock \/ Connected \/ ConnectFails \/ Closed
  BY <1>3 DEF JudgeUnusable, JudgeNoClock, Connected, ConnectFails, Closed
<1>4. CASE Clear \/ ForgetPortable
  BY <1>4 DEF Clear, ForgetPortable, Unlink
<1>5. CASE ConnectFallsBack
  BY <1>5 DEF ConnectFallsBack, DialLoopback
<1>6. CASE SetClock
  <2>1. UNCHANGED activity /\ UNCHANGED dial /\ file' = file /\ pc' = pc /\ clock' \in Clock
    BY <1>6, Zenon DEF SetClock
  <2>2. /\ apc' = apc /\ draft' = draft /\ linked' = linked
        /\ read' = read /\ peer' = peer /\ portable' = portable
        /\ invite' = invite /\ label' = label
    BY <2>1
  <2> QED BY ONLY TypeOK, <2>1, <2>2, ZenonT(30)
<1> QED BY <1>1, <1>2, <1>3, <1>4, <1>5, <1>6 DEF Dialing

\* Nothing has been accepted or dialled at first.
LEMMA InvInit == Init => TransportInv
BY Markers DEF Init, TransportInv, FreshInv, DialInv

\* Whoever moves a frame moves one that was acceptable when it was accepted.
LEMMA FreshStep ==
    ASSUME TypeOK, TransportInv, [Next]_vars
    PROVE  FreshInv'
<1> USE DEF TransportInv, FreshInv, dial, activity
<1>1. CASE AcceptLink
  <2>1. draft' = Torn \/ (draft' \in Frames /\ Fresh(draft'))
    BY <1>1, AcceptedFrame DEF TypeOK
  <2> QED BY <1>1, <2>1, Markers DEF AcceptLink, Fresh
<1>2. CASE OpenFile \/ WriteFile \/ WriteCutShort
  BY <1>2, Markers DEF OpenFile, WriteFile, WriteCutShort, Fresh
<1>3. CASE ReadFile
  BY <1>3, Markers DEF ReadFile, DialLoopback, Fresh
<1>4. CASE JudgeUsable \/ JudgeUnusable \/ JudgeNoClock
  BY <1>4 DEF JudgeUsable, JudgeUnusable, JudgeNoClock, Fresh
<1>5. CASE Clear \/ ForgetPortable
  BY <1>5, Markers DEF Clear, ForgetPortable, Unlink, Fresh
<1>6. CASE ConnectFallsBack
  BY <1>6, Markers DEF ConnectFallsBack, DialLoopback, Fresh
<1>7. CASE Connected \/ ConnectFails \/ Closed \/ SetClock
  BY <1>7 DEF Connected, ConnectFails, Closed, SetClock, Fresh
<1>8. CASE UNCHANGED vars
  BY <1>8 DEF vars, Fresh
<1> QED BY <1>1, <1>2, <1>3, <1>4, <1>5, <1>6, <1>7, <1>8 DEF Next, Activity, Dialing

\* The address, the flag, the invitation and the label change together.
LEMMA DialStep ==
    ASSUME TypeOK, TransportInv, [Next]_vars
    PROVE  DialInv'
<1> USE DEF TransportInv, DialInv, dial, activity
<1>1. CASE Activity \/ SetClock \/ ForgetPortable \/ UNCHANGED vars
  <2>1. pc' = pc /\ dial' = dial
    BY <1>1, Zenon DEF Activity, AcceptLink, OpenFile, WriteFile, WriteCutShort, SetClock,
                       ForgetPortable, vars
  <2>2. /\ read' = read /\ peer' = peer /\ portable' = portable
        /\ invite' = invite /\ label' = label
    BY <2>1
  <2> QED BY ONLY TransportInv, <2>1, <2>2, Zenon
<1>2. CASE ReadFile
  BY <1>2, MarkersAssumption DEF ReadFile, DialLoopback
<1>3. CASE JudgeUsable
  <2>1. read \in Frames /\ read # Loopback
    BY <1>3, Markers DEF JudgeUsable, Usable, TypeOK
  <2> QED BY <1>3, <2>1 DEF JudgeUsable
<1>4. CASE JudgeUnusable \/ JudgeNoClock
  <2>1. dial' = dial /\ pc' \in {"connect", "clear"} /\ pc = "judge"
    BY <1>4, Zenon DEF JudgeUnusable, JudgeNoClock
  <2>2. pc' \notin {"judge", "fallback"}
    BY <2>1
  <2>3. /\ read' = read /\ peer' = peer /\ portable' = portable
        /\ invite' = invite /\ label' = label
    BY <2>1
  <2> QED BY ONLY TransportInv, <2>1, <2>2, <2>3, Zenon
<1>5. CASE Clear \/ Connected \/ ConnectFails \/ Closed
  <2>1. dial' = dial /\ pc' \in {"connect", "open", "top"}
    BY <1>5, Zenon DEF Clear, Connected, ConnectFails, Closed
  <2>2. pc' \notin {"judge", "clear", "fallback"}
    BY <2>1
  <2>3. /\ read' = read /\ peer' = peer /\ portable' = portable
        /\ invite' = invite /\ label' = label
    BY <2>1, Zenon
  <2> QED BY <2>2, <2>3, Zenon
<1>6. CASE ConnectFallsBack
  BY <1>6 DEF ConnectFallsBack, DialLoopback
<1> QED BY <1>1, <1>2, <1>3, <1>4, <1>5, <1>6 DEF Next, Dialing

\* The types and the inductive invariant hold of every behaviour.
THEOREM Inductive == Spec => [](TypeOK /\ TransportInv)
<1>1. Init => TypeOK /\ TransportInv
  BY TypeInit, InvInit
<1>2. TypeOK /\ TransportInv /\ [Next]_vars => (TypeOK /\ TransportInv)'
  <2> SUFFICES ASSUME TypeOK, TransportInv, [Next]_vars
               PROVE  (TypeOK /\ TransportInv)'
    OBVIOUS
  <2>1. TypeOK'
    <3>1. CASE UNCHANGED vars
      <4>1. /\ clock' = clock /\ file' = file /\ apc' = apc /\ draft' = draft
            /\ linked' = linked /\ pc' = pc /\ read' = read /\ peer' = peer
            /\ portable' = portable /\ invite' = invite /\ label' = label
        BY <3>1 DEF vars, activity, dial
      <4>2. /\ clock' \in Clock
            /\ file' \in Frames \cup {NoFile, Empty, Torn}
            /\ apc' \in {"idle", "open", "write"}
            /\ draft' \in Frames \cup {Torn, NoFile}
            /\ linked' \in BOOLEAN
        BY <4>1, Zenon DEF TypeOK
      <4>3. /\ pc' \in {"top", "judge", "clear", "connect", "fallback", "open"}
            /\ read' \in Frames \cup {NoFile, Torn}
            /\ peer' \in Frames \cup {Loopback}
        BY <4>1, Zenon DEF TypeOK
      <4>4. /\ portable' \in BOOLEAN
            /\ invite' \in {l.invite : l \in Links} \cup {NoInvite}
            /\ label' \in {"USB / ADB", "DIRECT LAN", "DIRECT LAN / PORTABLE"}
        BY <4>1, Zenon DEF TypeOK
      <4> QED BY <4>2, <4>3, <4>4, Zenon DEF TypeOK
    <3> QED BY <3>1, TypeActivity, TypeWorker DEF Next
  <2> QED BY <2>1, FreshStep, DialStep DEF TransportInv
<1> QED BY <1>1, <1>2, PTL DEF Spec

\* Frames, flags and labels keep their types, however files and clocks are changed.
THEOREM TypeCorrect == Spec => []TypeOK
BY Inductive, PTL

\* An invitation is only ever sent over the connection to the host of its link, and
\* the transport on display is the one in use.
THEOREM DialIsConsistentHolds == Spec => []DialIsConsistent
<1>1. TypeOK /\ TransportInv => DialIsConsistent
  BY DEF TypeOK, TransportInv, DialInv, DialIsConsistent
<1> QED BY <1>1, Inductive, PTL

\* Only private addresses of links that are still valid, and were accepted no
\* more than MaxAge before their end, are dialled.
THEOREM FreshLinksHold == Spec => DialsOnlyFreshLinks
<1>1. TypeOK /\ TransportInv /\ [Next]_vars =>
        [pc = "judge" /\ peer' # Loopback =>
            /\ peer'.link.private
            /\ clock < peer'.link.expires
            /\ peer'.link.expires <= peer'.at + MaxAge]_vars
  <2> SUFFICES ASSUME TypeOK, TransportInv, Next, pc = "judge", peer' # Loopback
               PROVE  /\ peer'.link.private
                      /\ clock < peer'.link.expires
                      /\ peer'.link.expires <= peer'.at + MaxAge
    OBVIOUS
  <2>1. peer = Loopback
    BY DEF TransportInv, DialInv
  <2>2. JudgeUsable
    BY <2>1 DEF Next, Activity, Dialing, AcceptLink, OpenFile, WriteFile, WriteCutShort,
                ReadFile, JudgeUnusable, JudgeNoClock, Clear, Connected, ConnectFallsBack,
                ConnectFails, Closed, ForgetPortable, SetClock, dial
  <2>3. read \in Frames /\ Fresh(read)
    BY <2>2, Markers DEF JudgeUsable, Usable, TypeOK, TransportInv, FreshInv, DialInv
  <2>4. read.link \in Links /\ read.at \in Clock
    BY <2>3, FrameParts
  <2>5. read.link.expires \in Int
    BY <2>4, TransportAssumption
  <2> QED BY <2>2, <2>3, <2>5 DEF JudgeUsable, Usable, Fresh
<1> QED BY <1>1, Inductive, PTL DEF Spec, DialsOnlyFreshLinks

----------------------------------------------------------------------------
(* The stream                                                              *)

\* A step of the connection is a step of the dial or none.
LEMMA HandshakeKeepsDial == [HandshakeNext]_handshakeVars => [Next]_vars
BY DEF HandshakeNext, handshakeVars, Dialled, HangUp, Elsewhere, Next, Dialing

\* What is read from a connection has no part in where it leads.
THEOREM HandshakeImplementsDial == HandshakeSpec => Spec
<1>1. HandshakeInit => Init
  BY DEF HandshakeInit
<1> QED BY <1>1, HandshakeKeepsDial, PTL DEF HandshakeSpec, Spec

\* What recv does to the lines.
LEMMA Piece ==
    ASSUME NEW s \in Seq(Lines), NEW t \in Seq(Lines), NEW n \in 1 .. Len(t)
    PROVE  LET f == s \o SubSeq(t, 1, n)
               r == SubSeq(t, n + 1, Len(t))
           IN  /\ f \in Seq(Lines) /\ r \in Seq(Lines)
               /\ Len(f) = Len(s) + n /\ Len(r) = Len(t) - n
               /\ \A i \in 1 .. Len(s) : f[i] = s[i]
               /\ \A i \in 1 .. n : f[Len(s) + i] = t[i]
               /\ \A i \in 1 .. Len(t) - n : r[i] = t[n + i]
<1> DEFINE p == SubSeq(t, 1, n)
           r == SubSeq(t, n + 1, Len(t))
<1>1. p \in Seq(Lines) /\ Len(p) = n /\ \A i \in 1 .. n : p[i] = t[i]
  BY SubSeqProperties
<1>2. r \in Seq(Lines) /\ Len(r) = Len(t) - n /\ \A i \in 1 .. Len(t) - n : r[i] = t[n + i]
  BY SubSeqProperties
<1>3. /\ s \o p \in Seq(Lines) /\ Len(s \o p) = Len(s) + n
      /\ \A i \in 1 .. Len(s) + n : (s \o p)[i] = IF i <= Len(s) THEN s[i] ELSE p[i - Len(s)]
  BY <1>1, ConcatProperties
<1>4. Len(s) \in Nat
  BY LenProperties
<1>5. \A i \in 1 .. Len(s) : (s \o p)[i] = s[i]
  BY <1>3, <1>4
<1>6. \A i \in 1 .. n : (s \o p)[Len(s) + i] = t[i]
  BY <1>1, <1>3, <1>4
<1> QED BY <1>2, <1>3, <1>5, <1>6

\* Messages are sequences of lines.
LEMMA Said == \A m \in Sayings : m \in Seq(Lines)
<1>1. \A m \in Hellos \cup Verdicts : m \in Seq(Lines)
  BY HandshakeAssumption
<1>2. <<"PONG">> \in Seq(Lines) /\ <<"PROOF_REQUEST", "END">> \in Seq(Lines)
  <2>1. "PONG" \in Lines /\ "PROOF_REQUEST" \in Lines /\ "END" \in Lines
    BY DEF Lines
  <2>2. <<"PONG">> \in Seq(Lines)
    BY <2>1
  <2>3. <<"PROOF_REQUEST", "END">> \in Seq(Lines)
    BY <2>1
  <2> QED BY <2>2, <2>3
<1> QED BY <1>1, <1>2 DEF Sayings

\* Where all has been said, or is about to be, the handshake begins with nothing read.
LEMMA StreamNew ==
    ASSUME NEW next \in {"hello", "auth", "none"}, Await(next, next # "none"), inbox' = <<>>
    PROVE  StreamInv'
<1>1. /\ stage' = next /\ due' = (next # "none") /\ frame' = <<>>
      /\ whole' = FALSE /\ inbox' = <<>>
  BY DEF Await
<1>2. FrameInv'
  BY <1>1 DEF FrameInv
<1>3. next \in {"hello", "auth"} <=> due'
  BY <1>1
<1>4. /\ inbox' \in Seq(Lines) /\ frame' \in Seq(Lines)
      /\ whole' \in BOOLEAN /\ due' \in BOOLEAN
  <2>1. inbox' \in Seq(Lines) /\ frame' \in Seq(Lines)
    BY <1>1
  <2>2. whole' \in BOOLEAN
    BY <1>1
  <2>3. due' \in BOOLEAN
    BY <1>1
  <2> QED BY <2>1, <2>2, <2>3
<1>5. /\ due' \/ whole' => InHandshake' \/ InSession'
      /\ ~(stage' = "auth" /\ ~due') /\ stage' # "poll" /\ ~InSession'
  <2>1. due' => InHandshake'
    BY <1>1, <1>3 DEF InHandshake
  <2>2. ~(stage' = "auth" /\ ~due') /\ stage' # "poll" /\ ~InSession'
    BY <1>1, <1>3 DEF InSession
  <2> QED BY <1>1, <2>1, <2>2
<1> QED BY <1>2, <1>4, <1>5, Zenon DEF StreamInv

LEMMA StreamSpeak ==
    ASSUME StreamInv, Speak
    PROVE  StreamInv'
<1>1. PICK m \in Sayings : inbox' = inbox \o m
  BY DEF Speak
<1>2. m \in Seq(Lines) /\ inbox \in Seq(Lines) /\ frame \in Seq(Lines)
  BY Said DEF StreamInv
<1>3. /\ inbox' \in Seq(Lines) /\ Len(inbox') = Len(inbox) + Len(m)
      /\ \A i \in 1 .. Len(inbox) : inbox'[i] = inbox[i]
      /\ \A i \in 1 .. Len(m) : inbox'[Len(inbox) + i] = m[i]
  BY <1>1, <1>2, ConcatProperties
<1>4. /\ due /\ due' = FALSE
      /\ stage' = stage /\ frame' = frame /\ whole' = whole /\ cut' = cut
  BY DEF Speak
<1>5. InHandshake \/ InSession
  BY <1>4 DEF StreamInv
<1>6. CASE InHandshake
  <2>1. m \in Hellos \cup Verdicts
    BY <1>6 DEF Sayings, InHandshake
  <2>2. ASSUME ~cut PROVE FrameInv'
    <3>1. frame = <<>> /\ inbox = <<>>
      BY <1>4, <1>6, <2>2 DEF StreamInv, FrameInv
    <3>2. inbox' = m
      BY <1>1, <1>2, <3>1, ConcatEmptySeq
    <3>3. \A i \in 1 .. Len(m) : m[i] = "END" <=> i = Len(m)
      BY <2>1, HandshakeAssumption
    <3>4. ~whole
      BY <1>6, <2>2, <3>1 DEF StreamInv, FrameInv
    <3> QED BY <1>4, <3>1, <3>2, <3>3, <3>4 DEF FrameInv
  <2> QED BY <1>2, <1>3, <1>4, <1>6, <2>2 DEF StreamInv, InHandshake, InSession
<1>7. CASE InSession
  <2>1. m \in {<<"PONG">>, <<"PROOF_REQUEST", "END">>}
    BY <1>7 DEF Sayings, InSession
  <2>2. ASSUME ~cut PROVE MessageInv'
    <3>1. /\ Len(frame) + Len(inbox) <= 1
          /\ \A i \in 1 .. Len(frame) : frame[i] = "END"
          /\ \A i \in 1 .. Len(inbox) : inbox[i] = "END"
      <4>1. MessageInv
        BY <1>7, <2>2, Zenon DEF StreamInv
      <4>2. /\ Len(frame) + Len(inbox) <= 1
            /\ Range(frame) \cup Range(inbox) \subseteq {"END"}
        BY <1>4, <4>1, Zenon DEF MessageInv
      <4>3. DOMAIN frame = 1 .. Len(frame) /\ DOMAIN inbox = 1 .. Len(inbox)
        BY <1>2, LenProperties
      <4>4. \A i \in DOMAIN frame : frame[i] = "END"
        BY <4>2, Zenon DEF Range
      <4>5. \A i \in DOMAIN inbox : inbox[i] = "END"
        BY <4>2, Zenon DEF Range
      <4> QED BY <4>2, <4>3, <4>4, <4>5, Zenon
    <3>2. Len(frame) \in Nat /\ Len(inbox) \in Nat
      BY <1>2, LenProperties
    <3>3. \A i \in 1 .. Len(frame) : frame[i] # "PONG" /\ (frame[i] = "END" => i = 1)
      BY <3>1, <3>2
    <3>4. Len(inbox) = 1 => frame = <<>>
      BY <1>2, <3>1, <3>2, EmptySeq
    <3>5. \A i \in 1 .. Len(inbox') - 1 :
            inbox'[i] # "PONG" /\ (inbox'[i] = "END" => i = 1 /\ frame = <<>>)
      <4> SUFFICES ASSUME NEW i \in 1 .. Len(inbox') - 1
                   PROVE  inbox'[i] # "PONG" /\ (inbox'[i] = "END" => i = 1 /\ frame = <<>>)
        OBVIOUS
      <4>1. CASE i <= Len(inbox)
        BY <1>3, <3>1, <3>2, <3>4, <4>1
      <4>2. CASE i > Len(inbox)
        <5>1. /\ Len(m) = 2 /\ i = Len(inbox) + 1 /\ m[1] = "PROOF_REQUEST"
          BY <1>3, <2>1, <3>2, <4>2
        <5> QED BY <1>3, <5>1
      <4> QED BY <3>2, <4>1, <4>2
    <3>6. whole => MessageEnds(frame)
      BY <1>7, <2>2, Zenon DEF StreamInv, MessageInv
    <3> QED BY <1>4, <3>3, <3>5, <3>6 DEF MessageInv, MessageEnds
  <2> QED BY <1>2, <1>3, <1>4, <1>7, <2>2 DEF StreamInv, InHandshake, InSession
<1> QED BY <1>5, <1>6, <1>7

\* The property follows from the invariant.
LEMMA StreamJudged ==
    ASSUME StreamInv, whole
    PROVE  JudgedWhenHeard /\ (~cut => ~due)
<1> SUFFICES ASSUME ~cut PROVE ~due /\ (Heard \/ (InHandshake /\ Last(frame) \in Tails))
  BY DEF JudgedWhenHeard
<1>1. frame \in Seq(Lines) /\ inbox \in Seq(Lines)
  BY DEF StreamInv
<1>2. Len(frame) \in Nat /\ Len(inbox) \in Nat
  BY <1>1, LenProperties
<1>3. CASE InHandshake
  <2>1. FrameInv
    BY <1>3, Zenon DEF StreamInv
  <2>2. frame # <<>> /\ FrameEnds(frame) /\ ~due
    BY <2>1, Zenon DEF FrameInv
  <2>3. CASE inbox # <<>>
    <3>1. \A i \in 1 .. Len(frame) : frame[i] # "END"
      BY <2>1, <2>3 DEF FrameInv
    <3>2. Len(frame) \in 1 .. Len(frame)
      BY <1>1, <1>2, <2>2, EmptySeq
    <3>3. Last(frame) # "END"
      BY <3>1, <3>2 DEF Last
    <3>4. ~\E i \in 2 .. Len(frame) : frame[i] = "END"
      BY <1>2, <3>1
    <3> QED BY <1>3, <2>2, <3>3, <3>4, Zenon DEF FrameEnds
  <2> QED BY <2>2, <2>3, Zenon DEF Heard
<1>4. CASE InSession
  <2>1. MessageInv /\ MessageEnds(frame)
    BY <1>4, Zenon DEF StreamInv, MessageInv
  <2>2. DOMAIN frame = 1 .. Len(frame)
    BY <1>1, LenProperties
  <2>3. PICK i \in 1 .. Len(frame) : frame[i] = "PONG" \/ (i # 1 /\ frame[i] = "END")
    <3>1. CASE "PONG" \in Range(frame)
      BY <2>2, <3>1, Zenon DEF Range
    <3>2. CASE \E j \in 2 .. Len(frame) : frame[j] = "END"
      BY <1>2, <3>2
    <3> QED BY <2>1, <3>1, <3>2, Zenon DEF MessageEnds
  <2>4. inbox = <<>>
    BY <2>1, <2>3 DEF MessageInv
  <2>5. ASSUME due PROVE FALSE
    <3>1. Len(frame) + Len(inbox) <= 1 /\ Range(frame) \subseteq {"END"}
      BY <2>1, <2>5 DEF MessageInv
    <3>2. frame[i] = "END"
      BY <2>2, <3>1, Zenon DEF Range
    <3> QED BY <1>2, <2>3, <3>1, <3>2
  <2> QED BY <2>4, <2>5, Zenon DEF Heard
<1> QED BY <1>3, <1>4, Zenon DEF StreamInv

LEMMA StreamReceive ==
    ASSUME StreamInv, Receive
    PROVE  StreamInv'
<1>1. PICK n \in 1 .. Len(inbox) :
        /\ frame' = frame \o SubSeq(inbox, 1, n)
        /\ inbox' = SubSeq(inbox, n + 1, Len(inbox))
  BY DEF Receive
<1>2. frame \in Seq(Lines) /\ inbox \in Seq(Lines)
  BY DEF StreamInv
<1>3. Len(frame) \in Nat /\ Len(inbox) \in Nat
  BY <1>2, LenProperties
<1>4. /\ frame' \in Seq(Lines) /\ inbox' \in Seq(Lines)
      /\ Len(frame') = Len(frame) + n /\ Len(inbox') = Len(inbox) - n
      /\ \A i \in 1 .. Len(frame) : frame'[i] = frame[i]
      /\ \A i \in 1 .. n : frame'[Len(frame) + i] = inbox[i]
      /\ \A i \in 1 .. Len(inbox) - n : inbox'[i] = inbox[n + i]
  <2> DEFINE f == frame \o SubSeq(inbox, 1, n)
             r == SubSeq(inbox, n + 1, Len(inbox))
  <2>1. /\ f \in Seq(Lines) /\ r \in Seq(Lines)
        /\ Len(f) = Len(frame) + n /\ Len(r) = Len(inbox) - n
        /\ \A i \in 1 .. Len(frame) : f[i] = frame[i]
        /\ \A i \in 1 .. n : f[Len(frame) + i] = inbox[i]
        /\ \A i \in 1 .. Len(inbox) - n : r[i] = inbox[n + i]
    BY <1>2, Piece
  <2>2. frame' = f /\ inbox' = r
    BY <1>1
  <2> HIDE DEF f, r
  <2> QED BY <2>1, <2>2
<1>5. /\ stage' = stage /\ due' = due /\ cut' = cut /\ ~whole
      /\ InHandshake \/ InSession
      /\ whole' = IF InHandshake THEN FrameEnds(frame') ELSE MessageEnds(frame')
  BY DEF Receive
<1>6. inbox # <<>>
  BY <1>2, <1>3, EmptySeq
<1>7. frame' # <<>>
  BY <1>3, <1>4, EmptySeq
<1>8. /\ InHandshake' = InHandshake /\ InSession' = InSession
      /\ (stage = "auth" => InHandshake) /\ stage # "poll" /\ ~(InHandshake /\ InSession)
  BY <1>5 DEF InHandshake, InSession
<1>9. whole' \in BOOLEAN /\ due' \in BOOLEAN
  <2>1. FrameEnds(frame') \in BOOLEAN /\ MessageEnds(frame') \in BOOLEAN
    BY Zenon DEF FrameEnds, MessageEnds
  <2> QED BY <1>5, <2>1, Zenon DEF StreamInv
<1>10. ASSUME ~cut, InHandshake PROVE FrameInv'
  <2>1. FrameInv
    BY <1>10, Zenon DEF StreamInv
  <2>2. /\ \A i \in 1 .. Len(frame) : frame[i] # "END"
        /\ \A i \in 1 .. Len(inbox) : inbox[i] = "END" <=> i = Len(inbox)
        /\ ~due
    BY <1>6, <2>1, Zenon DEF FrameInv
  <2>3. \A i \in 1 .. Len(inbox') : inbox'[i] = "END" <=> i = Len(inbox')
    BY <1>3, <1>4, <2>2
  <2>4. inbox' # <<>> => \A i \in 1 .. Len(frame') : frame'[i] # "END"
    <3> SUFFICES ASSUME inbox' # <<>>, NEW i \in 1 .. Len(frame') PROVE frame'[i] # "END"
      OBVIOUS
    <3>1. n < Len(inbox)
      BY <1>3, <1>4, EmptySeq
    <3>2. CASE i <= Len(frame)
      <4>1. i \in 1 .. Len(frame)
        BY <1>3, <3>2
      <4>2. frame'[i] = frame[i]
        BY <1>4, <4>1
      <4> QED BY <2>2, <4>1, <4>2
    <3>3. CASE i > Len(frame)
      <4>1. i - Len(frame) \in 1 .. n
        BY <1>3, <1>4, <3>3
      <4>2. frame'[i] = inbox[i - Len(frame)]
        BY <1>3, <1>4, <4>1
      <4> QED BY <1>3, <2>2, <3>1, <4>1, <4>2
    <3> QED BY <1>3, <1>4, <3>2, <3>3
  <2> QED BY <1>5, <1>7, <1>10, <2>2, <2>3, <2>4, Zenon DEF FrameInv
<1>11. ASSUME ~cut, InSession PROVE MessageInv'
  <2>1. MessageInv
    BY <1>11, Zenon DEF StreamInv
  <2>2. /\ \A i \in 1 .. Len(frame) : frame[i] # "PONG" /\ (frame[i] = "END" => i = 1)
        /\ \A i \in 1 .. Len(inbox) - 1 :
              inbox[i] # "PONG" /\ (inbox[i] = "END" => i = 1 /\ frame = <<>>)
    BY <1>6, <2>1, Zenon DEF MessageInv
  <2>3. \A i \in 1 .. Len(inbox') - 1 :
          inbox'[i] # "PONG" /\ (inbox'[i] = "END" => i = 1 /\ frame' = <<>>)
    <3> SUFFICES ASSUME NEW i \in 1 .. Len(inbox') - 1
                 PROVE  inbox'[i] # "PONG" /\ inbox'[i] # "END"
      OBVIOUS
    <3>1. n + i \in 1 .. Len(inbox) - 1 /\ n + i # 1 /\ inbox'[i] = inbox[n + i]
      <4>1. Len(inbox') = Len(inbox) - n
        BY <1>4
      <4>2. n + i \in 1 .. Len(inbox) - 1 /\ n + i # 1 /\ i \in 1 .. Len(inbox) - n
        BY ONLY <1>3, <4>1, n \in 1 .. Len(inbox), i \in 1 .. Len(inbox') - 1
      <4> QED BY <1>4, <4>2
    <3> QED BY <2>2, <3>1
  <2>4. inbox' # <<>> =>
          \A i \in 1 .. Len(frame') : frame'[i] # "PONG" /\ (frame'[i] = "END" => i = 1)
    <3> SUFFICES ASSUME inbox' # <<>>, NEW i \in 1 .. Len(frame')
                 PROVE  frame'[i] # "PONG" /\ (frame'[i] = "END" => i = 1)
      OBVIOUS
    <3>1. n < Len(inbox)
      BY <1>3, <1>4, EmptySeq
    <3>2. CASE i <= Len(frame)
      <4>1. i \in 1 .. Len(frame)
        BY <1>3, <3>2
      <4>2. frame'[i] = frame[i]
        BY <1>4, <4>1
      <4> QED BY <2>2, <4>1, <4>2
    <3>3. CASE i > Len(frame)
      <4>1. i - Len(frame) \in 1 .. Len(inbox) - 1 /\ i - Len(frame) \in 1 .. n
        BY <1>3, <1>4, <3>1, <3>3
      <4>2. frame'[i] = inbox[i - Len(frame)]
        BY <1>3, <1>4, <4>1
      <4>3. frame = <<>> => Len(frame) = 0
        BY <1>2, EmptySeq
      <4> QED BY <1>3, <2>2, <4>1, <4>2, <4>3
    <3> QED BY <1>3, <1>4, <3>2, <3>3
  <2>5. due' => /\ Len(frame') + Len(inbox') <= 1
                /\ Range(frame') \cup Range(inbox') \subseteq {"END"}
    <3> SUFFICES ASSUME due
                 PROVE  /\ Len(frame') + Len(inbox') <= 1
                        /\ Range(frame') \cup Range(inbox') \subseteq {"END"}
      BY <1>5
    <3>1. Len(frame) + Len(inbox) <= 1 /\ Range(inbox) \subseteq {"END"}
      BY <2>1, Zenon DEF MessageInv
    <3>2. Len(inbox) = 1 /\ n = 1 /\ Len(frame) = 0
      <4>1. Len(frame) + Len(inbox) <= 1
        BY <3>1
      <4> QED BY ONLY <1>3, <4>1, n \in 1 .. Len(inbox)
    <3>3. /\ DOMAIN inbox = 1 .. Len(inbox)
          /\ DOMAIN frame' = 1 .. Len(frame') /\ DOMAIN inbox' = 1 .. Len(inbox')
      BY <1>2, <1>4, LenProperties
    <3>4. inbox[1] = "END"
      <4>1. 1 \in DOMAIN inbox
        BY <3>2, <3>3
      <4> QED BY <3>1, <4>1, Zenon DEF Range
    <3>5. \A i \in DOMAIN frame' : frame'[i] = "END"
      BY <1>4, <3>2, <3>3, <3>4
    <3>6. \A i \in DOMAIN inbox' : inbox'[i] = "END"
      BY <1>4, <3>2, <3>3
    <3>7. Range(frame') \cup Range(inbox') \subseteq {"END"}
      BY <3>5, <3>6, Zenon DEF Range
    <3> QED BY <1>4, <3>2, <3>7
  <2>6. whole' => MessageEnds(frame')
    BY <1>5, <1>8, <1>11, Zenon
  <2> QED BY <2>3, <2>4, <2>5, <2>6, Zenon DEF MessageInv
<1> QED BY <1>4, <1>5, <1>8, <1>9, <1>10, <1>11, Zenon DEF StreamInv

LEMMA StreamHelloTaken ==
    ASSUME StreamInv, HelloTaken
    PROVE  StreamInv'
<1>1. /\ stage' = "auth" /\ due' = TRUE /\ frame' = <<>> /\ whole' = FALSE
      /\ inbox' = inbox /\ cut' = ~Heard
  BY DEF HelloTaken, Await
<1>2. inbox' \in Seq(Lines) /\ frame' \in Seq(Lines)
  BY <1>1 DEF StreamInv
<1>3. whole' \in BOOLEAN /\ due' \in BOOLEAN
  BY <1>1
<1>4. InHandshake' /\ stage' # "poll" /\ ~InSession'
  BY <1>1 DEF InHandshake, InSession
<1>5. ASSUME ~cut' PROVE FrameInv'
  <2>1. inbox' = <<>>
    BY <1>1, <1>5, Zenon DEF Heard
  <2> QED BY <1>1, <2>1 DEF FrameInv
<1> QED BY <1>1, <1>2, <1>3, <1>4, <1>5, Zenon DEF StreamInv

\* Unless the verdict was cut, nothing is left of it but its END line.
LEMMA StreamAuthTaken ==
    ASSUME StreamInv, AuthTaken
    PROVE  StreamInv'
<1>1. /\ stage' = "poll" /\ due' = FALSE /\ frame' = <<>> /\ whole' = FALSE
      /\ inbox' = inbox /\ cut' = (cut \/ inbox \notin {<<>>, <<"END">>})
  BY DEF AuthTaken, Await
<1>2. inbox \in Seq(Lines) /\ frame \in Seq(Lines)
  BY DEF StreamInv
<1>3. inbox' \in Seq(Lines) /\ frame' \in Seq(Lines) /\ whole' \in BOOLEAN /\ due' \in BOOLEAN
  <2>1. inbox' \in Seq(Lines) /\ frame' \in Seq(Lines)
    BY <1>1, <1>2
  <2>2. whole' \in BOOLEAN
    BY <1>1
  <2>3. due' \in BOOLEAN
    BY <1>1
  <2> QED BY <2>1, <2>2, <2>3
<1>4. ~InHandshake' /\ ~InSession' /\ stage' # "auth"
  BY <1>1 DEF InHandshake, InSession
<1>5. ASSUME ~cut' PROVE inbox' \in {<<>>, <<"END">>}
  BY <1>1, <1>5, Zenon
<1> QED BY <1>1, <1>3, <1>4, <1>5, Zenon DEF StreamInv

LEMMA StreamAsked ==
    ASSUME StreamInv, NEW next \in {"answer", "pong"}, Await(next, TRUE),
           inbox' = inbox, cut' = cut, ~cut => inbox \in {<<>>, <<"END">>}
    PROVE  StreamInv'
<1>1. stage' = next /\ due' = TRUE /\ frame' = <<>> /\ whole' = FALSE
  BY DEF Await
<1>2. inbox' \in Seq(Lines) /\ frame' \in Seq(Lines) /\ whole' \in BOOLEAN /\ due' \in BOOLEAN
  <2>1. inbox' \in Seq(Lines) /\ frame' \in Seq(Lines)
    BY <1>1 DEF StreamInv
  <2>2. whole' \in BOOLEAN
    BY <1>1
  <2>3. due' \in BOOLEAN
    BY <1>1
  <2> QED BY <2>1, <2>2, <2>3
<1>3. InSession' /\ ~InHandshake' /\ stage' # "auth" /\ stage' # "poll"
  BY <1>1 DEF InHandshake, InSession
<1>4. ASSUME ~cut PROVE MessageInv'
  <2>1. inbox' = <<>> \/ inbox' = <<"END">>
    BY <1>4
  <2>2. Len(frame') + Len(inbox') <= 1
    <3>1. Len(inbox') = 0 \/ Len(inbox') = 1
      BY <2>1
    <3>2. Len(frame') = 0
      BY <1>1
    <3> QED BY <3>1, <3>2
  <2>3. Range(frame') \cup Range(inbox') \subseteq {"END"}
    BY <1>1, <2>1 DEF Range
  <2>4. \A i \in 1 .. Len(inbox') - 1 :
          inbox'[i] # "PONG" /\ (inbox'[i] = "END" => i = 1 /\ frame' = <<>>)
    <3>1. Len(inbox') = 0 \/ Len(inbox') = 1
      BY <2>1
    <3>2. \A k \in {0, 1} : \A i \in 1 .. k - 1 : FALSE
      OBVIOUS
    <3>3. \A i \in 1 .. Len(inbox') - 1 : FALSE
      BY <3>1, <3>2, Zenon
    <3> QED BY <3>3, Zenon
  <2>5. \A i \in 1 .. Len(frame') : frame'[i] # "PONG" /\ (frame'[i] = "END" => i = 1)
    BY <1>1
  <2> QED BY <1>1, <2>2, <2>3, <2>4, <2>5, Zenon DEF MessageInv
<1> QED BY <1>2, <1>3, <1>4, Zenon DEF StreamInv

\* A session message is judged with nothing left of it.
LEMMA SessionJudged ==
    ASSUME StreamInv, InSession, whole, ~cut
    PROVE  inbox = <<>>
<1>1. ~InHandshake
  BY DEF InHandshake, InSession
<1> QED BY <1>1, StreamJudged, Zenon DEF JudgedWhenHeard, Heard

LEMMA StreamPongTaken ==
    ASSUME StreamInv, PongTaken
    PROVE  StreamInv'
<1>1. /\ stage' = "poll" /\ due' = FALSE /\ frame' = <<>> /\ whole' = FALSE
      /\ inbox' = inbox /\ cut' = cut /\ InSession /\ whole
  BY DEF PongTaken, Await
<1>2. inbox' \in Seq(Lines) /\ frame' \in Seq(Lines) /\ whole' \in BOOLEAN /\ due' \in BOOLEAN
  <2>1. inbox' \in Seq(Lines) /\ frame' \in Seq(Lines)
    BY <1>1 DEF StreamInv
  <2>2. whole' \in BOOLEAN
    BY <1>1
  <2>3. due' \in BOOLEAN
    BY <1>1
  <2> QED BY <2>1, <2>2, <2>3
<1>3. ~InHandshake' /\ ~InSession' /\ stage' # "auth"
  BY <1>1 DEF InHandshake, InSession
<1>4. ~cut => inbox = <<>>
  BY <1>1, SessionJudged
<1> QED BY <1>1, <1>2, <1>3, <1>4, Zenon DEF StreamInv

LEMMA StreamStep ==
    ASSUME StreamInv, [HandshakeNext]_handshakeVars
    PROVE  StreamInv'
<1>1. CASE UNCHANGED stream
  BY <1>1, Zenon DEF stream, StreamInv, FrameInv, MessageInv, InHandshake, InSession
<1>2. CASE Dialled
  <2>1. Await("hello", TRUE) /\ inbox' = <<>>
    BY <1>2 DEF Dialled
  <2> QED BY <2>1, StreamNew
<1>3. CASE HangUp
  <2>1. Await("none", FALSE) /\ inbox' = <<>>
    BY <1>3 DEF HangUp
  <2> QED BY <2>1, StreamNew
<1>4. CASE Speak
  BY <1>4, StreamSpeak
<1>5. CASE Receive
  BY <1>5, StreamReceive
<1>6. CASE HelloTaken
  BY <1>6, StreamHelloTaken
<1>7. CASE AuthTaken
  BY <1>7, StreamAuthTaken
<1>8. CASE SendPoll
  <2>1. Await("answer", TRUE) /\ inbox' = inbox /\ cut' = cut /\ stage = "poll"
    BY <1>8 DEF SendPoll
  <2>2. ~cut => inbox \in {<<>>, <<"END">>}
    BY <2>1, Zenon DEF StreamInv
  <2> QED BY <2>1, <2>2, StreamAsked
<1>9. CASE RequestTaken
  <2>1. /\ Await("pong", TRUE) /\ inbox' = inbox /\ cut' = cut
        /\ InSession /\ whole
    BY <1>9 DEF RequestTaken, InSession
  <2>2. ~cut => inbox \in {<<>>, <<"END">>}
    BY <2>1, SessionJudged
  <2> QED BY <2>1, <2>2, StreamAsked
<1>10. CASE PongTaken
  BY <1>10, StreamPongTaken
<1> QED BY <1>1, <1>2, <1>3, <1>4, <1>5, <1>6, <1>7, <1>8, <1>9, <1>10
       DEF HandshakeNext, Conversation, handshakeVars

\* However the stream is cut, a message is judged when it has been read to its end, but
\* for pieces that end behind an END in a value of the handshake, and what a greeting or a
\* verdict cut there left behind.
THEOREM JudgedWhenHeardHolds == HandshakeSpec => []JudgedWhenHeard
<1>1. HandshakeInit => StreamInv
  <2> SUFFICES ASSUME HandshakeInit PROVE StreamInv
    OBVIOUS
  <2>1. /\ stage = "none" /\ inbox = <<>> /\ frame = <<>>
        /\ whole = FALSE /\ due = FALSE /\ cut = FALSE
    BY DEF HandshakeInit
  <2>2. inbox \in Seq(Lines) /\ frame \in Seq(Lines) /\ whole \in BOOLEAN /\ due \in BOOLEAN
    <3>1. inbox \in Seq(Lines) /\ frame \in Seq(Lines)
      BY <2>1
    <3>2. whole \in BOOLEAN
      BY <2>1
    <3>3. due \in BOOLEAN
      BY <2>1
    <3> QED BY <3>1, <3>2, <3>3
  <2>3. ~InHandshake /\ ~InSession /\ stage # "auth" /\ stage # "poll"
    BY <2>1 DEF InHandshake, InSession
  <2> QED BY <2>1, <2>2, <2>3, Zenon DEF StreamInv
<1>2. StreamInv /\ [HandshakeNext]_handshakeVars => StreamInv'
  BY StreamStep
<1>3. StreamInv => JudgedWhenHeard
  BY StreamJudged DEF JudgedWhenHeard
<1> QED BY <1>1, <1>2, <1>3, PTL DEF HandshakeSpec
====
