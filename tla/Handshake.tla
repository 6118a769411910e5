---- MODULE Handshake ----
(***************************************************************************)
(* What the worker reads from the connection it has dialled.  A stream     *)
(* knows no frames: recv returns what has arrived so far, and the ends are *)
(* found by trust_recv_frame in the handshake and, by another rule, by     *)
(* trust_recv_session_message in the session.  The first rule also stops   *)
(* one character after any END, at the end of a value or in the middle of  *)
(* it.  So a message is a sequence of parts: a part ends with its line, or *)
(* one character after an END within the line, and the rest of that line   *)
(* is a part of its own.  Where else a piece ends makes no difference;     *)
(* the line feed an END line may leave behind when lines end in CR LF is   *)
(* an empty line, which no rule looks at.  What is behind the end of a     *)
(* message stays in the stream.  DirectTransport's Closed stands for every *)
(* early return, those for a closed or an overlong stream included.        *)
(***************************************************************************)
EXTENDS DirectTransport, SequencesExt

CONSTANTS
    Hellos,     \* what a workstation greets with
    Verdicts,   \* what it answers to the phone's proof
    Tails       \* parts of a value after which the text ends one character after END

\* What the stream is made of: the lines of the session and the parts of the handshake.
Lines == {"PONG", "PROOF_REQUEST", "END"} \cup UNION {Range(m) : m \in Hellos \cup Verdicts}

\* The END line ends a message; no other part is that line.
ASSUME HandshakeAssumption ==
    /\ "END" \notin Tails
    /\ \A m \in Hellos \cup Verdicts :
          /\ m \in Seq(Lines)
          /\ \A i \in 1 .. Len(m) : m[i] = "END" <=> i = Len(m)

VARIABLES
    stage,      \* the message the worker waits for, or the poll it is to send
    inbox,      \* parts sent and not read
    frame,      \* parts read for this message
    whole,      \* the receiving function has returned
    due,        \* the workstation has to say something
    cut         \* history: the greeting was judged before it had been read to its end,
                \* or the verdict with more to come than its END line

stream == <<stage, inbox, frame, whole, due, cut>>
handshakeVars == <<vars, stream>>

InHandshake == stage \in {"hello", "auth"}
InSession == stage \in {"answer", "pong"}

----------------------------------------------------------------------------

\* trust_recv_frame: END is a line after another, or the text read so far ends one
\* character after END: the END line comes first, or a value has END in it.
FrameEnds(lines) ==
    \/ \E i \in 2 .. Len(lines) : lines[i] = "END"
    \/ Last(lines) \in Tails \cup {"END"}

\* trust_recv_session_message.
MessageEnds(lines) ==
    \/ \E i \in 2 .. Len(lines) : lines[i] = "END"
    \/ "PONG" \in Range(lines)

\* The next message is waited for, after something was sent that asks for it.
Await(next, asks) ==
    /\ stage' = next /\ due' = asks
    /\ frame' = <<>> /\ whole' = FALSE

\* A new connection; the workstation speaks first.
Dialled ==
    /\ Connected
    /\ Await("hello", TRUE)
    /\ inbox' = <<>> /\ cut' = FALSE

HangUp ==
    /\ Closed
    /\ Await("none", FALSE)
    /\ inbox' = <<>> /\ cut' = FALSE

Sayings ==
    CASE stage = "hello" -> Hellos
      [] stage = "auth" -> Verdicts
      [] stage = "answer" -> {<<"PONG">>, <<"PROOF_REQUEST", "END">>}
      [] OTHER -> {<<"PONG">>}

\* The workstation says nothing that it is not asked for.
Speak ==
    /\ due
    /\ \E m \in Sayings : inbox' = inbox \o m
    /\ due' = FALSE
    /\ UNCHANGED <<stage, frame, whole, cut>>

\* One turn of either receiving loop.
Receive ==
    /\ InHandshake \/ InSession
    /\ ~whole
    /\ \E n \in 1 .. Len(inbox) :
          /\ frame' = frame \o SubSeq(inbox, 1, n)
          /\ inbox' = SubSeq(inbox, n + 1, Len(inbox))
    /\ whole' = IF InHandshake THEN FrameEnds(frame') ELSE MessageEnds(frame')
    /\ UNCHANGED <<stage, due, cut>>

\* All that the workstation has to say has been read.
Heard == ~due /\ inbox = <<>>

\* The key is trusted: the phone proves its own, with the invitation if there is one.
HelloTaken ==
    /\ stage = "hello" /\ whole
    /\ "HOST_PUB" \in Range(frame)
    /\ Await("auth", TRUE)
    /\ cut' = ~Heard
    /\ UNCHANGED inbox

\* Any other verdict closes the connection.
AuthTaken ==
    /\ stage = "auth" /\ whole
    /\ {"AUTH_OK", "HOST_SIG"} \subseteq Range(frame)
    /\ Await("poll", FALSE)
    /\ cut' = (cut \/ inbox \notin {<<>>, <<"END">>})
    /\ UNCHANGED inbox

SendPoll ==
    /\ stage = "poll"
    /\ Await("answer", TRUE)
    /\ UNCHANGED <<inbox, cut>>

\* The result of a proof request is sent, and PONG must follow it.
RequestTaken ==
    /\ stage = "answer" /\ whole
    /\ "PROOF_REQUEST" \in Range(frame)
    /\ Await("pong", TRUE)
    /\ UNCHANGED <<inbox, cut>>

PongTaken ==
    /\ InSession /\ whole
    /\ "PONG" \in Range(frame)
    /\ stage = "answer" => "PROOF_REQUEST" \notin Range(frame)
    /\ Await("poll", FALSE)
    /\ UNCHANGED <<inbox, cut>>

----------------------------------------------------------------------------

HandshakeInit ==
    /\ Init
    /\ stage = "none" /\ inbox = <<>> /\ frame = <<>>
    /\ whole = FALSE /\ due = FALSE /\ cut = FALSE

Conversation ==
    Speak \/ Receive \/ HelloTaken \/ AuthTaken \/ SendPoll \/ RequestTaken \/ PongTaken

\* Everything but the two ends of a connection.
Elsewhere ==
    \/ Activity \/ ForgetPortable \/ SetClock
    \/ ReadFile \/ JudgeUsable \/ JudgeUnusable \/ JudgeNoClock \/ Clear
    \/ ConnectFallsBack \/ ConnectFails

HandshakeNext ==
    \/ Dialled \/ HangUp
    \/ Elsewhere /\ UNCHANGED stream
    \/ Conversation /\ UNCHANGED vars

HandshakeSpec == HandshakeInit /\ [][HandshakeNext]_handshakeVars

\* As LiveSpec; nothing more is expected of the workstation.
HandshakeLiveSpec ==
    /\ HandshakeSpec
    /\ WF_vars(Dialing)
    /\ WF_vars(OpenFile \/ WriteFile \/ WriteCutShort)
    /\ SF_vars(JudgeUsable \/ JudgeUnusable)

----------------------------------------------------------------------------
(* Properties                                                              *)

\* However the stream is cut into pieces, a message is judged when it has been read to its
\* end, unless in the handshake a piece ended one character after an END in a value
\* (trust_recv_frame).  A verdict may leave its END line in the stream, which does not bring
\* the session out of step with the polls, whichever pieces the answers come in.  What else
\* a greeting or a verdict left behind may: the rest of a POLICY value with its END line can
\* end trust_recv_session_message before PONG is read, and the session is then given up.
JudgedWhenHeard ==
    whole =>
        \/ Heard
        \/ InHandshake /\ Last(frame) \in Tails
        \/ cut

\* The inductive invariant behind it.  In the handshake the only END line is the last part
\* of the stream.
FrameInv ==
    /\ due => frame = <<>> /\ inbox = <<>>
    /\ inbox # <<>> => \A i \in 1 .. Len(frame) : frame[i] # "END"
    /\ \A i \in 1 .. Len(inbox) : inbox[i] = "END" <=> i = Len(inbox)
    /\ whole => frame # <<>> /\ FrameEnds(frame)

\* In the session one END line may be left over, and is the first to be read.
MessageInv ==
    /\ due => Len(frame) + Len(inbox) <= 1 /\ Range(frame) \cup Range(inbox) \subseteq {"END"}
    /\ inbox # <<>> =>
          \A i \in 1 .. Len(frame) : frame[i] # "PONG" /\ (frame[i] = "END" => i = 1)
    /\ \A i \in 1 .. Len(inbox) - 1 :
          inbox[i] # "PONG" /\ (inbox[i] = "END" => i = 1 /\ frame = <<>>)
    /\ whole => MessageEnds(frame)

StreamInv ==
    /\ inbox \in Seq(Lines) /\ frame \in Seq(Lines)
    /\ whole \in BOOLEAN /\ due \in BOOLEAN
    /\ due \/ whole => InHandshake \/ InSession
    /\ ~cut =>
          /\ InHandshake => FrameInv
          /\ stage = "poll" => inbox \in {<<>>, <<"END">>}
          /\ InSession => MessageInv
====
