---- MODULE DirectTransport ----
(***************************************************************************)
(* The direct transport: an invitation that a zorintrust://connect link    *)
(* leaves in the file direct-transport, written by the Activity process    *)
(* and read, judged and removed by the worker of the :trust process before *)
(* every dial.  Opening, writing, reading and unlinking the file are steps *)
(* of their own.  What follows a handshake is TrustService's concern, as   *)
(* is the RECONNECT command an accepted link ends with (DeepLink there).   *)
(***************************************************************************)
EXTENDS Integers

CONSTANTS
    Links,      \* deep links the Activity can be started with
    MaxAge,     \* longest life of an invitation: 3600 s
    MaxTime,    \* bound: the clock of the phone
    NoFile, Empty, Torn,   \* the file is absent, truncated, or cut short
    Loopback,   \* 127.0.0.1, the end of the USB tunnel
    NoInvite    \* the empty invitation

\* private: the host is a private IPv4 address; sound: the port is in range and
\* the invitation has 32 hexadecimal digits; fits: the mode leaves room for the
\* invitation in the 384-byte frame.
ASSUME TransportAssumption ==
    /\ \A l \in Links :
          /\ {l.private, l.sound, l.fits, l.portable} \subseteq BOOLEAN
          /\ l.expires \in Int
          /\ l.invite # NoInvite
    /\ MaxAge \in Nat /\ MaxTime \in Nat

Clock == 0 .. MaxTime

\* A frame in the file, with the time it was accepted at (history).
Frames == [link : Links, at : Clock]

ASSUME MarkersAssumption ==
    {NoFile, Empty, Torn, Loopback} \cap Frames = {} /\ Loopback # NoFile

VARIABLES
    clock,      \* CLOCK_REALTIME, which the owner may set
    file,       \* what the path direct-transport leads to
    \* the Activity
    apc,        \* where trust_set_direct_endpoint is
    draft,      \* the frame it is about to write
    linked,     \* the file it has open is still the one at the path
    \* the worker
    pc,         \* where trust_auth_session is
    read,       \* what it has read from the file
    peer,       \* the address it dials, or is connected to
    portable,   \* endpoint_portable
    invite,     \* endpoint_invite
    label       \* g_trust_transport

activity == <<apc, draft, linked>>
dial == <<read, peer, portable, invite, label>>
vars == <<clock, file, activity, pc, dial>>

\* Both sides only ever hold frames that were accepted, or markers.
TypeOK ==
    /\ clock \in Clock
    /\ file \in Frames \cup {NoFile, Empty, Torn}
    /\ apc \in {"idle", "open", "write"}
    /\ draft \in Frames \cup {Torn, NoFile}
    /\ linked \in BOOLEAN
    /\ pc \in {"top", "judge", "clear", "connect", "fallback", "open"}
    /\ read \in Frames \cup {NoFile, Torn}
    /\ peer \in Frames \cup {Loopback}
    /\ portable \in BOOLEAN
    /\ invite \in {l.invite : l \in Links} \cup {NoInvite}
    /\ label \in {"USB / ADB", "DIRECT LAN", "DIRECT LAN / PORTABLE"}

----------------------------------------------------------------------------
(* The Activity                                                            *)

\* Slip: a link may name any time in the future.
AcceptableForever(l) ==
    /\ l.private /\ l.sound
    /\ l.expires > clock

\* The checks of trust_set_direct_endpoint.
Acceptable(l) ==
    /\ l.private /\ l.sound
    /\ l.expires > clock /\ l.expires <= clock + MaxAge

\* snprintf cuts a frame that does not fit before the invitation ends.
AcceptLink ==
    /\ apc = "idle"
    /\ \E l \in Links :
          /\ Acceptable(l)
          /\ draft' = IF l.fits THEN [link |-> l, at |-> clock] ELSE Torn
    /\ apc' = "open"
    /\ UNCHANGED <<clock, file, linked, pc, dial>>

\* O_CREAT | O_TRUNC.
OpenFile ==
    /\ apc = "open"
    /\ file' = Empty
    /\ linked' = TRUE
    /\ apc' = "write"
    /\ UNCHANGED <<clock, draft, pc, dial>>

\* The data goes to the file that was opened, which may have lost its name.
WriteFile ==
    /\ apc = "write"
    /\ file' = IF linked THEN draft ELSE file
    /\ apc' = "idle"
    /\ draft' = NoFile
    /\ UNCHANGED <<clock, linked, pc, dial>>

\* A full disk, or the death of the Activity: part of the frame is there, or none.
WriteCutShort ==
    /\ apc = "write"
    /\ file' \in IF linked THEN {Empty, Torn} ELSE {file}
    /\ apc' = "idle"
    /\ draft' = NoFile
    /\ UNCHANGED <<clock, linked, pc, dial>>

----------------------------------------------------------------------------
(* The worker: trust_get_endpoint and the connection it is for              *)

DialLoopback ==
    /\ peer' = Loopback /\ portable' = FALSE /\ invite' = NoInvite
    /\ label' = "USB / ADB"

\* A file that is absent or empty means the USB tunnel.
ReadFile ==
    /\ pc = "top"
    /\ DialLoopback
    /\ IF file \in {NoFile, Empty}
       THEN read' = NoFile /\ pc' = "connect"
       ELSE read' = file /\ pc' = "judge"
    /\ UNCHANGED <<clock, file, activity>>

\* A frame that was cut short has no invitation, or one of fewer than 32 digits.
Usable ==
    /\ read # Torn
    /\ read.link.private /\ read.link.sound
    /\ read.link.expires > clock

JudgeUsable ==
    /\ pc = "judge"
    /\ Usable
    /\ peer' = read
    /\ portable' = read.link.portable
    /\ invite' = read.link.invite
    /\ label' = IF read.link.portable THEN "DIRECT LAN / PORTABLE" ELSE "DIRECT LAN"
    /\ pc' = "connect"
    /\ UNCHANGED <<clock, file, activity, read>>

JudgeUnusable ==
    /\ pc = "judge"
    /\ ~Usable
    /\ pc' = "clear"
    /\ UNCHANGED <<clock, file, activity, dial>>

\* clock_gettime fails: the file is left alone and the tunnel is dialled.
JudgeNoClock ==
    /\ pc = "judge"
    /\ read # Torn
    /\ pc' = "connect"
    /\ UNCHANGED <<clock, file, activity, dial>>

Unlink == file' = NoFile /\ linked' = FALSE

\* Slip: an unusable invitation is ignored and stays.
ClearKeepsFile ==
    /\ pc = "clear"
    /\ pc' = "connect"
    /\ UNCHANGED <<clock, file, activity, dial>>

\* trust_clear_direct_endpoint: whatever the path leads to by now goes.
Clear ==
    /\ pc = "clear"
    /\ Unlink
    /\ pc' = "connect"
    /\ UNCHANGED <<clock, apc, draft, dial>>

Connected ==
    /\ pc \in {"connect", "fallback"}
    /\ pc' = "open"
    /\ UNCHANGED <<clock, file, activity, dial>>

\* Slip: the fallback changes only the address.
ConnectFailsOver ==
    /\ pc = "connect" /\ peer # Loopback
    /\ peer' = Loopback
    /\ pc' = "fallback"
    /\ UNCHANGED <<clock, file, activity, read, portable, invite, label>>

\* The invited host does not answer: the USB tunnel is tried at once, without
\* the invitation; the file stays for the next attempt.
ConnectFallsBack ==
    /\ pc = "connect" /\ peer # Loopback
    /\ DialLoopback
    /\ pc' = "fallback"
    /\ UNCHANGED <<clock, file, activity, read>>

ConnectFails ==
    /\ pc \in {"connect", "fallback"} /\ peer = Loopback
    /\ pc' = "top"
    /\ UNCHANGED <<clock, file, activity, dial>>

\* The handshake fails or the session ends.
Closed ==
    /\ pc = "open"
    /\ pc' = "top"
    /\ UNCHANGED <<clock, file, activity, dial>>

\* FORGET of a portable host takes its invitation with it.
ForgetPortable ==
    /\ pc = "top"
    /\ Unlink
    /\ UNCHANGED <<clock, apc, draft, pc, dial>>

\* Time passes, and the owner sets the clock.
SetClock ==
    /\ clock' \in Clock
    /\ UNCHANGED <<file, activity, pc, dial>>

----------------------------------------------------------------------------

Init ==
    /\ clock \in Clock
    /\ file = NoFile
    /\ apc = "idle" /\ draft = NoFile /\ linked = FALSE
    /\ pc = "top" /\ read = NoFile
    /\ peer = Loopback /\ portable = FALSE /\ invite = NoInvite /\ label = "USB / ADB"

Activity == AcceptLink \/ OpenFile \/ WriteFile \/ WriteCutShort

\* Steps the worker takes by itself; a connect call returns with one result or
\* the other.
Dialing ==
    \/ ReadFile \/ JudgeUsable \/ JudgeUnusable \/ JudgeNoClock \/ Clear
    \/ Connected \/ ConnectFallsBack \/ ConnectFails

Next == Activity \/ Dialing \/ Closed \/ ForgetPortable \/ SetClock

Spec == Init /\ [][Next]_vars

\* The worker runs and clock_gettime works when it has to.
LiveSpec ==
    /\ Spec
    /\ WF_vars(Dialing)
    /\ WF_vars(OpenFile \/ WriteFile \/ WriteCutShort)
    /\ SF_vars(JudgeUsable \/ JudgeUnusable)

----------------------------------------------------------------------------
(* Properties                                                              *)

\* README.md: the invitation goes into the first frame sent to the host that
\* handed it out.  The connection it is sent over is the one to the host of the
\* portable link it came with, never the USB tunnel tried instead; and the
\* transport shown to the user is the one in use, whichever address answered.
DialIsConsistent ==
    pc = "open" =>
        /\ portable /\ invite # NoInvite =>
              peer # Loopback /\ peer.link.portable /\ peer.link.invite = invite
        /\ label = CASE peer = Loopback -> "USB / ADB"
                      [] peer # Loopback /\ portable -> "DIRECT LAN / PORTABLE"
                      [] OTHER -> "DIRECT LAN"

\* verify_portable_transport.py: "private expiring endpoint".  Apart from the USB
\* tunnel only a private address is dialled, no later than MaxAge after its link
\* was accepted, whatever was torn, replaced or removed in the file meanwhile and
\* however the clock was set.
DialsOnlyFreshLinks ==
    [][pc = "judge" /\ peer' # Loopback =>
          /\ peer'.link.private
          /\ clock < peer'.link.expires
          /\ peer'.link.expires <= peer'.at + MaxAge]_vars

\* Once every link has run out, no invitation stays in the file, unless one
\* connection keeps the worker from ever dialling again.
ExpiredInvitationGoes ==
    <>[](\A l \in Links : clock >= l.expires)
        => <>[](file \in {NoFile, Empty}) \/ <>[](pc = "open")

\* The inductive invariant behind these: the address, the flag, the invitation
\* and the label are always changed together, and every frame in the file or in
\* the buffer was acceptable when it was written.
Fresh(f) == f.link.private /\ f.link.expires <= f.at + MaxAge

FreshInv == \A f \in {file, draft, read, peer} : f \in Frames => Fresh(f)

DialInv ==
    /\ IF peer = Loopback
       THEN ~portable /\ invite = NoInvite /\ label = "USB / ADB"
       ELSE /\ portable = peer.link.portable /\ invite = peer.link.invite
            /\ label = IF portable THEN "DIRECT LAN / PORTABLE" ELSE "DIRECT LAN"
    /\ peer \in {Loopback, read}
    /\ pc = "judge" => read # NoFile /\ peer = Loopback
    /\ pc \in {"clear", "fallback"} => peer = Loopback

TransportInv == FreshInv /\ DialInv
====
