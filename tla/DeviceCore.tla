---- MODULE DeviceCore ----
(***************************************************************************)
(* The first half of render_core: the calls of the CENTER page to the      *)
(* system's Device Core over Binder.  Threads that probe (ProbeRunner) may *)
(* draw that page or collect it for the report instead, two at a time,     *)
(* since the report is collected without the window's buffer.  They share  *)
(* g_core_class, which the first to need it defines, and the proxy of the  *)
(* Core, which the Binder library keeps for as long as someone holds it    *)
(* and ties to one class: associating it with another class object of the  *)
(* same name is refused.                                                   *)
(***************************************************************************)
EXTENDS ProbeRunner

VARIABLES
    at,        \* where each thread is in its calls
    proxy,     \* the proxy it holds; each has the name of a thread, as no more are held
    bound,     \* the class each proxy is associated with
    class,     \* g_core_class, named after the thread that defined it
    mine,      \* the class get_core_class returned to each thread
    held,      \* parcels and status objects each thread owns
    refused,   \* history: a living proxy has refused a thread's class
    overlap    \* history: two threads have found g_core_class empty at once

calls == <<at, proxy, bound, class, mine, held, refused, overlap>>
coreVars == <<vars, calls>>

None == "none"

ASSUME NoneAssumption == None \notin Runners

Objects == {"in", "reply", "status"}

\* Threads stay inside the statements of the calls.
CoreTypeOK ==
    /\ at \in [Runners -> {"away", "ping", "next", "define", "associate",
                           "transact", "header", "status", "value"}]
    /\ proxy \in [Runners -> Runners \cup {None}]
    /\ bound \in [Runners -> Runners \cup {None}]
    /\ class \in Runners \cup {None}
    /\ mine \in [Runners -> Runners \cup {None}]
    /\ held \in [Runners -> SUBSET Objects]
    /\ refused \in BOOLEAN /\ overlap \in BOOLEAN

----------------------------------------------------------------------------
(* render_core                                                             *)

At(r, from, to) == at[r] = from /\ at' = [at EXCEPT ![r] = to]

\* The proxy somebody holds already or, if nobody does or the Core was restarted since,
\* one that nobody holds.
Check(r) ==
    /\ pc[r] = "idle"
    /\ At(r, "away", "ping")
    /\ \E p \in Runners : proxy' = [proxy EXCEPT ![r] = p]
    /\ UNCHANGED <<bound, class, mine, held, refused, overlap>>

\* A proxy that nobody holds any more is forgotten, and its class with it.
Release(r) ==
    /\ proxy' = [proxy EXCEPT ![r] = None]
    /\ bound' = [p \in Runners |-> IF \E q \in Runners : proxy'[q] = p THEN bound[p] ELSE None]
    /\ UNCHANGED <<class, mine, held, refused, overlap>>

PingOk(r) ==
    /\ At(r, "ping", "next")
    /\ UNCHANGED <<proxy, bound, class, mine, held, refused, overlap>>

PingFails(r) == At(r, "ping", "away") /\ Release(r)

\* Whatever became of one call, the next is made.
Drop(r) == At(r, "next", "away") /\ Release(r)

----------------------------------------------------------------------------
(* core_prepare                                                            *)

\* Slip: the class is defined for each call.
UseClassAnew(r) ==
    /\ At(r, "next", "define")
    /\ overlap' = (overlap \/ \E q \in Runners \ {r} : at[q] = "define")
    /\ UNCHANGED <<proxy, bound, class, mine, held, refused>>

\* get_core_class reads g_core_class, which nothing guards.
UseClass(r) ==
    /\ At(r, "next", IF class = None THEN "define" ELSE "associate")
    /\ mine' = [mine EXCEPT ![r] = class]
    /\ overlap' = (overlap \/ (class = None /\ \E q \in Runners \ {r} : at[q] = "define"))
    /\ UNCHANGED <<proxy, bound, class, held, refused>>

Define(r) ==
    /\ At(r, "define", "associate")
    /\ class' = r
    /\ mine' = [mine EXCEPT ![r] = r]
    /\ UNCHANGED <<proxy, bound, held, refused, overlap>>

Prepared(r, to) ==
    /\ At(r, "associate", to)
    /\ mine' = [mine EXCEPT ![r] = None]
    /\ UNCHANGED <<proxy, class, overlap>>

\* The first class a proxy is associated with is its class; prepareTransaction then
\* gives the thread a parcel, or fails.
Associate(r) ==
    /\ \/ Prepared(r, "transact") /\ held' = [held EXCEPT ![r] = @ \cup {"in"}]
       \/ Prepared(r, "next") /\ UNCHANGED held
    /\ bound[proxy[r]] \in {None, mine[r]}
    /\ bound' = [bound EXCEPT ![proxy[r]] = mine[r]]
    /\ UNCHANGED refused

\* The service behind the proxy has died or is another.
AssociateFails(r) ==
    /\ Prepared(r, "next")
    /\ UNCHANGED <<bound, held, refused>>

Refused(r) ==
    /\ Prepared(r, "next")
    /\ bound[proxy[r]] \notin {None, mine[r]}
    /\ refused' = TRUE
    /\ UNCHANGED <<bound, held>>

----------------------------------------------------------------------------
(* core_call_i32, core_call_i64, core_call_string, core_call_policy        *)

Holding(r, objects) == held' = [held EXCEPT ![r] = objects]

\* Only CORE POLICY has arguments; the parcel has to be deleted.
WriteFails(r) ==
    /\ At(r, "transact", "next")
    /\ Holding(r, held[r] \ {"in"})
    /\ UNCHANGED <<proxy, bound, class, mine, refused, overlap>>

\* AIBinder_transact takes the parcel whether it succeeds or not.
Transact(r) ==
    /\ At(r, "transact", "header")
    /\ Holding(r, (held[r] \ {"in"}) \cup {"reply"})
    /\ UNCHANGED <<proxy, bound, class, mine, refused, overlap>>

\* With or without a reply, which is deleted.
TransactFails(r) ==
    /\ At(r, "transact", "next")
    /\ Holding(r, held[r] \ {"in"})
    /\ UNCHANGED <<proxy, bound, class, mine, refused, overlap>>

Header(r) ==
    /\ At(r, "header", "status")
    /\ Holding(r, held[r] \cup {"status"})
    /\ UNCHANGED <<proxy, bound, class, mine, refused, overlap>>

HeaderFails(r) ==
    /\ At(r, "header", "next")
    /\ Holding(r, held[r] \ {"reply"})
    /\ UNCHANGED <<proxy, bound, class, mine, refused, overlap>>

StatusOk(r) ==
    /\ At(r, "status", "value")
    /\ Holding(r, held[r] \ {"status"})
    /\ UNCHANGED <<proxy, bound, class, mine, refused, overlap>>

\* Slip: only the reply is deleted.
StatusErrorKept(r) ==
    /\ At(r, "status", "next")
    /\ Holding(r, held[r] \ {"reply"})
    /\ UNCHANGED <<proxy, bound, class, mine, refused, overlap>>

\* The Core has answered with an error.
StatusError(r) ==
    /\ At(r, "status", "next")
    /\ Holding(r, held[r] \ {"status", "reply"})
    /\ UNCHANGED <<proxy, bound, class, mine, refused, overlap>>

\* Readable or not, the value's parcel is deleted.
Value(r) ==
    /\ At(r, "value", "next")
    /\ Holding(r, held[r] \ {"reply"})
    /\ UNCHANGED <<proxy, bound, class, mine, refused, overlap>>

----------------------------------------------------------------------------

CoreInit ==
    /\ Init
    /\ at = [r \in Runners |-> "away"]
    /\ proxy = [r \in Runners |-> None]
    /\ bound = [r \in Runners |-> None]
    /\ class = None
    /\ mine = [r \in Runners |-> None]
    /\ held = [r \in Runners |-> {}]
    /\ refused = FALSE /\ overlap = FALSE

Prepares(r) == UseClass(r) \/ Define(r) \/ Associate(r) \/ AssociateFails(r) \/ Refused(r)

Calls(r) ==
    \/ WriteFails(r) \/ Transact(r) \/ TransactFails(r)
    \/ Header(r) \/ HeaderFails(r) \/ StatusOk(r) \/ StatusError(r) \/ Value(r)

Core(r) == Check(r) \/ PingOk(r) \/ PingFails(r) \/ Drop(r) \/ Prepares(r) \/ Calls(r)

\* A thread does one or the other; children go on by themselves.
Probes(r) == (at[r] = "away" /\ Runner(r)) \/ Lives(r) \/ Killed(r)

CoreNext ==
    \E r \in Runners : \/ Probes(r) /\ UNCHANGED calls
                       \/ Core(r) /\ UNCHANGED vars

CoreSpec == CoreInit /\ [][CoreNext]_coreVars

\* As LiveSpec; of the Core no answer is expected.
CoreLiveSpec ==
    /\ CoreSpec
    /\ \A r \in Runners : WF_vars(Continues(r)) /\ WF_vars(Lives(r))

----------------------------------------------------------------------------
(* Properties                                                              *)

NothingHeld ==
    \A r \in Runners :
        /\ at[r] \notin {"transact", "header", "status", "value"} => held[r] = {}
        /\ at[r] = "away" => proxy[r] = None

\* Whichever call of a probe fails, and whichever step of a call to the Core on either
\* side of it, a thread that goes on has left no pipe end, child, parcel, status or
\* proxy behind.
NothingStaysBehind == NothingLeaks /\ NothingHeld

\* A living Core refuses a caller only after two threads have found g_core_class empty
\* at the same moment and defined a class each.
RefusedOnlyAfterOverlap == refused => overlap

\* The inductive invariant behind both: where a thread is says what it owns, and
\* without an overlap there is one class, used by all.
Owned(r) ==
    CASE at[r] = "transact" -> {"in"}
      [] at[r] \in {"header", "value"} -> {"reply"}
      [] at[r] = "status" -> {"reply", "status"}
      [] OTHER -> {}

OwnInv ==
    \A r \in Runners :
        /\ held[r] = Owned(r)
        /\ IF at[r] = "away" THEN proxy[r] = None ELSE proxy[r] \in Runners

OneClass ==
    /\ ~refused
    /\ \A r \in Runners :
          /\ bound[r] \in {None, class} /\ mine[r] \in {None, class}
          /\ at[r] = "associate" => mine[r] = class /\ class # None
          /\ at[r] = "define" => class = None /\ \A q \in Runners : at[q] = "define" => q = r

CoreInv == CoreTypeOK /\ OwnInv /\ (~overlap => OneClass)
====
