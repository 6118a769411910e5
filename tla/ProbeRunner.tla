---- MODULE ProbeRunner ----
(***************************************************************************)
(* Risky system calls are probed in a child process: run_child_syscall of  *)
(* the Activity and run_probe_kind of the agent.  A runner opens a pipe,   *)
(* forks, closes its writing end, reads the child's result, and reaps the  *)
(* child.  In the Activity several threads may do so at the same time (one *)
(* draws the SANDBOX page, another collects the full report), and a fork   *)
(* copies every descriptor the process has open, other runners' pipes      *)
(* included: O_CLOEXEC does not help where nothing is executed.            *)
(***************************************************************************)

CONSTANT Runners      \* threads that run probes

VARIABLES
    pc,        \* where each runner is
    open,      \* pipe ends the process has open
    pipe,      \* what is in each runner's pipe
    child,     \* each runner's child, with the pipe ends it holds
    got,       \* what the runner has read, until it returns
    verdict,   \* the text it returns, by its kind
    fate       \* history: what really became of the latest child

vars == <<pc, open, pipe, child, got, verdict, fate>>

Ends == Runners \X {"read", "write"}
PipeOf(r) == {r} \X {"read", "write"}
Results == {"ok", "errno"}
NoChild == [at |-> "none", fds |-> {}]

\* Runners and children stay inside the statements of their functions, and every
\* path of a probe returns one of the texts its caller can show.
TypeOK ==
    /\ pc \in [Runners -> {"idle", "fork", "parent", "read", "wait"}]
    /\ open \subseteq Ends
    /\ pipe \in [Runners -> Results \cup {"empty"}]
    /\ child \in [Runners -> [at : {"none", "syscall", "write", "exit", "exited", "killed"},
                              fds : SUBSET Ends]]
    /\ got \in [Runners -> Results \cup {"empty"}]
    /\ verdict \in [Runners -> Results \cup {"none", "signal", "no result", "pipe errno",
                                             "fork errno", "wait errno"}]
    /\ fate \in [Runners -> Results \cup {"none", "signal"}]

----------------------------------------------------------------------------
(* The runner                                                              *)

Pipe(r) ==
    /\ pc[r] = "idle"
    /\ open' = open \cup PipeOf(r)
    /\ pipe' = [pipe EXCEPT ![r] = "empty"]
    /\ verdict' = [verdict EXCEPT ![r] = "none"]
    /\ fate' = [fate EXCEPT ![r] = "none"]
    /\ pc' = [pc EXCEPT ![r] = "fork"]
    /\ UNCHANGED <<child, got>>

PipeFails(r) ==
    /\ pc[r] = "idle"
    /\ verdict' = [verdict EXCEPT ![r] = "pipe errno"]
    /\ fate' = [fate EXCEPT ![r] = "none"]
    /\ UNCHANGED <<pc, open, pipe, child, got>>

\* The child has what the process has, and closes its own reading end.
Fork(r) ==
    /\ pc[r] = "fork"
    /\ child' = [child EXCEPT ![r] = [at |-> "syscall", fds |-> open \ {<<r, "read">>}]]
    /\ pc' = [pc EXCEPT ![r] = "parent"]
    /\ UNCHANGED <<open, pipe, got, verdict, fate>>

ForkFails(r) ==
    /\ pc[r] = "fork"
    /\ open' = open \ PipeOf(r)
    /\ verdict' = [verdict EXCEPT ![r] = "fork errno"]
    /\ pc' = [pc EXCEPT ![r] = "idle"]
    /\ UNCHANGED <<pipe, child, got, fate>>

\* Slip: the runner keeps the end it does not write to.
CloseWriteKept(r) ==
    /\ pc[r] = "parent"
    /\ pc' = [pc EXCEPT ![r] = "read"]
    /\ UNCHANGED <<open, pipe, child, got, verdict, fate>>

CloseWrite(r) ==
    /\ pc[r] = "parent"
    /\ open' = open \ {<<r, "write">>}
    /\ pc' = [pc EXCEPT ![r] = "read"]
    /\ UNCHANGED <<pipe, child, got, verdict, fate>>

\* No process holds the writing end any more.
EndOfFile(r) ==
    /\ <<r, "write">> \notin open
    /\ \A q \in Runners : <<r, "write">> \notin child[q].fds

\* Slip: a read that returns nothing is tried again.
ReadUntilResult(r) ==
    /\ pc[r] = "read"
    /\ pipe[r] # "empty" \/ EndOfFile(r)
    /\ got' = [got EXCEPT ![r] = pipe[r]]
    /\ pipe' = [pipe EXCEPT ![r] = "empty"]
    /\ open' = IF pipe[r] = "empty" THEN open ELSE open \ PipeOf(r)
    /\ pc' = [pc EXCEPT ![r] = IF pipe[r] = "empty" THEN "read" ELSE "wait"]
    /\ UNCHANGED <<child, verdict, fate>>

\* read blocks until there is a result or the end of the file.
Read(r) ==
    /\ pc[r] = "read"
    /\ pipe[r] # "empty" \/ EndOfFile(r)
    /\ got' = [got EXCEPT ![r] = pipe[r]]
    /\ pipe' = [pipe EXCEPT ![r] = "empty"]
    /\ open' = open \ PipeOf(r)
    /\ pc' = [pc EXCEPT ![r] = "wait"]
    /\ UNCHANGED <<child, verdict, fate>>

\* Slip: a result that was written counts whatever became of the child.
VerdictOfPipe(r) ==
    CASE got[r] # "empty" -> got[r]
      [] child[r].at = "killed" -> "signal"
      [] OTHER -> "no result"

\* A signal counts before a result that was written.
Verdict(r) ==
    CASE child[r].at = "killed" -> "signal"
      [] child[r].at = "exited" /\ got[r] # "empty" -> got[r]
      [] OTHER -> "no result"

Ended(r) == child[r].at \in {"exited", "killed"}

\* waitpid blocks until this child has ended.
Wait(r) ==
    /\ pc[r] = "wait" /\ Ended(r)
    /\ verdict' = [verdict EXCEPT ![r] = Verdict(r)]
    /\ got' = [got EXCEPT ![r] = "empty"]
    /\ child' = [child EXCEPT ![r] = NoChild]
    /\ pc' = [pc EXCEPT ![r] = "idle"]
    /\ UNCHANGED <<open, pipe, fate>>

\* ECHILD: where SIGCHLD is ignored the kernel has reaped the child already.
WaitFails(r) ==
    /\ pc[r] = "wait" /\ Ended(r)
    /\ verdict' = [verdict EXCEPT ![r] = "wait errno"]
    /\ got' = [got EXCEPT ![r] = "empty"]
    /\ child' = [child EXCEPT ![r] = NoChild]
    /\ pc' = [pc EXCEPT ![r] = "idle"]
    /\ UNCHANGED <<open, pipe, fate>>

----------------------------------------------------------------------------
(* The child                                                               *)

Syscall(r) ==
    /\ child[r].at = "syscall"
    /\ \E result \in Results : fate' = [fate EXCEPT ![r] = result]
    /\ child' = [child EXCEPT ![r].at = "write"]
    /\ UNCHANGED <<pc, open, pipe, got, verdict>>

Write(r) ==
    /\ child[r].at = "write"
    /\ pipe' = [pipe EXCEPT ![r] = fate[r]]
    /\ child' = [child EXCEPT ![r].at = "exit"]
    /\ UNCHANGED <<pc, open, got, verdict, fate>>

Exit(r) ==
    /\ child[r].at = "exit"
    /\ child' = [child EXCEPT ![r] = [at |-> "exited", fds |-> {}]]
    /\ UNCHANGED <<pc, open, pipe, got, verdict, fate>>

\* The seccomp filter, or Android short of memory.
Killed(r) ==
    /\ child[r].at \in {"syscall", "write", "exit"}
    /\ child' = [child EXCEPT ![r] = [at |-> "killed", fds |-> {}]]
    /\ fate' = [fate EXCEPT ![r] = "signal"]
    /\ UNCHANGED <<pc, open, pipe, got, verdict>>

----------------------------------------------------------------------------

Init ==
    /\ pc = [r \in Runners |-> "idle"]
    /\ open = {}
    /\ pipe = [r \in Runners |-> "empty"]
    /\ child = [r \in Runners |-> NoChild]
    /\ got = [r \in Runners |-> "empty"]
    /\ verdict = [r \in Runners |-> "none"]
    /\ fate = [r \in Runners |-> "none"]

\* What a runner that has begun a probe does next.
Continues(r) ==
    Fork(r) \/ ForkFails(r) \/ CloseWrite(r) \/ Read(r) \/ Wait(r) \/ WaitFails(r)

Runner(r) == Pipe(r) \/ PipeFails(r) \/ Continues(r)

Lives(r) == Syscall(r) \/ Write(r) \/ Exit(r)

Next == \E r \in Runners : Runner(r) \/ Lives(r) \/ Killed(r)

Spec == Init /\ [][Next]_vars

\* Threads and children run, and the probed system calls return.
LiveSpec ==
    /\ Spec
    /\ \A r \in Runners : WF_vars(Continues(r)) /\ WF_vars(Lives(r))

----------------------------------------------------------------------------
(* Properties                                                              *)

\* Whichever call of a probe fails, its runner has closed both ends of its pipe
\* and reaped its child when it returns.
NothingLeaks ==
    \A r \in Runners :
        pc[r] = "idle" => open \cap PipeOf(r) = {} /\ child[r] = NoChild

\* DIAGNOSTIC-MODEL.md: "OK rc=n: the operation succeeded", a signal: "the disposable
\* probe process ended unexpectedly".  What the report says of a probe is what became
\* of that probe's own child, also when another runner's child holds its pipe.
VerdictIsTrue ==
    \A r \in Runners :
        pc[r] = "idle" /\ verdict[r] \in Results \cup {"signal"}
            => fate[r] = verdict[r]

Running(r) == child[r].at \in {"syscall", "write", "exit"}

\* The children that keep a runner's pipe from its end.
Holders(r) == {q \in Runners : <<r, "write">> \in child[q].fds}

\* A runner that is blocked is blocked by a child that runs.
BlockedByRunning(r) ==
    /\ pc[r] = "read" => pipe[r] # "empty" \/ EndOfFile(r)
                           \/ \E q \in Holders(r) : Running(q)
    /\ pc[r] = "wait" => Ended(r) \/ Running(r)

\* Nobody waits for himself or in a circle.  A runner is only ever blocked by a child that
\* runs, never by a descriptor of the process, its own or another thread's; and once it
\* reads, the children that hold its pipe get fewer, however many are forked meanwhile.
NobodyWaitsInVain ==
    /\ [](\A r \in Runners : BlockedByRunning(r))
    /\ [][\A r \in Runners : pc[r] = "read" => Holders(r)' \subseteq Holders(r)]_vars

\* A killed probe does not take the page or the agent with it: no runner waits for
\* an end of file that its own or a foreign descriptor holds back for ever.
EveryProbeEnds == \A r \in Runners : pc[r] # "idle" ~> pc[r] = "idle"
====
