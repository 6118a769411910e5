---- MODULE ProbeRunnerProofs ----
(***************************************************************************)
(* For any number of runners: types, no leaked descriptor, child or parcel,*)
(* verdicts that are true of the probe they are given for, and one class   *)
(* for all calls to the Device Core unless two threads define it at once.  *)
(***************************************************************************)
EXTENDS DeviceCore, TLAPS

\* Where a runner is says whether it has a child and open pipe ends; where its
\* child is says what can be in the pipe and what has been read from it.
RunnerInv(r) ==
    /\ pc[r] \in {"idle", "fork"} <=> child[r].at = "none"
    /\ child[r].at = "none" => child[r] = NoChild
    /\ pc[r] \in {"idle", "wait"} => open \cap PipeOf(r) = {}

ChildInv(r) ==
    /\ pc[r] = "fork" \/ child[r].at = "syscall" => fate[r] = "none"
    /\ child[r].at \in {"none", "syscall", "write"} => got[r] = "empty"
    /\ pc[r] # "idle" /\ child[r].at \in {"none", "syscall", "write"} => pipe[r] = "empty"
    /\ child[r].at \in {"write", "exit", "exited"} => fate[r] \in Results
    /\ child[r].at \in {"exit", "exited"} =>
          pipe[r] \in {"empty", fate[r]} /\ got[r] \in {"empty", fate[r]}
    /\ child[r].at = "killed" => fate[r] = "signal"
    /\ pc[r] = "idle" /\ verdict[r] \in Results \cup {"signal"} => fate[r] = verdict[r]

ProbeInv == TypeOK /\ \A r \in Runners : RunnerInv(r) /\ ChildInv(r)

\* The ends of different pipes are different.
LEMMA PipesApart ==
    ASSUME NEW q, NEW r, q # r, NEW fds
    PROVE  /\ (fds \cup PipeOf(q)) \cap PipeOf(r) = fds \cap PipeOf(r)
           /\ (fds \ PipeOf(q)) \cap PipeOf(r) = fds \cap PipeOf(r)
           /\ (fds \ {<<q, "write">>}) \cap PipeOf(r) = fds \cap PipeOf(r)
BY DEF PipeOf

\* The position of a child changes by itself.
LEMMA ChildMoves ==
    ASSUME TypeOK, NEW r \in Runners,
           NEW to \in {"none", "syscall", "write", "exit", "exited", "killed"},
           child' = [child EXCEPT ![r].at = to]
    PROVE  /\ child'[r].at = to
           /\ child' \in [Runners -> [at : {"none", "syscall", "write", "exit", "exited", "killed"},
                                      fds : SUBSET Ends]]
<1> DEFINE Children == [at : {"none", "syscall", "write", "exit", "exited", "killed"},
                        fds : SUBSET Ends]
<1>1. child \in [Runners -> Children]
  BY DEF TypeOK
<1>2. [child[r] EXCEPT !.at = to].at = to /\ [child[r] EXCEPT !.at = to] \in Children
  BY ONLY <1>1, r \in Runners, to \in {"none", "syscall", "write", "exit", "exited", "killed"}
<1> HIDE DEF Children
<1>3. child'[r].at = to /\ child' \in [Runners -> Children]
  BY <1>1, <1>2
<1> QED BY <1>3 DEF Children

\* Every step of a runner or of its child keeps the types.
LEMMA TypeNext == ProbeInv /\ [Next]_vars => TypeOK'
<1> SUFFICES ASSUME ProbeInv, [Next]_vars PROVE TypeOK'
  OBVIOUS
<1> USE DEF ProbeInv, TypeOK, Results
<1>1. ASSUME NEW r \in Runners, Pipe(r) PROVE TypeOK'
  BY <1>1 DEF Pipe, Ends, PipeOf
<1>2. ASSUME NEW r \in Runners, PipeFails(r) PROVE TypeOK'
  BY <1>2 DEF PipeFails
<1>3. ASSUME NEW r \in Runners, Fork(r) PROVE TypeOK'
  BY <1>3 DEF Fork, Ends
<1>4. ASSUME NEW r \in Runners, ForkFails(r) PROVE TypeOK'
  BY <1>4 DEF ForkFails
<1>5. ASSUME NEW r \in Runners, CloseWrite(r) PROVE TypeOK'
  BY <1>5 DEF CloseWrite
<1>6. ASSUME NEW r \in Runners, Read(r) PROVE TypeOK'
  BY <1>6 DEF Read
<1>7. ASSUME NEW r \in Runners, Wait(r) PROVE TypeOK'
  BY <1>7 DEF Wait, Verdict, NoChild
<1>8. ASSUME NEW r \in Runners, WaitFails(r) PROVE TypeOK'
  BY <1>8 DEF WaitFails, NoChild
<1>9. ASSUME NEW r \in Runners, Syscall(r) PROVE TypeOK'
  <2>1. child' \in [Runners -> [at : {"none", "syscall", "write", "exit", "exited", "killed"},
                                fds : SUBSET Ends]]
    BY ONLY <1>9, TypeOK, ChildMoves DEF Syscall
  <2>2. fate' \in [Runners -> Results \cup {"none", "signal"}]
    BY <1>9 DEF Syscall
  <2> QED BY <1>9, <2>1, <2>2 DEF Syscall
<1>10. ASSUME NEW r \in Runners, Write(r) PROVE TypeOK'
  <2>1. fate[r] \in Results
    BY <1>10 DEF Write, ChildInv
  <2>2. child' \in [Runners -> [at : {"none", "syscall", "write", "exit", "exited", "killed"},
                                fds : SUBSET Ends]]
    BY ONLY <1>10, TypeOK, ChildMoves DEF Write
  <2>3. pipe' \in [Runners -> Results \cup {"empty"}]
    BY ONLY <1>10, <2>1, TypeOK DEF Write, TypeOK
  <2> QED BY <1>10, <2>2, <2>3 DEF Write
<1>11. ASSUME NEW r \in Runners, Exit(r) PROVE TypeOK'
  BY <1>11 DEF Exit
<1>12. ASSUME NEW r \in Runners, Killed(r) PROVE TypeOK'
  BY <1>12 DEF Killed
<1>13. CASE UNCHANGED vars
  BY <1>13 DEF vars
<1> QED
  BY <1>1, <1>2, <1>3, <1>4, <1>5, <1>6, <1>7, <1>8, <1>9, <1>10, <1>11, <1>12, <1>13
  DEF Next, Runner, Continues, Lives

\* A step of one runner or its child leaves the others, their children and their pipes
\* as they are.
LEMMA OthersStay ==
    ASSUME TypeOK, NEW q \in Runners, Runner(q) \/ Lives(q) \/ Killed(q),
           NEW r \in Runners, q # r
    PROVE  /\ pc'[r] = pc[r] /\ child'[r] = child[r] /\ pipe'[r] = pipe[r]
           /\ got'[r] = got[r] /\ verdict'[r] = verdict[r] /\ fate'[r] = fate[r]
           /\ open' \cap PipeOf(r) = open \cap PipeOf(r)
<1>0. /\ DOMAIN pc = Runners /\ DOMAIN child = Runners /\ DOMAIN pipe = Runners
      /\ DOMAIN got = Runners /\ DOMAIN verdict = Runners /\ DOMAIN fate = Runners
  BY DEF TypeOK
<1>1. open' \cap PipeOf(r) = open \cap PipeOf(r)
  <2>1. open' \in {open, open \cup PipeOf(q), open \ PipeOf(q), open \ {<<q, "write">>}}
    BY Zenon DEF Runner, Continues, Pipe, PipeFails, Fork, ForkFails, CloseWrite, Read, Wait, WaitFails,
           Lives, Syscall, Write, Exit, Killed
  <2>2. /\ (open \cup PipeOf(q)) \cap PipeOf(r) = open \cap PipeOf(r)
        /\ (open \ PipeOf(q)) \cap PipeOf(r) = open \cap PipeOf(r)
        /\ (open \ {<<q, "write">>}) \cap PipeOf(r) = open \cap PipeOf(r)
    BY ONLY q # r, PipesApart
  <2> QED BY ONLY <2>1, <2>2
<1>2. CASE Pipe(q) \/ PipeFails(q)
  BY <1>0, <1>1, <1>2 DEF Pipe, PipeFails
<1>3. CASE Fork(q) \/ ForkFails(q)
  BY <1>0, <1>1, <1>3 DEF Fork, ForkFails
<1>4. CASE CloseWrite(q) \/ Read(q)
  BY <1>0, <1>1, <1>4 DEF CloseWrite, Read
<1>5. CASE Wait(q) \/ WaitFails(q)
  BY <1>0, <1>1, <1>5 DEF Wait, WaitFails
<1>6. CASE Lives(q)
  BY <1>0, <1>1, <1>6 DEF Lives, Syscall, Write, Exit
<1>7. CASE Killed(q)
  BY <1>0, <1>1, <1>7 DEF Killed
<1> QED BY <1>2, <1>3, <1>4, <1>5, <1>6, <1>7 DEF Runner, Continues

\* A step of one runner or its child keeps what is said of every runner.
LEMMA RunnerNext ==
    ASSUME ProbeInv, NEW q \in Runners, Runner(q) \/ Lives(q) \/ Killed(q), NEW r \in Runners
    PROVE  RunnerInv(r)'
<1>1. CASE q # r
  <2>1. RunnerInv(r)
    BY DEF ProbeInv
  <2> QED BY <1>1, <2>1, OthersStay DEF RunnerInv, ProbeInv
<1>2. CASE q = r
  <2>0. /\ DOMAIN pc = Runners /\ DOMAIN child = Runners
        /\ RunnerInv(r)
    BY DEF ProbeInv, TypeOK
  <2> USE DEF RunnerInv
  <2>1. CASE Pipe(r) \/ PipeFails(r)
    BY <2>0, <2>1 DEF Pipe, PipeFails
  <2>2. CASE Fork(r)
    BY <2>0, <2>2 DEF Fork
  <2>3. CASE ForkFails(r)
    BY <2>0, <2>3 DEF ForkFails
  <2>4. CASE CloseWrite(r)
    BY <2>0, <2>4 DEF CloseWrite
  <2>5. CASE Read(r)
    BY <2>0, <2>5 DEF Read
  <2>6. CASE Wait(r) \/ WaitFails(r)
    <3>1. /\ child[r].at # "none" /\ pc[r] = "wait" /\ pc'[r] = "idle"
          /\ child'[r] = NoChild /\ open' = open
      BY <2>0, <2>6 DEF Wait, WaitFails, Ended
    <3>2. child'[r].at = "none"
      BY ONLY <3>1 DEF NoChild
    <3> QED BY ONLY <2>0, <3>1, <3>2 DEF RunnerInv
  <2>7. CASE Lives(r) \/ Killed(r)
    <3>1. child[r].at \in {"syscall", "write", "exit"} /\ pc' = pc /\ open' = open
      BY <2>7 DEF Lives, Syscall, Write, Exit, Killed
    <3>2. child'[r].at # "none"
      <4>1. CASE Syscall(r)
        <5>1. child'[r].at = "write"
          BY ONLY <4>1, ProbeInv, r \in Runners, ChildMoves DEF ProbeInv, Syscall
        <5> QED BY ONLY <5>1
      <4>3. CASE Write(r)
        <5>1. child'[r].at = "exit"
          BY ONLY <4>3, ProbeInv, r \in Runners, ChildMoves DEF ProbeInv, Write
        <5> QED BY ONLY <5>1
      <4>2. CASE Exit(r) \/ Killed(r)
        BY <2>0, <4>2 DEF Exit, Killed
      <4> QED BY <2>7, <4>1, <4>2, <4>3 DEF Lives
    <3> QED BY <2>0, <3>1, <3>2
  <2> QED BY <1>2, <2>1, <2>2, <2>3, <2>4, <2>5, <2>6, <2>7 DEF Runner, Continues
<1> QED BY <1>1, <1>2

\* A step of one runner or its child keeps what is said of every child and its pipe.
LEMMA ChildNext ==
    ASSUME ProbeInv, NEW q \in Runners, Runner(q) \/ Lives(q) \/ Killed(q), NEW r \in Runners
    PROVE  ChildInv(r)'
<1>1. CASE q # r
  <2>1. ChildInv(r)
    BY DEF ProbeInv
  <2> QED BY <1>1, <2>1, OthersStay DEF ChildInv, ProbeInv
<1>2. CASE q = r
  <2>0. /\ RunnerInv(r) /\ ChildInv(r)
        /\ child[r].at \in {"none", "syscall", "write", "exit", "exited", "killed"}
        /\ DOMAIN pc = Runners /\ DOMAIN child = Runners /\ DOMAIN pipe = Runners
        /\ DOMAIN got = Runners /\ DOMAIN verdict = Runners /\ DOMAIN fate = Runners
    BY DEF ProbeInv, TypeOK
  <2>00. NoChild.at = "none"
    BY ONLY DEF NoChild
  <2> USE DEF RunnerInv, ChildInv, Results
  <2>1. CASE Pipe(r)
    BY <2>0, <2>1 DEF Pipe, NoChild
  <2>2. CASE PipeFails(r)
    BY <2>0, <2>2 DEF PipeFails
  <2>3. CASE Fork(r)
    BY <2>0, <2>3 DEF Fork
  <2>4. CASE ForkFails(r)
    BY <2>0, <2>4 DEF ForkFails
  <2>5. CASE CloseWrite(r)
    BY <2>0, <2>5 DEF CloseWrite
  <2>6. CASE Read(r)
    BY <2>0, <2>6 DEF Read
  <2>7. CASE Wait(r)
    <3>1. /\ child[r].at \in {"exited", "killed"} /\ child'[r] = NoChild /\ fate' = fate
          /\ pc'[r] = "idle" /\ got'[r] = "empty" /\ verdict'[r] = Verdict(r)
      BY <2>0, <2>7 DEF Wait, Ended
    <3>2. Verdict(r) \in Results \cup {"signal"} => Verdict(r) = fate[r]
      BY <2>0, <3>1 DEF Verdict
    <3>3. child'[r].at = "none"
      BY ONLY <3>1, <2>00
    <3> QED BY ONLY <3>1, <3>2, <3>3 DEF ChildInv, Results
  <2>8. CASE WaitFails(r)
    <3>1. /\ child'[r] = NoChild /\ pc'[r] = "idle" /\ got'[r] = "empty"
          /\ verdict'[r] = "wait errno"
      BY <2>0, <2>8 DEF WaitFails
    <3>2. child'[r].at = "none"
      BY ONLY <3>1, <2>00
    <3> QED BY ONLY <3>1, <3>2 DEF ChildInv, Results
  <2>9. CASE Syscall(r)
    <3>1. /\ child[r].at = "syscall" /\ fate'[r] \in Results
          /\ pc' = pc /\ pipe' = pipe /\ got' = got /\ verdict' = verdict
      BY <2>0, <2>9 DEF Syscall
    <3>2. child'[r].at = "write"
      BY ONLY <2>9, ProbeInv, r \in Runners, ChildMoves DEF Syscall, ProbeInv
    <3> QED BY ONLY <2>0, <3>1, <3>2 DEF RunnerInv, ChildInv, Results
  <2>10. CASE Write(r)
    <3>1. /\ child[r].at = "write" /\ pipe'[r] = fate[r]
          /\ pc' = pc /\ got' = got /\ verdict' = verdict /\ fate' = fate
      BY <2>0, <2>10 DEF Write
    <3>2. child'[r].at = "exit"
      BY ONLY <2>10, ProbeInv, r \in Runners, ChildMoves DEF Write, ProbeInv
    <3> QED BY ONLY <2>0, <3>1, <3>2 DEF RunnerInv, ChildInv, Results
  <2>11. CASE Exit(r)
    BY <2>0, <2>11 DEF Exit
  <2>12. CASE Killed(r)
    BY <2>0, <2>12 DEF Killed
  <2> QED
    BY <1>2, <2>1, <2>2, <2>3, <2>4, <2>5, <2>6, <2>7, <2>8, <2>9, <2>10, <2>11, <2>12
    DEF Runner, Continues, Lives
<1> QED BY <1>1, <1>2

\* The invariant of every behaviour of the probes.
THEOREM Inductive == Spec => []ProbeInv
<1>1. Init => ProbeInv
  BY DEF Init, ProbeInv, TypeOK, RunnerInv, ChildInv, NoChild, Results
<1>2. ProbeInv /\ [Next]_vars => ProbeInv'
  <2> SUFFICES ASSUME ProbeInv, [Next]_vars PROVE ProbeInv'
    OBVIOUS
  <2>1. TypeOK'
    BY TypeNext
  <2>2. ASSUME NEW r \in Runners PROVE RunnerInv(r)' /\ ChildInv(r)'
    <3>1. CASE Next
      BY <2>2, <3>1, RunnerNext, ChildNext DEF Next
    <3>2. CASE UNCHANGED vars
      BY <3>2 DEF ProbeInv, RunnerInv, ChildInv, vars
    <3> QED BY <3>1, <3>2
  <2> QED BY <2>1, <2>2 DEF ProbeInv
<1> QED BY <1>1, <1>2, PTL DEF Spec

\* The types of runners, pipes and children, for any number of runners.
THEOREM TypeCorrect == Spec => []TypeOK
<1>1. ProbeInv => TypeOK
  BY DEF ProbeInv
<1> QED BY <1>1, Inductive, PTL

\* No path through a probe leaves a descriptor open or a child behind.
THEOREM NothingLeaksHolds == Spec => []NothingLeaks
<1>1. ProbeInv => NothingLeaks
  BY DEF ProbeInv, RunnerInv, NothingLeaks
<1> QED BY <1>1, Inductive, PTL

\* A verdict of a result or a signal is what became of the probe's own child.
THEOREM VerdictIsTrueHolds == Spec => []VerdictIsTrue
<1>1. ProbeInv => VerdictIsTrue
  BY DEF ProbeInv, ChildInv, VerdictIsTrue
<1> QED BY <1>1, Inductive, PTL

----------------------------------------------------------------------------
(* Waiting                                                                 *)

\* A child that has ended holds nothing, and a runner that reads has closed the end it does
\* not write to.
WaitInv(r) ==
    /\ ~Running(r) => child[r].fds = {}
    /\ pc[r] = "read" => <<r, "write">> \notin open

\* A step of one runner or its child keeps what is said of every child and every reader, and
\* hands no pipe that is being read to another child.
LEMMA WaitNext ==
    ASSUME ProbeInv, \A r \in Runners : WaitInv(r), NEW q \in Runners,
           Runner(q) \/ Lives(q) \/ Killed(q), NEW r \in Runners
    PROVE  WaitInv(r)' /\ (pc[r] = "read" => Holders(r)' \subseteq Holders(r))
<1> USE DEF ProbeInv, TypeOK, WaitInv, Running, Holders
<1>1. CASE Pipe(q) \/ PipeFails(q)
  BY <1>1 DEF Pipe, PipeFails, PipeOf
<1>2. CASE Fork(q)
  <2>1. /\ pc' = [pc EXCEPT ![q] = "parent"] /\ open' = open
        /\ child' = [child EXCEPT ![q] = [at |-> "syscall", fds |-> open \ {<<q, "read">>}]]
    BY <1>2 DEF Fork
  <2>2. WaitInv(r)'
    <3>1. CASE q = r
      BY <2>1, <3>1
    <3>2. CASE q # r
      <4>1. pc'[r] = pc[r] /\ child'[r] = child[r]
        BY <2>1, <3>2
      <4> QED BY <2>1, <4>1
    <3> QED BY <3>1, <3>2
  <2>3. pc[r] = "read" => Holders(r)' \subseteq Holders(r)
    BY <2>1
  <2> QED BY <2>2, <2>3
<1>3. CASE ForkFails(q) \/ CloseWrite(q) \/ Read(q)
  BY <1>3 DEF ForkFails, CloseWrite, Read
<1>4. CASE Wait(q) \/ WaitFails(q)
  <2>1. /\ pc' = [pc EXCEPT ![q] = "idle"] /\ open' = open
        /\ child' = [child EXCEPT ![q] = NoChild]
    BY <1>4 DEF Wait, WaitFails
  <2> QED BY <2>1 DEF NoChild
<1>5. CASE Syscall(q) \/ Write(q)
  <2>1. pc' = pc /\ open' = open
    BY <1>5 DEF Syscall, Write
  <2>2. Running(q) /\ child'[q].at \in {"write", "exit"} /\ child'[q].fds = child[q].fds
    <3>1. CASE Syscall(q)
      <4>1. child' = [child EXCEPT ![q].at = "write"] /\ child[q].at = "syscall"
        BY <3>1 DEF Syscall
      <4> QED BY <4>1
    <3>2. CASE Write(q)
      <4>1. child' = [child EXCEPT ![q].at = "exit"] /\ child[q].at = "write"
        BY <3>2 DEF Write
      <4> QED BY <4>1
    <3> QED BY <1>5, <3>1, <3>2
  <2>3. \A c \in Runners : c # q => child'[c] = child[c]
    BY <1>5 DEF Syscall, Write
  <2>4. \A c \in Runners : child'[c].fds = child[c].fds
    BY <2>2, <2>3
  <2> QED BY <2>1, <2>2, <2>3, <2>4
<1>6. CASE Exit(q) \/ Killed(q)
  <2>1. /\ pc' = pc /\ open' = open
        /\ child'[q].fds = {}
        /\ \A c \in Runners : c # q => child'[c] = child[c]
    <3>1. CASE Exit(q)
      BY <3>1 DEF Exit
    <3>2. CASE Killed(q)
      BY <3>2 DEF Killed
    <3> QED BY <1>6, <3>1, <3>2
  <2>2. \A c \in Runners : child'[c].fds \subseteq child[c].fds
    BY <2>1
  <2> QED BY <2>1, <2>2
<1> QED BY <1>1, <1>2, <1>3, <1>4, <1>5, <1>6 DEF Runner, Continues, Lives

\* What blocks a runner is found among the children that run.
LEMMA OnlyRunningBlock ==
    ASSUME ProbeInv, \A q \in Runners : WaitInv(q), NEW r \in Runners
    PROVE  BlockedByRunning(r)
<1>1. ASSUME pc[r] = "read", ~EndOfFile(r) PROVE \E q \in Holders(r) : Running(q)
  BY <1>1 DEF EndOfFile, Holders, WaitInv
<1>2. ASSUME pc[r] = "wait" PROVE Ended(r) \/ Running(r)
  BY <1>2 DEF ProbeInv, RunnerInv, TypeOK, Ended, Running
<1> QED BY <1>1, <1>2 DEF BlockedByRunning

\* For any number of runners: a runner waits for a running child or not at all, and the
\* children it waits for get fewer.
THEOREM NobodyWaitsInVainHolds == Spec => NobodyWaitsInVain
<1> DEFINE Waits == \A r \in Runners : WaitInv(r)
           Fewer == \A r \in Runners : pc[r] = "read" => Holders(r)' \subseteq Holders(r)
<1>1. Init => Waits
  <2> SUFFICES ASSUME Init, NEW r \in Runners PROVE WaitInv(r)
    OBVIOUS
  <2>1. child[r] = NoChild /\ pc[r] = "idle"
    BY DEF Init
  <2> QED BY <2>1 DEF WaitInv, NoChild
<1>2. ProbeInv /\ Waits /\ [Next]_vars => Waits' /\ [Fewer]_vars
  <2> SUFFICES ASSUME ProbeInv, Waits, [Next]_vars PROVE Waits' /\ [Fewer]_vars
    OBVIOUS
  <2>1. CASE Next
    BY <2>1, WaitNext DEF Next
  <2>2. CASE UNCHANGED vars
    BY <2>2 DEF vars, WaitInv, Running
  <2> QED BY <2>1, <2>2
<1>3. ProbeInv /\ Waits => \A r \in Runners : BlockedByRunning(r)
  BY OnlyRunningBlock
<1> QED BY <1>1, <1>2, <1>3, Inductive, PTL DEF Spec, NobodyWaitsInVain

----------------------------------------------------------------------------
(* DeviceCore                                                              *)

\* A thread that calls the Core leaves the probes alone.
LEMMA CoreKeepsProbes == [CoreNext]_coreVars => [Next]_vars
BY DEF CoreNext, coreVars, Probes, Next, vars

\* The composition of both is an instance of the probes alone.
THEOREM CoreImplementsProbes == CoreSpec => Spec
<1>1. CoreInit => Init
  BY DEF CoreInit
<1> QED BY <1>1, CoreKeepsProbes, PTL DEF CoreSpec, Spec

\* A step from one position to another moves one thread.
LEMMA OneMoves ==
    ASSUME CoreTypeOK, NEW r \in Runners, NEW from, NEW to, At(r, from, to)
    PROVE  /\ at[r] = from /\ at'[r] = to
           /\ \A q \in Runners : q # r => at'[q] = at[q]
BY DEF At, CoreTypeOK

\* What is done to a proxy that is given back.
LEMMA Given ==
    ASSUME CoreTypeOK, NEW r \in Runners, Release(r)
    PROVE  /\ proxy' \in [Runners -> Runners \cup {None}]
           /\ bound' \in [Runners -> Runners \cup {None}]
           /\ proxy'[r] = None
           /\ \A q \in Runners : q # r => proxy'[q] = proxy[q]
           /\ \A q \in Runners : bound'[q] \in {None, bound[q]}
BY DEF CoreTypeOK, Release

\* Every step of a thread in its calls keeps the types.
LEMMA CoreTypeNext ==
    ASSUME CoreTypeOK, NEW r \in Runners, Core(r)
    PROVE  CoreTypeOK'
<1> USE DEF CoreTypeOK, At, Objects
<1>1. CASE Check(r)
  BY <1>1 DEF Check
<1>2. CASE PingOk(r)
  BY <1>2 DEF PingOk
<1>3. CASE PingFails(r) \/ Drop(r)
  BY <1>3, Given DEF PingFails, Drop, Release
<1>4. CASE UseClass(r)
  BY <1>4 DEF UseClass
<1>5. CASE Define(r)
  BY <1>5 DEF Define
<1>6. CASE Associate(r)
  <2>1. bound' \in [Runners -> Runners \cup {None}] /\ mine' \in [Runners -> Runners \cup {None}]
    BY <1>6 DEF Associate, Prepared
  <2>2. held' \in [Runners -> SUBSET {"in", "reply", "status"}]
    BY <1>6 DEF Associate, Prepared
  <2>3. at' \in [Runners -> {"away", "ping", "next", "define", "associate",
                              "transact", "header", "status", "value"}]
    BY <1>6 DEF Associate, Prepared
  <2>4. UNCHANGED <<proxy, class, overlap, refused>>
    BY <1>6 DEF Associate, Prepared
  <2> QED BY <2>1, <2>2, <2>3, <2>4
<1>7. CASE AssociateFails(r) \/ Refused(r)
  <2>1. UNCHANGED <<proxy, bound, class, held, overlap>>
    BY <1>7 DEF AssociateFails, Refused, Prepared
  <2>2. at' = [at EXCEPT ![r] = "next"]
    BY <1>7 DEF AssociateFails, Refused, Prepared
  <2>3. mine' = [mine EXCEPT ![r] = None]
    BY <1>7 DEF AssociateFails, Refused, Prepared
  <2>4. refused' \in BOOLEAN
    BY <1>7 DEF AssociateFails, Refused, Prepared
  <2> QED BY <2>1, <2>2, <2>3, <2>4
<1>8. CASE Calls(r)
  <2>1. UNCHANGED <<proxy, bound, class, mine, refused, overlap>>
    BY <1>8, Zenon DEF Calls, WriteFails, Transact, TransactFails, Header, HeaderFails, StatusOk,
                       StatusError, Value
  <2>2. PICK to \in {"next", "header", "status", "value"} : at' = [at EXCEPT ![r] = to]
    BY <1>8 DEF Calls, WriteFails, Transact, TransactFails, Header, HeaderFails, StatusOk,
                StatusError, Value
  <2>3. PICK objects \in SUBSET Objects : held' = [held EXCEPT ![r] = objects]
    <3>1. held[r] \subseteq Objects /\ Objects = {"in", "reply", "status"}
      BY Zenon
    <3>2. \E objects \in {held[r] \ {"in"}, (held[r] \ {"in"}) \cup {"reply"},
                          held[r] \cup {"status"}, held[r] \ {"reply"}, held[r] \ {"status"},
                          held[r] \ {"status", "reply"}} : held' = [held EXCEPT ![r] = objects]
      BY ONLY <1>8 DEF Calls, WriteFails, Transact, TransactFails, Header, HeaderFails, StatusOk,
                StatusError, Value, Holding
    <3>3. \A objects \in {held[r] \ {"in"}, (held[r] \ {"in"}) \cup {"reply"},
                          held[r] \cup {"status"}, held[r] \ {"reply"}, held[r] \ {"status"},
                          held[r] \ {"status", "reply"}} : objects \in SUBSET Objects
      BY ONLY <3>1
    <3> QED BY <3>2, <3>3
  <2> QED BY <2>1, <2>2, <2>3
<1> QED BY <1>1, <1>2, <1>3, <1>4, <1>5, <1>6, <1>7, <1>8 DEF Core, Prepares

\* A step of a call keeps the proxy and leaves the thread with what its next position owns.
LEMMA CallsOwn ==
    ASSUME CoreTypeOK, OwnInv, NEW r \in Runners, Calls(r)
    PROVE  OwnInv'
<1>1. /\ DOMAIN at = Runners /\ DOMAIN held = Runners
      /\ held[r] = Owned(r)
  BY DEF CoreTypeOK, OwnInv
<1>2. /\ at[r] # "away" /\ at'[r] # "away" /\ proxy' = proxy
      /\ \A q \in Runners : q # r => at'[q] = at[q] /\ held'[q] = held[q]
  BY <1>1 DEF Calls, WriteFails, Transact, TransactFails, Header, HeaderFails, StatusOk,
              StatusError, Value, At, Holding
<1>3. held'[r] = Owned(r)'
  <2> USE <1>1 DEF At, Holding, Owned
  <2>1. CASE WriteFails(r) \/ TransactFails(r)
    BY <2>1 DEF WriteFails, TransactFails
  <2>2. CASE Transact(r)
    BY <2>2 DEF Transact
  <2>3. CASE Header(r)
    BY <2>3 DEF Header
  <2>4. CASE HeaderFails(r) \/ Value(r)
    BY <2>4 DEF HeaderFails, Value
  <2>5. CASE StatusOk(r)
    BY <2>5 DEF StatusOk
  <2>6. CASE StatusError(r)
    BY <2>6 DEF StatusError
  <2> QED BY <2>1, <2>2, <2>3, <2>4, <2>5, <2>6 DEF Calls
<1> QED BY <1>2, <1>3 DEF OwnInv, Owned

\* Each step deletes what the thread has and does not take along.
LEMMA OwnNext ==
    ASSUME CoreTypeOK, OwnInv, NEW r \in Runners, Core(r)
    PROVE  OwnInv'
<1> USE DEF CoreTypeOK, OwnInv, Owned, At
<1>1. CASE Check(r)
  BY <1>1 DEF Check
<1>2. CASE PingOk(r)
  BY <1>2 DEF PingOk
<1>3. CASE PingFails(r) \/ Drop(r)
  <2>1. Release(r) /\ held' = held
    BY <1>3 DEF PingFails, Drop, Release
  <2> QED BY <1>3, <2>1, Given DEF PingFails, Drop
<1>4. CASE UseClass(r) \/ Define(r)
  BY <1>4 DEF UseClass, Define
<1>5. CASE Associate(r)
  <2>1. /\ proxy' = proxy /\ at[r] = "associate" /\ held[r] = {}
        /\ \A q \in Runners : q # r => at'[q] = at[q] /\ held'[q] = held[q]
    BY <1>5 DEF Associate, Prepared
  <2>2. held'[r] = Owned(r)' /\ at'[r] # "away"
    <3>1. CASE Prepared(r, "transact") /\ held' = [held EXCEPT ![r] = @ \cup {"in"}]
      BY <2>1, <3>1 DEF Prepared
    <3>2. CASE Prepared(r, "next") /\ UNCHANGED held
      BY <2>1, <3>2 DEF Prepared
    <3> QED BY <1>5, <3>1, <3>2, Zenon DEF Associate
  <2> QED BY ONLY OwnInv, r \in Runners, <2>1, <2>2 DEF OwnInv, Owned
<1>6. CASE AssociateFails(r) \/ Refused(r)
  <2>1. UNCHANGED <<proxy, held>> /\ At(r, "associate", "next")
    BY <1>6, Zenon DEF AssociateFails, Refused, Prepared
  <2>2. /\ at[r] = "associate" /\ at'[r] = "next"
        /\ \A q \in Runners : q # r => at'[q] = at[q]
    BY <2>1, OneMoves
  <2>3. Owned(r) = {} /\ Owned(r)' = {}
    BY ONLY <2>2 DEF Owned
  <2>4. \A q \in Runners : q # r => Owned(q)' = Owned(q)
    BY ONLY <2>2 DEF Owned
  <2> QED BY ONLY OwnInv, r \in Runners, <2>1, <2>2, <2>3, <2>4 DEF OwnInv
<1>7. CASE Calls(r)
  BY <1>7, CallsOwn
<1> QED BY <1>1, <1>2, <1>3, <1>4, <1>5, <1>6, <1>7 DEF Core, Prepares

\* Unless two threads meet in get_core_class, all use the class that is kept there.
LEMMA OneClassNext ==
    ASSUME CoreTypeOK, OwnInv, ~overlap => OneClass, NEW r \in Runners, Core(r)
    PROVE  (~overlap => OneClass)'
<1> SUFFICES ASSUME ~overlap' PROVE OneClass'
  OBVIOUS
<1>0. ~overlap /\ OneClass
  <2>1. UseClass(r) /\ overlap => overlap'
    BY Zenon DEF UseClass
  <2>2. Core(r) /\ ~UseClass(r) => overlap' = overlap
    BY Zenon DEF Core, Check, PingOk, PingFails, Drop, Release, Prepares, Define, Prepared,
                 Associate, AssociateFails, Refused, Calls, WriteFails, Transact,
                 TransactFails, Header, HeaderFails, StatusOk, StatusError, Value
  <2> QED BY <2>1, <2>2
<1> USE <1>0 DEF CoreTypeOK, OneClass, At
<1>1. CASE Check(r)
  BY <1>1 DEF Check
<1>2. CASE PingOk(r)
  BY <1>2 DEF PingOk
<1>3. CASE PingFails(r) \/ Drop(r)
  <2>1. Release(r) /\ class' = class /\ mine' = mine /\ refused' = refused
    BY <1>3 DEF PingFails, Drop, Release
  <2>2. \A q \in Runners : bound'[q] \in {None, class}
    BY <2>1, Given
  <2> QED BY <1>3, <2>1, <2>2 DEF PingFails, Drop
<1>4. CASE UseClass(r)
  BY <1>4 DEF UseClass
<1>5. CASE Define(r)
  <2>1. at[r] = "define" /\ class = None /\ \A q \in Runners : at[q] = "define" => q = r
    BY <1>5 DEF Define
  <2>2. \A q \in Runners : bound[q] = None /\ mine[q] = None
    BY <2>1, Zenon
  <2>3. class' = r /\ bound' = bound /\ refused' = refused
        /\ at' = [at EXCEPT ![r] = "associate"] /\ mine' = [mine EXCEPT ![r] = r]
    BY <1>5 DEF Define
  <2>4. \A q \in Runners : at'[q] # "define"
    BY <2>1, <2>3
  <2>5. \A q \in Runners : at[q] # "associate"
    BY <2>1
  <2>6. \A q \in Runners : at'[q] = "associate" => q = r
    BY <2>3, <2>5
  <2>7. r # None /\ mine'[r] = r
    BY <2>3, NoneAssumption
  <2> QED BY <2>2, <2>3, <2>4, <2>6, <2>7
<1>6. CASE Associate(r)
  BY <1>6 DEF Associate, Prepared
<1>7. CASE AssociateFails(r)
  BY <1>7 DEF AssociateFails, Prepared
<1>8. CASE Refused(r)
  <2>1. at[r] = "associate" /\ bound[proxy[r]] \notin {None, mine[r]}
    BY <1>8 DEF Refused, Prepared
  <2>2. mine[r] = class
    BY <2>1
  <2>3. proxy[r] \in Runners
    BY <2>1 DEF OwnInv
  <2> QED BY <2>1, <2>2, <2>3
<1>9. CASE Calls(r)
  BY <1>9 DEF Calls, WriteFails, Transact, TransactFails, Header, HeaderFails, StatusOk,
              StatusError, Value
<1> QED BY <1>1, <1>2, <1>3, <1>4, <1>5, <1>6, <1>7, <1>8, <1>9 DEF Core, Prepares

\* The invariant of every behaviour of the threads that call the Core.
THEOREM CoreInductive == CoreSpec => []CoreInv
<1>1. CoreInit => CoreInv
  BY DEF CoreInit, CoreInv, CoreTypeOK, OwnInv, Owned, OneClass
<1>2. CoreInv /\ [CoreNext]_coreVars => CoreInv'
  <2> SUFFICES ASSUME CoreInv, [CoreNext]_coreVars PROVE CoreInv'
    OBVIOUS
  <2>1. CASE \E r \in Runners : Core(r)
    BY <2>1, CoreTypeNext, OwnNext, OneClassNext DEF CoreInv
  <2>2. CASE UNCHANGED calls
    BY <2>2 DEF calls, CoreInv, CoreTypeOK, OwnInv, Owned, OneClass
  <2> QED BY <2>1, <2>2 DEF CoreNext, coreVars
<1> QED BY <1>1, <1>2, PTL DEF CoreSpec

\* No path through a probe or a call to the Core leaves anything open, running or owned.
THEOREM NothingStaysBehindHolds == CoreSpec => []NothingStaysBehind
<1>1. CoreInv => NothingHeld
  BY DEF CoreInv, OwnInv, Owned, NothingHeld
<1>2. NothingLeaks /\ NothingHeld => NothingStaysBehind
  BY DEF NothingStaysBehind
<1> QED BY <1>1, <1>2, CoreInductive, CoreImplementsProbes, NothingLeaksHolds, PTL

\* Without an overlap in get_core_class a living Core refuses nobody.
THEOREM RefusedOnlyAfterOverlapHolds == CoreSpec => []RefusedOnlyAfterOverlap
<1>1. CoreInv => RefusedOnlyAfterOverlap
  BY DEF CoreInv, OneClass, RefusedOnlyAfterOverlap
<1> QED BY <1>1, CoreInductive, PTL
====
