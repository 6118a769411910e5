---- MODULE TrustProofs ----
(***************************************************************************)
(* Proofs about TrustService and about its composition with the Activity,  *)
(* for every set of keys, every set of claims, every registry capacity and *)
(* every number of restarts and taps.                                      *)
(***************************************************************************)
EXTENDS TrustRuntime, FiniteSetTheorems, TLAPS

\* The shapes of records the type invariant is made of.
Hosts == [pub : OptKey, portable : BOOLEAN, shown : OptKey]
Pendings == [pub : OptKey, portable : BOOLEAN]
Authorities == [request : OptRequest, decision : {-1, 0, 1}]

\* Adding to, migrating within and removing from the registry gives a registry.
LEMMA RegistryTypes ==
    ASSUME NEW p \in Prefs, NEW k \in Keys
    PROVE  /\ Add(p, k) \in Prefs
           /\ Migrate(p, k) \in Prefs
           /\ Remove(p, k) \in Prefs
<1>1. Add(p, k) \in Prefs
  BY DEF Add, Prefs
<1>2. Migrate(p, k) \in Prefs
  BY <1>1 DEF Migrate
<1>3. Remove(p, k) \in Prefs
  BY DEF Remove, Prefs, OptKey
<1> QED BY <1>1, <1>2, <1>3

\* What the lookup answers after each operation: an added key is trusted unless there was
\* no room for it, a removed one is not, wherever it was kept, and a migration changes
\* no answer.  No operation changes the answer for another key.
THEOREM RegistryAnswers ==
    ASSUME NEW p \in Prefs, NEW k \in Keys, NEW j \in Keys
    PROVE  /\ IsTrusted(Add(p, k), k) \/ ~(Cardinality(p.list) < Capacity)
           /\ ~IsTrusted(Remove(p, k), k)
           /\ IsTrusted(Migrate(p, k), j) <=> IsTrusted(p, j)
           /\ j # k => /\ IsTrusted(Add(p, k), j) <=> IsTrusted(p, j)
                       /\ IsTrusted(Remove(p, k), j) <=> IsTrusted(p, j)
<1> USE DEF Prefs, IsTrusted
<1>1. IsTrusted(Add(p, k), k) \/ ~(Cardinality(p.list) < Capacity)
  BY DEF Add
<1>2. ~IsTrusted(Remove(p, k), k)
  BY RegistryAssumption DEF Remove
<1>3. IsTrusted(Migrate(p, k), j) <=> IsTrusted(p, j)
  BY DEF Migrate, Add
<1>4. ASSUME j # k
      PROVE  /\ IsTrusted(Add(p, k), j) <=> IsTrusted(p, j)
             /\ IsTrusted(Remove(p, k), j) <=> IsTrusted(p, j)
  <2>1. IsTrusted(Add(p, k), j) <=> IsTrusted(p, j)
    BY <1>4 DEF Add
  <2>2. IsTrusted(Remove(p, k), j) <=> IsTrusted(p, j)
    BY <1>4, RegistryAssumption DEF Remove
  <2> QED BY <2>1, <2>2
<1> QED BY <1>1, <1>2, <1>3, <1>4

\* No operation makes a list that fits into one that does not.
LEMMA OperationsFit ==
    ASSUME NEW p \in Prefs, NEW k \in Keys, FitsBuffer(p)
    PROVE  FitsBuffer(Add(p, k)) /\ FitsBuffer(Migrate(p, k)) /\ FitsBuffer(Remove(p, k))
<1>1. FitsBuffer(Add(p, k))
  <2>1. CASE k \notin p.list /\ Cardinality(p.list) < Capacity
    <3>1. Add(p, k).list = p.list \cup {k}
      BY <2>1 DEF Add, Prefs
    <3>2. /\ IsFiniteSet(p.list \cup {k})
          /\ Cardinality(p.list \cup {k}) = Cardinality(p.list) + 1
      BY <2>1, FS_AddElement DEF FitsBuffer
    <3>3. Cardinality(p.list) \in Nat
      BY FS_CardinalityType DEF FitsBuffer
    <3>4. Cardinality(p.list) + 1 <= Capacity
      BY <2>1, <3>3, RegistryAssumption
    <3> QED BY <3>1, <3>2, <3>4 DEF FitsBuffer
  <2>2. CASE ~(k \notin p.list /\ Cardinality(p.list) < Capacity)
    BY <2>2 DEF Add
  <2> QED BY <2>1, <2>2
<1>2. FitsBuffer(Migrate(p, k))
  BY <1>1 DEF Migrate
<1>3. FitsBuffer(Remove(p, k))
  <2>1. Remove(p, k).list \in SUBSET p.list
    BY DEF Remove
  <2>2. IsFiniteSet(Remove(p, k).list) /\ Cardinality(Remove(p, k).list) <= Cardinality(p.list)
    BY <2>1, FS_Subset DEF FitsBuffer
  <2>3. Cardinality(p.list) \in Nat /\ Cardinality(Remove(p, k).list) \in Nat
    BY <2>2, FS_CardinalityType DEF FitsBuffer
  <2> QED BY <2>2, <2>3, RegistryAssumption DEF FitsBuffer
<1> QED BY <1>1, <1>2, <1>3

\* The list changes by the operations of the registry, and what is written back or read
\* again after a restart is a list that fitted.
LEMMA FitsNext == TypeOK /\ [Next]_serviceVars => RegistryFits'
<1> SUFFICES ASSUME TypeOK, [Next]_serviceVars PROVE RegistryFits'
  OBVIOUS
<1> USE DEF RegistryFits, process, files, history
<1>0. FitsBuffer(prefs) /\ FitsBuffer(disk)
  BY DEF TypeOK
<1>1. CASE ApplyForget \/ ApplyApprove \/ HelloPinned
  <2>1. disk' = disk
    BY <1>1 DEF ApplyForget, ApplyApprove, HelloPinned
  <2>2. \/ prefs' = prefs
        \/ \E k \in Keys : prefs' \in {Add(prefs, k), Migrate(prefs, k), Remove(prefs, k)}
    <3>1. CASE ApplyForget
      BY <3>1 DEF ApplyForget, TypeOK, OptKey
    <3>2. CASE ApplyApprove
      BY <3>2 DEF ApplyApprove, TypeOK, OptKey
    <3>3. CASE HelloPinned
      BY <3>3 DEF HelloPinned
    <3> QED BY <1>1, <3>1, <3>2, <3>3
  <2>3. prefs \in Prefs
    BY DEF TypeOK
  <2> QED BY <1>0, <2>1, <2>2, <2>3, OperationsFit
<1>2. CASE LoopConsume \/ ForgetSkipped \/ ApproveSkipped \/ WaitConsume \/ WaitDone
           \/ DialFail \/ HelloUnknown \/ AuthFailed \/ AuthBroken \/ PairRequired
  BY <1>0, <1>2 DEF LoopConsume, ForgetSkipped, ApproveSkipped, WaitConsume, WaitDone,
              DialFail, HelloUnknown, AuthFailed, AuthBroken, PairRequired, EndAttempt
<1>3. CASE AuthOk \/ SendPoll \/ Pong \/ ImplicitRequest \/ ExplicitRequest \/ DecideConsume
           \/ DecideDone \/ SessionStopped \/ SessionLost \/ SessionGarbled
  BY <1>0, <1>3 DEF AuthOk, SendPoll, Pong, ImplicitRequest, ExplicitRequest, DecideConsume,
              DecideDone, SessionStopped, SessionLost, SessionGarbled, EndSession
<1>4. CASE AnyCommand \/ DeepLink \/ PeerCloses \/ WriteBack \/ Kill \/ Start
           \/ UNCHANGED serviceVars
  BY <1>0, <1>4 DEF AnyCommand, DeepLink, Send, PeerCloses, WriteBack, Kill, Start, serviceVars
<1> QED BY <1>1, <1>2, <1>3, <1>4 DEF Next, Worker, System

\* The initial state is well typed.
LEMMA TypeInit == Init => TypeOK
<1> SUFFICES ASSUME Init PROVE TypeOK
  OBVIOUS
<1> USE DEF Init, Offline, OptKey
<1>1. disk \in Prefs /\ prefs \in Prefs
  BY RegistryAssumption DEF Prefs, Workstations
<1>2. /\ pc \in PCs /\ state \in -1 .. 3
      /\ host \in [pub : OptKey, portable : BOOLEAN, shown : OptKey]
      /\ pending \in [pub : OptKey, portable : BOOLEAN]
      /\ portablePub \in OptKey /\ requested \in SUBSET Flags
  BY DEF PCs, SessionPCs, NoHost, NoPending, Flags
<1>3. /\ authority \in [request : OptRequest, decision : {-1, 0, 1}]
      /\ link \in BOOLEAN /\ endpoint \in BOOLEAN
  BY DEF NoAuthority, OptRequest
<1>5. cmdFile \in Command
  BY DEF NoCommand, Command, CommandNames
<1>6. stateFile \in Snapshots
  BY DEF Snapshots, OptRequest
<1>7. RegistryFits
  BY FS_EmptySet, RegistryAssumption DEF RegistryFits, FitsBuffer
<1>4. approved \in SUBSET Keys /\ kills \in 0 .. MaxKills
  BY RuntimeAssumption DEF Workstations
<1> QED BY <1>1, <1>2, <1>3, <1>4, <1>5, <1>6, <1>7 DEF TypeOK

\* A publication of well-typed globals is a well-typed state file.
LEMMA PublishTypes ==
    ASSUME Publish,
           state' \in -1 .. 3, host' \in Hosts, pending' \in Pendings,
           authority' \in Authorities
    PROVE  stateFile' \in Snapshots
BY DEF Publish, Snapshots, Hosts, Pendings, Authorities

\* Taking a command keeps flags, decision and file well typed.
LEMMA ConsumeTypes ==
    ASSUME TypeOK, Consume
    PROVE  requested' \in SUBSET Flags /\ authority' \in Authorities /\ cmdFile' \in Command
BY DEF TypeOK, Consume, Authorities, NoCommand, Flags, Command, CommandNames, OptKey

\* Every step keeps the types.
LEMMA TypeNext == TypeOK /\ [Next]_serviceVars => TypeOK'
<1> SUFFICES ASSUME TypeOK, [Next]_serviceVars PROVE TypeOK'
  OBVIOUS
<1>0. RegistryFits'
  BY FitsNext
<1> USE <1>0 DEF TypeOK, process, files, history, PCs, SessionPCs, Hosts, Pendings, Authorities
<1>1. CASE LoopConsume
  BY <1>1, ConsumeTypes DEF LoopConsume
<1>2. CASE ForgetSkipped
  BY <1>2 DEF ForgetSkipped
<1>3. CASE ApplyForget
  <2>1. host' \in Hosts /\ pending' \in Pendings /\ state' \in -1 .. 3
    BY <1>3 DEF ApplyForget, SetStatus, NoHost, NoPending, Offline, OptKey
  <2>2. requested' \in SUBSET Flags /\ authority' \in Authorities
    BY <1>3 DEF ApplyForget
  <2>3. prefs' \in Prefs /\ portablePub' \in OptKey /\ endpoint' \in BOOLEAN
    <3>1. CASE host.portable
      BY <1>3, <3>1 DEF ApplyForget, OptKey
    <3>2. CASE ~host.portable
      <4>1. host.pub # NoKey => host.pub \in Keys
        BY DEF OptKey
      <4> QED BY <1>3, <3>2, <4>1, RegistryTypes DEF ApplyForget
    <3> QED BY <3>1, <3>2
  <2>4. stateFile' \in Snapshots
    BY <1>3, <2>1, <2>2, PublishTypes DEF ApplyForget, SetStatus
  <2> QED BY <1>3, <2>1, <2>2, <2>3, <2>4 DEF ApplyForget
<1>4. CASE ApproveSkipped
  BY <1>4 DEF ApproveSkipped
<1>5. CASE ApplyApprove
  <2>1. host' \in Hosts /\ pending' \in Pendings /\ state' \in -1 .. 3
    <3>1. host' \in Hosts
      BY <1>5 DEF ApplyApprove
    <3>2. pending' \in Pendings
      BY <1>5 DEF ApplyApprove
    <3>3. state' \in -1 .. 3
      BY <1>5 DEF ApplyApprove, SetStatus, Offline
    <3> QED BY <3>1, <3>2, <3>3
  <2>2. requested' \in SUBSET Flags /\ authority' \in Authorities
    BY <1>5 DEF ApplyApprove
  <2>3. prefs' \in Prefs /\ portablePub' \in OptKey
    <3>1. pending.pub \in Keys
      BY <1>5 DEF ApplyApprove, OptKey
    <3> QED BY <1>5, <3>1, RegistryTypes DEF ApplyApprove, OptKey
  <2>4. stateFile' \in Snapshots
    BY <1>5, <2>1, <2>2, PublishTypes DEF ApplyApprove, SetStatus
  <2> QED BY <1>5, <2>1, <2>2, <2>3, <2>4 DEF ApplyApprove
<1>6. CASE WaitConsume
  BY <1>6, ConsumeTypes DEF WaitConsume
<1>7. CASE WaitDone
  BY <1>7 DEF WaitDone
<1>8. CASE DialFail
  BY <1>8 DEF DialFail
<1>9. CASE HelloUnknown
  <2>1. host' \in Hosts /\ pending' \in Pendings /\ state' \in -1 .. 3 /\ authority' \in Authorities
    BY <1>9 DEF HelloUnknown, Hello, SetStatus, AwaitingApproval, OptKey
  <2>2. stateFile' \in Snapshots
    BY <1>9, <2>1, PublishTypes DEF HelloUnknown, SetStatus
  <2> QED BY <1>9, <2>1, <2>2 DEF HelloUnknown
<1>10. CASE HelloPinned
  <2>1. host' \in Hosts /\ pending' \in Pendings /\ state' \in -1 .. 3 /\ authority' \in Authorities
    BY <1>10 DEF HelloPinned, Hello, SetStatus, Authenticating, OptKey
  <2>2. prefs' \in Prefs
    BY <1>10, RegistryTypes DEF HelloPinned
  <2>3. stateFile' \in Snapshots
    BY <1>10, <2>1, PublishTypes DEF HelloPinned, SetStatus
  <2> QED BY <1>10, <2>1, <2>2, <2>3 DEF HelloPinned
<1>11. CASE AuthFailed
  <2>1. state' \in -1 .. 3
    BY <1>11 DEF AuthFailed, SetStatus, Failed
  <2>2. stateFile' \in Snapshots
    BY <1>11, <2>1, PublishTypes DEF AuthFailed, EndAttempt, SetStatus
  <2> QED BY <1>11, <2>1, <2>2 DEF AuthFailed, EndAttempt
<1>12. CASE AuthBroken
  BY <1>12 DEF AuthBroken, EndAttempt
<1>13. CASE PairRequired
  <2>1. state' \in -1 .. 3
    BY <1>13 DEF PairRequired, SetStatus, AwaitingApproval
  <2>2. stateFile' \in Snapshots
    BY <1>13, <2>1, PublishTypes DEF PairRequired, EndAttempt, SetStatus
  <2> QED BY <1>13, <2>1, <2>2 DEF PairRequired, EndAttempt
<1>14. CASE AuthOk
  <2>1. state' \in -1 .. 3
    BY <1>14 DEF AuthOk, SetStatus, Trusted
  <2>2. stateFile' \in Snapshots
    BY <1>14, <2>1, PublishTypes DEF AuthOk, SetStatus
  <2> QED BY <1>14, <2>1, <2>2 DEF AuthOk
<1>15. CASE SendPoll
  BY <1>15 DEF SendPoll
<1>16. CASE pc \in SessionPCs /\ EndSession
  <2>1. state' \in -1 .. 3
    BY <1>16 DEF EndSession, SetStatus, Offline
  <2>2. stateFile' \in Snapshots
    BY <1>16, <2>1, PublishTypes DEF EndSession, SetStatus
  <2> QED BY <1>16, <2>1, <2>2 DEF EndSession
<1>17. CASE Pong \/ ImplicitRequest
  BY <1>17 DEF Pong, ImplicitRequest
<1>18. CASE ExplicitRequest
  <2>1. authority' \in Authorities
    BY <1>18 DEF ExplicitRequest, OptRequest
  <2>2. stateFile' \in Snapshots
    BY <1>18, <2>1, PublishTypes DEF ExplicitRequest
  <2> QED BY <1>18, <2>1, <2>2 DEF ExplicitRequest
<1>19. CASE DecideConsume
  BY <1>19, ConsumeTypes DEF DecideConsume
<1>20. CASE DecideDone
  <2>1. authority' \in Authorities
    BY <1>20 DEF DecideDone, NoAuthority, OptRequest
  <2>2. stateFile' \in Snapshots
    BY <1>20, <2>1, PublishTypes DEF DecideDone
  <2> QED BY <1>20, <2>1, <2>2 DEF DecideDone
<1>21. CASE AnyCommand \/ DeepLink
  <2>1. cmdFile' \in Command
    BY <1>21 DEF AnyCommand, DeepLink, Send, Command, CommandNames, Flags, OptKey
  <2>2. approved' \in SUBSET Keys
    BY <1>21 DEF AnyCommand, DeepLink, Send
  <2> QED BY <1>21, <2>1, <2>2 DEF AnyCommand, DeepLink, Send
<1>22. CASE PeerCloses \/ WriteBack
  BY <1>22 DEF PeerCloses, WriteBack
<1>23. CASE Kill
  <2>1. host' \in Hosts /\ pending' \in Pendings /\ authority' \in Authorities /\ state' \in -1 .. 3
    BY <1>23 DEF Kill, NoHost, NoPending, NoAuthority, Offline, OptKey, OptRequest
  <2>2. kills' \in 0 .. MaxKills
    BY <1>23, RuntimeAssumption DEF Kill
  <2> QED BY <1>23, <2>1, <2>2 DEF Kill, OptKey
<1>24. CASE Start
  <2>1. stateFile' \in Snapshots
    BY <1>24, PublishTypes DEF Start
  <2> QED BY <1>24, <2>1 DEF Start
<1>25. CASE UNCHANGED serviceVars
  BY <1>25 DEF serviceVars
<1>26. EndSession /\ (SessionStopped \/ SessionLost \/ SessionGarbled) => pc \in SessionPCs
  BY DEF SessionStopped, SessionLost, SessionGarbled
<1> QED
  BY <1>1, <1>2, <1>3, <1>4, <1>5, <1>6, <1>7, <1>8, <1>9, <1>10, <1>11, <1>12, <1>13,
     <1>14, <1>15, <1>16, <1>17, <1>18, <1>19, <1>20, <1>21, <1>22, <1>23, <1>24, <1>25, <1>26
  DEF Next, Worker, System, SessionStopped, SessionLost, SessionGarbled

\* The state of the service, its files and the history always have the shapes
\* declared for them.
THEOREM TypeCorrect == Spec => []TypeOK
<1>1. Init => TypeOK
  BY TypeInit
<1>2. TypeOK /\ [Next]_serviceVars => TypeOK'
  BY TypeNext
<1> QED BY <1>1, <1>2, PTL DEF Spec

\* However many hosts are approved, migrated, revoked and restored, the list never
\* outgrows its buffer.
THEOREM RegistryFitsHolds == Spec => []RegistryFits
<1>1. TypeOK => RegistryFits
  BY DEF TypeOK
<1> QED BY <1>1, TypeCorrect, PTL

----------------------------------------------------------------------------
(* Sessions                                                                *)

\* Copying a key from its older form does not change the answer of the lookup.
LEMMA MigrateKeepsTrust ==
    ASSUME NEW p \in Prefs, NEW k \in Keys
    PROVE  IsTrusted(p, k) => IsTrusted(Migrate(p, k), k)
BY DEF IsTrusted, Migrate, Add, Prefs

\* At first there is no session and no authentication under way.
LEMMA SessionInvInit == Init => SessionInv
BY DEF Init, SessionInv, SessionHostPinned, TrustedOnlyInSession, SessionPCs, Offline, Trusted

\* No step leaves a session open with a host that is not pinned, and none leaves
\* the trusted state behind when the session ends.
LEMMA SessionInvNext == TypeOK /\ SessionInv /\ [Next]_serviceVars => SessionInv'
<1> SUFFICES ASSUME TypeOK, SessionInv, [Next]_serviceVars PROVE SessionInv'
  OBVIOUS
<1> USE DEF SessionInv, SessionHostPinned, TrustedOnlyInSession, SessionPCs, process, files, history
<1>1. CASE LoopConsume \/ ForgetSkipped \/ ApproveSkipped \/ WaitConsume \/ WaitDone
  BY <1>1 DEF LoopConsume, ForgetSkipped, ApproveSkipped, WaitConsume, WaitDone, Consume
<1>2. CASE ApplyForget \/ ApplyApprove
  BY <1>2 DEF ApplyForget, ApplyApprove, SetStatus, Offline, Trusted
<1>3. CASE DialFail \/ HelloUnknown
  <2>1. pc' = "wait" /\ state' # Trusted
    <3>1. CASE DialFail
      BY <3>1 DEF DialFail
    <3>2. CASE HelloUnknown
      BY <3>2 DEF HelloUnknown, SetStatus, AwaitingApproval, Trusted
    <3> QED BY <1>3, <3>1, <3>2
  <2> QED BY <2>1
<1>4. CASE HelloPinned
  <2>1. PICK k \in Keys, portable \in BOOLEAN :
           /\ Pinned(k, portable)
           /\ Hello(k, portable)
           /\ prefs' = IF portable /\ portablePub # NoKey THEN prefs ELSE Migrate(prefs, k)
    BY <1>4 DEF HelloPinned
  <2>2. Pinned(k, portable)'
    BY <1>4, <2>1, MigrateKeepsTrust DEF HelloPinned, Pinned, TypeOK
  <2>3. host'.pub = k /\ host'.portable = portable /\ host'.shown = k /\ k # NoKey
    BY <2>1, RegistryAssumption DEF Hello
  <2>4. pc' = "auth" /\ state' # Trusted
    BY <1>4 DEF HelloPinned, SetStatus, Authenticating, Trusted
  <2> QED BY <2>2, <2>3, <2>4
<1>5. CASE AuthFailed \/ AuthBroken \/ PairRequired
  BY <1>5 DEF AuthFailed, AuthBroken, PairRequired, EndAttempt, SetStatus, Failed, AwaitingApproval, Trusted
<1>6. CASE AuthOk
  BY <1>6 DEF AuthOk, SetStatus, Pinned
<1>7. CASE SendPoll \/ Pong \/ ImplicitRequest \/ ExplicitRequest \/ DecideDone \/ DecideConsume
  BY <1>7 DEF SendPoll, Pong, ImplicitRequest, ExplicitRequest, DecideDone, DecideConsume, Consume, Pinned
<1>8. CASE EndSession
  BY <1>8 DEF EndSession, SetStatus, Offline, Trusted
<1>9. CASE AnyCommand \/ DeepLink \/ PeerCloses \/ WriteBack \/ UNCHANGED serviceVars
  BY <1>9 DEF AnyCommand, DeepLink, Send, PeerCloses, WriteBack, serviceVars, Pinned
<1>10. CASE Kill \/ Start
  BY <1>10 DEF Kill, Start, Offline, Trusted
<1> QED
  BY <1>1, <1>2, <1>3, <1>4, <1>5, <1>6, <1>7, <1>8, <1>9, <1>10
  DEF Next, Worker, System, SessionStopped, SessionLost, SessionGarbled

----------------------------------------------------------------------------
(* Approvals                                                               *)

\* A registry operation brings in no key but the one it is given, and takes out none but
\* the one it is given.
LEMMA RegistryKeys ==
    ASSUME NEW p \in Prefs, NEW k \in Keys
    PROVE  /\ Add(p, k).list \subseteq p.list \cup {k}
           /\ Add(p, k).legacy = p.legacy
           /\ Migrate(p, k).list \subseteq p.list \cup {p.legacy}
           /\ Migrate(p, k).legacy = p.legacy
           /\ Remove(p, k).list \subseteq p.list
           /\ Remove(p, k).legacy \in {p.legacy, NoKey}
           /\ p.list \subseteq Add(p, k).list
           /\ p.list \subseteq Migrate(p, k).list
           /\ p.list \subseteq Remove(p, k).list \cup {k}
           /\ p.legacy \in {Remove(p, k).legacy, k}
<1>1. /\ Add(p, k).list \subseteq p.list \cup {k}
      /\ p.list \subseteq Add(p, k).list
      /\ Add(p, k).legacy = p.legacy
  BY DEF Add, Prefs
<1>2. /\ Migrate(p, k).list \subseteq p.list \cup {p.legacy}
      /\ p.list \subseteq Migrate(p, k).list
      /\ Migrate(p, k).legacy = p.legacy
  BY <1>1 DEF Migrate
<1>3. /\ Remove(p, k).list \subseteq p.list
      /\ p.list \subseteq Remove(p, k).list \cup {k}
      /\ Remove(p, k).legacy \in {p.legacy, NoKey}
      /\ p.legacy \in {Remove(p, k).legacy, k}
  BY DEF Remove
<1> QED BY <1>1, <1>2, <1>3

\* At first only the key of an upgraded installation is known, and it counts as
\* approved.
LEMMA ApprovalInvInit == Init => ApprovalInv
BY RegistryAssumption DEF Init, ApprovalInv, NeverAutoPaired, HeardApprovalIsForPending, Known, NoCommand

\* What a command can raise: an approval only if it names the pending host.
LEMMA ConsumeRaises ==
    ASSUME TypeOK, ApprovalInv, Consume
    PROVE  /\ "APPROVE" \in requested' \ requested =>
                 state = AwaitingApproval /\ pending.pub \in approved
           /\ cmdFile'.cmd # "APPROVE"
<1>1. cmdFile'.cmd # "APPROVE"
  BY DEF Consume, NoCommand
<1>2. "APPROVE" \in requested' \ requested => ApprovalHeard
  BY DEF Consume
<1>3. ApprovalHeard => state = AwaitingApproval /\ pending.pub \in approved
  BY DEF ApprovalHeard, ApprovalInv
<1> QED BY <1>1, <1>2, <1>3

\* No step brings in a key without an approval, and none changes the pending
\* host between the hearing of an approval and its use.
LEMMA ApprovalInvNext ==
    TypeOK /\ ApprovalInv /\ SessionInv /\ [Next]_serviceVars => ApprovalInv'
<1> SUFFICES ASSUME TypeOK, ApprovalInv, SessionInv, [Next]_serviceVars PROVE ApprovalInv'
  OBVIOUS
<1> USE DEF ApprovalInv, NeverAutoPaired, HeardApprovalIsForPending, Known, process, files, history
<1>1. CASE LoopConsume
  BY <1>1, ConsumeRaises DEF LoopConsume
<1>2. CASE ForgetSkipped
  BY <1>2 DEF ForgetSkipped
<1>3. CASE ApplyForget
  <2>1. (prefs'.list \cup {prefs'.legacy}) \ {NoKey} \subseteq approved
    <3>1. CASE host.portable \/ host.pub = NoKey
      BY <1>3, <3>1 DEF ApplyForget
    <3>2. CASE ~host.portable /\ host.pub # NoKey
      <4>1. host.pub \in Keys
        BY <3>2 DEF TypeOK, OptKey
      <4>2. prefs' = Remove(prefs, host.pub)
        BY <1>3, <3>2 DEF ApplyForget
      <4> QED BY <4>1, <4>2, RegistryKeys DEF TypeOK
    <3> QED BY <3>1, <3>2
  <2>2. {portablePub'} \ {NoKey} \subseteq approved
    BY <1>3 DEF ApplyForget
  <2> QED BY <1>3, <2>1, <2>2 DEF ApplyForget
<1>4. CASE ApproveSkipped
  BY <1>4, RegistryAssumption DEF ApproveSkipped, TypeOK
<1>5. CASE ApplyApprove
  <2>1. pending.pub \in Keys /\ pending.pub \in approved
    BY <1>5 DEF ApplyApprove, TypeOK, OptKey
  <2>2. prefs'.list \subseteq prefs.list \cup {pending.pub} /\ prefs'.legacy = prefs.legacy
    BY <1>5, <2>1, RegistryKeys DEF ApplyApprove, TypeOK
  <2>3. portablePub' \in {portablePub, pending.pub}
    BY <1>5 DEF ApplyApprove
  <2> QED BY <1>5, <2>1, <2>2, <2>3 DEF ApplyApprove
<1>6. CASE WaitConsume
  BY <1>6, ConsumeRaises DEF WaitConsume
<1>7. CASE WaitDone
  BY <1>7 DEF WaitDone
<1>8. CASE DialFail
  BY <1>8 DEF DialFail
<1>9. CASE HelloUnknown
  BY <1>9 DEF HelloUnknown
<1>10. CASE HelloPinned
  <2>1. prefs'.list \subseteq prefs.list \cup {prefs.legacy} /\ prefs'.legacy = prefs.legacy
    BY <1>10, RegistryKeys DEF HelloPinned, TypeOK
  <2> QED BY <1>10, <2>1, RegistryAssumption DEF HelloPinned, TypeOK, Prefs
<1>11. CASE pc = "auth" /\ EndAttempt
  BY <1>11 DEF EndAttempt
<1>12. CASE AuthOk
  BY <1>12 DEF AuthOk
<1>13. CASE SendPoll \/ Pong \/ ImplicitRequest \/ ExplicitRequest \/ DecideDone
  BY <1>13 DEF SendPoll, Pong, ImplicitRequest, ExplicitRequest, DecideDone
<1>14. CASE pc \in SessionPCs /\ EndSession
  BY <1>14 DEF EndSession, SessionPCs
<1>15. CASE DecideConsume
  BY <1>15, ConsumeRaises
  DEF DecideConsume, SessionInv, SessionHostPinned, SessionPCs, Trusted, AwaitingApproval
<1>16. CASE AnyCommand \/ DeepLink
  BY <1>16, RuntimeAssumption DEF AnyCommand, DeepLink, Send, OptKey
<1>17. CASE PeerCloses \/ WriteBack
  BY <1>17 DEF PeerCloses, WriteBack
<1>18. CASE Kill
  BY <1>18 DEF Kill
<1>19. CASE Start
  BY <1>19 DEF Start
<1>20. CASE UNCHANGED serviceVars
  BY <1>20 DEF serviceVars
<1> QED
  BY <1>1, <1>2, <1>3, <1>4, <1>5, <1>6, <1>7, <1>8, <1>9, <1>10, <1>11, <1>12, <1>13,
     <1>14, <1>15, <1>16, <1>17, <1>18, <1>19, <1>20
  DEF Next, Worker, System, SessionStopped, SessionLost, SessionGarbled, SessionPCs,
      AuthFailed, AuthBroken, PairRequired, EndAttempt

----------------------------------------------------------------------------
(* Requests                                                                *)

\* At first no request is open.
LEMMA DecisionInit == Init => DecisionOnlyWhileAsked
BY DEF Init, DecisionOnlyWhileAsked, NoAuthority

\* The request for a decision opens and closes with the worker's wait for it.
LEMMA DecisionNext ==
    TypeOK /\ DecisionOnlyWhileAsked /\ [Next]_serviceVars => DecisionOnlyWhileAsked'
<1> SUFFICES ASSUME TypeOK, DecisionOnlyWhileAsked, [Next]_serviceVars
             PROVE  DecisionOnlyWhileAsked'
  OBVIOUS
<1> USE DEF DecisionOnlyWhileAsked, process, files, history
<1>1. Consume => authority'.request = authority.request
  BY DEF Consume, TypeOK
<1>2. CASE LoopConsume \/ ForgetSkipped \/ ApplyForget \/ ApproveSkipped \/ ApplyApprove
           \/ WaitConsume \/ WaitDone
  BY <1>1, <1>2 DEF LoopConsume, ForgetSkipped, ApplyForget, ApproveSkipped, ApplyApprove,
                    WaitConsume, WaitDone
<1>3. CASE DialFail \/ HelloUnknown \/ HelloPinned \/ AuthFailed \/ AuthBroken \/ PairRequired \/ AuthOk
  BY <1>3 DEF DialFail, HelloUnknown, HelloPinned, AuthFailed, AuthBroken, PairRequired,
              EndAttempt, AuthOk
<1>4. CASE SendPoll \/ SessionStopped \/ SessionLost \/ SessionGarbled \/ Pong \/ ImplicitRequest
  BY <1>4 DEF SendPoll, SessionStopped, SessionLost, SessionGarbled, EndSession, Pong, ImplicitRequest
<1>5. CASE ExplicitRequest \/ DecideConsume \/ DecideDone
  BY <1>1, <1>5, RuntimeAssumption DEF ExplicitRequest, DecideConsume, DecideDone, NoAuthority
<1>6. CASE AnyCommand \/ DeepLink \/ PeerCloses \/ WriteBack \/ UNCHANGED serviceVars
  BY <1>6 DEF AnyCommand, DeepLink, Send, PeerCloses, WriteBack, serviceVars
<1>7. CASE Kill \/ Start
  BY <1>7 DEF Kill, Start, NoAuthority
<1> QED BY <1>2, <1>3, <1>4, <1>5, <1>6, <1>7 DEF Next, Worker, System

----------------------------------------------------------------------------
(* The theorems                                                            *)

\* The inductive invariant holds of every behaviour of the service.
THEOREM Inductive == Spec => []InductiveInv
<1>1. Init => InductiveInv
  BY SessionInvInit, ApprovalInvInit, DecisionInit DEF InductiveInv
<1>2. TypeOK /\ InductiveInv /\ [Next]_serviceVars => InductiveInv'
  BY SessionInvNext, ApprovalInvNext, DecisionNext DEF InductiveInv
<1> QED BY <1>1, <1>2, TypeCorrect, PTL DEF Spec

\* No key gets into the registry, the memory pin or onto the disk without an
\* approval that named it.
THEOREM NeverAutoPairedHolds == Spec => []NeverAutoPaired
<1>1. InductiveInv => NeverAutoPaired
  BY DEF InductiveInv, ApprovalInv
<1> QED BY <1>1, Inductive, PTL

\* The session loop only ever runs with a host that is pinned, and signs for
\* the fingerprint of that host.
THEOREM SessionHostPinnedHolds == Spec => []SessionHostPinned
<1>1. InductiveInv => SessionHostPinned
  BY DEF InductiveInv, SessionInv
<1> QED BY <1>1, Inductive, PTL

\* An approval is applied to the host it was given for.
THEOREM HeardApprovalHolds == Spec => []HeardApprovalIsForPending
<1>1. InductiveInv => HeardApprovalIsForPending
  BY DEF InductiveInv, ApprovalInv
<1> QED BY <1>1, Inductive, PTL

----------------------------------------------------------------------------
(* The abstract promise                                                    *)

\* The initial states of the service are initial states of the promise.
LEMMA PromiseInit == Init => Promise!Init
<1> SUFFICES ASSUME Init PROVE Promise!Init
  OBVIOUS
<1>1. Known \in SUBSET approved
  BY DEF Init, Known
<1>2. approved \in SUBSET Keys
  BY DEF Init, Workstations
<1>3. pc \notin SessionPCs
  BY DEF Init, SessionPCs
<1> QED BY <1>1, <1>2, <1>3 DEF Promise!Init

\* Each step of the service is a step of the promise or leaves it alone.
LEMMA PromiseNext ==
    TypeOK /\ InductiveInv /\ [Next]_serviceVars => [Promise!Next]_Promise!hostTrustVars
<1> SUFFICES ASSUME TypeOK, InductiveInv, [Next]_serviceVars
             PROVE  [Promise!Next]_Promise!hostTrustVars
  OBVIOUS
<1> USE DEF SessionPCs, process, files, history
<1>1. ASSUME UNCHANGED <<approved, prefs, portablePub, host>>,
             (pc \in SessionPCs) <=> (pc' \in SessionPCs)
      PROVE  [Promise!Next]_Promise!hostTrustVars
  BY <1>1 DEF Promise!hostTrustVars, Known
<1>2. ASSUME approved' = approved, Known' \subseteq Known,
             pc \notin SessionPCs, pc' \notin SessionPCs
      PROVE  [Promise!Next]_Promise!hostTrustVars
  BY <1>2 DEF Promise!Next, Promise!Revoke
<1>3. ASSUME UNCHANGED <<approved, Known>>, pc' \notin SessionPCs
      PROVE  [Promise!Next]_Promise!hostTrustVars
  BY <1>3 DEF Promise!Next, Promise!Close
<1>4. CASE LoopConsume \/ ForgetSkipped \/ ApproveSkipped \/ WaitConsume \/ WaitDone
           \/ DialFail \/ HelloUnknown \/ AuthFailed \/ AuthBroken \/ PairRequired
  <2>1. UNCHANGED <<approved, Known>>
    BY <1>4 DEF LoopConsume, ForgetSkipped, ApproveSkipped, WaitConsume, WaitDone,
                DialFail, HelloUnknown, AuthFailed, AuthBroken, PairRequired, EndAttempt, Known
  <2>2. pc' \notin SessionPCs
    BY <1>4 DEF LoopConsume, ForgetSkipped, ApproveSkipped, WaitConsume, WaitDone,
                DialFail, HelloUnknown, AuthFailed, AuthBroken, PairRequired, EndAttempt
  <2> QED BY <2>1, <2>2, <1>3
<1>5. CASE ApplyForget
  <2>1. Known' \subseteq Known
    <3>1. CASE host.portable \/ host.pub = NoKey
      BY <1>5, <3>1 DEF ApplyForget, Known
    <3>2. CASE ~host.portable /\ host.pub # NoKey
      <4>1. host.pub \in Keys
        BY <3>2 DEF TypeOK, OptKey
      <4>2. prefs' = Remove(prefs, host.pub) /\ portablePub' = portablePub
        BY <1>5, <3>2 DEF ApplyForget
      <4> QED BY <4>1, <4>2, RegistryKeys DEF TypeOK, Known
    <3> QED BY <3>1, <3>2
  <2> QED BY <1>5, <2>1, <1>2 DEF ApplyForget
<1>6. CASE ApplyApprove
  <2>1. pending.pub \in Keys /\ pending.pub \in approved
    BY <1>6 DEF ApplyApprove, TypeOK, OptKey, InductiveInv, ApprovalInv, HeardApprovalIsForPending
  <2>2. prefs'.list \subseteq prefs.list \cup {pending.pub} /\ prefs'.legacy = prefs.legacy
    BY <1>6, <2>1, RegistryKeys DEF ApplyApprove, TypeOK
  <2>3. portablePub' \in {portablePub, pending.pub}
    BY <1>6 DEF ApplyApprove
  <2>4. Known' \subseteq Known \cup {pending.pub}
    BY <2>2, <2>3 DEF Known
  <2> QED BY <1>6, <2>1, <2>4 DEF ApplyApprove, Promise!Next, Promise!Pin
<1>7. CASE HelloPinned
  <2>1. prefs'.list \subseteq prefs.list \cup {prefs.legacy} /\ prefs'.legacy = prefs.legacy
    BY <1>7, RegistryKeys DEF HelloPinned, TypeOK
  <2>2. Known' \subseteq Known
    BY <1>7, <2>1 DEF HelloPinned, Known
  <2> QED BY <1>7, <2>2, <1>2 DEF HelloPinned
<1>8. CASE AuthOk
  <2>1. host.pub \in Known /\ host.pub \in Keys
    BY <1>8, RegistryAssumption
    DEF AuthOk, InductiveInv, SessionInv, Pinned, IsTrusted, Known, TypeOK, Prefs, OptKey
  <2>2. UNCHANGED <<approved, Known, host>> /\ pc \notin SessionPCs /\ pc' \in SessionPCs
    BY <1>8 DEF AuthOk, Known
  <2> QED BY <2>1, <2>2 DEF Promise!Next, Promise!Open
<1>9. CASE SessionStopped \/ SessionLost \/ SessionGarbled
  BY <1>9, <1>3 DEF SessionStopped, SessionLost, SessionGarbled, EndSession, Known
<1>10. CASE SendPoll \/ Pong \/ ImplicitRequest \/ ExplicitRequest \/ DecideConsume \/ DecideDone
  BY <1>10, <1>1 DEF SendPoll, Pong, ImplicitRequest, ExplicitRequest, DecideConsume, DecideDone
<1>11. CASE AnyCommand \/ DeepLink
  <2>1. UNCHANGED <<pc, host, Known>>
    BY <1>11 DEF AnyCommand, DeepLink, Send, Known
  <2>2. approved' = approved \/ \E k \in Keys : approved' = approved \cup {k}
    BY <1>11, RegistryAssumption DEF AnyCommand, DeepLink, Send, OptKey
  <2> QED BY <2>1, <2>2 DEF Promise!Next, Promise!Ask, Promise!hostTrustVars
<1>12. CASE PeerCloses \/ WriteBack \/ Start \/ UNCHANGED serviceVars
  BY <1>12, <1>1 DEF PeerCloses, WriteBack, Start, serviceVars
<1>13. CASE Kill
  <2>1. Known' \subseteq approved /\ approved' = approved /\ pc' \notin SessionPCs
    BY <1>13 DEF Kill, Known, InductiveInv, ApprovalInv, NeverAutoPaired
  <2> QED BY <2>1 DEF Promise!Next, Promise!Restart
<1> QED
  BY <1>4, <1>5, <1>6, <1>7, <1>8, <1>9, <1>10, <1>11, <1>12, <1>13 DEF Next, Worker, System

\* What is decided is forgotten when the request closes and before the next one opens.
LEMMA NothingDecidedNext ==
    TypeOK /\ DecisionOnlyWhileAsked /\ NothingDecided /\ [Next]_serviceVars => NothingDecided'
<1> SUFFICES ASSUME TypeOK, DecisionOnlyWhileAsked, NothingDecided, [Next]_serviceVars
             PROVE  NothingDecided'
  OBVIOUS
<1> USE DEF NothingDecided, process, files, history
<1>1. Consume => NothingDecided'
  BY DEF Consume, DecisionHeard, TypeOK
<1>2. CASE LoopConsume \/ WaitConsume \/ DecideConsume
  BY <1>1, <1>2 DEF LoopConsume, WaitConsume, DecideConsume
<1>3. CASE ExplicitRequest
  BY <1>3 DEF ExplicitRequest
<1>4. CASE DecideDone \/ Kill
  BY <1>4 DEF DecideDone, Kill, NoAuthority
<1>5. ASSUME UNCHANGED authority PROVE NothingDecided'
  BY <1>5
<1>6. CASE ForgetSkipped \/ ApplyForget \/ ApproveSkipped \/ ApplyApprove \/ WaitDone
           \/ DialFail \/ HelloUnknown \/ HelloPinned \/ AuthFailed \/ AuthBroken
           \/ PairRequired \/ AuthOk
  BY <1>5, <1>6 DEF ForgetSkipped, ApplyForget, ApproveSkipped, ApplyApprove, WaitDone, DialFail,
     HelloUnknown, HelloPinned, AuthFailed, AuthBroken, PairRequired, EndAttempt, AuthOk
<1>7. CASE SendPoll \/ SessionStopped \/ SessionLost \/ SessionGarbled \/ Pong \/ ImplicitRequest
           \/ AnyCommand \/ DeepLink \/ PeerCloses \/ WriteBack \/ Start \/ UNCHANGED serviceVars
  BY <1>5, <1>7 DEF SendPoll, SessionStopped, SessionLost, SessionGarbled, EndSession, Pong,
     ImplicitRequest, AnyCommand, DeepLink, Send, PeerCloses, WriteBack, Start, serviceVars
<1> QED BY <1>2, <1>3, <1>4, <1>6, <1>7 DEF Next, Worker, System

\* Reading the command file takes the answer, if there is one, as the slot says.
LEMMA SlotTakes ==
    ASSUME TypeOK, NothingDecided, authority.decision # -1, Consume
    PROVE  Decisions!Take \/ UNCHANGED Decisions!slotVars
<1>1. cmdFile' = NoCommand
  BY DEF Consume
<1>2. CASE cmdFile.cmd \notin {"AUTH_APPROVE", "AUTH_DENY"}
  <2>1. authority' = authority
    BY <1>2 DEF Consume, DecisionHeard
  <2> QED BY <1>1, <1>2, <2>1 DEF Decisions!slotVars, NoCommand
<1>3. CASE cmdFile.cmd \in {"AUTH_APPROVE", "AUTH_DENY"}
  <2>1. cmdFile.binding # NoRequest
    BY RuntimeAssumption DEF TypeOK, Command, OptKey
  <2>2. authority'.decision = IF cmdFile.binding # authority.request THEN authority.decision
                              ELSE IF cmdFile.cmd = "AUTH_APPROVE" THEN 1 ELSE -1
    BY <1>3, <2>1 DEF Consume, DecisionHeard, TypeOK
  <2>3. authority'.request = authority.request
    BY DEF Consume, TypeOK
  <2>4. cmdFile # Decisions!NoAnswer
    BY <1>3 DEF Decisions!NoAnswer
  <2> QED BY <1>1, <1>3, <2>2, <2>3, <2>4 DEF Decisions!Take, Decisions!NoAnswer, NoCommand
<1> QED BY <1>2, <1>3

\* Each step of the service is a step of the decision slot or leaves it alone.
LEMMA DecisionsNext ==
    TypeOK /\ DecisionOnlyWhileAsked /\ NothingDecided /\ [Next]_serviceVars
        => [Decisions!Next]_Decisions!slotVars
<1> SUFFICES ASSUME TypeOK, DecisionOnlyWhileAsked, NothingDecided, [Next]_serviceVars
             PROVE  [Decisions!Next]_Decisions!slotVars
  OBVIOUS
<1> USE DEF process, files, history
<1>1. ASSUME UNCHANGED <<authority, cmdFile>>
      PROVE  [Decisions!Next]_Decisions!slotVars
  BY <1>1 DEF Decisions!slotVars
<1>2. CASE LoopConsume \/ WaitConsume \/ DecideConsume
  <2>1. authority.decision # -1 /\ Consume
    BY <1>2 DEF LoopConsume, WaitConsume, DecideConsume, DecisionOnlyWhileAsked, NothingDecided
  <2> QED BY <2>1, SlotTakes DEF Decisions!Next
<1>3. CASE ExplicitRequest
  <2>1. Decisions!Open
    BY <1>3 DEF ExplicitRequest, Decisions!Open, DecisionOnlyWhileAsked
  <2> QED BY <2>1 DEF Decisions!Next
<1>4. CASE DecideDone
  <2>1. Decisions!Close
    BY <1>4 DEF DecideDone, NoAuthority, Decisions!Close, DecisionOnlyWhileAsked
  <2> QED BY <2>1 DEF Decisions!Next
<1>5. CASE Kill
  <2>1. CASE authority.request = NoRequest
    BY <1>5, <2>1 DEF Kill, NoAuthority, NothingDecided, Decisions!slotVars
  <2>2. CASE authority.request # NoRequest
    <3>1. Decisions!Close
      BY <1>5, <2>2 DEF Kill, NoAuthority, Decisions!Close
    <3> QED BY <3>1 DEF Decisions!Next
  <2> QED BY <2>1, <2>2
<1>6. CASE AnyCommand \/ DeepLink
  <2>1. UNCHANGED authority
    BY <1>6 DEF AnyCommand, DeepLink, Send
  <2>2. \/ cmdFile' \in Decisions!Answers
        \/ cmdFile'.cmd \notin {"AUTH_APPROVE", "AUTH_DENY"}
    BY <1>6 DEF AnyCommand, DeepLink, Send, Decisions!Answers
  <2>3. Decisions!Write
    BY <2>1, <2>2 DEF Decisions!Write, Decisions!NoAnswer, Decisions!Answers
  <2> QED BY <2>3 DEF Decisions!Next
<1>7. CASE ForgetSkipped \/ ApplyForget \/ ApproveSkipped \/ ApplyApprove \/ WaitDone
           \/ DialFail \/ HelloUnknown \/ HelloPinned \/ AuthFailed \/ AuthBroken
           \/ PairRequired \/ AuthOk
  BY <1>1, <1>7 DEF ForgetSkipped, ApplyForget, ApproveSkipped, ApplyApprove, WaitDone, DialFail,
     HelloUnknown, HelloPinned, AuthFailed, AuthBroken, PairRequired, EndAttempt, AuthOk
<1>8. CASE SendPoll \/ SessionStopped \/ SessionLost \/ SessionGarbled \/ Pong \/ ImplicitRequest
           \/ PeerCloses \/ WriteBack \/ Start \/ UNCHANGED serviceVars
  BY <1>1, <1>8 DEF SendPoll, SessionStopped, SessionLost, SessionGarbled, EndSession, Pong,
     ImplicitRequest, PeerCloses, WriteBack, Start, serviceVars
<1> QED BY <1>2, <1>3, <1>4, <1>5, <1>6, <1>7, <1>8 DEF Next, Worker, System

\* The service keeps its promises: trust follows approval, sessions follow trust, and an
\* answer of the owner decides the open request that it names or nothing.
THEOREM PromiseHolds == Spec => PromiseKept
<1>1. Init => Promise!Init /\ Decisions!Init /\ NothingDecided
  BY PromiseInit DEF Init, NoAuthority, NoCommand, NothingDecided, Decisions!Init,
                     Decisions!NoAnswer
<1>2. TypeOK /\ InductiveInv /\ [Next]_serviceVars => [Promise!Next]_Promise!hostTrustVars
  BY PromiseNext
<1>3. TypeOK /\ InductiveInv /\ NothingDecided /\ [Next]_serviceVars => NothingDecided'
  BY NothingDecidedNext DEF InductiveInv
<1>4. TypeOK /\ InductiveInv /\ NothingDecided /\ [Next]_serviceVars
          => [Decisions!Next]_Decisions!slotVars
  BY DecisionsNext DEF InductiveInv
<1> QED BY <1>1, <1>2, <1>3, <1>4, TypeCorrect, Inductive, PTL
        DEF Spec, PromiseKept, Promise!Spec, Decisions!Spec
----------------------------------------------------------------------------
(* How keys become known                                                   *)

\* Only an applied approval and a death of the process can add to the known keys.
LEMMA KnownNext ==
    ASSUME TypeOK, [Next]_serviceVars
    PROVE  \/ Known' \subseteq Known
           \/ ApplyApprove /\ Known' \subseteq Known \cup {pending.pub}
           \/ Kill
<1> USE DEF process, files, history
<1>1. ASSUME UNCHANGED <<prefs, portablePub>> PROVE Known' \subseteq Known
  BY <1>1 DEF Known
<1>2. CASE LoopConsume \/ ForgetSkipped \/ ApproveSkipped \/ WaitConsume \/ WaitDone
           \/ DialFail \/ HelloUnknown \/ AuthFailed \/ AuthBroken \/ PairRequired
  BY <1>1, <1>2 DEF LoopConsume, ForgetSkipped, ApproveSkipped, WaitConsume, WaitDone,
                    DialFail, HelloUnknown, AuthFailed, AuthBroken, PairRequired, EndAttempt
<1>3. CASE AuthOk \/ SendPoll \/ Pong \/ ImplicitRequest \/ ExplicitRequest \/ DecideConsume
           \/ DecideDone \/ SessionStopped \/ SessionLost \/ SessionGarbled
  BY <1>1, <1>3 DEF AuthOk, SendPoll, Pong, ImplicitRequest, ExplicitRequest, DecideConsume,
                    DecideDone, SessionStopped, SessionLost, SessionGarbled, EndSession
<1>4. CASE AnyCommand \/ DeepLink \/ PeerCloses \/ WriteBack \/ Start \/ UNCHANGED serviceVars
  BY <1>1, <1>4 DEF AnyCommand, DeepLink, Send, PeerCloses, WriteBack, Start, serviceVars
<1>5. CASE ApplyForget
  <2>1. CASE host.portable \/ host.pub = NoKey
    BY <1>5, <2>1 DEF ApplyForget, Known
  <2>2. CASE ~host.portable /\ host.pub # NoKey
    <3>1. host.pub \in Keys
      BY <2>2 DEF TypeOK, OptKey
    <3>2. prefs' = Remove(prefs, host.pub) /\ portablePub' = portablePub
      BY <1>5, <2>2 DEF ApplyForget
    <3> QED BY <3>1, <3>2, RegistryKeys DEF TypeOK, Known
  <2> QED BY <2>1, <2>2
<1>6. CASE ApplyApprove
  <2>1. pending.pub \in Keys
    BY <1>6 DEF ApplyApprove, TypeOK, OptKey
  <2>2. prefs'.list \subseteq prefs.list \cup {pending.pub} /\ prefs'.legacy = prefs.legacy
    BY <1>6, <2>1, RegistryKeys DEF ApplyApprove, TypeOK
  <2>3. portablePub' \in {portablePub, pending.pub}
    BY <1>6 DEF ApplyApprove
  <2> QED BY <1>6, <2>2, <2>3 DEF Known
<1>7. CASE HelloPinned
  <2>1. prefs'.list \subseteq prefs.list \cup {prefs.legacy} /\ prefs'.legacy = prefs.legacy
    BY <1>7, RegistryKeys DEF HelloPinned, TypeOK
  <2> QED BY <1>7, <2>1 DEF HelloPinned, Known
<1> QED BY <1>2, <1>3, <1>4, <1>5, <1>6, <1>7 DEF Next, Worker, System

\* Only an applied revocation, a portable approval and a death of the process take from the
\* known keys, and the first two one key at most.
LEMMA KnownLost ==
    ASSUME TypeOK, [Next]_serviceVars
    PROVE  \/ Known \subseteq Known'
           \/ ApplyForget /\ Known \subseteq Known' \cup {Revoked}
           \/ ApplyApprove /\ pending.portable /\ Known \subseteq Known' \cup {portablePub}
           \/ Kill
<1> USE DEF process, files, history
<1>1. ASSUME UNCHANGED <<prefs, portablePub>> PROVE Known \subseteq Known'
  BY <1>1 DEF Known
<1>2. CASE LoopConsume \/ ForgetSkipped \/ ApproveSkipped \/ WaitConsume \/ WaitDone
           \/ DialFail \/ HelloUnknown \/ AuthFailed \/ AuthBroken \/ PairRequired
  BY <1>1, <1>2 DEF LoopConsume, ForgetSkipped, ApproveSkipped, WaitConsume, WaitDone,
                    DialFail, HelloUnknown, AuthFailed, AuthBroken, PairRequired, EndAttempt
<1>3. CASE AuthOk \/ SendPoll \/ Pong \/ ImplicitRequest \/ ExplicitRequest \/ DecideConsume
           \/ DecideDone \/ SessionStopped \/ SessionLost \/ SessionGarbled
  BY <1>1, <1>3 DEF AuthOk, SendPoll, Pong, ImplicitRequest, ExplicitRequest, DecideConsume,
                    DecideDone, SessionStopped, SessionLost, SessionGarbled, EndSession
<1>4. CASE AnyCommand \/ DeepLink \/ PeerCloses \/ WriteBack \/ Start \/ UNCHANGED serviceVars
  BY <1>1, <1>4 DEF AnyCommand, DeepLink, Send, PeerCloses, WriteBack, Start, serviceVars
<1>5. CASE ApplyForget
  <2>1. CASE host.portable
    BY <1>5, <2>1 DEF ApplyForget, Known, Revoked
  <2>2. CASE ~host.portable /\ host.pub = NoKey
    BY <1>1, <1>5, <2>2 DEF ApplyForget
  <2>3. CASE ~host.portable /\ host.pub # NoKey
    <3>1. host.pub \in Keys
      BY <2>3 DEF TypeOK, OptKey
    <3>2. prefs' = Remove(prefs, host.pub) /\ portablePub' = portablePub
      BY <1>5, <2>3 DEF ApplyForget
    <3>3. /\ prefs.list \subseteq prefs'.list \cup {host.pub}
          /\ prefs.legacy \in {prefs'.legacy, host.pub}
      BY <3>1, <3>2, RegistryKeys DEF TypeOK
    <3> QED BY <1>5, <2>3, <3>2, <3>3 DEF Known, Revoked
  <2> QED BY <2>1, <2>2, <2>3
<1>6. CASE ApplyApprove
  <2>1. pending.pub \in Keys
    BY <1>6 DEF ApplyApprove, TypeOK, OptKey
  <2>2. CASE pending.portable
    BY <1>6, <2>2 DEF ApplyApprove, Known
  <2>3. CASE ~pending.portable
    <3>1. prefs' = Add(prefs, pending.pub) /\ portablePub' = portablePub
      BY <1>6, <2>3 DEF ApplyApprove
    <3>2. prefs.list \subseteq prefs'.list /\ prefs'.legacy = prefs.legacy
      BY <2>1, <3>1, RegistryKeys DEF TypeOK
    <3> QED BY <3>1, <3>2 DEF Known
  <2> QED BY <2>2, <2>3
<1>7. CASE HelloPinned
  <2>1. prefs.list \subseteq prefs'.list /\ prefs'.legacy = prefs.legacy
    BY <1>7, RegistryKeys DEF HelloPinned, TypeOK
  <2> QED BY <1>7, <2>1 DEF HelloPinned, Known
<1> QED BY <1>2, <1>3, <1>4, <1>5, <1>6, <1>7 DEF Next, Worker, System

\* A key that becomes known was approved in so many words, a key that is lost was revoked or
\* replaced by the owner, and nothing else but the death of the process changes trust.
THEOREM TrustChangesByCommandHolds == Spec => TrustChangesByCommand
<1>1. TypeOK /\ [Next]_serviceVars 
        => [\A k \in Keys : GainedByApproval(k) /\ LostByRevocation(k)]_serviceVars
  <2> SUFFICES ASSUME TypeOK, [Next]_serviceVars, NEW k \in Keys
               PROVE  GainedByApproval(k) /\ LostByRevocation(k)
    OBVIOUS
  <2>1. Kill => kills' # kills
    <3>1. Kill => kills' = kills + 1 /\ kills \in Nat
      BY DEF Kill, TypeOK
    <3> QED BY <3>1
  <2>2. GainedByApproval(k)
    <3>1. CASE Known' \subseteq Known
      BY <3>1 DEF GainedByApproval
    <3>2. CASE ApplyApprove /\ Known' \subseteq Known \cup {pending.pub}
      BY <3>2 DEF ApplyApprove, GainedByApproval
    <3> QED BY <2>1, <3>1, <3>2, KnownNext DEF GainedByApproval
  <2>3. LostByRevocation(k)
    <3>1. CASE Known \subseteq Known'
      BY <3>1 DEF LostByRevocation
    <3>2. CASE ApplyForget /\ Known \subseteq Known' \cup {Revoked}
      BY <3>2 DEF ApplyForget, LostByRevocation
    <3>3. CASE ApplyApprove /\ pending.portable /\ Known \subseteq Known' \cup {portablePub}
      BY <3>3 DEF ApplyApprove, LostByRevocation
    <3> QED BY <2>1, <3>1, <3>2, <3>3, KnownLost DEF LostByRevocation
  <2> QED BY <2>2, <2>3
<1> QED BY <1>1, TypeCorrect, PTL DEF Spec, TrustChangesByCommand

\* A session without its workstation goes where it ends, whatever else happens.
LEMMA ClosedSessionNext ==
    ASSUME TypeOK, SessionInv, [Next]_serviceVars, ~link, pc \in SessionPCs
    PROVE  /\ pc' = pc \/ SessionLeft' < SessionLeft
           /\ authority'.request \in {authority.request, NoRequest}
           /\ IF pc' \in SessionPCs THEN ~link' ELSE state' # Trusted
<1> USE DEF SessionPCs, SessionLeft, process, files, history
<1>1. Consume => authority'.request = authority.request
  BY DEF Consume, TypeOK
<1>2. state = Trusted
  BY DEF SessionInv, SessionHostPinned
<1>3. CASE SendPoll
  BY <1>3 DEF SendPoll
<1>4. CASE SessionStopped \/ SessionLost
  BY <1>2, <1>4 DEF SessionStopped, SessionLost, EndSession, SetStatus, Offline, Trusted
<1>5. CASE DecideConsume
  BY <1>1, <1>5 DEF DecideConsume
<1>6. CASE DecideDone
  BY <1>6 DEF DecideDone, NoAuthority
<1>7. CASE AnyCommand \/ DeepLink \/ WriteBack \/ UNCHANGED serviceVars
  BY <1>7 DEF AnyCommand, DeepLink, Send, WriteBack, serviceVars
<1>8. CASE Kill
  BY <1>8 DEF Kill, NoAuthority, Offline, Trusted
<1>9. /\ ~LoopConsume /\ ~ForgetSkipped /\ ~ApplyForget /\ ~ApproveSkipped /\ ~ApplyApprove
      /\ ~WaitConsume /\ ~WaitDone /\ ~DialFail /\ ~HelloUnknown /\ ~HelloPinned
      /\ ~AuthFailed /\ ~AuthBroken /\ ~PairRequired /\ ~AuthOk
      /\ ~SessionGarbled /\ ~Pong /\ ~ImplicitRequest /\ ~ExplicitRequest
      /\ ~PeerCloses /\ ~Start
  BY DEF LoopConsume, ForgetSkipped, ApplyForget, ApproveSkipped, ApplyApprove,
         WaitConsume, WaitDone, DialFail, HelloUnknown, HelloPinned, AuthFailed, AuthBroken,
         PairRequired, AuthOk, EndAttempt, SessionGarbled, Pong, ImplicitRequest,
         ExplicitRequest, PeerCloses, Start
<1> QED BY <1>3, <1>4, <1>5, <1>6, <1>7, <1>8, <1>9 DEF Next, Worker, System

\* A disconnect leaves the worker at most three steps of the session, none of which
\* serves anything: what DisconnectRevokes needs besides a fair thread.
THEOREM ClosedSessionEndsHolds == Spec => ClosedSessionEnds
<1>1. TypeOK /\ SessionInv /\ [Next]_serviceVars =>
        [~link /\ pc \in SessionPCs =>
            /\ pc' = pc \/ SessionLeft' < SessionLeft
            /\ authority'.request \in {authority.request, NoRequest}
            /\ IF pc' \in SessionPCs THEN ~link' ELSE state' # Trusted]_serviceVars
  BY ClosedSessionNext
<1>2. InductiveInv => SessionInv
  BY DEF InductiveInv
<1> QED BY <1>1, <1>2, TypeCorrect, Inductive, PTL DEF Spec, ClosedSessionEnds

----------------------------------------------------------------------------
(* The service and the Activity together                                   *)

\* What the Activity writes is always one of the commands the service expects.
LEMMA ActivityIsEnvironment ==
    ASSUME TypeOK, UITypeOK, Activity
    PROVE  [AnyCommand \/ DeepLink]_serviceVars
<1>1. CASE Refresh \/ Redraw \/ TouchBegin \/ TouchElsewhere \/ TouchNothing
  BY <1>1 DEF Refresh, Redraw, TouchBegin, TouchElsewhere, TouchNothing
<1>2. CASE TouchApprove
  <2>1. seen.pending \in OptKey
    BY DEF UITypeOK, Snapshots
  <2> QED BY <1>2, <2>1 DEF TouchApprove, TouchEnd, AnyCommand
<1>3. CASE TouchForget
  BY <1>3 DEF TouchForget, TouchEnd, AnyCommand
<1>4. CASE TouchDecision
  <2>1. seen.request \in Requests
    BY <1>4 DEF TouchDecision, UITypeOK, Snapshots, OptRequest
  <2> QED BY <1>4, <2>1 DEF TouchDecision, TouchEnd, AnyCommand
<1>5. CASE DeepLink /\ UNCHANGED uiVars
  BY <1>5
<1> QED BY <1>1, <1>2, <1>3, <1>4, <1>5 DEF Activity

\* Every step of the runtime is a step of the service or of its environment.
LEMMA RuntimeStepIsServiceStep ==
    TypeOK /\ UITypeOK /\ [RuntimeNext]_vars => [Next]_serviceVars
<1> SUFFICES ASSUME TypeOK, UITypeOK, [RuntimeNext]_vars PROVE [Next]_serviceVars
  OBVIOUS
<1>1. CASE ServiceStep
  BY <1>1 DEF ServiceStep, Next
<1>2. CASE Activity
  BY <1>2, ActivityIsEnvironment DEF Next
<1>3. CASE UNCHANGED vars
  BY <1>3 DEF vars
<1> QED BY <1>1, <1>2, <1>3 DEF RuntimeNext

\* No step of either process leaves the types of the screen, the tap and the count.
LEMMA UITypeNext == TypeOK /\ UITypeOK /\ [RuntimeNext]_vars => UITypeOK'
<1> SUFFICES ASSUME TypeOK, UITypeOK, [RuntimeNext]_vars PROVE UITypeOK'
  OBVIOUS
<1> USE DEF UITypeOK, serviceVars, uiVars
<1>1. ASSUME Drawn PROVE seen' \in Snapshots /\ screen' \in Screens
  BY <1>1 DEF Drawn, Screens, TypeOK, Snapshots
<1>2. CASE ServiceStep
  BY <1>2 DEF ServiceStep
<1>3. CASE Refresh \/ Redraw
  BY <1>1, <1>3 DEF Refresh, Redraw
<1>4. CASE TouchBegin
  BY <1>4, TapAssumption DEF TouchBegin, TypeOK
<1>5. CASE TouchApprove \/ TouchDecision \/ TouchElsewhere \/ TouchForget
  <2>1. TouchEnd
    BY <1>5 DEF TouchApprove, TouchDecision, TouchElsewhere, TouchForget
  <2> QED BY <1>1, <2>1 DEF TouchEnd
<1>6. CASE TouchNothing
  BY <1>6 DEF TouchNothing
<1>7. CASE (DeepLink /\ UNCHANGED uiVars) \/ UNCHANGED vars
  BY <1>7 DEF vars
<1> QED BY <1>2, <1>3, <1>4, <1>5, <1>6, <1>7 DEF RuntimeNext, Activity

\* The whole runtime implements the service with an arbitrary UI.
THEOREM RuntimeImplementsService == RuntimeSpec => ServiceSpec /\ []UITypeOK
<1>1. RuntimeInit => Init
  BY DEF RuntimeInit
<1>2. RuntimeInit => TypeOK /\ UITypeOK
  <2> SUFFICES ASSUME RuntimeInit PROVE TypeOK /\ UITypeOK
    OBVIOUS
  <2>1. TypeOK
    BY TypeInit DEF RuntimeInit
  <2>2. seen \in Snapshots
    BY <2>1 DEF RuntimeInit, UIInit, TypeOK
  <2>3. screen \in Screens
    BY <2>2 DEF RuntimeInit, UIInit, Screens, Snapshots
  <2>4. taps \in 0 .. MaxTaps
    BY TapAssumption DEF RuntimeInit, UIInit
  <2>5. touching \in BOOLEAN
    BY DEF RuntimeInit, UIInit
  <2> QED BY <2>1, <2>2, <2>3, <2>4, <2>5 DEF UITypeOK
<1>3. TypeOK /\ UITypeOK /\ [RuntimeNext]_vars => TypeOK' /\ UITypeOK'
  BY RuntimeStepIsServiceStep, TypeNext, UITypeNext
<1>4. TypeOK /\ UITypeOK /\ [RuntimeNext]_vars => [Next]_serviceVars
  BY RuntimeStepIsServiceStep
<1> QED BY <1>1, <1>2, <1>3, <1>4, PTL DEF RuntimeSpec, ServiceSpec, Spec

\* What the screen and the Activity's globals hold is something that can be published.
THEOREM UITypeCorrect == RuntimeSpec => []UITypeOK
BY RuntimeImplementsService, PTL

\* In the composed runtime too no host is trusted without an approval for it.
THEOREM RuntimeNeverAutoPairs == RuntimeSpec => []NeverAutoPaired
BY RuntimeImplementsService, NeverAutoPairedHolds, PTL DEF ServiceSpec
====
