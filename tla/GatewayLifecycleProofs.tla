----------------------- MODULE GatewayLifecycleProofs -----------------------
(***************************************************************************)
(* What GatewayLifecycle promises for any number of clients and processes, *)
(* any budget of mishaps and every routing mode.                           *)
(***************************************************************************)
EXTENDS GatewayLifecycle, TLAPS

(* How the helpers act on the types.                                       *)

LEMMA WriteAheadType ==
  ASSUME NEW s \in State
  PROVE  /\ WriteAhead(s) \in State
         /\ WriteAhead(s).lifecycle = s.lifecycle /\ WriteAhead(s).ns = s.ns
         /\ WriteAhead(s).fwdBefore = s.fwdBefore
         /\ WriteAhead(s).intents = WriteAhead(NoState).intents
BY DEF WriteAhead, State, NoState, Effects

LEMMA NoTrackType == NoTrack \in Track
BY LifecycleAssumption DEF LifecycleAssumption, NoTrack, Track

LEMMA NoStateType == NoState \in State
BY NoTrackType DEF NoState, State

LEMMA NoOpType == NoOp \in Op
BY NoTrackType DEF NoOp, Op, PCs, Commands

LEMMA SpendType ==
  ASSUME budget \in [Kinds -> Nat], NEW k \in Kinds, Spend(k)
  PROVE  budget' \in [Kinds -> Nat]
BY DEF Spend

LEMMA SpendTwiceType ==
  ASSUME budget \in [Kinds -> Nat], NEW k \in Kinds, NEW n \in Nat, budget[k] >= n
  PROVE  [budget EXCEPT ![k] = @ - n] \in [Kinds -> Nat]
OBVIOUS

LEMMA GotoType ==
  ASSUME op \in Op, NEW p \in PCs
  PROVE  /\ Goto(p) => op' \in Op /\ op'.pc = p /\ op'.failed = op.failed
         /\ GotoFail(p) => op' \in Op /\ op'.pc = p /\ op'.failed = TRUE
BY DEF Op, Goto, GotoFail

LEMMA NextIdType == FreshIds # {} => NextId \in FreshIds /\ NextId \in ProcIds /\ NextId \in 0..MaxProcs
BY LifecycleAssumption DEF NextId, FreshIds, ProcIds, LifecycleAssumption

LEMMA KillType ==
  ASSUME TypeOK, NEW i \in ProcIds, Kill(i)
  PROVE  /\ proc' \in [ProcIds -> Services \cup {"free", "stranger"}]
         /\ net' \subseteq net
BY DEF Kill, KeepTUNRoute, TypeOK
LEMMA SnapshotType ==
  ASSUME ns \in Nat, Snapshot
  PROVE  /\ mem' \in State
         /\ mem'.lifecycle = "starting" /\ mem'.ns = ns
         /\ mem'.fwdBefore = ("forwarding" \in net)
<1> DEFINE b == "forwarding" \in net
<1>1. b \in BOOLEAN
  OBVIOUS
<1>2. mem' = [NoState EXCEPT !.lifecycle = "starting", !.ns = ns, !.fwdBefore = b]
  BY DEF Snapshot
<1> HIDE DEF b
<1>3. mem' \in State /\ mem'.lifecycle = "starting" /\ mem'.ns = ns /\ mem'.fwdBefore = b
  BY <1>1, <1>2, NoTrackType DEF NoState, State
<1> QED
  BY <1>3 DEF b

\* Where Goto may go.
LEMMA Places ==
  /\ StartPCs \subseteq PCs /\ DownPCs \subseteq PCs /\ RestartPCs \subseteq PCs
  /\ \A p \in DOMAIN AfterSave : AfterSave[p] \in StartPCs
  /\ \A s \in Services : SaveOf[s] \in StartPCs
BY DEF PCs, StartPCs, AfterSave, SaveOf, Services

\* A state keeps its type, and what recovery goes by, when a flag or a PID changes.
LEMMA UpdateType ==
  ASSUME NEW s \in State
  PROVE  /\ \A f \in SUBSET Effects :
              /\ [s EXCEPT !.flags = f] \in State
              /\ [s EXCEPT !.flags = f].lifecycle = s.lifecycle /\ [s EXCEPT !.flags = f].ns = s.ns
              /\ [s EXCEPT !.flags = f].fwdBefore = s.fwdBefore
              /\ [s EXCEPT !.flags = f].intents = s.intents
         /\ \A x \in Services, t \in Track :
              /\ [s EXCEPT !.pid[x] = t] \in State
              /\ [s EXCEPT !.pid[x] = t].lifecycle = s.lifecycle /\ [s EXCEPT !.pid[x] = t].ns = s.ns
              /\ [s EXCEPT !.pid[x] = t].fwdBefore = s.fwdBefore
              /\ [s EXCEPT !.pid[x] = t].intents = s.intents
BY DEF State

LEMMA LifecycleUpdateType ==
  ASSUME NEW s \in State, NEW x \in Services, NEW t \in Track,
         NEW l \in {"none", "starting", "running", "stopping", "cleanup"}
  PROVE  [s EXCEPT !.pid[x] = t, !.lifecycle = l] \in State
BY DEF State

LEMMA FlagsUpdateType ==
  ASSUME NEW s \in State, NEW x \in Services, NEW t \in Track, NEW f \in SUBSET Effects
  PROVE  LET u == [s EXCEPT !.pid[x] = t, !.flags = f]
         IN  /\ u \in State /\ u.lifecycle = s.lifecycle /\ u.ns = s.ns
             /\ u.fwdBefore = s.fwdBefore /\ u.intents = s.intents
BY DEF State

LEMMA FinishType ==
  ASSUME Finish
  PROVE  holder' \in Clients \cup {NoClient} /\ op' \in Op /\ mem' \in State
BY NoOpType, NoStateType DEF Finish

LEMMA StartStepType == TypeOK /\ StartStep => TypeOK'
<1> SUFFICES ASSUME TypeOK, StartStep PROVE TypeOK'
  OBVIOUS
<1> USE DEF TypeOK, disk, Kinds
<1>0. \A e \in Effects : mem.flags \cup {e} \in SUBSET Effects
  BY DEF State
<1>1. CASE Prepare
  BY <1>1 DEF Prepare, Op, PCs, StartPCs
<1>2. CASE PrepareFails
  BY <1>2, FinishType, SpendType DEF PrepareFails
<1>3. CASE Snapshot
  <2>1. mem' \in State
    BY <1>3, SnapshotType
  <2> QED
    BY <1>3, <2>1, GotoType DEF Snapshot, PCs, StartPCs
<1>4. CASE SnapshotFails
  BY <1>4, FinishType, SpendType DEF SnapshotFails
<1>5. CASE SaveStartingFails
  <2>1. budget' \in [Kinds -> Nat]
    BY <1>5, SpendType DEF SaveStartingFails
  <2> QED
    BY <1>5, <2>1, FinishType, WriteAheadType DEF SaveStartingFails
<1>6. CASE SaveStep
  <2>1. op' \in Op
    BY <1>6, GotoType, Places DEF SaveStep
  <2> QED
    BY <1>6, <2>1, WriteAheadType DEF SaveStep, Save
<1>7. CASE SaveStepFails
  <2>1. budget' \in [Kinds -> Nat]
    BY <1>7, SpendType DEF SaveStepFails, SaveFails
  <2> QED
    BY <1>7, <2>1, GotoType, WriteAheadType DEF SaveStepFails, SaveFails, PCs, DownPCs
<1>8. CASE EnableForwarding
  <2>1. mem' \in State
    BY <1>8, <1>0, UpdateType DEF EnableForwarding, Effects
  <2> QED
    BY <1>8, <2>1, GotoType DEF EnableForwarding, PCs, StartPCs, Pieces
<1>9. CASE StepFails
  BY <1>9, GotoType, SpendType DEF StepFails, PCs, DownPCs
<1>10. ASSUME NEW s \in Services, StartService(s) PROVE TypeOK'
  <2>1. op' \in Op
    BY <1>10, GotoType, Places DEF StartService
  <2>2. CASE UNCHANGED <<proc, mem>>
    BY <1>10, <2>1, <2>2 DEF StartService
  <2>3. CASE ~UNCHANGED <<proc, mem>>
    <3>1. NextId \in ProcIds /\ [id |-> NextId, known |-> TRUE] \in Track
      BY <1>10, <2>3, NextIdType DEF StartService, Track
    <3>2. PICK l \in {"running", mem.lifecycle} :
            mem' = [mem EXCEPT !.pid[s] = [id |-> NextId, known |-> TRUE], !.lifecycle = l]
      BY <1>10, <2>3 DEF StartService
    <3>3. l \in {"none", "starting", "running", "stopping", "cleanup"}
      BY DEF State
    <3>4. mem' \in State
      BY <1>10, <3>1, <3>2, <3>3, LifecycleUpdateType
    <3> QED
      BY <1>10, <2>1, <2>3, <3>1, <3>4 DEF StartService
  <2> QED
    BY <2>2, <2>3
<1>11. ASSUME NEW s \in Services, StartServiceUnidentified(s) PROVE TypeOK'
  <2>1. NextId \in ProcIds /\ [id |-> NextId, known |-> FALSE] \in Track
    BY <1>11, NextIdType DEF StartServiceUnidentified, Track
  <2>2. mem' \in State
    BY <1>11, <2>1, UpdateType DEF StartServiceUnidentified
  <2>3. budget' \in [Kinds -> Nat]
    BY <1>11, SpendType DEF StartServiceUnidentified
  <2>4. op' \in Op
    BY <1>11, GotoType DEF StartServiceUnidentified, PCs, DownPCs
  <2> QED
    BY <1>11, <2>1, <2>2, <2>3, <2>4 DEF StartServiceUnidentified
<1>12. CASE WaitForTUN
  <2>1. op' \in Op
    <3>1. {"routing", "nat", "rollback"} \subseteq PCs
      BY DEF PCs, StartPCs, DownPCs
    <3>2. \E p \in {"routing", "nat", "rollback"} : Goto(p)
      BY <1>12 DEF WaitForTUN
    <3> QED
      BY <3>1, <3>2, GotoType
  <2>2. budget' \in [Kinds -> Nat]
    BY <1>12, SpendType DEF WaitForTUN, Save, SaveFails
  <2> QED
    BY <1>12, <2>1, <2>2, WriteAheadType DEF WaitForTUN, Save, SaveFails
<1>13. CASE SetupNAT
  <2>1. mem' \in State
    BY <1>13, <1>0, UpdateType DEF SetupNAT, Effects
  <2> QED
    BY <1>13, <2>1, GotoType DEF SetupNAT, PCs, StartPCs, Pieces
<1>14. CASE SetupPolicyRouting
  <2>1. mem' \in State
    BY <1>14, <1>0, UpdateType DEF SetupPolicyRouting, Effects
  <2> QED
    BY <1>14, <2>1, GotoType DEF SetupPolicyRouting, PCs, StartPCs, Pieces
<1>15. CASE SetupPolicyRoutingFails
  <2>1. budget' \in [Kinds -> Nat]
    BY <1>15, SpendType DEF SetupPolicyRoutingFails
  <2>2. net' \in SUBSET Pieces
    BY <1>15 DEF SetupPolicyRoutingFails, KeepTUNRoute, Pieces, RoutingPieces
  <2> QED
    BY <1>15, <2>1, <2>2, GotoType DEF SetupPolicyRoutingFails, PCs, DownPCs
<1>16. CASE SaveRunning
  <2>1. budget' \in [Kinds -> Nat]
    BY <1>16, SpendType DEF SaveRunning, Save, SaveFails
  <2>2. CASE Finish
    BY <1>16, <2>1, <2>2, FinishType, WriteAheadType DEF SaveRunning, Save, SaveFails
  <2>3. CASE mem' = WriteAhead(mem) /\ Goto("rollback") /\ UNCHANGED holder
    <3>1. op' \in Op
      BY <2>3, GotoType DEF PCs, DownPCs
    <3> QED
      BY <1>16, <2>1, <2>3, <3>1, WriteAheadType DEF SaveRunning, Save, SaveFails
  <2> QED
    BY <1>16, <2>2, <2>3 DEF SaveRunning
<1> QED
  BY <1>1, <1>2, <1>3, <1>4, <1>5, <1>6, <1>7, <1>8, <1>9, <1>10, <1>11, <1>12, <1>13, <1>14, <1>15, <1>16
     DEF StartStep
LEMMA StopTrackedType ==
  ASSUME TypeOK, NEW t \in Track, StopTracked(t)
  PROVE  proc' \in [ProcIds -> Services \cup {"free", "stranger"}] /\ net' \subseteq net
<1>1. CASE UNCHANGED <<proc, net>>
  BY <1>1 DEF TypeOK
<1>2. CASE Matches(t) /\ Kill(t.id)
  <2>1. t.id \in ProcIds
    BY <1>2, LifecycleAssumption DEF LifecycleAssumption, Matches, Track, ProcIds
  <2> QED
    BY <1>2, <2>1, KillType
<1> QED
  BY <1>1, <1>2 DEF StopTracked

LEMMA StopStepType == TypeOK /\ StopStep => TypeOK'
<1> SUFFICES ASSUME TypeOK, StopStep PROVE TypeOK'
  OBVIOUS
<1> USE DEF TypeOK, disk, Kinds
<1>1. CASE Rollback
  <2>1. [mem EXCEPT !.lifecycle = "cleanup"] \in State
    BY DEF State
  <2>2. mem' \in State /\ journal' \in State
    BY <1>1, <2>1, WriteAheadType DEF Rollback
  <2>3. budget' \in [Kinds -> Nat]
    BY <1>1, SpendType DEF Rollback
  <2>4. op' \in Op
    BY <1>1, GotoType DEF Rollback, PCs, DownPCs
  <2> QED
    BY <1>1, <2>2, <2>3, <2>4 DEF Rollback
<1>2. CASE StopBegin
  <2>1. [journal EXCEPT !.lifecycle = "stopping"] \in State
    BY DEF State
  <2>2. op' \in Op
    BY <1>2, GotoType DEF StopBegin, PCs, DownPCs
  <2> QED
    BY <1>2, <2>1, <2>2 DEF StopBegin
<1>3. CASE StopBeginFails
  BY <1>3, FinishType, SpendType DEF StopBeginFails
<1>4. CASE SaveStopping
  <2>1. budget' \in [Kinds -> Nat] /\ journal' \in State
    BY <1>4, SpendType, WriteAheadType DEF SaveStopping, Save, SaveFails
  <2>2. CASE Finish
    BY <1>4, <2>1, <2>2, FinishType DEF SaveStopping
  <2>3. CASE Goto("down_smartdns") /\ mem' = WriteAhead(mem) /\ UNCHANGED holder
    <3>1. op' \in Op
      BY <2>3, GotoType DEF PCs, DownPCs
    <3> QED
      BY <1>4, <2>1, <2>3, <3>1, WriteAheadType DEF SaveStopping
  <2> QED
    BY <1>4, <2>2, <2>3 DEF SaveStopping
<1>5. CASE DownService
  <2>1. mem.pid[DownOf[op.pc]] \in Track /\ AfterDown[op.pc] \in PCs
    BY <1>5 DEF DownService, AfterDown, DownOf, State, Services, PCs, DownPCs
  <2>2. op' \in Op
    BY <1>5, <2>1, GotoType DEF DownService
  <2>3. proc' \in [ProcIds -> Services \cup {"free", "stranger"}] /\ net' \in SUBSET Pieces
    BY <1>5, <2>1, StopTrackedType DEF DownService, StopTrackedFails
  <2>4. budget' \in [Kinds -> Nat]
    BY <1>5, SpendType DEF DownService, StopTracked, StopTrackedFails
  <2> QED
    BY <1>5, <2>2, <2>3, <2>4 DEF DownService
<1>6. CASE RestoreNetwork
  <2>1. budget' \in [Kinds -> Nat]
    BY <1>6, SpendType DEF RestoreNetwork
  <2>2. op' \in Op
    BY <1>6, GotoType DEF RestoreNetwork, PCs, DownPCs
  <2> QED
    BY <1>6, <2>1, <2>2 DEF RestoreNetwork
<1>7. CASE ClearFailed
  BY <1>7, FinishType DEF ClearFailed
<1>8. CASE Clear
  <2>1. holder' \in Clients \cup {NoClient} /\ op' \in Op /\ mem' \in State
    <3>1. CASE op.then = "start"
      BY <1>8, <3>1, GotoType, NoStateType DEF Clear, PCs, StartPCs
    <3>2. CASE op.then # "start"
      BY <1>8, <3>2, FinishType DEF Clear
    <3> QED
      BY <3>1, <3>2
  <2> QED
    BY <1>8, <2>1, NoStateType DEF Clear
<1>9. CASE ClearFails
  BY <1>9, FinishType, SpendType, NoStateType DEF ClearFails
<1> QED
  BY <1>1, <1>2, <1>3, <1>4, <1>5, <1>6, <1>7, <1>8, <1>9 DEF StopStep
LEMMA StopNewType ==
  ASSUME TypeOK, StopNew
  PROVE  proc' \in [ProcIds -> Services \cup {"free", "stranger"}] /\ net' \subseteq net
<1> DEFINE t == mem.pid[Restarted]
<1>1. t \in Track
  BY DEF TypeOK, State, Restarted, Services
<1>2. CASE Gone(t)
  BY <1>2 DEF StopNew, TypeOK
<1>3. CASE ~Gone(t)
  <2>1. t.id \in ProcIds
    BY <1>1, <1>3, LifecycleAssumption DEF LifecycleAssumption, Gone, Track, ProcIds
  <2> QED
    BY <1>3, <2>1, KillType DEF StopNew
<1> QED
  BY <1>2, <1>3

LEMMA IdentifiedType ==
  ASSUME TypeOK
  PROVE  /\ Identified \in State
         /\ Identified.lifecycle = mem.lifecycle /\ Identified.ns = mem.ns
         /\ Identified.fwdBefore = mem.fwdBefore
<1> DEFINE t == [mem.pid[Restarted] EXCEPT !.known = TRUE]
<1>1. \A x \in Track : [x EXCEPT !.known = TRUE] \in Track
  BY DEF Track
<1>2. Restarted \in Services /\ t \in Track
  BY <1>1 DEF TypeOK, State, Restarted, Services
<1>3. Identified = [mem EXCEPT !.pid[Restarted] = t]
  BY DEF Identified
<1> HIDE DEF t
<1> QED
  BY <1>2, <1>3, UpdateType DEF TypeOK

LEMMA RestartStepType == TypeOK /\ RestartStep => TypeOK'
<1> SUFFICES ASSUME TypeOK, RestartStep PROVE TypeOK'
  OBVIOUS
<1> USE DEF TypeOK, disk, Kinds
<1>0. /\ {"stop_old", "spawn", "unwind", "record", "routes", "commit"} \subseteq PCs
      /\ Restarted \in Services
  BY DEF PCs, RestartPCs, Restarted, Services
<1>a. op.prev \in Track
  BY DEF Op
<1>b. \A e \in Effects : mem.flags \cup {e} \in SUBSET Effects /\ mem.flags \ {e} \in SUBSET Effects
  BY DEF State
<1>1. CASE MarkRestart
  <2>1. budget' \in [Kinds -> Nat] /\ journal' \in State
    BY <1>1, SpendType, WriteAheadType DEF MarkRestart, Save, SaveFails
  <2>2. CASE Finish
    BY <1>1, <2>1, <2>2, FinishType DEF MarkRestart
  <2>3. CASE mem' = WriteAhead(mem) /\ Goto("stop_old") /\ UNCHANGED holder
    BY <1>0, <1>1, <2>1, <2>3, GotoType, WriteAheadType DEF MarkRestart
  <2> QED
    BY <1>1, <2>2, <2>3 DEF MarkRestart
<1>2. CASE StopOld
  <2>1. proc' \in [ProcIds -> Services \cup {"free", "stranger"}] /\ net' \in SUBSET Pieces
    BY <1>2, <1>a, StopTrackedType DEF StopOld
  <2> QED
    BY <1>0, <1>2, <2>1, GotoType DEF StopOld, StopTracked
<1>3. CASE StopOldFails
  <2>1. budget' \in [Kinds -> Nat]
    BY <1>3, SpendType DEF StopOldFails, StopTrackedFails
  <2>2. PICK t \in Track, f \in SUBSET Effects : mem' = [mem EXCEPT !.pid[Restarted] = t, !.flags = f]
    <3>1. CASE Running(op.prev) /\ op.prevRouting
      BY <1>3, <1>a, <1>b, <3>1 DEF StopOldFails, Effects
    <3>2. CASE Running(op.prev) /\ ~op.prevRouting
      BY <1>3, <1>a, <3>2 DEF StopOldFails, State
    <3>3. CASE ~Running(op.prev)
      BY <1>3, <3>3, NoTrackType DEF StopOldFails, State
    <3> QED
      BY <3>1, <3>2, <3>3
  <2>3. mem' \in State
    BY <1>0, <2>2, FlagsUpdateType
  <2> QED
    BY <1>0, <1>3, <2>1, <2>3, GotoType DEF StopOldFails, StopTrackedFails
<1>4. CASE StopOldFailsTwice
  <2>1. budget' \in [Kinds -> Nat]
    BY <1>4, SpendTwiceType DEF StopOldFailsTwice
  <2> QED
    BY <1>0, <1>4, <2>1, GotoType DEF StopOldFailsTwice
<1>5. CASE Unwind
  <2>1. budget' \in [Kinds -> Nat] /\ journal' \in State
    BY <1>5, SpendType, WriteAheadType DEF Unwind, Save, SaveFails
  <2> QED
    BY <1>5, <2>1, FinishType DEF Unwind
<1>6. CASE SpawnNew
  <2>1. NextId \in ProcIds /\ [id |-> NextId, known |-> FALSE] \in Track
    BY <1>6, NextIdType DEF SpawnNew, Track
  <2>2. mem' \in State
    BY <1>0, <1>6, <2>1, UpdateType DEF SpawnNew
  <2> QED
    BY <1>0, <1>6, <2>1, <2>2, GotoType DEF SpawnNew
<1>7. CASE SpawnNewFails
  BY <1>7, FinishType, SpendType DEF SpawnNewFails
<1>n. StopNew => proc' \in [ProcIds -> Services \cup {"free", "stranger"}] /\ net' \in SUBSET Pieces
  BY StopNewType
<1>8. CASE NewUnidentified
  <2>1. budget' \in [Kinds -> Nat]
    BY <1>8, SpendType DEF NewUnidentified
  <2>2. proc' \in [ProcIds -> Services \cup {"free", "stranger"}] /\ net' \in SUBSET Pieces
    BY <1>8, <1>n DEF NewUnidentified
  <2> QED
    BY <1>8, <2>1, <2>2, FinishType DEF NewUnidentified
<1>i. WriteAhead(Identified) \in State
  BY IdentifiedType, WriteAheadType
<1>9. CASE RecordNew
  <2>1. CASE op.cmd = "restart-mihomo"
    BY <1>0, <1>9, <1>i, <2>1, GotoType DEF RecordNew
  <2>2. CASE op.cmd # "restart-mihomo"
    BY <1>9, <1>i, <2>2, FinishType DEF RecordNew
  <2> QED
    BY <2>1, <2>2
<1>10. CASE RecordNewFails
  <2>1. budget' \in [Kinds -> Nat]
    BY <1>10, SpendType DEF RecordNewFails
  <2>2. proc' \in [ProcIds -> Services \cup {"free", "stranger"}] /\ net' \in SUBSET Pieces
    BY <1>10, <1>n DEF RecordNewFails
  <2> QED
    BY <1>10, <1>i, <2>1, <2>2, FinishType DEF RecordNewFails
<1>11. CASE ReapplyRouting
  <2>1. mem' \in State
    BY <1>11, <1>b, UpdateType DEF ReapplyRouting, Effects
  <2> QED
    BY <1>0, <1>11, <2>1, GotoType DEF ReapplyRouting, Pieces
<1>12. CASE ReapplyRoutingFails
  <2> DEFINE t        == mem.pid["mihomo"]
             stopped  == IF Gone(t) THEN proc ELSE [proc EXCEPT ![t.id] = "free"]
             degraded == [mem EXCEPT !.pid["mihomo"] = NoTrack, !.flags = @ \ {"routing"}]
             Spent(n) == budget["faults"] >= n /\ budget' = [budget EXCEPT !["faults"] = @ - n]
  <2>1. Spent(0) \/ Spent(1) \/ Spent(2)
    BY <1>12 DEF ReapplyRoutingFails
  <2>2. budget' \in [Kinds -> Nat]
    BY <2>1, SpendTwiceType
  <2>3. proc' \in {proc, stopped} /\ mem' \in {mem, degraded}
    BY <1>12 DEF ReapplyRoutingFails
  <2>4. proc' \in [ProcIds -> Services \cup {"free", "stranger"}]
    BY <2>3
  <2>5. degraded \in State
    <3>1. "mihomo" \in Services /\ mem.flags \ {"routing"} \in SUBSET Effects
      BY DEF State, Services
    <3> QED
      BY <3>1, NoTrackType, FlagsUpdateType
  <2>6. net' \in SUBSET Pieces
    <3>1. PICK S \in SUBSET RoutingPieces : net' = KeepTUNRoute(proc', net \cup S)
      BY <1>12 DEF ReapplyRoutingFails
    <3> QED
      BY <3>1 DEF KeepTUNRoute, Pieces, RoutingPieces
  <2> QED
    BY <1>0, <1>12, <2>2, <2>3, <2>4, <2>5, <2>6, GotoType DEF ReapplyRoutingFails
<1>13. CASE CommitRouting
  <2>1. budget' \in [Kinds -> Nat] /\ journal' \in State
    BY <1>13, SpendType, WriteAheadType DEF CommitRouting, Save, SaveFails
  <2> QED
    BY <1>13, <2>1, FinishType DEF CommitRouting
<1> QED
  BY <1>1, <1>2, <1>3, <1>4, <1>5, <1>6, <1>7, <1>8, <1>9, <1>10, <1>11, <1>12, <1>13 DEF RestartStep
LEMMA TakeType ==
  ASSUME NEW c \in Clients, NEW command \in Commands, NEW pc \in PCs, NEW then \in {"finish", "start"},
         NEW m \in State, Take(c, command, pc, then, m)
  PROVE  /\ holder' \in Clients /\ op' \in Op /\ mem' = m
         /\ op'.pc = pc /\ op'.failed = FALSE
BY NoTrackType DEF Take, NoOp, Op

LEMMA BeginType == ASSUME NEW c \in Clients PROVE TypeOK /\ Begin(c) => TypeOK'
<1> SUFFICES ASSUME TypeOK, Begin(c) PROVE TypeOK'
  OBVIOUS
<1> USE DEF TypeOK, disk, Kinds
<1>0. /\ {"prepare", "stop_begin", "clear", "mark"} \subseteq PCs
      /\ {"start", "stop", "reload", "recover", "restart-mihomo", "restart-dnsmasq"} \subseteq Commands
  BY DEF PCs, StartPCs, DownPCs, RestartPCs, Commands
<1>1. CASE RequestStart(c)
  BY <1>1, SpendType DEF RequestStart
<1>2. CASE RequestStop(c)
  BY <1>2, SpendType DEF RequestStop
<1>3. CASE Refused(c)
  BY <1>3 DEF Refused
<1>4. CASE BeginStart(c)
  <2>1. holder' \in Clients /\ op' \in Op /\ mem' \in State
    BY <1>0, <1>4, TakeType, NoStateType DEF BeginStart
  <2> QED
    BY <1>4, <2>1 DEF BeginStart
<1>5. CASE BeginStop(c)
  <2>1. holder' \in Clients /\ op' \in Op /\ mem' \in State
    BY <1>0, <1>5, TakeType, NoStateType DEF BeginStop
  <2> QED
    BY <1>5, <2>1 DEF BeginStop
<1>6. CASE BeginReload(c)
  <2>1. holder' \in Clients /\ op' \in Op /\ mem' \in State
    BY <1>0, <1>6, TakeType, NoStateType DEF BeginReload
  <2> QED
    BY <1>6, <2>1, SpendType DEF BeginReload
<1>7. CASE BeginRestartMihomo(c)
  <2>1. mem' \in State
    <3>1. "mihomo" \in Services /\ journal.flags \ {"routing"} \in SUBSET Effects
      BY DEF State, Services
    <3> QED
      BY <1>7, <3>1, NoTrackType, FlagsUpdateType DEF BeginRestartMihomo
  <2>2. op' \in Op
    <3>1. PICK b \in BOOLEAN : b <=> "routing" \in journal.flags
      <4>1. CASE "routing" \in journal.flags
        BY <4>1
      <4>2. CASE "routing" \notin journal.flags
        BY <4>2
      <4> QED
        BY <4>1, <4>2
    <3>2. journal.pid["mihomo"] \in Track
      BY DEF State, Services
    <3>3. op' = [NoOp EXCEPT !.cmd = "restart-mihomo", !.pc = "mark", !.prev = journal.pid["mihomo"], !.prevRouting = b]
      BY <1>7, <3>1 DEF BeginRestartMihomo
    <3> QED
      BY <1>0, <3>2, <3>3 DEF NoOp, Op
  <2> QED
    BY <1>7, <2>1, <2>2, SpendType DEF BeginRestartMihomo
<1>8. CASE BeginRestartDNSMasq(c)
  <2>1. mem' \in State
    BY <1>8, NoTrackType, UpdateType DEF BeginRestartDNSMasq, Services
  <2>2. op' \in Op
    <3>1. journal.pid["dnsmasq"] \in Track
      BY DEF State, Services
    <3>2. PICK t \in Track : op' = [NoOp EXCEPT !.cmd = "restart-dnsmasq", !.pc = "mark", !.prev = t]
      BY <1>8, <3>1, NoTrackType DEF BeginRestartDNSMasq
    <3> QED
      BY <1>0, <3>2 DEF NoOp, Op
  <2>3. budget' \in [Kinds -> Nat]
    BY <1>8, SpendType DEF BeginRestartDNSMasq
  <2> QED
    BY <1>8, <2>1, <2>2, <2>3 DEF BeginRestartDNSMasq
<1>9. CASE BeginRecover(c)
  <2>1. desired' \in {"running", "stopped"}
    BY <1>9 DEF BeginRecover, Intent
  <2>2. budget' \in [Kinds -> Nat]
    BY <1>9, SpendType DEF BeginRecover
  <2>3. holder' \in Clients /\ op' \in Op /\ mem' \in State
    BY <1>0, <1>9, TakeType, NoStateType DEF BeginRecover
  <2> QED
    BY <1>9, <2>1, <2>2, <2>3 DEF BeginRecover
<1>10. CASE RecoverNothing(c)
  BY <1>10 DEF RecoverNothing, Intent
<1> QED
  BY <1>1, <1>2, <1>3, <1>4, <1>5, <1>6, <1>7, <1>8, <1>9, <1>10 DEF Begin

LEMMA EnvironmentType == TypeOK /\ Environment => TypeOK'
<1> SUFFICES ASSUME TypeOK, Environment PROVE TypeOK'
  OBVIOUS
<1> USE DEF TypeOK, disk, Kinds
<1>1. CASE Crash
  BY <1>1, FinishType, SpendType DEF Crash
<1>2. CASE ContainerRestart
  <2>1. budget' \in [Kinds -> Nat]
    BY <1>2, SpendType DEF ContainerRestart
  <2>2. proc' \in [ProcIds -> Services \cup {"free", "stranger"}] /\ ns' \in Nat
    BY <1>2 DEF ContainerRestart
  <2> QED
    BY <1>2, <2>1, <2>2, FinishType DEF ContainerRestart
<1>3. CASE ProcessDies
  <2>1. proc' \in [ProcIds -> Services \cup {"free", "stranger"}] /\ net' \in SUBSET Pieces
    BY <1>3, KillType DEF ProcessDies
  <2> QED
    BY <1>3, <2>1, SpendType DEF ProcessDies
<1>4. CASE PIDReused
  <2>1. proc' \in [ProcIds -> Services \cup {"free", "stranger"}]
    BY <1>4 DEF PIDReused
  <2> QED
    BY <1>4, <2>1, SpendType DEF PIDReused
<1> QED
  BY <1>1, <1>2, <1>3, <1>4 DEF Environment

\* Every state of the lifecycle manager, its journal and the kernel is well-typed.
THEOREM TypeCorrect == Spec => []TypeOK
<1>1. Init => TypeOK
  <2>1. Init => holder \in Clients \cup {NoClient} /\ op \in Op /\ mem \in State /\ journal \in State
    BY NoOpType, NoStateType DEF Init
  <2>2. Init => ns \in Nat /\ budget \in [Kinds -> Nat] /\ proc \in [ProcIds -> Services \cup {"free", "stranger"}]
    BY LifecycleAssumption DEF Init, LifecycleAssumption
  <2>3. Init => want \in [Clients -> {"none", "start", "stop"}] /\ desired \in {"unset", "running", "stopped"}
    BY DEF Init
  <2>4. Init => applied \in BOOLEAN /\ net \in SUBSET Pieces
    BY DEF Init
  <2> QED
    BY <2>1, <2>2, <2>3, <2>4 DEF TypeOK
<1>2. TypeOK /\ [Next]_vars => TypeOK'
  <2>1. TypeOK /\ UNCHANGED vars => TypeOK'
    BY DEF TypeOK, vars
  <2> QED
    BY <2>1, StartStepType, StopStepType, RestartStepType, BeginType, EnvironmentType DEF Next, OpStep
<1> QED
  BY <1>1, <1>2, PTL DEF Spec
----------------------------------------------------------------------------
(* Nothing is left in the kernel without a journal that tells how to undo  *)
(* it.  The property is not inductive: what keeps it is that every journal *)
(* plans the removal of everything, that a command works on the kernel only*)
(* after its first save, and that the state is removed only when Restore   *)
(* has succeeded.                                                          *)

Planned == WriteAhead(NoState).intents

\* Before the first save, and once a journal of this boot exists.
Fresh    == {"prepare", "snapshot", "save_starting"}
Teardown == {"down_smartdns", "down_network", "down_dnsmasq", "down_mihomo"}
Working  == (StartPCs \ Fresh) \cup {"stopping", "rollback"} \cup Teardown \cup RestartPCs

\* A state of this boot from which everything can be undone once it is journaled.
Sound(s) == Exists(s) /\ s.ns = ns /\ s.fwdBefore = FALSE

JournalPlans   == Exists(journal) => journal.intents = Planned /\ journal.fwdBefore = FALSE
ResidueIsOurs  == net # {} => Exists(journal) /\ journal.ns = ns
NATOnlyRouted  == SameLAN => "nat" \notin net /\ op.pc # "nat"
FreshInv       == /\ op.pc \in Fresh => ~Exists(journal)
                  /\ op.pc = "save_starting" => Sound(mem)
WorkingInv     == op.pc \in Working => Exists(journal) /\ journal.ns = ns /\ Sound(mem)
TeardownInv    == /\ op.pc \in Teardown => mem.intents = Planned
                  /\ op.pc \in {"down_dnsmasq", "down_mihomo", "clear"} /\ ~op.failed => net = {}

IInv == JournalPlans /\ ResidueIsOurs /\ NATOnlyRouted /\ FreshInv /\ WorkingInv /\ TeardownInv

LEMMA PlannedCovers == /\ Planned = {"forwarding", "routing"} \cup (IF SameLAN THEN {} ELSE {"nat"})
                       /\ \A s \in State : WriteAhead(s).intents = Planned
BY NoStateType, WriteAheadType DEF Planned, WriteAhead, NoState

\* A command at work goes on, having saved its state, its successor or nothing.
LEMMA WorkStep ==
  ASSUME IInv, TypeOK, op.pc \in Working,
         op'.pc \in Working \ Teardown,
         journal' \in {journal, WriteAhead(mem)},
         Sound(mem'), ns' = ns,
         SameLAN => "nat" \notin net' /\ op'.pc # "nat"
  PROVE  IInv'
BY WriteAheadType, PlannedCovers
   DEF IInv, JournalPlans, ResidueIsOurs, NATOnlyRouted, FreshInv, WorkingInv, TeardownInv, Sound, Exists,
       TypeOK, Working, Fresh, Teardown, StartPCs, RestartPCs

\* A command at work returns, having saved its state or not.
LEMMA ReturnStep ==
  ASSUME IInv, TypeOK, op.pc \in Working, Finish,
         NEW m \in State, Sound(m),
         journal' \in {journal, WriteAhead(m)}, ns' = ns,
         SameLAN => "nat" \notin net'
  PROVE  IInv'
BY WriteAheadType, PlannedCovers
   DEF IInv, JournalPlans, ResidueIsOurs, NATOnlyRouted, FreshInv, WorkingInv, TeardownInv, Sound, Exists,
       TypeOK, Finish, NoOp, Working, Fresh, Teardown, StartPCs, RestartPCs
\* A command that has saved nothing returns.
LEMMA LeaveStep ==
  ASSUME IInv, Finish, ns' = ns, net' = {},
         \/ journal' \in {journal, NoState}
         \/ Exists(journal') /\ journal'.intents = Planned /\ journal'.fwdBefore = FALSE
  PROVE  IInv'
BY DEF IInv, JournalPlans, ResidueIsOurs, NATOnlyRouted, FreshInv, WorkingInv, TeardownInv, Exists,
       Finish, NoOp, NoState, Working, Fresh, Teardown, StartPCs, RestartPCs

LEMMA StartStepIInv == TypeOK /\ IInv /\ StartStep => IInv'
<1> SUFFICES ASSUME TypeOK, IInv, StartStep PROVE IInv'
  OBVIOUS
<1>f. op.pc \in Fresh => net = {} /\ ~Exists(journal)
  BY DEF IInv, FreshInv, ResidueIsOurs
<1>m. op.pc \in Working => Sound(mem) /\ Sound(WriteAhead(mem))
  BY WriteAheadType DEF IInv, WorkingInv, Sound, Exists, TypeOK
<1>n. SameLAN => "nat" \notin net /\ op.pc # "nat"
  BY DEF IInv, NATOnlyRouted
<1>g. \A p \in PCs : Goto(p) => op'.pc = p
  BY GotoType DEF TypeOK
<1>e. \A e \in Effects : mem.flags \cup {e} \in SUBSET Effects
  BY DEF TypeOK, State
<1>w. /\ Working \subseteq PCs
      /\ {"forwarding", "mihomo", "dnsmasq", "tun", "nat", "smartdns", "routing", "save_nat", "save_smartdns",
          "save_forwarding", "save_routing", "rollback"} \subseteq Working \ Teardown
      /\ \A p \in DOMAIN AfterSave : AfterSave[p] \in Working \ (Teardown \cup {"nat"})
      /\ DOMAIN AfterSave \ {"save_starting"} \subseteq Working
      /\ \A x \in Services : SaveOf[x] \in Working \ (Teardown \cup {"nat"}) /\ x \in Working
  BY DEF Working, PCs, StartPCs, DownPCs, RestartPCs, Fresh, Teardown, AfterSave, SaveOf, Services
<1>1. CASE Prepare
  <2>1. op' = [op EXCEPT !.pc = "snapshot", !.then = "finish"] /\ op.pc = "prepare"
    BY <1>1 DEF Prepare, Active
  <2>2. op'.pc = "snapshot"
    BY <2>1 DEF TypeOK, Op
  <2> QED
    BY <1>1, <1>f, <2>1, <2>2 DEF Prepare, disk, IInv, JournalPlans, ResidueIsOurs, NATOnlyRouted, FreshInv,
       WorkingInv, TeardownInv, Working, Fresh, Teardown, StartPCs, RestartPCs
<1>2. CASE PrepareFails
  BY <1>2, <1>f, LeaveStep DEF PrepareFails, Active, disk, Fresh
<1>3. CASE Snapshot
  <2>1. op.pc = "snapshot" /\ net = {} /\ ~Exists(journal)
    BY <1>3, <1>f DEF Snapshot, Active, Fresh
  <2>2. Sound(mem') /\ ns' = ns
    <3>1. ("forwarding" \in net) = FALSE
      BY <2>1
    <3>2. mem'.fwdBefore = FALSE /\ mem'.lifecycle = "starting" /\ mem'.ns = ns /\ ns' = ns
      BY <1>3, <3>1, SnapshotType DEF TypeOK, Snapshot
    <3> QED
      BY <3>2 DEF Sound, Exists
  <2>3. op'.pc = "save_starting"
    BY <1>3, GotoType DEF Snapshot, TypeOK, PCs, StartPCs
  <2>4. UNCHANGED <<journal, net>>
    BY <1>3 DEF Snapshot
  <2> QED
    BY <2>1, <2>2, <2>3, <2>4 DEF IInv, JournalPlans, ResidueIsOurs, NATOnlyRouted, FreshInv,
       WorkingInv, TeardownInv, Working, Fresh, Teardown, StartPCs, RestartPCs, Sound, Exists
<1>4. CASE SnapshotFails
  BY <1>4, <1>f, LeaveStep DEF SnapshotFails, Active, Fresh
<1>5. CASE SaveStartingFails
  <2>1. op.pc = "save_starting" /\ Sound(mem)
    BY <1>5 DEF SaveStartingFails, Active, IInv, FreshInv
  <2>2. Exists(WriteAhead(mem)) /\ WriteAhead(mem).intents = Planned /\ WriteAhead(mem).fwdBefore = FALSE
    BY <2>1, WriteAheadType, PlannedCovers DEF TypeOK, Sound, Exists
  <2> QED
    BY <1>5, <1>f, <2>1, <2>2, LeaveStep DEF SaveStartingFails, Fresh
<1>6. CASE SaveStep
  <2>1. /\ op.pc \in DOMAIN AfterSave /\ op'.pc \in Working \ (Teardown \cup {"nat"})
        /\ journal' = WriteAhead(mem) /\ mem' = WriteAhead(mem) /\ UNCHANGED <<ns, net>>
    BY <1>6, <1>g, <1>w DEF SaveStep, Save
  <2>2. CASE op.pc = "save_starting"
    <3>1. Sound(mem')
      BY <2>1, <2>2, WriteAheadType DEF IInv, FreshInv, TypeOK, Sound, Exists
    <3>2. journal'.intents = Planned
      BY <2>1, PlannedCovers DEF TypeOK
    <3> QED
      BY <1>f, <1>n, <2>1, <2>2, <3>1, <3>2 DEF IInv, JournalPlans, ResidueIsOurs, NATOnlyRouted, FreshInv,
         WorkingInv, TeardownInv, Working, Fresh, Teardown, StartPCs, RestartPCs, Sound
  <2>3. CASE op.pc # "save_starting"
    <3>1. op.pc \in Working
      BY <1>w, <2>1, <2>3
    <3> QED
      BY <1>m, <1>n, <2>1, <3>1, WorkStep
  <2> QED
    BY <2>2, <2>3
<1>7. CASE SaveStepFails
  BY <1>7, <1>g, <1>m, <1>n, <1>w, WorkStep DEF SaveStepFails, SaveFails
<1>u. \A e \in Effects : \A m : op.pc \in Working /\ m = [mem EXCEPT !.flags = @ \cup {e}] => Sound(m)
  BY <1>m, <1>e, UpdateType DEF TypeOK, Sound, Exists
<1>8. CASE EnableForwarding
  <2>1. op.pc \in Working /\ op'.pc \in Working \ (Teardown \cup {"nat"})
    BY <1>8, <1>g, <1>w DEF EnableForwarding, Active
  <2>2. Sound(mem')
    BY <1>8, <1>u, <2>1 DEF EnableForwarding, Effects, Sound
  <2> QED
    BY <1>8, <1>n, <2>1, <2>2, WorkStep DEF EnableForwarding, disk
<1>9. CASE StepFails
  <2>1. op.pc \in Working /\ op'.pc \in Working \ (Teardown \cup {"nat"})
    BY <1>9, <1>g, <1>w DEF StepFails
  <2> QED
    BY <1>9, <1>m, <1>n, <2>1, WorkStep DEF StepFails, disk, Sound
<1>10. ASSUME NEW x \in Services, StartService(x) PROVE IInv'
  <2>1. op.pc \in Working /\ op'.pc \in Working \ (Teardown \cup {"nat"})
    BY <1>10, <1>g, <1>w DEF StartService, Active
  <2>2. Sound(mem')
    <3>1. CASE UNCHANGED mem
      BY <1>10, <1>m, <2>1, <3>1 DEF StartService, Sound
    <3>2. CASE ~UNCHANGED mem
      <4>1. PICK l \in {"running", mem.lifecycle} :
              mem' = [mem EXCEPT !.pid[x] = [id |-> NextId, known |-> TRUE], !.lifecycle = l]
        BY <1>10, <3>2 DEF StartService
      <4>2. mem'.lifecycle = l /\ mem'.ns = mem.ns /\ mem'.fwdBefore = mem.fwdBefore
        BY <4>1 DEF TypeOK, State
      <4> QED
        BY <1>10, <1>m, <2>1, <4>1, <4>2 DEF StartService, Sound, Exists
    <3> QED
      BY <3>1, <3>2
  <2> QED
    BY <1>10, <1>n, <2>1, <2>2, WorkStep DEF StartService, disk
<1>11. ASSUME NEW x \in Services, StartServiceUnidentified(x) PROVE IInv'
  <2>1. op.pc \in Working /\ op'.pc \in Working \ (Teardown \cup {"nat"})
    BY <1>11, <1>g, <1>w DEF StartServiceUnidentified, Active
  <2>2. NextId \in 0..MaxProcs /\ [id |-> NextId, known |-> FALSE] \in Track
    BY <1>11, NextIdType DEF StartServiceUnidentified, Track
  <2>3. Sound(mem')
    BY <1>11, <1>m, <2>1, <2>2, UpdateType DEF StartServiceUnidentified, TypeOK, Sound, Exists
  <2> QED
    BY <1>11, <1>n, <2>1, <2>3, WorkStep DEF StartServiceUnidentified, disk
<1>12. CASE WaitForTUN
  <2>1. op.pc \in Working /\ op'.pc \in Working \ Teardown /\ (SameLAN => op'.pc # "nat")
    BY <1>12, <1>g, <1>w DEF WaitForTUN, Active
  <2> QED
    BY <1>12, <1>m, <1>n, <2>1, WorkStep DEF WaitForTUN, Save, SaveFails, Sound
<1>13. CASE SetupNAT
  <2>1. op.pc \in Working /\ op'.pc \in Working \ (Teardown \cup {"nat"}) /\ ~SameLAN
    BY <1>13, <1>g, <1>n, <1>w DEF SetupNAT, Active
  <2>2. Sound(mem')
    BY <1>13, <1>u, <2>1 DEF SetupNAT, Effects, Sound
  <2> QED
    BY <1>13, <2>1, <2>2, WorkStep DEF SetupNAT, disk
<1>14. CASE SetupPolicyRouting
  <2>1. op.pc \in Working /\ op'.pc \in Working \ (Teardown \cup {"nat"})
    BY <1>14, <1>g, <1>w DEF SetupPolicyRouting, Active
  <2>2. Sound(mem')
    BY <1>14, <1>u, <2>1 DEF SetupPolicyRouting, Effects, Sound
  <2>3. SameLAN => "nat" \notin net'
    BY <1>14, <1>n DEF SetupPolicyRouting, RoutingPieces
  <2> QED
    BY <1>14, <2>1, <2>2, <2>3, WorkStep DEF SetupPolicyRouting, disk
<1>15. CASE SetupPolicyRoutingFails
  <2>1. op.pc \in Working /\ op'.pc \in Working \ (Teardown \cup {"nat"})
    BY <1>15, <1>g, <1>w DEF SetupPolicyRoutingFails, Active
  <2>2. SameLAN => "nat" \notin net'
    BY <1>15, <1>n DEF SetupPolicyRoutingFails, KeepTUNRoute, RoutingPieces
  <2> QED
    BY <1>15, <1>m, <2>1, <2>2, WorkStep DEF SetupPolicyRoutingFails, disk, Sound
<1>16. CASE SaveRunning
  <2>1. op.pc \in Working
    BY <1>16, <1>w DEF SaveRunning, Active
  <2>2. CASE Finish
    BY <1>16, <1>m, <1>n, <2>1, <2>2, ReturnStep DEF SaveRunning, Save, SaveFails, TypeOK
  <2>3. CASE mem' = WriteAhead(mem) /\ Goto("rollback")
    <3>1. op'.pc \in Working \ (Teardown \cup {"nat"})
      BY <1>g, <1>w, <2>3
    <3> QED
      BY <1>16, <1>m, <1>n, <2>1, <2>3, <3>1, WorkStep DEF SaveRunning, Save, SaveFails, Sound
  <2> QED
    BY <1>16, <2>2, <2>3 DEF SaveRunning
<1> QED
  BY <1>1, <1>2, <1>3, <1>4, <1>5, <1>6, <1>7, <1>8, <1>9, <1>10, <1>11, <1>12, <1>13, <1>14, <1>15, <1>16
     DEF StartStep
\* One step of a teardown is over; the network is clean when it is to be.
LEMMA TeardownStep ==
  ASSUME IInv, TypeOK, op.pc \in Teardown \cup {"rollback", "stopping"},
         op'.pc \in Teardown \cup {"clear"},
         journal' \in {journal, WriteAhead(mem)},
         op'.pc \in Teardown => Sound(mem') /\ mem'.intents = Planned,
         op'.pc \in {"down_dnsmasq", "down_mihomo", "clear"} /\ ~op'.failed => net' = {},
         ns' = ns, net' \subseteq net
  PROVE  IInv'
BY WriteAheadType, PlannedCovers
   DEF IInv, JournalPlans, ResidueIsOurs, NATOnlyRouted, FreshInv, WorkingInv, TeardownInv, Sound, Exists,
       TypeOK, Working, Fresh, Teardown, StartPCs, RestartPCs

LEMMA StopStepIInv == TypeOK /\ IInv /\ StopStep => IInv'
<1> SUFFICES ASSUME TypeOK, IInv, StopStep PROVE IInv'
  OBVIOUS
<1>m. op.pc \in Working => Sound(mem) /\ Sound(WriteAhead(mem))
  BY WriteAheadType DEF IInv, WorkingInv, Sound, Exists, TypeOK
<1>w. /\ Working \subseteq PCs /\ Teardown \cup {"rollback", "stopping"} \subseteq Working
      /\ {"clear", "prepare"} \subseteq PCs /\ {"clear", "prepare", "stop_begin"} \cap Working = {}
  BY DEF Working, PCs, StartPCs, DownPCs, RestartPCs, Fresh, Teardown
<1>g. \A p \in PCs : /\ Goto(p) => op'.pc = p /\ op'.failed = op.failed
                     /\ GotoFail(p) => op'.pc = p /\ op'.failed = TRUE
  BY GotoType DEF TypeOK
<1>1. CASE Rollback
  <2> DEFINE m == [mem EXCEPT !.lifecycle = "cleanup"]
  <2>1. op.pc = "rollback" /\ op.pc \in Working /\ op'.pc = "down_smartdns"
    BY <1>1, <1>g, <1>w DEF Rollback, Active, Teardown
  <2>2. m \in State /\ Exists(m) /\ m.ns = ns /\ m.fwdBefore = FALSE
    BY <1>m, <2>1 DEF TypeOK, State, Sound, Exists
  <2>3. mem' = WriteAhead(m) /\ journal' \in {journal, WriteAhead(m)} /\ UNCHANGED <<ns, net>>
    BY <1>1 DEF Rollback
  <2> HIDE DEF m
  <2>4. Sound(WriteAhead(m)) /\ WriteAhead(m).intents = Planned
    BY <2>2, WriteAheadType, PlannedCovers DEF Sound, Exists
  <2> QED
    BY <2>1, <2>3, <2>4
       DEF IInv, JournalPlans, ResidueIsOurs, NATOnlyRouted, FreshInv, WorkingInv, TeardownInv, Sound,
           Working, Fresh, Teardown, StartPCs, RestartPCs
<1>2. CASE StopBegin
  <2>1. UNCHANGED <<journal, ns, net>> /\ op.pc = "stop_begin"
    BY <1>2 DEF StopBegin, disk, Active
  <2>2. CASE ~Exists(journal) \/ ~BelongsToBoot(journal)
    <3>1. net = {} /\ op'.pc = "clear"
      BY <1>2, <1>g, <1>w, <2>2 DEF StopBegin, IInv, ResidueIsOurs, BelongsToBoot
    <3> QED
      BY <2>1, <3>1 DEF IInv, JournalPlans, ResidueIsOurs, NATOnlyRouted, FreshInv, WorkingInv, TeardownInv,
         Exists, Working, Fresh, Teardown, StartPCs, RestartPCs
  <2>3. CASE Exists(journal) /\ BelongsToBoot(journal)
    <3>1. mem' = [journal EXCEPT !.lifecycle = "stopping"] /\ op'.pc = "stopping"
      BY <1>2, <1>g, <1>w, <2>3 DEF StopBegin
    <3>2. Sound(mem') /\ ns' = ns
      BY <2>1, <2>3, <3>1 DEF IInv, JournalPlans, Sound, Exists, BelongsToBoot, TypeOK, State
    <3> QED
      BY <2>1, <2>3, <3>1, <3>2 DEF IInv, JournalPlans, ResidueIsOurs, NATOnlyRouted, FreshInv, WorkingInv, TeardownInv,
         BelongsToBoot, Exists, Sound, Working, Fresh, Teardown, StartPCs, RestartPCs
  <2> QED
    BY <2>2, <2>3
<1>l. ASSUME UNCHANGED <<ns, net, journal>>, Finish PROVE IInv'
  BY <1>l DEF IInv, JournalPlans, ResidueIsOurs, NATOnlyRouted, FreshInv, WorkingInv, TeardownInv, Exists,
     Finish, NoOp, Working, Fresh, Teardown, StartPCs, RestartPCs
<1>3. CASE StopBeginFails
  BY <1>3, <1>l DEF StopBeginFails, disk
<1>4. CASE SaveStopping
  <2>1. op.pc = "stopping" /\ op.pc \in Working
    BY <1>4, <1>w DEF SaveStopping, Active
  <2>2. CASE Finish
    <3>1. journal' \in {journal, WriteAhead(mem)} /\ UNCHANGED <<ns, net>>
      BY <1>4 DEF SaveStopping, Save, SaveFails
    <3>2. SameLAN => "nat" \notin net'
      BY <3>1 DEF IInv, NATOnlyRouted
    <3> QED
      BY <1>m, <2>1, <2>2, <3>1, <3>2, ReturnStep DEF TypeOK
  <2>3. CASE Goto("down_smartdns") /\ Save /\ mem' = WriteAhead(mem)
    <3>1. op'.pc = "down_smartdns" /\ "down_smartdns" \in Teardown
      BY <1>g, <1>w, <2>3 DEF Teardown
    <3>2. Sound(mem') /\ mem'.intents = Planned
      BY <1>4, <1>m, <2>1, <2>3, PlannedCovers DEF SaveStopping, Sound, TypeOK
    <3> QED
      BY <1>4, <2>1, <2>3, <3>1, <3>2, TeardownStep DEF SaveStopping, Save
  <2> QED
    BY <1>4, <2>2, <2>3 DEF SaveStopping
<1>5. CASE DownService
  <2>1. /\ op.pc \in Teardown \ {"down_network"} /\ op'.pc = AfterDown[op.pc]
        /\ op'.pc \in (Teardown \ {"down_smartdns"}) \cup {"clear"}
        /\ ~op'.failed => ~op.failed
        /\ op'.pc # "down_network" => op.pc \in {"down_dnsmasq", "down_mihomo"}
    <3>1. op.pc \in DOMAIN AfterDown /\ (Goto(AfterDown[op.pc]) \/ GotoFail(AfterDown[op.pc]))
      BY <1>5 DEF DownService
    <3>2. AfterDown[op.pc] \in PCs
      BY <3>1 DEF AfterDown, PCs, DownPCs
    <3>3. op'.pc = AfterDown[op.pc] /\ (~op'.failed => ~op.failed)
      BY <1>g, <3>1, <3>2
    <3> QED
      BY <3>1, <3>3 DEF AfterDown, Teardown
  <2>2. mem.pid[DownOf[op.pc]] \in Track
    BY <1>5 DEF DownService, AfterDown, DownOf, TypeOK, State, Services
  <2>3. net' \subseteq net
    BY <1>5, <2>2, StopTrackedType DEF DownService, StopTrackedFails
  <2>4. UNCHANGED <<mem, journal, ns>> /\ op.pc \in Working
    BY <1>5, <1>w, <2>1 DEF DownService, disk
  <2>5. Sound(mem') /\ mem'.intents = Planned
    BY <1>m, <2>1, <2>4 DEF IInv, TeardownInv, Sound
  <2>6. op'.pc \in {"down_dnsmasq", "down_mihomo", "clear"} /\ ~op'.failed => net' = {}
    BY <2>1, <2>3 DEF IInv, TeardownInv
  <2> QED
    BY <2>1, <2>3, <2>4, <2>5, <2>6, TeardownStep
<1>6. CASE RestoreNetwork
  <2>1. op.pc = "down_network" /\ op.pc \in Teardown /\ op.pc \in Working /\ UNCHANGED <<mem, journal, ns>>
    BY <1>6, <1>w DEF RestoreNetwork, Active, disk, Teardown
  <2>2. op'.pc = "down_dnsmasq" /\ op'.pc \in Teardown /\ op'.pc # "clear"
    BY <1>6, <1>g, <1>w DEF RestoreNetwork, Teardown
  <2>3. Sound(mem') /\ mem'.intents = Planned
    BY <1>m, <2>1 DEF IInv, TeardownInv, Sound
  <2>4. net' \subseteq net
    BY <1>6 DEF RestoreNetwork
  <2>5. ~op'.failed => net' = {}
    <3>1. SUFFICES ASSUME ~op'.failed PROVE net' = {}
      OBVIOUS
    <3>2. net' = net \ Undone
      BY <1>6, <1>g, <1>w, <3>1 DEF RestoreNetwork, Teardown
    <3>3. mem.intents = Planned /\ mem.fwdBefore = FALSE
      BY <1>m, <2>1 DEF IInv, TeardownInv, Sound
    <3>4. net \subseteq Undone
      BY <3>3, PlannedCovers DEF Undone, TypeOK, Pieces, IInv, NATOnlyRouted
    <3> QED
      BY <3>2, <3>4
  <2> QED
    BY <2>1, <2>2, <2>3, <2>4, <2>5, TeardownStep
<1>7. CASE ClearFailed
  BY <1>7, <1>l DEF ClearFailed, disk
<1>c. op.pc = "clear" /\ ~op.failed => net = {}
  BY DEF IInv, TeardownInv
<1>8. CASE Clear
  <2>1. net' = {} /\ journal' = NoState /\ ns' = ns
    BY <1>8, <1>c DEF Clear, Active
  <2>2. op'.pc \in {"prepare", "idle"}
    BY <1>8, <1>g, <1>w DEF Clear, Finish, NoOp
  <2> QED
    BY <2>1, <2>2 DEF IInv, JournalPlans, ResidueIsOurs, NATOnlyRouted, FreshInv, WorkingInv, TeardownInv, Exists,
       NoState, Working, Fresh, Teardown, StartPCs, RestartPCs
<1>9. CASE ClearFails
  BY <1>9, <1>c, LeaveStep DEF ClearFails, Active
<1> QED
  BY <1>1, <1>2, <1>3, <1>4, <1>5, <1>6, <1>7, <1>8, <1>9 DEF StopStep
LEMMA RestartStepIInv == TypeOK /\ IInv /\ RestartStep => IInv'
<1> SUFFICES ASSUME TypeOK, IInv, RestartStep PROVE IInv'
  OBVIOUS
<1>m. op.pc \in Working => Sound(mem) /\ Sound(WriteAhead(mem))
  BY WriteAheadType DEF IInv, WorkingInv, Sound, Exists, TypeOK
<1>n. SameLAN => "nat" \notin net /\ op.pc # "nat"
  BY DEF IInv, NATOnlyRouted
<1>w. RestartPCs \subseteq Working \ (Teardown \cup {"nat"}) /\ RestartPCs \subseteq PCs
  BY DEF Working, Fresh, Teardown, PCs, RestartPCs
<1>p. {"mark", "stop_old", "spawn", "record", "routes", "commit", "unwind"} = RestartPCs
  BY DEF RestartPCs
<1>g. \A p \in RestartPCs : Goto(p) => op'.pc \in Working \ (Teardown \cup {"nat"})
  BY <1>w, GotoType DEF TypeOK
<1>a. op.prev \in Track /\ Restarted \in Services
  BY DEF TypeOK, Op, Restarted, Services
<1>r. ASSUME op.pc \in Working, Finish, journal' \in {journal, WriteAhead(mem)}, ns' = ns, net' \subseteq net
      PROVE  IInv'
  BY <1>m, <1>n, <1>r, ReturnStep DEF TypeOK
<1>i. op.pc \in Working => Identified \in State /\ Sound(Identified) /\ Sound(WriteAhead(Identified))
  BY <1>m, IdentifiedType, WriteAheadType DEF Sound, Exists
<1>s. StopNew => net' \subseteq net
  BY StopNewType
<1>1. CASE MarkRestart
  <2>1. /\ op.pc \in Working /\ UNCHANGED <<ns, net>>
        /\ journal' \in {journal, WriteAhead(mem)}
    BY <1>1, <1>p, <1>w DEF MarkRestart, Active, Save, SaveFails
  <2>2. CASE Finish
    BY <1>r, <2>1, <2>2
  <2>3. CASE mem' = WriteAhead(mem) /\ Goto("stop_old")
    BY <1>g, <1>m, <1>n, <1>p, <2>1, <2>3, WorkStep DEF Sound
  <2> QED
    BY <1>1, <2>2, <2>3 DEF MarkRestart
<1>2. CASE StopOld
  <2>1. op.pc \in Working /\ op'.pc \in Working \ (Teardown \cup {"nat"}) /\ UNCHANGED <<mem, journal, ns>>
    BY <1>2, <1>g, <1>p, <1>w DEF StopOld, Active, disk
  <2>2. net' \subseteq net
    BY <1>2, <1>a, StopTrackedType DEF StopOld
  <2> QED
    BY <1>m, <1>n, <2>1, <2>2, WorkStep DEF Sound
<1>3. CASE StopOldFails
  <2>1. op.pc \in Working /\ op'.pc \in Working \ (Teardown \cup {"nat"}) /\ UNCHANGED <<net, journal, ns>>
    BY <1>3, <1>g, <1>p, <1>w DEF StopOldFails, StopTrackedFails, Active, disk
  <2>2. mem'.lifecycle = mem.lifecycle /\ mem'.ns = mem.ns /\ mem'.fwdBefore = mem.fwdBefore
    BY <1>3 DEF StopOldFails, TypeOK, State
  <2>3. Sound(mem')
    BY <1>m, <2>1, <2>2 DEF Sound, Exists
  <2> QED
    BY <1>n, <2>1, <2>3, WorkStep
<1>4. CASE StopOldFailsTwice
  <2>1. op.pc \in Working /\ op'.pc \in Working \ (Teardown \cup {"nat"}) /\ UNCHANGED <<mem, net, journal, ns>>
    BY <1>4, <1>g, <1>p, <1>w DEF StopOldFailsTwice, Active, disk
  <2> QED
    BY <1>m, <1>n, <2>1, WorkStep DEF Sound
<1>5. CASE Unwind
  BY <1>5, <1>p, <1>r, <1>w DEF Unwind, Active, Save, SaveFails
<1>6. CASE SpawnNew
  <2>1. op.pc \in Working /\ op'.pc \in Working \ (Teardown \cup {"nat"}) /\ UNCHANGED <<net, journal, ns>>
    BY <1>6, <1>g, <1>p, <1>w DEF SpawnNew, Active, disk
  <2>2. mem'.lifecycle = mem.lifecycle /\ mem'.ns = mem.ns /\ mem'.fwdBefore = mem.fwdBefore
    BY <1>6 DEF SpawnNew, TypeOK, State
  <2>3. Sound(mem')
    BY <1>m, <2>1, <2>2 DEF Sound, Exists
  <2> QED
    BY <1>n, <2>1, <2>3, WorkStep
<1>7. CASE SpawnNewFails
  BY <1>7, <1>p, <1>r, <1>w DEF SpawnNewFails, Active, disk
<1>8. CASE NewUnidentified
  BY <1>8, <1>p, <1>r, <1>s, <1>w DEF NewUnidentified, Active, disk
<1>9. CASE RecordNew
  <2>1. op.pc \in Working /\ journal' = WriteAhead(Identified) /\ UNCHANGED <<ns, net>>
    BY <1>9, <1>p, <1>w DEF RecordNew, Active
  <2>2. CASE Finish
    BY <1>i, <1>n, <2>1, <2>2, ReturnStep
  <2>3. CASE Goto("routes") /\ mem' = WriteAhead(Identified)
    <3>1. op'.pc \in Working \ (Teardown \cup {"nat"}) /\ Sound(mem')
      BY <1>g, <1>i, <1>p, <2>1, <2>3 DEF Sound
    <3>2. Exists(journal') /\ journal'.intents = Planned /\ journal'.fwdBefore = FALSE /\ journal'.ns = ns
      BY <1>i, <2>1, PlannedCovers DEF Sound
    <3> QED
      BY <1>n, <2>1, <3>1, <3>2 DEF IInv, JournalPlans, ResidueIsOurs, NATOnlyRouted, FreshInv,
         WorkingInv, TeardownInv, Sound, Exists, Working, Fresh, Teardown, StartPCs, RestartPCs
  <2> QED
    BY <1>9, <2>2, <2>3 DEF RecordNew
<1>10. CASE RecordNewFails
  BY <1>10, <1>i, <1>n, <1>p, <1>s, <1>w, ReturnStep DEF RecordNewFails, Active
<1>11. CASE ReapplyRouting
  <2>1. op.pc \in Working /\ op'.pc \in Working \ (Teardown \cup {"nat"}) /\ UNCHANGED <<journal, ns>>
    BY <1>11, <1>g, <1>p, <1>w DEF ReapplyRouting, Active, disk
  <2>2. mem'.lifecycle = mem.lifecycle /\ mem'.ns = mem.ns /\ mem'.fwdBefore = mem.fwdBefore
    BY <1>11 DEF ReapplyRouting, TypeOK, State
  <2>3. Sound(mem')
    BY <1>m, <2>1, <2>2 DEF Sound, Exists
  <2>4. SameLAN => "nat" \notin net'
    BY <1>11, <1>n DEF ReapplyRouting, RoutingPieces
  <2> QED
    BY <2>1, <2>3, <2>4, WorkStep
<1>12. CASE ReapplyRoutingFails
  <2>1. op.pc \in Working /\ op'.pc \in Working \ (Teardown \cup {"nat"}) /\ UNCHANGED <<journal, ns>>
    BY <1>12, <1>g, <1>p, <1>w DEF ReapplyRoutingFails, Active, disk
  <2>2. mem' \in {mem, [mem EXCEPT !.pid["mihomo"] = NoTrack, !.flags = @ \ {"routing"}]}
    BY <1>12 DEF ReapplyRoutingFails
  <2>3. mem'.lifecycle = mem.lifecycle /\ mem'.ns = mem.ns /\ mem'.fwdBefore = mem.fwdBefore
    BY <2>2 DEF TypeOK, State
  <2>4. Sound(mem')
    BY <1>m, <2>1, <2>3 DEF Sound, Exists
  <2>5. SameLAN => "nat" \notin net'
    <3>1. PICK S \in SUBSET RoutingPieces : net' = KeepTUNRoute(proc', net \cup S)
      BY <1>12 DEF ReapplyRoutingFails
    <3> QED
      BY <1>n, <3>1 DEF KeepTUNRoute, RoutingPieces
  <2> QED
    BY <2>1, <2>4, <2>5, WorkStep
<1>13. CASE CommitRouting
  BY <1>13, <1>p, <1>r, <1>w DEF CommitRouting, Active, Save, SaveFails
<1> QED
  BY <1>1, <1>2, <1>3, <1>4, <1>5, <1>6, <1>7, <1>8, <1>9, <1>10, <1>11, <1>12, <1>13 DEF RestartStep
LEMMA BeginIInv ==
  ASSUME NEW c \in Clients PROVE TypeOK /\ IInv /\ Begin(c) => IInv'
<1> SUFFICES ASSUME TypeOK, IInv, Begin(c) PROVE IInv'
  OBVIOUS
<1>0. UNCHANGED <<ns, net, journal>>
  BY DEF Begin, RequestStart, RequestStop, Refused, BeginStart, BeginStop, BeginReload, BeginRestartMihomo,
     BeginRestartDNSMasq, BeginRecover, RecoverNothing, disk
<1>k. ASSUME UNCHANGED <<op, mem>> PROVE IInv'
  BY <1>0, <1>k DEF IInv, JournalPlans, ResidueIsOurs, NATOnlyRouted, FreshInv, WorkingInv, TeardownInv,
     Sound, Exists
\* A new command starts at one of four places.
<1>b. ASSUME \/ op'.pc = "prepare" /\ ~Exists(journal)
             \/ op'.pc = "stop_begin"
             \/ op'.pc = "clear" /\ journal.ns # ns
             \/ op'.pc = "mark" /\ Exists(journal) /\ journal.ns = ns /\ Sound(mem')
      PROVE  IInv'
  BY <1>0, <1>b DEF IInv, JournalPlans, ResidueIsOurs, NATOnlyRouted, FreshInv, WorkingInv, TeardownInv,
     Sound, Exists, Working, Fresh, Teardown, StartPCs, RestartPCs
<1>p. {"prepare", "stop_begin", "clear", "mark"} \subseteq PCs
  BY DEF PCs, StartPCs, DownPCs, RestartPCs
<1>1. CASE RequestStart(c) \/ RequestStop(c) \/ Refused(c) \/ RecoverNothing(c)
  BY <1>1, <1>k DEF RequestStart, RequestStop, Refused, RecoverNothing
<1>2. CASE BeginStart(c)
  <2>1. op'.pc = "prepare" /\ ~Exists(journal)
    BY <1>2 DEF BeginStart, Take, NoOp
  <2> QED
    BY <1>b, <2>1
<1>3. CASE BeginStop(c) \/ BeginReload(c)
  <2>1. op'.pc = "stop_begin"
    BY <1>3 DEF BeginStop, BeginReload, Take, NoOp
  <2> QED
    BY <1>b, <2>1
<1>4. CASE BeginRestartMihomo(c)
  <2>1. op'.pc = "mark" /\ Exists(journal) /\ journal.ns = ns
    BY <1>4 DEF BeginRestartMihomo, NoOp, Exists, BelongsToBoot
  <2>2. mem'.lifecycle = journal.lifecycle /\ mem'.ns = journal.ns /\ mem'.fwdBefore = journal.fwdBefore
    BY <1>4 DEF BeginRestartMihomo, TypeOK, State
  <2>3. Sound(mem')
    BY <1>0, <2>1, <2>2 DEF Sound, Exists, IInv, JournalPlans
  <2> QED
    BY <1>b, <2>1, <2>3
<1>5. CASE BeginRestartDNSMasq(c)
  <2>1. op'.pc = "mark" /\ Exists(journal) /\ journal.ns = ns
    BY <1>5 DEF BeginRestartDNSMasq, NoOp, BelongsToBoot
  <2>2. mem'.lifecycle = journal.lifecycle /\ mem'.ns = journal.ns /\ mem'.fwdBefore = journal.fwdBefore
    BY <1>5 DEF BeginRestartDNSMasq, TypeOK, State
  <2>3. Sound(mem')
    BY <1>0, <2>1, <2>2 DEF Sound, Exists, IInv, JournalPlans
  <2> QED
    BY <1>b, <2>1, <2>3
<1>6. CASE BeginRecover(c)
  <2>1. op'.pc = IF ~Exists(journal) THEN "prepare" ELSE IF BelongsToBoot(journal) THEN "stop_begin" ELSE "clear"
    BY <1>6 DEF BeginRecover, Take, NoOp
  <2> QED
    BY <1>b, <2>1 DEF BelongsToBoot
<1> QED
  BY <1>1, <1>2, <1>3, <1>4, <1>5, <1>6 DEF Begin

LEMMA EnvironmentIInv == TypeOK /\ IInv /\ Environment => IInv'
<1> SUFFICES ASSUME TypeOK, IInv, Environment PROVE IInv'
  OBVIOUS
<1> USE DEF IInv, JournalPlans, ResidueIsOurs, NATOnlyRouted, FreshInv, WorkingInv, TeardownInv, Sound, Exists
<1>1. CASE Crash
  BY <1>1 DEF Crash, disk, Finish, NoOp, Working, Fresh, Teardown, StartPCs, RestartPCs
<1>2. CASE ContainerRestart
  BY <1>2 DEF ContainerRestart, disk, Finish, NoOp, Working, Fresh, Teardown, StartPCs, RestartPCs
<1>3. CASE ProcessDies
  <2>1. net' \subseteq net
    BY <1>3, KillType DEF ProcessDies
  <2> QED
    BY <1>3, <2>1 DEF ProcessDies, disk
<1>4. CASE PIDReused
  BY <1>4 DEF PIDReused, disk
<1> QED
  BY <1>1, <1>2, <1>3, <1>4 DEF Environment

LEMMA Inductive == Spec => []IInv
<1>1. Init => IInv
  BY DEF Init, NoOp, NoState, IInv, JournalPlans, ResidueIsOurs, NATOnlyRouted, FreshInv, WorkingInv,
     TeardownInv, Exists, Working, Fresh, Teardown, StartPCs, RestartPCs
<1>2. TypeOK /\ IInv /\ [Next]_vars => IInv'
  <2>1. IInv /\ UNCHANGED vars => IInv'
    BY DEF vars, IInv, JournalPlans, ResidueIsOurs, NATOnlyRouted, FreshInv, WorkingInv, TeardownInv,
       Sound, Exists
  <2> QED
    BY <2>1, StartStepIInv, StopStepIInv, RestartStepIInv, BeginIInv, EnvironmentIInv DEF Next, OpStep
<1> QED
  BY <1>1, <1>2, TypeCorrect, PTL DEF Spec

\* Without a state file nothing of OpenSurge is left in the kernel, wherever a
\* command failed or was killed and however often the container restarted.
THEOREM NoResidue == Spec => []NoResidueWithoutJournal
<1>1. IInv => NoResidueWithoutJournal
  BY DEF IInv, ResidueIsOurs, NoResidueWithoutJournal
<1> QED
  BY <1>1, Inductive, PTL

\* The processes a state of an earlier boot names are only touched by a command
\* at work, and such a command has a state of this boot.
LEMMA NextEarlierBoot ==
  ASSUME TypeOK, IInv, Next, journal.ns # ns, NEW i \in ProcIds
  PROVE  ~Signalled(i)
<1>0. op.pc \notin Working
  BY DEF IInv, WorkingInv
<1>w. Services \cup DOMAIN AfterDown \cup RestartPCs \subseteq Working
  BY DEF Working, Services, AfterDown, StartPCs, Fresh, Teardown
<1>1. CASE StartStep
  <2>1. UNCHANGED proc
    BY <1>0, <1>1, <1>w DEF StartStep, Prepare, PrepareFails, Snapshot, SnapshotFails, SaveStartingFails,
       SaveStep, SaveStepFails, EnableForwarding, StepFails, StartService, StartServiceUnidentified, Active,
       WaitForTUN, SetupNAT, SetupPolicyRouting, SetupPolicyRoutingFails, SaveRunning
  <2> QED
    BY <2>1 DEF Signalled
<1>2. CASE StopStep
  <2>1. UNCHANGED proc
    BY <1>0, <1>2, <1>w DEF StopStep, Rollback, StopBegin, StopBeginFails, SaveStopping, DownService,
       RestoreNetwork, ClearFailed, Clear, ClearFails
  <2> QED
    BY <2>1 DEF Signalled
<1>3. CASE RestartStep
  <2>1. op.pc \in RestartPCs
    BY <1>3 DEF RestartStep, MarkRestart, StopOld, StopOldFails, StopOldFailsTwice, Unwind, SpawnNew,
       SpawnNewFails, NewUnidentified, RecordNew, RecordNewFails, ReapplyRouting, ReapplyRoutingFails,
       CommitRouting, Active, RestartPCs
  <2> QED
    BY <1>0, <1>w, <2>1
<1>4. ASSUME NEW c \in Clients, Begin(c) PROVE ~Signalled(i)
  <2>1. UNCHANGED proc
    BY <1>4 DEF Begin, RequestStart, RequestStop, Refused, BeginStart, BeginStop, BeginReload,
       BeginRestartMihomo, BeginRestartDNSMasq, BeginRecover, RecoverNothing
  <2> QED
    BY <2>1 DEF Signalled
<1>5. CASE Crash \/ ContainerRestart
  BY <1>5 DEF Crash, ContainerRestart, Signalled, TypeOK
<1>6. CASE ProcessDies
  BY <1>6 DEF ProcessDies, Kill, Signalled, TypeOK, Services
<1>7. CASE PIDReused
  BY <1>7 DEF PIDReused, Signalled, TypeOK
<1> QED
  BY <1>1, <1>2, <1>3, <1>4, <1>5, <1>6, <1>7 DEF Next, OpStep, Environment

\* A state of an earlier namespace is reconciled without signalling its PIDs,
\* fingerprinted or not, whatever processes they belong to by now.
THEOREM EarlierBootSafe == Spec => EarlierBootNeverSignalled
<1>1. TypeOK /\ IInv /\ [Next]_vars =>
        [\A i \in Recorded(journal) \cap ProcIds : journal.ns # ns => ~Signalled(i)]_vars
  BY NextEarlierBoot
<1> QED
  BY <1>1, Inductive, TypeCorrect, PTL DEF Spec, EarlierBootNeverSignalled

----------------------------------------------------------------------------
(* What the journal says of the policy on disk, of the processes and of the  *)
(* kernel, for any number of clients and processes, any budget of mishaps    *)
(* and every routing mode.                                                   *)

(* The bookkeeping all of it rests on.                                     *)

\* Namespaces are numbered upwards, a missing state file records nothing, budgets are
\* only spent, and who holds the lock has a command.
BootInv ==
  /\ ns > 0 /\ journal.ns <= ns
  /\ ~Exists(journal) => journal = NoState
  /\ \A k \in Kinds : budget[k] <= Budget[k]
  /\ holder = NoClient <=> op.pc = "idle"

\* What the manager has in memory and which command it is at, step by step.
CommandInv ==
  /\ op.pc \in {"idle", "stop_begin", "prepare", "snapshot"} => mem = NoState
  /\ op.pc \in RestartPCs => op.cmd \in {"restart-mihomo", "restart-dnsmasq"}
  /\ op.pc \in {"routes", "commit"} => op.cmd = "restart-mihomo"
  /\ op.pc \notin RestartPCs => op.prev = NoTrack
  /\ op.pc \in {"mark", "stop_old", "spawn"} => mem.pid[Restarted] = NoTrack
  /\ op.pc = "stopping" => mem.lifecycle = "stopping"

\* How far start has come: what it has raised in the kernel, and which services it
\* has started and identified.
RoutingDone    == {"save_routing", "smartdns", "save_smartdns"}
NATDone        == {"save_nat", "routing"} \cup RoutingDone
DNSMasqDone    == {"save_dnsmasq", "tun", "nat"} \cup NATDone
MihomoDone     == {"save_mihomo", "dnsmasq"} \cup DNSMasqDone
ForwardingDone == {"save_forwarding", "mihomo"} \cup MihomoDone
StartDone      == {"save_starting", "forwarding"} \cup ForwardingDone

\* The TUN route is there as long as the mihomo recorded in t is.
TUNHolds(t) == t.id # 0 /\ proc[t.id] = "mihomo" => "tunroute" \in net

Identifies(s, x) == s.pid[x].id # 0 => s.pid[x].known

StartInv ==
  op.pc \in StartDone =>
    /\ mem.lifecycle = IF op.pc = "save_smartdns" THEN "running" ELSE "starting"
    /\ journal.lifecycle \in {"none", "starting"}
    /\ mem.flags = (IF op.pc \in ForwardingDone THEN {"forwarding"} ELSE {})
                   \cup (IF op.pc \in NATDone /\ ~SameLAN THEN {"nat"} ELSE {})
                   \cup (IF op.pc \in RoutingDone THEN {"routing"} ELSE {})
    /\ mem.flags \ {"routing"} \subseteq net
    /\ op.pc \in RoutingDone => "rule" \in net /\ TUNHolds(mem.pid["mihomo"])
    /\ op.pc \notin MihomoDone => mem.pid["mihomo"] = NoTrack
    /\ op.pc \notin DNSMasqDone => mem.pid["dnsmasq"] = NoTrack
    /\ op.pc # "save_smartdns" => mem.pid["smartdns"] = NoTrack
    /\ op.pc \in MihomoDone => mem.pid["mihomo"].known
    /\ op.pc \in DNSMasqDone /\ ShouldRunDNSMasq => mem.pid["dnsmasq"].known
    /\ op.pc = "smartdns" => journal.flags = mem.flags /\ journal.pid = mem.pid

\* A recorded process is the service it was recorded as, or gone, or a stranger.
Own(t, x) == t.id # 0 => proc[t.id] \in {x, "free", "stranger"}
OwnInv ==
  /\ journal.ns = ns => \A x \in Services : Own(journal.pid[x], x)
  /\ \A x \in Services : Own(mem.pid[x], x)
  /\ Own(op.prev, Restarted)

SupportInv == BootInv /\ CommandInv /\ StartInv /\ OwnInv

(* How the helpers act on the fields.                                      *)

\* The command moves on.
Moves(p) == /\ op'.pc = p /\ op'.cmd = op.cmd /\ op'.prev = op.prev
            /\ op'.prevRouting = op.prevRouting /\ holder' = holder

LEMMA GotoFields ==
  ASSUME op \in Op, holder' = holder, NEW p
  PROVE  /\ Goto(p) => Moves(p) /\ op'.failed = op.failed
         /\ GotoFail(p) => Moves(p) /\ op'.failed = TRUE
BY DEF Op, Goto, GotoFail, Moves

LEMMA FinishFields ==
  ASSUME Finish
  PROVE  /\ holder' = NoClient /\ op'.pc = "idle" /\ op'.prev = NoTrack /\ mem' = NoState
         /\ op'.cmd = "none"
BY DEF Finish, NoOp

LEMMA WriteAheadFields ==
  ASSUME NEW s \in State
  PROVE  /\ WriteAhead(s) \in State
         /\ WriteAhead(s).lifecycle = s.lifecycle /\ WriteAhead(s).ns = s.ns
         /\ WriteAhead(s).pid = s.pid /\ WriteAhead(s).flags = s.flags
         /\ Exists(s) => Exists(WriteAhead(s))
BY DEF WriteAhead, State, Effects, Exists

LEMMA SpendFields ==
  ASSUME budget \in [Kinds -> Nat], NEW k \in Kinds, Spend(k)
  PROVE  /\ budget'[k] < budget[k] /\ \A l \in Kinds : budget'[l] <= budget[l]
         /\ \A l \in Kinds \ {k} : budget'[l] = budget[l]
BY DEF Spend

LEMMA TypeUnchanged == TypeOK /\ UNCHANGED vars => TypeOK'
BY DEF TypeOK, vars

LEMMA NextType == TypeOK /\ [Next]_vars => TypeOK'
BY StartStepType, StopStepType, RestartStepType, BeginType, EnvironmentType, TypeUnchanged DEF Next, OpStep

LEMMA BudgetFalls ==
  ASSUME TypeOK, [Next]_vars
  PROVE  \A k \in Kinds : budget'[k] <= budget[k]
<1> USE SpendFields DEF TypeOK, Kinds
<1>1. CASE UNCHANGED budget
  BY <1>1
<1>2. CASE \E k \in Kinds : Spend(k)
  BY <1>2
<1>3. CASE budget' = [budget EXCEPT !["requests"] = @ - 1, !["faults"] = @ - 1]
  BY <1>3
<1>4. CASE \E n \in Nat : budget' = [budget EXCEPT !["faults"] = @ - n]
  BY <1>4
<1>5. CASE StartStep
  BY <1>1, <1>2, <1>5 DEF StartStep, Prepare, PrepareFails, Snapshot, SnapshotFails, SaveStartingFails, SaveStep,
     SaveStepFails, EnableForwarding, StepFails, StartService, StartServiceUnidentified, WaitForTUN, SetupNAT,
     SetupPolicyRouting, SetupPolicyRoutingFails, SaveRunning, Save, SaveFails
<1>6. CASE StopStep
  BY <1>1, <1>2, <1>6 DEF StopStep, Rollback, StopBegin, StopBeginFails, SaveStopping, DownService,
     RestoreNetwork, ClearFailed, Clear, ClearFails, Save, SaveFails, StopTracked, StopTrackedFails
<1>7. CASE RestartStep
  BY <1>1, <1>2, <1>4, <1>7 DEF RestartStep, MarkRestart, StopOld, StopOldFails, StopOldFailsTwice, Unwind, SpawnNew,
     SpawnNewFails, NewUnidentified, RecordNew, RecordNewFails, ReapplyRouting, ReapplyRoutingFails,
     CommitRouting, Save, SaveFails, StopTracked, StopTrackedFails
<1>8. CASE Environment
  BY <1>1, <1>2, <1>8 DEF Environment, Crash, ContainerRestart, ProcessDies, PIDReused
<1>9. ASSUME NEW c \in Clients, Begin(c) PROVE UNCHANGED budget \/ (\E k \in Kinds : Spend(k))
                \/ budget' = [budget EXCEPT !["requests"] = @ - 1, !["faults"] = @ - 1]
  BY <1>9 DEF Begin, RequestStart, RequestStop, Refused, BeginStart, BeginStop, BeginReload, BeginRestartMihomo,
     BeginRestartDNSMasq, BeginRecover, RecoverNothing
<1> QED
  BY <1>1, <1>2, <1>3, <1>5, <1>6, <1>7, <1>8, <1>9 DEF Next, OpStep, vars

\* A state is saved only by a command at work, and it is one of this boot.
LEMMA JournalSteps ==
  ASSUME TypeOK, IInv, [Next]_vars
  PROVE  /\ \/ journal' \in {journal, NoState}
            \/ Exists(journal') /\ journal'.ns = ns /\ ns' = ns /\ op.pc \in Working \cup {"save_starting"}
         /\ ns' = ns \/ (ns' = ns + 1 /\ journal' = journal /\ op' = NoOp)
<1>1. ASSUME NEW s \in State, Sound(s), journal' \in {journal, WriteAhead(s)}
      PROVE  journal' = journal \/ (Exists(journal') /\ journal'.ns = ns)
  BY <1>1, WriteAheadFields DEF Sound
<1>2. op.pc \in Working \cup {"save_starting"} => Sound(mem)
  BY DEF IInv, FreshInv, WorkingInv
<1> USE DEF TypeOK
<1>3. CASE StartStep
  <2>1. CASE SaveStartingFails
    BY <1>1, <1>2, <2>1 DEF SaveStartingFails, Active
  <2>2. CASE SaveStep \/ SaveStepFails
    <3>1. op.pc \in Working \cup {"save_starting"}
      BY <2>2 DEF SaveStep, SaveStepFails, AfterSave, Working, StartPCs, Fresh
    <3> QED
      BY <1>1, <1>2, <2>2, <3>1 DEF SaveStep, SaveStepFails, Save, SaveFails
  <2>3. CASE WaitForTUN \/ SaveRunning
    <3>1. op.pc \in Working
      BY <2>3 DEF WaitForTUN, SaveRunning, Active, Working, StartPCs, Fresh
    <3> QED
      BY <1>1, <1>2, <2>3, <3>1 DEF WaitForTUN, SaveRunning, Save, SaveFails
  <2> QED
    BY <1>3, <2>1, <2>2, <2>3 DEF StartStep, Prepare, PrepareFails, Snapshot, SnapshotFails, EnableForwarding,
       StepFails, StartService, StartServiceUnidentified, SetupNAT, SetupPolicyRouting, SetupPolicyRoutingFails, disk
<1>4. CASE StopStep
  <2>1. CASE Rollback
    <3> DEFINE m == [mem EXCEPT !.lifecycle = "cleanup"]
    <3>1. op.pc \in Working
      BY <2>1 DEF Rollback, Active, Working
    <3>2. m \in State /\ Sound(m)
      BY <1>2, <3>1 DEF State, Sound, Exists
    <3>3. journal' \in {journal, WriteAhead(m)} /\ ns' = ns
      BY <2>1 DEF Rollback
    <3> QED
      BY <1>1, <3>1, <3>2, <3>3
  <2>2. CASE SaveStopping
    <3>1. op.pc \in Working
      BY <2>2 DEF SaveStopping, Active, Working
    <3> QED
      BY <1>1, <1>2, <2>2, <3>1 DEF SaveStopping, Save, SaveFails
  <2> QED
    BY <1>4, <2>1, <2>2 DEF StopStep, StopBegin, StopBeginFails, DownService, RestoreNetwork, ClearFailed,
       Clear, ClearFails, disk
<1>5. CASE RestartStep
  <2>1. op.pc \in RestartPCs /\ ns' = ns /\ op.pc \in Working
    BY <1>5 DEF RestartStep, MarkRestart, StopOld, StopOldFails, StopOldFailsTwice, Unwind, SpawnNew,
       SpawnNewFails, NewUnidentified, RecordNew, RecordNewFails, ReapplyRouting, ReapplyRoutingFails,
       CommitRouting, Active, RestartPCs, Working
  <2>2. Identified \in State /\ Sound(Identified)
    BY <1>2, <2>1, IdentifiedType DEF Sound, Exists
  <2>3. journal' \in {journal, WriteAhead(mem), WriteAhead(Identified)}
    BY <1>5 DEF RestartStep, MarkRestart, StopOld, StopOldFails, StopOldFailsTwice, Unwind, SpawnNew,
       SpawnNewFails, NewUnidentified, RecordNew, RecordNewFails, ReapplyRouting, ReapplyRoutingFails,
       CommitRouting, Save, SaveFails, disk
  <2> QED
    BY <1>1, <1>2, <2>1, <2>2, <2>3
<1>6. ASSUME NEW c \in Clients, Begin(c) PROVE UNCHANGED <<ns, journal>>
  BY <1>6 DEF Begin, RequestStart, RequestStop, Refused, BeginStart, BeginStop, BeginReload, BeginRestartMihomo,
     BeginRestartDNSMasq, BeginRecover, RecoverNothing, disk
<1>7. CASE Environment
  BY <1>7 DEF Environment, Crash, ContainerRestart, ProcessDies, PIDReused, disk, Finish
<1> QED
  BY <1>3, <1>4, <1>5, <1>6, <1>7 DEF Next, OpStep, vars

\* The command that holds the lock goes on, or gives it up.
LEMMA HolderSteps ==
  ASSUME TypeOK, BootInv, [Next]_vars
  PROVE  holder' = NoClient <=> op'.pc = "idle"
<1> DEFINE On == holder' = holder /\ holder # NoClient /\ op'.pc # "idle"
<1> USE DEF TypeOK
<1>1. ASSUME NEW p \in PCs \ {"idle"}, holder' = holder, holder # NoClient, Goto(p) \/ GotoFail(p) PROVE On
  BY <1>1, GotoFields DEF Moves
<1>p. /\ StartPCs \cup DownPCs \cup RestartPCs \subseteq PCs \ {"idle"}
      /\ \A q \in DOMAIN AfterSave : AfterSave[q] \in PCs \ {"idle"}
      /\ \A q \in DOMAIN AfterDown : AfterDown[q] \in PCs \ {"idle"}
      /\ \A q \in Services : SaveOf[q] \in PCs \ {"idle"}
  BY DEF PCs, StartPCs, DownPCs, RestartPCs, AfterSave, AfterDown, SaveOf, Services
<1>2. StartStep => On \/ Finish
  <2>1. Prepare => On
    BY DEF Prepare, Active, Op
  <2> HIDE DEF On
  <2> QED
    BY <1>1, <1>p, <2>1 DEF StartStep, PrepareFails, Snapshot, SnapshotFails, SaveStartingFails,
       SaveStep, SaveStepFails, EnableForwarding, StepFails, StartService, StartServiceUnidentified, WaitForTUN,
       SetupNAT, SetupPolicyRouting, SetupPolicyRoutingFails, SaveRunning, Active, StartPCs, DownPCs
<1>3. StopStep => On \/ Finish
  <2> HIDE DEF On
  <2> QED
    BY <1>1, <1>p DEF StopStep, Rollback, StopBegin, StopBeginFails, SaveStopping, DownService, RestoreNetwork,
       ClearFailed, Clear, ClearFails, Active, StartPCs, DownPCs
<1>4. RestartStep => On \/ Finish
  <2> HIDE DEF On
  <2> QED
    BY <1>1, <1>p DEF RestartStep, MarkRestart, StopOld, StopOldFails, StopOldFailsTwice, Unwind, SpawnNew,
       SpawnNewFails, NewUnidentified, RecordNew, RecordNewFails, ReapplyRouting, ReapplyRoutingFails,
       CommitRouting, Active, RestartPCs
<1>5. ASSUME NEW c \in Clients, Begin(c)
      PROVE  (holder' = NoClient <=> op'.pc = "idle") \/ UNCHANGED <<holder, op>>
  <2>1. c # NoClient
    BY LifecycleAssumption DEF LifecycleAssumption
  <2>2. ASSUME NEW m, NEW k, NEW t, NEW p \in PCs \ {"idle"}, Take(c, k, p, t, m)
        PROVE  holder' = c /\ op'.pc # "idle"
    BY <2>2 DEF Take, NoOp
  <2> QED
    BY <1>5, <2>1, <2>2, <1>p DEF Begin, RequestStart, RequestStop, Refused, BeginStart, BeginStop, BeginReload,
       BeginRestartMihomo, BeginRestartDNSMasq, BeginRecover, RecoverNothing, NoOp, StartPCs, DownPCs
<1>6. Environment => Finish \/ UNCHANGED <<holder, op>>
  BY DEF Environment, Crash, ContainerRestart, ProcessDies, PIDReused
<1>7. On \/ Finish \/ UNCHANGED <<holder, op>> => (holder' = NoClient <=> op'.pc = "idle")
  BY FinishFields DEF BootInv
<1> HIDE DEF On
<1> QED
  BY <1>2, <1>3, <1>4, <1>5, <1>6, <1>7 DEF Next, OpStep, vars

LEMMA BootStep == TypeOK /\ IInv /\ BootInv /\ [Next]_vars => BootInv'
<1> SUFFICES ASSUME TypeOK, IInv, BootInv, [Next]_vars PROVE BootInv'
  OBVIOUS
<1>1. holder' = NoClient <=> op'.pc = "idle"
  BY HolderSteps
<1>2. \A k \in Kinds : budget'[k] <= Budget[k]
  <2>1. \A k \in Kinds : budget[k] \in Nat /\ budget[k] <= Budget[k] /\ Budget[k] \in Nat
    BY LifecycleAssumption DEF BootInv, TypeOK, LifecycleAssumption
  <2>2. TypeOK'
    BY NextType
  <2>3. \A k \in Kinds : budget'[k] \in Nat /\ budget'[k] <= budget[k]
    BY <2>2, BudgetFalls DEF TypeOK
  <2> QED
    BY <2>1, <2>3
<1>3. ns' > 0 /\ journal'.ns <= ns'
  BY JournalSteps DEF BootInv, TypeOK, State, NoState
<1>4. ~Exists(journal') => journal' = NoState
  BY JournalSteps DEF BootInv
<1> QED
  BY <1>1, <1>2, <1>3, <1>4 DEF BootInv, Exists
LEMMA CommandStep == TypeOK /\ CommandInv /\ [Next]_vars => CommandInv'
<1> SUFFICES ASSUME TypeOK, CommandInv, [Next]_vars PROVE CommandInv'
  OBVIOUS
<1> USE DEF TypeOK
<1> DEFINE Onward == PCs \ (RestartPCs \cup {"idle", "stop_begin", "prepare", "snapshot", "stopping"})
<1>1. Finish => CommandInv'
  BY FinishFields DEF CommandInv, RestartPCs
<1>2. UNCHANGED <<op, mem>> => CommandInv'
  BY DEF CommandInv, Restarted
<1>3. op.pc \notin RestartPCs /\ op'.prev = op.prev /\ op'.pc \in Onward => CommandInv'
  BY DEF CommandInv, RestartPCs
<1>4. ASSUME NEW p \in Onward, op.pc \notin RestartPCs, holder' = holder, Goto(p) \/ GotoFail(p) PROVE CommandInv'
  BY <1>3, <1>4, GotoFields DEF Moves
<1>5. /\ (StartPCs \cup DownPCs) \cap RestartPCs = {}
      /\ (StartPCs \cup DownPCs) \ {"stop_begin", "prepare", "snapshot", "stopping"} \subseteq Onward
      /\ \A q \in DOMAIN AfterSave : AfterSave[q] \in Onward /\ q \in StartPCs
      /\ \A q \in DOMAIN AfterDown : AfterDown[q] \in Onward /\ q \in DownPCs
      /\ \A q \in Services : SaveOf[q] \in Onward /\ q \in StartPCs
  BY DEF PCs, StartPCs, DownPCs, RestartPCs, AfterSave, AfterDown, SaveOf, Services
<1>g. \A p : Goto(p) \/ GotoFail(p) => op'.pc = p /\ op'.cmd = op.cmd /\ op'.prev = op.prev
  BY DEF Goto, GotoFail, Op
<1> HIDE DEF Onward
<1>6. CASE StartStep
  <2>1. CASE Prepare
    BY <2>1 DEF Prepare, Active, Op, CommandInv, RestartPCs
  <2>2. CASE SaveStep \/ SaveStepFails
    BY <1>4, <1>5, <2>2 DEF SaveStep, SaveStepFails, DownPCs
  <2>3. ASSUME NEW x \in Services, StartService(x) \/ StartServiceUnidentified(x) PROVE CommandInv'
    BY <1>4, <1>5, <2>3 DEF StartService, StartServiceUnidentified, Active, DownPCs
  <2> QED
    BY <1>1, <1>4, <1>5, <1>6, <2>1, <2>2, <2>3 DEF StartStep, PrepareFails, Snapshot, SnapshotFails,
       SaveStartingFails, EnableForwarding, StepFails, WaitForTUN, SetupNAT, SetupPolicyRouting,
       SetupPolicyRoutingFails, SaveRunning, Active, StartPCs, DownPCs
<1>7. CASE StopStep
  <2>1. CASE StopBegin
    <3>1. CASE Goto("clear")
      BY <1>4, <1>5, <2>1, <3>1 DEF StopBegin, Active, DownPCs
    <3>2. CASE Goto("stopping") /\ mem' = [journal EXCEPT !.lifecycle = "stopping"]
      <4>1. mem'.lifecycle = "stopping"
        BY <3>2 DEF State
      <4> QED
        BY <2>1, <3>2, <4>1, GotoFields DEF StopBegin, Active, Moves, CommandInv, RestartPCs
    <3> QED
      BY <2>1, <3>1, <3>2 DEF StopBegin
  <2>2. CASE Clear
    <3>1. CASE Goto("prepare") /\ mem' = NoState /\ UNCHANGED holder
      BY <1>g, <2>2, <3>1 DEF Clear, Active, CommandInv, RestartPCs
    <3> QED
      BY <1>1, <2>2, <3>1 DEF Clear
  <2>3. CASE DownService
    BY <1>4, <1>5, <2>3 DEF DownService
  <2> QED
    BY <1>1, <1>4, <1>5, <1>7, <2>1, <2>2, <2>3 DEF StopStep, Rollback, StopBeginFails, SaveStopping,
       RestoreNetwork, ClearFailed, ClearFails, Active, DownPCs
<1>8. CASE RestartStep
  <2>1. CASE MarkRestart
    <3>1. CASE mem' = WriteAhead(mem) /\ Goto("stop_old") /\ UNCHANGED holder
      <4>1. mem'.pid = mem.pid /\ op'.pc = "stop_old" /\ op'.cmd = op.cmd /\ op.pc = "mark"
        BY <1>g, <2>1, <3>1, WriteAheadFields DEF MarkRestart, Active
      <4> QED
        BY <4>1 DEF CommandInv, RestartPCs, Restarted
    <3> QED
      BY <1>1, <2>1, <3>1 DEF MarkRestart
  <2>2. CASE StopOld
    BY <1>g, <2>2 DEF StopOld, Active, CommandInv, RestartPCs, Restarted
  <2>3. CASE StopOldFails \/ StopOldFailsTwice \/ ReapplyRoutingFails
    <3>1. op'.pc = "unwind" /\ op'.cmd = op.cmd /\ op.pc \in RestartPCs
      BY <1>g, <2>3 DEF StopOldFails, StopOldFailsTwice, ReapplyRoutingFails, Active, RestartPCs
    <3> QED
      BY <3>1 DEF CommandInv, RestartPCs
  <2>4. CASE SpawnNew
    BY <1>g, <2>4 DEF SpawnNew, Active, CommandInv, RestartPCs
  <2>5. CASE RecordNew
    <3>1. CASE op.cmd = "restart-mihomo"
      BY <1>g, <2>5, <3>1 DEF RecordNew, Active, CommandInv, RestartPCs
    <3> QED
      BY <1>1, <2>5, <3>1 DEF RecordNew
  <2>6. CASE ReapplyRouting
    BY <1>g, <2>6 DEF ReapplyRouting, Active, CommandInv, RestartPCs
  <2> QED
    BY <1>1, <1>8, <2>1, <2>2, <2>3, <2>4, <2>5, <2>6 DEF RestartStep, Unwind, SpawnNewFails, NewUnidentified,
       RecordNewFails, CommitRouting
<1>9. ASSUME NEW c \in Clients, Begin(c) PROVE CommandInv'
  <2>1. ASSUME NEW k, NEW t, NEW p \in {"prepare", "stop_begin", "clear"}, Take(c, k, p, t, NoState)
        PROVE  CommandInv'
    BY <2>1 DEF Take, NoOp, CommandInv, RestartPCs
  <2>2. CASE BeginRestartMihomo(c)
    <3>1. op'.pc = "mark" /\ op'.cmd = "restart-mihomo"
      BY <2>2 DEF BeginRestartMihomo, NoOp
    <3>2. mem'.pid["mihomo"] = NoTrack
      BY <2>2 DEF BeginRestartMihomo, State, Services
    <3> QED
      BY <3>1, <3>2 DEF CommandInv, Restarted, RestartPCs
  <2>3. CASE BeginRestartDNSMasq(c)
    <3>1. op'.pc = "mark" /\ op'.cmd = "restart-dnsmasq"
      BY <2>3 DEF BeginRestartDNSMasq, NoOp
    <3>2. mem'.pid["dnsmasq"] = NoTrack
      BY <2>3 DEF BeginRestartDNSMasq, State, Services
    <3> QED
      BY <3>1, <3>2 DEF CommandInv, Restarted, RestartPCs
  <2> QED
    BY <1>2, <1>9, <2>1, <2>2, <2>3 DEF Begin, RequestStart, RequestStop, Refused, BeginStart, BeginStop, BeginReload,
       BeginRecover, RecoverNothing
<1>10. CASE Environment
  BY <1>1, <1>2, <1>10 DEF Environment, Crash, ContainerRestart, ProcessDies, PIDReused
<1> QED
  BY <1>2, <1>6, <1>7, <1>8, <1>9, <1>10 DEF Next, OpStep, vars
\* Processes die or start under other identities, and nothing but the route of a TUN
\* that is gone is taken from the kernel.
Gentle(t) ==
  /\ \A i \in ProcIds : proc'[i] = "mihomo" => proc[i] = "mihomo" \/ i # t.id
  /\ \/ net \subseteq net'
     \/ \E n \in SUBSET Pieces : net \subseteq n /\ net' = KeepTUNRoute(proc', n)

LEMMA TUNKept ==
  ASSUME TypeOK, NEW t \in Track, TUNHolds(t), Gentle(t)
  PROVE  TUNHolds(t)' /\ net \ {"tunroute"} \subseteq net'
BY LifecycleAssumption DEF LifecycleAssumption, TUNHolds, Gentle, KeepTUNRoute, ProcIds, Track

LEMMA StartInvStart == TypeOK /\ IInv /\ CommandInv /\ StartInv /\ StartStep => StartInv'
<1> SUFFICES ASSUME TypeOK, IInv, CommandInv, StartInv, StartStep PROVE StartInv'
  OBVIOUS
<1> USE DEF TypeOK, disk
<1>g. \A p : Goto(p) \/ GotoFail(p) => op'.pc = p
  BY DEF Goto, GotoFail, Op
<1>o. op'.pc \notin StartDone => StartInv'
  BY DEF StartInv
<1>u. "rollback" \notin StartDone /\ "idle" \notin StartDone /\ "snapshot" \notin StartDone
  BY DEF StartDone, ForwardingDone, MihomoDone, DNSMasqDone, NATDone, RoutingDone
<1>f. Finish => StartInv'
  BY <1>o, <1>u, FinishFields
<1>r. Goto("rollback") => StartInv'
  BY <1>g, <1>o, <1>u
<1>1. CASE Prepare
  BY <1>1, <1>o, <1>u DEF Prepare, Op
<1>2. CASE Snapshot
  <2>1. op'.pc = "save_starting" /\ op.pc = "snapshot" /\ UNCHANGED <<journal, net, proc>>
    BY <1>2, <1>g DEF Snapshot, Active
  <2>2. mem'.lifecycle = "starting" /\ mem'.flags = {} /\ \A x \in Services : mem'.pid[x] = NoTrack
    BY <1>2 DEF Snapshot, NoState
  <2>3. journal.lifecycle = "none"
    BY <2>1 DEF IInv, FreshInv, Fresh, Exists
  <2> QED
    BY <2>1, <2>2, <2>3 DEF StartInv, StartDone, ForwardingDone, MihomoDone, DNSMasqDone, NATDone, RoutingDone, Services
<1>w. /\ WriteAhead(mem).lifecycle = mem.lifecycle /\ WriteAhead(mem).pid = mem.pid
      /\ WriteAhead(mem).flags = mem.flags
  BY WriteAheadFields
<1>3. CASE SaveStep
  <2>1. /\ op.pc \in DOMAIN AfterSave /\ op'.pc = AfterSave[op.pc] /\ UNCHANGED <<net, proc>>
        /\ journal' = WriteAhead(mem) /\ mem' = WriteAhead(mem)
    BY <1>3, <1>g DEF SaveStep, Save
  <2> QED
    BY <1>w, <2>1 DEF StartInv, TUNHolds, AfterSave, StartDone, ForwardingDone, MihomoDone, DNSMasqDone, NATDone, RoutingDone
<1>4. CASE EnableForwarding
  <2>1. /\ op.pc = "forwarding" /\ op'.pc = "save_forwarding" /\ UNCHANGED <<journal, proc>>
        /\ net' = net \cup {"forwarding"}
    BY <1>4, <1>g DEF EnableForwarding, Active
  <2>2. mem'.lifecycle = mem.lifecycle /\ mem'.pid = mem.pid /\ mem'.flags = mem.flags \cup {"forwarding"}
    BY <1>4 DEF EnableForwarding, State
  <2> QED
    BY <2>1, <2>2 DEF StartInv, StartDone, ForwardingDone, MihomoDone, DNSMasqDone, NATDone, RoutingDone
<1>5. ASSUME NEW x \in Services, StartService(x) PROVE StartInv'
  <2>1. op.pc = x /\ op'.pc = SaveOf[x] /\ UNCHANGED <<journal, net>>
    BY <1>5, <1>g DEF StartService, Active
  <2>2. CASE x = "dnsmasq" /\ ~ShouldRunDNSMasq
    <3>1. UNCHANGED <<proc, mem>>
      BY <1>5, <2>2 DEF StartService
    <3> QED
      BY <2>1, <2>2, <3>1 DEF StartInv, TUNHolds, SaveOf, StartDone, ForwardingDone, MihomoDone, DNSMasqDone, NATDone, RoutingDone
  <2>3. CASE ~(x = "dnsmasq" /\ ~ShouldRunDNSMasq)
    <3>1. /\ NextId \in FreshIds /\ NextId \in ProcIds /\ proc' = [proc EXCEPT ![NextId] = x]
          /\ mem' = [mem EXCEPT !.pid[x] = [id |-> NextId, known |-> TRUE],
                                !.lifecycle = IF x = "smartdns" THEN "running" ELSE @]
      BY <1>5, <2>3, NextIdType DEF StartService
    <3>2. /\ mem'.flags = mem.flags /\ mem'.lifecycle = (IF x = "smartdns" THEN "running" ELSE mem.lifecycle)
          /\ mem'.pid[x].known
          /\ \A y \in Services \ {x} : mem'.pid[y] = mem.pid[y]
      BY <3>1 DEF State
    <3>3. CASE x = "mihomo"
      BY <2>1, <3>1, <3>2, <3>3 DEF StartInv, SaveOf, StartDone, ForwardingDone, MihomoDone, DNSMasqDone, NATDone, RoutingDone, Services
    <3>4. CASE x = "dnsmasq"
      BY <2>1, <3>1, <3>2, <3>4 DEF StartInv, SaveOf, StartDone, ForwardingDone, MihomoDone, DNSMasqDone, NATDone, RoutingDone, Services
    <3>5. CASE x = "smartdns"
      <4>1. TUNHolds(mem.pid["mihomo"])
        BY <2>1, <3>5 DEF StartInv, StartDone, ForwardingDone, MihomoDone, DNSMasqDone, NATDone, RoutingDone
      <4>2. TUNHolds(mem.pid["mihomo"])'
        BY <2>1, <3>1, <3>2, <3>5, <4>1 DEF TUNHolds, Services, State, Track, ProcIds
      <4> QED
        BY <2>1, <3>1, <3>2, <3>5, <4>2 DEF StartInv, SaveOf, StartDone, ForwardingDone, MihomoDone, DNSMasqDone, NATDone, RoutingDone, Services
    <3> QED
      BY <3>3, <3>4, <3>5 DEF Services
  <2> QED
    BY <2>2, <2>3
<1>6. CASE WaitForTUN
  <2>1. op.pc = "tun" /\ mem' = WriteAhead(mem) /\ UNCHANGED <<net, proc>>
    BY <1>6 DEF WaitForTUN, Active
  <2>2. CASE Save /\ Goto(IF SameLAN THEN "routing" ELSE "nat")
    <3>1. op'.pc = (IF SameLAN THEN "routing" ELSE "nat") /\ journal' = WriteAhead(mem)
      BY <1>g, <2>2 DEF Save
    <3> QED
      BY <1>w, <2>1, <3>1 DEF StartInv, StartDone, ForwardingDone, MihomoDone, DNSMasqDone, NATDone, RoutingDone
  <2> QED
    BY <1>6, <1>r, <2>2 DEF WaitForTUN
<1>7. CASE SetupNAT
  <2>1. op.pc = "nat" /\ op'.pc = "save_nat" /\ UNCHANGED <<journal, proc>> /\ net' = net \cup {"nat"}
    BY <1>7, <1>g DEF SetupNAT, Active
  <2>2. mem'.lifecycle = mem.lifecycle /\ mem'.pid = mem.pid /\ mem'.flags = mem.flags \cup {"nat"}
    BY <1>7 DEF SetupNAT, State
  <2>3. ~SameLAN
    BY <2>1 DEF IInv, NATOnlyRouted
  <2> QED
    BY <2>1, <2>2, <2>3 DEF StartInv, StartDone, ForwardingDone, MihomoDone, DNSMasqDone, NATDone, RoutingDone
<1>8. CASE SetupPolicyRouting
  <2>1. op.pc = "routing" /\ op'.pc = "save_routing" /\ UNCHANGED <<journal, proc>> /\ net' = net \cup RoutingPieces
    BY <1>8, <1>g DEF SetupPolicyRouting, Active
  <2>2. mem'.lifecycle = mem.lifecycle /\ mem'.pid = mem.pid /\ mem'.flags = mem.flags \cup {"routing"}
    BY <1>8 DEF SetupPolicyRouting, State
  <2> QED
    BY <2>1, <2>2 DEF StartInv, TUNHolds, RoutingPieces, StartDone, ForwardingDone, MihomoDone, DNSMasqDone, NATDone, RoutingDone
<1> QED
  BY <1>f, <1>r, <1>1, <1>2, <1>3, <1>4, <1>5, <1>6, <1>7, <1>8 DEF StartStep, PrepareFails, SnapshotFails,
     SaveStartingFails, SaveStepFails, StepFails, StartServiceUnidentified, SetupPolicyRoutingFails, SaveRunning
\* What the other steps do to the processes and to the kernel is done to them all.
LEMMA StartInvStep == TypeOK /\ IInv /\ BootInv /\ CommandInv /\ StartInv /\ [Next]_vars => StartInv'
<1> SUFFICES ASSUME TypeOK, IInv, BootInv, CommandInv, StartInv, [Next]_vars PROVE StartInv'
  OBVIOUS
<1> USE DEF TypeOK
<1>g. \A p : Goto(p) \/ GotoFail(p) => op'.pc = p
  BY DEF Goto, GotoFail, Op
<1>o. op'.pc \notin StartDone => StartInv'
  BY DEF StartInv
<1>u. /\ StartDone \cap (DownPCs \cup RestartPCs \cup {"idle", "snapshot", "prepare"}) = {}
      /\ \A q \in DOMAIN AfterDown : AfterDown[q] \notin StartDone
  BY DEF StartDone, ForwardingDone, MihomoDone, DNSMasqDone, NATDone, RoutingDone, DownPCs, RestartPCs, AfterDown
<1>f. Finish => StartInv'
  BY <1>o, <1>u, FinishFields
<1>s. ASSUME UNCHANGED <<op, mem, journal, proc, net>> PROVE StartInv'
  BY <1>s DEF StartInv, TUNHolds
<1>1. CASE StartStep
  BY <1>1, StartInvStart
<1>2. CASE StopStep
  BY <1>2, <1>f, <1>g, <1>o, <1>u DEF StopStep, Rollback, StopBegin, StopBeginFails, SaveStopping, DownService,
     RestoreNetwork, ClearFailed, Clear, ClearFails, DownPCs
<1>3. CASE RestartStep
  BY <1>3, <1>f, <1>g, <1>o, <1>u DEF RestartStep, MarkRestart, StopOld, StopOldFails, StopOldFailsTwice, Unwind,
     SpawnNew, SpawnNewFails, NewUnidentified, RecordNew, RecordNewFails, ReapplyRouting, ReapplyRoutingFails,
     CommitRouting, RestartPCs
<1>4. ASSUME NEW c \in Clients, Begin(c) PROVE StartInv'
  <2>1. ASSUME NEW k, NEW t, NEW p \in {"prepare", "stop_begin", "clear"}, Take(c, k, p, t, NoState)
        PROVE  op'.pc \notin StartDone
    BY <2>1, <1>u DEF Take, NoOp, DownPCs
  <2>2. CASE BeginRestartMihomo(c) \/ BeginRestartDNSMasq(c)
    BY <1>o, <1>u, <2>2 DEF BeginRestartMihomo, BeginRestartDNSMasq, NoOp, RestartPCs
  <2> QED
    BY <1>4, <1>o, <1>s, <2>1, <2>2 DEF Begin, RequestStart, RequestStop, Refused, BeginStart, BeginStop, BeginReload,
       BeginRecover, RecoverNothing, disk
<1>5. CASE ProcessDies \/ PIDReused
  <2>1. UNCHANGED <<op, mem, journal>>
    BY <1>5 DEF ProcessDies, PIDReused, disk
  <2>2. Gentle(mem.pid["mihomo"])
    BY <1>5 DEF ProcessDies, PIDReused, Kill, Gentle
  <2>3. mem.pid["mihomo"] \in Track
    BY DEF State, Services
  <2>4. TUNHolds(mem.pid["mihomo"]) => TUNHolds(mem.pid["mihomo"])'
    BY <2>1, <2>2, <2>3, TUNKept
  <2>5. net \ {"tunroute"} \subseteq net'
    BY <2>2 DEF Gentle, KeepTUNRoute
  <2>6. mem.flags \subseteq Effects
    BY DEF State
  <2> QED
    BY <2>1, <2>4, <2>5, <2>6 DEF StartInv, Effects
<1> QED
  BY <1>1, <1>2, <1>3, <1>4, <1>5, <1>f, <1>s DEF Next, OpStep, Environment, Crash, ContainerRestart, vars

\* A record stays its service's as processes die and strangers come.
LEMMA OwnKept ==
  ASSUME TypeOK, NEW t \in Track, NEW x, Own(t, x),
         \A i \in ProcIds : proc'[i] \in {proc[i], "free", "stranger"} \/ i # t.id
  PROVE  Own(t, x)'
BY LifecycleAssumption DEF LifecycleAssumption, Own, Track, ProcIds

LEMMA TracksType ==
  ASSUME TypeOK
  PROVE  op.prev \in Track /\ \A x \in Services : mem.pid[x] \in Track /\ journal.pid[x] \in Track
BY DEF TypeOK, Op, State

\* A process is started, and may be gone again, under an identity no record names.
Starts(x) == FreshIds # {} /\ proc' \in {proc, [proc EXCEPT ![NextId] = x]}

LEMMA StartsOwn ==
  ASSUME TypeOK, OwnInv, NEW x \in Services, Starts(x), UNCHANGED <<journal, ns>>, op'.prev = op.prev, op'.cmd = op.cmd,
         \A y \in Services \ {x} : mem'.pid[y] = mem.pid[y], mem'.pid[x].id = NextId
  PROVE  OwnInv'
<1>1. NextId \in FreshIds /\ NextId \in ProcIds
  BY NextIdType DEF Starts
<1>2. ASSUME NEW t \in Track, NEW y, Own(t, y), t.id # NextId PROVE Own(t, y)'
  <2>1. \A i \in ProcIds : proc'[i] \in {proc[i], "free", "stranger"} \/ i # t.id
    BY <1>2 DEF Starts, TypeOK
  <2> QED
    BY <1>2, <2>1, OwnKept
<1>3. \A y \in Services : journal.pid[y].id # NextId /\ mem.pid[y].id # NextId
  BY <1>1 DEF FreshIds, Recorded
<1>4. op.prev.id # NextId
  BY <1>1 DEF FreshIds
<1>5. journal.ns = ns => \A y \in Services : Own(journal.pid[y], y)'
  BY <1>2, <1>3, TracksType DEF OwnInv
<1>6. \A y \in Services \ {x} : Own(mem.pid[y], y)'
  BY <1>2, <1>3, TracksType DEF OwnInv, Own
<1>7. Own(mem.pid[x], x)'
  BY <1>1 DEF Own, Starts, TypeOK, FreshIds
<1>8. Own(op.prev, Restarted) => Own(op.prev, Restarted)'
  BY <1>2, <1>4, TracksType DEF Own, Restarted
<1> QED
  BY <1>5, <1>6, <1>7, <1>8 DEF OwnInv
\* Otherwise records are copied, dropped, or kept.
LEMMA OwnGoes ==
  ASSUME TypeOK, TypeOK', OwnInv,
         \A i \in ProcIds : proc'[i] \in {proc[i], "free", "stranger"},
         journal'.ns = ns' => \A x \in Services :
           \/ journal'.pid[x].id \in {0, mem.pid[x].id}
           \/ journal.ns = ns /\ journal'.pid[x].id = journal.pid[x].id,
         \A x \in Services :
           \/ mem'.pid[x].id \in {0, mem.pid[x].id}
           \/ journal.ns = ns /\ mem'.pid[x].id = journal.pid[x].id
           \/ x = Restarted /\ mem'.pid[x].id = op.prev.id,
         \/ op'.prev.id = 0
         \/ op'.prev = op.prev /\ op'.cmd = op.cmd
         \/ journal.ns = ns /\ op'.prev = journal.pid[Restarted']
  PROVE  OwnInv'
<1>1. ASSUME NEW t \in Track, NEW u \in Track, NEW x, Own(t, x), u.id \in {0, t.id} PROVE Own(u, x)'
  BY <1>1, LifecycleAssumption DEF LifecycleAssumption, Own, Track, ProcIds, TypeOK
<1>2. op'.prev \in Track /\ \A x \in Services : mem'.pid[x] \in Track /\ journal'.pid[x] \in Track
  BY DEF TypeOK, Op, State
<1>3. /\ op.prev \in Track /\ \A x \in Services : mem.pid[x] \in Track /\ journal.pid[x] \in Track
      /\ NoTrack \in Track /\ \A x : Own(NoTrack, x)
  BY TracksType, NoTrackType DEF Own, NoTrack
<1>4. \A x \in Services : journal'.ns = ns' => Own(journal.pid[x], x)'
  BY <1>1, <1>2, <1>3 DEF OwnInv
<1>5. \A x \in Services : Own(mem.pid[x], x)'
  BY <1>1, <1>2, <1>3 DEF OwnInv
<1>6. Own(op.prev, Restarted)'
  <2>1. Restarted' \in Services
    BY DEF Restarted, Services
  <2>2. op'.cmd = op.cmd => Restarted' = Restarted
    BY DEF Restarted
  <2>3. CASE op'.prev.id = 0
    BY <2>3 DEF Own
  <2>4. CASE op'.prev = op.prev /\ op'.cmd = op.cmd
    BY <1>1, <1>3, <2>2, <2>4 DEF OwnInv, Own
  <2>5. CASE journal.ns = ns /\ op'.prev = journal.pid[Restarted']
    BY <1>1, <1>3, <2>1, <2>5 DEF OwnInv, Own
  <2> QED
    BY <2>3, <2>4, <2>5
<1> QED
  BY <1>4, <1>5, <1>6 DEF OwnInv
LEMMA KillFrees == ASSUME NEW i, Kill(i), TypeOK PROVE \A j \in ProcIds : proc'[j] \in {proc[j], "free"}
BY DEF Kill, TypeOK

LEMMA OwnStep == TypeOK /\ IInv /\ BootInv /\ OwnInv /\ [Next]_vars => OwnInv'
<1> SUFFICES ASSUME TypeOK, IInv, BootInv, OwnInv, [Next]_vars PROVE OwnInv'
  OBVIOUS
<1>t. TypeOK'
  BY NextType
<1>g. \A p : Goto(p) \/ GotoFail(p) => op'.prev = op.prev /\ op'.cmd = op.cmd
  BY DEF Goto, GotoFail, Op, TypeOK
<1> DEFINE Falls  == \A i \in ProcIds : proc'[i] \in {proc[i], "free", "stranger"}
           Writes(s) == \A x \in Services : s.pid[x].id \in {0, mem.pid[x].id}
           Keeps  == UNCHANGED <<journal, ns>> \/ Writes(journal') \/ journal'.ns # ns'
           Stays  == op'.prev = op.prev /\ op'.cmd = op.cmd
<1>k. ASSUME Keeps
      PROVE  journal'.ns = ns' => \A x \in Services :
               \/ journal'.pid[x].id \in {0, mem.pid[x].id}
               \/ journal.ns = ns /\ journal'.pid[x].id = journal.pid[x].id
  BY <1>k
<1>f. Falls /\ Keeps /\ Finish => OwnInv'
  <2> SUFFICES ASSUME Falls, Keeps, Finish PROVE OwnInv'
    OBVIOUS
  <2>1. op'.prev.id = 0 /\ \A x \in Services : mem'.pid[x].id = 0
    BY FinishFields DEF NoState, NoTrack
  <2> QED
    BY <1>k, <1>t, <2>1, OwnGoes
<1>s. ASSUME Falls, Keeps, Stays, Writes(mem') PROVE OwnInv'
  <2> HIDE DEF Keeps
  <2> QED
    BY <1>k, <1>s, <1>t, OwnGoes
<1>p. UNCHANGED proc => Falls
  OBVIOUS
<1>w. /\ WriteAhead(mem).pid = mem.pid
      /\ WriteAhead([mem EXCEPT !.lifecycle = "cleanup"]).pid = mem.pid
  <2>1. [mem EXCEPT !.lifecycle = "cleanup"] \in State /\ [mem EXCEPT !.lifecycle = "cleanup"].pid = mem.pid
    BY DEF TypeOK, State
  <2> QED
    BY <2>1, WriteAheadFields DEF TypeOK
<1>v. \A s : s.pid = mem.pid => Writes(s)
  OBVIOUS
<1>n. Writes(NoState) /\ NoState.ns = 0
  BY DEF NoState, NoTrack
<1>b. journal' = NoState /\ ns' = ns => Keeps
  BY <1>n
<1>c. journal' \in {journal, WriteAhead(mem), WriteAhead([mem EXCEPT !.lifecycle = "cleanup"]), NoState} /\ ns' = ns => Keeps
  BY <1>b, <1>v, <1>w
<1>e. UNCHANGED <<op, mem>> => Stays /\ Writes(mem')
  OBVIOUS
<1>m. UNCHANGED mem \/ mem' = WriteAhead(mem) \/ mem' = WriteAhead([mem EXCEPT !.lifecycle = "cleanup"])
        \/ mem' = NoState => Writes(mem')
  BY <1>n, <1>w
<1>x. ASSUME NEW x \in Effects, mem' = [mem EXCEPT !.flags = @ \cup {x}] PROVE Writes(mem')
  BY <1>x DEF TypeOK, State
<1> HIDE DEF Falls, Writes, Keeps, Stays
<1>1. CASE StartStep
  <2>1. ASSUME NEW x \in Services, StartService(x) PROVE OwnInv'
    <3>1. CASE UNCHANGED <<proc, mem>>
      BY <1>c, <1>g, <1>m, <1>p, <1>s, <2>1, <3>1 DEF StartService, disk, Stays
    <3>2. CASE ~UNCHANGED <<proc, mem>>
      <4>1. Starts(x) /\ NextId \in 0..MaxProcs /\
            mem' = [mem EXCEPT !.pid[x] = [id |-> NextId, known |-> TRUE], !.lifecycle = IF x = "smartdns" THEN "running" ELSE @]
        BY <2>1, <3>2, NextIdType DEF StartService, Starts
      <4>2. mem'.pid[x].id = NextId /\ \A y \in Services \ {x} : mem'.pid[y] = mem.pid[y]
        BY <4>1 DEF TypeOK, State
      <4>3. op'.prev = op.prev /\ op'.cmd = op.cmd /\ UNCHANGED <<journal, ns>>
        BY <1>g, <2>1 DEF StartService, disk
      <4> QED
        BY <4>1, <4>2, <4>3, StartsOwn
    <3> QED
      BY <3>1, <3>2
  <2>2. ASSUME NEW x \in Services, StartServiceUnidentified(x) PROVE OwnInv'
    <3>1. Starts(x) /\ mem' = [mem EXCEPT !.pid[x] = [id |-> NextId, known |-> FALSE]]
      BY <2>2 DEF StartServiceUnidentified, Starts
    <3>2. mem'.pid[x].id = NextId /\ \A y \in Services \ {x} : mem'.pid[y] = mem.pid[y]
      BY <3>1 DEF TypeOK, State
    <3>3. op'.prev = op.prev /\ op'.cmd = op.cmd /\ UNCHANGED <<journal, ns>>
      BY <1>g, <2>2 DEF StartServiceUnidentified, disk
    <3> QED
      BY <3>1, <3>2, <3>3, StartsOwn
  <2>3. CASE Snapshot
    <3>1. Writes(mem')
      BY <2>3 DEF Snapshot, NoState, NoTrack, Writes
    <3> QED
      BY <1>c, <1>g, <1>p, <1>s, <2>3, <3>1 DEF Snapshot, Stays
  <2>4. CASE Prepare
    <3>1. Stays
      BY <2>4 DEF Prepare, Op, TypeOK, Stays
    <3> QED
      BY <1>c, <1>m, <1>p, <1>s, <2>4, <3>1 DEF Prepare, disk
  <2>5. CASE EnableForwarding \/ SetupNAT \/ SetupPolicyRouting
    BY <1>c, <1>g, <1>p, <1>s, <1>x, <2>5 DEF EnableForwarding, SetupNAT, SetupPolicyRouting, disk, Stays, Effects
  <2>6. CASE SaveStep \/ SaveStepFails \/ StepFails \/ WaitForTUN \/ SetupPolicyRoutingFails
    BY <1>c, <1>g, <1>m, <1>p, <1>s, <2>6 DEF SaveStep, SaveStepFails, StepFails, WaitForTUN,
       SetupPolicyRoutingFails, Save, SaveFails, disk, Stays
  <2>7. CASE PrepareFails \/ SnapshotFails \/ SaveStartingFails
    BY <1>c, <1>f, <1>p, <2>7 DEF PrepareFails, SnapshotFails, SaveStartingFails, disk
  <2>8. CASE SaveRunning
    BY <1>c, <1>f, <1>g, <1>m, <1>p, <1>s, <2>8 DEF SaveRunning, Save, SaveFails, disk, Stays
  <2> QED
    BY <1>1, <2>1, <2>2, <2>3, <2>4, <2>5, <2>6, <2>7, <2>8 DEF StartStep
<1>2. CASE StopStep
  <2>1. CASE StopBegin
    <3>1. CASE mem' = [journal EXCEPT !.lifecycle = "stopping"] /\ journal.ns = ns
      <4>1. mem'.pid = journal.pid
        BY <3>1 DEF TypeOK, State
      <4>2. Falls /\ UNCHANGED <<journal, ns>> /\ op'.prev = op.prev /\ op'.cmd = op.cmd
        BY <1>g, <1>p, <2>1 DEF StopBegin, disk
      <4> QED
        BY <1>t, <3>1, <4>1, <4>2, OwnGoes DEF Falls
    <3> QED
      BY <1>c, <1>g, <1>m, <1>p, <1>s, <2>1, <3>1 DEF StopBegin, BelongsToBoot, disk, Stays
  <2>2. CASE DownService
    <3>1. Falls
      BY <2>2, KillFrees DEF DownService, StopTracked, StopTrackedFails, Falls
    <3> QED
      BY <1>c, <1>g, <1>m, <1>s, <2>2, <3>1 DEF DownService, disk, Stays
  <2>3. CASE Clear
    BY <1>c, <1>f, <1>g, <1>m, <1>p, <1>s, <2>3 DEF Clear, Stays
  <2>4. CASE StopBeginFails \/ ClearFailed \/ ClearFails
    BY <1>c, <1>f, <1>p, <2>4 DEF StopBeginFails, ClearFailed, ClearFails, disk
  <2>5. CASE SaveStopping
    BY <1>c, <1>f, <1>g, <1>m, <1>p, <1>s, <2>5 DEF SaveStopping, Save, SaveFails, disk, Stays
  <2>6. CASE Rollback \/ RestoreNetwork
    BY <1>c, <1>g, <1>m, <1>p, <1>s, <2>6 DEF Rollback, RestoreNetwork, disk, Stays
  <2> QED
    BY <1>2, <2>1, <2>2, <2>3, <2>4, <2>5, <2>6 DEF StopStep
<1>3. CASE RestartStep
  <2>r. Restarted \in Services
    BY DEF Restarted, Services
  <2>i. Writes(Identified) /\ Writes(WriteAhead(Identified))
    <3>1. Identified \in State /\ \A x \in Services : Identified.pid[x].id = mem.pid[x].id
      BY <2>r, IdentifiedType DEF Identified, TypeOK, State, Track
    <3> QED
      BY <3>1, WriteAheadFields DEF Writes
  <2>j. journal' \in {journal, WriteAhead(Identified)} /\ ns' = ns => Keeps
    BY <2>i DEF Keeps
  <2>n. StopNew => Falls
    BY KillFrees DEF StopNew, Falls
  <2>1. CASE MarkRestart
    BY <1>c, <1>f, <1>g, <1>m, <1>p, <1>s, <2>1 DEF MarkRestart, Save, SaveFails, disk, Stays
  <2>2. CASE StopOld
    <3>1. Falls
      BY <2>2, KillFrees DEF StopOld, StopTracked, Falls
    <3> QED
      BY <1>c, <1>g, <1>m, <1>s, <2>2, <3>1 DEF StopOld, disk, Stays
  <2>3. CASE StopOldFails
    <3>1. Falls /\ UNCHANGED <<journal, ns>> /\ op'.prev = op.prev /\ op'.cmd = op.cmd
      BY <1>g, <1>p, <2>3 DEF StopOldFails, StopTrackedFails, disk
    <3>2. /\ \A x \in Services \ {Restarted} : mem'.pid[x] = mem.pid[x]
          /\ mem'.pid[Restarted] \in {op.prev, NoTrack}
      BY <2>3, <2>r DEF StopOldFails, TypeOK, State
    <3> QED
      BY <1>t, <3>1, <3>2, OwnGoes DEF Falls, NoTrack
  <2>4. CASE StopOldFailsTwice
    BY <1>c, <1>g, <1>m, <1>p, <1>s, <2>4 DEF StopOldFailsTwice, disk, Stays
  <2>5. CASE Unwind \/ CommitRouting \/ SpawnNewFails
    BY <1>c, <1>f, <1>p, <2>5 DEF Unwind, CommitRouting, SpawnNewFails, Save, SaveFails, disk
  <2>6. CASE SpawnNew
    <3>1. Starts(Restarted) /\ mem' = [mem EXCEPT !.pid[Restarted] = [id |-> NextId, known |-> FALSE]]
      BY <2>6 DEF SpawnNew, Starts
    <3>2. mem'.pid[Restarted].id = NextId /\ \A y \in Services \ {Restarted} : mem'.pid[y] = mem.pid[y]
      BY <2>r, <3>1 DEF TypeOK, State
    <3>3. op'.prev = op.prev /\ op'.cmd = op.cmd /\ UNCHANGED <<journal, ns>>
      BY <1>g, <2>6 DEF SpawnNew, disk
    <3> QED
      BY <2>r, <3>1, <3>2, <3>3, StartsOwn
  <2>7. CASE NewUnidentified
    BY <1>c, <1>f, <1>p, <2>7, <2>n DEF NewUnidentified, disk
  <2>8. CASE RecordNew
    <3>1. Goto("routes") => Stays
      BY <1>g DEF Stays
    <3>2. Falls /\ Keeps
      BY <1>p, <2>8, <2>j DEF RecordNew
    <3> QED
      BY <1>f, <1>s, <2>8, <2>i, <3>1, <3>2 DEF RecordNew
  <2>9. CASE RecordNewFails
    BY <1>f, <2>9, <2>j, <2>n DEF RecordNewFails
  <2>10. CASE ReapplyRouting
    BY <1>c, <1>g, <1>p, <1>s, <1>x, <2>10 DEF ReapplyRouting, disk, Stays, Effects
  <2>11. CASE ReapplyRoutingFails
    <3>1. Falls
      BY <2>11 DEF ReapplyRoutingFails, Falls, TypeOK
    <3>2. mem' = mem \/ mem' = [mem EXCEPT !.pid["mihomo"] = NoTrack, !.flags = @ \ {"routing"}]
      BY <2>11 DEF ReapplyRoutingFails
    <3>3. \A x \in Services : mem'.pid[x] \in {mem.pid[x], NoTrack}
      <4>1. CASE mem' = [mem EXCEPT !.pid["mihomo"] = NoTrack, !.flags = @ \ {"routing"}]
        BY <4>1 DEF TypeOK, State
      <4> QED
        BY <3>2, <4>1
    <3>5. Writes(mem')
      BY <3>3 DEF Writes, NoTrack
    <3>4. ns' = ns /\ journal' = journal /\ Stays
      BY <1>g, <2>11 DEF ReapplyRoutingFails, disk, Stays
    <3> QED
      BY <1>c, <1>s, <3>1, <3>4, <3>5
  <2> QED
    BY <1>3, <2>1, <2>2, <2>3, <2>4, <2>5, <2>6, <2>7, <2>8, <2>9, <2>10, <2>11 DEF RestartStep
<1>4. ASSUME NEW c \in Clients, Begin(c) PROVE OwnInv'
  <2>1. ASSUME NEW k, NEW t, NEW p, Take(c, k, p, t, NoState) PROVE op'.prev.id = 0 /\ Writes(mem')
    BY <1>n, <2>1 DEF Take, NoOp, NoTrack
  <2>2. CASE BeginRestartMihomo(c)
    <3>1. /\ op'.prev = journal.pid[Restarted'] /\ journal.ns = ns /\ UNCHANGED <<journal, ns, proc>>
          /\ mem' = [journal EXCEPT !.pid["mihomo"] = NoTrack, !.flags = @ \ {"routing"}]
      BY <2>2 DEF BeginRestartMihomo, BelongsToBoot, disk, NoOp, Restarted
    <3>2. \A x \in Services : mem'.pid[x] \in {NoTrack, journal.pid[x]}
      BY <3>1 DEF TypeOK, State
    <3> QED
      BY <1>t, <3>1, <3>2, OwnGoes DEF NoTrack
  <2>3. CASE BeginRestartDNSMasq(c)
    <3>1. /\ op'.prev \in {NoTrack, journal.pid[Restarted']} /\ journal.ns = ns /\ UNCHANGED <<journal, ns, proc>>
          /\ mem' = [journal EXCEPT !.pid["dnsmasq"] = NoTrack]
      BY <2>3 DEF BeginRestartDNSMasq, BelongsToBoot, disk, NoOp, Restarted
    <3>2. \A x \in Services : mem'.pid[x] \in {NoTrack, journal.pid[x]}
      BY <3>1 DEF TypeOK, State
    <3> QED
      BY <1>t, <3>1, <3>2, OwnGoes DEF NoTrack
  <2>4. CASE BeginStart(c) \/ BeginStop(c) \/ BeginReload(c) \/ BeginRecover(c)
    <3>1. op'.prev.id = 0 /\ Writes(mem') /\ UNCHANGED <<journal, ns, proc>>
      BY <2>1, <2>4 DEF BeginStart, BeginStop, BeginReload, BeginRecover, disk
    <3> QED
      BY <1>t, <3>1, OwnGoes DEF Writes
  <2>5. CASE RequestStart(c) \/ RequestStop(c) \/ Refused(c) \/ RecoverNothing(c)
    BY <1>c, <1>e, <1>p, <1>s, <2>5 DEF RequestStart, RequestStop, Refused, RecoverNothing, disk
  <2> QED
    BY <1>4, <2>2, <2>3, <2>4, <2>5 DEF Begin
<1>5. CASE Environment
  <2>1. CASE ContainerRestart
    <3>1. journal'.ns # ns'
      BY <2>1 DEF ContainerRestart, disk, BootInv, TypeOK, State
    <3> QED
      BY <1>f, <2>1, <3>1 DEF ContainerRestart, Falls, Keeps
  <2>2. CASE ProcessDies \/ PIDReused
    <3>1. Falls
      BY <2>2, KillFrees DEF ProcessDies, PIDReused, Falls, TypeOK
    <3> QED
      BY <1>c, <1>e, <1>s, <2>2, <3>1 DEF ProcessDies, PIDReused, disk
  <2>3. CASE Crash
    BY <1>c, <1>f, <1>p, <2>3 DEF Crash, disk
  <2> QED
    BY <1>5, <2>1, <2>2, <2>3 DEF Environment
<1> QED
  BY <1>1, <1>2, <1>3, <1>4, <1>5, <1>c, <1>e, <1>p, <1>s DEF Next, OpStep, vars
LEMMA SupportStep == TypeOK /\ IInv /\ SupportInv /\ [Next]_vars => SupportInv'
BY BootStep, CommandStep, StartInvStep, OwnStep DEF SupportInv

LEMMA Supported == Spec => [](TypeOK /\ IInv /\ SupportInv)
<1>1. Init => SupportInv
  <2>1. Init => BootInv
    BY LifecycleAssumption DEF LifecycleAssumption, Init, BootInv, NoState, NoOp, Exists
  <2>2. Init => CommandInv /\ StartInv
    BY DEF Init, CommandInv, StartInv, NoOp, RestartPCs, StartDone, ForwardingDone, MihomoDone, DNSMasqDone,
       NATDone, RoutingDone
  <2>3. Init => OwnInv
    BY DEF Init, OwnInv, Own, NoOp, NoState, NoTrack
  <2> QED
    BY <2>1, <2>2, <2>3 DEF SupportInv
<1> QED
  BY <1>1, SupportStep, TypeCorrect, Inductive, PTL DEF Spec
----------------------------------------------------------------------------
(* The applied device policy is on disk while the journal says "running":  *)
(* start writes it first, and whoever removes it removes the journal before*)
(* it, having marked the journal "stopping" or "cleanup".                  *)

PolicyInv ==
  /\ RunningKeepsAppliedPolicy
  /\ op.pc \in StartDone => applied
  /\ op.pc \in RestartPCs /\ mem.lifecycle = "running" => applied
  /\ op.pc \in Teardown \cup {"clear"} /\ ~op.failed /\ journal.ns = ns => journal.lifecycle # "running"

LEMMA PolicyStep == TypeOK /\ IInv /\ SupportInv /\ PolicyInv /\ [Next]_vars => PolicyInv'
<1> SUFFICES ASSUME TypeOK, IInv, SupportInv, PolicyInv, [Next]_vars PROVE PolicyInv'
  OBVIOUS
<1> USE DEF TypeOK, BelongsToBoot
<1>g. \A p : /\ Goto(p) => op'.pc = p /\ op'.failed = op.failed
             /\ GotoFail(p) => op'.pc = p /\ op'.failed = TRUE
  BY DEF Goto, GotoFail, Op
<1>d. /\ StartDone \cap (RestartPCs \cup DownPCs \cup {"idle", "prepare", "snapshot"}) = {}
      /\ RestartPCs \cap (DownPCs \cup {"idle", "prepare", "snapshot"}) = {} /\ Teardown \cup {"clear"} \subseteq DownPCs
      /\ {"idle", "prepare", "snapshot", "stop_begin", "stopping", "rollback"} \cap (Teardown \cup {"clear"}) = {}
      /\ \A q \in DOMAIN AfterSave : q \in StartDone /\ AfterSave[q] \in StartDone /\ q # "save_smartdns"
      /\ \A q \in Services : q \in StartDone /\ SaveOf[q] \in StartDone
      /\ {"forwarding", "tun", "nat", "routing", "save_forwarding", "save_nat", "save_routing", "save_starting",
          "save_smartdns"} \subseteq StartDone
      /\ \A q \in DOMAIN AfterDown : q \in Teardown /\ AfterDown[q] \in Teardown \cup {"clear"}
  BY DEF StartDone, ForwardingDone, MihomoDone, DNSMasqDone, NATDone, RoutingDone, DownPCs, RestartPCs, Teardown,
     AfterSave, AfterDown, SaveOf, Services
<1>w. \A s \in State : WriteAhead(s).lifecycle = s.lifecycle /\ WriteAhead(s).ns = s.ns
  BY WriteAheadFields
<1>s. op.pc \in StartDone /\ op.pc # "save_smartdns" => mem.lifecycle # "running" /\ journal.lifecycle # "running"
  BY DEF SupportInv, StartInv
\* The journal is as it was, or no longer running.
<1> DEFINE Quiet == journal' = journal \/ journal'.lifecycle # "running"
<1>1. ASSUME UNCHANGED <<ns, applied>>, Quiet, op'.pc \notin StartDone \cup RestartPCs \cup Teardown \cup {"clear"}
      PROVE  PolicyInv'
  BY <1>1 DEF PolicyInv, RunningKeepsAppliedPolicy
<1>2. ASSUME UNCHANGED <<ns, applied>>, Quiet, op.pc \in StartDone, op'.pc \in StartDone PROVE PolicyInv'
  BY <1>2, <1>d DEF PolicyInv, RunningKeepsAppliedPolicy
<1>3. ASSUME UNCHANGED <<ns, applied>>, Finish, Quiet PROVE PolicyInv'
  BY <1>1, <1>3, <1>d, FinishFields
<1>4. ASSUME UNCHANGED <<ns, applied, journal, op, mem>> PROVE PolicyInv'
  BY <1>4 DEF PolicyInv, RunningKeepsAppliedPolicy
<1>5. CASE StartStep
  <2>1. CASE Prepare
    BY <1>1, <1>d, <2>1 DEF Prepare, disk, Op
  <2>2. CASE PrepareFails
    BY <1>3, <2>2 DEF PrepareFails, disk
  <2>3. CASE Snapshot
    BY <1>d, <1>g, <2>3 DEF Snapshot, PolicyInv, RunningKeepsAppliedPolicy
  <2>4. CASE SnapshotFails
    <3>1. op'.pc = "idle" /\ UNCHANGED <<ns, journal>> /\ applied' \in {applied, TRUE}
      BY <2>4, FinishFields DEF SnapshotFails
    <3>2. applied => applied'
      BY <3>1
    <3> QED
      BY <1>d, <3>1, <3>2 DEF PolicyInv, RunningKeepsAppliedPolicy
  <2>5. CASE SaveStartingFails
    <3>1. journal'.lifecycle # "running" /\ op'.pc = "idle"
      BY <1>d, <1>s, <1>w, <2>5, FinishFields DEF SaveStartingFails, Active
    <3> QED
      BY <1>d, <3>1 DEF PolicyInv, RunningKeepsAppliedPolicy
  <2>6. CASE SaveStep
    BY <1>2, <1>d, <1>g, <1>s, <1>w, <2>6 DEF SaveStep, Save
  <2>7. CASE SaveStepFails
    BY <1>1, <1>d, <1>g, <1>s, <1>w, <2>7 DEF SaveStepFails, SaveFails, DownPCs
  <2>8. CASE EnableForwarding \/ SetupNAT \/ SetupPolicyRouting
    BY <1>2, <1>d, <1>g, <2>8 DEF EnableForwarding, SetupNAT, SetupPolicyRouting, Active, disk
  <2>9. CASE StepFails \/ SetupPolicyRoutingFails
    BY <1>1, <1>d, <1>g, <2>9 DEF StepFails, SetupPolicyRoutingFails, disk, DownPCs
  <2>10. ASSUME NEW x \in Services, StartService(x) PROVE PolicyInv'
    BY <1>2, <1>d, <1>g, <2>10 DEF StartService, Active, disk
  <2>11. ASSUME NEW x \in Services, StartServiceUnidentified(x) PROVE PolicyInv'
    BY <1>1, <1>d, <1>g, <2>11 DEF StartServiceUnidentified, disk, DownPCs
  <2>12. CASE WaitForTUN
    <3>1. Quiet /\ op.pc = "tun" /\ UNCHANGED <<ns, applied>>
      BY <1>d, <1>s, <1>w, <2>12 DEF WaitForTUN, Active, Save, SaveFails
    <3>2. op'.pc \in {"routing", "nat", "rollback"}
      BY <1>g, <2>12 DEF WaitForTUN
    <3> QED
      BY <1>1, <1>2, <1>d, <3>1, <3>2 DEF DownPCs
  <2>13. CASE SaveRunning
    <3>1. applied /\ UNCHANGED <<ns, applied>>
      BY <1>d, <2>13 DEF SaveRunning, Active, PolicyInv
    <3>2. op'.pc \in {"idle", "rollback"}
      BY <1>g, <2>13, FinishFields DEF SaveRunning
    <3> QED
      BY <1>d, <3>1, <3>2 DEF PolicyInv, RunningKeepsAppliedPolicy
  <2> QED
    BY <1>5, <2>1, <2>2, <2>3, <2>4, <2>5, <2>6, <2>7, <2>8, <2>9, <2>10, <2>11, <2>12, <2>13 DEF StartStep
<1>6. CASE StopStep
  <2>1. CASE Rollback
    <3>1. [mem EXCEPT !.lifecycle = "cleanup"] \in State /\ [mem EXCEPT !.lifecycle = "cleanup"].lifecycle = "cleanup"
      BY DEF State
    <3>2. Quiet /\ UNCHANGED <<ns, applied>> /\ (journal'.lifecycle # "running" \/ op'.failed = TRUE)
      BY <1>g, <1>w, <2>1, <3>1 DEF Rollback
    <3>3. op'.pc = "down_smartdns"
      BY <1>g, <2>1 DEF Rollback
    <3> QED
      BY <1>d, <3>2, <3>3 DEF PolicyInv, RunningKeepsAppliedPolicy, DownPCs
  <2>2. CASE StopBegin
    <3>1. UNCHANGED <<ns, applied, journal>> /\ op'.pc \in {"clear", "stopping"}
          /\ (op'.pc = "clear" => ~Exists(journal) \/ journal.ns # ns)
      BY <1>g, <2>2 DEF StopBegin, disk
    <3> QED
      BY <1>d, <3>1 DEF PolicyInv, RunningKeepsAppliedPolicy, DownPCs, Exists
  <2>3. CASE SaveStopping
    <3>1. mem.lifecycle = "stopping"
      BY <2>3 DEF SaveStopping, Active, SupportInv, CommandInv
    <3>2. CASE Save /\ Goto("down_smartdns")
      <4>1. journal'.lifecycle = "stopping" /\ op'.pc = "down_smartdns" /\ UNCHANGED <<ns, applied>>
        BY <1>g, <1>w, <2>3, <3>1, <3>2 DEF SaveStopping, Save
      <4> QED
        BY <1>d, <4>1 DEF PolicyInv, RunningKeepsAppliedPolicy, DownPCs
    <3>3. CASE SaveFails /\ Finish
      BY <1>3, <1>w, <2>3, <3>1, <3>3 DEF SaveStopping, SaveFails
    <3> QED
      BY <2>3, <3>2, <3>3 DEF SaveStopping
  <2>4. CASE DownService \/ RestoreNetwork
    <3>1. UNCHANGED <<ns, applied, journal>>
      BY <2>4 DEF DownService, RestoreNetwork, disk
    <3>2. op.pc \in Teardown \cup {"clear"} /\ op'.pc \in Teardown \cup {"clear"} /\ (op'.failed \/ op'.failed = op.failed)
      BY <1>d, <1>g, <2>4 DEF DownService, RestoreNetwork, Active, Teardown
    <3> QED
      BY <1>d, <3>1, <3>2 DEF PolicyInv, RunningKeepsAppliedPolicy
  <2>5. CASE StopBeginFails \/ ClearFailed
    BY <1>3, <2>5 DEF StopBeginFails, ClearFailed, disk
  <2>6. CASE Clear \/ ClearFails
    <3>1. journal.ns = ns => journal.lifecycle # "running"
      BY <2>6 DEF Clear, ClearFails, Active, PolicyInv
    <3>2. journal' \in {journal, NoState} /\ ns' = ns /\ op'.pc \in {"idle", "prepare"}
      BY <1>g, <2>6, FinishFields DEF Clear, ClearFails
    <3> QED
      BY <1>d, <3>1, <3>2 DEF PolicyInv, RunningKeepsAppliedPolicy, NoState
  <2> QED
    BY <1>6, <2>1, <2>2, <2>3, <2>4, <2>5, <2>6 DEF StopStep
<1>7. CASE RestartStep
  <2>i. /\ Identified \in State /\ Identified.lifecycle = mem.lifecycle
    BY IdentifiedType
  <2>1. op.pc \in RestartPCs /\ UNCHANGED <<ns, applied>>
    BY <1>7 DEF RestartStep, MarkRestart, StopOld, StopOldFails, StopOldFailsTwice, Unwind, SpawnNew,
       SpawnNewFails, NewUnidentified, RecordNew, RecordNewFails, ReapplyRouting, ReapplyRoutingFails,
       CommitRouting, Active, RestartPCs, disk
  <2>2. journal' \in {journal, WriteAhead(mem), WriteAhead(Identified)}
    BY <1>7 DEF RestartStep, MarkRestart, StopOld, StopOldFails, StopOldFailsTwice, Unwind, SpawnNew,
       SpawnNewFails, NewUnidentified, RecordNew, RecordNewFails, ReapplyRouting, ReapplyRoutingFails,
       CommitRouting, Save, SaveFails, disk
  <2>3. op'.pc = "idle" \/ (op'.pc \in RestartPCs /\ mem'.lifecycle = mem.lifecycle)
    <3>1. CASE MarkRestart \/ RecordNew
      BY <1>g, <1>w, <2>i, <3>1, FinishFields DEF MarkRestart, RecordNew, RestartPCs
    <3>2. CASE StopOld \/ StopOldFailsTwice
      BY <1>g, <3>2 DEF StopOld, StopOldFailsTwice, RestartPCs
    <3>3. CASE StopOldFails \/ SpawnNew \/ ReapplyRouting
      <4>1. mem'.lifecycle = mem.lifecycle
        BY <3>3 DEF StopOldFails, SpawnNew, ReapplyRouting, State
      <4> QED
        BY <1>g, <3>3, <4>1 DEF StopOldFails, SpawnNew, ReapplyRouting, RestartPCs
    <3>4. CASE ReapplyRoutingFails
      <4>1. mem' \in {mem, [mem EXCEPT !.pid["mihomo"] = NoTrack, !.flags = @ \ {"routing"}]}
        BY <3>4 DEF ReapplyRoutingFails
      <4>2. mem'.lifecycle = mem.lifecycle
        BY <4>1 DEF State
      <4> QED
        BY <1>g, <3>4, <4>2 DEF ReapplyRoutingFails, RestartPCs
    <3>5. CASE Unwind \/ SpawnNewFails \/ NewUnidentified \/ RecordNewFails \/ CommitRouting
      BY <3>5, FinishFields DEF Unwind, SpawnNewFails, NewUnidentified, RecordNewFails, CommitRouting
    <3> QED
      BY <1>7, <3>1, <3>2, <3>3, <3>4, <3>5 DEF RestartStep
  <2>4. journal'.lifecycle = "running" => journal' = journal \/ mem.lifecycle = "running"
    BY <1>w, <2>2, <2>i
  <2> QED
    BY <1>d, <2>1, <2>3, <2>4 DEF PolicyInv, RunningKeepsAppliedPolicy
<1>8. ASSUME NEW c \in Clients, Begin(c) PROVE PolicyInv'
  <2>1. CASE BeginRestartMihomo(c) \/ BeginRestartDNSMasq(c)
    <3>1. UNCHANGED <<ns, applied, journal>> /\ op'.pc = "mark" /\ journal.ns = ns
      BY <2>1 DEF BeginRestartMihomo, BeginRestartDNSMasq, disk, NoOp
    <3>2. mem'.lifecycle = journal.lifecycle
      BY <2>1 DEF BeginRestartMihomo, BeginRestartDNSMasq, State
    <3> QED
      BY <1>d, <3>1, <3>2 DEF PolicyInv, RunningKeepsAppliedPolicy, RestartPCs
  <2>2. CASE BeginRecover(c)
    <3>1. UNCHANGED <<ns, applied, journal>> /\ op'.pc \in {"prepare", "stop_begin", "clear"}
          /\ (op'.pc = "clear" => journal.ns # ns)
      BY <2>2 DEF BeginRecover, Take, NoOp
    <3> QED
      BY <1>d, <3>1 DEF PolicyInv, RunningKeepsAppliedPolicy, DownPCs
  <2>3. CASE BeginStart(c) \/ BeginStop(c) \/ BeginReload(c)
    <3>1. UNCHANGED <<ns, applied, journal>> /\ op'.pc \in {"prepare", "stop_begin"}
      BY <2>3 DEF BeginStart, BeginStop, BeginReload, Take, NoOp, disk
    <3> QED
      BY <1>1, <1>d, <3>1 DEF DownPCs
  <2>4. CASE RequestStart(c) \/ RequestStop(c) \/ Refused(c) \/ RecoverNothing(c)
    BY <1>4, <2>4 DEF RequestStart, RequestStop, Refused, RecoverNothing, disk
  <2> QED
    BY <1>8, <2>1, <2>2, <2>3, <2>4 DEF Begin
<1>9. CASE Environment
  <2>1. CASE ContainerRestart
    <3>1. journal'.ns # ns' /\ op'.pc = "idle"
      BY <2>1, FinishFields DEF ContainerRestart, disk, SupportInv, BootInv, State
    <3> QED
      BY <1>d, <3>1 DEF PolicyInv, RunningKeepsAppliedPolicy
  <2> QED
    BY <1>3, <1>4, <1>9, <2>1 DEF Environment, Crash, ProcessDies, PIDReused, disk
<1> QED
  BY <1>4, <1>5, <1>6, <1>7, <1>8, <1>9 DEF Next, OpStep, vars

\* Whatever fails or dies between two saves, a gateway that the journal records as
\* running has the device policy it applied on disk.
THEOREM PolicyKept == Spec => []RunningKeepsAppliedPolicy
<1>1. Init => PolicyInv
  BY DEF Init, PolicyInv, RunningKeepsAppliedPolicy, NoState, NoOp, StartDone, ForwardingDone, MihomoDone,
     DNSMasqDone, NATDone, RoutingDone, RestartPCs, Teardown
<1>2. PolicyInv => RunningKeepsAppliedPolicy
  BY DEF PolicyInv
<1> QED
  BY <1>1, <1>2, PolicyStep, Supported, PTL DEF Spec
----------------------------------------------------------------------------
(* Who starts and who signals processes.                                   *)

\* SmartDNS is started by start alone, as its last step.
LEMMA OnlyStartOpens ==
  ASSUME TypeOK, [Next]_vars, Spawned("smartdns")
  PROVE  op.pc = "smartdns"
<1> USE DEF TypeOK
<1>1. PICK i \in ProcIds : proc[i] # "smartdns" /\ proc'[i] = "smartdns"
  BY DEF Spawned
<1>k. ~UNCHANGED proc /\ \A j : ~Kill(j)
  BY <1>1 DEF Kill
<1>2. CASE StartStep
  <2>1. PICK s \in Services : StartService(s) \/ StartServiceUnidentified(s)
    BY <1>2, <1>k DEF StartStep, Prepare, PrepareFails, Snapshot, SnapshotFails, SaveStartingFails, SaveStep,
       SaveStepFails, EnableForwarding, StepFails, WaitForTUN, SetupNAT, SetupPolicyRouting,
       SetupPolicyRoutingFails, SaveRunning
  <2>2. op.pc = s /\ proc' = [proc EXCEPT ![NextId] = s]
    BY <1>k, <2>1 DEF StartService, StartServiceUnidentified, Active
  <2> QED
    BY <1>1, <2>2 DEF ProcIds
<1>3. ~StopStep
  BY <1>k DEF StopStep, Rollback, StopBegin, StopBeginFails, SaveStopping, DownService, RestoreNetwork,
     ClearFailed, Clear, ClearFails, StopTracked, StopTrackedFails
<1>4. ~RestartStep
  <2>1. ~SpawnNew
    BY <1>1 DEF SpawnNew, Restarted
  <2>2. ~ReapplyRoutingFails
    BY <1>1 DEF ReapplyRoutingFails
  <2> QED
    BY <1>k, <2>1, <2>2 DEF RestartStep, MarkRestart, StopOld, StopOldFails, StopOldFailsTwice, Unwind,
       SpawnNewFails, NewUnidentified, RecordNew, RecordNewFails, ReapplyRouting, CommitRouting,
       StopTracked, StopTrackedFails, StopNew
<1>5. ASSUME NEW c \in Clients PROVE ~Begin(c)
  BY <1>k DEF Begin, RequestStart, RequestStop, Refused, BeginStart, BeginStop, BeginReload, BeginRestartMihomo,
     BeginRestartDNSMasq, BeginRecover, RecoverNothing
<1>6. ~Environment
  BY <1>1, <1>k DEF Environment, Crash, ContainerRestart, ProcessDies, PIDReused
<1> QED
  BY <1>2, <1>3, <1>4, <1>5, <1>6, <1>k DEF Next, OpStep, vars

\* When SmartDNS starts, the journal records the kernel state as applied and the other
\* services with their fingerprints, and the ip rules are there.
THEOREM FrontDoorLast == Spec => FrontDoorOpensLast
<1>1. ASSUME TypeOK, SupportInv, [Next]_vars, Spawned("smartdns")
      PROVE  /\ journal.flags = (IF SameLAN THEN Effects \ {"nat"} ELSE Effects)
             /\ journal.pid["mihomo"].known
             /\ ShouldRunDNSMasq => journal.pid["dnsmasq"].known
             /\ "rule" \in net
  <2>1. op.pc = "smartdns"
    BY <1>1, OnlyStartOpens
  <2> QED
    BY <1>1, <2>1 DEF SupportInv, StartInv, Effects, StartDone, ForwardingDone, MihomoDone, DNSMasqDone, NATDone,
       RoutingDone
<1> QED
  BY <1>1, Supported, PTL DEF Spec, FrontDoorOpensLast

LEMMA NextStrangerSafe ==
  ASSUME TypeOK, [Next]_vars, NEW i \in ProcIds, Signalled(i)
  PROVE  \/ [id |-> i, known |-> FALSE] \in {mem.pid[s] : s \in Services} \cup {op.prev}
         \/ op.pc \in {"record", "routes"}
<1> USE DEF TypeOK
<1>1. proc[i] = "stranger" /\ proc'[i] # "stranger" /\ ns' = ns
  BY DEF Signalled
<1>2. ASSUME NEW t \in Track, StopTracked(t) PROVE t = [id |-> i, known |-> FALSE]
  BY <1>1, <1>2 DEF StopTracked, Matches, Kill, Track, Services
<1>3. FreshIds # {} => NextId # i
  BY <1>1, NextIdType DEF FreshIds
<1>4. ~StartStep
  BY <1>1, <1>3 DEF StartStep, Prepare, PrepareFails, Snapshot, SnapshotFails, SaveStartingFails, SaveStep,
     SaveStepFails, EnableForwarding, StepFails, StartService, StartServiceUnidentified, WaitForTUN, SetupNAT,
     SetupPolicyRouting, SetupPolicyRoutingFails, SaveRunning
<1>5. CASE StopStep
  <2>1. DownService
    BY <1>1, <1>5 DEF StopStep, Rollback, StopBegin, StopBeginFails, SaveStopping, RestoreNetwork,
       ClearFailed, Clear, ClearFails
  <2>2. DownOf[op.pc] \in Services
    BY <2>1 DEF DownService, AfterDown, DownOf, Services
  <2>3. StopTracked(mem.pid[DownOf[op.pc]])
    BY <1>1, <2>1 DEF DownService, StopTrackedFails
  <2> QED
    BY <1>2, <2>2, <2>3, TracksType
<1>6. CASE RestartStep
  <2>1. CASE StopOld
    BY <1>2, <2>1, TracksType DEF StopOld
  <2>2. CASE NewUnidentified \/ RecordNewFails \/ ReapplyRoutingFails
    BY <2>2 DEF NewUnidentified, RecordNewFails, ReapplyRoutingFails, Active
  <2> QED
    BY <1>1, <1>3, <1>6, <2>1, <2>2 DEF RestartStep, MarkRestart, StopOldFails, StopOldFailsTwice, Unwind,
       SpawnNew, SpawnNewFails, RecordNew, ReapplyRouting, CommitRouting, StopTrackedFails
<1>7. ASSUME NEW c \in Clients PROVE ~Begin(c)
  BY <1>1 DEF Begin, RequestStart, RequestStop, Refused, BeginStart, BeginStop, BeginReload, BeginRestartMihomo,
     BeginRestartDNSMasq, BeginRecover, RecoverNothing
<1>8. ~Environment
  BY <1>1 DEF Environment, Crash, ContainerRestart, ProcessDies, PIDReused, Kill, Services
<1> QED
  BY <1>1, <1>4, <1>5, <1>6, <1>7, <1>8 DEF Next, OpStep, vars

\* A stranger that took a recorded PID is signalled only where the fingerprint is blank,
\* or by a restart that stops its own replacement by its PID.
THEOREM StrangerSafe == Spec => StrangerSafeOnceIdentified
<1>1. TypeOK /\ [Next]_vars =>
        \A i \in ProcIds : Signalled(i) =>
          \/ [id |-> i, known |-> FALSE] \in {mem.pid[s] : s \in Services} \cup {op.prev}
          \/ op.pc \in {"record", "routes"}
  BY NextStrangerSafe
<1> QED
  BY <1>1, TypeCorrect, PTL DEF Spec, StrangerSafeOnceIdentified
----------------------------------------------------------------------------
(* No service is lost from sight.  In the steps between, the journal or the*)
(* memory alone does not do: a restart has taken the old process out of    *)
(* both, and the teardown is sure of having stopped what it went past.     *)

Calm == budget["faults"] = Budget["faults"] /\ budget["crashes"] = Budget["crashes"]

Live    == {i \in ProcIds : proc[i] \in Services}
OnDisk  == IF journal.ns = ns THEN Recorded(journal) ELSE {}

Replaced == {"spawn", "record", "routes", "commit", "unwind"}

LedgerInv ==
  Calm =>
    /\ op.pc \in {"idle", "stop_begin"} \cup Teardown \cup {"clear", "spawn"} => Live \subseteq OnDisk
    /\ op.pc \in Fresh => Live = {}
    /\ op.pc \in Working => Live \subseteq Recorded(mem) \cup {op.prev.id}
    /\ op.pc = "stop_old" => Live \subseteq OnDisk \cup {op.prev.id}
    /\ op.pc = "record" => Live \subseteq OnDisk \cup {mem.pid[Restarted].id}
    /\ op.pc \in Replaced => op.prev.id \notin Live
    /\ op.pc \in {"down_network", "down_dnsmasq", "down_mihomo"} /\ ~op.failed => mem.pid["smartdns"].id \notin Live
    /\ op.pc = "down_mihomo" /\ ~op.failed => mem.pid["dnsmasq"].id \notin Live
    /\ op.pc = "clear" /\ ~op.failed => Live = {}

\* Calm ends with the first fault and the first killed client.
LEMMA CalmSteps ==
  ASSUME TypeOK, BootInv, [Next]_vars, Calm'
  PROVE  /\ Calm
         /\ ~Spend("faults") /\ ~Spend("crashes")
         /\ \A n \in Nat \ {0} : budget' # [budget EXCEPT !["faults"] = @ - n]
         /\ budget' # [budget EXCEPT !["requests"] = @ - 1, !["faults"] = @ - 1]
<1>1. \A k \in {"faults", "crashes"} : /\ budget[k] \in Nat /\ Budget[k] \in Nat /\ budget'[k] \in Nat
                                       /\ budget'[k] <= budget[k] /\ budget[k] <= Budget[k]
  BY BudgetFalls, NextType, LifecycleAssumption DEF TypeOK, BootInv, LifecycleAssumption, Kinds
<1>2. Calm /\ budget'["faults"] = budget["faults"] /\ budget'["crashes"] = budget["crashes"]
  BY <1>1 DEF Calm
<1> QED
  BY <1>1, <1>2 DEF Spend, TypeOK, Kinds

\* What StopTracked leaves.
LEMMA StopTrackedLive ==
  ASSUME TypeOK, NEW t \in Track, StopTracked(t)
  PROVE  Live' \subseteq Live /\ t.id \notin Live'
<1>1. CASE Gone(t) /\ UNCHANGED proc
  BY <1>1 DEF Gone, Live, Services, ProcIds
<1>2. CASE Kill(t.id)
  <2>1. proc' = [proc EXCEPT ![t.id] = "free"]
    BY <1>2 DEF Kill
  <2> QED
    BY <2>1 DEF Live, TypeOK, Services
<1> QED
  BY <1>1, <1>2 DEF StopTracked

LEMMA StartsLive ==
  ASSUME TypeOK, NEW x \in Services, Starts(x)
  PROVE  /\ Live' \subseteq Live \cup {NextId} /\ NextId \in ProcIds /\ NextId \notin Live
         /\ NextId \notin Recorded(journal) \cup Recorded(mem) \cup {op.prev.id}
BY NextIdType DEF Starts, Live, TypeOK, FreshIds, Services
\* The journal on disk, after a save and where nothing was saved.
LEMMA DiskLedger ==
  /\ UNCHANGED <<journal, ns>> => OnDisk' = OnDisk
  /\ \A s \in State : journal' = WriteAhead(s) /\ s.ns = ns' => OnDisk' = Recorded(s)
BY WriteAheadFields DEF OnDisk, Recorded

\* What the ledger asks of a command that has just come to its next step.
LEMMA LedgerNext ==
  ASSUME TypeOK'
  PROVE  /\ Live' = {} => LedgerInv'
         /\ op'.pc \in {"idle", "stop_begin"} /\ Live' \subseteq OnDisk' => LedgerInv'
         /\ /\ op'.pc \in Working \ (Teardown \cup {"stop_old"} \cup Replaced)
            /\ Live' \subseteq Recorded(mem)' \cup {op'.prev.id}
            => LedgerInv'
         /\ /\ op'.pc = "unwind" \/ op'.pc = "routes" \/ op'.pc = "commit"
            /\ Live' \subseteq Recorded(mem)' /\ op'.prev.id \notin Live'
            => LedgerInv'
BY DEF LedgerInv, Fresh, Working, Teardown, Replaced, StartPCs, RestartPCs, Live

LEMMA LedgerStart == TypeOK /\ IInv /\ SupportInv /\ LedgerInv /\ StartStep => LedgerInv'
<1> SUFFICES ASSUME TypeOK, IInv, SupportInv, LedgerInv, StartStep, Calm' PROVE LedgerInv'
  BY DEF LedgerInv
<1> USE DEF disk
<1>t. TypeOK' /\ [Next]_vars
  BY NextType DEF Next, OpStep
<1>c. /\ Calm /\ ~Spend("faults")
      /\ \A p : Goto(p) => op'.pc = p /\ op'.prev = op.prev
  BY <1>t, CalmSteps DEF SupportInv, Goto, TypeOK, Op
<1>p. /\ Working \ (Teardown \cup {"stop_old"} \cup Replaced) = (StartPCs \ Fresh) \cup {"stopping", "rollback", "mark"}
      /\ \A q \in DOMAIN AfterSave : AfterSave[q] \in (StartPCs \ Fresh) /\ q \in StartPCs
      /\ \A q \in Services : SaveOf[q] \in (StartPCs \ Fresh) /\ q \in (StartPCs \ Fresh)
      /\ {"forwarding", "tun", "nat", "routing", "save_forwarding", "save_nat", "save_routing",
          "save_smartdns"} \subseteq StartPCs \ Fresh
  BY DEF Working, Teardown, Replaced, StartPCs, Fresh, RestartPCs, AfterSave, SaveOf, Services
<1>w. op.pc \in StartPCs \ Fresh => Live \subseteq Recorded(mem) \cup {op.prev.id} /\ mem.ns = ns
  BY <1>c DEF LedgerInv, Working, IInv, WorkingInv, Sound
<1>f. op.pc \in Fresh => Live = {}
  BY <1>c DEF LedgerInv
<1>l. UNCHANGED proc => Live' = Live
  BY DEF Live
<1>a. WriteAhead(mem).pid = mem.pid
  BY WriteAheadFields DEF TypeOK
<1>m. ASSUME UNCHANGED proc, op'.prev = op.prev, mem'.pid = mem.pid, op.pc \in StartPCs,
             op'.pc \in (StartPCs \ Fresh) \cup {"rollback"}
      PROVE  LedgerInv'
  BY <1>f, <1>l, <1>m, <1>p, <1>t, <1>w, LedgerNext DEF Recorded
<1>1. CASE Prepare \/ PrepareFails \/ Snapshot \/ SnapshotFails \/ SaveStartingFails
  <2>1. op.pc \in Fresh /\ UNCHANGED proc
    BY <1>1 DEF Prepare, PrepareFails, Snapshot, SnapshotFails, SaveStartingFails, Active, Fresh
  <2> QED
    BY <1>f, <1>l, <1>t, <2>1, LedgerNext
<1>2. CASE SaveStep
  BY <1>2, <1>a, <1>c, <1>m, <1>p DEF SaveStep
<1>3. CASE EnableForwarding \/ SetupNAT \/ SetupPolicyRouting
  <2>1. mem'.pid = mem.pid
    BY <1>3 DEF EnableForwarding, SetupNAT, SetupPolicyRouting, TypeOK, State
  <2> QED
    BY <1>3, <1>c, <1>m, <1>p, <2>1 DEF EnableForwarding, SetupNAT, SetupPolicyRouting, Active
<1>4. CASE StepFails \/ SetupPolicyRoutingFails
  <2>1. op.pc \in StartPCs
    BY <1>4 DEF StepFails, SetupPolicyRoutingFails, Active, StartPCs
  <2> QED
    BY <1>4, <1>c, <1>m, <2>1 DEF StepFails, SetupPolicyRoutingFails
<1>5. CASE WaitForTUN
  <2>1. op'.pc \in {"routing", "nat"} /\ op'.prev = op.prev /\ mem'.pid = mem.pid
    BY <1>5, <1>a, <1>c DEF WaitForTUN, SaveFails
  <2> QED
    BY <1>5, <1>m, <1>p, <2>1 DEF WaitForTUN, Active
<1>n. \A x \in Services : op.pc = x => mem.pid[x] = NoTrack
  BY DEF SupportInv, StartInv, Services, StartDone, ForwardingDone, MihomoDone, DNSMasqDone, NATDone, RoutingDone
<1>6. ASSUME NEW x \in Services, op.pc = x, Starts(x), op'.prev = op.prev, mem'.pid[x].id = NextId,
             \A y \in Services \ {x} : mem'.pid[y] = mem.pid[y], op'.pc \in (StartPCs \ Fresh) \cup {"rollback"}
      PROVE  LedgerInv'
  <2>1. Live' \subseteq Live \cup {NextId} /\ Live \subseteq ProcIds
    BY <1>6, StartsLive DEF Live
  <2>2. Live \subseteq Recorded(mem) \cup {op.prev.id}
    BY <1>6, <1>p, <1>w
  <2>3. Recorded(mem) \ {0} \subseteq Recorded(mem)' /\ NextId \in Recorded(mem)'
    BY <1>6, <1>n DEF Recorded, NoTrack
  <2>4. Live' \subseteq Recorded(mem)' \cup {op'.prev.id}
    BY <1>6, <2>1, <2>2, <2>3 DEF ProcIds
  <2> QED
    BY <1>6, <1>p, <1>t, <2>4, LedgerNext
<1>7. ASSUME NEW x \in Services, StartService(x) PROVE LedgerInv'
  <2>1. CASE UNCHANGED <<proc, mem>>
    BY <1>7, <1>c, <1>m, <1>p, <2>1 DEF StartService, Active
  <2>2. CASE ~UNCHANGED <<proc, mem>>
    <3>1. Starts(x) /\ NextId \in 0..MaxProcs /\
          mem' = [mem EXCEPT !.pid[x] = [id |-> NextId, known |-> TRUE], !.lifecycle = IF x = "smartdns" THEN "running" ELSE @]
      BY <1>7, <2>2, NextIdType DEF StartService, Starts
    <3>2. mem'.pid[x].id = NextId /\ \A y \in Services \ {x} : mem'.pid[y] = mem.pid[y]
      BY <3>1 DEF TypeOK, State
    <3>3. op.pc = x /\ op'.prev = op.prev /\ op'.pc \in StartPCs \ Fresh
      BY <1>7, <1>c, <1>p DEF StartService, Active
    <3> QED
      BY <1>6, <3>1, <3>2, <3>3
  <2> QED
    BY <2>1, <2>2
<1>8. ASSUME NEW x \in Services, StartServiceUnidentified(x) PROVE LedgerInv'
  <2>1. Starts(x) /\ mem' = [mem EXCEPT !.pid[x] = [id |-> NextId, known |-> FALSE]]
    BY <1>8 DEF StartServiceUnidentified, Starts
  <2>2. mem'.pid[x].id = NextId /\ \A y \in Services \ {x} : mem'.pid[y] = mem.pid[y]
    BY <2>1 DEF TypeOK, State
  <2> QED
    BY <1>6, <1>8, <1>c, <2>1, <2>2 DEF StartServiceUnidentified, Active
<1>9. CASE SaveRunning
  <2>1. Save /\ Finish /\ op.pc = "save_smartdns" /\ UNCHANGED <<ns, proc>>
    BY <1>9, <1>c DEF SaveRunning, SaveFails, Active
  <2>2. op.prev.id = 0 /\ OnDisk' = Recorded(mem)
    BY <1>p, <1>w, <2>1, DiskLedger DEF SupportInv, CommandInv, RestartPCs, NoTrack, Save, TypeOK
  <2>3. Live \subseteq Recorded(mem)
    BY <1>p, <1>w, <2>1, <2>2 DEF Live, ProcIds
  <2> QED
    BY <1>l, <1>t, <2>1, <2>2, <2>3, FinishFields, LedgerNext
<1>10. ~SaveStepFails
  BY <1>c DEF SaveStepFails, SaveFails
<1> QED
  BY <1>1, <1>2, <1>3, <1>4, <1>5, <1>7, <1>8, <1>9, <1>10 DEF StartStep
LEMMA LedgerStop == TypeOK /\ IInv /\ SupportInv /\ LedgerInv /\ StopStep => LedgerInv'
<1> SUFFICES ASSUME TypeOK, IInv, SupportInv, LedgerInv, StopStep, Calm' PROVE LedgerInv'
  BY DEF LedgerInv
<1> USE DEF disk
<1>t. TypeOK' /\ [Next]_vars
  BY NextType DEF Next, OpStep
<1>c. /\ Calm /\ ~Spend("faults")
      /\ \A p : /\ Goto(p) => op'.pc = p /\ op'.prev = op.prev /\ op'.failed = op.failed
                /\ GotoFail(p) => op'.pc = p /\ op'.prev = op.prev /\ op'.failed = TRUE
  BY <1>t, CalmSteps DEF SupportInv, Goto, GotoFail, TypeOK, Op
<1>l. UNCHANGED proc => Live' = Live
  BY DEF Live
<1>d. Live \subseteq ProcIds /\ 0 \notin Live
  BY DEF Live, ProcIds
<1>n. op.pc \notin RestartPCs => op.prev.id = 0
  BY DEF SupportInv, CommandInv, NoTrack
<1>o. op.pc \in {"stop_begin", "clear"} \cup Teardown => Live \subseteq OnDisk
  BY <1>c DEF LedgerInv
<1>w. op.pc \in {"stopping", "rollback"} \cup Teardown => Live \subseteq Recorded(mem) /\ mem.ns = ns
  BY <1>c, <1>d, <1>n DEF LedgerInv, Working, IInv, WorkingInv, Sound, Teardown, RestartPCs
\* The teardown begins: everything is in the state it has just saved.
<1>1. ASSUME Live' = Live, op.pc \in {"stopping", "rollback"}, NEW s \in State, s.pid = mem.pid, s.ns = ns',
             journal' = WriteAhead(s), mem' = WriteAhead(s), op'.pc = "down_smartdns"
      PROVE  LedgerInv'
  <2>1. OnDisk' = Recorded(mem) /\ Recorded(mem)' = Recorded(mem)
    BY <1>1, DiskLedger, WriteAheadFields DEF Recorded
  <2> QED
    BY <1>1, <1>w, <2>1 DEF LedgerInv, Fresh, Working, Teardown, Replaced, StartPCs, RestartPCs
<1>2. CASE Rollback
  <2> DEFINE m == [mem EXCEPT !.lifecycle = "cleanup"]
  <2>1. m \in State /\ m.pid = mem.pid /\ m.ns = mem.ns
    BY DEF TypeOK, State
  <2>2. op.pc = "rollback" /\ mem' = WriteAhead(m) /\ journal' = WriteAhead(m) /\ Goto("down_smartdns") /\ UNCHANGED <<ns, proc>>
    BY <1>2, <1>c DEF Rollback, Active
  <2> HIDE DEF m
  <2> QED
    BY <1>1, <1>c, <1>l, <1>w, <2>1, <2>2
<1>3. CASE SaveStopping
  <2>1. op.pc = "stopping" /\ mem' = WriteAhead(mem) /\ journal' = WriteAhead(mem) /\ Goto("down_smartdns") /\ UNCHANGED <<ns, proc>>
    BY <1>3, <1>c DEF SaveStopping, Save, SaveFails, Active
  <2> QED
    BY <1>1, <1>c, <1>l, <1>w, <2>1 DEF TypeOK
<1>4. CASE StopBegin
  <2>1. op.pc = "stop_begin" /\ Live' = Live /\ UNCHANGED <<journal, ns>>
    BY <1>4, <1>l DEF StopBegin, Active
  <2>2. CASE ~Exists(journal) \/ ~BelongsToBoot(journal)
    <3>1. OnDisk \subseteq {0}
      BY <2>2 DEF OnDisk, BelongsToBoot, SupportInv, BootInv, NoState, NoTrack, Recorded
    <3> QED
      BY <1>d, <1>o, <1>t, <2>1, <3>1, LedgerNext
  <2>3. CASE Exists(journal) /\ BelongsToBoot(journal)
    <3>1. op'.pc = "stopping" /\ mem' = [journal EXCEPT !.lifecycle = "stopping"]
      BY <1>4, <1>c, <2>3 DEF StopBegin
    <3>2. mem'.pid = journal.pid
      BY <3>1 DEF TypeOK, State
    <3>3. Live' \subseteq Recorded(mem)'
      BY <1>o, <2>1, <2>3, <3>2 DEF OnDisk, BelongsToBoot, Recorded
    <3> QED
      BY <1>t, <3>1, <3>3, LedgerNext DEF Working, Teardown, Replaced, StartPCs, RestartPCs
  <2> QED
    BY <2>2, <2>3
<1>5. CASE DownService
  <2> DEFINE x == DownOf[op.pc]
             t == mem.pid[x]
  <2>1. /\ op.pc \in {"down_smartdns", "down_dnsmasq", "down_mihomo"} /\ op'.pc = AfterDown[op.pc]
        /\ UNCHANGED <<journal, ns, mem>> /\ op'.prev = op.prev
    BY <1>5, <1>c DEF DownService, AfterDown
  <2>2. t \in Track /\ x \in Services
    BY <2>1 DEF TypeOK, State, DownOf, Services
  <2>3. \/ op'.failed = op.failed /\ Live' \subseteq Live /\ t.id \notin Live'
        \/ op'.failed = TRUE /\ Live' = Live
    <3>1. CASE StopTracked(t) /\ Goto(AfterDown[op.pc])
      BY <1>c, <2>2, <3>1, StopTrackedLive
    <3>2. CASE StopTrackedFails(t) /\ GotoFail(AfterDown[op.pc])
      BY <1>c, <1>l, <3>2 DEF StopTrackedFails
    <3> QED
      BY <1>5, <3>1, <3>2 DEF DownService
  <2>4. OnDisk' = OnDisk /\ Recorded(mem)' = Recorded(mem) /\ Live' \subseteq Live
    BY <2>1, <2>3, DiskLedger DEF Recorded
  <2>5. Live' \subseteq OnDisk' /\ Live' \subseteq Recorded(mem)'
    BY <1>o, <1>w, <2>1, <2>4 DEF Teardown
  <2>6. CASE op.pc = "down_smartdns"
    BY <2>1, <2>3, <2>4, <2>5, <2>6 DEF LedgerInv, Fresh, Working, Teardown, Replaced, StartPCs, RestartPCs, DownOf, AfterDown
  <2>7. CASE op.pc = "down_dnsmasq"
    BY <1>c, <2>1, <2>3, <2>4, <2>5, <2>7 DEF LedgerInv, Fresh, Working, Teardown, Replaced, StartPCs, RestartPCs, DownOf, AfterDown
  <2>8. CASE op.pc = "down_mihomo"
    <3>1. op'.pc = "clear" /\ (~op'.failed => Live' = {})
      BY <1>c, <1>d, <2>1, <2>3, <2>4, <2>5, <2>8 DEF LedgerInv, Recorded, Services, DownOf, AfterDown
    <3> QED
      BY <2>5, <3>1 DEF LedgerInv, Fresh, Working, Teardown, Replaced, StartPCs, RestartPCs
  <2> QED
    BY <2>1, <2>6, <2>7, <2>8
<1>6. CASE RestoreNetwork
  <2>1. /\ op.pc = "down_network" /\ op'.pc = "down_dnsmasq" /\ op'.failed = op.failed /\ Live' = Live
        /\ UNCHANGED <<journal, ns, mem>>
    BY <1>6, <1>c, <1>l DEF RestoreNetwork, Active
  <2>2. OnDisk' = OnDisk /\ Recorded(mem)' = Recorded(mem)
    BY <2>1, DiskLedger DEF Recorded
  <2> QED
    BY <1>c, <1>o, <1>w, <2>1, <2>2 DEF LedgerInv, Fresh, Working, Teardown, Replaced, StartPCs, RestartPCs
<1>7. CASE Clear
  <2>1. Live' = {}
    BY <1>7, <1>c, <1>l DEF Clear, Active, LedgerInv
  <2> QED
    BY <1>t, <2>1, LedgerNext
<1>8. CASE ClearFailed
  BY <1>8, <1>l, <1>o, <1>t, DiskLedger, FinishFields, LedgerNext DEF ClearFailed, Active
<1>9. ~StopBeginFails /\ ~ClearFails
  BY <1>c DEF StopBeginFails, ClearFails
<1> QED
  BY <1>2, <1>3, <1>4, <1>5, <1>6, <1>7, <1>8, <1>9 DEF StopStep

LEMMA LedgerRestart == TypeOK /\ IInv /\ SupportInv /\ LedgerInv /\ RestartStep => LedgerInv'
<1> SUFFICES ASSUME TypeOK, IInv, SupportInv, LedgerInv, RestartStep, Calm' PROVE LedgerInv'
  BY DEF LedgerInv
<1> USE DEF disk
<1>t. TypeOK' /\ [Next]_vars
  BY NextType DEF Next, OpStep
<1>c. /\ Calm /\ ~Spend("faults")
      /\ \A n \in Nat \ {0} : budget' # [budget EXCEPT !["faults"] = @ - n]
      /\ \A p : Goto(p) => op'.pc = p /\ op'.prev = op.prev /\ op'.cmd = op.cmd
  BY <1>t, CalmSteps DEF SupportInv, Goto, TypeOK, Op
<1>l. UNCHANGED proc => Live' = Live
  BY DEF Live
<1>d. Live \subseteq ProcIds /\ 0 \notin Live
  BY DEF Live, ProcIds
<1>r. Restarted \in Services
  BY DEF Restarted, Services
<1>m. op.pc \in RestartPCs => Live \subseteq Recorded(mem) \cup {op.prev.id} /\ mem.ns = ns
  BY <1>c DEF LedgerInv, Working, IInv, WorkingInv, Sound
<1>p. op.pc \in Replaced => op.prev.id \notin Live /\ Live \subseteq Recorded(mem)
  BY <1>c, <1>m DEF LedgerInv, Replaced, RestartPCs
<1>e. op.pc \in {"mark", "stop_old", "spawn"} => mem.pid[Restarted] = NoTrack
  BY DEF SupportInv, CommandInv
<1>1. CASE MarkRestart
  <2>1. /\ op.pc = "mark" /\ op'.pc = "stop_old" /\ op'.prev = op.prev /\ journal' = WriteAhead(mem) /\ mem' = WriteAhead(mem)
        /\ Live' = Live /\ ns' = ns
    BY <1>1, <1>c, <1>l DEF MarkRestart, Active, Save, SaveFails
  <2>2. OnDisk' = Recorded(mem) /\ Recorded(mem)' = Recorded(mem)
    BY <1>m, <2>1, DiskLedger, WriteAheadFields DEF TypeOK, Recorded, RestartPCs
  <2> QED
    BY <1>m, <2>1, <2>2 DEF LedgerInv, Fresh, Working, Teardown, Replaced, StartPCs, RestartPCs
<1>2. CASE StopOld
  <2>1. op.pc = "stop_old" /\ op'.pc = "spawn" /\ op'.prev = op.prev /\ UNCHANGED <<journal, ns, mem>>
    BY <1>2, <1>c DEF StopOld, Active
  <2>2. Live' \subseteq Live /\ op.prev.id \notin Live'
    BY <1>2, StopTrackedLive, TracksType DEF StopOld
  <2>3. Live \subseteq OnDisk \cup {op.prev.id} /\ OnDisk' = OnDisk /\ Recorded(mem)' = Recorded(mem)
    BY <1>c, <2>1, DiskLedger DEF LedgerInv, Recorded
  <2>4. Live \subseteq Recorded(mem) \cup {op.prev.id}
    BY <1>m, <2>1 DEF RestartPCs
  <2> QED
    BY <2>1, <2>2, <2>3, <2>4 DEF LedgerInv, Fresh, Working, Teardown, Replaced, StartPCs, RestartPCs
<1>3. CASE StopOldFails
  <2>1. op.pc = "stop_old" /\ op'.pc = "unwind" /\ op'.prev = op.prev /\ Live' = Live /\ Refuses(op.prev)
    BY <1>3, <1>c, <1>l DEF StopOldFails, StopTrackedFails, Active
  <2>2. op.prev.id \notin Live /\ ~Running(op.prev)
    BY <2>1 DEF Refuses, Running, Matches, Live, Services
  <2>3. mem' = [mem EXCEPT !.pid[Restarted] = NoTrack, !.flags = mem.flags]
    BY <1>3, <2>2 DEF StopOldFails
  <2>4. mem'.pid = [mem.pid EXCEPT ![Restarted] = NoTrack]
    BY <2>3 DEF TypeOK, State
  <2>5. \A x \in Services : mem'.pid[x] = mem.pid[x]
    BY <1>e, <1>r, <2>1, <2>4 DEF TypeOK, State
  <2> QED
    BY <1>m, <1>t, <2>1, <2>2, <2>5, LedgerNext DEF Recorded, RestartPCs
<1>4. CASE SpawnNew
  <2>1. op.pc = "spawn" /\ op'.pc = "record" /\ op'.prev = op.prev /\ op'.cmd = op.cmd /\ UNCHANGED <<journal, ns>> /\ Starts(Restarted)
        /\ mem' = [mem EXCEPT !.pid[Restarted] = [id |-> NextId, known |-> FALSE]]
    BY <1>4, <1>c DEF SpawnNew, Active, Starts
  <2>2. mem'.pid[Restarted].id = NextId /\ \A y \in Services \ {Restarted} : mem'.pid[y] = mem.pid[y]
    BY <1>r, <2>1 DEF TypeOK, State
  <2>3. Live' \subseteq Live \cup {NextId} /\ NextId # op.prev.id
    BY <1>r, <2>1, StartsLive
  <2>4. Live \subseteq OnDisk /\ Live \subseteq Recorded(mem) /\ op.prev.id \notin Live
    BY <1>c, <1>p, <2>1 DEF LedgerInv, Replaced
  <2>5. Recorded(mem) \ {0} \subseteq Recorded(mem)' /\ NextId \in Recorded(mem)'
    BY <1>e, <1>r, <2>1, <2>2 DEF Recorded, NoTrack
  <2>6. OnDisk' = OnDisk /\ Restarted' = Restarted
    BY <2>1, DiskLedger DEF Restarted
  <2>7. Live' \subseteq Recorded(mem)' /\ op'.prev.id \notin Live'
    BY <1>d, <2>1, <2>3, <2>4, <2>5
  <2>8. Live' \subseteq OnDisk' \cup {mem'.pid[Restarted'].id}
    BY <2>2, <2>3, <2>4, <2>6
  <2> QED
    BY <2>1, <2>7, <2>8 DEF LedgerInv, Fresh, Working, Teardown, Replaced, StartPCs, RestartPCs
<1>5. CASE SpawnNewFails
  <2>1. op.pc = "spawn" /\ Finish /\ Live' = Live /\ UNCHANGED <<journal, ns>>
    BY <1>5, <1>l DEF SpawnNewFails, Active
  <2>2. Live \subseteq OnDisk
    BY <1>c, <2>1 DEF LedgerInv
  <2> QED
    BY <1>t, <2>1, <2>2, DiskLedger, FinishFields, LedgerNext
<1>6. CASE NewUnidentified
  <2>1. op.pc = "record" /\ Finish /\ Live' = Live /\ Gone(mem.pid[Restarted]) /\ UNCHANGED <<journal, ns>>
    BY <1>6, <1>c, <1>l DEF NewUnidentified, Active
  <2>2. Live \subseteq OnDisk \cup {mem.pid[Restarted].id} /\ mem.pid[Restarted].id \notin Live
    BY <1>c, <1>d, <2>1 DEF LedgerInv, Gone, Live, Services
  <2> QED
    BY <1>t, <2>1, <2>2, DiskLedger, FinishFields, LedgerNext
<1>7. CASE RecordNew
  <2>1. Identified \in State /\ Identified.ns = mem.ns /\ \A x \in Services : Identified.pid[x].id = mem.pid[x].id
    BY <1>r, IdentifiedType DEF Identified, TypeOK, State, Track
  <2>2. op.pc = "record" /\ journal' = WriteAhead(Identified) /\ Live' = Live /\ ns' = ns
    BY <1>7, <1>l DEF RecordNew, Active
  <2>3. Live \subseteq Recorded(mem) /\ op.prev.id \notin Live /\ mem.ns = ns
    BY <1>m, <1>p, <2>2 DEF Replaced, RestartPCs
  <2>4. Recorded(Identified) = Recorded(mem) /\ Recorded(WriteAhead(Identified)) = Recorded(mem)
    BY <2>1, WriteAheadFields DEF Recorded
  <2>5. OnDisk' = Recorded(mem)
    BY <2>1, <2>2, <2>3, <2>4, DiskLedger
  <2>6. CASE op.cmd = "restart-mihomo"
    <3>1. op'.pc = "routes" /\ op'.prev = op.prev /\ mem' = WriteAhead(Identified)
      BY <1>7, <1>c, <2>6 DEF RecordNew
    <3> QED
      BY <1>t, <2>2, <2>3, <2>4, <3>1, LedgerNext
  <2>7. CASE op.cmd # "restart-mihomo"
    BY <1>7, <1>t, <2>2, <2>3, <2>5, <2>7, FinishFields, LedgerNext DEF RecordNew
  <2> QED
    BY <2>6, <2>7
<1>8. CASE ReapplyRouting
  <2>1. op.pc = "routes" /\ op'.pc = "commit" /\ op'.prev = op.prev /\ Live' = Live
    BY <1>8, <1>c, <1>l DEF ReapplyRouting, Active
  <2>2. mem'.pid = mem.pid
    BY <1>8 DEF ReapplyRouting, TypeOK, State
  <2>3. Recorded(mem)' = Recorded(mem)
    BY <2>2 DEF Recorded
  <2> QED
    BY <1>p, <1>t, <2>1, <2>3, LedgerNext DEF Replaced
<1>9. CASE ReapplyRoutingFails
  <2> DEFINE t == mem.pid["mihomo"]
  <2>1. op.pc = "routes" /\ op'.pc = "unwind" /\ op'.prev = op.prev
    BY <1>9, <1>c DEF ReapplyRoutingFails, Active
  <2>2. /\ proc' = IF Gone(t) THEN proc ELSE [proc EXCEPT ![t.id] = "free"]
        /\ mem' = [mem EXCEPT !.pid["mihomo"] = NoTrack, !.flags = @ \ {"routing"}]
    <3>1. budget' # [budget EXCEPT !["faults"] = @ - 1] /\ budget' # [budget EXCEPT !["faults"] = @ - 2]
      BY <1>c
    <3> QED
      BY <1>9, <3>1 DEF ReapplyRoutingFails
  <2>3. \A y \in Services \ {"mihomo"} : mem'.pid[y] = mem.pid[y]
    BY <2>2 DEF TypeOK, State
  <2>4. Live' \subseteq Live \ {t.id}
    <3>1. CASE Gone(t)
      BY <1>d, <2>2, <3>1 DEF Live, Gone, Services
    <3>2. CASE ~Gone(t)
      BY <2>2, <3>2 DEF Live, TypeOK, Services
    <3> QED
      BY <3>1, <3>2
  <2>5. Live \subseteq Recorded(mem) /\ op.prev.id \notin Live
    BY <1>p, <2>1 DEF Replaced
  <2>6. Live' \subseteq Recorded(mem)'
    BY <2>3, <2>4, <2>5 DEF Recorded
  <2> QED
    BY <1>t, <2>1, <2>4, <2>5, <2>6, LedgerNext
<1>10. CASE Unwind \/ CommitRouting
  <2>1. op.pc \in {"unwind", "commit"} /\ Finish /\ journal' = WriteAhead(mem) /\ Live' = Live /\ ns' = ns
    BY <1>10, <1>c, <1>l DEF Unwind, CommitRouting, Save, SaveFails, Active
  <2>2. OnDisk' = Recorded(mem) /\ Live \subseteq Recorded(mem)
    BY <1>m, <1>p, <2>1, DiskLedger DEF TypeOK, Replaced, RestartPCs
  <2> QED
    BY <1>t, <2>1, <2>2, FinishFields, LedgerNext
<1>11. ~StopOldFailsTwice /\ ~RecordNewFails
  BY <1>c DEF StopOldFailsTwice, RecordNewFails
<1> QED
  BY <1>1, <1>2, <1>3, <1>4, <1>5, <1>6, <1>7, <1>8, <1>9, <1>10, <1>11 DEF RestartStep
LEMMA LedgerBegin == ASSUME NEW c \in Clients PROVE TypeOK /\ IInv /\ SupportInv /\ LedgerInv /\ Begin(c) => LedgerInv'
<1> SUFFICES ASSUME TypeOK, IInv, SupportInv, LedgerInv, Begin(c), Calm' PROVE LedgerInv'
  BY DEF LedgerInv
<1> USE DEF disk
<1>t. TypeOK' /\ [Next]_vars
  BY NextType DEF Next
<1>c. /\ Calm /\ ~Spend("faults")
      /\ budget' # [budget EXCEPT !["requests"] = @ - 1, !["faults"] = @ - 1]
  BY <1>t, CalmSteps DEF SupportInv
<1>u. UNCHANGED <<proc, journal, ns>> /\ Live' = Live /\ OnDisk' = OnDisk
  BY DEF Begin, RequestStart, RequestStop, Refused, BeginStart, BeginStop, BeginReload, BeginRestartMihomo,
     BeginRestartDNSMasq, BeginRecover, RecoverNothing, Live, OnDisk
<1>d. Live \subseteq ProcIds /\ 0 \notin Live
  BY DEF Live, ProcIds
<1>i. holder = NoClient => Live \subseteq OnDisk
  BY <1>c DEF LedgerInv, SupportInv, BootInv
<1>n. ~Exists(journal) \/ journal.ns # ns => OnDisk \subseteq {0}
  BY DEF OnDisk, SupportInv, BootInv, NoState, NoTrack, Recorded
<1>1. CASE RequestStart(c) \/ RequestStop(c) \/ Refused(c) \/ RecoverNothing(c)
  <2>1. UNCHANGED <<op, mem>>
    BY <1>1 DEF RequestStart, RequestStop, Refused, RecoverNothing
  <2> QED
    BY <1>c, <1>u, <2>1 DEF LedgerInv, Restarted
<1>2. CASE BeginStart(c) \/ BeginStop(c) \/ BeginReload(c) \/ BeginRecover(c)
  <2>1. holder = NoClient /\ op'.pc \in {"prepare", "stop_begin", "clear"}
    BY <1>2 DEF BeginStart, BeginStop, BeginReload, BeginRecover, Take, NoOp
  <2>2. op'.pc # "stop_begin" => ~Exists(journal) \/ journal.ns # ns
    BY <1>2 DEF BeginStart, BeginStop, BeginReload, BeginRecover, Take, NoOp, BelongsToBoot
  <2>3. op'.pc # "stop_begin" => Live' = {}
    BY <1>d, <1>i, <1>n, <1>u, <2>1, <2>2
  <2> QED
    BY <1>i, <1>t, <1>u, <2>1, <2>3, LedgerNext
<1>3. ASSUME holder = NoClient, journal.ns = ns, op'.pc = "mark",
             \E x \in Services : /\ \A y \in Services \ {x} : mem'.pid[y] = journal.pid[y]
                                 /\ op'.prev.id = journal.pid[x].id \/ journal.pid[x].id \notin Live
      PROVE  LedgerInv'
  <2>1. Live \subseteq Recorded(journal)
    BY <1>3, <1>i DEF OnDisk
  <2>2. Live' \subseteq Recorded(mem)' \cup {op'.prev.id}
    BY <1>3, <1>u, <2>1 DEF Recorded
  <2> QED
    BY <1>3, <1>t, <2>2, LedgerNext DEF Working, Teardown, Replaced, StartPCs, RestartPCs
<1>4. CASE BeginRestartMihomo(c)
  <2>1. /\ holder = NoClient /\ journal.ns = ns /\ op'.pc = "mark" /\ op'.prev = journal.pid["mihomo"]
        /\ mem' = [journal EXCEPT !.pid["mihomo"] = NoTrack, !.flags = @ \ {"routing"}]
    BY <1>4 DEF BeginRestartMihomo, BelongsToBoot, NoOp
  <2>2. \A y \in Services \ {"mihomo"} : mem'.pid[y] = journal.pid[y]
    BY <2>1 DEF TypeOK, State
  <2> QED
    BY <1>3, <2>1, <2>2 DEF Services
<1>5. CASE BeginRestartDNSMasq(c)
  <2>1. /\ holder = NoClient /\ journal.ns = ns /\ op'.pc = "mark"
        /\ mem' = [journal EXCEPT !.pid["dnsmasq"] = NoTrack]
    BY <1>5 DEF BeginRestartDNSMasq, BelongsToBoot, NoOp
  <2>2. \A y \in Services \ {"dnsmasq"} : mem'.pid[y] = journal.pid[y]
    BY <2>1 DEF TypeOK, State
  <2>3. op'.prev = (IF Running(journal.pid["dnsmasq"]) THEN journal.pid["dnsmasq"] ELSE NoTrack)
    BY <1>5, <1>c DEF BeginRestartDNSMasq, NoOp
  <2>4. journal.pid["dnsmasq"].id \in Live => Running(journal.pid["dnsmasq"])
    BY <1>d DEF Live, Running, Matches, Services
  <2> QED
    BY <1>3, <2>1, <2>2, <2>3, <2>4 DEF Services
<1> QED
  BY <1>1, <1>2, <1>4, <1>5 DEF Begin

LEMMA LedgerStep == TypeOK /\ IInv /\ SupportInv /\ LedgerInv /\ [Next]_vars => LedgerInv'
<1> SUFFICES ASSUME TypeOK, IInv, SupportInv, LedgerInv, [Next]_vars, Calm' PROVE LedgerInv'
  BY DEF LedgerInv
<1>t. TypeOK'
  BY NextType
<1>c. Calm /\ ~Spend("crashes")
  BY CalmSteps DEF SupportInv
<1>1. CASE ContainerRestart
  <2>1. Live' = {}
    BY <1>1 DEF ContainerRestart, Live, Services
  <2> QED
    BY <1>t, <2>1, LedgerNext
<1>2. CASE ProcessDies \/ PIDReused \/ UNCHANGED vars
  <2>1. UNCHANGED <<op, mem, journal, ns>>
    BY <1>2 DEF ProcessDies, PIDReused, disk, vars
  <2>2. Live' \subseteq Live
    BY <1>2, KillFrees DEF ProcessDies, PIDReused, vars, Live, TypeOK, Services
  <2>3. OnDisk' = OnDisk /\ Recorded(mem)' = Recorded(mem) /\ Restarted' = Restarted
    BY <2>1, DiskLedger DEF Recorded, Restarted
  <2> QED
    BY <1>c, <2>1, <2>2, <2>3 DEF LedgerInv
<1> QED
  BY <1>1, <1>2, <1>c, LedgerStart, LedgerStop, LedgerRestart, LedgerBegin DEF Next, OpStep, Environment, Crash

\* As long as no client is killed and no probe or save fails, restarts, rollbacks and
\* teardowns leave every service process in the journal of this boot or with the command
\* in flight.
THEOREM ProcessesAccountedFor == Spec => []EveryProcessAccountedFor
<1>1. Init => LedgerInv
  BY DEF Init, LedgerInv, Live, Services, NoOp, Fresh, Working, Teardown, Replaced, StartPCs, RestartPCs
<1>2. TypeOK /\ IInv /\ SupportInv /\ LedgerInv => EveryProcessAccountedFor
  <2> SUFFICES ASSUME TypeOK, IInv, SupportInv, LedgerInv, Calm, NEW i \in Live
               PROVE  \/ journal.ns = ns /\ i \in Recorded(journal)
                      \/ holder # NoClient /\ i \in Recorded(mem) \cup {op.prev.id}
    BY DEF EveryProcessAccountedFor, Calm, Live, BelongsToBoot
  <2>1. op.pc \in {"idle", "stop_begin", "clear"} \cup Fresh \cup Working
    BY DEF TypeOK, Op, PCs, StartPCs, DownPCs, RestartPCs, Fresh, Working, Teardown
  <2>2. CASE op.pc \in {"idle", "stop_begin", "clear"} \cup Fresh
    BY <2>2 DEF LedgerInv, OnDisk
  <2>3. CASE op.pc \in Working
    <3>1. op.pc # "idle"
      BY <2>3 DEF Working, Teardown, StartPCs, RestartPCs
    <3> QED
      BY <2>3, <3>1 DEF LedgerInv, SupportInv, BootInv
  <2> QED
    BY <2>1, <2>2, <2>3
<1> QED
  BY <1>1, <1>2, LedgerStep, Supported, PTL DEF Spec
----------------------------------------------------------------------------
(* A journal that says "running" is honest about the kernel.  A restart    *)
(* works on a state marked "running" all along: what keeps it honest is    *)
(* that routing is unmarked while the process is exchanged.  A rollback can*)
(* leave "running" on disk only after its second failing save.             *)

\* At most one step has failed.
FirstFault == budget["faults"] + 1 >= Budget["faults"]

Honest(s) ==
  s.lifecycle = "running" =>
    /\ "forwarding" \in net /\ (~SameLAN => "nat" \in net)
    /\ "routing" \in s.flags => "rule" \in net /\ TUNHolds(s.pid["mihomo"])

RestartsMihomo == Restarted = "mihomo"

HonestInv ==
  /\ journal.ns = ns /\ FirstFault => Honest(journal)
  /\ journal.ns = ns /\ journal.lifecycle = "running" => Identifies(journal, "mihomo")
  /\ op.pc \in RestartPCs /\ FirstFault => Honest(mem)
  /\ op.pc \in RestartPCs /\ mem.lifecycle = "running" => Identifies(mem, "mihomo") \/ (op.pc = "record" /\ RestartsMihomo)
  /\ op.pc \in {"mark", "stop_old", "spawn", "record", "routes"} /\ RestartsMihomo => "routing" \notin mem.flags
  /\ op.pc \in {"stop_old", "spawn", "record", "routes"} /\ RestartsMihomo => "routing" \notin journal.flags
  /\ op.pc \in {"mark", "stop_old"} /\ RestartsMihomo =>
       /\ op.prev.id # 0 => op.prev.known
       /\ op.prevRouting /\ FirstFault => "rule" \in net /\ TUNHolds(op.prev)
  /\ op.pc \in RestartPCs /\ op.prevRouting => RestartsMihomo
  /\ op.pc = "rollback" /\ journal.lifecycle = "running" => budget["faults"] < Budget["faults"]
  /\ op.pc \in Teardown /\ journal.lifecycle = "running" => ~FirstFault

\* A state is as honest after a gentle step as before it, and once it is written ahead.
LEMMA HonestKept ==
  ASSUME TypeOK, NEW s \in State, Honest(s), Gentle(s.pid["mihomo"])
  PROVE  Honest(s)'
<1>1. s.pid["mihomo"] \in Track
  BY DEF State, Services
<1>2. net \ {"tunroute"} \subseteq net'
  BY DEF Gentle, KeepTUNRoute
<1> QED
  BY <1>1, <1>2, TUNKept DEF Honest

\* Honesty is about four fields.
LEMMA HonestSame ==
  ASSUME NEW s, NEW u, Honest(s), u.lifecycle \in {s.lifecycle, "stopping", "cleanup"}, u.flags \subseteq s.flags,
         u.pid["mihomo"].id \in {s.pid["mihomo"].id, 0}
  PROVE  Honest(u)
BY DEF Honest, TUNHolds

LEMMA FirstFaultFalls ==
  ASSUME TypeOK, BootInv, [Next]_vars
  PROVE  /\ budget["faults"] \in Nat /\ budget'["faults"] \in Nat /\ Budget["faults"] \in Nat
         /\ FirstFault' => FirstFault
         /\ Spend("faults") => budget'["faults"] < Budget["faults"]
         /\ Spend("faults") /\ budget["faults"] < Budget["faults"] => ~FirstFault'
<1>1. /\ budget["faults"] \in Nat /\ budget'["faults"] \in Nat /\ Budget["faults"] \in Nat
      /\ budget'["faults"] <= budget["faults"] /\ budget["faults"] <= Budget["faults"]
  BY BudgetFalls, NextType, LifecycleAssumption DEF TypeOK, BootInv, LifecycleAssumption, Kinds
<1>2. Spend("faults") => budget'["faults"] = budget["faults"] - 1
  BY DEF Spend, TypeOK, Kinds
<1> QED
  BY <1>1, <1>2 DEF FirstFault

\* A step that leaves no restart in progress: the journal is the old one, or not running,
\* or a saved state that is honest.
LEMMA HonestNext ==
  ASSUME TypeOK, BootInv, [Next]_vars, HonestInv, ns' = ns, op'.pc \notin RestartPCs,
         \/ journal' = journal /\ Gentle(journal.pid["mihomo"])
         \/ journal' = journal /\ ~FirstFault'
         \/ journal'.lifecycle # "running"
         \/ Identifies(journal', "mihomo") /\ (FirstFault' => Honest(journal)'),
         op'.pc = "rollback" => journal'.lifecycle # "running" \/ budget'["faults"] < Budget["faults"],
         op'.pc \in Teardown => journal'.lifecycle # "running" \/ ~FirstFault'
  PROVE  HonestInv'
<1>1. FirstFault' => FirstFault
  BY FirstFaultFalls
<1>2. journal' = journal /\ Gentle(journal.pid["mihomo"]) /\ Honest(journal) => Honest(journal)'
  BY HonestKept DEF TypeOK
<1>3. journal'.lifecycle # "running" => Honest(journal)'
  BY DEF Honest
<1>4. journal'.ns = ns' /\ FirstFault' => Honest(journal)'
  BY <1>1, <1>2, <1>3 DEF HonestInv
<1>5. journal'.ns = ns' /\ journal'.lifecycle = "running" => Identifies(journal', "mihomo")
  BY DEF HonestInv
<1>6. {"mark", "stop_old", "spawn", "record", "routes"} \subseteq RestartPCs
  BY DEF RestartPCs
<1> QED
  BY <1>4, <1>5, <1>6 DEF HonestInv, Identifies
LEMMA HonestStart == TypeOK /\ IInv /\ SupportInv /\ HonestInv /\ StartStep => HonestInv'
<1> SUFFICES ASSUME TypeOK, IInv, SupportInv, HonestInv, StartStep PROVE HonestInv'
  OBVIOUS
<1> USE DEF disk
<1>t. TypeOK' /\ [Next]_vars /\ BootInv
  BY NextType DEF Next, OpStep, SupportInv
<1>g. \A p : Goto(p) => op'.pc = p
  BY DEF Goto, TypeOK, Op
<1>d. /\ {"prepare", "snapshot"} \subseteq Fresh /\ StartPCs \subseteq {"prepare", "snapshot"} \cup StartDone
      /\ StartPCs \cap (RestartPCs \cup Teardown) = {} /\ {"rollback", "idle"} \cap (RestartPCs \cup Teardown \cup StartPCs) = {}
      /\ \A q \in DOMAIN AfterSave : q \in StartPCs \ {"save_smartdns"} /\ AfterSave[q] \in StartPCs
      /\ \A q \in Services : q \in StartPCs \ {"save_smartdns"} /\ SaveOf[q] \in StartPCs
  BY DEF Fresh, StartPCs, StartDone, ForwardingDone, MihomoDone, DNSMasqDone, NATDone, RoutingDone, RestartPCs,
     Teardown, AfterSave, SaveOf, Services
<1>m. op.pc \in StartPCs \ {"save_smartdns"} =>
        journal.lifecycle # "running" /\ (op.pc \notin {"prepare", "snapshot"} => WriteAhead(mem).lifecycle # "running")
  BY <1>d, WriteAheadFields DEF TypeOK, SupportInv, StartInv, IInv, FreshInv, Exists
<1>1. ASSUME ns' = ns, journal'.lifecycle # "running", op'.pc \in StartPCs \cup {"rollback", "idle"} PROVE HonestInv'
  BY <1>1, <1>d, <1>t, HonestNext
<1>2. CASE Prepare \/ PrepareFails \/ Snapshot \/ SnapshotFails \/ SaveStartingFails
  <2>1. op.pc \in {"prepare", "snapshot", "save_starting"} /\ ns' = ns /\ journal' \in {journal, WriteAhead(mem)}
        /\ (op.pc # "save_starting" => journal' = journal)
    BY <1>2 DEF Prepare, PrepareFails, Snapshot, SnapshotFails, SaveStartingFails, Active
  <2>2. op'.pc \in {"snapshot", "save_starting", "idle"}
    <3>1. CASE Prepare
      BY <3>1 DEF Prepare, TypeOK, Op
    <3> QED
      BY <1>2, <1>g, <3>1, FinishFields DEF PrepareFails, Snapshot, SnapshotFails, SaveStartingFails
  <2> QED
    BY <1>1, <1>m, <2>1, <2>2 DEF StartPCs
<1>3. CASE SaveStep \/ SaveStepFails
  <2>1. op.pc \in DOMAIN AfterSave /\ ns' = ns /\ journal' \in {journal, WriteAhead(mem)} /\ op'.pc \in {AfterSave[op.pc], "rollback"}
    BY <1>3, <1>g DEF SaveStep, SaveStepFails, Save, SaveFails
  <2> QED
    BY <1>1, <1>d, <1>m, <2>1 DEF AfterSave
<1>4. CASE EnableForwarding \/ StepFails \/ WaitForTUN \/ SetupNAT \/ SetupPolicyRouting \/ SetupPolicyRoutingFails
  <2>1. /\ op.pc \in StartPCs \ {"save_smartdns", "prepare", "snapshot"} /\ ns' = ns /\ journal' \in {journal, WriteAhead(mem)}
        /\ op'.pc \in {"save_forwarding", "rollback", "routing", "nat", "save_nat", "save_routing"}
    BY <1>4, <1>g DEF EnableForwarding, StepFails, WaitForTUN, SetupNAT, SetupPolicyRouting, SetupPolicyRoutingFails,
       Save, SaveFails, Active, StartPCs
  <2> QED
    BY <1>1, <1>m, <2>1 DEF StartPCs
<1>5. ASSUME NEW x \in Services, StartService(x) \/ StartServiceUnidentified(x) PROVE HonestInv'
  <2>1. op.pc = x /\ ns' = ns /\ journal' = journal /\ op'.pc \in {SaveOf[x], "rollback"}
    BY <1>5, <1>g DEF StartService, StartServiceUnidentified, Active
  <2> QED
    BY <1>1, <1>d, <1>m, <2>1
<1>6. CASE SaveRunning
  <2>1. op.pc = "save_smartdns" /\ ns' = ns /\ journal' \in {journal, WriteAhead(mem)} /\ UNCHANGED <<net, proc>>
    BY <1>6 DEF SaveRunning, Save, SaveFails, Active
  <2>2. \/ op'.pc = "idle"
        \/ op'.pc = "rollback" /\ Spend("faults")
    BY <1>6, <1>g, FinishFields DEF SaveRunning, SaveFails
  <2>3. journal.lifecycle # "running" /\ Honest(mem) /\ Identifies(mem, "mihomo")
    BY <2>1 DEF SupportInv, StartInv, Honest, Identifies, StartDone, ForwardingDone, MihomoDone, DNSMasqDone, NATDone,
       RoutingDone, Effects
  <2>4. journal' = WriteAhead(mem) => journal'.lifecycle = mem.lifecycle /\ journal'.flags = mem.flags /\ journal'.pid = mem.pid
    BY WriteAheadFields DEF TypeOK
  <2>5. journal'.lifecycle # "running" \/ (Identifies(journal', "mihomo") /\ Honest(journal)')
    BY <2>1, <2>3, <2>4 DEF Honest, TUNHolds, Identifies
  <2> QED
    BY <1>d, <1>t, <2>1, <2>2, <2>5, FirstFaultFalls, HonestNext
<1> QED
  BY <1>2, <1>3, <1>4, <1>5, <1>6 DEF StartStep

LEMMA HonestStop == TypeOK /\ IInv /\ SupportInv /\ HonestInv /\ StopStep => HonestInv'
<1> SUFFICES ASSUME TypeOK, IInv, SupportInv, HonestInv, StopStep PROVE HonestInv'
  OBVIOUS
<1> USE DEF disk
<1>t. TypeOK' /\ [Next]_vars /\ BootInv
  BY NextType DEF Next, OpStep, SupportInv
<1>g. \A p : Goto(p) \/ GotoFail(p) => op'.pc = p
  BY DEF Goto, GotoFail, TypeOK, Op
<1>d. /\ (DownPCs \cup {"idle", "prepare"}) \cap RestartPCs = {} /\ {"idle", "prepare", "clear", "stopping"} \cap (Teardown \cup {"rollback"}) = {}
      /\ Teardown \subseteq DownPCs \ {"rollback"}
      /\ \A q \in DOMAIN AfterDown : q \in Teardown /\ AfterDown[q] \in Teardown \cup {"clear"}
  BY DEF DownPCs, RestartPCs, Teardown, AfterDown
<1>w. WriteAhead(mem).lifecycle = mem.lifecycle /\ WriteAhead([mem EXCEPT !.lifecycle = "cleanup"]).lifecycle = "cleanup"
  <2>1. [mem EXCEPT !.lifecycle = "cleanup"] \in State /\ [mem EXCEPT !.lifecycle = "cleanup"].lifecycle = "cleanup"
    BY DEF TypeOK, State
  <2> QED
    BY <2>1, WriteAheadFields DEF TypeOK
<1>n. UNCHANGED <<proc, net>> => Gentle(journal.pid["mihomo"])
  BY DEF Gentle
<1>1. CASE Rollback
  <2>1. op.pc = "rollback" /\ op'.pc = "down_smartdns" /\ UNCHANGED <<ns, proc, net>>
    BY <1>1, <1>g DEF Rollback, Active
  <2>2. journal'.lifecycle = "cleanup" \/ (journal' = journal /\ Spend("faults"))
    BY <1>1, <1>w DEF Rollback
  <2>3. journal'.lifecycle # "running" \/ (journal' = journal /\ ~FirstFault')
    BY <1>t, <2>1, <2>2, FirstFaultFalls DEF HonestInv
  <2> QED
    BY <1>d, <1>t, <2>1, <2>3, HonestNext DEF DownPCs
<1>2. CASE StopBegin
  <2>1. op'.pc \in {"clear", "stopping"} /\ UNCHANGED <<journal, ns, proc, net>>
    BY <1>2, <1>g DEF StopBegin
  <2> QED
    BY <1>d, <1>n, <1>t, <2>1, HonestNext DEF DownPCs
<1>3. CASE SaveStopping
  <2>1. mem.lifecycle = "stopping" /\ UNCHANGED <<ns, proc, net>>
    BY <1>3 DEF SaveStopping, Active, SupportInv, CommandInv
  <2>2. \/ op'.pc = "down_smartdns" /\ journal' = WriteAhead(mem)
        \/ op'.pc = "idle" /\ journal' \in {journal, WriteAhead(mem)}
    BY <1>3, <1>g, FinishFields DEF SaveStopping, Save, SaveFails
  <2> QED
    BY <1>d, <1>n, <1>t, <1>w, <2>1, <2>2, HonestNext DEF DownPCs
<1>4. CASE DownService \/ RestoreNetwork
  <2>1. op.pc \in Teardown /\ op'.pc \in Teardown \cup {"clear"} /\ UNCHANGED <<journal, ns>>
    BY <1>4, <1>d, <1>g DEF DownService, RestoreNetwork, Active, Teardown
  <2>2. journal'.lifecycle # "running" \/ ~FirstFault'
    BY <1>t, <2>1, FirstFaultFalls DEF HonestInv
  <2> QED
    BY <1>d, <1>t, <2>1, <2>2, HonestNext DEF DownPCs
<1>5. CASE StopBeginFails \/ ClearFailed \/ Clear \/ ClearFails
  <2>1. op'.pc \in {"idle", "prepare"} /\ journal' \in {journal, NoState} /\ UNCHANGED <<ns, proc, net>>
    BY <1>5, <1>g, FinishFields DEF StopBeginFails, ClearFailed, Clear, ClearFails
  <2> QED
    BY <1>d, <1>n, <1>t, <2>1, HonestNext DEF NoState
<1> QED
  BY <1>1, <1>2, <1>3, <1>4, <1>5 DEF StopStep
LEMMA HonestRestart == TypeOK /\ IInv /\ SupportInv /\ HonestInv /\ RestartStep => HonestInv'
<1> SUFFICES ASSUME TypeOK, IInv, SupportInv, HonestInv, RestartStep PROVE HonestInv'
  OBVIOUS
<1> USE DEF disk
<1>t. TypeOK' /\ [Next]_vars /\ BootInv
  BY NextType DEF Next, OpStep, SupportInv
<1>g. \A p : Goto(p) => op'.pc = p /\ op'.prev = op.prev /\ op'.cmd = op.cmd /\ op'.prevRouting = op.prevRouting
  BY DEF Goto, TypeOK, Op
<1>f. FirstFault' => FirstFault
  BY <1>t, FirstFaultFalls
<1>r. Restarted \in Services /\ (op'.cmd = op.cmd => Restarted' = Restarted)
  BY DEF Restarted, Services
<1>p. op.pc \in RestartPCs /\ ns' = ns
  BY DEF RestartStep, MarkRestart, StopOld, StopOldFails, StopOldFailsTwice, Unwind, SpawnNew,
     SpawnNewFails, NewUnidentified, RecordNew, RecordNewFails, ReapplyRouting, ReapplyRoutingFails,
     CommitRouting, Active, RestartPCs
<1>h. FirstFault => Honest(mem) /\ (journal.ns = ns => Honest(journal))
  BY <1>p DEF HonestInv
<1>b. journal.ns = ns
  BY <1>p DEF IInv, WorkingInv, Working
<1>j. journal.lifecycle = "running" => Identifies(journal, "mihomo")
  BY <1>b DEF HonestInv
<1>m. mem.lifecycle = "running" => Identifies(mem, "mihomo") \/ (op.pc = "record" /\ RestartsMihomo)
  BY <1>p DEF HonestInv
<1>n. UNCHANGED <<proc, net>> => \A t : Gentle(t)
  BY DEF Gentle
\* A saved state is as honest as it was in memory.
<1>s. ASSUME NEW s \in State, s.lifecycle = mem.lifecycle, s.flags = mem.flags, s.pid["mihomo"].id = mem.pid["mihomo"].id,
             Gentle(mem.pid["mihomo"]), FirstFault'
      PROVE  /\ journal' = WriteAhead(s) => Honest(journal)'
             /\ mem' = WriteAhead(s) => Honest(mem)'
  <2>1. Honest(mem) => (mem.lifecycle = "running" => /\ "forwarding" \in net' /\ (~SameLAN => "nat" \in net')
                                                     /\ "routing" \in mem.flags => "rule" \in net' /\ TUNHolds(mem.pid["mihomo"]))
    <3>1. net \ {"tunroute"} \subseteq net'
      BY <1>s DEF Gentle, KeepTUNRoute
    <3> QED
      BY <3>1 DEF Honest
  <2>2. Honest(mem) /\ mem.lifecycle = "running" /\ "routing" \in mem.flags =>
          (mem.pid["mihomo"].id # 0 /\ proc'[mem.pid["mihomo"].id] = "mihomo" => "tunroute" \in net')
    <3>1. mem.pid["mihomo"] \in Track
      BY DEF TypeOK, State, Services
    <3> QED
      BY <1>s, <3>1, TUNKept DEF Honest, TUNHolds
  <2> QED
    BY <1>f, <1>h, <1>s, <2>1, <2>2, WriteAheadFields DEF Honest, TUNHolds
<1>w. /\ WriteAhead(mem).lifecycle = mem.lifecycle /\ WriteAhead(mem).flags = mem.flags /\ WriteAhead(mem).pid = mem.pid
      /\ mem \in State
  BY WriteAheadFields DEF TypeOK
<1>v. ASSUME journal' \in {journal, WriteAhead(mem)}, Gentle(journal.pid["mihomo"]), Gentle(mem.pid["mihomo"])
      PROVE  FirstFault' => Honest(journal)'
  BY <1>b, <1>f, <1>h, <1>s, <1>v, <1>w, HonestKept DEF TypeOK
<1>1. CASE MarkRestart
  <2>1. op.pc = "mark" /\ UNCHANGED <<proc, net>> /\ journal' \in {journal, WriteAhead(mem)}
    BY <1>1 DEF MarkRestart, Save, SaveFails, Active
  <2>2. FirstFault' => Honest(journal)'
    BY <1>n, <1>v, <2>1
  <2>3. journal'.lifecycle = "running" => Identifies(journal', "mihomo")
    BY <1>j, <1>m, <1>w, <2>1 DEF Identifies
  <2>4. CASE Finish
    BY <1>p, <1>t, <2>2, <2>3, <2>4, FinishFields, HonestNext DEF RestartPCs, Teardown
  <2>5. CASE journal' = WriteAhead(mem) /\ mem' = WriteAhead(mem) /\ Goto("stop_old")
    <3>1. op'.pc = "stop_old" /\ op'.prev = op.prev /\ op'.prevRouting = op.prevRouting /\ Restarted' = Restarted
      BY <1>g, <1>r, <2>5
    <3>2. FirstFault' => Honest(mem)'
      BY <1>n, <1>s, <1>w, <2>1, <2>5
    <3>3. mem'.lifecycle = "running" => Identifies(mem', "mihomo")
      BY <1>m, <1>w, <2>1, <2>5 DEF Identifies
    <3>4. RestartsMihomo => "routing" \notin mem'.flags /\ "routing" \notin journal'.flags
      BY <1>w, <2>1, <2>5 DEF HonestInv
    <3>5. RestartsMihomo =>
            /\ op.prev.id # 0 => op.prev.known
            /\ op.prevRouting /\ FirstFault => "rule" \in net /\ TUNHolds(op.prev)
      BY <2>1 DEF HonestInv
    <3>6. op.prevRouting => RestartsMihomo
      BY <1>p DEF HonestInv
    <3> QED
      BY <1>f, <2>1, <2>2, <2>3, <3>1, <3>2, <3>3, <3>4, <3>5, <3>6 DEF HonestInv, Identifies, RestartsMihomo, TUNHolds, Teardown, RestartPCs
  <2> QED
    BY <1>1, <2>4, <2>5 DEF MarkRestart, Save
\* The journal and the memory stay as they are.
<1>2. ASSUME UNCHANGED <<journal, mem>>, Goto(op'.pc), op'.pc \in {"spawn", "unwind"}, op.pc = "stop_old",
             Gentle(journal.pid["mihomo"]), Gentle(mem.pid["mihomo"])
      PROVE  HonestInv'
  <2>1. op'.prev = op.prev /\ op'.prevRouting = op.prevRouting /\ Restarted' = Restarted
    BY <1>2, <1>g, <1>r
  <2>2. FirstFault' => Honest(journal)' /\ Honest(mem)'
    BY <1>2, <1>b, <1>f, <1>h, HonestKept DEF TypeOK
  <2>3. mem'.lifecycle = "running" => Identifies(mem', "mihomo")
    BY <1>2, <1>m DEF Identifies
  <2>4. RestartsMihomo => "routing" \notin mem'.flags /\ "routing" \notin journal'.flags
    BY <1>2 DEF HonestInv
  <2>5. op.prevRouting => RestartsMihomo
    BY <1>p DEF HonestInv
  <2> QED
    BY <1>2, <1>j, <2>1, <2>2, <2>3, <2>4, <2>5 DEF HonestInv, Identifies, RestartsMihomo, Teardown, RestartPCs
<1>k. ASSUME NEW i, Kill(i) PROVE \A t : Gentle(t)
  BY <1>k DEF Kill, Gentle, TypeOK
<1>3. CASE StopOld
  <2>1. \A t : Gentle(t)
    BY <1>3, <1>k, <1>n DEF StopOld, StopTracked
  <2>2. op.pc = "stop_old" /\ UNCHANGED <<journal, mem>> /\ op'.pc = "spawn" /\ Goto("spawn")
    BY <1>3, <1>g DEF StopOld, Active
  <2> QED
    BY <1>2, <2>1, <2>2
<1>4. CASE StopOldFailsTwice
  <2>1. op.pc = "stop_old" /\ UNCHANGED <<journal, mem, proc, net>> /\ op'.pc = "unwind" /\ Goto("unwind")
    BY <1>4, <1>g DEF StopOldFailsTwice, Active
  <2> QED
    BY <1>2, <1>n, <2>1
<1>5. CASE StopOldFails
  <2> DEFINE back == IF Running(op.prev) THEN op.prev ELSE NoTrack
             fl   == IF Running(op.prev) /\ op.prevRouting THEN mem.flags \cup {"routing"} ELSE mem.flags
  <2>1. /\ op.pc = "stop_old" /\ op'.pc = "unwind" /\ op'.prev = op.prev /\ op'.prevRouting = op.prevRouting
        /\ Restarted' = Restarted /\ UNCHANGED <<journal, proc, net>>
        /\ mem' = [mem EXCEPT !.pid[Restarted] = back, !.flags = fl]
    BY <1>5, <1>g, <1>r DEF StopOldFails, StopTrackedFails, Active
  <2>2. mem'.lifecycle = mem.lifecycle /\ mem'.flags = fl /\ mem'.pid = [mem.pid EXCEPT ![Restarted] = back]
    BY <2>1 DEF TypeOK, State
  <2>3. mem'.pid["mihomo"] = IF RestartsMihomo THEN back ELSE mem.pid["mihomo"]
    BY <2>2 DEF RestartsMihomo, TypeOK, State, Services
  <2>4. op.prevRouting => RestartsMihomo
    BY <1>p DEF HonestInv
  <2>5. RestartsMihomo =>
          /\ op.prev.id # 0 => op.prev.known
          /\ op.prevRouting /\ FirstFault => "rule" \in net /\ TUNHolds(op.prev)
          /\ "routing" \notin mem.flags
    BY <2>1 DEF HonestInv
  <2>6. CASE RestartsMihomo
    <3>1. mem'.lifecycle = "running" => Identifies(mem', "mihomo")
      BY <2>3, <2>5, <2>6 DEF Identifies, NoTrack
    <3>2. "routing" \in mem'.flags => op.prevRouting /\ Running(op.prev)
      BY <2>2, <2>5, <2>6
    <3>3. FirstFault' => Honest(mem)'
      BY <1>f, <1>h, <2>1, <2>2, <2>3, <2>5, <2>6, <3>2 DEF Honest, TUNHolds
    <3> QED
      BY <1>b, <1>f, <1>h, <1>j, <1>p, <2>1, <2>4, <3>1, <3>3 DEF HonestInv, Honest, TUNHolds, Identifies, RestartsMihomo, Teardown, RestartPCs
  <2>7. CASE ~RestartsMihomo
    <3>1. mem'.flags = mem.flags /\ mem'.pid["mihomo"] = mem.pid["mihomo"]
      BY <2>2, <2>3, <2>4, <2>7
    <3>2. FirstFault' => Honest(mem)'
      BY <1>f, <1>h, <2>1, <2>2, <3>1 DEF Honest, TUNHolds
    <3>3. mem'.lifecycle = "running" => Identifies(mem', "mihomo")
      BY <1>m, <2>2, <2>7, <3>1 DEF Identifies
    <3> QED
      BY <1>b, <1>f, <1>h, <1>j, <1>p, <2>1, <2>4, <3>2, <3>3 DEF HonestInv, Honest, TUNHolds, Identifies, RestartsMihomo, Teardown, RestartPCs
  <2> QED
    BY <2>6, <2>7
\* A step that returns having saved the state in memory, or nothing.
<1>6. ASSUME Finish, op.pc # "record" \/ journal' = journal, journal' \in {journal, WriteAhead(mem)},
             Gentle(journal.pid["mihomo"]), Gentle(mem.pid["mihomo"])
      PROVE  HonestInv'
  <2>1. FirstFault' => Honest(journal)'
    BY <1>6, <1>v
  <2>2. journal'.lifecycle = "running" => Identifies(journal', "mihomo")
    BY <1>6, <1>j, <1>m, <1>w DEF Identifies
  <2> QED
    BY <1>6, <1>p, <1>t, <2>1, <2>2, FinishFields, HonestNext DEF RestartPCs, Teardown
<1>7. CASE Unwind \/ CommitRouting \/ SpawnNewFails
  BY <1>6, <1>7, <1>n DEF Unwind, CommitRouting, SpawnNewFails, Save, SaveFails, Active
<1>8. CASE SpawnNew
  <2>1. /\ op.pc = "spawn" /\ op'.pc = "record" /\ op'.prev = op.prev /\ op'.prevRouting = op.prevRouting
        /\ Restarted' = Restarted /\ UNCHANGED <<journal, net>> /\ Starts(Restarted)
        /\ mem' = [mem EXCEPT !.pid[Restarted] = [id |-> NextId, known |-> FALSE]]
    BY <1>8, <1>g, <1>r DEF SpawnNew, Active, Starts
  <2>2. /\ mem'.lifecycle = mem.lifecycle /\ mem'.flags = mem.flags
        /\ ~RestartsMihomo => mem'.pid["mihomo"] = mem.pid["mihomo"]
    BY <2>1 DEF RestartsMihomo, TypeOK, State, Services
  <2>3. Gentle(journal.pid["mihomo"]) /\ Gentle(mem.pid["mihomo"])
    BY <1>r, <2>1, StartsLive DEF Gentle, Starts, Recorded, TypeOK, Services
  <2>4. /\ RestartsMihomo => "routing" \notin mem.flags /\ "routing" \notin journal.flags
        /\ op.prevRouting => RestartsMihomo
    BY <1>p, <2>1 DEF HonestInv
  <2>5. Honest(mem) => Honest(mem)'
    <3>1. SUFFICES ASSUME Honest(mem) PROVE Honest(mem)'
      OBVIOUS
    <3>2. net \subseteq net'
      BY <2>1
    <3>3. CASE RestartsMihomo
      BY <2>2, <2>4, <3>1, <3>2, <3>3 DEF Honest
    <3>4. CASE ~RestartsMihomo
      <4>1. mem.pid["mihomo"] \in Track
        BY DEF TypeOK, State, Services
      <4>2. TUNHolds(mem.pid["mihomo"]) => TUNHolds(mem.pid["mihomo"])'
        BY <2>2, <2>3, <3>4, <4>1, TUNKept DEF TUNHolds
      <4> QED
        BY <2>2, <3>1, <3>2, <3>4, <4>2 DEF Honest
    <3> QED
      BY <3>3, <3>4
  <2>6. FirstFault' => Honest(journal)' /\ Honest(mem)'
    BY <1>b, <1>f, <1>h, <2>1, <2>3, <2>5, HonestKept DEF TypeOK
  <2>7. mem'.lifecycle = "running" => Identifies(mem', "mihomo") \/ RestartsMihomo
    BY <1>m, <2>1, <2>2 DEF Identifies
  <2> QED
    BY <1>j, <2>1, <2>2, <2>4, <2>6, <2>7 DEF HonestInv, Identifies, RestartsMihomo, Teardown, RestartPCs
<1>a. StopNew => \A t : Gentle(t)
  BY <1>k, <1>n DEF StopNew
<1>9. CASE NewUnidentified
  BY <1>6, <1>9, <1>a, <1>n DEF NewUnidentified
<1>i. /\ Identified \in State /\ Identified.lifecycle = mem.lifecycle /\ Identified.flags = mem.flags
      /\ Identified.pid["mihomo"].id = mem.pid["mihomo"].id
      /\ op.pc = "record" /\ mem.lifecycle = "running" => Identifies(Identified, "mihomo")
  <2>1. Identified.flags = mem.flags /\ \A x \in Services : Identified.pid[x].id = mem.pid[x].id
    BY <1>r DEF Identified, TypeOK, State, Track
  <2>2. RestartsMihomo => Identified.pid["mihomo"].known
    BY <1>r DEF RestartsMihomo, Identified, TypeOK, State, Track
  <2>3. ~RestartsMihomo => Identified.pid["mihomo"] = mem.pid["mihomo"]
    BY <1>r DEF RestartsMihomo, Identified, TypeOK, State, Services
  <2> QED
    BY <1>m, <2>1, <2>2, <2>3, IdentifiedType DEF Identifies, Services
<1>q. /\ WriteAhead(Identified).lifecycle = mem.lifecycle /\ WriteAhead(Identified).flags = mem.flags
      /\ WriteAhead(Identified).pid = Identified.pid
  BY <1>i, WriteAheadFields
<1>10. CASE RecordNew
  <2>1. op.pc = "record" /\ journal' = WriteAhead(Identified) /\ UNCHANGED <<proc, net>>
    BY <1>10 DEF RecordNew, Active
  <2>2. FirstFault' => Honest(journal)' /\ (mem' = WriteAhead(Identified) => Honest(mem)')
    BY <1>i, <1>n, <1>s, <2>1
  <2>3. journal'.lifecycle = "running" => Identifies(journal', "mihomo")
    BY <1>i, <1>q, <2>1 DEF Identifies
  <2>4. CASE op.cmd = "restart-mihomo"
    <3>1. /\ op'.pc = "routes" /\ op'.prev = op.prev /\ op'.prevRouting = op.prevRouting /\ Restarted' = Restarted
          /\ mem' = WriteAhead(Identified)
      BY <1>10, <1>g, <1>r, <2>4 DEF RecordNew
    <3>2. mem'.lifecycle = "running" => Identifies(mem', "mihomo")
      BY <1>i, <1>q, <2>1, <3>1 DEF Identifies
    <3>3. /\ RestartsMihomo => "routing" \notin mem'.flags /\ "routing" \notin journal'.flags
          /\ op.prevRouting => RestartsMihomo
      BY <1>p, <1>q, <2>1, <3>1 DEF HonestInv
    <3> QED
      BY <2>2, <2>3, <3>1, <3>2, <3>3 DEF HonestInv, Identifies, RestartsMihomo, Teardown, RestartPCs
  <2>5. CASE op.cmd # "restart-mihomo"
    BY <1>10, <1>p, <1>t, <2>2, <2>3, <2>5, FinishFields, HonestNext DEF RecordNew, RestartPCs, Teardown
  <2> QED
    BY <2>4, <2>5
<1>11. CASE RecordNewFails
  <2>1. op.pc = "record" /\ journal' \in {journal, WriteAhead(Identified)} /\ Finish /\ \A t : Gentle(t)
    BY <1>11, <1>a DEF RecordNewFails, Active
  <2>2. FirstFault' => Honest(journal)'
    BY <1>b, <1>f, <1>h, <1>i, <1>s, <2>1, HonestKept DEF TypeOK
  <2>3. journal'.lifecycle = "running" => Identifies(journal', "mihomo")
    BY <1>i, <1>j, <1>q, <2>1 DEF Identifies
  <2> QED
    BY <1>p, <1>t, <2>1, <2>2, <2>3, FinishFields, HonestNext DEF RestartPCs, Teardown
<1>12. CASE ReapplyRouting
  <2>1. /\ op.pc = "routes" /\ op'.pc = "commit" /\ op'.prevRouting = op.prevRouting /\ Restarted' = Restarted
        /\ UNCHANGED <<journal, proc>> /\ net' = net \cup RoutingPieces
    BY <1>12, <1>g, <1>r DEF ReapplyRouting, Active
  <2>2. mem'.lifecycle = mem.lifecycle /\ mem'.pid = mem.pid
    BY <1>12 DEF ReapplyRouting, TypeOK, State
  <2>3. Honest(mem) => Honest(mem)'
    BY <2>1, <2>2 DEF Honest, TUNHolds, RoutingPieces
  <2>4. FirstFault' => Honest(journal)'
    BY <1>b, <1>f, <1>h, <2>1, HonestKept DEF TypeOK, Gentle
  <2>5. mem'.lifecycle = "running" => Identifies(mem', "mihomo")
    BY <1>m, <2>1, <2>2 DEF Identifies
  <2>6. op.prevRouting => RestartsMihomo
    BY <1>p DEF HonestInv
  <2> QED
    BY <1>f, <1>h, <1>j, <2>1, <2>3, <2>4, <2>5, <2>6 DEF HonestInv, Identifies, RestartsMihomo, Teardown, RestartPCs
<1>13. CASE ReapplyRoutingFails
  <2>1. /\ op.pc = "routes" /\ op'.pc = "unwind" /\ op'.prevRouting = op.prevRouting /\ Restarted' = Restarted
        /\ journal' = journal
    BY <1>13, <1>g, <1>r DEF ReapplyRoutingFails, Active
  <2>2. \A t : Gentle(t)
    <3>1. /\ \E S \in SUBSET RoutingPieces : net' = KeepTUNRoute(proc', net \cup S)
          /\ \E i : proc' \in {proc, [proc EXCEPT ![i] = "free"]}
      <4>1. {} \in SUBSET RoutingPieces
        OBVIOUS
      <4> QED
        BY <1>13, <4>1 DEF ReapplyRoutingFails
    <3>2. \A S \in SUBSET RoutingPieces : net \cup S \in SUBSET Pieces /\ net \subseteq net \cup S
      BY DEF TypeOK, Pieces
    <3> QED
      BY <3>1, <3>2 DEF Gentle, TypeOK
  <2>3. mem' \in {mem, [mem EXCEPT !.pid["mihomo"] = NoTrack, !.flags = @ \ {"routing"}]}
    BY <1>13 DEF ReapplyRoutingFails
  <2>4. /\ mem'.lifecycle = mem.lifecycle /\ mem'.pid["mihomo"] \in {mem.pid["mihomo"], NoTrack}
        /\ mem'.flags \subseteq mem.flags
    <3>1. CASE mem' = [mem EXCEPT !.pid["mihomo"] = NoTrack, !.flags = @ \ {"routing"}]
      BY <3>1 DEF TypeOK, State, Services
    <3> QED
      BY <2>3, <3>1
  <2>5. "routing" \notin mem.flags
    BY <2>1 DEF HonestInv, RestartsMihomo, Restarted, SupportInv, CommandInv
  <2>6. Honest(mem) => Honest(mem)'
    <3>1. net \ {"tunroute"} \subseteq net'
      BY <2>2 DEF Gentle, KeepTUNRoute
    <3> QED
      BY <2>4, <2>5, <3>1 DEF Honest
  <2>7. FirstFault' => Honest(journal)'
    BY <1>b, <1>f, <1>h, <2>1, <2>2, HonestKept DEF TypeOK
  <2>8. mem'.lifecycle = "running" => Identifies(mem', "mihomo")
    BY <1>m, <2>1, <2>4 DEF Identifies, NoTrack
  <2>9. op.prevRouting => RestartsMihomo
    BY <1>p DEF HonestInv
  <2> QED
    BY <1>f, <1>h, <1>j, <2>1, <2>6, <2>7, <2>8, <2>9 DEF HonestInv, Identifies, RestartsMihomo, Teardown, RestartPCs
<1> QED
  BY <1>1, <1>3, <1>4, <1>5, <1>7, <1>8, <1>9, <1>10, <1>11, <1>12, <1>13 DEF RestartStep
LEMMA HonestBegin == ASSUME NEW c \in Clients PROVE TypeOK /\ IInv /\ SupportInv /\ HonestInv /\ Begin(c) => HonestInv'
<1> SUFFICES ASSUME TypeOK, IInv, SupportInv, HonestInv, Begin(c) PROVE HonestInv'
  OBVIOUS
<1> USE DEF disk
<1>t. [Next]_vars /\ BootInv
  BY DEF Next, SupportInv
<1>f. FirstFault' => FirstFault
  BY <1>t, FirstFaultFalls
<1>u. UNCHANGED <<proc, net, journal, ns>> /\ (\A t : Gentle(t))
  BY DEF Begin, RequestStart, RequestStop, Refused, BeginStart, BeginStop, BeginReload, BeginRestartMihomo,
     BeginRestartDNSMasq, BeginRecover, RecoverNothing, Gentle
<1>1. CASE RequestStart(c) \/ RequestStop(c) \/ Refused(c) \/ RecoverNothing(c)
  <2>1. UNCHANGED <<op, mem>> /\ (op.pc = "rollback" => budget'["faults"] = budget["faults"])
    BY <1>1 DEF RequestStart, RequestStop, Refused, RecoverNothing, Spend, TypeOK, Kinds
  <2> QED
    BY <1>f, <1>u, <2>1 DEF HonestInv, Honest, TUNHolds, Identifies, RestartsMihomo, Restarted
<1>2. CASE BeginStart(c) \/ BeginStop(c) \/ BeginReload(c) \/ BeginRecover(c)
  <2>1. op'.pc \in {"prepare", "stop_begin", "clear"}
    BY <1>2 DEF BeginStart, BeginStop, BeginReload, BeginRecover, Take, NoOp
  <2> QED
    BY <1>t, <1>u, <2>1, HonestNext DEF RestartPCs, Teardown
<1>3. CASE BeginRestartMihomo(c)
  <2>1. /\ journal.ns = ns /\ op'.pc = "mark" /\ op'.cmd = "restart-mihomo" /\ op'.prev = journal.pid["mihomo"]
        /\ op'.prevRouting = ("routing" \in journal.flags) /\ journal.lifecycle = "running"
        /\ mem' = [journal EXCEPT !.pid["mihomo"] = NoTrack, !.flags = @ \ {"routing"}]
    BY <1>3 DEF BeginRestartMihomo, BelongsToBoot, NoOp
  <2>2. mem'.lifecycle = journal.lifecycle /\ mem'.flags = journal.flags \ {"routing"} /\ mem'.pid["mihomo"] = NoTrack
    BY <2>1 DEF TypeOK, State, Services
  <2>3. /\ FirstFault' => Honest(journal) /\ Honest(journal)'
        /\ Identifies(journal, "mihomo")
    BY <1>f, <1>u, <2>1 DEF HonestInv, Honest, TUNHolds
  <2>4. FirstFault' => Honest(mem)'
    BY <1>u, <2>2, <2>3 DEF Honest
  <2>5. Identifies(mem', "mihomo")
    BY <2>2 DEF Identifies, NoTrack
  <2>6. "routing" \in journal.flags /\ FirstFault' => "rule" \in net' /\ TUNHolds(op.prev)'
    BY <1>u, <2>1, <2>3 DEF Honest, TUNHolds
  <2> QED
    BY <1>u, <2>1, <2>2, <2>3, <2>4, <2>5, <2>6 DEF HonestInv, Identifies, RestartsMihomo, Restarted, Teardown
<1>4. CASE BeginRestartDNSMasq(c)
  <2>1. /\ journal.ns = ns /\ op'.pc = "mark" /\ op'.cmd = "restart-dnsmasq" /\ op'.prevRouting = FALSE
        /\ mem' = [journal EXCEPT !.pid["dnsmasq"] = NoTrack]
    BY <1>4 DEF BeginRestartDNSMasq, BelongsToBoot, NoOp
  <2>2. mem'.lifecycle = journal.lifecycle /\ mem'.flags = journal.flags /\ mem'.pid["mihomo"] = journal.pid["mihomo"]
    BY <2>1 DEF TypeOK, State, Services
  <2>3. /\ FirstFault' => Honest(journal) /\ Honest(journal)'
        /\ journal.lifecycle = "running" => Identifies(journal, "mihomo")
    BY <1>f, <1>u, <2>1 DEF HonestInv, Honest, TUNHolds
  <2>4. FirstFault' => Honest(mem)'
    BY <1>u, <2>2, <2>3 DEF Honest, TUNHolds
  <2> QED
    BY <1>u, <2>1, <2>2, <2>3, <2>4 DEF HonestInv, Identifies, RestartsMihomo, Restarted, Teardown
<1> QED
  BY <1>1, <1>2, <1>3, <1>4 DEF Begin

LEMMA HonestStep == TypeOK /\ IInv /\ SupportInv /\ HonestInv /\ [Next]_vars => HonestInv'
<1> SUFFICES ASSUME TypeOK, IInv, SupportInv, HonestInv, [Next]_vars PROVE HonestInv'
  OBVIOUS
<1>t. BootInv /\ (FirstFault' => FirstFault)
  BY FirstFaultFalls DEF SupportInv
<1>1. CASE ContainerRestart
  <2>1. journal'.ns # ns' /\ op'.pc = "idle"
    BY <1>1, FinishFields DEF ContainerRestart, disk, SupportInv, BootInv, TypeOK, State
  <2> QED
    BY <2>1 DEF HonestInv, RestartPCs, Teardown
<1>2. CASE Crash
  <2>1. UNCHANGED <<journal, ns, proc, net>> /\ op'.pc = "idle"
    BY <1>2, FinishFields DEF Crash, disk
  <2> QED
    BY <1>t, <2>1, HonestNext DEF Gentle, RestartPCs, Teardown
<1>3. CASE ProcessDies \/ PIDReused \/ UNCHANGED vars
  <2>1. UNCHANGED <<op, mem, journal, ns>> /\ budget'["faults"] = budget["faults"]
    BY <1>3 DEF ProcessDies, PIDReused, disk, vars, Spend, TypeOK, Kinds
  <2>2. \A t : Gentle(t)
    BY <1>3 DEF ProcessDies, PIDReused, Kill, Gentle, vars, TypeOK
  <2>3. journal \in State /\ mem \in State /\ op.prev \in Track
    BY TracksType DEF TypeOK
  <2>4. (Honest(journal) => Honest(journal)') /\ (Honest(mem) => Honest(mem)')
    BY <2>1, <2>2, <2>3, HonestKept
  <2>5. "rule" \in net /\ TUNHolds(op.prev) => "rule" \in net' /\ TUNHolds(op.prev)'
    BY <2>1, <2>2, <2>3, TUNKept
  <2> QED
    BY <1>t, <2>1, <2>4, <2>5 DEF HonestInv, Identifies, RestartsMihomo, Restarted
<1> QED
  BY <1>1, <1>2, <1>3, HonestStart, HonestStop, HonestRestart, HonestBegin DEF Next, OpStep, Environment

\* Until a second step fails, a journal of this boot that says "running" tells the truth:
\* forwarding and NAT are on, and applied routing is there as long as the recorded mihomo.
THEOREM JournalHonest == Spec => []RunningJournalHonest
<1>1. Init => HonestInv
  BY DEF Init, HonestInv, Honest, NoState, NoOp, RestartPCs, Teardown
<1>2. TypeOK /\ SupportInv /\ HonestInv => RunningJournalHonest
  <2> SUFFICES ASSUME TypeOK, SupportInv, HonestInv, journal.lifecycle = "running", journal.ns = ns, FirstFault
               PROVE  /\ "forwarding" \in net
                      /\ ~SameLAN => "nat" \in net
                      /\ "routing" \in journal.flags =>
                           /\ "rule" \in net
                           /\ Running(journal.pid["mihomo"]) => "tunroute" \in net
    BY DEF RunningJournalHonest, FirstFault, BelongsToBoot
  <2>1. Honest(journal) /\ Identifies(journal, "mihomo")
    BY DEF HonestInv
  <2>2. Own(journal.pid["mihomo"], "mihomo")
    BY DEF SupportInv, OwnInv, Services
  <2>3. Running(journal.pid["mihomo"]) => journal.pid["mihomo"].id # 0 /\ proc[journal.pid["mihomo"].id] = "mihomo"
    BY <2>1, <2>2 DEF Running, Matches, Identifies, Own, Services
  <2> QED
    BY <2>1, <2>3 DEF Honest, TUNHolds
<1> QED
  BY <1>1, <1>2, HonestStep, Supported, PTL DEF Spec

----------------------------------------------------------------------------
(* The lifecycle keeps what GatewayPromise says.  The phase is read from    *)
(* the state file; what is added to the invariants is that a teardown whose *)
(* steps have all succeeded works under a file that is marked, and that a   *)
(* restart leaves the mark as it found it.                                  *)

Lowered == {"stopping", "cleanup"}

PhaseInv ==
  /\ op.pc \in Teardown \cup {"clear"} /\ ~op.failed /\ Exists(journal) /\ journal.ns = ns => journal.lifecycle \in Lowered
  /\ op.pc \in RestartPCs => mem.lifecycle = journal.lifecycle
  /\ op.pc \in RestartPCs /\ RestartsMihomo => mem.lifecycle = "running"

AllUp == {"forwarding", "rule"} \cup (IF SameLAN THEN {} ELSE {"nat"}) \subseteq net

\* The steps a lifecycle takes, seen from the state file and the kernel.
StaysPut  == /\ journal'.lifecycle = journal.lifecycle /\ journal'.ns = journal.ns
             /\ journal.lifecycle \in Lowered => net' \subseteq net
IsRecorded == ~Exists(journal) /\ journal'.lifecycle = "starting" /\ net' = net
IsOpened   == /\ journal.lifecycle = "starting" /\ journal.ns = ns
              /\ journal'.lifecycle = "running" /\ journal'.ns = ns /\ net' = net /\ AllUp
IsMarked   == /\ Exists(journal) /\ journal.ns = ns
              /\ journal'.lifecycle \in Lowered /\ journal'.ns = ns /\ net' = net
IsGone     == journal' = NoState /\ net' = net /\ (Exists(journal) /\ journal.ns = ns => journal.lifecycle \in Lowered)

Phases == StaysPut \/ IsRecorded \/ IsOpened \/ IsMarked \/ IsGone

\* Each of them is a step of GatewayPromise.
LEMMA PhaseSteps ==
  ASSUME TypeOK, TypeOK', IInv, IInv', BootInv, BootInv', HonestInv', [Next]_vars, ns' = ns, Phases
  PROVE  Promise!PromiseNext
<1> USE DEF Promise!Enters
<1>1. /\ Budget["faults"] - budget'["faults"] \in Nat
      /\ Budget["faults"] - budget'["faults"] >= Budget["faults"] - budget["faults"]
      /\ Budget["faults"] - budget'["faults"] < 2 => FirstFault'
  BY BudgetFalls, LifecycleAssumption DEF TypeOK, BootInv, FirstFault, LifecycleAssumption, Kinds
<1>2. /\ journal.lifecycle \in {"none", "starting", "running", "stopping", "cleanup"}
      /\ journal'.lifecycle \in {"none", "starting", "running", "stopping", "cleanup"}
      /\ net' \subseteq Pieces
  BY DEF TypeOK, State
<1>3. (~Exists(journal) \/ journal.ns # ns => net = {}) /\ (~Exists(journal') \/ journal'.ns # ns => net' = {})
  BY DEF IInv, ResidueIsOurs
<1>4. /\ Phase = IF Exists(journal) /\ journal.ns = ns THEN PhaseOf[journal.lifecycle] ELSE "off"
      /\ Phase' = IF Exists(journal') /\ journal'.ns = ns THEN PhaseOf[journal'.lifecycle] ELSE "off"
  BY DEF Phase, BelongsToBoot
<1>5. \A l : /\ l = "starting" => PhaseOf[l] = "raising"
             /\ l = "running" => PhaseOf[l] = "on"
             /\ l \in Lowered => PhaseOf[l] = "lowering"
  BY DEF PhaseOf, Lowered
<1>6. CASE StaysPut
  <2>1. Phase' = Phase
    BY <1>4, <1>6 DEF StaysPut, Exists
  <2>2. CASE ~Exists(journal) \/ journal.ns # ns
    <3>1. Phase = "off" /\ net = {} /\ net' = {}
      BY <1>3, <1>4, <1>6, <2>2 DEF StaysPut, Exists
    <3> QED
      BY <1>1, <2>1, <3>1 DEF Promise!PromiseNext, Promise!Idle
  <2>3. CASE Exists(journal) /\ journal.ns = ns /\ journal.lifecycle = "starting"
    BY <1>1, <1>2, <1>4, <1>5, <2>1, <2>3 DEF Promise!PromiseNext, Promise!Raise
  <2>4. CASE Exists(journal) /\ journal.ns = ns /\ journal.lifecycle = "running"
    <3>1. FirstFault' => Honest(journal)' /\ journal'.lifecycle = "running"
      BY <1>6, <2>4 DEF StaysPut, HonestInv
    <3>2. FirstFault' => {"forwarding"} \cup (IF SameLAN THEN {} ELSE {"nat"}) \subseteq net'
      BY <3>1 DEF Honest
    <3> QED
      BY <1>1, <1>2, <1>4, <1>5, <2>1, <2>4, <3>2 DEF Promise!PromiseNext, Promise!Serve
  <2>5. CASE Exists(journal) /\ journal.ns = ns /\ journal.lifecycle \in Lowered
    BY <1>1, <1>4, <1>5, <1>6, <2>1, <2>5 DEF Promise!PromiseNext, Promise!Lower, StaysPut
  <2> QED
    BY <1>2, <2>2, <2>3, <2>4, <2>5 DEF Exists, Lowered
<1>7. CASE IsRecorded
  <2>1. Phase = "off" /\ net' = net /\ Phase' \in {"off", "raising"}
    BY <1>4, <1>5, <1>7 DEF IsRecorded
  <2> QED
    BY <1>1, <2>1 DEF Promise!PromiseNext, Promise!Record, Promise!Idle
<1>8. CASE IsOpened
  <2>1. Phase = "raising" /\ Phase' = "on" /\ net' = net
    BY <1>4, <1>5, <1>8 DEF IsOpened, Exists
  <2> QED
    BY <1>1, <1>8, <2>1 DEF Promise!PromiseNext, Promise!Open, IsOpened, AllUp
<1>9. CASE IsMarked
  <2>1. Phase \in {"raising", "on", "lowering"} /\ Phase' = "lowering" /\ net' = net
    BY <1>2, <1>4, <1>5, <1>9 DEF IsMarked, Exists, Lowered
  <2> QED
    BY <1>1, <2>1 DEF Promise!PromiseNext, Promise!Mark, Promise!Lower
<1>10. CASE IsGone
  <2>1. Phase' = "off" /\ Phase \in {"off", "lowering"} /\ net' = net /\ net' = {}
    BY <1>3, <1>4, <1>5, <1>10 DEF IsGone, Exists, NoState
  <2> QED
    BY <1>1, <2>1 DEF Promise!PromiseNext, Promise!Forget, Promise!Idle
<1> QED
  BY <1>6, <1>7, <1>8, <1>9, <1>10 DEF Phases

\* Start works on its own file, or on none.
LEMMA PhaseStart == TypeOK /\ IInv /\ SupportInv /\ PhaseInv /\ StartStep => PhaseInv' /\ Phases /\ ns' = ns
<1> SUFFICES ASSUME TypeOK, IInv, SupportInv, StartStep PROVE PhaseInv' /\ Phases /\ ns' = ns
  OBVIOUS
<1> USE DEF disk
<1>g. \A p : Goto(p) => op'.pc = p
  BY DEF Goto, TypeOK, Op
<1>d. /\ StartPCs \subseteq Fresh \cup StartDone /\ StartPCs \ Fresh \subseteq Working
      /\ StartPCs \cap (RestartPCs \cup Teardown \cup {"clear"}) = {}
      /\ \A q \in DOMAIN AfterSave : q \in StartPCs \ {"save_smartdns", "prepare", "snapshot"} /\ AfterSave[q] \in StartPCs
      /\ \A q \in Services : q \in StartPCs \ {"save_smartdns"} /\ SaveOf[q] \in StartPCs
  BY DEF Fresh, StartPCs, StartDone, ForwardingDone, MihomoDone, DNSMasqDone, NATDone, RoutingDone, RestartPCs,
     Teardown, AfterSave, SaveOf, Services, Working
<1>e. op.pc \in StartPCs => journal.lifecycle \in {"none", "starting"}
  BY <1>d DEF SupportInv, StartInv, IInv, FreshInv, Exists
<1>m. op.pc \in StartPCs \ {"prepare", "snapshot"} =>
        /\ WriteAhead(mem).lifecycle = (IF op.pc = "save_smartdns" THEN "running" ELSE "starting")
        /\ WriteAhead(mem).ns = ns
        /\ Exists(journal) => journal.ns = ns
  BY <1>d, WriteAheadFields DEF TypeOK, SupportInv, StartInv, IInv, FreshInv, WorkingInv, Sound, StartDone, Fresh
<1>1. ASSUME op.pc \in StartPCs, op'.pc \in StartPCs \cup {"rollback", "idle"}, ns' = ns,
             \/ journal' = journal
             \/ journal' = WriteAhead(mem) /\ net' = net /\ op.pc \notin {"prepare", "snapshot", "save_smartdns"}
      PROVE  PhaseInv' /\ Phases /\ ns' = ns
  <2>1. PhaseInv'
    BY <1>1, <1>d DEF PhaseInv, RestartPCs, Teardown
  <2>2. StaysPut \/ IsRecorded
    BY <1>1, <1>e, <1>m DEF StaysPut, IsRecorded, Lowered, Exists
  <2> QED
    BY <1>1, <2>1, <2>2 DEF Phases
<1>2. CASE Prepare \/ PrepareFails \/ Snapshot \/ SnapshotFails \/ SaveStartingFails
  <2>1. /\ op.pc \in {"prepare", "snapshot", "save_starting"} /\ ns' = ns /\ net' = net
        /\ journal' \in {journal, WriteAhead(mem)} /\ (op.pc # "save_starting" => journal' = journal)
    BY <1>2 DEF Prepare, PrepareFails, Snapshot, SnapshotFails, SaveStartingFails, Active
  <2>2. op'.pc \in {"snapshot", "save_starting", "idle"}
    <3>1. CASE Prepare
      BY <3>1 DEF Prepare, TypeOK, Op
    <3> QED
      BY <1>2, <1>g, <3>1, FinishFields DEF PrepareFails, Snapshot, SnapshotFails, SaveStartingFails
  <2> QED
    BY <1>1, <2>1, <2>2 DEF StartPCs
<1>3. CASE SaveStep \/ SaveStepFails
  <2>1. /\ op.pc \in DOMAIN AfterSave /\ ns' = ns /\ net' = net
        /\ journal' \in {journal, WriteAhead(mem)} /\ op'.pc \in {AfterSave[op.pc], "rollback"}
    BY <1>3, <1>g DEF SaveStep, SaveStepFails, Save, SaveFails
  <2> QED
    BY <1>1, <1>d, <2>1
<1>4. CASE EnableForwarding \/ StepFails \/ WaitForTUN \/ SetupNAT \/ SetupPolicyRouting \/ SetupPolicyRoutingFails
  <2>1. /\ op.pc \in StartPCs \ {"save_smartdns", "prepare", "snapshot"} /\ ns' = ns
        /\ journal' = journal \/ (journal' = WriteAhead(mem) /\ net' = net)
        /\ op'.pc \in {"save_forwarding", "rollback", "routing", "nat", "save_nat", "save_routing"}
    BY <1>4, <1>g DEF EnableForwarding, StepFails, WaitForTUN, SetupNAT, SetupPolicyRouting, SetupPolicyRoutingFails,
       Save, SaveFails, Active, StartPCs
  <2> QED
    BY <1>1, <2>1 DEF StartPCs
<1>5. ASSUME NEW x \in Services, StartService(x) \/ StartServiceUnidentified(x) PROVE PhaseInv' /\ Phases /\ ns' = ns
  <2>1. op.pc = x /\ ns' = ns /\ journal' = journal /\ op'.pc \in {SaveOf[x], "rollback"}
    BY <1>5, <1>g DEF StartService, StartServiceUnidentified, Active
  <2> QED
    BY <1>1, <1>d, <2>1
<1>6. CASE SaveRunning
  <2>1. op.pc = "save_smartdns" /\ ns' = ns /\ journal' \in {journal, WriteAhead(mem)} /\ net' = net
    BY <1>6 DEF SaveRunning, Save, SaveFails, Active
  <2>2. op'.pc \in {"idle", "rollback"}
    BY <1>6, <1>g, FinishFields DEF SaveRunning, SaveFails
  <2>3. journal.lifecycle = "starting" /\ journal.ns = ns
    <3>1. Exists(journal) /\ journal.ns = ns
      BY <1>d, <2>1 DEF IInv, WorkingInv, StartPCs, Fresh
    <3> QED
      BY <1>e, <2>1, <3>1 DEF Exists, StartPCs
  <2>4. AllUp
    BY <2>1 DEF SupportInv, StartInv, AllUp, StartDone, ForwardingDone, MihomoDone, DNSMasqDone, NATDone,
       RoutingDone, Effects
  <2>5. journal' = WriteAhead(mem) => journal'.lifecycle = "running" /\ journal'.ns = ns
    BY <1>m, <2>1 DEF StartPCs
  <2>6. journal' = journal \/ IsOpened
    BY <2>1, <2>3, <2>4, <2>5 DEF IsOpened
  <2>7. PhaseInv'
    BY <2>2 DEF PhaseInv, Teardown, RestartPCs
  <2> QED
    BY <1>1, <2>1, <2>2, <2>6, <2>7 DEF Phases, StartPCs
<1> QED
  BY <1>2, <1>3, <1>4, <1>5, <1>6 DEF StartStep

\* A teardown marks the file, takes the network down, and removes the file if nothing failed.
LEMMA PhaseStop == TypeOK /\ IInv /\ SupportInv /\ PhaseInv /\ StopStep => PhaseInv' /\ Phases /\ ns' = ns
<1> SUFFICES ASSUME TypeOK, IInv, SupportInv, PhaseInv, StopStep PROVE PhaseInv' /\ Phases /\ ns' = ns
  OBVIOUS
<1> USE DEF disk
<1>g. \A p : /\ Goto(p) => op'.pc = p /\ op'.failed = op.failed
             /\ GotoFail(p) => op'.pc = p /\ op'.failed = TRUE
  BY DEF Goto, GotoFail, TypeOK, Op
<1>d. /\ DownPCs \cup {"idle", "prepare"} \subseteq PCs \ RestartPCs
      /\ {"idle", "prepare", "stopping", "stop_begin"} \cap (Teardown \cup {"clear"}) = {}
      /\ \A q \in DOMAIN AfterDown : q \in Teardown /\ AfterDown[q] \in Teardown \cup {"clear"}
      /\ Teardown \cup {"clear"} \subseteq DownPCs
  BY DEF DownPCs, RestartPCs, Teardown, AfterDown, PCs, StartPCs
<1>w. op.pc \in {"rollback", "stopping"} =>
        /\ Exists(journal) /\ journal.ns = ns
        /\ WriteAhead(mem).lifecycle = mem.lifecycle /\ WriteAhead(mem).ns = ns
        /\ WriteAhead([mem EXCEPT !.lifecycle = "cleanup"]).lifecycle = "cleanup"
        /\ WriteAhead([mem EXCEPT !.lifecycle = "cleanup"]).ns = ns
  <2>1. /\ [mem EXCEPT !.lifecycle = "cleanup"] \in State
        /\ [mem EXCEPT !.lifecycle = "cleanup"].lifecycle = "cleanup"
        /\ [mem EXCEPT !.lifecycle = "cleanup"].ns = mem.ns
    BY DEF TypeOK, State
  <2> QED
    BY <2>1, WriteAheadFields DEF TypeOK, IInv, WorkingInv, Working, Sound
\* What leaves no restart and no teardown in progress, or a failed one.
<1>i. ASSUME op'.pc \in DownPCs \cup {"idle", "prepare"}, op'.pc \in Teardown \cup {"clear"} => op'.failed PROVE PhaseInv'
  BY <1>d, <1>i DEF PhaseInv
<1>1. CASE Rollback
  <2>1. op.pc = "rollback" /\ op'.pc = "down_smartdns" /\ UNCHANGED <<ns, net>>
    BY <1>1, <1>g DEF Rollback, Active
  <2>2. \/ journal'.lifecycle = "cleanup" /\ journal'.ns = ns
        \/ journal' = journal /\ op'.failed
    BY <1>1, <1>g, <1>w, <2>1 DEF Rollback
  <2>3. PhaseInv'
    BY <1>d, <2>1, <2>2 DEF PhaseInv, Lowered, DownPCs
  <2>4. IsMarked \/ StaysPut
    BY <1>w, <2>1, <2>2 DEF IsMarked, StaysPut, Lowered
  <2> QED
    BY <2>1, <2>3, <2>4 DEF Phases
<1>2. CASE StopBegin \/ StopBeginFails
  <2>1. /\ op'.pc \in {"clear", "stopping", "idle"} /\ UNCHANGED <<journal, ns, net>>
        /\ op'.pc = "clear" => ~Exists(journal) \/ journal.ns # ns
    BY <1>2, <1>g, FinishFields DEF StopBegin, StopBeginFails, BelongsToBoot
  <2>2. PhaseInv'
    BY <1>d, <2>1 DEF PhaseInv, DownPCs
  <2> QED
    BY <2>1, <2>2 DEF Phases, StaysPut
<1>3. CASE SaveStopping
  <2>1. op.pc = "stopping" /\ mem.lifecycle = "stopping" /\ UNCHANGED <<ns, net>>
    BY <1>3 DEF SaveStopping, Active, SupportInv, CommandInv
  <2>2. \/ op'.pc = "down_smartdns" /\ journal' = WriteAhead(mem)
        \/ op'.pc = "idle" /\ journal' \in {journal, WriteAhead(mem)}
    BY <1>3, <1>g, FinishFields DEF SaveStopping, Save, SaveFails
  <2>3. PhaseInv'
    BY <1>d, <1>w, <2>1, <2>2 DEF PhaseInv, Lowered, DownPCs
  <2>4. IsMarked \/ StaysPut
    BY <1>w, <2>1, <2>2 DEF IsMarked, StaysPut, Lowered
  <2> QED
    BY <2>1, <2>3, <2>4 DEF Phases
<1>4. CASE DownService \/ RestoreNetwork
  <2>1. /\ op.pc \in Teardown /\ op'.pc \in Teardown \cup {"clear"} /\ (~op'.failed => ~op.failed)
        /\ UNCHANGED <<journal, ns>> /\ net' \subseteq net
    <3>1. CASE DownService
      BY <1>d, <1>g, <3>1 DEF DownService, StopTracked, StopTrackedFails, Kill, KeepTUNRoute
    <3>2. CASE RestoreNetwork
      BY <1>g, <3>2 DEF RestoreNetwork, Active, Teardown
    <3> QED
      BY <1>4, <3>1, <3>2
  <2>2. PhaseInv'
    BY <1>d, <2>1 DEF PhaseInv
  <2> QED
    BY <2>1, <2>2 DEF Phases, StaysPut
<1>5. CASE ClearFailed \/ Clear \/ ClearFails
  <2>1. /\ op'.pc \in {"idle", "prepare"} /\ UNCHANGED <<ns, net>> /\ op.pc = "clear"
        /\ journal' = journal \/ (journal' = NoState /\ ~op.failed)
    BY <1>5, <1>g, FinishFields DEF ClearFailed, Clear, ClearFails, Active
  <2>2. PhaseInv'
    BY <1>d, <1>i, <2>1
  <2>3. StaysPut \/ IsGone
    BY <2>1 DEF StaysPut, IsGone, PhaseInv
  <2> QED
    BY <2>1, <2>2, <2>3 DEF Phases
<1> QED
  BY <1>1, <1>2, <1>3, <1>4, <1>5 DEF StopStep

\* A restart leaves the mark as it found it, and routing is put back only while it says "running".
LEMMA PhaseRestart == TypeOK /\ IInv /\ SupportInv /\ PhaseInv /\ RestartStep => PhaseInv' /\ Phases /\ ns' = ns
<1> SUFFICES ASSUME TypeOK, IInv, SupportInv, PhaseInv, RestartStep PROVE PhaseInv' /\ Phases /\ ns' = ns
  OBVIOUS
<1> USE DEF disk
<1>g. \A p : Goto(p) => op'.pc = p /\ op'.cmd = op.cmd
  BY DEF Goto, TypeOK, Op
<1>p. op.pc \in RestartPCs /\ ns' = ns
  BY DEF RestartStep, MarkRestart, StopOld, StopOldFails, StopOldFailsTwice, Unwind, SpawnNew,
     SpawnNewFails, NewUnidentified, RecordNew, RecordNewFails, ReapplyRouting, ReapplyRoutingFails,
     CommitRouting, Active, RestartPCs
<1>b. mem.lifecycle = journal.lifecycle /\ journal.ns = ns /\ mem.ns = ns
  BY <1>p DEF PhaseInv, IInv, WorkingInv, Working, Sound
<1>r. Restarted \in Services
  BY DEF Restarted, Services
<1>w. /\ WriteAhead(mem).lifecycle = mem.lifecycle /\ WriteAhead(mem).ns = mem.ns
      /\ WriteAhead(Identified).lifecycle = mem.lifecycle /\ WriteAhead(Identified).ns = mem.ns
  <2>1. Identified \in State /\ Identified.lifecycle = mem.lifecycle /\ Identified.ns = mem.ns
    BY IdentifiedType DEF TypeOK, Identified, State
  <2> QED
    BY <2>1, WriteAheadFields DEF TypeOK
<1>1. journal'.lifecycle = journal.lifecycle /\ journal'.ns = journal.ns
  <2>1. journal' \in {journal, WriteAhead(mem), WriteAhead(Identified)}
    BY DEF RestartStep, MarkRestart, StopOld, StopOldFails, StopOldFailsTwice, Unwind, SpawnNew,
       SpawnNewFails, NewUnidentified, RecordNew, RecordNewFails, ReapplyRouting, ReapplyRoutingFails,
       CommitRouting, Save, SaveFails
  <2> QED
    BY <1>b, <1>w, <2>1
<1>2. net' \subseteq net \/ mem.lifecycle = "running"
  <2>1. op.pc = "routes" => mem.lifecycle = "running"
    BY DEF SupportInv, CommandInv, PhaseInv, RestartsMihomo, Restarted, RestartPCs
  <2>2. CASE ReapplyRouting \/ ReapplyRoutingFails
    BY <2>1, <2>2 DEF ReapplyRouting, ReapplyRoutingFails, Active
  <2> QED
    BY <2>2 DEF RestartStep, MarkRestart, StopOld, StopOldFails, StopOldFailsTwice, Unwind, SpawnNew,
       SpawnNewFails, NewUnidentified, RecordNew, RecordNewFails, CommitRouting, StopTracked, StopTrackedFails,
       StopNew, Kill, KeepTUNRoute
<1>3. \/ op'.pc = "idle"
      \/ op'.pc \in RestartPCs /\ op'.cmd = op.cmd /\ mem'.lifecycle = mem.lifecycle
  <2>1. \A t, x : [mem EXCEPT !.pid[x] = t].lifecycle = mem.lifecycle
    BY DEF TypeOK, State
  <2>2. CASE MarkRestart \/ RecordNew
    BY <1>g, <1>w, <2>2, FinishFields DEF MarkRestart, RecordNew, RestartPCs
  <2>3. CASE StopOld \/ StopOldFails \/ StopOldFailsTwice \/ SpawnNew
    BY <1>g, <2>1, <2>3 DEF StopOld, StopOldFails, StopOldFailsTwice, SpawnNew, RestartPCs, TypeOK, State
  <2>4. CASE ReapplyRouting \/ ReapplyRoutingFails
    BY <1>g, <2>4 DEF ReapplyRouting, ReapplyRoutingFails, RestartPCs, TypeOK, State
  <2> QED
    BY <2>2, <2>3, <2>4, FinishFields DEF RestartStep, Unwind, SpawnNewFails, NewUnidentified, RecordNewFails, CommitRouting
<1>4. PhaseInv'
  BY <1>1, <1>b, <1>p, <1>3 DEF PhaseInv, RestartsMihomo, Restarted, Teardown, RestartPCs
<1>5. StaysPut
  BY <1>1, <1>2, <1>b DEF StaysPut, Lowered
<1> QED
  BY <1>4, <1>5, <1>p DEF Phases

\* A command begins: a restart with the file it has read.
LEMMA PhaseBegin == ASSUME NEW c \in Clients PROVE TypeOK /\ PhaseInv /\ Begin(c) => PhaseInv' /\ Phases /\ ns' = ns
<1> SUFFICES ASSUME TypeOK, PhaseInv, Begin(c) PROVE PhaseInv' /\ Phases /\ ns' = ns
  OBVIOUS
<1> USE DEF disk
<1>u. UNCHANGED <<net, journal, ns>>
  BY DEF Begin, RequestStart, RequestStop, Refused, BeginStart, BeginStop, BeginReload, BeginRestartMihomo,
     BeginRestartDNSMasq, BeginRecover, RecoverNothing
<1>1. CASE RequestStart(c) \/ RequestStop(c) \/ Refused(c) \/ RecoverNothing(c)
  BY <1>1, <1>u DEF RequestStart, RequestStop, Refused, RecoverNothing, PhaseInv, RestartsMihomo, Restarted, Phases, StaysPut
<1>2. CASE BeginStart(c) \/ BeginStop(c) \/ BeginReload(c) \/ BeginRecover(c)
  <2>1. op'.pc \in {"prepare", "stop_begin"} \/ (op'.pc = "clear" /\ journal.ns # ns)
    BY <1>2 DEF BeginStart, BeginStop, BeginReload, BeginRecover, Take, NoOp, BelongsToBoot
  <2> QED
    BY <1>u, <2>1 DEF PhaseInv, RestartPCs, Teardown, Phases, StaysPut
<1>3. CASE BeginRestartMihomo(c) \/ BeginRestartDNSMasq(c)
  <2>1. op'.pc = "mark" /\ mem'.lifecycle = journal.lifecycle /\ (op'.cmd = "restart-mihomo" => journal.lifecycle = "running")
    BY <1>3 DEF BeginRestartMihomo, BeginRestartDNSMasq, NoOp, TypeOK, State
  <2> QED
    BY <1>u, <2>1 DEF PhaseInv, RestartPCs, RestartsMihomo, Restarted, Teardown, Phases, StaysPut
<1> QED
  BY <1>1, <1>2, <1>3 DEF Begin

\* A step of the gateway is one of the promise, or stutters; a container restart is its reboot.
LEMMA PhaseStep ==
  TypeOK /\ IInv /\ IInv' /\ SupportInv /\ HonestInv /\ PhaseInv /\ [Next]_vars =>
    PhaseInv' /\ [Promise!PromiseNext]_(Promise!promise)
<1> SUFFICES ASSUME TypeOK, IInv, IInv', SupportInv, HonestInv, PhaseInv, [Next]_vars
             PROVE  PhaseInv' /\ [Promise!PromiseNext]_(Promise!promise)
  OBVIOUS
<1>t. TypeOK' /\ IInv' /\ SupportInv' /\ HonestInv' /\ BootInv /\ BootInv'
  BY NextType, SupportStep, HonestStep DEF SupportInv
<1>1. CASE ContainerRestart
  <2>1. /\ op'.pc = "idle" /\ ns' = ns + 1 /\ net' = {} /\ journal' = journal /\ journal.ns <= ns
        /\ ns \in Nat /\ journal.ns \in Nat
    BY <1>1, <1>t, FinishFields DEF ContainerRestart, disk, BootInv, TypeOK, State
  <2>2. Phase' = "off"
    BY <2>1 DEF Phase, BelongsToBoot
  <2>3. /\ Budget["faults"] - budget'["faults"] \in Nat
        /\ Budget["faults"] - budget'["faults"] >= Budget["faults"] - budget["faults"]
    BY <1>t, BudgetFalls, LifecycleAssumption DEF TypeOK, BootInv, LifecycleAssumption, Kinds
  <2> QED
    BY <2>1, <2>2, <2>3 DEF PhaseInv, Teardown, RestartPCs, Promise!PromiseNext, Promise!Reboot
<1>2. CASE UNCHANGED vars
  BY <1>2 DEF vars, PhaseInv, RestartsMihomo, Restarted, Promise!promise, Phase, Exists, BelongsToBoot
<1>3. CASE Crash \/ ProcessDies \/ PIDReused
  <2>1. UNCHANGED <<journal, ns>> /\ net' \subseteq net
    BY <1>3 DEF Crash, ProcessDies, PIDReused, disk, Kill, KeepTUNRoute
  <2>2. PhaseInv'
    <3>1. op'.pc = "idle" \/ UNCHANGED <<op, mem>>
      BY <1>3, FinishFields DEF Crash, ProcessDies, PIDReused
    <3> QED
      BY <2>1, <3>1 DEF PhaseInv, RestartsMihomo, Restarted, Teardown, RestartPCs
  <2> QED
    BY <1>t, <2>1, <2>2, PhaseSteps DEF Phases, StaysPut
<1>4. CASE OpStep \/ \E c \in Clients : Begin(c)
  <2>1. PhaseInv' /\ Phases /\ ns' = ns
    BY <1>4, PhaseStart, PhaseStop, PhaseRestart, PhaseBegin DEF OpStep
  <2> QED
    BY <1>t, <2>1, PhaseSteps
<1> QED
  BY <1>1, <1>2, <1>3, <1>4 DEF Next, Environment

\* The gateway implements GatewayPromise: it is recorded before the kernel is touched, recorded as
\* on only when all is up, marked before it is taken down, and forgotten when nothing is left.
THEOREM PromiseRefined == Spec => PromiseKept
<1>1. Init => PhaseInv /\ HonestInv /\ Promise!PromiseInit
  BY LifecycleAssumption DEF Init, PhaseInv, HonestInv, Honest, NoState, NoOp, RestartPCs, Teardown, Promise!PromiseInit, Phase,
     Exists, LifecycleAssumption, Kinds
<1>2. TypeOK /\ IInv /\ SupportInv /\ HonestInv /\ [Next]_vars => HonestInv'
  BY HonestStep
<1> QED
  BY <1>1, <1>2, PhaseStep, Supported, PTL DEF Spec, PromiseKept, Promise!PromiseSpec
=============================================================================
