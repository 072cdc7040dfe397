------------------------- MODULE HostTakeoverProofs -------------------------
(***************************************************************************)
(* What HostTakeover promises, for every set of addresses, every number of *)
(* priority blocks and every budget.                                       *)
(***************************************************************************)
EXTENDS HostTakeover, TLAPS

(* The inductive invariant: TypeOK and the parts below.                    *)

NoFault == budget["faults"] = Budget["faults"]

BudgetInv == budget["faults"] <= Budget["faults"]

\* A process that is down runs no operation.
DownInv == ~Alive => op.cmd = "none"

\* A removal that nothing has disturbed still has every rule before it.
RemoveInv == NoFault /\ op.pc = "remove" /\ ~op.cancelled => HostRules \subseteq op.todo

\* A block is chosen, and the probes are made, only when all rules are gone.
ClearPCs == {"probe", "unprobe", "inner_probe", "inner_unprobe"}
ClearInv ==
  NoFault /\ (op.pc \in ClearPCs \/ (op.pc = "choose" /\ ~op.cancelled)) => HostRules = {}

\* What is to be installed belongs to the block on record, and what comes
\* before it is there.
InstallInv ==
  op.pc = "install" =>
    /\ op.todo \subseteq Plan(op.dns, Block, op.src)
    /\ NoFault => Plan(op.dns, Block, op.src) \subseteq net \cup op.todo

IInv == TypeOK /\ BudgetInv /\ DownInv /\ EverythingReleasable /\ RemoveInv /\ ClearInv /\ InstallInv

----------------------------------------------------------------------------
(* The steps the actions are made of.                                      *)

LEMMA SpendFacts ==
  ASSUME TypeOK, NEW k \in Kinds, Spend(k)
  PROVE  /\ budget' \in [Kinds -> Nat]
         /\ k # "faults" => budget'["faults"] = budget["faults"]
         /\ k = "faults" => budget'["faults"] < budget["faults"]
BY DEF TypeOK, Spend, Kinds

LEMMA PlanType ==
  ASSUME NEW dns, NEW at \in 0..Legacy, NEW src \in Addresses \cup {NoAddress}
  PROVE  Plan(dns, at, src) \subseteq Piece
<1>1. \A k \in RuleKinds \cup InnerKinds \cup {"route", "probe"} : Single(k) \in Piece /\ Rule(k, at, src) \in Piece
  BY HostTakeoverAssumption DEF HostTakeoverAssumption, Single, Rule, Piece, NoAddress, Legacy
<1>2. \A k \in RuleKinds \cup InnerKinds : Rule(k, 0, src) \in Piece
  BY HostTakeoverAssumption DEF HostTakeoverAssumption, Rule, Piece, Legacy
<1> QED
  BY <1>1, <1>2 DEF Plan, RuleKinds, InnerKinds

\* An operation that begins, ends or turns to removing has nothing on its list.
Turned(o) == o \in Op /\ o.todo = {} /\ o.pc \in {"list", "idle"}

LEMMA NoOpTurned == Turned(NoOp)
BY DEF Turned, NoOp, Op

LEMMA RunTurns ==
  ASSUME TypeOK, NEW cmd \in {"enable", "disable", "reconcile", "release"},
         NEW then \in {"end", "choose", "exit"}, Run(cmd, then)
  PROVE  Turned(op')
BY DEF TypeOK, Run, Turned, NoOp, Op

LEMMA GiveUpTurns ==
  ASSUME TypeOK, GiveUp
  PROVE  Turned(op')
BY NoOpTurned DEF TypeOK, GiveUp, Turned, Op

LEMMA RollBackTurns ==
  ASSUME TypeOK, RollBack
  PROVE  Turned(op')
BY DEF TypeOK, RollBack, Turned, Op

LEMMA BlockType ==
  ASSUME TypeOK
  PROVE  Block \in 0..Legacy
BY HostTakeoverAssumption DEF TypeOK, Block, Intent, Legacy, HostTakeoverAssumption

LEMMA RecordType ==
  ASSUME TypeOK, RecordBlock
  PROVE  intent' \in Intent
<1>1. PICK b \in 1..MaxBlock : intent' = [intent EXCEPT !.at = b]
  BY DEF RecordBlock, Candidates
<1> QED
  BY <1>1, HostTakeoverAssumption DEF TypeOK, Intent, Legacy, HostTakeoverAssumption

----------------------------------------------------------------------------
(* Type correctness.                                                       *)

LEMMA InitType == Init => TypeOK
<1> SUFFICES ASSUME Init PROVE TypeOK
  OBVIOUS
<1> USE HostTakeoverAssumption DEF HostTakeoverAssumption
<1>1. intent \in Intent
  <2>1. Legacy \in 0..Legacy /\ 0 \in 0..Legacy
    BY DEF Legacy
  <2>2. PICK e \in BOOLEAN, a \in {0, Legacy} :
          intent = [enabled |-> e, at |-> a, mode |-> "auto", protect |-> TRUE]
    BY DEF Init
  <2> QED
    BY <2>1, <2>2 DEF Intent
<1>2. net \subseteq Piece
  BY DEF Init, Piece, Rule, Single, RuleKinds, Legacy
<1>3. op \in Op /\ op.todo = {}
  BY NoOpTurned DEF Init, Turned
<1> QED
  BY <1>1, <1>2, <1>3 DEF Init, TypeOK

LEMMA TypeStep == TypeOK /\ [Next]_vars => TypeOK'
<1> SUFFICES ASSUME TypeOK, [Next]_vars PROVE TypeOK'
  OBVIOUS
<1> DEFINE OpOK == op' \in Op /\ (op'.todo # {} => op'.pc \in {"remove", "install"})
<1>0. Turned(op') => OpOK
  BY DEF Turned
<1>s. op' = op => OpOK
  BY DEF TypeOK
<1>b. \A k \in Kinds : Spend(k) => budget' \in [Kinds -> Nat]
  BY SpendFacts
<1>f. ASSUME NEW net1 \in SUBSET Piece, Fails(net1)
      PROVE  net' \subseteq Piece /\ budget' \in [Kinds -> Nat]
  BY <1>f, <1>b DEF Fails, TypeOK, Kinds
<1>k. {"faults", "cancels", "kills", "stops", "requests", "changes"} \subseteq Kinds
  BY DEF Kinds
<1>p. Single("probe") \in Piece /\ Single("inner_probe") \in Piece
  BY HostTakeoverAssumption DEF HostTakeoverAssumption, Single, Piece, InnerKinds, Legacy
<1>1. CASE PutEnable
  <2>1. intent' \in Intent
    BY <1>1, HostTakeoverAssumption DEF PutEnable, TypeOK, Intent, HostTakeoverAssumption
  <2>2. OpOK
    BY <1>1, <1>0, <1>s, RunTurns DEF PutEnable
  <2> QED
    BY <1>1, <1>b, <1>k, <2>1, <2>2 DEF PutEnable, TypeOK, world
<1>2. CASE PutDisable
  <2>1. intent' \in Intent
    BY <1>2, HostTakeoverAssumption DEF PutDisable, TypeOK, Intent, HostTakeoverAssumption
  <2>2. OpOK
    BY <1>2, <1>0, RunTurns DEF PutDisable
  <2> QED
    BY <1>2, <1>b, <1>k, <2>1, <2>2 DEF PutDisable, TypeOK, world
<1>3. CASE Reconcile
  <2>1. OpOK
    BY <1>3, <1>0, RunTurns DEF Reconcile
  <2> QED
    BY <1>3, <1>b, <1>k, <2>1 DEF Reconcile, TypeOK, world
<1>4. CASE Shutdown
  <2>1. OpOK
    BY <1>4 DEF Shutdown, TypeOK, Op
  <2> QED
    BY <1>4, <1>b, <1>k, <2>1 DEF Shutdown, TypeOK, world
<1>5. CASE Release
  <2>1. OpOK
    BY <1>5, <1>0, RunTurns DEF Release
  <2> QED
    BY <1>5, <2>1 DEF Release, TypeOK, world
<1>6. CASE List
  <2>1. \A l \in BOOLEAN : Removable(l) \subseteq Piece
    BY DEF Removable, TypeOK
  <2>2. OpOK
    BY <1>6, <2>1 DEF List, TypeOK, Op
  <2> QED
    BY <1>6, <1>b, <1>k, <2>2 DEF List, TypeOK, world
<1>7. CASE RemovePiece
  <2>1. PICK p \in op.todo : /\ op' = [op EXCEPT !.todo = @ \ {p}]
                            /\ \/ net' = net \ {p} /\ UNCHANGED budget
                               \/ Fails(net \ {p})
    BY <1>7 DEF RemovePiece
  <2>2. OpOK
    BY <1>7, <2>1 DEF RemovePiece, TypeOK, Op
  <2>3. net' \subseteq Piece /\ budget' \in [Kinds -> Nat]
    BY <2>1, <1>f DEF TypeOK
  <2> QED
    BY <1>7, <2>2, <2>3 DEF RemovePiece, TypeOK, world
<1>8. CASE Removed
  <2>1. OpOK
    BY <1>8, <1>0, NoOpTurned DEF Removed, ContainerGone, TypeOK, Op
  <2>2. intent' \in Intent
    BY <1>8 DEF Removed, TypeOK, Intent
  <2>3. net' \subseteq Piece /\ control' \in {"up", "stopping", "down", "stopped"} /\ ready' \in BOOLEAN
    BY <1>8 DEF Removed, ContainerGone, TypeOK
  <2> QED
    BY <1>8, <2>1, <2>2, <2>3 DEF Removed, TypeOK
<1>9. CASE Choose
  <2>1. OpOK
    <3>1. EffectiveDNS \in {"via", "main"}
      BY DEF EffectiveDNS
    <3>2. CASE SlotsFree(EffectiveDNS)
      <4>1. op.pc = "choose" /\ op' = [op EXCEPT !.pc = "probe", !.dns = EffectiveDNS]
        BY <1>9, <3>2 DEF Choose
      <4> QED
        BY <3>1, <4>1 DEF TypeOK, Op
    <3>3. CASE ~SlotsFree(EffectiveDNS)
      BY <1>9, <3>3, <1>0, GiveUpTurns DEF Choose
    <3> QED
      BY <3>2, <3>3
  <2> QED
    BY <1>9, <2>1, RecordType DEF Choose, TypeOK, world
<1>10. CASE ChooseFails
  <2>1. OpOK
    BY <1>10, <1>0, GiveUpTurns DEF ChooseFails
  <2>2. intent' \in Intent /\ budget' \in [Kinds -> Nat]
    BY <1>10, <1>b, <1>k, RecordType DEF ChooseFails, TypeOK
  <2> QED
    BY <1>10, <2>1, <2>2 DEF ChooseFails, TypeOK, world
<1>11. CASE Probe
  <2>1. net' \subseteq Piece
    BY <1>11, <1>p DEF Probe, ProbeDone, ProbeOf, TypeOK
  <2>2. Plan(op.dns, Block, op.src) \subseteq Piece
    BY PlanType, BlockType DEF TypeOK, Op
  <2>3. OpOK
    <3>1. PICK c \in {"unprobe", "inner_probe", "inner_unprobe", "install"}, todo \in SUBSET Piece :
            /\ op' = [op EXCEPT !.pc = c, !.todo = todo]
            /\ todo # {} => c = "install"
      <4>1. op' = [op EXCEPT !.pc = NextProbe[op.pc],
                             !.todo = IF op.pc = "inner_unprobe" THEN Plan(op.dns, Block, op.src) ELSE {}]
        BY <1>11 DEF Probe
      <4>2. NextProbe[op.pc] \in {"unprobe", "inner_probe", "inner_unprobe", "install"}
            /\ (op.pc = "inner_unprobe" => NextProbe[op.pc] = "install")
        BY <1>11 DEF Probe, ProbeOf, NextProbe
      <4>3. CASE op.pc = "inner_unprobe"
        BY <2>2, <4>1, <4>2, <4>3
      <4>4. CASE op.pc # "inner_unprobe"
        BY <4>1, <4>2, <4>4
      <4> QED
        BY <4>3, <4>4
    <3> QED
      BY <3>1 DEF TypeOK, Op
  <2> QED
    BY <1>11, <2>1, <2>3 DEF Probe, TypeOK, world
<1>12. CASE ProbeFails
  <2>1. ProbeDone \in SUBSET Piece
    BY <1>12, <1>p DEF ProbeFails, ProbeDone, ProbeOf, TypeOK
  <2>2. OpOK
    BY <1>12, <1>0, GiveUpTurns DEF ProbeFails
  <2>3. net' \subseteq Piece /\ budget' \in [Kinds -> Nat]
    BY <1>12, <1>f, <2>1 DEF ProbeFails, TypeOK
  <2> QED
    BY <1>12, <2>2, <2>3 DEF ProbeFails, TypeOK, world
<1>13. CASE InstallPiece
  <2>1. PICK p \in op.todo :
          /\ net' = net \cup {p}
          /\ op' = [op EXCEPT !.todo = @ \ {p}, !.pc = IF op.todo = {p} THEN "verify" ELSE @]
    BY <1>13 DEF InstallPiece
  <2>2. OpOK
    BY <1>13, <2>1 DEF InstallPiece, TypeOK, Op
  <2> QED
    BY <1>13, <2>1, <2>2 DEF InstallPiece, TypeOK, Op, world
<1>14. CASE InstallFails
  <2>1. PICK p \in op.todo : Fails(net \cup {p})
    BY <1>14 DEF InstallFails
  <2>2. net \cup {p} \in SUBSET Piece
    BY DEF TypeOK, Op
  <2>3. OpOK
    BY <1>14, <1>0, RollBackTurns DEF InstallFails
  <2> QED
    BY <1>14, <1>f, <2>1, <2>2, <2>3 DEF InstallFails, TypeOK, world
<1>15. CASE Verify
  <2>1. OpOK
    BY <1>15, <1>0, NoOpTurned DEF Verify, TypeOK, Op
  <2> QED
    BY <1>15, <2>1 DEF Verify, TypeOK, world
<1>16. CASE VerifyFails
  <2>1. OpOK
    BY <1>16, <1>0, RollBackTurns DEF VerifyFails
  <2> QED
    BY <1>16, <1>b, <1>k, <2>1 DEF VerifyFails, TypeOK, world
<1>17. CASE Persist
  <2>1. OpOK
    BY <1>17, <1>0, NoOpTurned DEF Persist, TypeOK, Op
  <2>2. intent' \in Intent
    BY <1>17 DEF Persist, TypeOK, Intent
  <2> QED
    BY <1>17, <1>b, <1>k, <2>1, <2>2 DEF Persist, TypeOK, world
<1>18. CASE Cancel
  <2>1. OpOK
    BY <1>18 DEF Cancel, TypeOK, Op
  <2> QED
    BY <1>18, <1>b, <1>k, <2>1 DEF Cancel, TypeOK, world
<1>19. CASE Killed
  BY <1>19, <1>b, <1>k, <1>0, NoOpTurned DEF Killed, ContainerGone, TypeOK
<1>20. CASE StartControl
  BY <1>20 DEF StartControl, TypeOK, world
<1>21. CASE WorldChanges
  BY <1>21, <1>b, <1>k DEF WorldChanges, TypeOK
<1>22. CASE UNCHANGED vars
  BY <1>22 DEF vars, TypeOK
<1> QED
  BY <1>1, <1>2, <1>3, <1>4, <1>5, <1>6, <1>7, <1>8, <1>9, <1>10, <1>11, <1>12, <1>13, <1>14,
     <1>15, <1>16, <1>17, <1>18, <1>19, <1>20, <1>21, <1>22 DEF Next, OpStep

----------------------------------------------------------------------------
(* The rules of the NAS's namespace.                                       *)

\* A fault is never taken back.
LEMMA BudgetStep == TypeOK /\ BudgetInv /\ [Next]_vars => BudgetInv' /\ (NoFault' => NoFault)
<1> SUFFICES ASSUME TypeOK, BudgetInv, [Next]_vars PROVE BudgetInv' /\ (NoFault' => NoFault)
  OBVIOUS
<1>1. \A k \in Kinds : Spend(k) => budget'["faults"] <= budget["faults"]
  <2>1. budget["faults"] \in Nat
    BY DEF TypeOK, Kinds
  <2>2. \A k \in Kinds : Spend(k) => budget'["faults"] \in Nat
    BY SpendFacts DEF Kinds
  <2> QED
    BY <2>1, <2>2, SpendFacts
<1>2. UNCHANGED budget => budget'["faults"] <= budget["faults"]
  BY DEF TypeOK, Kinds
<1>3. UNCHANGED budget \/ \E k \in Kinds : Spend(k)
  <2>1. {"faults", "cancels", "kills", "stops", "requests", "changes"} \subseteq Kinds
    BY DEF Kinds
  <2>2. CASE List \/ RemovePiece \/ Removed
    BY <2>1, <2>2 DEF List, RemovePiece, Removed, Fails
  <2>3. CASE Choose \/ ChooseFails \/ Probe \/ ProbeFails
    BY <2>1, <2>3 DEF Choose, ChooseFails, Probe, ProbeFails, Fails
  <2>4. CASE InstallPiece \/ InstallFails \/ Verify \/ VerifyFails \/ Persist
    BY <2>1, <2>4 DEF InstallPiece, InstallFails, Verify, VerifyFails, Persist, Fails
  <2>5. CASE PutEnable \/ PutDisable \/ Reconcile \/ Shutdown \/ Release
    BY <2>1, <2>5 DEF PutEnable, PutDisable, Reconcile, Shutdown, Release
  <2>6. CASE Cancel \/ Killed \/ StartControl \/ WorldChanges
    BY <2>1, <2>6 DEF Cancel, Killed, StartControl, WorldChanges
  <2>7. CASE UNCHANGED vars
    BY <2>7 DEF vars
  <2> QED
    BY <2>2, <2>3, <2>4, <2>5, <2>6, <2>7 DEF Next, OpStep
<1>4. budget["faults"] \in Nat /\ Budget["faults"] \in Nat
  BY HostTakeoverAssumption DEF TypeOK, HostTakeoverAssumption, Kinds
<1>5. budget'["faults"] \in Nat
  BY TypeStep DEF TypeOK, Kinds
<1>6. budget'["faults"] <= budget["faults"]
  BY <1>1, <1>2, <1>3
<1> QED
  BY <1>4, <1>5, <1>6 DEF BudgetInv, NoFault

LEMMA SpentFault ==
  ASSUME TypeOK, BudgetInv, Spend("faults")
  PROVE  ~NoFault'
<1>1. budget["faults"] \in Nat /\ Budget["faults"] \in Nat /\ budget'["faults"] < budget["faults"]
  BY SpendFacts, HostTakeoverAssumption DEF TypeOK, HostTakeoverAssumption, Kinds
<1>2. budget'["faults"] \in Nat
  BY SpendFacts DEF Kinds
<1> QED
  BY <1>1, <1>2 DEF BudgetInv, NoFault

\* As long as the rules and the block on record stay, the rules stay releasable.
LEMMA SameRules ==
  ASSUME EverythingReleasable, NoFault' => NoFault,
         intent'.at = intent.at, HostRules' = HostRules
  PROVE  EverythingReleasable'
<1>1. SUFFICES ASSUME NoFault', NEW p \in HostRules'
               PROVE  /\ p.at \in {Block', Legacy}
                      /\ p.kind \in {"udp_main", "tcp_main"} => Confirmed(p)'
  BY DEF EverythingReleasable, NoFault
<1>2. /\ p.at \in {Block, Legacy}
      /\ p.kind \in {"udp_main", "tcp_main"} => Confirmed(p)
  BY <1>1 DEF EverythingReleasable, NoFault
<1>3. Block' = Block
  BY DEF Block
<1>4. ASSUME Confirmed(p) PROVE Confirmed(p)'
  <2>1. PICK q \in net : q.kind = "proxy" /\ q.at = p.at /\ q.src = p.src
    BY <1>4 DEF Confirmed
  <2>2. q \in HostRules'
    BY <2>1 DEF HostRules, RuleKinds
  <2>3. q \in net'
    BY <2>2 DEF HostRules
  <2> QED
    BY <2>1, <2>3 DEF Confirmed
<1> QED
  BY <1>2, <1>3, <1>4

\* The three invariants of an operation say nothing where it only begins or ends.
LEMMA TurnedInv ==
  ASSUME op'.pc \notin ClearPCs \cup {"remove", "choose", "install"}
  PROVE  RemoveInv' /\ ClearInv' /\ InstallInv'
BY DEF RemoveInv, ClearInv, InstallInv

\* They stay true where the operation, the rules and the block stay.
LEMMA SameOp ==
  ASSUME RemoveInv, ClearInv, InstallInv, NoFault' => NoFault, intent'.at = intent.at,
         net' = net, op'.pc = op.pc, op'.todo = op.todo, op'.dns = op.dns, op'.src = op.src,
         op.cancelled => op'.cancelled
  PROVE  RemoveInv' /\ ClearInv' /\ InstallInv'
<1>1. Block' = Block
  BY DEF Block
<1>2. RemoveInv'
  BY DEF RemoveInv, HostRules
<1>3. ClearInv'
  BY DEF ClearInv, ClearPCs, HostRules
<1>4. Plan(op.dns, Block, op.src)' = Plan(op.dns, Block, op.src)
  BY <1>1 DEF Plan, Rule, Single
<1>5. InstallInv'
  BY <1>4 DEF InstallInv
<1> QED
  BY <1>2, <1>3, <1>5

\* The order of removal: the bypass rules of a block before its proxy rule.
LEMMA BypassFirst ==
  ASSUME TypeOK, NEW p \in Piece, NEW r \in Piece, r.kind \in {"udp_main", "tcp_main"}, p.kind = "proxy", p.at = r.at
  PROVE  ~(Comes(RemovalOrder, p) <= Comes(RemovalOrder, r))
BY DEF Comes, RemovalOrder

\* The order of installation: the proxy rule of a block before its bypass rules.
LEMMA ProxyFirst ==
  ASSUME NEW p, NEW r, r.kind \in {"udp_main", "tcp_main"}, p.kind = "proxy", p.at = r.at
  PROVE  ~(Comes(InstallOrder, r) <= Comes(InstallOrder, p))
BY DEF Comes, InstallOrder

----------------------------------------------------------------------------
(* The induction.                                                          *)

LEMMA InitIInv == Init => IInv
<1> SUFFICES ASSUME Init PROVE IInv
  OBVIOUS
<1>1. TypeOK
  BY InitType
<1>2. BudgetInv /\ DownInv
  BY HostTakeoverAssumption DEF Init, BudgetInv, DownInv, Alive, NoOp, HostTakeoverAssumption, Kinds
<1>3. EverythingReleasable
  <2>1. \A p \in HostRules : p.at = Legacy /\ p.kind \notin {"udp_main", "tcp_main"}
    BY DEF Init, HostRules, Rule, Single, RuleKinds
  <2> QED
    BY <2>1 DEF EverythingReleasable
<1>4. RemoveInv /\ ClearInv /\ InstallInv
  BY DEF Init, NoOp, RemoveInv, ClearInv, ClearPCs, InstallInv
<1> QED
  BY <1>1, <1>2, <1>3, <1>4 DEF IInv

LEMMA DownStep == TypeOK /\ DownInv /\ [Next]_vars => DownInv'
<1> SUFFICES ASSUME TypeOK, DownInv, [Next]_vars PROVE DownInv'
  OBVIOUS
<1> USE DEF DownInv, Alive
<1>1. NoOp.cmd = "none" /\ NoOp.pc = "idle"
  BY DEF NoOp
<1>2. CASE PutEnable \/ PutDisable \/ Reconcile \/ Release
  BY <1>1, <1>2 DEF PutEnable, PutDisable, Reconcile, Release, Run
<1>3. CASE Shutdown
  BY <1>3 DEF Shutdown
<1>4. CASE OpStep
  <2>1. op'.cmd = op.cmd \/ op'.cmd = "none"
    <3>1. CASE List \/ RemovePiece \/ Removed
      BY <1>1, <3>1 DEF List, RemovePiece, Removed, ContainerGone, TypeOK, Op
    <3>2. CASE Choose \/ ChooseFails \/ ProbeFails
      BY <1>1, <3>2 DEF Choose, ChooseFails, ProbeFails, GiveUp, TypeOK, Op
    <3>3. CASE Probe \/ InstallPiece
      BY <1>1, <3>3 DEF Probe, InstallPiece, TypeOK, Op
    <3>4. CASE InstallFails \/ VerifyFails
      BY <1>1, <3>4 DEF InstallFails, VerifyFails, RollBack, TypeOK, Op
    <3>5. CASE Verify \/ Persist
      BY <1>1, <3>5 DEF Verify, Persist, TypeOK, Op
    <3> QED
      BY <1>4, <3>1, <3>2, <3>3, <3>4, <3>5 DEF OpStep
  <2>2. UNCHANGED control \/ op'.cmd = "none"
    BY <1>1, <1>4 DEF OpStep, List, RemovePiece, Removed, ContainerGone, Choose, ChooseFails, Probe,
       ProbeFails, InstallPiece, InstallFails, Verify, VerifyFails, Persist
  <2> QED
    BY <2>1, <2>2
<1>5. CASE Cancel
  BY <1>5 DEF Cancel, TypeOK, Op
<1>6. CASE Killed
  BY <1>1, <1>6 DEF Killed, ContainerGone
<1>7. CASE StartControl \/ WorldChanges \/ UNCHANGED vars
  BY <1>7 DEF StartControl, WorldChanges, vars
<1> QED
  BY <1>2, <1>3, <1>4, <1>5, <1>6, <1>7 DEF Next

\* What the rules of the NAS's namespace depend on.
Rest == EverythingReleasable /\ RemoveInv /\ ClearInv /\ InstallInv

\* A failing command, or the spending of a fault, makes no promise.
LEMMA Faulted ==
  ASSUME ~NoFault', op'.pc # "install"
  PROVE  Rest'
BY DEF Rest, EverythingReleasable, RemoveInv, ClearInv, InstallInv, NoFault

\* A step between operations that leaves rules and block alone.
LEMMA QuietStep ==
  ASSUME Rest, NoFault' => NoFault, intent'.at = intent.at, HostRules' = HostRules,
         op'.pc \notin ClearPCs \cup {"remove", "choose", "install"}
  PROVE  Rest'
<1>1. EverythingReleasable'
  BY SameRules DEF Rest
<1> QED
  BY <1>1, TurnedInv DEF Rest

LEMMA StillStep ==
  ASSUME Rest, NoFault' => NoFault, intent'.at = intent.at, net' = net,
         op'.pc = op.pc, op'.todo = op.todo, op'.dns = op.dns, op'.src = op.src,
         op.cancelled => op'.cancelled
  PROVE  Rest'
<1>1. HostRules' = HostRules
  BY DEF HostRules
<1>2. EverythingReleasable'
  BY <1>1, SameRules DEF Rest
<1> QED
  BY <1>2, SameOp DEF Rest

\* The commands of an operation.
LEMMA RulesOpStep ==
  ASSUME TypeOK, BudgetInv, Rest, NoFault' => NoFault, OpStep
  PROVE  Rest'
<1> DEFINE Away == ClearPCs \cup {"remove", "choose", "install"}
<1>t. {"list", "idle", "verify", "persist"} \cap Away = {}
  BY DEF ClearPCs
<1>u. \A o : Turned(o) => o.pc \notin Away
  BY <1>t DEF Turned
<1>n. net' = net => HostRules' = HostRules
  BY DEF HostRules
<1>i. UNCHANGED intent => intent'.at = intent.at
  OBVIOUS
<1>1. CASE List
  <2>1. op'.pc = "remove" /\ op'.cancelled = op.cancelled /\ net' = net /\ UNCHANGED intent
    BY <1>1 DEF List, TypeOK, Op
  <2>2. EverythingReleasable'
    BY <2>1, <1>n, SameRules DEF Rest
  <2>3. RemoveInv'
    <3>1. SUFFICES ASSUME NoFault', ~op.cancelled PROVE HostRules' \subseteq op'.todo
      BY <2>1 DEF RemoveInv
    <3>2. op' = [op EXCEPT !.pc = "remove", !.todo = Removable(TRUE)]
      BY <1>1, <3>1, SpentFault DEF List
    <3>3. HostRules \subseteq Removable(TRUE)
      <4>1. SUFFICES ASSUME NEW p \in HostRules PROVE p \in Removable(TRUE)
        OBVIOUS
      <4>2. p.at \in {Block, Legacy} /\ (p.kind \in {"udp_main", "tcp_main"} => Confirmed(p))
        BY <3>1 DEF Rest, EverythingReleasable, NoFault
      <4> QED
        BY <4>2 DEF HostRules, RuleKinds, Removable
    <3> QED
      BY <2>1, <1>n, <3>2, <3>3 DEF TypeOK, Op
  <2> QED
    BY <2>1, <2>2, <2>3 DEF Rest, ClearInv, ClearPCs, InstallInv
<1>2. CASE RemovePiece
  <2>1. PICK p \in op.todo : /\ IsNext(p, RemovalOrder)
                            /\ op' = [op EXCEPT !.todo = @ \ {p}]
                            /\ \/ ~op.cancelled /\ net' = net \ {p} /\ UNCHANGED budget
                               \/ Fails(net \ {p})
    BY <1>2 DEF RemovePiece
  <2>2. /\ op.pc = "remove" /\ op'.pc = "remove" /\ op'.cancelled = op.cancelled
        /\ op'.todo = op.todo \ {p} /\ UNCHANGED intent
    BY <1>2, <2>1 DEF RemovePiece, TypeOK, Op
  <2>3. CASE op.cancelled
    <3>1. net' = net
      BY <2>1, <2>3 DEF Fails
    <3>2. EverythingReleasable'
      BY <2>2, <3>1, <1>n, SameRules DEF Rest
    <3> QED
      BY <2>2, <2>3, <3>2 DEF Rest, RemoveInv, ClearInv, ClearPCs, InstallInv
  <2>4. CASE ~NoFault'
    BY <2>2, <2>4, Faulted
  <2>5. CASE ~op.cancelled /\ NoFault'
    <3>1. net' = net \ {p}
      BY <2>1, <2>5, SpentFault DEF Fails
    <3>2. HostRules' = HostRules \ {p}
      BY <3>1 DEF HostRules
    <3>3. HostRules \subseteq op.todo
      BY <2>2, <2>5 DEF Rest, RemoveInv
    <3>4. RemoveInv'
      BY <2>2, <3>2, <3>3 DEF RemoveInv
    <3>5. EverythingReleasable'
      <4>1. SUFFICES ASSUME NEW r \in HostRules, r # p
                     PROVE  /\ r.at \in {Block', Legacy}
                            /\ r.kind \in {"udp_main", "tcp_main"} => Confirmed(r)'
        BY <3>2 DEF EverythingReleasable
      <4>2. r.at \in {Block, Legacy} /\ (r.kind \in {"udp_main", "tcp_main"} => Confirmed(r))
        BY <2>5 DEF Rest, EverythingReleasable, NoFault
      <4>3. Block' = Block
        BY <2>2 DEF Block
      <4>4. ASSUME r.kind \in {"udp_main", "tcp_main"} PROVE Confirmed(r)'
        <5>1. PICK q \in net : q.kind = "proxy" /\ q.at = r.at /\ q.src = r.src
          BY <4>2, <4>4 DEF Confirmed
        <5>2. Comes(RemovalOrder, p) <= Comes(RemovalOrder, r)
          BY <2>1, <3>3 DEF IsNext
        <5>3. q # p
          BY <4>4, <5>1, <5>2, BypassFirst DEF TypeOK, HostRules
        <5> QED
          BY <3>1, <5>1, <5>3 DEF Confirmed
      <4> QED
        BY <4>2, <4>3, <4>4
    <3> QED
      BY <2>2, <3>4, <3>5 DEF Rest, ClearInv, ClearPCs, InstallInv
  <2> QED
    BY <2>3, <2>4, <2>5
<1>3. CASE Removed
  <2>1. op.pc = "remove" /\ op.todo = {} /\ intent'.at = intent.at /\ HostRules' = HostRules
    <3>1. intent'.at = intent.at
      BY <1>3 DEF Removed, TypeOK, Intent
    <3>2. HostRules' = HostRules
      BY <1>3 DEF Removed, ContainerGone, HostRules, RuleKinds, InnerKinds
    <3> QED
      BY <1>3, <3>1, <3>2 DEF Removed
  <2>2. CASE op.then = "choose"
    <3>1. op' = [op EXCEPT !.pc = "choose"]
      BY <1>3, <2>2 DEF Removed
    <3>2. op'.pc = "choose" /\ op'.cancelled = op.cancelled
      BY <3>1 DEF TypeOK, Op
    <3>3. EverythingReleasable'
      BY <2>1, SameRules DEF Rest
    <3>4. ClearInv'
      BY <2>1, <3>2 DEF Rest, RemoveInv, ClearInv, ClearPCs
    <3> QED
      BY <3>2, <3>3, <3>4 DEF Rest, RemoveInv, InstallInv
  <2>3. CASE op.then # "choose"
    <3>1. op'.pc \in {"list", "idle"}
      <4>1. CASE op.then = "again"
        <5>1. op' = [op EXCEPT !.pc = "list", !.then = "off"]
          BY <1>3, <4>1 DEF Removed
        <5> QED
          BY <5>1 DEF TypeOK, Op
      <4>2. CASE op.then # "again"
        <5>1. op' = NoOp
          BY <1>3, <2>3, <4>2 DEF Removed, ContainerGone
        <5> QED
          BY <5>1 DEF NoOp
      <4> QED
        BY <4>1, <4>2
    <3> QED
      BY <2>1, <3>1, <1>t, QuietStep
  <2> QED
    BY <2>2, <2>3
<1>4. CASE Choose
  <2>1. /\ op.pc = "choose" /\ ~op.cancelled /\ net' = net /\ UNCHANGED budget
        /\ op'.pc \in {"probe", "list", "idle"}
    <3>1. CASE SlotsFree(EffectiveDNS)
      <4>1. op' = [op EXCEPT !.pc = "probe", !.dns = EffectiveDNS]
        BY <1>4, <3>1 DEF Choose
      <4>2. op'.pc = "probe"
        BY <4>1 DEF TypeOK, Op
      <4> QED
        BY <1>4, <4>2 DEF Choose
    <3>2. CASE ~SlotsFree(EffectiveDNS)
      BY <1>4, <3>2, GiveUpTurns DEF Choose, Turned
    <3> QED
      BY <3>1, <3>2
  <2>2. NoFault' => HostRules' = {}
    BY <2>1, <1>n DEF Rest, ClearInv
  <2>3. EverythingReleasable'
    BY <2>2 DEF EverythingReleasable, NoFault
  <2> QED
    BY <2>1, <2>2, <2>3 DEF Rest, RemoveInv, ClearInv, InstallInv, ClearPCs
<1>5. CASE ChooseFails
  <2>1. op'.pc \notin Away /\ net' = net
    BY <1>5, <1>u, GiveUpTurns DEF ChooseFails
  <2>2. CASE Spend("faults")
    BY <2>1, <2>2, SpentFault, Faulted
  <2>3. CASE UNCHANGED <<intent, budget>>
    BY <2>1, <2>3, <1>n, <1>i, QuietStep
  <2> QED
    BY <1>5, <2>2, <2>3 DEF ChooseFails
<1>p. op.pc \in DOMAIN ProbeOf => HostRules \cup {} = HostRules /\ (net' = ProbeDone => HostRules' = HostRules)
  BY DEF ProbeOf, ProbeDone, HostRules, RuleKinds, Single
<1>6. CASE Probe
  <2>1. /\ op.pc \in ClearPCs /\ HostRules' = HostRules /\ UNCHANGED <<intent, budget>>
    BY <1>6, <1>p DEF Probe, ProbeOf, ClearPCs
  <2>2. EverythingReleasable'
    BY <2>1, SameRules DEF Rest
  <2>3. op' = [op EXCEPT !.pc = NextProbe[op.pc],
                         !.todo = IF op.pc = "inner_unprobe" THEN Plan(op.dns, Block, op.src) ELSE {}]
    BY <1>6 DEF Probe
  <2>4. /\ op'.pc \in ClearPCs \cup {"install"} /\ op'.dns = op.dns /\ op'.src = op.src
        /\ op'.pc = "install" => op'.todo = Plan(op.dns, Block, op.src)
    <3>1. NextProbe[op.pc] \in ClearPCs \cup {"install"}
          /\ (NextProbe[op.pc] = "install" => op.pc = "inner_unprobe")
      BY <2>1 DEF NextProbe, ClearPCs
    <3> QED
      BY <2>3, <3>1 DEF TypeOK, Op
  <2>5. ClearInv'
    BY <2>1, <2>4 DEF Rest, ClearInv, ClearPCs
  <2>6. Plan(op.dns, Block, op.src)' = Plan(op.dns, Block, op.src)
    <3>1. Block' = Block
      BY <2>1 DEF Block
    <3> QED
      BY <2>4, <3>1 DEF Plan, Rule, Single
  <2>7. InstallInv'
    BY <2>4, <2>6 DEF InstallInv
  <2> QED
    BY <2>2, <2>4, <2>5, <2>7 DEF Rest, RemoveInv, ClearPCs
<1>7. CASE ProbeFails
  <2>1. op'.pc \notin Away /\ UNCHANGED intent
    BY <1>7, <1>u, GiveUpTurns DEF ProbeFails
  <2>2. CASE Spend("faults")
    BY <2>1, <2>2, SpentFault, Faulted
  <2>3. CASE UNCHANGED <<net, budget>>
    BY <2>1, <2>3, <1>n, <1>i, QuietStep
  <2> QED
    BY <1>7, <2>2, <2>3 DEF ProbeFails, Fails
<1>8. CASE InstallPiece
  <2>1. PICK p \in op.todo :
          /\ IsNext(p, InstallOrder)
          /\ net' = net \cup {p}
          /\ op' = [op EXCEPT !.todo = @ \ {p}, !.pc = IF op.todo = {p} THEN "verify" ELSE @]
    BY <1>8 DEF InstallPiece
  <2>2. /\ op.pc = "install" /\ UNCHANGED <<intent, budget>> /\ op'.pc \in {"install", "verify"}
        /\ op'.todo = op.todo \ {p} /\ op'.dns = op.dns /\ op'.src = op.src
    BY <1>8, <2>1 DEF InstallPiece, TypeOK, Op
  <2>3. Block' = Block
    BY <2>2 DEF Block
  <2>4. op.todo \subseteq Plan(op.dns, Block, op.src)
    BY <2>2 DEF Rest, InstallInv
  <2>5. NoFault => Plan(op.dns, Block, op.src) \subseteq net \cup op.todo
    BY <2>2 DEF Rest, InstallInv
  <2>6. EverythingReleasable'
    <3>1. SUFFICES ASSUME NoFault', NEW r \in HostRules'
                   PROVE  /\ r.at \in {Block', Legacy}
                          /\ r.kind \in {"udp_main", "tcp_main"} => Confirmed(r)'
      BY DEF EverythingReleasable, NoFault
    <3>2. CASE r \in HostRules
      <4>1. r.at \in {Block, Legacy} /\ (r.kind \in {"udp_main", "tcp_main"} => Confirmed(r))
        BY <3>1, <3>2 DEF Rest, EverythingReleasable, NoFault
      <4>2. Confirmed(r) => Confirmed(r)'
        BY <2>1 DEF Confirmed
      <4> QED
        BY <2>3, <4>1, <4>2
    <3>3. CASE r \notin HostRules
      <4>1. r = p /\ r.kind \in RuleKinds
        BY <2>1, <3>1, <3>3 DEF HostRules
      <4>2. r.at = Block /\ r.src = op.src
        BY <2>4, <4>1 DEF Plan, Rule, Single, RuleKinds
      <4>3. ASSUME r.kind \in {"udp_main", "tcp_main"} PROVE Confirmed(r)'
        <5> DEFINE q == Rule("proxy", Block, op.src)
        <5>1. q.kind = "proxy" /\ q.at = Block /\ q.src = op.src /\ q \in Plan(op.dns, Block, op.src)
          BY DEF Rule, Plan
        <5>2. q \in net
          <6>1. SUFFICES ASSUME q \in op.todo PROVE FALSE
            BY <2>5, <3>1, <5>1
          <6>2. Comes(InstallOrder, p) <= Comes(InstallOrder, q)
            BY <2>1, <6>1 DEF IsNext
          <6> QED
            BY <4>1, <4>2, <4>3, <5>1, <6>2, ProxyFirst
        <5> QED
          BY <2>1, <4>2, <5>1, <5>2 DEF Confirmed
      <4> QED
        BY <2>3, <4>2, <4>3
    <3> QED
      BY <3>2, <3>3
  <2>7. Plan(op.dns, Block, op.src)' = Plan(op.dns, Block, op.src)
    BY <2>2, <2>3 DEF Plan, Rule, Single
  <2>8. InstallInv'
    BY <2>1, <2>2, <2>4, <2>5, <2>7 DEF InstallInv
  <2> QED
    BY <2>2, <2>6, <2>8 DEF Rest, RemoveInv, ClearInv, ClearPCs
<1>9. CASE InstallFails
  <2>1. PICK p \in op.todo : Fails(net \cup {p})
    BY <1>9 DEF InstallFails
  <2>2. op'.pc \notin Away /\ UNCHANGED intent
    BY <1>9, <1>u, RollBackTurns DEF InstallFails
  <2>3. CASE Spend("faults")
    BY <2>2, <2>3, SpentFault, Faulted
  <2>4. CASE UNCHANGED <<net, budget>>
    BY <2>2, <2>4, <1>n, <1>i, QuietStep
  <2> QED
    BY <2>1, <2>3, <2>4 DEF Fails
<1>10. CASE Verify
  <2>1. op'.pc \in {"persist", "idle"} /\ net' = net /\ UNCHANGED intent
    BY <1>10 DEF Verify, NoOp, TypeOK, Op
  <2> QED
    BY <2>1, <1>t, <1>n, <1>i, QuietStep
<1>11. CASE VerifyFails
  <2>1. op'.pc \notin Away /\ net' = net /\ UNCHANGED intent
    BY <1>11, <1>u, RollBackTurns DEF VerifyFails
  <2> QED
    BY <2>1, <1>n, <1>i, QuietStep
<1>12. CASE Persist
  <2>1. op'.pc \in {"list", "idle"} /\ net' = net
    <3>1. op' = NoOp \/ op' = [op EXCEPT !.pc = "list", !.then = "end", !.todo = {}]
      BY <1>12 DEF Persist
    <3>2. NoOp.pc = "idle" /\ [op EXCEPT !.pc = "list", !.then = "end", !.todo = {}].pc = "list"
      BY DEF NoOp, TypeOK, Op
    <3> QED
      BY <1>12, <3>1, <3>2 DEF Persist
  <2>2. intent'.at = intent.at
    BY <1>12 DEF Persist, TypeOK, Intent
  <2> QED
    BY <2>1, <2>2, <1>t, <1>n, QuietStep
<1> QED
  BY <1>1, <1>2, <1>3, <1>4, <1>5, <1>6, <1>7, <1>8, <1>9, <1>10, <1>11, <1>12 DEF OpStep

\* The beginnings of operations and the steps of the environment.
LEMMA RulesStep ==
  ASSUME TypeOK, BudgetInv, Rest, [Next]_vars
  PROVE  Rest'
<1>f. NoFault' => NoFault
  BY BudgetStep
<1>n. net' = net => HostRules' = HostRules
  BY DEF HostRules
<1>r. \A cmd, then : Run(cmd, then) => op'.pc = "list"
  BY DEF Run, NoOp
<1>l. {"list", "idle"} \cap (ClearPCs \cup {"remove", "choose", "install"}) = {}
  BY DEF ClearPCs
<1>1. CASE OpStep
  BY <1>1, <1>f, RulesOpStep
<1>2. CASE PutEnable
  <2>1. net' = net /\ intent'.at = intent.at
    BY <1>2 DEF PutEnable, TypeOK, Intent
  <2>2. CASE UNCHANGED op
    BY <2>1, <2>2, <1>f, StillStep
  <2>3. CASE op'.pc = "list"
    BY <2>1, <2>3, <1>f, <1>l, <1>n, QuietStep
  <2> QED
    BY <1>2, <1>r, <2>2, <2>3 DEF PutEnable
<1>3. CASE PutDisable
  <2>1. net' = net /\ intent'.at = intent.at
    BY <1>3 DEF PutDisable, TypeOK, Intent
  <2>2. op'.pc = "list"
    BY <1>3, <1>r DEF PutDisable
  <2> QED
    BY <2>1, <2>2, <1>f, <1>l, <1>n, QuietStep
<1>4. CASE Reconcile \/ Release
  <2>1. net' = net /\ intent'.at = intent.at /\ op'.pc = "list"
    BY <1>4, <1>r DEF Reconcile, Release
  <2> QED
    BY <2>1, <1>f, <1>l, <1>n, QuietStep
<1>5. CASE Shutdown \/ Cancel
  <2>1. net' = net /\ intent'.at = intent.at
    BY <1>5 DEF Shutdown, Cancel
  <2>2. \E c \in BOOLEAN : op' = [op EXCEPT !.cancelled = c] /\ (op.cancelled => c)
    BY <1>5 DEF Shutdown, Cancel, TypeOK, Op
  <2>3. /\ op'.pc = op.pc /\ op'.todo = op.todo /\ op'.dns = op.dns /\ op'.src = op.src
        /\ op.cancelled => op'.cancelled
    BY <2>2 DEF TypeOK, Op
  <2> QED
    BY <2>1, <2>3, <1>f, StillStep
<1>6. CASE Killed
  <2>1. intent'.at = intent.at /\ op'.pc = "idle"
    BY <1>6 DEF Killed, ContainerGone, NoOp
  <2>2. HostRules' = HostRules
    BY <1>6 DEF Killed, ContainerGone, HostRules, RuleKinds, InnerKinds
  <2> QED
    BY <2>1, <2>2, <1>f, <1>l, QuietStep
<1>7. CASE StartControl \/ WorldChanges \/ UNCHANGED vars
  <2>1. net' = net /\ intent' = intent /\ op' = op
    BY <1>7 DEF StartControl, WorldChanges, vars
  <2> QED
    BY <2>1, <1>f, StillStep
<1> QED
  BY <1>1, <1>2, <1>3, <1>4, <1>5, <1>6, <1>7 DEF Next

LEMMA StepIInv == IInv /\ [Next]_vars => IInv'
BY TypeStep, BudgetStep, DownStep, RulesStep DEF IInv, Rest

----------------------------------------------------------------------------
(* The theorems.                                                           *)

\* Every step of every operation of the manager, interrupted or not, leaves
\* intent, rules and operation well formed; only a removal or an installation
\* has pieces to work on.
THEOREM TypeCorrect == Spec => []TypeOK
<1>1. Init => TypeOK
  BY InitType
<1>2. TypeOK /\ [Next]_vars => TypeOK'
  BY TypeStep
<1> QED
  BY <1>1, <1>2, PTL DEF Spec

LEMMA AlwaysIInv == Spec => []IInv
<1>1. Init => IInv
  BY InitIInv
<1>2. IInv /\ [Next]_vars => IInv'
  BY StepIInv
<1> QED
  BY <1>1, <1>2, PTL DEF Spec

\* Until an ip command has failed, every rule in the NAS's namespace is one that
\* disableLocked finds: at the block on record or the legacy one, a DNS bypass
\* rule with the proxy rule that confirms its source.  For every number of
\* addresses and blocks, and any number of kills, hang-ups and changes.
THEOREM Releasable == Spec => []EverythingReleasable
<1>1. IInv => EverythingReleasable
  BY DEF IInv
<1> QED
  BY <1>1, AlwaysIInv, PTL

\* An orderly stop of the container, until an ip command has failed, ends with
\* no rule of OpenSurge in the NAS's namespace.
THEOREM StopTakesAway == Spec => StopReleases
<1> DEFINE Promise == op.cmd = "release" /\ ~Alive' /\ ~op.cancelled
                        /\ budget' = budget /\ NoFault => HostRules' = {}
<1>1. IInv /\ [Next]_vars => Promise
  <2> SUFFICES ASSUME IInv, [Next]_vars, op.cmd = "release", ~Alive', ~op.cancelled,
                      budget' = budget, NoFault
               PROVE  HostRules' = {}
    OBVIOUS
  <2>1. Alive
    BY DEF IInv, DownInv
  <2>2. control' # control /\ control' \notin {"up", "stopping"}
    BY <2>1 DEF Alive
  <2>3. ~Killed
    BY SpendFacts DEF Killed, Spend, IInv, TypeOK, Kinds
  <2>4. Removed
    BY <2>1, <2>2, <2>3 DEF Alive, Next, OpStep, List, RemovePiece, Choose, ChooseFails, Probe, ProbeFails, InstallPiece,
       InstallFails, Verify, VerifyFails, Persist, PutEnable, PutDisable, Reconcile, Shutdown, Release,
       Cancel, StartControl, WorldChanges, vars
  <2>5. net' \subseteq net /\ op.pc = "remove" /\ op.todo = {}
    BY <2>4 DEF Removed, ContainerGone
  <2>6. HostRules = {}
    BY <2>5 DEF IInv, RemoveInv
  <2> QED
    BY <2>5, <2>6 DEF HostRules
<1>2. IInv /\ [Next]_vars => [op.cmd = "release" /\ ~Alive' /\ ~op.cancelled
       /\ budget' = budget /\ budget["faults"] = Budget["faults"] => HostRules' = {}]_vars
  BY <1>1 DEF NoFault
<1> QED
  BY <1>2, AlwaysIInv, PTL DEF Spec, StopReleases
=============================================================================
