-------------------------- MODULE DataPlaneProofs --------------------------
(***************************************************************************)
(* What DataPlane promises, for every number of failing commands, dying    *)
(* engines and killed clients, and for both routing modes.                 *)
(***************************************************************************)
EXTENDS DataPlane, TLAPS

(* The inductive invariant: TypeOK and the parts below.                    *)

\* The manager's phase says which command may come next.
PhaseInv ==
  /\ phase \in {"down", "up", "cleanup"} <=> pc = "idle"
  /\ phase = "removing" <=> pc \in RestorePCs
  /\ pc \in {"nat", "del_nat"} => ~SameLAN
  /\ pc \in {"guard", "del_guard"} => SameLAN
  /\ pc = "nat" => phase = "starting"
  /\ nat => ~SameLAN

\* The guard is there once the gateway has been up.
GuardInv == SameLAN /\ phase \in {"up", "repairing"} => "guard" \in rules

\* How far a teardown without a failure has got.
TeardownInv ==
  phase = "removing" /\ ~failures =>
    /\ pc # "del_selector" => "selector" \notin rules
    /\ pc \notin {"del_selector", "del_lan"} => "lan" \notin routes
    /\ pc \in {"del_guard", "del_nat", "restore_forwarding"} => "default" \notin routes
    /\ pc = "restore_forwarding" => "guard" \notin rules /\ ~nat

\* The snapshot is never taken of a forwarding OpenSurge itself has raised.
SnapshotInv == before = original

IInv == TypeOK /\ PhaseInv /\ GuardInv /\ TeardownInv /\ SnapshotInv
        /\ DownMeansClean /\ DownMeansForwardingAsBefore

\* The commands that have a successor.
LEMMA Domains ==
  /\ DOMAIN NextSetup = SetupPCs \ {"verify"}
  /\ DOMAIN NextRestore = RestorePCs \ {"restore_forwarding"}
BY DEF NextSetup, NextRestore, SetupPCs, RestorePCs

\* A setup goes from command to command up to its verification, and touches
\* the guard only in same-LAN mode, the table only in the other.
LEMMA SetupOrder ==
  ASSUME NEW c \in SetupPCs \ {"verify"}
  PROVE  /\ NextSetup[c] \in SetupPCs
         /\ NextSetup[c] = "nat" => phase = "starting" /\ ~SameLAN
         /\ NextSetup[c] = "guard" => SameLAN
BY DEF NextSetup, SetupPCs
LEMMA InitIInv == Init => IInv
<1> SUFFICES ASSUME Init PROVE IInv
  OBVIOUS
<1> USE DEF Init
<1>1. TypeOK
  <2>1. faults \in 0..MaxFaults /\ deaths \in 0..MaxDeaths /\ crashes \in 0..MaxCrashes
    BY DataPlaneAssumption DEF DataPlaneAssumption
  <2>2. forwarding \in BOOLEAN /\ before \in BOOLEAN /\ original \in BOOLEAN
    OBVIOUS
  <2>3. nat \in BOOLEAN /\ tun \in BOOLEAN /\ failures \in BOOLEAN
    OBVIOUS
  <2> QED
    BY <2>1, <2>2, <2>3 DEF TypeOK
<1>2. PhaseInv
  BY DEF PhaseInv, RestorePCs
<1>3. GuardInv /\ TeardownInv /\ SnapshotInv
  BY DEF GuardInv, TeardownInv, SnapshotInv
<1>4. DownMeansClean /\ DownMeansForwardingAsBefore
  BY DEF DownMeansClean, DownMeansForwardingAsBefore
<1> QED
  BY <1>1, <1>2, <1>3, <1>4 DEF IInv

\* TypeOK, part by part: the provers keep numbers and Booleans apart.
Counters == faults \in 0..MaxFaults /\ deaths \in 0..MaxDeaths /\ crashes \in 0..MaxCrashes
Flags    == /\ SameLAN \in BOOLEAN
            /\ forwarding \in BOOLEAN /\ before \in BOOLEAN /\ original \in BOOLEAN
            /\ nat \in BOOLEAN /\ tun \in BOOLEAN /\ failures \in BOOLEAN
Places   == /\ rules \subseteq Rules /\ routes \subseteq Routes
            /\ phase \in {"down", "starting", "up", "repairing", "removing", "cleanup"}
            /\ pc \in {"idle"} \cup SetupPCs \cup RestorePCs

LEMMA CountersInv == Counters /\ [Next]_vars => Counters'
<1> SUFFICES ASSUME Counters, [Next]_vars PROVE Counters'
  OBVIOUS
<1> DEFINE Counts(x) == x' = x \/ (x > 0 /\ x' = x - 1)
<1>1. Counts(faults) /\ Counts(deaths) /\ Counts(crashes)
  BY DEF Next, Step, vars, kernel, bounds, Start, Repair, Stop, SetupCommand,
       SetupCommandFails, Verify, RestoreCommand, RestoreCommandFails, TUNVanishes, Crash
<1> QED
  BY <1>1, DataPlaneAssumption DEF Counters, DataPlaneAssumption

LEMMA FlagsInv == Flags /\ [Next]_vars => Flags'
<1> SUFFICES ASSUME Flags, [Next]_vars PROVE Flags'
  OBVIOUS
<1> USE DEF Flags, given
<1>1. CASE Start \/ Repair \/ Stop
  BY <1>1 DEF Start, Repair, Stop, kernel
<1>2. CASE SetupCommand
  BY <1>2 DEF SetupCommand, Effect
<1>3. CASE SetupCommandFails
  BY <1>3 DEF SetupCommandFails, SetupFailed, Effect, kernel
<1>4. CASE Verify
  BY <1>4 DEF Verify, SetupFailed, kernel
<1>5. CASE RestoreCommand
  BY <1>5 DEF RestoreCommand, RestoreEnds, Removal
<1>6. CASE RestoreCommandFails
  BY <1>6 DEF RestoreCommandFails, RestoreEnds, Removal, kernel
<1>7. CASE TUNVanishes \/ Crash \/ UNCHANGED vars
  BY <1>7 DEF TUNVanishes, Crash, kernel, vars
<1> QED
  BY <1>1, <1>2, <1>3, <1>4, <1>5, <1>6, <1>7 DEF Next, Step

\* The invariant without the counters and the types of the flags.
Rest == /\ Places /\ PhaseInv /\ GuardInv /\ TeardownInv /\ SnapshotInv
        /\ DownMeansClean /\ DownMeansForwardingAsBefore

\* The routing mode is given.
LEMMA ModeGiven == [Next]_vars => UNCHANGED given /\ Rules' = Rules
<1>1. [Next]_vars => UNCHANGED given
  BY DEF Next, Step, vars, given, Start, Repair, Stop, SetupCommand, SetupCommandFails, Verify,
         RestoreCommand, RestoreCommandFails, TUNVanishes, Crash
<1> QED
  BY <1>1 DEF given, Rules

LEMMA RestInv == Flags /\ Rest /\ [Next]_vars => Rest'
<1> SUFFICES ASSUME Flags, Rest, [Next]_vars PROVE Rest'
  OBVIOUS
<1>0. UNCHANGED <<SameLAN, original>> /\ Rules' = Rules
  BY ModeGiven DEF given
<1> USE <1>0
<1> USE DEF Rest, Flags, Places, PhaseInv, GuardInv, TeardownInv, SnapshotInv, DownMeansClean,
            DownMeansForwardingAsBefore, SetupPCs, RestorePCs
<1>1. CASE Start
  BY <1>1 DEF Start, kernel
<1>2. CASE Repair
  BY <1>2 DEF Repair
<1>3. CASE Stop
  BY <1>3 DEF Stop, kernel
<1>4. CASE SetupCommand
  BY <1>4, Domains, SetupOrder DEF SetupCommand, Effect, Rules, Routes
<1>5. CASE SetupCommandFails
  <2>1. pc \in SetupPCs \ {"verify"}
    BY <1>5, Domains DEF SetupCommandFails
  <2>2. CASE UNCHANGED kernel
    BY <1>5, <2>1, <2>2 DEF SetupCommandFails, SetupFailed, kernel
  <2>3. CASE Effect(pc)
    BY <1>5, <2>1, <2>3 DEF SetupCommandFails, SetupFailed, Effect, Rules, Routes
  <2> QED
    BY <1>5, <2>2, <2>3 DEF SetupCommandFails
<1>6. CASE Verify
  BY <1>6 DEF Verify, SetupFailed, Installed, kernel, Rules
<1>7. CASE RestoreCommand
  <2> USE DEF RestoreCommand, Removal
  <2>1. CASE pc = "restore_forwarding"
    BY <1>7, <2>1, Domains DEF RestoreEnds, Rules, Routes
  <2>2. CASE pc # "restore_forwarding"
    <3>1. pc \in DOMAIN NextRestore /\ pc' = NextRestore[pc] /\ UNCHANGED <<phase, failures>>
      BY <1>7, <2>2, Domains
    <3>2. UNCHANGED <<before, original>> /\ phase' = "removing" /\ pc' \in RestorePCs
      BY <1>7, <3>1, Domains DEF NextRestore
    <3>3. rules' \subseteq rules /\ routes' \subseteq routes /\ (nat' => nat)
      BY <1>7
    <3>4. Places' /\ PhaseInv'
      BY <3>1, <3>2, <3>3, Domains DEF NextRestore
    <3>5. TeardownInv'
      <4>1. CASE pc = "del_selector"
        BY <1>7, <3>1, <3>2, <4>1 DEF NextRestore
      <4>2. CASE pc = "del_lan"
        BY <1>7, <3>1, <3>2, <4>2 DEF NextRestore
      <4>3. CASE pc = "del_default"
        BY <1>7, <3>1, <3>2, <4>3 DEF NextRestore
      <4>4. CASE pc \in {"del_guard", "del_nat"}
        BY <1>7, <3>1, <3>2, <4>4 DEF NextRestore, Rules
      <4> QED
        BY <3>1, Domains, <4>1, <4>2, <4>3, <4>4
    <3> QED
      BY <3>2, <3>4, <3>5
  <2> QED
    BY <2>1, <2>2
<1>8. CASE RestoreCommandFails
  <2>1. failures' = TRUE /\ UNCHANGED <<before, original>> /\ tun' = tun
    BY <1>8 DEF RestoreCommandFails, RestoreEnds, Removal, kernel
  <2>2. rules' \subseteq rules /\ routes' \subseteq routes /\ (nat' => nat)
    BY <1>8 DEF RestoreCommandFails, Removal, kernel
  <2>3. \/ phase' = "cleanup" /\ pc' = "idle"
        \/ phase' = "removing" /\ pc' \in RestorePCs /\ (pc' = "del_nat" => ~SameLAN) /\ (pc' = "del_guard" => SameLAN)
    BY <1>8, Domains DEF RestoreCommandFails, RestoreEnds, NextRestore
  <2> QED
    BY <2>1, <2>2, <2>3
<1>9. CASE TUNVanishes
  BY <1>9 DEF TUNVanishes
<1>10. CASE Crash
  BY <1>10 DEF Crash, kernel
<1>11. CASE UNCHANGED vars
  BY <1>11 DEF vars
<1> QED
  BY <1>1, <1>2, <1>3, <1>4, <1>5, <1>6, <1>7, <1>8, <1>9, <1>10, <1>11 DEF Next, Step
LEMMA Inductive == Spec => []IInv
<1>1. IInv <=> Counters /\ Flags /\ Rest
  BY DEF IInv, TypeOK, Counters, Flags, Places, Rest
<1>2. IInv' <=> Counters' /\ Flags' /\ Rest'
  BY DEF IInv, TypeOK, Counters, Flags, Places, Rest
<1>3. IInv /\ [Next]_vars => IInv'
  BY <1>1, <1>2, CountersInv, FlagsInv, RestInv
<1> QED
  BY <1>3, InitIInv, PTL DEF Spec

----------------------------------------------------------------------------
(* The theorems.                                                           *)

\* Every state of the data plane is well-typed.
THEOREM TypeCorrect == Spec => []TypeOK
<1>1. IInv => TypeOK
  BY DEF IInv
<1> QED
  BY <1>1, Inductive, PTL

\* From the moment a same-LAN gateway is up until it is stopped no packet of a
\* client falls through to table main, however often repairs fail or are killed.
THEOREM FailsClosed == Spec => []RunningFailsClosed
<1>1. IInv => RunningFailsClosed
  BY DEF IInv, GuardInv, RunningFailsClosed, Verdict
<1> QED
  BY <1>1, Inductive, PTL

\* A Restore that reports success has removed every rule and route and the table.
THEOREM RestoreLeavesNothing == Spec => []DownMeansClean
<1>1. IInv => DownMeansClean
  BY DEF IInv
<1> QED
  BY <1>1, Inductive, PTL

\* Forwarding is given back as it was before OpenSurge ever ran.
THEOREM ForwardingGivenBack == Spec => []DownMeansForwardingAsBefore
<1>1. IInv => DownMeansForwardingAsBefore
  BY DEF IInv
<1> QED
  BY <1>1, Inductive, PTL

(* The guard outlives the routing it guards as long as no command fails:   *)
(* however often the engine dies and the client is killed.                 *)

GuardFirst ==
  faults = MaxFaults =>
    /\ ~failures
    /\ SameLAN /\ pc \in {"lan", "default", "selector", "verify"} => "guard" \in rules
    /\ GuardOutlivesRouting

LEMMA NextGuardFirst == IInv /\ GuardFirst /\ [Next]_vars => GuardFirst'
<1> SUFFICES ASSUME IInv, GuardFirst, [Next]_vars, faults' = MaxFaults
             PROVE  GuardFirst'
  BY DEF GuardFirst
<1>1. faults = MaxFaults /\ UNCHANGED faults
  <2>1. faults \in 0..MaxFaults
    BY DEF IInv, TypeOK
  <2>2. UNCHANGED faults \/ (faults > 0 /\ faults' = faults - 1)
    BY DEF Next, Step, vars, bounds, kernel, Start, Repair, Stop, SetupCommand, SetupCommandFails,
         Verify, RestoreCommand, RestoreCommandFails, TUNVanishes, Crash
  <2> QED
    BY <2>1, <2>2, DataPlaneAssumption DEF DataPlaneAssumption
<1>2. faults # faults - 1
  BY DEF IInv, TypeOK
<1>3. UNCHANGED SameLAN /\ routes \subseteq Routes
  BY ModeGiven DEF given, IInv, TypeOK
<1> USE <1>1, <1>3 DEF GuardFirst, IInv, PhaseInv, TeardownInv, GuardOutlivesRouting, DownMeansClean,
                       SetupPCs, RestorePCs
<1>4. CASE Start \/ Repair \/ Stop
  BY <1>4 DEF Start, Repair, Stop, kernel
<1>5. CASE SetupCommand
  <2>1. pc \in SetupPCs \ {"verify"} /\ pc' = NextSetup[pc] /\ UNCHANGED failures
    BY <1>5, Domains DEF SetupCommand
  <2>2. SameLAN /\ pc \in {"forwarding", "tun"} => pc' \notin {"lan", "default", "selector", "verify"}
    BY <1>5, <2>1 DEF NextSetup
  <2>3. rules' = rules \cup ({pc} \cap Rules) /\ routes' = routes \cup ({pc} \cap Routes)
    BY <1>5 DEF SetupCommand, Effect
  <2> QED
    BY <1>5, <2>1, <2>2, <2>3 DEF Rules, Routes
<1>6. CASE SetupCommandFails
  BY <1>2, <1>6, Domains DEF SetupCommandFails, SetupFailed, kernel
<1>7. CASE Verify
  BY <1>2, <1>7 DEF Verify, SetupFailed, kernel
<1>8. CASE RestoreCommand
  <2>1. pc' \in {"idle"} \cup RestorePCs /\ UNCHANGED failures
    BY <1>8, Domains DEF RestoreCommand, RestoreEnds, NextRestore
  <2>2. CASE pc = "del_guard"
    BY <1>8, <2>1, <2>2 DEF RestoreCommand, Removal, Routes, Rules
  <2>3. CASE pc # "del_guard"
    BY <1>8, <2>1, <2>3 DEF RestoreCommand, Removal
  <2> QED
    BY <2>2, <2>3
<1>9. CASE RestoreCommandFails
  BY <1>2, <1>9 DEF RestoreCommandFails
<1>10. CASE TUNVanishes \/ Crash \/ UNCHANGED vars
  BY <1>10 DEF TUNVanishes, Crash, kernel, vars
<1> QED
  BY <1>4, <1>5, <1>6, <1>7, <1>8, <1>9, <1>10 DEF Next, Step

\* As long as no command has failed the guard is there whenever anything it
\* guards is: while a gateway is set up, repaired and torn down, wherever its
\* engine dies or its client is killed.
THEOREM GuardOutlives == Spec => []GuardOutlivesUntilFault
<1>1. Init => GuardFirst
  BY DEF Init, GuardFirst, GuardOutlivesRouting
<1>2. GuardFirst => GuardOutlivesUntilFault
  BY DEF GuardFirst, GuardOutlivesUntilFault
<1> QED
  BY <1>1, <1>2, NextGuardFirst, Inductive, PTL DEF Spec
=============================================================================
