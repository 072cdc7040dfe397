-------------------------- MODULE GatewayLifecycle --------------------------
(***************************************************************************)
(* The gateway lifecycle manager (internal/gateway/manager.go and the      *)
(* files beside it): start, stop, reload, restart-mihomo, restart-dnsmasq  *)
(* and the recovery that runs after a container restart.  One client at a  *)
(* time holds the flock; it walks through the steps of its command, each   *)
(* of which may fail, and saves its copy of the runtime state (mem) to the *)
(* journal state.json around every effect on processes and on the kernel.  *)
(*                                                                         *)
(* Between any two steps a managed process may exit, its PID may be taken  *)
(* by a stranger, the client may be killed (its children live on and the   *)
(* kernel drops the flock), the container may restart (a new network and   *)
(* PID namespace), and another client may write the desired state, which   *)
(* no lock protects.                                                       *)
(***************************************************************************)
EXTENDS Naturals, FiniteSets

CONSTANTS
  Clients,      \* processes that issue lifecycle commands: Control, CLI, entrypoint
  NoClient,
  SameLAN,      \* cfg.Gateway.SameLAN(): ingress-rule routing, no NAT table
  DHCPEnabled,  \* cfg.DHCP.Enabled
  MaxProcs,     \* process identities (PID + kernel start time) to choose from
  Budget        \* how often each kind of bad luck or request may happen

Kinds == {"faults", "crashes", "restarts", "deaths", "reuses", "requests"}

ASSUME LifecycleAssumption ==
  /\ NoClient \notin Clients
  /\ SameLAN \in BOOLEAN /\ DHCPEnabled \in BOOLEAN
  /\ MaxProcs \in Nat
  /\ Budget \in [Kinds -> Nat]

Services == {"mihomo", "dnsmasq", "smartdns"}
ProcIds  == 1..MaxProcs

(* Kernel objects.  "forwarding": ip_forward was raised; "nat": the owned  *)
(* nftables table; "rule": the ip rules (guard and selector); "tunroute":  *)
(* the default route through the TUN, which vanishes with mihomo's TUN.    *)
RoutingPieces == {"rule", "tunroute"}
Pieces        == {"forwarding", "nat"} \cup RoutingPieces
Effects       == {"forwarding", "nat", "routing"}

\* dhcp.ShouldRun: same-LAN keeps dnsmasq as local DNS even without DHCP.
ShouldRunDNSMasq == DHCPEnabled \/ SameLAN

----------------------------------------------------------------------------
(* runtime.State: pid[s] is the recorded PID with its fingerprint ("known" *)
(* is FALSE when the fingerprint is blank), flags the *Applied booleans,   *)
(* intents the NetworkSnapshot.Applied set that cleanup obeys.             *)

Track   == [id: 0..MaxProcs, known: BOOLEAN]
NoTrack == [id |-> 0, known |-> FALSE]

State == [lifecycle: {"none", "starting", "running", "stopping", "cleanup"},
          ns: Nat, pid: [Services -> Track],
          flags: SUBSET Effects, intents: SUBSET Effects, fwdBefore: BOOLEAN]

\* No state file.
NoState == [lifecycle |-> "none", ns |-> 0, pid |-> [s \in Services |-> NoTrack],
            flags |-> {}, intents |-> {}, fwdBefore |-> FALSE]

Exists(s) == s.lifecycle # "none"

StartPCs   == {"prepare", "snapshot", "save_starting", "forwarding", "save_forwarding",
               "mihomo", "save_mihomo", "dnsmasq", "save_dnsmasq", "tun", "nat", "save_nat",
               "routing", "save_routing", "smartdns", "save_smartdns"}
DownPCs    == {"stop_begin", "stopping", "rollback", "down_smartdns", "down_network",
               "down_dnsmasq", "down_mihomo", "clear"}
RestartPCs == {"mark", "stop_old", "spawn", "record", "routes", "commit", "unwind"}
PCs        == {"idle"} \cup StartPCs \cup DownPCs \cup RestartPCs
Commands   == {"none", "start", "stop", "reload", "restart-mihomo", "restart-dnsmasq", "recover"}

(* The command in flight.  then: what a successful teardown continues with;*)
(* failed: cleanupErr # nil; prev, prevRouting: previousPID, its           *)
(* fingerprint and previousRoutingApplied of a restart.                    *)
Op   == [cmd: Commands, pc: PCs, then: {"finish", "start"}, failed: BOOLEAN,
         prev: Track, prevRouting: BOOLEAN]
NoOp == [cmd |-> "none", pc |-> "idle", then |-> "finish", failed |-> FALSE,
         prev |-> NoTrack, prevRouting |-> FALSE]

VARIABLES
  holder,   \* the client that holds the lifecycle flock
  op,       \* its command
  mem,      \* its in-memory runtime.State
  want,     \* per client: a command whose intent is saved, lock not yet taken
  desired,  \* gateway-desired.json
  applied,  \* the applied device-policy snapshot file exists
  journal,  \* state.json
  ns,       \* the current network namespace
  net,      \* OpenSurge's kernel objects in it
  proc,     \* what runs under each process identity
  budget    \* what is left of Budget

vars == <<holder, op, mem, want, desired, applied, journal, ns, net, proc, budget>>
disk == <<desired, applied, journal>>

TypeOK ==
  /\ holder \in Clients \cup {NoClient}
  /\ op \in Op
  /\ mem \in State
  /\ want \in [Clients -> {"none", "start", "stop"}]
  /\ desired \in {"unset", "running", "stopped"}
  /\ applied \in BOOLEAN
  /\ journal \in State
  /\ ns \in Nat
  /\ net \in SUBSET Pieces
  /\ proc \in [ProcIds -> Services \cup {"free", "stranger"}]
  /\ budget \in [Kinds -> Nat]

Init ==
  /\ holder = NoClient /\ op = NoOp /\ mem = NoState
  /\ want = [c \in Clients |-> "none"]
  /\ desired = "unset" /\ applied = FALSE /\ journal = NoState
  /\ ns = 1 /\ net = {}
  /\ proc = [i \in ProcIds |-> "free"]
  /\ budget = Budget

----------------------------------------------------------------------------
(* Helpers.                                                                *)

Spend(k) == budget[k] > 0 /\ budget' = [budget EXCEPT ![k] = @ - 1]

Goto(p)     == op' = [op EXCEPT !.pc = p]
GotoFail(p) == op' = [op EXCEPT !.pc = p, !.failed = TRUE]

\* The command returns: the deferred Release drops the flock.
Finish == holder' = NoClient /\ op' = NoOp /\ mem' = NoState

\* (mutant) Every recorded state is taken for one of this boot.
BelongsToAnyBoot(s) == s.ns > 0

\* State.BelongsToBoot
BelongsToBoot(s) == s.ns = ns

Gone(t)    == t.id # 0 => proc[t.id] = "free"
\* (mutant) The PID alone is the identity.
MatchesPIDOnly(t) == t.id # 0 /\ proc[t.id] # "free"

\* What Stop would signal: the fingerprinted process, or, with a blank
\* fingerprint, whatever holds the PID.
Matches(t) == t.id # 0 /\ proc[t.id] \in (IF t.known THEN Services ELSE Services \cup {"stranger"})
Refuses(t) == t.known /\ t.id # 0 /\ proc[t.id] = "stranger"

\* trackedProcessRunning
Running(t) == Matches(t)

\* PolicyRoutingPresent
RoutingPresent == RoutingPieces \subseteq net

\* Manager.Status reports Gateway "running" and RuntimeState "active".
StatusRunning ==
  /\ journal.lifecycle = "running" /\ BelongsToBoot(journal)
  /\ \A s \in {"mihomo", "smartdns"} : Running(journal.pid[s])
  /\ ShouldRunDNSMasq => Running(journal.pid["dnsmasq"])
  /\ "routing" \in journal.flags \cap journal.intents
  /\ RoutingPresent

\* The TUN and the route through it live as long as a mihomo process.
KeepTUNRoute(p, n) == IF \E i \in ProcIds : p[i] = "mihomo" THEN n ELSE n \ {"tunroute"}

Kill(i) == /\ proc' = [proc EXCEPT ![i] = "free"]
           /\ net' = KeepTUNRoute(proc', net)

Recorded(s) == {s.pid[x].id : x \in Services}
FreshIds    == {i \in ProcIds : proc[i] = "free"} \ (Recorded(journal) \cup Recorded(mem) \cup {op.prev.id})
NextId      == CHOOSE i \in FreshIds : TRUE

\* (mutants) Only what was applied is journaled, or something Restore does not know.
WriteBehind(s)   == [s EXCEPT !.intents = s.flags]
WriteUnknown(s)  == [s EXCEPT !.intents = Effects \cup {"rp_filter"}]

\* prepareWriteAheadJournal: every save journals the intent to undo all that
\* the recipe may do, before it is done.
WriteAhead(s) == [s EXCEPT !.intents = {"forwarding", "routing"} \cup (IF SameLAN THEN {} ELSE {"nat"})]

\* SaveState (temp file, fsync, rename, directory fsync).  It fails before
\* the rename or after it.  The marks reach the caller's copy (a pointer).
Save == journal' = WriteAhead(mem) /\ UNCHANGED budget
SaveFails == /\ Spend("faults")
             /\ journal' \in {journal, WriteAhead(mem)}

\* stopTrackedProcess
StopTracked(t) ==
  /\ UNCHANGED budget
  /\ \/ Gone(t) /\ UNCHANGED <<proc, net>>
     \/ Matches(t) /\ Kill(t.id)
StopTrackedFails(t) ==
  /\ ~Gone(t)
  /\ UNCHANGED <<proc, net>>
  /\ \/ Refuses(t) /\ UNCHANGED budget
     \/ Spend("faults")     \* the probe of the identity or the signal fails

----------------------------------------------------------------------------
(* Taking the lock.                                                        *)

Take(c, command, pc, then, m) ==
  /\ holder = NoClient
  /\ holder' = c
  /\ op' = [NoOp EXCEPT !.cmd = command, !.pc = pc, !.then = then]
  /\ mem' = m

\* ContainerRunner.Run saves the intent of start and stop before, and outside, the lock.
RequestStart(c) ==
  /\ want[c] = "none" /\ holder # c /\ Spend("requests")
  /\ desired' = "running" /\ want' = [want EXCEPT ![c] = "start"]
  /\ UNCHANGED <<holder, op, mem, applied, journal, ns, net, proc>>

RequestStop(c) ==
  /\ want[c] = "none" /\ holder # c /\ Spend("requests")
  /\ desired' = "stopped" /\ want' = [want EXCEPT ![c] = "stop"]
  /\ UNCHANGED <<holder, op, mem, applied, journal, ns, net, proc>>

\* ErrLifecycleOperationInProgress, or start finding a state file.
Refused(c) ==
  /\ \/ want[c] # "none" /\ holder # NoClient
     \/ want[c] = "start" /\ Exists(journal)
  /\ want' = [want EXCEPT ![c] = "none"]
  /\ UNCHANGED <<holder, op, mem, disk, ns, net, proc, budget>>

\* (mutant) A state file does not keep start from starting.
BeginStartAnyway(c) ==
  /\ want[c] = "start"
  /\ Take(c, "start", "prepare", "finish", NoState)
  /\ want' = [want EXCEPT ![c] = "none"]
  /\ UNCHANGED <<disk, ns, net, proc, budget>>

BeginStart(c) ==
  /\ want[c] = "start" /\ ~Exists(journal)
  /\ Take(c, "start", "prepare", "finish", NoState)
  /\ want' = [want EXCEPT ![c] = "none"]
  /\ UNCHANGED <<disk, ns, net, proc, budget>>

BeginStop(c) ==
  /\ want[c] = "stop"
  /\ Take(c, "stop", "stop_begin", "finish", NoState)
  /\ want' = [want EXCEPT ![c] = "none"]
  /\ UNCHANGED <<disk, ns, net, proc, budget>>

\* reload up to its stop: a degraded gateway is refused.
BeginReload(c) ==
  /\ want[c] = "none" /\ Spend("requests")
  /\ Exists(journal) /\ BelongsToBoot(journal)
  /\ \A s \in {"mihomo", "smartdns"} : Running(journal.pid[s])
  /\ DHCPEnabled => Running(journal.pid["dnsmasq"])
  /\ Take(c, "reload", "stop_begin", "start", NoState)
  /\ UNCHANGED <<want, disk, ns, net, proc>>

\* restartMihomo up to the save that marks the restart.
BeginRestartMihomo(c) ==
  /\ want[c] = "none" /\ Spend("requests")
  /\ journal.lifecycle = "running" /\ BelongsToBoot(journal)
  /\ Running(journal.pid["smartdns"])
  /\ ShouldRunDNSMasq => Running(journal.pid["dnsmasq"])
  /\ holder = NoClient /\ holder' = c
  /\ op' = [NoOp EXCEPT !.cmd = "restart-mihomo", !.pc = "mark",
                        !.prev = journal.pid["mihomo"],
                        !.prevRouting = "routing" \in journal.flags]
  /\ mem' = [journal EXCEPT !.pid["mihomo"] = NoTrack, !.flags = @ \ {"routing"}]
  /\ UNCHANGED <<want, disk, ns, net, proc>>

\* restartDNSMasq up to the save that marks the restart.  previousRunning is
\* also FALSE when the identity of a live dnsmasq cannot be read.
BeginRestartDNSMasq(c) ==
  /\ want[c] = "none" /\ holder = NoClient /\ holder' = c
  /\ Exists(journal) /\ BelongsToBoot(journal)
  /\ \E previousRunning \in {Running(journal.pid["dnsmasq"]), FALSE} :
       /\ IF previousRunning = Running(journal.pid["dnsmasq"])
          THEN Spend("requests")
          ELSE /\ journal.pid["dnsmasq"].known /\ budget["requests"] > 0 /\ budget["faults"] > 0
               /\ budget' = [budget EXCEPT !["requests"] = @ - 1, !["faults"] = @ - 1]
       /\ op' = [NoOp EXCEPT !.cmd = "restart-dnsmasq", !.pc = "mark",
                   !.prev = IF previousRunning THEN journal.pid["dnsmasq"] ELSE NoTrack]
  /\ mem' = [journal EXCEPT !.pid["dnsmasq"] = NoTrack]
  /\ UNCHANGED <<want, disk, ns, net, proc>>

\* RecoverAfterContainerRestart: a missing desired-state file is inferred from
\* the journal; a healthy or rightly stopped gateway is left alone.
Intent == IF desired = "unset" THEN (IF Exists(journal) THEN "running" ELSE "stopped") ELSE desired

\* (mutant) A running engine is taken for a running gateway.
EngineRuns == IF Exists(journal) THEN Intent = "running" /\ Running(journal.pid["mihomo"])
                                 ELSE Intent = "stopped"

NothingToRecover == IF Exists(journal) THEN Intent = "running" /\ StatusRunning
                                       ELSE Intent = "stopped"

BeginRecover(c) ==
  /\ want[c] = "none"
  /\ desired' = Intent
  /\ \/ ~NothingToRecover /\ UNCHANGED budget
     \/ NothingToRecover /\ Exists(journal) /\ Spend("faults")   \* the status probe fails
  /\ Take(c, "recover", IF ~Exists(journal) THEN "prepare" ELSE IF BelongsToBoot(journal) THEN "stop_begin" ELSE "clear",
          IF Exists(journal) /\ Intent = "running" THEN "start" ELSE "finish", NoState)
  /\ UNCHANGED <<want, applied, journal, ns, net, proc>>

RecoverNothing(c) ==
  /\ want[c] = "none" /\ holder = NoClient
  /\ NothingToRecover
  /\ desired' = Intent
  /\ UNCHANGED <<holder, op, mem, want, applied, journal, ns, net, proc, budget>>

----------------------------------------------------------------------------
(* startWithCommit.                                                        *)

Active(pc) == holder # NoClient /\ op.pc = pc

\* Everything before the first durable effect: validation, the prepared
\* engine, preflight (which refuses rules, routes and a table that are already
\* there), the rendered configuration.
Prepare ==
  /\ Active("prepare")
  /\ net \cap {"rule", "tunroute", "nat"} = {}
  /\ op' = [op EXCEPT !.pc = "snapshot", !.then = "finish"]
  /\ UNCHANGED <<holder, mem, want, disk, ns, net, proc, budget>>

PrepareFails ==
  /\ Active("prepare")
  /\ \/ net \cap {"rule", "tunroute", "nat"} # {} /\ UNCHANGED budget
     \/ Spend("faults")
  /\ Finish
  /\ UNCHANGED <<want, disk, ns, net, proc>>

\* The applied policy snapshot, then the network snapshot and the first state.
Snapshot ==
  /\ Active("snapshot")
  /\ applied' = TRUE
  /\ Goto("save_starting")
  /\ mem' = [NoState EXCEPT !.lifecycle = "starting", !.ns = ns, !.fwdBefore = "forwarding" \in net]
  /\ UNCHANGED <<holder, want, desired, journal, ns, net, proc, budget>>

\* A failing backend.Snapshot returns with the policy file written.
SnapshotFails ==
  /\ Active("snapshot") /\ Spend("faults")
  /\ applied' \in {applied, TRUE}
  /\ Finish
  /\ UNCHANGED <<want, desired, journal, ns, net, proc>>

SaveStartingFails ==
  /\ Active("save_starting") /\ Spend("faults")
  /\ journal' \in {journal, WriteAhead(mem)}
  /\ applied' = FALSE
  /\ Finish
  /\ UNCHANGED <<want, desired, ns, net, proc>>

AfterSave == [save_starting   |-> "forwarding",
              save_forwarding |-> "mihomo",
              save_mihomo     |-> "dnsmasq",
              save_dnsmasq    |-> "tun",
              save_nat        |-> "routing",
              save_routing    |-> "smartdns"]

SaveStep ==
  /\ holder # NoClient /\ op.pc \in DOMAIN AfterSave
  /\ Save /\ mem' = WriteAhead(mem)
  /\ Goto(AfterSave[op.pc])
  /\ UNCHANGED <<holder, want, desired, applied, ns, net, proc>>

SaveStepFails ==
  /\ holder # NoClient /\ op.pc \in DOMAIN AfterSave \ {"save_starting"}
  /\ SaveFails /\ mem' = WriteAhead(mem)
  /\ Goto("rollback")
  /\ UNCHANGED <<holder, want, desired, applied, ns, net, proc>>

EnableForwarding ==
  /\ Active("forwarding")
  /\ net' = net \cup {"forwarding"}
  /\ mem' = [mem EXCEPT !.flags = @ \cup {"forwarding"}]
  /\ Goto("save_forwarding")
  /\ UNCHANGED <<holder, want, disk, ns, proc, budget>>

\* A step of start that fails before it changed anything, or ctx cancelled.
StepFails ==
  /\ holder # NoClient /\ op.pc \in {"forwarding", "mihomo", "dnsmasq", "tun", "nat", "smartdns"}
  /\ \/ Spend("faults")
     \/ op.pc \in Services /\ FreshIds = {} /\ UNCHANGED budget
     \/ op.pc = "tun" /\ (\A i \in ProcIds : proc[i] # "mihomo") /\ UNCHANGED budget
  /\ Goto("rollback")
  /\ UNCHANGED <<holder, mem, want, disk, ns, net, proc>>

SaveOf == [mihomo |-> "save_mihomo", dnsmasq |-> "save_dnsmasq", smartdns |-> "save_smartdns"]

\* A service starts and its fingerprint is read.
StartService(s) ==
  /\ Active(s)
  /\ IF s = "dnsmasq" /\ ~ShouldRunDNSMasq
     THEN UNCHANGED <<proc, mem>>
     ELSE /\ FreshIds # {}
          /\ proc' = [proc EXCEPT ![NextId] = s]
          /\ mem' = [mem EXCEPT !.pid[s] = [id |-> NextId, known |-> TRUE],
                                !.lifecycle = IF s = "smartdns" THEN "running" ELSE @]
  /\ Goto(SaveOf[s])
  /\ UNCHANGED <<holder, want, disk, ns, net, budget>>

\* It starts, but its fingerprint cannot be read, or it is already gone:
\* rollback is entered with its PID and a blank fingerprint.
StartServiceUnidentified(s) ==
  /\ Active(s)
  /\ s = "dnsmasq" => ShouldRunDNSMasq
  /\ FreshIds # {}
  /\ \/ Spend("faults") /\ proc' = [proc EXCEPT ![NextId] = s]
     \/ Spend("deaths") /\ UNCHANGED proc
  /\ mem' = [mem EXCEPT !.pid[s] = [id |-> NextId, known |-> FALSE]]
  /\ Goto("rollback")
  /\ UNCHANGED <<holder, want, disk, ns, net>>

\* WaitForTUN and the save of the recipe with the device it found.
WaitForTUN ==
  /\ Active("tun")
  /\ \E i \in ProcIds : proc[i] = "mihomo"
  /\ \/ Save /\ Goto(IF SameLAN THEN "routing" ELSE "nat")
     \/ SaveFails /\ Goto("rollback")
  /\ mem' = WriteAhead(mem)
  /\ UNCHANGED <<holder, want, desired, applied, ns, net, proc>>

SetupNAT ==
  /\ Active("nat")
  /\ net' = net \cup {"nat"}
  /\ mem' = [mem EXCEPT !.flags = @ \cup {"nat"}]
  /\ Goto("save_nat")
  /\ UNCHANGED <<holder, want, disk, ns, proc, budget>>

\* (mutant) Routing is applied and not saved.
SetupPolicyRoutingUnsaved ==
  /\ Active("routing")
  /\ \E i \in ProcIds : proc[i] = "mihomo"
  /\ net' = net \cup RoutingPieces
  /\ mem' = [mem EXCEPT !.flags = @ \cup {"routing"}]
  /\ Goto("smartdns")
  /\ UNCHANGED <<holder, want, disk, ns, proc, budget>>

\* SetupPolicyRouting and verifyPolicyRouting.
SetupPolicyRouting ==
  /\ Active("routing")
  /\ \E i \in ProcIds : proc[i] = "mihomo"
  /\ net' = net \cup RoutingPieces
  /\ mem' = [mem EXCEPT !.flags = @ \cup {"routing"}]
  /\ Goto("save_routing")
  /\ UNCHANGED <<holder, want, disk, ns, proc, budget>>

\* One of its commands fails, and always the route when the TUN is gone.
SetupPolicyRoutingFails ==
  /\ Active("routing")
  /\ \/ Spend("faults") /\ \E S \in SUBSET RoutingPieces : net' = KeepTUNRoute(proc, net \cup S)
     \/ /\ \A i \in ProcIds : proc[i] # "mihomo"
        /\ net' = net \cup {"rule"} /\ UNCHANGED budget
  /\ Goto("rollback")
  /\ UNCHANGED <<holder, mem, want, disk, ns, proc>>

\* Lifecycle "running" is saved with the PID of SmartDNS.
SaveRunning ==
  /\ Active("save_smartdns")
  /\ \/ Save /\ Finish
     \/ SaveFails /\ mem' = WriteAhead(mem) /\ Goto("rollback") /\ UNCHANGED holder
  /\ UNCHANGED <<want, desired, applied, ns, net, proc>>

----------------------------------------------------------------------------
(* rollback and stop.  They share the teardown: SmartDNS, the network,     *)
(* dnsmasq, mihomo; every step is tried whatever the earlier ones did, and *)
(* the journal is removed only when none failed.                           *)

\* (mutant) The applied policy goes first.
RollbackPolicyFirst ==
  /\ Active("rollback")
  /\ LET m == [mem EXCEPT !.lifecycle = "cleanup"] IN
     /\ mem' = WriteAhead(m)
     /\ \/ journal' = WriteAhead(m) /\ UNCHANGED budget /\ Goto("down_smartdns")
        \/ Spend("faults") /\ journal' \in {journal, WriteAhead(m)} /\ GotoFail("down_smartdns")
  /\ applied' = FALSE
  /\ UNCHANGED <<holder, want, desired, ns, net, proc>>

Rollback ==
  /\ Active("rollback")
  /\ LET m == [mem EXCEPT !.lifecycle = "cleanup"] IN
     /\ mem' = WriteAhead(m)
     /\ \/ journal' = WriteAhead(m) /\ UNCHANGED budget /\ Goto("down_smartdns")
        \/ Spend("faults") /\ journal' \in {journal, WriteAhead(m)} /\ GotoFail("down_smartdns")
  /\ UNCHANGED <<holder, want, desired, applied, ns, net, proc>>


\* stop: the prepared engine is released, the state loaded.  A state of an
\* earlier boot is only cleared: its namespace, and with it the recorded
\* network state, is gone, and its PIDs are never signalled.
StopBegin ==
  /\ Active("stop_begin")
  /\ IF ~Exists(journal) \/ ~BelongsToBoot(journal)
     THEN Goto("clear") /\ UNCHANGED mem
     ELSE Goto("stopping") /\ mem' = [journal EXCEPT !.lifecycle = "stopping"]
  /\ UNCHANGED <<holder, want, disk, ns, net, proc, budget>>

StopBeginFails ==
  /\ Active("stop_begin") /\ Spend("faults")
  /\ Finish
  /\ UNCHANGED <<want, disk, ns, net, proc>>

\* (mutant) It is not marked.
SaveStoppingSkipped ==
  /\ Active("stopping")
  /\ Goto("down_smartdns") /\ mem' = WriteAhead(mem)
  /\ UNCHANGED <<holder, want, disk, ns, net, proc, budget>>

\* The teardown is marked in the journal before anything is touched.
SaveStopping ==
  /\ Active("stopping")
  /\ \/ Save /\ Goto("down_smartdns") /\ mem' = WriteAhead(mem) /\ UNCHANGED holder
     \/ SaveFails /\ Finish
  /\ UNCHANGED <<want, desired, applied, ns, net, proc>>

AfterDown == [down_smartdns |-> "down_network", down_dnsmasq |-> "down_mihomo", down_mihomo |-> "clear"]
DownOf    == [down_smartdns |-> "smartdns", down_dnsmasq |-> "dnsmasq", down_mihomo |-> "mihomo"]

DownService ==
  /\ holder # NoClient /\ op.pc \in DOMAIN AfterDown
  /\ LET t == mem.pid[DownOf[op.pc]] IN
     \/ StopTracked(t) /\ Goto(AfterDown[op.pc])
     \/ StopTrackedFails(t) /\ GotoFail(AfterDown[op.pc])
  /\ UNCHANGED <<holder, mem, want, disk, ns>>

\* What Restore removes, from the journaled intents.
Undone == (IF "routing" \in mem.intents THEN RoutingPieces ELSE {})
          \cup (IF "nat" \in mem.intents THEN {"nat"} ELSE {})
          \cup (IF "forwarding" \in mem.intents /\ ~mem.fwdBefore THEN {"forwarding"} ELSE {})

\* (mutant) A failing Restore is only logged.
RestoreForgetsFailure ==
  /\ Active("down_network")
  /\ \/ net' = net \ Undone /\ UNCHANGED budget
     \/ Spend("faults") /\ \E S \in SUBSET Undone : net' = net \ S
  /\ Goto("down_dnsmasq")
  /\ UNCHANGED <<holder, mem, want, disk, ns, proc>>

\* Backend.Restore: a failing part does not stop the others.
RestoreNetwork ==
  /\ Active("down_network")
  /\ \/ net' = net \ Undone /\ UNCHANGED budget /\ Goto("down_dnsmasq")
     \/ /\ Spend("faults")
        /\ \E S \in SUBSET Undone : net' = net \ S
        /\ GotoFail("down_dnsmasq")
  /\ UNCHANGED <<holder, mem, want, disk, ns, proc>>

\* (mutant) The teardown is tried again and again.
ClearFailedRetries ==
  /\ Active("clear") /\ op.failed
  /\ Goto("down_smartdns")
  /\ UNCHANGED <<holder, mem, want, disk, ns, net, proc, budget>>

ClearFailed ==
  /\ Active("clear") /\ op.failed
  /\ Finish
  /\ UNCHANGED <<want, disk, ns, net, proc, budget>>

\* removeState, RemovePolicyBundleSnapshot; reload and recover go on to start.
Clear ==
  /\ Active("clear") /\ ~op.failed
  /\ journal' = NoState /\ applied' = FALSE
  /\ IF op.then = "start"
     THEN Goto("prepare") /\ mem' = NoState /\ UNCHANGED holder
     ELSE Finish
  /\ UNCHANGED <<want, desired, ns, net, proc, budget>>

ClearFails ==
  /\ Active("clear") /\ ~op.failed /\ Spend("faults")
  /\ journal' \in {journal, NoState} /\ applied' \in {applied, FALSE}
  /\ Finish
  /\ UNCHANGED <<want, desired, ns, net, proc>>

----------------------------------------------------------------------------
(* restart-mihomo and restart-dnsmasq.                                     *)

Restarted == IF op.cmd = "restart-mihomo" THEN "mihomo" ELSE "dnsmasq"

\* PID 0 and unapplied routing are saved before the process is touched.
MarkRestart ==
  /\ Active("mark")
  /\ \/ Save /\ mem' = WriteAhead(mem) /\ Goto("stop_old") /\ UNCHANGED holder
     \/ SaveFails /\ Finish
  /\ UNCHANGED <<want, desired, applied, ns, net, proc>>

\* (mutant) The replacement is started beside the old process.
StopOldSkipped ==
  /\ Active("stop_old")
  /\ Goto("spawn")
  /\ UNCHANGED <<holder, mem, want, disk, ns, net, proc, budget>>

StopOld ==
  /\ Active("stop_old")
  /\ StopTracked(op.prev)
  /\ Goto("spawn")
  /\ UNCHANGED <<holder, mem, want, disk, ns>>

\* The old process goes back into the state only when it is seen running; a
\* second failing probe reads as not running.
StopOldFails ==
  /\ Active("stop_old")
  /\ StopTrackedFails(op.prev)
  /\ mem' = [mem EXCEPT !.pid[Restarted] = IF Running(op.prev) THEN op.prev ELSE NoTrack,
                        !.flags = IF Running(op.prev) /\ op.prevRouting THEN @ \cup {"routing"} ELSE @]
  /\ Goto("unwind")
  /\ UNCHANGED <<holder, want, disk, ns>>

StopOldFailsTwice ==
  /\ Active("stop_old")
  /\ ~Gone(op.prev) /\ op.prev.known /\ budget["faults"] > 1
  /\ budget' = [budget EXCEPT !["faults"] = @ - 2]
  /\ Goto("unwind")
  /\ UNCHANGED <<holder, mem, want, disk, ns, net, proc>>

Unwind ==
  /\ Active("unwind")
  /\ Save \/ SaveFails
  /\ Finish
  /\ UNCHANGED <<want, desired, applied, ns, net, proc>>

\* The log is archived and the replacement started.
SpawnNew ==
  /\ Active("spawn")
  /\ Restarted = "dnsmasq" => ShouldRunDNSMasq
  /\ FreshIds # {}
  /\ proc' = [proc EXCEPT ![NextId] = Restarted]
  /\ mem' = [mem EXCEPT !.pid[Restarted] = [id |-> NextId, known |-> FALSE]]
  /\ Goto("record")
  /\ UNCHANGED <<holder, want, disk, ns, net, budget>>

\* No live PID, or a failing archive or start: the journal keeps PID 0.
SpawnNewFails ==
  /\ Active("spawn")
  /\ \/ Spend("faults")
     \/ Restarted = "dnsmasq" /\ ~ShouldRunDNSMasq /\ UNCHANGED budget
     \/ FreshIds = {} /\ UNCHANGED budget
  /\ Finish
  /\ UNCHANGED <<want, disk, ns, net, proc>>

\* Stop(newPID) without a journaled PID: it may fail and leave the process.
StopNew == LET t == mem.pid[Restarted] IN
  IF Gone(t) THEN UNCHANGED <<proc, net>> ELSE Kill(t.id)

\* The replacement's fingerprint cannot be read, or it is already gone.
NewUnidentified ==
  /\ Active("record")
  /\ \/ Gone(mem.pid[Restarted]) /\ UNCHANGED <<proc, net, budget>>
     \/ Spend("faults") /\ StopNew
     \/ /\ ~Gone(mem.pid[Restarted]) /\ budget["faults"] > 1
        /\ budget' = [budget EXCEPT !["faults"] = @ - 2]
        /\ UNCHANGED <<proc, net>>
  /\ Finish
  /\ UNCHANGED <<want, disk, ns>>

\* The fingerprint is read and saved with the PID.
Identified == [mem EXCEPT !.pid[Restarted].known = TRUE]

RecordNew ==
  /\ Active("record")
  /\ journal' = WriteAhead(Identified) /\ UNCHANGED budget
  /\ IF op.cmd = "restart-mihomo"
     THEN Goto("routes") /\ mem' = WriteAhead(Identified) /\ UNCHANGED holder
     ELSE Finish
  /\ UNCHANGED <<want, desired, applied, ns, net, proc>>

RecordNewFails ==
  /\ Active("record")
  /\ Spend("faults") /\ journal' \in {journal, WriteAhead(Identified)}
  /\ StopNew
  /\ Finish
  /\ UNCHANGED <<want, desired, applied, ns>>

\* reapplyPolicyRouting with the persisted recipe.
ReapplyRouting ==
  /\ Active("routes")
  /\ \E i \in ProcIds : proc[i] = "mihomo"
  /\ net' = net \cup RoutingPieces
  /\ mem' = [mem EXCEPT !.flags = @ \cup {"routing"}]
  /\ Goto("commit")
  /\ UNCHANGED <<holder, want, disk, ns, proc, budget>>

\* No TUN, or a failing command: the replacement is stopped, and stays
\* recorded when it cannot be.
ReapplyRoutingFails ==
  /\ Active("routes")
  /\ LET t     == mem.pid["mihomo"]
         noTUN == \A i \in ProcIds : proc[i] # "mihomo"
         Failing(n, p, m, added) ==
           /\ budget["faults"] >= n
           /\ budget' = [budget EXCEPT !["faults"] = @ - n]
           /\ proc' = p /\ mem' = m
           /\ net' = KeepTUNRoute(p, net \cup added)
         stopped  == IF Gone(t) THEN proc ELSE [proc EXCEPT ![t.id] = "free"]
         degraded == [mem EXCEPT !.pid["mihomo"] = NoTrack, !.flags = @ \ {"routing"}]
     IN \/ noTUN /\ Failing(0, stopped, degraded, {})
        \/ \E S \in SUBSET RoutingPieces :
             \/ Failing(1, stopped, degraded, S)
             \/ ~Gone(t) /\ Failing(2, proc, mem, S)
  /\ Goto("unwind")
  /\ UNCHANGED <<holder, want, disk, ns>>

\* The final save; when it fails the replacement keeps running.
CommitRouting ==
  /\ Active("commit")
  /\ Save \/ SaveFails
  /\ Finish
  /\ UNCHANGED <<want, desired, applied, ns, net, proc>>

----------------------------------------------------------------------------
(* The environment.                                                        *)

\* The client is killed.  Its services run on (Setpgid) and the flock drops.
Crash ==
  /\ holder # NoClient /\ Spend("crashes")
  /\ Finish
  /\ UNCHANGED <<want, disk, ns, net, proc>>

\* A new container on the same /data: nothing survives but the disk.
ContainerRestart ==
  /\ Spend("restarts")
  /\ ns' = ns + 1 /\ net' = {}
  /\ proc' = [i \in ProcIds |-> "free"]
  /\ Finish
  /\ want' = [c \in Clients |-> "none"]
  /\ UNCHANGED disk

ProcessDies ==
  /\ \E i \in ProcIds : proc[i] \in Services /\ Kill(i)
  /\ Spend("deaths")
  /\ UNCHANGED <<holder, op, mem, want, disk, ns>>

\* The kernel gives a journaled PID of a process that is gone to a stranger.
PIDReused ==
  /\ \E i \in Recorded(journal) \ {0} :
       proc[i] = "free" /\ proc' = [proc EXCEPT ![i] = "stranger"]
  /\ Spend("reuses")
  /\ UNCHANGED <<holder, op, mem, want, disk, ns, net>>

----------------------------------------------------------------------------
StartStep ==
  \/ Prepare \/ PrepareFails \/ Snapshot \/ SnapshotFails \/ SaveStartingFails
  \/ SaveStep \/ SaveStepFails \/ EnableForwarding \/ StepFails
  \/ \E s \in Services : StartService(s) \/ StartServiceUnidentified(s)
  \/ WaitForTUN \/ SetupNAT \/ SetupPolicyRouting \/ SetupPolicyRoutingFails \/ SaveRunning

StopStep ==
  \/ Rollback \/ StopBegin \/ StopBeginFails \/ SaveStopping \/ DownService
  \/ RestoreNetwork \/ ClearFailed \/ Clear \/ ClearFails

RestartStep ==
  \/ MarkRestart \/ StopOld \/ StopOldFails \/ StopOldFailsTwice \/ Unwind
  \/ SpawnNew \/ SpawnNewFails \/ NewUnidentified \/ RecordNew \/ RecordNewFails
  \/ ReapplyRouting \/ ReapplyRoutingFails \/ CommitRouting

\* A step of the command that holds the lock.
OpStep == StartStep \/ StopStep \/ RestartStep

Begin(c) ==
  \/ RequestStart(c) \/ RequestStop(c) \/ Refused(c)
  \/ BeginStart(c) \/ BeginStop(c) \/ BeginReload(c)
  \/ BeginRestartMihomo(c) \/ BeginRestartDNSMasq(c)
  \/ BeginRecover(c) \/ RecoverNothing(c)

Environment == Crash \/ ContainerRestart \/ ProcessDies \/ PIDReused

Next == OpStep \/ (\E c \in Clients : Begin(c)) \/ Environment

Spec == Init /\ [][Next]_vars

----------------------------------------------------------------------------
(* Properties.                                                             *)

\* Without a state file there is nothing of OpenSurge left in the kernel: no
\* rule, route or table, and forwarding as it was.  The write-ahead journal and
\* the order "restore, then remove the state" exist for this, across failed
\* steps, killed clients and restarts.
NoResidueWithoutJournal == ~Exists(journal) => net = {}

\* A journal that says "running" tells the truth about the kernel whatever
\* happened between two saves: forwarding and NAT are on, and routing marked
\* applied is there unless the recorded mihomo took its TUN route with it.
\* restart-mihomo marks routing unapplied, and stop marks the teardown, before
\* touching anything.  Up to the second failing step: a last save of start that
\* fails after its rename, and the failing first save of its rollback, leave a
\* journal that says "running" while the rollback dismantles the network.
RunningJournalHonest ==
  journal.lifecycle = "running" /\ BelongsToBoot(journal) /\ budget["faults"] + 1 >= Budget["faults"] =>
    /\ "forwarding" \in net
    /\ ~SameLAN => "nat" \in net
    /\ "routing" \in journal.flags =>
         /\ "rule" \in net
         /\ Running(journal.pid["mihomo"]) => "tunroute" \in net

\* A gateway recorded as running always has the device policy it applied on
\* disk; rollback and stop remove both, in that order.
RunningKeepsAppliedPolicy ==
  journal.lifecycle = "running" /\ BelongsToBoot(journal) => applied

\* Every service process is known to the journal of this boot or to the command
\* in flight, so that stop can find it, as long as no client is killed and no
\* probe or save fails: restarts and rollbacks never lose one on the way.
EveryProcessAccountedFor ==
  budget["faults"] = Budget["faults"] /\ budget["crashes"] = Budget["crashes"] =>
    \A i \in ProcIds : proc[i] \in Services =>
      \/ BelongsToBoot(journal) /\ i \in Recorded(journal)
      \/ holder # NoClient /\ i \in Recorded(mem) \cup {op.prev.id}

Spawned(s) == \E i \in ProcIds : proc[i] # s /\ proc'[i] = s

\* The LAN DNS front door opens last: when SmartDNS starts, the journal already
\* records forwarding, NAT and routing as applied and the other services by PID
\* and fingerprint, and the ip rules are in the kernel.
FrontDoorOpensLast ==
  [][Spawned("smartdns") =>
       /\ journal.flags = (IF SameLAN THEN Effects \ {"nat"} ELSE Effects)
       /\ journal.pid["mihomo"].known
       /\ ShouldRunDNSMasq => journal.pid["dnsmasq"].known
       /\ "rule" \in net]_vars

Signalled(i) == proc[i] = "stranger" /\ proc'[i] # "stranger" /\ ns' = ns

\* A stranger that took a recorded PID is signalled only when the PID was
\* recorded without a fingerprint, or by a restart that stops the replacement
\* it has just started by its PID alone.
StrangerSafeOnceIdentified ==
  [][\A i \in ProcIds : Signalled(i) =>
       \/ [id |-> i, known |-> FALSE] \in {mem.pid[s] : s \in Services} \cup {op.prev}
       \/ op.pc \in {"record", "routes"}]_vars

\* A state of an earlier namespace is reconciled without signalling its PIDs,
\* with or without a fingerprint.
EarlierBootNeverSignalled ==
  [][\A i \in Recorded(journal) \cap ProcIds :
       journal.ns # ns => ~Signalled(i)]_vars

(* What the lifecycle implements: GatewayPromise.                          *)

PhaseOf == [starting |-> "raising", running |-> "on", stopping |-> "lowering", cleanup |-> "lowering"]

\* What the state file says in this boot.
Phase == IF Exists(journal) /\ BelongsToBoot(journal) THEN PhaseOf[journal.lifecycle] ELSE "off"

Promise == INSTANCE GatewayPromise WITH
  Objects  <- Pieces,
  Carriers <- {"forwarding"} \cup (IF SameLAN THEN {} ELSE {"nat"}),
  Opened   <- {"rule"},
  phase    <- Phase,
  kernel   <- net,
  boots    <- ns,
  failures <- Budget["faults"] - budget["faults"]

\* The state file and the kernel keep step through every failure, kill, death and
\* restart: the file is there before the kernel is touched, it says "running" only when
\* all is up and not while it is taken down, no teardown turns back into a start, and
\* the file goes last.
PromiseKept == Promise!PromiseSpec

(* What the repository says and the code does not keep.                    *)

\* No process that merely took a recorded PID is ever signalled.
StrangerNeverSignalled == [][\A i \in ProcIds : ~Signalled(i)]_vars
=============================================================================
