--------------------------- MODULE PreparedEngine ---------------------------
(***************************************************************************)
(* The prepared engine: a mihomo without ingress that previews policies    *)
(* while the gateway is stopped (internal/mihomo/prepared.go), the leases  *)
(* that keep it in the helper (controlapi/policy_workspace_helper.go) and  *)
(* the requests that use it (controlapi/policy_workspace.go).  Gateway and *)
(* preview share one work directory and must never run together.           *)
(***************************************************************************)
EXTENDS Integers, FiniteSets

CONSTANTS
  Graphs,   \* rendered configurations, by digest
  Pids, Clients,
  PBudget   \* bounds on forks, faults, deaths and reboots

Free == [serial |-> 0, graph |-> "none"]
Stranger == [serial |-> -1, graph |-> "none"]
NoRecord == [pid |-> 0, serial |-> 0, boot |-> 0, graph |-> "none"]
Idle == [pc |-> "rest", graph |-> "none", pid |-> 0]

VARIABLES
  record,    \* prepared-mihomo/state.json; pid 0 is an intent
  procs,     \* what runs under each PID; the serial stands for the fingerprint
  boot,
  gw,        \* runtime state: none, starting (StopPreparedLocked next), running, interrupted
  asking,    \* the policy request, which holds m.mu and the lifecycle lock
  holds,     \* unused, held, leaving, retrying (release sleeps), pending (it gave up), over
  service,   \* the helper: up or down
  pleft

pvars == <<record, procs, boot, gw, asking, holds, service, pleft>>

PreparedInit ==
  /\ record = NoRecord /\ procs = [p \in Pids |-> Free] /\ boot = 1 /\ gw = "none" /\ asking = Idle
  /\ holds = [c \in Clients |-> "unused"] /\ service = "up" /\ pleft = PBudget

Uses(k) == pleft[k] > 0 /\ pleft' = [pleft EXCEPT ![k] = @ - 1]
Engines == {p \in Pids : procs[p] \notin {Free, Stranger}}
Holders == Cardinality({c \in Clients : holds[c] \in {"held", "leaving"}})

----------------------------------------------------------------------------
(* stopPreparedLocked                                                      *)

Ours == record # NoRecord /\ record.boot = boot
Incomplete == record.pid = 0

\* (mutant) Whatever runs under the PID.
SomethingThere == record.pid \in Pids /\ procs[record.pid] # Free

\* preparedProcessMatches
Alive == record.pid \in Pids /\ procs[record.pid].serial = record.serial

Kills == procs' = [procs EXCEPT ![record.pid] = Free]

Stop(ok) ==
  \/ record = NoRecord /\ ok /\ UNCHANGED <<procs, record, pleft>>
  \/ Ours /\ Incomplete /\ ~ok /\ UNCHANGED <<procs, record, pleft>>
  \/ /\ Ours /\ ~Incomplete /\ Alive
     /\ \/ ok /\ Kills /\ record' = NoRecord /\ UNCHANGED pleft
        \/ ~ok /\ Uses("faults") /\ (Kills \/ UNCHANGED procs) /\ UNCHANGED record
  \/ record # NoRecord /\ ~(Ours /\ (Incomplete \/ Alive)) /\ ok /\ record' = NoRecord /\ UNCHANGED <<procs, pleft>>

----------------------------------------------------------------------------
(* runPolicyWorkspace and prepareLocked.                                   *)

Goes(pc) == asking' = [asking EXCEPT !.pc = pc]
Unlocked == asking.pc = "rest" /\ gw # "starting"

\* (mutant) A request does not ask for its lease.
Anybody == TRUE

\* helperPolicyLeases.run
Leased == Holders > 0

Ask ==
  /\ service = "up" /\ Unlocked /\ Leased /\ gw = "none"
  /\ \E g \in Graphs : asking' = [pc |-> "look", graph |-> g, pid |-> 0]
  /\ UNCHANGED <<record, procs, boot, gw, holds, service, pleft>>

\* (mutant) Any engine of this boot will do.
AnyGraph == TRUE

\* wantDigest
SameGraph == record.graph = asking.graph

\* An engine with the same digest is used again, or its silence is an error;
\* any other is stopped.
Reuse ==
  /\ asking.pc = "look" /\ Ours /\ SameGraph /\ (Incomplete \/ Alive)
  /\ \/ ~Incomplete /\ asking' = [asking EXCEPT !.pc = "use", !.pid = record.pid] /\ UNCHANGED pleft
     \/ Incomplete /\ asking' = Idle /\ UNCHANGED pleft
     \/ ~Incomplete /\ Uses("faults") /\ asking' = Idle
  /\ UNCHANGED <<record, procs, boot, gw, holds, service>>

Replace ==
  /\ asking.pc = "look" /\ ~(Ours /\ SameGraph /\ (Incomplete \/ Alive))
  /\ \/ Stop(TRUE) /\ Goes("intent")
     \/ Stop(FALSE) /\ asking' = Idle
  /\ UNCHANGED <<boot, gw, holds, service>>

\* (mutant) The record is written once the engine runs.
NoIntent == record

\* "Journal intent before fork."
Intent == [pid |-> 0, serial |-> 0, boot |-> boot, graph |-> asking.graph]

SaveIntent ==
  /\ asking.pc = "intent" /\ record' = Intent /\ Goes("fork")
  /\ UNCHANGED <<procs, boot, gw, holds, service, pleft>>

Fork ==
  /\ asking.pc = "fork"
  /\ \/ \E p \in Pids :
          /\ procs[p] = Free /\ Uses("forks")
          /\ procs' = [procs EXCEPT ![p] = [serial |-> pleft.forks, graph |-> asking.graph]]
          /\ asking' = [asking EXCEPT !.pc = "identify", !.pid = p] /\ UNCHANGED record
     \/ Uses("faults") /\ record' = NoRecord /\ asking' = Idle /\ UNCHANGED procs
  /\ UNCHANGED <<boot, gw, holds, service>>

\* The fingerprint and the second save; a failure stops the child and forgets it,
\* but an intent stays when the child does.
Identify ==
  /\ asking.pc = "identify"
  /\ \/ /\ procs[asking.pid] # Free
        /\ record' = [Intent EXCEPT !.pid = asking.pid, !.serial = procs[asking.pid].serial]
        /\ Goes("wait") /\ UNCHANGED <<procs, pleft>>
     \/ /\ procs[asking.pid] = Free \/ pleft.faults > 0
        /\ pleft' = (IF procs[asking.pid] = Free THEN pleft ELSE [pleft EXCEPT !.faults = @ - 1])
        /\ \/ procs' = [procs EXCEPT ![asking.pid] = Free] /\ record' = NoRecord
           \/ procs[asking.pid] # Free /\ UNCHANGED <<procs, record>>
        /\ asking' = Idle
  /\ UNCHANGED <<boot, gw, holds, service>>

\* waitPreparedReady; a failure stops the engine.
Ready ==
  /\ asking.pc = "wait" /\ Alive /\ Goes("use")
  /\ UNCHANGED <<record, procs, boot, gw, holds, service, pleft>>

NotReady ==
  /\ asking.pc = "wait" /\ (Alive => pleft.faults > 0)
  /\ \E ok \in BOOLEAN : Stop(ok)
  /\ asking' = Idle
  /\ UNCHANGED <<boot, gw, holds, service>>

\* Groups, selection, health and tests, and the answer.
Answered ==
  /\ asking.pc = "use" /\ asking' = Idle
  /\ UNCHANGED <<record, procs, boot, gw, holds, service, pleft>>

----------------------------------------------------------------------------
(* helperPolicyLeases                                                      *)

Turns(c, s) == holds' = [holds EXCEPT ![c] = s]

Hold(c) ==
  /\ service = "up" /\ asking.pc = "rest" /\ holds[c] = "unused" /\ Turns(c, "held")
  /\ UNCHANGED <<record, procs, boot, gw, asking, service, pleft>>

Disconnects(c) ==
  /\ holds[c] = "held" /\ Turns(c, "leaving")
  /\ UNCHANGED <<record, procs, boot, gw, asking, service, pleft>>

\* (mutant) Whoever leaves stops the engine of those who stay.
Regardless(c) == TRUE

\* Only the last one stops the engine.
LastToLeave(c) == Holders = (IF holds[c] = "leaving" THEN 1 ELSE 0)

\* release: until it worked, somebody holds again, or after 120 attempts.
Release(c) ==
  /\ service = "up" /\ asking.pc = "rest" /\ holds[c] \in {"leaving", "retrying"}
  /\ \/ ~LastToLeave(c) /\ Turns(c, "over") /\ UNCHANGED <<record, procs, pleft>>
     \/ LastToLeave(c) /\ Unlocked /\ Stop(TRUE) /\ Turns(c, "over")
     \/ LastToLeave(c) /\ Unlocked /\ Stop(FALSE) /\ Turns(c, "retrying")
     \/ LastToLeave(c) /\ ~Unlocked /\ Turns(c, "retrying") /\ UNCHANGED <<record, procs, pleft>>
     \/ LastToLeave(c) /\ holds[c] = "retrying" /\ Uses("faults") /\ Turns(c, "pending") /\ UNCHANGED <<record, procs>>
  /\ UNCHANGED <<boot, gw, asking, service>>

\* ServeHelper refuses to serve before StopPrepared has worked.
HelperStarts ==
  /\ service = "down" /\ Unlocked
  /\ \/ Stop(TRUE) /\ service' = "up"
     \/ Stop(FALSE) /\ UNCHANGED service
  /\ UNCHANGED <<boot, gw, asking, holds>>

HelperDies ==
  /\ service = "up" /\ Uses("deaths") /\ service' = "down" /\ asking' = Idle
  /\ holds' = [c \in Clients |-> IF holds[c] = "unused" THEN "unused" ELSE "over"]
  /\ UNCHANGED <<record, procs, boot, gw>>

----------------------------------------------------------------------------
(* The gateway and the machine.                                            *)

\* Start and stop by the command line, under the same lifecycle lock.
GatewayStarts ==
  /\ gw = "none" /\ Unlocked /\ gw' = "starting"
  /\ UNCHANGED <<record, procs, boot, asking, holds, service, pleft>>

GatewayTakesOver ==
  /\ gw = "starting"
  /\ \/ Stop(TRUE) /\ gw' = "running"
     \/ Stop(FALSE) /\ gw' = "none"
  /\ UNCHANGED <<boot, asking, holds, service>>

GatewayStops ==
  /\ gw \in {"running", "interrupted"} /\ Unlocked /\ gw' = "none"
  /\ UNCHANGED <<record, procs, boot, asking, holds, service, pleft>>

EngineDies(p) ==
  /\ p \in Engines /\ Uses("deaths") /\ procs' = [procs EXCEPT ![p] = Free]
  /\ UNCHANGED <<record, boot, gw, asking, holds, service>>

PidReused(p) ==
  /\ procs[p] = Free /\ record.pid = p /\ procs' = [procs EXCEPT ![p] = Stranger]
  /\ UNCHANGED <<record, boot, gw, asking, holds, service, pleft>>

Reboot ==
  /\ Uses("reboots") /\ boot' = boot + 1 /\ procs' = [p \in Pids |-> Free] /\ asking' = Idle /\ service' = "down"
  /\ gw' = (IF gw = "running" THEN "interrupted" ELSE IF gw = "starting" THEN "none" ELSE gw)
  /\ holds' = [c \in Clients |-> IF holds[c] = "unused" THEN "unused" ELSE "over"]
  /\ UNCHANGED record

PreparedNext ==
  \/ Ask \/ Reuse \/ Replace \/ SaveIntent \/ Fork \/ Identify \/ Ready \/ NotReady \/ Answered
  \/ HelperStarts \/ HelperDies \/ GatewayStarts \/ GatewayTakesOver \/ GatewayStops \/ Reboot
  \/ \E c \in Clients : Hold(c) \/ Disconnects(c) \/ Release(c)
  \/ \E p \in Pids : EngineDies(p) \/ PidReused(p)

----------------------------------------------------------------------------
(* Properties.                                                             *)

PreparedTypeOK ==
  /\ gw \in {"none", "starting", "running", "interrupted"} /\ service \in {"up", "down"}
  /\ asking.pc \in {"rest", "look", "intent", "fork", "identify", "wait", "use"}
  /\ record.pid \in Pids \cup {0} /\ holds \in [Clients -> {"unused", "held", "leaving", "retrying", "pending", "over"}]

\* One engine at a time has the cache and the tailnet identity, gateway and preview
\* together, wherever helper or machine go down.
OneEngine == Cardinality(Engines) + (IF gw = "running" THEN 1 ELSE 0) <= 1

\* A request works with an engine that runs the graph it was asked about.
EngineRunsTheGraph == asking.pc = "use" => procs[asking.pid] \in {Free, Stranger} \/ procs[asking.pid].graph = asking.graph

\* With the helper up, an engine nobody holds any more is being stopped, unless 120
\* attempts were not enough.
EngineHasHolder ==
  service = "up" /\ Engines # {} => \E c \in Clients : holds[c] \notin {"unused", "over"}

\* An engine that another client holds is not stopped by one that leaves.
LeaseKeepsEngine ==
  [][Holders > 1 /\ holds' # holds /\ service' = "up" => Engines \subseteq {p \in Pids : procs'[p] = procs[p]}]_pvars

\* A process that has got the PID of the engine is never signalled.
StrangersLeft == [][\A p \in Pids : procs[p] = Stranger /\ procs'[p] # Stranger => boot' # boot]_pvars
=============================================================================
