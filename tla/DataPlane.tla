----------------------------- MODULE DataPlane -----------------------------
(***************************************************************************)
(* The Linux network backend (internal/platform/linux), command by         *)
(* command: each ip, nft or /proc write of a setup and of Restore is a     *)
(* step that may fail, with or without its effect, and between two steps   *)
(* the TUN may vanish or the lifecycle client may be killed.  The lifecycle*)
(* manager is reduced to the order in which it calls the backend.          *)
(***************************************************************************)
EXTENDS Naturals

CONSTANTS
  MaxFaults,   \* failing commands
  MaxDeaths,   \* how often mihomo and its TUN vanish
  MaxCrashes   \* how often the client is killed

ASSUME DataPlaneAssumption ==
  MaxFaults \in Nat /\ MaxDeaths \in Nat /\ MaxCrashes \in Nat

Routes == {"lan", "default"}

SetupPCs   == {"forwarding", "tun", "nat", "guard", "lan", "default", "selector", "verify"}
RestorePCs == {"del_selector", "del_lan", "del_default", "del_guard", "del_nat", "restore_forwarding"}

VARIABLES
  SameLAN,     \* the routing mode: ingress rules with a guard; otherwise fwmark and nftables
  forwarding,  \* net.ipv4.ip_forward
  before,      \* NetworkSnapshot.IPv4Forwarding
  original,    \* what it was before OpenSurge ever ran (history)
  nat,         \* the nftables table exists
  rules,       \* OpenSurge's ip rules
  routes,      \* routes of its table
  tun,         \* the TUN device exists
  phase,       \* what the lifecycle manager uses the backend for
  pc,          \* the next command
  failures,    \* the failures collected by Restore
  faults, deaths, crashes

vars     == <<SameLAN, forwarding, before, original, nat, rules, routes, tun, phase, pc,
              failures, faults, deaths, crashes>>
kernel   == <<forwarding, nat, rules, routes, tun>>
given    == <<SameLAN, original>>
bounds   == <<faults, deaths, crashes>>

Rules == IF SameLAN THEN {"guard", "selector"} ELSE {"selector"}

TypeOK ==
  /\ SameLAN \in BOOLEAN
  /\ forwarding \in BOOLEAN /\ before \in BOOLEAN /\ original \in BOOLEAN
  /\ nat \in BOOLEAN /\ tun \in BOOLEAN /\ failures \in BOOLEAN
  /\ rules \subseteq Rules /\ routes \subseteq Routes
  /\ phase \in {"down", "starting", "up", "repairing", "removing", "cleanup"}
  /\ pc \in {"idle"} \cup SetupPCs \cup RestorePCs
  /\ faults \in 0..MaxFaults /\ deaths \in 0..MaxDeaths /\ crashes \in 0..MaxCrashes

\* The container runtime may have enabled forwarding already.
Init ==
  /\ SameLAN \in BOOLEAN
  /\ forwarding \in BOOLEAN /\ before = forwarding /\ original = forwarding
  /\ nat = FALSE /\ rules = {} /\ routes = {} /\ tun = FALSE
  /\ phase = "down" /\ pc = "idle" /\ failures = FALSE
  /\ faults = MaxFaults /\ deaths = MaxDeaths /\ crashes = MaxCrashes

\* What becomes of a packet of a LAN client for the internet: the selector
\* looks it up in OpenSurge's table, a miss goes on to the guard, and without
\* the guard to table main.  In nft mode only marked packets are selected.
Verdict ==
  IF "selector" \in rules /\ "default" \in routes /\ (SameLAN \/ nat) THEN "tun"
  ELSE IF "guard" \in rules THEN "prohibited" ELSE "main"

----------------------------------------------------------------------------
(* Setup.                                                                  *)

\* validateOwnership and Snapshot: nothing of ours may be there.
Start ==
  /\ phase = "down" /\ pc = "idle"
  /\ rules = {} /\ routes = {} /\ ~nat
  /\ before' = forwarding
  /\ phase' = "starting" /\ pc' = "forwarding"
  /\ UNCHANGED <<kernel, given, failures, bounds>>

\* (mutant) A repair starts from a clean slate.
RepairFromScratch ==
  /\ phase = "up" /\ pc = "idle"
  /\ tun' = FALSE /\ routes' = {} /\ rules' = {}
  /\ phase' = "repairing" /\ pc' = "tun"
  /\ UNCHANGED <<forwarding, before, given, nat, failures, bounds>>

\* restart-mihomo: the old engine, and with it the TUN, is stopped first.
Repair ==
  /\ phase = "up" /\ pc = "idle"
  /\ tun' = FALSE /\ routes' = routes \ {"default"}
  /\ phase' = "repairing" /\ pc' = "tun"
  /\ UNCHANGED <<forwarding, before, given, nat, rules, failures, bounds>>

\* A failing setup rolls start back, and leaves a running gateway degraded.
SetupFailed ==
  IF phase = "starting" THEN pc' = "del_selector" /\ phase' = "removing" /\ failures' = FALSE
                        ELSE pc' = "idle" /\ phase' = "up" /\ UNCHANGED failures

\* (mutant) The guard comes last.
NextSetupGuardLast ==
  [forwarding |-> "tun", tun |-> "lan", nat |-> "lan", lan |-> "default",
   default |-> "selector", selector |-> "guard", guard |-> "verify"]

NextSetup == [forwarding |-> "tun",
              tun        |-> IF phase = "starting" /\ ~SameLAN THEN "nat"
                             ELSE IF SameLAN THEN "guard" ELSE "lan",
              nat        |-> "lan",
              guard      |-> "lan",
              lan        |-> "default",
              default    |-> "selector",
              selector   |-> "verify"]

\* What a setup command does to the kernel.
Effect(command) ==
  /\ forwarding' = (forwarding \/ command = "forwarding")
  /\ tun'        = (tun \/ command = "tun")
  /\ nat'        = (nat \/ command = "nat")
  /\ rules'      = rules \cup ({command} \cap Rules)
  /\ routes'     = routes \cup ({command} \cap Routes)

\* "ip route replace default dev <tun>" needs the device.
SetupCommand ==
  /\ pc \in DOMAIN NextSetup
  /\ pc = "default" => tun
  /\ Effect(pc)
  /\ pc' = NextSetup[pc]
  /\ UNCHANGED <<before, given, phase, failures, bounds>>

SetupCommandFails ==
  /\ pc \in DOMAIN NextSetup
  /\ \/ pc = "default" /\ ~tun /\ UNCHANGED <<kernel, faults>>
     \/ /\ faults > 0 /\ faults' = faults - 1
        /\ \/ Effect(pc) /\ (pc = "default" => tun)
           \/ UNCHANGED kernel
  /\ SetupFailed
  /\ UNCHANGED <<before, given, deaths, crashes>>

Installed == rules = Rules /\ routes = Routes

\* verifyPolicyRouting
Verify ==
  /\ pc = "verify"
  /\ \/ Installed /\ pc' = "idle" /\ phase' = "up" /\ UNCHANGED <<failures, faults>>
     \/ ~Installed /\ SetupFailed /\ UNCHANGED faults
     \/ faults > 0 /\ faults' = faults - 1 /\ SetupFailed
  /\ UNCHANGED <<kernel, before, given, deaths, crashes>>

----------------------------------------------------------------------------
(* Restore: every part is tried, failures are collected.                   *)

\* (mutant) A repeated teardown takes a new snapshot.
StopSnapshotsAgain ==
  /\ phase \in {"up", "cleanup"} /\ pc = "idle"
  /\ phase' = "removing" /\ pc' = "del_selector" /\ failures' = FALSE
  /\ before' = forwarding
  /\ UNCHANGED <<kernel, given, bounds>>

\* stop, or another attempt at a teardown that failed or was cut short.
Stop ==
  /\ phase \in {"up", "cleanup"} /\ pc = "idle"
  /\ phase' = "removing" /\ pc' = "del_selector" /\ failures' = FALSE
  /\ UNCHANGED <<kernel, before, given, bounds>>

NextRestore == [del_selector |-> "del_lan",
                del_lan      |-> "del_default",
                del_default  |-> IF SameLAN THEN "del_guard" ELSE "del_nat",
                del_guard    |-> "restore_forwarding",
                del_nat      |-> "restore_forwarding"]

\* What a Restore command does; what is not there counts as removed.
Removal(command) ==
  /\ rules'  = rules \ (IF command = "del_selector" THEN {"selector"}
                        ELSE IF command = "del_guard" THEN {"guard"} ELSE {})
  /\ routes' = routes \ (IF command = "del_lan" THEN {"lan"}
                         ELSE IF command = "del_default" THEN {"default"} ELSE {})
  /\ nat'    = (nat /\ command # "del_nat")
  /\ forwarding' = IF command = "restore_forwarding" THEN before ELSE forwarding
  /\ UNCHANGED tun

\* (mutant) The failures are forgotten.
RestoreEndsAnyway(failed) == pc' = "idle" /\ phase' = "down" /\ failures' = failed

\* The last part: the manager hears of the failures, or is done.
RestoreEnds(failed) ==
  pc' = "idle" /\ phase' = (IF failed THEN "cleanup" ELSE "down") /\ failures' = failed

RestoreCommand ==
  /\ pc \in RestorePCs
  /\ Removal(pc)
  /\ IF pc \in DOMAIN NextRestore
     THEN pc' = NextRestore[pc] /\ UNCHANGED <<phase, failures>>
     ELSE RestoreEnds(failures)
  /\ UNCHANGED <<before, given, bounds>>

RestoreCommandFails ==
  /\ pc \in RestorePCs
  /\ faults > 0 /\ faults' = faults - 1
  /\ Removal(pc) \/ UNCHANGED kernel
  /\ IF pc \in DOMAIN NextRestore
     THEN pc' = NextRestore[pc] /\ failures' = TRUE /\ UNCHANGED phase
     ELSE RestoreEnds(TRUE)
  /\ UNCHANGED <<before, given, deaths, crashes>>

----------------------------------------------------------------------------
(* The environment.                                                        *)

\* mihomo dies: its TUN goes, and every route through it.
TUNVanishes ==
  /\ tun /\ deaths > 0 /\ deaths' = deaths - 1
  /\ tun' = FALSE /\ routes' = routes \ {"default"}
  /\ UNCHANGED <<forwarding, before, given, nat, rules, phase, pc, failures, faults, crashes>>

\* The client is killed between two commands.  The journal says "running" while
\* a repair is under way and tells to clean up otherwise.
Crash ==
  /\ pc # "idle" /\ crashes > 0 /\ crashes' = crashes - 1
  /\ pc' = "idle" /\ phase' = (IF phase = "repairing" THEN "up" ELSE "cleanup")
  /\ UNCHANGED <<kernel, before, given, failures, faults, deaths>>

Step == SetupCommand \/ SetupCommandFails \/ Verify \/ RestoreCommand \/ RestoreCommandFails

Next == Start \/ Repair \/ Stop \/ Step \/ TUNVanishes \/ Crash

Spec == Init /\ [][Next]_vars

----------------------------------------------------------------------------
(* Properties.                                                             *)

\* From the moment a same-LAN gateway is up until it is stopped, no packet of a
\* LAN client falls through to table main: not when the TUN vanishes, not while
\* a repair adds its rules and routes again, fails, or is killed half-way.
RunningFailsClosed ==
  SameLAN /\ phase \in {"up", "repairing"} => Verdict # "main"

\* "Keep the guard until all owned routes and the primary selector are gone.
\* Stop/recovery therefore fail closed throughout teardown as well as setup."
GuardOutlivesRouting ==
  SameLAN /\ (routes # {} \/ "selector" \in rules) => "guard" \in rules

\* As long as no command has failed, the guard is there with everything it
\* guards, wherever the TUN vanished and the client was killed.
GuardOutlivesUntilFault == faults = MaxFaults => GuardOutlivesRouting

\* A Restore that reports success has undone everything, whatever was cut
\* short, failed half-way or vanished before it.
DownMeansClean ==
  phase = "down" => rules = {} /\ routes = {} /\ ~nat

\* Forwarding is given back as it was before OpenSurge first touched it, across
\* failed starts and repeated teardowns.
DownMeansForwardingAsBefore == phase = "down" => forwarding = original
=============================================================================
