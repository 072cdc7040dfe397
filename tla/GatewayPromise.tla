--------------------------- MODULE GatewayPromise ---------------------------
(***************************************************************************)
(* What a gateway promises the host it runs on, whatever its commands do:  *)
(* it is recorded before anything of it is in the kernel, it is recorded   *)
(* as on only when all that carries its traffic is there, it is marked     *)
(* before it is taken down and taken down without putting anything up, and *)
(* it is forgotten only when nothing of it is left.  A reboot takes both.  *)
(* What is recorded as on stays up until a second step has failed.         *)
(***************************************************************************)
EXTENDS Naturals

CONSTANTS
  Objects,  \* what a gateway puts into the kernel
  Carriers, \* those that stay as long as it is on
  Opened    \* those that are there when it is turned on

VARIABLES
  phase,    \* what is recorded: "off", "raising", "on", "lowering"
  kernel,   \* the objects that are there
  boots,    \* how often the host has started
  failures  \* how many steps have failed

promise == <<phase, kernel, boots, failures>>

PromiseInit == phase = "off" /\ kernel = {} /\ boots = 1 /\ failures = 0

Enters(p) == phase' = p /\ UNCHANGED kernel

Record == phase = "off" /\ Enters("raising")
Raise  == phase = "raising" /\ phase' = "raising" /\ kernel' \subseteq Objects
Open   == phase = "raising" /\ Carriers \cup Opened \subseteq kernel /\ Enters("on")

Serve ==
  /\ phase = "on" /\ phase' = "on" /\ kernel' \subseteq Objects
  /\ failures' < 2 => Carriers \subseteq kernel'

Mark   == phase \in {"raising", "on"} /\ Enters("lowering")
Lower  == phase = "lowering" /\ phase' = "lowering" /\ kernel' \subseteq kernel
Forget == phase = "lowering" /\ kernel = {} /\ Enters("off")
Idle   == phase = "off" /\ Enters("off")
Reboot == phase' = "off" /\ kernel' = {} /\ boots' = boots + 1

PromiseNext ==
  /\ failures' \in Nat /\ failures' >= failures
  /\ \/ UNCHANGED boots /\ (Record \/ Raise \/ Open \/ Serve \/ Mark \/ Lower \/ Forget \/ Idle)
     \/ Reboot

PromiseSpec == PromiseInit /\ [][PromiseNext]_promise
=============================================================================
