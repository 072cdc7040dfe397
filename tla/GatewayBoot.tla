---------------------------- MODULE GatewayBoot ----------------------------
(***************************************************************************)
(* The boot of the container (docker/entrypoint.sh) beside the lifecycle   *)
(* manager: the entrypoint recovers the gateway once before it starts      *)
(* Control, and when that fails a worker tries again, a fixed number of    *)
(* times.  Nothing else in this module repeats a recovery: the other       *)
(* clients begin what they like, or nothing.                               *)
(***************************************************************************)
EXTENDS GatewayLifecycle

CONSTANTS
  Entrypoint,   \* the client that runs `opensurge-container --component recover`
  Attempts      \* OPENSURGE_RECOVERY_RETRY_ATTEMPTS

ASSUME BootAssumption == Entrypoint \in Clients /\ Attempts \in Nat \ {0}

VARIABLES
  attempt,      \* the recovery of this boot: due, running, or over
  tries,        \* how often it may still be tried
  undisturbed,  \* in this boot no service died and no other client began anything
  struck        \* a mishap struck the command in flight

boot     == <<attempt, tries>>
bootVars == <<vars, boot, undisturbed, struck>>

BootInit ==
  /\ Init
  /\ attempt = "due" /\ tries = Attempts + 1
  /\ undisturbed = TRUE /\ struck = FALSE

Mishap == \E k \in Kinds \ {"requests"} : budget'[k] < budget[k]

----------------------------------------------------------------------------
(* The entrypoint and its worker.                                          *)


\* The loop ends when no try is left.
TryAgain(left) == attempt' = IF left > 0 THEN "due" ELSE "over"

\* The program takes the lock, or it finds nothing to do.
Try ==
  /\ attempt = "due"
  /\ \/ BeginRecover(Entrypoint) /\ attempt' = "running" /\ tries' = tries - 1
     \/ RecoverNothing(Entrypoint) /\ attempt' = "over" /\ UNCHANGED tries
  /\ struck' = FALSE
  /\ UNCHANGED undisturbed

\* The lock is held, the profile cannot be reconciled, or the program is killed.
TryFails ==
  /\ attempt = "due"
  /\ \/ holder # NoClient /\ UNCHANGED budget
     \/ Spend("faults") \/ Spend("crashes")
  /\ tries' = tries - 1 /\ TryAgain(tries')
  /\ struck' = (struck \/ Mishap)
  /\ UNCHANGED <<holder, op, mem, want, disk, ns, net, proc, undisturbed>>

\* The last step of a recovery that did what it should; a rollback is none.
Succeeds ==
  /\ ~op.failed /\ ~Mishap
  /\ op.pc = "save_smartdns" \/ (op.pc = "clear" /\ mem.lifecycle # "cleanup")

\* A step of the command in flight, or its kill; the worker sees its program end.
Step ==
  /\ OpStep \/ Crash
  /\ IF holder = Entrypoint /\ holder' = NoClient
     THEN IF Succeeds THEN attempt' = "over" ELSE TryAgain(tries)
     ELSE UNCHANGED attempt
  /\ struck' = (holder' # NoClient /\ (struck \/ Mishap))
  /\ UNCHANGED <<tries, undisturbed>>

----------------------------------------------------------------------------
(* The rest of the world.                                                  *)

Others == \E c \in Clients \ {Entrypoint} :
  /\ Begin(c)
  /\ undisturbed' = FALSE
  /\ struck' = (struck /\ holder' = holder)
  /\ UNCHANGED boot

\* Docker starts the container again: the entrypoint begins anew.
Reboot ==
  /\ ContainerRestart
  /\ attempt' = "due" /\ tries' = Attempts + 1
  /\ undisturbed' = TRUE /\ struck' = FALSE

BadLuck ==
  /\ ProcessDies \/ PIDReused
  /\ undisturbed' = FALSE /\ struck' = (holder # NoClient)
  /\ UNCHANGED boot

BootNext == Try \/ TryFails \/ Step \/ Others \/ Reboot \/ BadLuck

(* Commands run to their end (every external call has a timeout), a client *)
(* that saved its intent goes on to the lock, and the entrypoint goes on   *)
(* to its next try after its delay.  No client has to recover anything.    *)
BootSpec ==
  /\ BootInit /\ [][BootNext]_bootVars
  /\ WF_bootVars(Step)
  /\ WF_bootVars(\E c \in Clients \ {Entrypoint} :
                   /\ Refused(c) \/ BeginStart(c) \/ BeginStop(c)
                   /\ Others)
  /\ WF_bootVars(Try \/ TryFails)

----------------------------------------------------------------------------
(* Properties.                                                             *)

\* Every command returns and gives up the lock.
EveryCommandReturns == holder # NoClient ~> holder = NoClient


\* What a command was asked for, when it returns.  A recovery with nothing to
\* start afterwards only clears.
Done ==
  /\ op.cmd = "stop" => ~Exists(journal')
  /\ op.cmd \in {"start", "reload", "restart-mihomo"} => StatusRunning'
  /\ op.cmd = "recover" => StatusRunning' \/ (op.then = "finish" /\ ~Exists(journal'))

=============================================================================
