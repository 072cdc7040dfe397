--------------------------- MODULE DnsmasqRecovery ---------------------------
(***************************************************************************)
(* The watchdog that restarts a dead dnsmasq of the container, once per    *)
(* incident (internal/controlapi/dnsmasq_recovery.go), beside the user's   *)
(* own operations.                                                         *)
(***************************************************************************)
EXTENDS Naturals

CONSTANT NBudget  \* bounds on deaths of dnsmasq, faults and manual operations

Fresh == [state |-> "idle", healthy |-> 0, attempted |-> FALSE, active |-> FALSE]

VARIABLES
  seat,     \* dnsmasqRecoveryController
  daemon,   \* dnsmasq: running, dead; or off, since the gateway is not wanted
  owner,    \* of lifecycleMu: none, manual, auto
  glance,   \* what the round under way has seen: none, healthy, unknown, missing; act: observeMissing said so;
            \* owed: the operation could not be stored, and that is still to be recorded
  streak,   \* history: confirmations since the last automatic restart began, 9 before the first
  nleft

nvars == <<seat, daemon, owner, glance, streak, nleft>>

WatchInit ==
  /\ seat = Fresh /\ daemon \in {"off", "running"} /\ owner = "none" /\ glance = "none" /\ streak = 9 /\ nleft = NBudget

Pays(k) == nleft[k] > 0 /\ nleft' = [nleft EXCEPT ![k] = @ - 1]

----------------------------------------------------------------------------
(* The controller.                                                         *)

\* (mutant) One healthy look ends an incident.
AtOnce == 1

Confirmations == 2

\* observeHealthy
Healthy ==
  IF seat.active THEN seat
  ELSE IF seat.attempted /\ seat.healthy + 1 < Confirmations THEN [seat EXCEPT !.state = "recovering", !.healthy = @ + 1]
  ELSE Fresh

\* observeUnknown
Unknown == IF seat.active THEN seat ELSE [seat EXCEPT !.healthy = 0]

\* observeMissing, and whether it calls for a restart
Wants == ~seat.active /\ ~seat.attempted /\ seat.state # "failed"
Absent ==
  IF seat.active THEN seat
  ELSE IF seat.attempted /\ seat.state = "recovering" THEN [seat EXCEPT !.healthy = 0, !.state = "failed"]
  ELSE IF Wants THEN [seat EXCEPT !.healthy = 0, !.state = "observing"]
  ELSE [seat EXCEPT !.healthy = 0]

\* finishAutomatic
Finished(ok) == [seat EXCEPT !.active = FALSE, !.state = IF ok THEN "recovering" ELSE "failed"]

----------------------------------------------------------------------------
(* evaluateDNSMasqRecovery                                                 *)

\* The configuration, the lock and the status; any of them may fail.
Glance ==
  /\ glance = "none"
  /\ \/ owner = "none" /\ daemon = "running" /\ glance' = "healthy" /\ UNCHANGED nleft
     \/ owner = "none" /\ daemon = "dead" /\ glance' = "missing" /\ UNCHANGED nleft
     \/ (owner \in {"manual", "auto"} \/ daemon = "off") /\ glance' = "unknown" /\ UNCHANGED nleft
     \/ Pays("faults") /\ glance' = "unknown"
  /\ UNCHANGED <<seat, daemon, owner, streak>>

Observe ==
  \/ /\ glance = "healthy" /\ seat' = Healthy /\ glance' = "none"
     /\ streak' = IF seat.active \/ streak >= 2 THEN streak ELSE streak + 1
     /\ UNCHANGED <<daemon, owner, nleft>>
  \/ /\ glance = "unknown" /\ seat' = Unknown /\ glance' = "none" /\ streak' = (IF streak = 1 THEN 0 ELSE streak)
     /\ UNCHANGED <<daemon, owner, nleft>>

\* The lock is looked at once more before observeMissing.
Missing ==
  /\ glance = "missing"
  /\ IF owner \in {"manual", "auto"} THEN seat' = Unknown /\ glance' = "none"
     ELSE seat' = Absent /\ glance' = (IF Wants THEN "act" ELSE "none")
  /\ streak' = (IF streak = 1 THEN 0 ELSE streak)
  /\ UNCHANGED <<daemon, owner, nleft>>

\* TryLock, begin and CreateOperation.
Begin ==
  /\ glance = "act"
  /\ \/ owner # "none" /\ glance' = "none" /\ UNCHANGED <<seat, owner, streak, nleft>>
     \/ /\ owner = "none" /\ seat' = [Fresh EXCEPT !.state = "recovering", !.attempted = TRUE, !.active = TRUE]
        /\ \/ owner' = "auto" /\ streak' = 0 /\ glance' = "none" /\ UNCHANGED nleft
           \/ Pays("faults") /\ glance' = "owed" /\ UNCHANGED <<owner, streak>>
  /\ UNCHANGED daemon

\* lifecycleMu is already free when finishAutomatic records what went wrong.
NotStored ==
  /\ glance = "owed" /\ glance' = "none" /\ seat' = Finished(FALSE)
  /\ UNCHANGED <<daemon, owner, streak, nleft>>

\* (mutant) The result is recorded, and the controller stays deaf.
Lingering(ok) == [seat EXCEPT !.state = IF ok THEN "recovering" ELSE "failed"]

\* What runOperationLocked leaves of the controller.
Outcome(ok) == Finished(ok)

AutoEnds ==
  /\ owner = "auto" /\ owner' = "none"
  /\ \/ daemon = "dead" /\ daemon' = "running" /\ seat' = Outcome(TRUE) /\ UNCHANGED nleft
     \/ daemon # "dead" /\ seat' = Outcome(TRUE) /\ UNCHANGED <<daemon, nleft>>
     \/ Pays("faults") /\ seat' = Outcome(FALSE) /\ UNCHANGED daemon
  /\ UNCHANGED <<glance, streak>>

----------------------------------------------------------------------------
ManualBegins ==
  /\ owner = "none" /\ Pays("manual") /\ owner' = "manual"
  /\ UNCHANGED <<seat, daemon, glance, streak>>

\* Start, stop, restart.
ManualEnds ==
  /\ owner = "manual" /\ owner' = "none" /\ daemon' \in {"running", "off", "dead"}
  /\ UNCHANGED <<seat, glance, streak, nleft>>

DnsmasqDies ==
  /\ daemon = "running" /\ Pays("deaths") /\ daemon' = "dead"
  /\ UNCHANGED <<seat, owner, glance, streak>>

WatchNext ==
  \/ Glance \/ Observe \/ Missing \/ Begin \/ NotStored \/ AutoEnds \/ ManualBegins \/ ManualEnds \/ DnsmasqDies

----------------------------------------------------------------------------
(* Properties.                                                             *)

WatchTypeOK ==
  /\ seat.state \in {"idle", "observing", "recovering", "failed"} /\ seat.healthy \in 0 .. 1
  /\ owner \in {"none", "manual", "auto"} /\ daemon \in {"running", "dead", "off"}
  /\ glance \in {"none", "healthy", "unknown", "missing", "act", "owed"} /\ streak \in {0, 1, 2, 9}

\* One restart per incident: between two automatic restarts dnsmasq was seen running
\* twice, with nothing else seen in between, however often it dies.
OneRestartPerIncident == [][owner = "none" /\ owner' = "auto" => streak >= 2]_nvars

\* The controller is deaf exactly while its own operation runs, so that it hears of
\* the end of every incident.
DeafOnlyWhileActing == seat.active <=> owner = "auto" \/ glance = "owed"
=============================================================================
