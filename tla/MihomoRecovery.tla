--------------------------- MODULE MihomoRecovery ---------------------------
(***************************************************************************)
(* The recovery controller of the control server                           *)
(* (internal/controlapi/mihomo_recovery.go, dns_probe.go and the lifecycle *)
(* actions of server.go), as the NAS container runs it: a monitor samples  *)
(* the gateway every five seconds and dispatches a full recovery when a    *)
(* failure is confirmed, while operators start, stop, recover or restart   *)
(* the engine by hand and other programs hold the lifecycle flock.         *)
(*                                                                         *)
(* The monitor does not hold a lock from its sample to what it concludes   *)
(* from it: a whole operation may run in between.                          *)
(***************************************************************************)
EXTENDS Naturals

CONSTANTS
  Actions,        \* what operators ask for
  Errors,         \* how an operation may fail
  UnknownLimit,   \* mihomoRecoveryUnknownLimit
  Budget

Kinds == {"errors", "storage", "unknowns", "breaks", "requests", "external"}

ASSUME RecoveryAssumption ==
  /\ Actions \subseteq {"start", "stop", "recover-gateway", "restart-mihomo"}
  /\ Errors \subseteq {"timeout", "contention", "permanent"}
  /\ UnknownLimit \in Nat \ {0}
  /\ Budget \in [Kinds -> Nat]

HealthyConfirmations == 2    \* mihomoRecoveryHealthyConfirmations
FailuresRequired     == 2    \* dnsProbeFailuresRequired

(* Failure reasons: "incomplete" stands for those that act at once,        *)
(* "refused" for the controller refusal, "dns" for the DNS probe's.        *)
NASReasons == {"incomplete", "refused", "dns"}
Reasons    == {"none"} \cup NASReasons

VARIABLES
  ctl,      \* mihomoRecoveryController
  mon,      \* the monitor goroutine: where it is and what it sampled
  dns,      \* dnsHealthProbe
  mu,       \* the operation under lifecycleMu
  flock,    \* the lifecycle flock is held by another program
  desired,  \* gateway-desired.json
  health,   \* what is wrong with the gateway
  owed,     \* (history) a recovery ran; no health, cooldown or operator followed
  streak,   \* (history) refusals in a row among the observations heard
  budget

vars == <<ctl, mon, dns, mu, flock, desired, health, owed, streak, budget>>

Controller ==
  [state: {"idle", "observing", "recovering", "failed"}, reason: Reasons,
   refused: 0..2, healthy: 0..(HealthyConfirmations - 1), unknown: 0..UnknownLimit,
   attempted: BOOLEAN, active: BOOLEAN, awaiting: BOOLEAN,
   retry: {"none", "cooling", "due"}]     \* retryAt against the clock

NoIncident == [state |-> "idle", reason |-> "none", refused |-> 0, healthy |-> 0, unknown |-> 0,
               attempted |-> FALSE, active |-> FALSE, awaiting |-> FALSE, retry |-> "none"]

Samples == {"none", "unknown", "stopped", "pending", "healthy"} \cup NASReasons

\* What is wrong with the gateway; "unanswered" shows in the DNS probe only.
Healths == {"ok", "unanswered"} \cup (NASReasons \ {"dns"})

\* answer: what the DNS check in flight will report.
Answers == {"healthy", "unknown", "unavailable"}
Monitor == [pc: {"idle", "probing", "checking", "sampled", "confirmed", "eligible", "locked", "create_failed"},
            sample: Samples, answer: Answers]
Waiting == [pc |-> "idle", sample |-> "none", answer |-> "unknown"]

Operation == [kind: {"none", "auto"} \cup Actions, pc: {"none", "locked", "running", "finished", "done"},
              result: {"none", "ok"} \cup Errors]
NoOperation == [kind |-> "none", pc |-> "none", result |-> "none"]

TypeOK ==
  /\ ctl \in Controller /\ mon \in Monitor /\ mu \in Operation
  /\ dns \in [failures: 0..FailuresRequired, verdict: Answers, cached: BOOLEAN]
  /\ {flock, desired, owed} \subseteq BOOLEAN
  /\ health \in Healths
  /\ streak \in 0..2
  /\ budget \in [Kinds -> Nat]

NoProbe == [failures |-> 0, verdict |-> "unknown", cached |-> FALSE]

Init ==
  /\ ctl = NoIncident /\ mon = Waiting /\ dns = NoProbe /\ mu = NoOperation
  /\ flock = FALSE /\ desired = TRUE /\ health = "ok"
  /\ owed = FALSE /\ streak = 0 /\ budget = Budget

Spend(k) == budget[k] > 0 /\ budget' = [budget EXCEPT ![k] = @ - 1]

----------------------------------------------------------------------------
(* The controller: pure functions of its state.                            *)

\* (mutants) The retry is never due, or at once.
CoolingForever(c)  == [c EXCEPT !.retry = "none"]
CoolingNoTime(c)   == [c EXCEPT !.retry = "due"]

\* finishAutomatic and observeFailure set a cooldown for a full NAS recovery
\* that timed out, or after which the failure was confirmed again.
Cooling(c) == IF c.reason \in NASReasons THEN [c EXCEPT !.retry = "cooling"] ELSE c

ObserveHealthy(c) ==
  IF c.active THEN c
  ELSE IF c.attempted /\ c.healthy + 1 < HealthyConfirmations
       THEN [c EXCEPT !.unknown = 0, !.healthy = @ + 1, !.state = "recovering"]
       ELSE NoIncident

ObserveStopped(c) == IF c.active THEN c ELSE NoIncident

ObservePending(c) == IF c.active THEN c ELSE [c EXCEPT !.healthy = 0, !.refused = 0]

\* (mutant) Refusals need not be consecutive.
ObserveUnknownKeepsRefusals(c) ==
  IF c.active \/ (c.attempted /\ c.state = "recovering") THEN c ELSE [c EXCEPT !.healthy = 0]

ObserveUnknown(c) ==
  IF c.active THEN c
  ELSE IF c.attempted /\ c.state = "recovering"
       THEN [c EXCEPT !.healthy = 0, !.refused = 0, !.unknown = IF @ < UnknownLimit THEN @ + 1 ELSE @,
                      !.state = IF c.unknown + 1 >= UnknownLimit THEN "failed" ELSE @]
       ELSE [c EXCEPT !.healthy = 0, !.refused = 0]

\* observeFailure: the new state, and whether to dispatch a recovery.
ObserveFailure(c0, reason) ==
  LET c     == [c0 EXCEPT !.healthy = 0, !.unknown = 0]
      Hold(s) == [ctl |-> s, act |-> FALSE]
      rearmed == IF c.state = "failed" /\ c.retry = "due"
                 THEN [c EXCEPT !.attempted = FALSE, !.state = "observing"] ELSE c
      counted == [rearmed EXCEPT !.state = "observing", !.reason = reason,
                    !.refused = LET seen == IF rearmed.reason = reason THEN @ ELSE 0 IN
                                IF reason # "refused" \/ seen = 2 THEN seen ELSE seen + 1]
  IN CASE c0.active -> Hold(c0)
       [] ~c0.active /\ c.state = "failed" /\ c.awaiting /\ c.retry = "none" /\ c.reason \in NASReasons ->
            Hold(Cooling([c EXCEPT !.reason = reason]))
       [] ~c0.active /\ rearmed.attempted /\ rearmed.state = "recovering" ->
            Hold(Cooling([c EXCEPT !.state = "failed", !.reason = reason]))
       [] OTHER ->
            IF rearmed.attempted \/ rearmed.state = "failed" THEN Hold(rearmed)
            ELSE [ctl |-> counted, act |-> reason = "refused" => counted.refused >= 2]

MayBegin(c) == ~c.attempted /\ c.state \notin {"recovering", "failed"}

BeginRecovery(c, reason) ==
  [c EXCEPT !.state = "recovering", !.reason = reason, !.attempted = TRUE, !.healthy = 0,
            !.unknown = 0, !.active = TRUE, !.awaiting = FALSE, !.retry = "none"]

\* (mutant) The deferral returns before the operation is marked as over.
FinishRecoveryReturnsEarly(c, result, manual) ==
  CASE result = "contention" /\ c.reason \in NASReasons -> [c EXCEPT !.state = "observing", !.attempted = FALSE]
    [] result = "ok" -> [c EXCEPT !.active = FALSE, !.state = "recovering", !.awaiting = TRUE]
    [] OTHER -> [c EXCEPT !.active = FALSE, !.attempted = @ \/ manual, !.state = "failed"]

\* finishAutomatic and finishManual; a lost race for the flock does not count
\* as an attempt of a full recovery.
FinishRecovery(c0, result, manual) ==
  LET c == [c0 EXCEPT !.active = FALSE, !.awaiting = result = "ok",
                      !.attempted = @ \/ manual, !.refused = IF manual THEN 0 ELSE @]
  IN CASE result = "ok" -> [c EXCEPT !.state = "recovering"]
       [] result = "contention" /\ c.reason \in NASReasons ->
            [c EXCEPT !.state = "observing", !.attempted = FALSE, !.refused = 0,
                      !.healthy = 0, !.unknown = 0, !.retry = "none"]
       [] result = "timeout" -> Cooling([c EXCEPT !.state = "failed"])
       [] OTHER -> [c EXCEPT !.state = "failed"]

----------------------------------------------------------------------------
(* The monitor: evaluateMihomoRecovery.                                    *)

\* LifecycleOperationInProgress: an operation holds the flock most of its time.
Busy == {flock} \cup (IF mu.pc = "running" THEN {TRUE, FALSE} ELSE {})

Observe(c) == ctl' = c /\ mon' = Waiting /\ streak' = IF ctl.active THEN streak ELSE 0

\* What Status and the desired state show.  A failing status, and a probe of
\* the flock that finds it taken, count as an unknown observation.
Poll ==
  /\ mon.pc = "idle"
  /\ UNCHANGED <<dns, mu, flock, desired, health, owed>>
  /\ \/ TRUE \in Busy /\ Observe(ObserveUnknown(ctl)) /\ UNCHANGED budget
     \/ FALSE \in Busy /\ Observe(ObserveUnknown(ctl)) /\ Spend("unknowns")
     \/ /\ FALSE \in Busy
        /\ mon' = IF ~desired THEN [Waiting EXCEPT !.pc = "sampled", !.sample = "stopped"]
                  ELSE IF health \in NASReasons THEN [Waiting EXCEPT !.pc = "sampled", !.sample = health]
                  ELSE [Waiting EXCEPT !.pc = "probing"]
        /\ UNCHANGED <<ctl, streak, budget>>

\* dnsHealthProbe.sample: the verdict of the last check for thirty seconds,
\* then a new check.  A reset may come while the check is in flight.
SampleOf(verdict) == CASE verdict = "healthy" -> "healthy"
                       [] verdict = "unavailable" -> "dns"
                       [] OTHER -> "pending"

CheckedDNS(answer) ==
  LET failures == IF answer = "unavailable" THEN IF dns.failures < FailuresRequired THEN dns.failures + 1 ELSE dns.failures
                                            ELSE 0
  IN [failures |-> failures, cached |-> TRUE,
      verdict  |-> IF answer = "unavailable" /\ failures < FailuresRequired THEN "unknown" ELSE answer]

ProbeDNS ==
  /\ mon.pc = "probing"
  /\ \/ dns.cached /\ mon' = [mon EXCEPT !.pc = "sampled", !.sample = SampleOf(dns.verdict)] /\ UNCHANGED budget
     \/ /\ ~dns.cached /\ UNCHANGED budget
        /\ mon' = [mon EXCEPT !.pc = "checking", !.answer = IF health = "ok" THEN "healthy" ELSE "unavailable"]
     \/ ~dns.cached /\ Spend("unknowns") /\ mon' = [mon EXCEPT !.pc = "checking"]
  /\ UNCHANGED <<ctl, dns, mu, flock, desired, health, owed, streak>>

EndCheck ==
  /\ mon.pc = "checking"
  /\ dns' = CheckedDNS(mon.answer)
  /\ mon' = [Waiting EXCEPT !.pc = "sampled", !.sample = SampleOf(dns'.verdict)]
  /\ UNCHANGED <<ctl, mu, flock, desired, health, owed, streak, budget>>

\* An observation without a failure; one of a failure is confirmed by a second
\* look at the flock.
Conclude ==
  /\ mon.pc = "sampled"
  /\ UNCHANGED <<dns, mu, flock, desired, health, budget>>
  /\ CASE mon.sample = "stopped" -> Observe(ObserveStopped(ctl))
       [] mon.sample = "pending" -> Observe(ObservePending(ctl))
       [] mon.sample = "healthy" -> Observe(ObserveHealthy(ctl))
       [] OTHER -> \/ TRUE \in Busy /\ Observe(ObserveUnknown(ctl))
                   \/ FALSE \in Busy /\ mon' = [mon EXCEPT !.pc = "confirmed"] /\ UNCHANGED <<ctl, streak>>
  /\ owed' = (owed /\ ctl' # NoIncident)

ConcludeFailure ==
  /\ mon.pc = "confirmed"
  /\ LET seen == ObserveFailure(ctl, mon.sample) IN
     /\ ctl' = seen.ctl
     /\ mon' = IF seen.act THEN [mon EXCEPT !.pc = "eligible"] ELSE Waiting
  /\ streak' = IF ctl.active \/ (mon.sample = "refused" /\ streak = 2) THEN streak
               ELSE IF mon.sample = "refused" THEN streak + 1 ELSE 0
  /\ UNCHANGED <<dns, mu, flock, desired, health, owed, budget>>

TryLock ==
  /\ mon.pc = "eligible"
  /\ IF mu = NoOperation
     THEN mu' = [NoOperation EXCEPT !.kind = "auto", !.pc = "locked"] /\ mon' = [mon EXCEPT !.pc = "locked"]
     ELSE mon' = Waiting /\ UNCHANGED mu
  /\ UNCHANGED <<ctl, dns, flock, desired, health, owed, streak, budget>>

\* begin, CreateOperation, reset of the DNS probe, and the operation starts.
Dispatch ==
  /\ mon.pc = "locked"
  /\ IF MayBegin(ctl)
     THEN /\ ctl' = BeginRecovery(ctl, mon.sample)
          /\ \/ dns' = NoProbe /\ mu' = [mu EXCEPT !.pc = "running"] /\ mon' = Waiting /\ UNCHANGED budget
             \/ Spend("storage") /\ mu' = NoOperation /\ mon' = [Waiting EXCEPT !.pc = "create_failed"] /\ UNCHANGED dns
     ELSE mu' = NoOperation /\ mon' = Waiting /\ UNCHANGED <<ctl, dns, budget>>
  /\ UNCHANGED <<flock, desired, health, owed, streak>>

\* The operation could not be recorded: finishAutomatic, after the unlock.
DispatchFailed ==
  /\ mon.pc = "create_failed"
  /\ ctl' = FinishRecovery(ctl, "permanent", FALSE)
  /\ mon' = Waiting
  /\ UNCHANGED <<dns, mu, flock, desired, health, owed, streak, budget>>

MonitorStep == Poll \/ ProbeDNS \/ EndCheck \/ Conclude \/ ConcludeFailure \/ TryLock \/ Dispatch \/ DispatchFailed

----------------------------------------------------------------------------
(* Operations: handleGatewayAction and runOperationLocked.                 *)

\* start wants a stopped gateway, restart-mihomo an active one.
Request(action) ==
  /\ mu = NoOperation /\ Spend("requests")
  /\ action = "start" => health = "incomplete"
  /\ action = "restart-mihomo" => desired
  /\ mu' = [NoOperation EXCEPT !.kind = action, !.pc = "locked"]
  /\ UNCHANGED <<ctl, mon, dns, flock, desired, health, owed, streak>>

Watched(kind) == kind # "stop"

\* A manual restart-mihomo keeps the reason of whatever incident came before.
BeginManual ==
  /\ mu.pc = "locked" /\ mu.kind # "auto"
  /\ mu' = [mu EXCEPT !.pc = "running"]
  /\ IF Watched(mu.kind)
     THEN /\ dns' = NoProbe
          /\ ctl' = BeginRecovery(ctl, IF mu.kind = "restart-mihomo" THEN ctl.reason ELSE "incomplete")
          /\ owed' = FALSE
     ELSE UNCHANGED <<dns, ctl, owed>>
  /\ UNCHANGED <<mon, flock, desired, health, streak, budget>>

\* The runner: intent first, then the work, which may fail and leave a mess.
RunOperation ==
  /\ mu.pc = "running"
  /\ desired' = CASE mu.kind = "start" -> TRUE [] mu.kind = "stop" -> FALSE [] OTHER -> desired
  /\ \/ /\ ~flock /\ UNCHANGED budget
        /\ mu' = [mu EXCEPT !.pc = "finished", !.result = "ok"]
        /\ health' = IF desired' THEN "ok" ELSE "incomplete"
     \/ /\ flock /\ "contention" \in Errors /\ UNCHANGED <<budget, health>>
        /\ mu' = [mu EXCEPT !.pc = "finished", !.result = "contention"]
     \/ \E e \in Errors \ {"contention"} :
          /\ ~flock /\ Spend("errors")
          /\ mu' = [mu EXCEPT !.pc = "finished", !.result = e]
          /\ health' \in {health, "incomplete"}
  /\ UNCHANGED <<ctl, mon, dns, flock, owed, streak>>

FinishOperation ==
  /\ mu.pc = "finished"
  /\ mu' = [mu EXCEPT !.pc = "done"]
  /\ dns' = IF mu.kind = "restart-mihomo" THEN dns ELSE NoProbe
  /\ ctl' = IF Watched(mu.kind) THEN FinishRecovery(ctl, mu.result, mu.kind # "auto") ELSE ctl
  /\ owed' = (owed \/ (Watched(mu.kind) /\ mu.result # "contention"))
  /\ UNCHANGED <<mon, flock, desired, health, streak, budget>>

Unlock ==
  /\ mu.pc = "done" /\ mu' = NoOperation
  /\ UNCHANGED <<ctl, mon, dns, flock, desired, health, owed, streak, budget>>

OperationStep == BeginManual \/ RunOperation \/ FinishOperation \/ Unlock

----------------------------------------------------------------------------
(* Time and the environment.                                               *)

CooldownElapses ==
  /\ ctl.retry = "cooling"
  /\ ctl' = [ctl EXCEPT !.retry = "due"] /\ owed' = FALSE
  /\ UNCHANGED <<mon, dns, mu, flock, desired, health, streak, budget>>

VerdictExpires ==
  /\ dns.cached
  /\ dns' = [dns EXCEPT !.cached = FALSE]
  /\ UNCHANGED <<ctl, mon, mu, flock, desired, health, owed, streak, budget>>

\* It breaks, breaks in another way, or heals by itself.
GatewayChanges ==
  /\ Spend("breaks")
  /\ health' \in Healths \ {health}
  /\ UNCHANGED <<ctl, mon, dns, mu, flock, desired, owed, streak>>

\* Another program works on the gateway, and leaves it in any condition.
FlockTaken ==
  /\ ~flock /\ mu.pc # "running" /\ Spend("external")
  /\ flock' = TRUE
  /\ UNCHANGED <<ctl, mon, dns, mu, desired, health, owed, streak>>

FlockReleased ==
  /\ flock /\ flock' = FALSE
  /\ health' \in Healths
  /\ UNCHANGED <<ctl, mon, dns, mu, desired, owed, streak, budget>>

Next == \/ MonitorStep \/ OperationStep
        \/ \E a \in Actions : Request(a)
        \/ CooldownElapses \/ VerdictExpires \/ GatewayChanges \/ FlockTaken \/ FlockReleased

Spec == Init /\ [][Next]_vars

\* The ticker keeps the monitor going, operations have a timeout, time passes.
Fairness == /\ WF_vars(MonitorStep) /\ WF_vars(OperationStep)
            /\ WF_vars(CooldownElapses) /\ WF_vars(VerdictExpires) /\ WF_vars(FlockReleased)

FairSpec == Spec /\ Fairness

----------------------------------------------------------------------------
(* Properties.                                                             *)

Dispatched == mon.pc = "locked" /\ mu'.pc = "running"

\* No automatic recovery follows a recovery, automatic or manual, unless the
\* gateway was seen healthy twice, was seen stopped, a cooldown passed, or an
\* operator began a new attempt: a gateway that cannot be healed is not torn
\* down in a loop.  (Once an automatic operation could not be recorded, its late
\* finishAutomatic may meet, and end, the incident of a manual one.)
NoRecoveryLoop == [][Dispatched /\ budget["storage"] = Budget["storage"] => ~owed]_vars

\* The monitor decides to act on a failure.
Decided == mon.pc = "confirmed" /\ mon'.pc = "eligible"

\* The monitor acts on a refusing controller only after two refusals in a row: an
\* unreadable sample or another failure in between starts the count again, across
\* contended and manual operations.  (For a retry after the cooldown one fresh
\* refusal is enough: the count of the incident outlives its failed recovery.)
RefusalConfirmedTwice ==
  [][Decided /\ mon.sample = "refused" => streak' = 2 \/ ctl.retry = "due"]_vars

\* The controller is deaf to observations only while an operation that it was
\* told of is under way, so it is never left deaf.  (It may be listening during
\* one: an automatic operation that could not be recorded ends after its unlock,
\* and may end a manual one's deafness.)
DeafOnlyDuringOperation ==
  ctl.active => \/ mu.pc \in {"running", "finished"} /\ Watched(mu.kind)
                \/ mon.pc = "create_failed"

\* What was met is transient: no error that a retry does not help, no operation
\* that could not be stored, and no restart-mihomo by hand, which may strand an
\* incident (NoStrandedIncident).
Transient == mu.result # "permanent" /\ mu.kind # "restart-mihomo" /\ budget["storage"] = Budget["storage"]

\* A gateway that stays wanted is healthy in the end, whatever timed out, was
\* refused the flock or was not readable on the way.
WantedGatewayRecovers == []Transient /\ <>[]desired => <>[](health = "ok")

(* What the repository says and the code does not keep.                    *)

\* "A later confirmed NAS failure must still be eligible for a throttled
\* recovery, rather than retaining that unknown guard forever."
\* "A transient failed restart must not strand desired-running forever."
NoStrandedIncident == []<>(desired /\ health # "ok" => MayBegin(ctl) \/ ctl.active \/ ctl.retry # "none")
=============================================================================
