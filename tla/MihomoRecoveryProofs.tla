------------------------ MODULE MihomoRecoveryProofs ------------------------
(***************************************************************************)
(* What the recovery controller keeps, for any budget of mishaps, any      *)
(* limit of unknown observations and any subset of the operators' actions. *)
(***************************************************************************)
EXTENDS MihomoRecovery, TLAPS

(* Types.                                                                  *)

LEMMA Zero == 0 \in 0..(HealthyConfirmations - 1) /\ 0 \in 0..2 /\ 0 \in 0..UnknownLimit
  BY RecoveryAssumption DEF HealthyConfirmations

\* The controller's methods keep its type.
LEMMA CoolingType == ASSUME NEW c \in Controller PROVE Cooling(c) \in Controller
  BY DEF Cooling, Controller

LEMMA NoIncidentType == NoIncident \in Controller
  BY RecoveryAssumption DEF NoIncident, Controller, Reasons, HealthyConfirmations

LEMMA HealthyType == ASSUME NEW c \in Controller PROVE ObserveHealthy(c) \in Controller
<1>1. CASE ~c.active /\ c.attempted /\ c.healthy + 1 < HealthyConfirmations
  <2>1. c.healthy + 1 \in 0..(HealthyConfirmations - 1)
    BY <1>1 DEF Controller, HealthyConfirmations
  <2> QED
    BY <1>1, <2>1, Zero DEF ObserveHealthy, Controller
<1> QED
  BY <1>1, NoIncidentType DEF ObserveHealthy

LEMMA StoppedType == ASSUME NEW c \in Controller PROVE ObserveStopped(c) \in Controller
  BY NoIncidentType DEF ObserveStopped

LEMMA PendingType == ASSUME NEW c \in Controller PROVE ObservePending(c) \in Controller
  BY Zero DEF ObservePending, Controller

LEMMA UnknownType == ASSUME NEW c \in Controller PROVE ObserveUnknown(c) \in Controller
<1>1. (IF c.unknown < UnknownLimit THEN c.unknown + 1 ELSE c.unknown) \in 0..UnknownLimit
  BY RecoveryAssumption DEF Controller
<1> QED
  BY <1>1, Zero DEF ObserveUnknown, Controller

LEMMA BeginType == ASSUME NEW c \in Controller, NEW r \in Reasons PROVE BeginRecovery(c, r) \in Controller
  BY Zero DEF BeginRecovery, Controller

LEMMA FinishType ==
  ASSUME NEW c \in Controller, NEW result, NEW manual \in BOOLEAN
  PROVE  FinishRecovery(c, result, manual) \in Controller
<1> DEFINE d == [c EXCEPT !.active = FALSE, !.awaiting = result = "ok",
                          !.attempted = @ \/ manual, !.refused = IF manual THEN 0 ELSE @]
<1>1. /\ (result = "ok") \in BOOLEAN /\ (c.attempted \/ manual) \in BOOLEAN
      /\ (IF manual THEN 0 ELSE c.refused) \in 0..2
  BY Zero DEF Controller
<1>2. d \in Controller
  BY <1>1 DEF Controller
<1> HIDE DEF d
<1>3. /\ [d EXCEPT !.state = "recovering"] \in Controller
      /\ [d EXCEPT !.state = "failed"] \in Controller
      /\ [d EXCEPT !.state = "observing", !.attempted = FALSE, !.refused = 0,
                   !.healthy = 0, !.unknown = 0, !.retry = "none"] \in Controller
  BY <1>2, Zero DEF Controller
<1> QED
  BY <1>3, CoolingType DEF FinishRecovery, d

LEMMA FailureType ==
  ASSUME NEW c0 \in Controller, NEW reason \in NASReasons
  PROVE  ObserveFailure(c0, reason).ctl \in Controller
<1> DEFINE c == [c0 EXCEPT !.healthy = 0, !.unknown = 0]
           rearmed == IF c.state = "failed" /\ c.retry = "due"
                      THEN [c EXCEPT !.attempted = FALSE, !.state = "observing"] ELSE c
           seen == IF rearmed.reason = reason THEN rearmed.refused ELSE 0
           counted == [rearmed EXCEPT !.state = "observing", !.reason = reason,
                         !.refused = LET n == IF rearmed.reason = reason THEN @ ELSE 0 IN
                                     IF reason # "refused" \/ n = 2 THEN n ELSE n + 1]
<1>1. c \in Controller
  BY Zero DEF Controller
<1>2. rearmed \in Controller
  BY <1>1 DEF Controller
<1>3. reason \in Reasons
  BY DEF Reasons
<1>4. counted \in Controller
  <2> HIDE DEF rearmed
  <2>1. (IF reason # "refused" \/ seen = 2 THEN seen ELSE seen + 1) \in 0..2
    BY <1>2 DEF Controller
  <2> QED
    BY <1>2, <1>3, <2>1 DEF Controller
<1>5. [c EXCEPT !.reason = reason] \in Controller /\ [c EXCEPT !.state = "failed", !.reason = reason] \in Controller
  BY <1>1, <1>3 DEF Controller
<1>6. [rearmed EXCEPT !.state = "failed", !.reason = reason] \in Controller
  BY <1>2, <1>3 DEF Controller
<1>7. ObserveFailure(c0, reason).ctl \in {c0, Cooling([c EXCEPT !.reason = reason]),
        Cooling([c EXCEPT !.state = "failed", !.reason = reason]), rearmed, counted, c}
  BY DEF ObserveFailure
<1> QED
  BY <1>1, <1>2, <1>4, <1>5, <1>7, CoolingType
----------------------------------------------------------------------------
(* The inductive invariant: TypeOK and the parts below.                    *)

\* The monitor acts on a failure it has sampled, and is about to dispatch exactly
\* while an automatic operation waits under the lock.
MonitorInv ==
  /\ mon.pc \in {"confirmed", "eligible", "locked"} => mon.sample \in NASReasons
  /\ mon.pc = "sampled" => mon.sample \in NASReasons \cup {"stopped", "pending", "healthy"}
  /\ mon.pc = "locked" <=> mu.kind = "auto" /\ mu.pc = "locked"
  /\ mu.pc = "none" => mu = NoOperation
  /\ mu.kind = "none" => mu.pc = "none"

\* Deafness is an attempt under way; an automatic operation is never overheard.
ActiveInv ==
  /\ DeafOnlyDuringOperation
  /\ ctl.active => ctl.attempted /\ ctl.retry = "none"
  /\ mu.kind = "auto" /\ mu.pc \in {"running", "finished"} => ctl.active /\ mon.pc # "create_failed"

\* Whoever recovers, cools down or awaits health has attempted; a fresh incident has
\* counted no more refusals than were heard in a row.
IncidentInv ==
  /\ ctl.state = "recovering" \/ ctl.retry = "cooling" => ctl.attempted
  /\ ctl.awaiting => ctl.attempted \/ ctl.retry = "due"
  /\ ctl.reason = "refused" /\ ~ctl.attempted /\ ctl.state # "failed" /\ ctl.retry = "none"
       => ctl.refused <= streak

\* While every operation could be recorded: the controller is deaf during each of
\* them, and what a recovery owes shuts the door on the next.
Recorded == budget["storage"] = Budget["storage"]
LoopInv ==
  /\ \A k \in Kinds : budget[k] <= Budget[k]
  /\ Recorded => /\ mon.pc # "create_failed"
                 /\ mu.pc \in {"running", "finished"} /\ Watched(mu.kind) => ctl.active
                 /\ owed => ctl.attempted /\ ctl.retry # "due" /\ ~ctl.active

IInv == TypeOK /\ MonitorInv /\ ActiveInv /\ IncidentInv /\ LoopInv
LEMMA InitInv == Init => IInv
<1> SUFFICES ASSUME Init PROVE IInv
  OBVIOUS
<1> USE DEF Init
<1>1. mon \in Monitor /\ mu \in Operation
  BY DEF Waiting, NoOperation, Monitor, Operation, Samples, Answers
<1>2. dns \in [failures: 0..FailuresRequired, verdict: Answers, cached: BOOLEAN]
  BY DEF NoProbe, Answers, FailuresRequired
<1>a. health \in Healths /\ streak \in 0..2
  BY DEF Healths
<1>c. {flock, desired, owed} \subseteq BOOLEAN
  OBVIOUS
<1>b. budget \in [Kinds -> Nat]
  BY RecoveryAssumption
<1>3. TypeOK
  BY <1>1, <1>2, <1>a, <1>b, <1>c, NoIncidentType DEF TypeOK
<1>4. MonitorInv /\ ActiveInv /\ IncidentInv
  BY DEF MonitorInv, ActiveInv, IncidentInv, DeafOnlyDuringOperation, NoIncident, NoOperation, Waiting
<1>5. LoopInv
  BY RecoveryAssumption DEF LoopInv, NoOperation, Waiting
<1> QED
  BY <1>3, <1>4, <1>5 DEF IInv

\* Budgets are spent one at a time.
LEMMA Spending ==
  ASSUME budget \in [Kinds -> Nat], NEW k \in Kinds, Spend(k)
  PROVE  /\ budget' \in [Kinds -> Nat]
         /\ budget'[k] = budget[k] - 1
         /\ \A j \in Kinds : budget'[j] <= budget[j]
  BY DEF Spend

LEMMA BudgetStep ==
  ASSUME TypeOK, [Next]_vars
  PROVE  budget' \in [Kinds -> Nat] /\ \A j \in Kinds : budget'[j] <= budget[j]
<1> USE DEF TypeOK
<1>1. CASE UNCHANGED budget
  BY <1>1
<1>2. CASE \E k \in Kinds : Spend(k)
  BY <1>2, Spending
<1> QED
  BY <1>1, <1>2 DEF Next, vars, MonitorStep, OperationStep, Poll, ProbeDNS, EndCheck, Conclude, ConcludeFailure,
       TryLock, Dispatch, DispatchFailed, Request, BeginManual, RunOperation, FinishOperation, Unlock,
       CooldownElapses, VerdictExpires, GatewayChanges, FlockTaken, FlockReleased, Kinds

\* Each observation keeps the controller's type, whatever is observed.
LEMMA ControllerStep == ASSUME TypeOK, MonitorInv, [Next]_vars PROVE ctl' \in Controller
<1> USE DEF TypeOK
<1>1. CASE UNCHANGED ctl
  BY <1>1
<1>2. CASE Poll
  BY <1>2, UnknownType DEF Poll, Observe
<1>3. CASE Conclude
  BY <1>3, UnknownType, HealthyType, StoppedType, PendingType DEF Conclude, Observe
<1>4. CASE ConcludeFailure
  BY <1>4, FailureType DEF ConcludeFailure, MonitorInv
<1>5. CASE Dispatch
  BY <1>5, BeginType DEF Dispatch, MonitorInv, Reasons
<1>6. CASE DispatchFailed
  BY <1>6, FinishType DEF DispatchFailed
<1>7. CASE BeginManual
  <2>1. ctl.reason \in Reasons /\ "incomplete" \in Reasons
    BY DEF Controller, Reasons, NASReasons
  <2> QED
    BY <1>7, <2>1, BeginType DEF BeginManual
<1>8. CASE FinishOperation
  BY <1>8, FinishType DEF FinishOperation
<1>9. CASE CooldownElapses
  BY <1>9 DEF CooldownElapses, Controller
<1> QED
  BY <1>1, <1>2, <1>3, <1>4, <1>5, <1>6, <1>7, <1>8, <1>9 DEF Next, vars, MonitorStep, OperationStep,
     ProbeDNS, EndCheck, TryLock, Request, RunOperation, Unlock, VerdictExpires, GatewayChanges, FlockTaken, FlockReleased

LEMMA TypeStep == ASSUME TypeOK, MonitorInv, [Next]_vars PROVE TypeOK'
<1> USE DEF TypeOK, Answers, FailuresRequired
<1>1. mon' \in Monitor
  <2>a. Waiting \in Monitor
    BY DEF Waiting, Monitor, Samples
  <2>b. \A m \in Monitor : \A p \in {"probing", "checking", "sampled", "confirmed", "eligible", "locked", "create_failed"} :
          /\ [m EXCEPT !.pc = p] \in Monitor
          /\ \A s \in Samples : [m EXCEPT !.pc = p, !.sample = s] \in Monitor
          /\ \A w \in Answers : [m EXCEPT !.pc = p, !.answer = w] \in Monitor
    BY DEF Monitor
  <2>c. \A v : SampleOf(v) \in Samples
    BY DEF SampleOf, Samples, NASReasons
  <2>1. CASE Poll
    <3>1. CASE mon' = Waiting
      BY <3>1, <2>a
    <3>2. CASE mon' = [Waiting EXCEPT !.pc = "sampled", !.sample = "stopped"]
      BY <3>2, <2>a, <2>b DEF Samples
    <3>3. CASE health \in NASReasons /\ mon' = [Waiting EXCEPT !.pc = "sampled", !.sample = health]
      BY <3>3, <2>a, <2>b DEF Samples
    <3>4. CASE mon' = [Waiting EXCEPT !.pc = "probing"]
      BY <3>4, <2>a, <2>b
    <3> QED
      BY <2>1, <3>1, <3>2, <3>3, <3>4 DEF Poll, Observe
  <2>2. CASE ProbeDNS
    <3>1. CASE mon' = [mon EXCEPT !.pc = "sampled", !.sample = SampleOf(dns.verdict)]
      BY <3>1, <2>b, <2>c
    <3>2. ASSUME NEW w \in Answers, mon' = [mon EXCEPT !.pc = "checking", !.answer = w] PROVE mon' \in Monitor
      BY <3>2, <2>b
    <3>3. CASE mon' = [mon EXCEPT !.pc = "checking"]
      BY <3>3, <2>b
    <3> QED
      BY <2>2, <3>1, <3>2, <3>3 DEF ProbeDNS
  <2>3. CASE EndCheck
    BY <2>3, <2>a, <2>b, <2>c DEF EndCheck
  <2>4. CASE Conclude
    BY <2>4, <2>a, <2>b DEF Conclude, Observe
  <2>5. CASE ConcludeFailure \/ TryLock \/ Dispatch \/ DispatchFailed
    BY <2>5, <2>a, <2>b DEF ConcludeFailure, TryLock, Dispatch, DispatchFailed
  <2>6. CASE UNCHANGED mon
    BY <2>6
  <2> QED
    BY <2>1, <2>2, <2>3, <2>4, <2>5, <2>6 DEF Next, vars, MonitorStep, OperationStep, Request, BeginManual,
       RunOperation, FinishOperation, Unlock, CooldownElapses, VerdictExpires, GatewayChanges, FlockTaken, FlockReleased
<1>2. mu' \in Operation
  <2> USE DEF Operation, NoOperation
  <2>1. CASE TryLock
    BY <2>1 DEF TryLock
  <2>6. CASE Dispatch
    <3>1. [mu EXCEPT !.pc = "running"] \in Operation
      OBVIOUS
    <3> QED
      BY <2>6, <3>1 DEF Dispatch
  <2>2. ASSUME NEW a \in Actions, Request(a) PROVE mu' \in Operation
    BY <2>2 DEF Request
  <2>3. CASE BeginManual \/ FinishOperation \/ Unlock
    BY <2>3 DEF BeginManual, FinishOperation, Unlock
  <2>4. CASE RunOperation
    BY <2>4 DEF RunOperation
  <2>5. CASE UNCHANGED mu
    BY <2>5
  <2> QED
    BY <2>1, <2>2, <2>3, <2>4, <2>5, <2>6 DEF Next, vars, MonitorStep, OperationStep, Poll, ProbeDNS, EndCheck, Conclude,
       ConcludeFailure, DispatchFailed, CooldownElapses, VerdictExpires, GatewayChanges, FlockTaken, FlockReleased
<1>3. dns' \in [failures: 0..FailuresRequired, verdict: Answers, cached: BOOLEAN]
  <2>1. CASE EndCheck
    <3>1. mon.answer \in Answers
      BY DEF Monitor
    <3> QED
      BY <2>1, <3>1 DEF EndCheck, CheckedDNS
  <2>2. CASE dns' = NoProbe
    BY <2>2 DEF NoProbe
  <2>3. CASE VerdictExpires
    BY <2>3 DEF VerdictExpires
  <2>4. CASE UNCHANGED dns
    BY <2>4
  <2> QED
    BY <2>1, <2>2, <2>3, <2>4 DEF Next, vars, MonitorStep, OperationStep, Poll, ProbeDNS, Conclude, ConcludeFailure,
       TryLock, Dispatch, DispatchFailed, Request, BeginManual, RunOperation, FinishOperation, Unlock,
       CooldownElapses, GatewayChanges, FlockTaken, FlockReleased
<1>4. {flock', desired', owed'} \subseteq BOOLEAN
  <2> USE DEF Next, vars, MonitorStep, OperationStep, Poll, ProbeDNS, EndCheck, Conclude, ConcludeFailure,
       TryLock, Dispatch, DispatchFailed, Request, BeginManual, RunOperation, FinishOperation, Unlock,
       CooldownElapses, VerdictExpires, GatewayChanges, FlockTaken, FlockReleased
  <2>1. flock' \in BOOLEAN
    OBVIOUS
  <2>2. desired' \in BOOLEAN
    OBVIOUS
  <2>3. owed' \in BOOLEAN
    OBVIOUS
  <2> QED
    BY <2>1, <2>2, <2>3
<1>5. health' \in Healths
  BY DEF Next, vars, MonitorStep, OperationStep, Poll, ProbeDNS, EndCheck, Conclude, ConcludeFailure,
       TryLock, Dispatch, DispatchFailed, Request, BeginManual, RunOperation, FinishOperation, Unlock,
       CooldownElapses, VerdictExpires, GatewayChanges, FlockTaken, FlockReleased, Healths, NASReasons
<1>6. streak' \in 0..2
  <2>1. CASE ConcludeFailure
    BY <2>1 DEF ConcludeFailure
  <2>2. CASE UNCHANGED streak \/ streak' = 0
    BY <2>2
  <2> QED
    BY <2>1, <2>2 DEF Next, vars, MonitorStep, OperationStep, Poll, ProbeDNS, EndCheck, Conclude, Observe,
       TryLock, Dispatch, DispatchFailed, Request, BeginManual, RunOperation, FinishOperation, Unlock,
       CooldownElapses, VerdictExpires, GatewayChanges, FlockTaken, FlockReleased
<1> QED
  BY <1>1, <1>2, <1>3, <1>4, <1>5, <1>6, ControllerStep, BudgetStep
----------------------------------------------------------------------------
(* Preservation.                                                           *)

LEMMA MonitorStepKeeps == ASSUME TypeOK, MonitorInv, [Next]_vars PROVE MonitorInv'
<1> USE DEF MonitorInv, NoOperation, Waiting
<1>t. mon \in Monitor /\ mu \in Operation /\ "none" \notin Actions /\ "auto" \notin Actions
  BY RecoveryAssumption DEF TypeOK
<1>m. ASSUME UNCHANGED mu, mon.pc # "locked", mon'.pc \notin {"eligible", "locked"},
             mon'.pc = "confirmed" => mon'.sample \in NASReasons,
             mon'.pc = "sampled" => mon'.sample \in NASReasons \cup {"stopped", "pending", "healthy"}
      PROVE  MonitorInv'
  BY <1>m
<1>1. CASE Poll
  <2>1. CASE mon' = Waiting
    BY <1>1, <2>1, <1>m DEF Poll
  <2>2. CASE mon' = [Waiting EXCEPT !.pc = "sampled", !.sample = "stopped"]
    BY <1>1, <2>2, <1>m DEF Poll
  <2>3. CASE health \in NASReasons /\ mon' = [Waiting EXCEPT !.pc = "sampled", !.sample = health]
    BY <1>1, <2>3, <1>m DEF Poll
  <2>4. CASE mon' = [Waiting EXCEPT !.pc = "probing"]
    BY <1>1, <2>4, <1>m DEF Poll
  <2> QED
    BY <1>1, <2>1, <2>2, <2>3, <2>4 DEF Poll, Observe
<1>2. CASE ProbeDNS \/ EndCheck
  BY <1>2, <1>t DEF ProbeDNS, EndCheck, SampleOf, NASReasons, Monitor
<1>3. CASE Conclude
  <2>1. CASE mon' = Waiting
    BY <1>3, <2>1, <1>m DEF Conclude
  <2>2. CASE mon.sample \in NASReasons /\ mon' = [mon EXCEPT !.pc = "confirmed"]
    <3>1. mon'.pc = "confirmed" /\ mon'.sample = mon.sample
      BY <2>2, <1>t DEF Monitor
    <3> QED
      BY <1>3, <2>2, <3>1, <1>m DEF Conclude
  <2> QED
    BY <1>3, <2>1, <2>2 DEF Conclude, Observe
<1>4. CASE ConcludeFailure
  BY <1>4, <1>t DEF ConcludeFailure, Monitor
<1>5. CASE TryLock
  <2>1. CASE mu = NoOperation
    <3>1. /\ mu'.kind = "auto" /\ mu'.pc = "locked"
          /\ mon'.pc = "locked" /\ mon'.sample = mon.sample
      BY <1>5, <2>1, <1>t DEF TryLock, Monitor
    <3> QED
      BY <1>5, <3>1 DEF TryLock
  <2>2. CASE UNCHANGED mu /\ mon' = Waiting
    BY <1>5, <2>2, <1>m DEF TryLock
  <2> QED
    BY <1>5, <2>1, <2>2 DEF TryLock
<1>6. CASE Dispatch
  BY <1>6, <1>t DEF Dispatch, Operation
<1>7. CASE DispatchFailed
  BY <1>7, <1>t DEF DispatchFailed
<1>8. ASSUME NEW a \in Actions, Request(a) PROVE MonitorInv'
  BY <1>8, <1>t DEF Request
<1>9. CASE BeginManual \/ RunOperation \/ FinishOperation
  <2>1. UNCHANGED mon /\ mu'.kind = mu.kind /\ mu.pc # "none" /\ mu'.pc \notin {"none", "locked"}
    BY <1>9, <1>t DEF BeginManual, RunOperation, FinishOperation, Operation
  <2>2. ~(mu.kind = "auto" /\ mu.pc = "locked")
    BY <1>9 DEF BeginManual, RunOperation, FinishOperation
  <2> QED
    BY <2>1, <2>2
<1>11. CASE Unlock
  BY <1>11 DEF Unlock
<1>10. CASE UNCHANGED <<mon, mu>>
  BY <1>10
<1> QED
  BY <1>1, <1>2, <1>3, <1>4, <1>5, <1>6, <1>7, <1>8, <1>9, <1>10, <1>11 DEF Next, vars, MonitorStep, OperationStep,
     CooldownElapses, VerdictExpires, GatewayChanges, FlockTaken, FlockReleased

\* While the controller is deaf an observation changes nothing; while it listens,
\* one never makes it deaf.
LEMMA Listening ==
  ASSUME NEW c \in Controller
  PROVE  \A d \in {ObserveUnknown(c), ObserveHealthy(c), ObserveStopped(c), ObservePending(c)}
                    \cup {ObserveFailure(c, r).ctl : r \in NASReasons} :
           /\ c.active => d = c
           /\ ~c.active => ~d.active
<1>1. /\ c.active => /\ ObserveUnknown(c) = c /\ ObserveHealthy(c) = c
                     /\ ObserveStopped(c) = c /\ ObservePending(c) = c
      /\ ~c.active => /\ ~ObserveUnknown(c).active /\ ~ObserveHealthy(c).active
                      /\ ~ObserveStopped(c).active /\ ~ObservePending(c).active
  BY DEF ObserveUnknown, ObserveHealthy, ObserveStopped, ObservePending, NoIncident, Controller
<1>2. ASSUME NEW r \in NASReasons PROVE /\ c.active => ObserveFailure(c, r).ctl = c
                                        /\ ~c.active => ~ObserveFailure(c, r).ctl.active
  BY DEF ObserveFailure, Cooling, Controller
<1> QED
  BY <1>1, <1>2

\* What an observation, an attempt and its end do to the controller.
LEMMA Begun ==
  ASSUME NEW c \in Controller, NEW r
  PROVE  LET d == BeginRecovery(c, r) IN
         d.state = "recovering" /\ d.reason = r /\ d.attempted /\ d.active /\ ~d.awaiting /\ d.retry = "none"
  BY DEF BeginRecovery, Controller

LEMMA Finished ==
  ASSUME ctl \in Controller, ctl.attempted \/ mu.kind # "auto",
         ctl' = FinishRecovery(ctl, mu.result, mu.kind # "auto")
  PROVE  /\ ~ctl'.active
         /\ \/ ctl'.state = "recovering" /\ ctl'.attempted /\ ctl'.retry = ctl.retry
            \/ /\ ctl'.state = "observing" /\ ctl'.refused = 0 /\ ctl'.retry = "none" /\ ~ctl'.awaiting
               /\ mu.result = "contention"
            \/ ctl'.state = "failed" /\ ctl'.attempted /\ ~ctl'.awaiting /\ ctl'.retry \in {ctl.retry, "cooling"}
<1> DEFINE manual == mu.kind # "auto"
           e == [ctl EXCEPT !.active = FALSE, !.awaiting = mu.result = "ok",
                            !.attempted = @ \/ manual, !.refused = IF manual THEN 0 ELSE @]
<1>1. /\ ~e.active /\ e.attempted /\ e.reason = ctl.reason /\ e.retry = ctl.retry
      /\ e.awaiting <=> mu.result = "ok"
  BY DEF Controller
<1>2. /\ DOMAIN e = DOMAIN ctl
      /\ DOMAIN ctl = {"state", "reason", "refused", "healthy", "unknown",
                       "attempted", "active", "awaiting", "retry"}
  BY DEF Controller
<1>3. ctl' = CASE mu.result = "ok" -> [e EXCEPT !.state = "recovering"]
               [] mu.result = "contention" /\ e.reason \in NASReasons ->
                    [e EXCEPT !.state = "observing", !.attempted = FALSE, !.refused = 0,
                              !.healthy = 0, !.unknown = 0, !.retry = "none"]
               [] mu.result = "timeout" -> Cooling([e EXCEPT !.state = "failed"])
               [] OTHER -> [e EXCEPT !.state = "failed"]
  BY DEF FinishRecovery
<1> HIDE DEF e
<1>4. CASE mu.result = "ok"
  BY <1>1, <1>2, <1>3, <1>4
<1>5. CASE mu.result = "contention" /\ e.reason \in NASReasons
  BY <1>1, <1>2, <1>3, <1>5
<1>6. CASE mu.result = "timeout"
  BY <1>1, <1>2, <1>3, <1>6 DEF Cooling
<1>7. CASE mu.result \notin {"ok", "timeout"} /\ ~(mu.result = "contention" /\ e.reason \in NASReasons)
  BY <1>1, <1>2, <1>3, <1>7
<1> QED
  BY <1>4, <1>5, <1>6, <1>7

LEMMA Unrecorded ==
  ASSUME NEW c \in Controller
  PROVE  LET d == FinishRecovery(c, "permanent", FALSE) IN
         ~d.active /\ d.state = "failed" /\ (d.attempted <=> c.attempted) /\ ~d.awaiting /\ d.retry = c.retry
  BY DEF FinishRecovery, Controller

LEMMA ActiveStep ==
  ASSUME TypeOK, MonitorInv, ActiveInv, [Next]_vars
  PROVE  ActiveInv'
<1> USE DEF ActiveInv, DeafOnlyDuringOperation, Watched
<1>t. mon \in Monitor /\ mu \in Operation /\ ctl \in Controller
  BY DEF TypeOK
<1>1. ASSUME UNCHANGED mu, mon.pc # "create_failed", mon'.pc # "create_failed",
             ctl.active => ctl' = ctl, ~ctl.active => ~ctl'.active
      PROVE  ActiveInv'
  BY <1>1
<1>2. CASE Poll \/ Conclude \/ ConcludeFailure
  <2>1. mon.pc # "create_failed" /\ UNCHANGED mu
    BY <1>2 DEF Poll, Conclude, ConcludeFailure
  <2>2. mon'.pc # "create_failed"
    <3>1. /\ \A q : [Waiting EXCEPT !.pc = "sampled", !.sample = q].pc = "sampled"
          /\ [Waiting EXCEPT !.pc = "probing"].pc = "probing"
          /\ [mon EXCEPT !.pc = "confirmed"].pc = "confirmed" /\ [mon EXCEPT !.pc = "eligible"].pc = "eligible"
      BY <1>t DEF Waiting, Monitor
    <3>2. Waiting.pc = "idle"
      BY DEF Waiting
    <3>3. CASE Poll
      <4>1. mon' \in {Waiting, [Waiting EXCEPT !.pc = "sampled", !.sample = "stopped"],
                      [Waiting EXCEPT !.pc = "sampled", !.sample = health], [Waiting EXCEPT !.pc = "probing"]}
        BY <3>3 DEF Poll, Observe
      <4> QED
        BY <4>1, <3>1, <3>2
    <3>4. CASE Conclude \/ ConcludeFailure
      <4>1. mon' \in {Waiting, [mon EXCEPT !.pc = "confirmed"], [mon EXCEPT !.pc = "eligible"]}
        BY <3>4 DEF Conclude, ConcludeFailure, Observe
      <4> QED
        BY <4>1, <3>1, <3>2
    <3> QED
      BY <1>2, <3>3, <3>4
  <2>3. ctl' = ctl \/ ctl' \in {ObserveUnknown(ctl), ObserveHealthy(ctl), ObserveStopped(ctl), ObservePending(ctl)}
                           \cup {ObserveFailure(ctl, r).ctl : r \in NASReasons}
    <3>1. CASE Poll
      BY <3>1 DEF Poll, Observe
    <3>2. CASE Conclude
      BY <3>2 DEF Conclude, Observe
    <3>3. CASE ConcludeFailure
      BY <3>3 DEF ConcludeFailure, MonitorInv
    <3> QED
      BY <1>2, <3>1, <3>2, <3>3
  <2> QED
    BY <1>t, <1>1, <2>1, <2>2, <2>3, Listening
<1>3. CASE ProbeDNS \/ EndCheck
  BY <1>3, <1>t DEF ProbeDNS, EndCheck, Waiting, Monitor
<1>4. CASE TryLock
  <2>1. /\ UNCHANGED ctl /\ mon.pc # "create_failed" /\ mon'.pc # "create_failed"
    BY <1>4, <1>t DEF TryLock, Waiting, Monitor
  <2>2. UNCHANGED mu \/ (mu = NoOperation /\ mu'.pc = "locked")
    <3>1. [NoOperation EXCEPT !.kind = "auto", !.pc = "locked"].pc = "locked"
      BY DEF NoOperation
    <3> QED
      BY <1>4, <3>1 DEF TryLock
  <2> QED
    BY <2>1, <2>2 DEF NoOperation
<1>5. CASE Dispatch
  <2>1. mu.kind = "auto" /\ mu.pc = "locked" /\ ~ctl.active
    BY <1>5, <1>t DEF Dispatch, MonitorInv
  <2>2. CASE MayBegin(ctl)
    <3>1. ctl'.active /\ ctl'.attempted /\ ctl'.retry = "none"
      BY <1>5, <1>t, <2>2, Begun DEF Dispatch
    <3>2. \/ mu'.kind = "auto" /\ mu'.pc = "running" /\ mon'.pc = "idle"
          \/ mu'.kind = "none" /\ mon'.pc = "create_failed"
      BY <1>5, <1>t, <2>1, <2>2 DEF Dispatch, NoOperation, Waiting, Operation
    <3> QED
      BY <3>1, <3>2
  <2>3. CASE ~MayBegin(ctl)
    BY <1>5, <2>1, <2>3 DEF Dispatch, NoOperation, Waiting
  <2> QED
    BY <2>2, <2>3
<1>6. CASE DispatchFailed
  <2>1. ~ctl'.active /\ UNCHANGED mu /\ mon.pc = "create_failed"
    BY <1>6, <1>t, Unrecorded DEF DispatchFailed
  <2> QED
    BY <2>1
<1>7. ASSUME NEW a \in Actions, Request(a) PROVE ActiveInv'
  BY <1>7 DEF Request, NoOperation
<1>8. CASE BeginManual
  <2>1. mu'.pc = "running" /\ mu'.kind = mu.kind /\ mu.kind # "auto" /\ mu.pc = "locked" /\ UNCHANGED mon
    BY <1>8, <1>t DEF BeginManual, Operation
  <2>2. CASE Watched(mu.kind)
    BY <1>8, <1>t, <2>1, <2>2, Begun DEF BeginManual
  <2>3. CASE ~Watched(mu.kind)
    BY <1>8, <2>1, <2>3 DEF BeginManual
  <2> QED
    BY <2>2, <2>3
<1>9. CASE RunOperation
  <2>1. mu'.pc = "finished" /\ mu'.kind = mu.kind /\ mu.pc = "running" /\ UNCHANGED <<mon, ctl>>
    BY <1>9, <1>t DEF RunOperation, Operation
  <2> QED
    BY <2>1
<1>10. CASE FinishOperation
  <2>1. mu'.pc = "done" /\ mu'.kind = mu.kind /\ mu.pc = "finished" /\ UNCHANGED mon
    BY <1>10, <1>t DEF FinishOperation, Operation
  <2>2. CASE Watched(mu.kind)
    <3>1. ctl.attempted \/ mu.kind # "auto"
      BY <2>1
    <3>2. ~ctl'.active
      BY <1>10, <1>t, <2>2, <3>1, Finished DEF FinishOperation
    <3> QED
      BY <2>1, <3>2
  <2>3. CASE ~Watched(mu.kind)
    BY <1>10, <2>1, <2>3 DEF FinishOperation
  <2> QED
    BY <2>2, <2>3
<1>11. CASE Unlock
  BY <1>11 DEF Unlock, NoOperation
<1>12. CASE CooldownElapses
  <2>1. ~ctl.active /\ ctl'.active = ctl.active /\ UNCHANGED <<mon, mu>>
    BY <1>12, <1>t DEF CooldownElapses, Controller
  <2> QED
    BY <2>1
<1>13. CASE UNCHANGED <<ctl, mon, mu>>
  BY <1>13
<1> QED
  BY <1>2, <1>3, <1>4, <1>5, <1>6, <1>7, <1>8, <1>9, <1>10, <1>11, <1>12, <1>13
     DEF Next, vars, MonitorStep, OperationStep, VerdictExpires, GatewayChanges, FlockTaken, FlockReleased
\* What a failure makes of a listening controller, and when the monitor acts on it.
LEMMA Failed ==
  ASSUME NEW c \in Controller, NEW r \in NASReasons, ~c.active, c.state = "recovering" => c.attempted
  PROVE  LET d == ObserveFailure(c, r).ctl
             act == ObserveFailure(c, r).act IN
         \/ \* held, with a cooldown
            /\ d.state = "failed" /\ d.retry = "cooling" /\ ~act
            /\ d.attempted = c.attempted /\ d.awaiting = c.awaiting
            /\ c.attempted \/ (c.awaiting /\ c.retry = "none")
         \/ \* held
            /\ d.state = c.state /\ d.retry = c.retry /\ ~act
            /\ d.attempted = c.attempted /\ d.awaiting = c.awaiting
            /\ c.attempted \/ c.state = "failed"
         \/ \* counted, for a retry that is due
            /\ d.state = "observing" /\ ~d.attempted /\ d.retry = "due" /\ c.retry = "due"
         \/ \* counted, for a fresh incident
            /\ d.state = "observing" /\ ~d.attempted /\ ~c.attempted /\ c.state # "failed"
            /\ d.retry = c.retry /\ d.reason = r /\ d.awaiting = c.awaiting
            /\ LET seen == IF c.reason = r THEN c.refused ELSE 0 IN
               d.refused = IF r # "refused" \/ seen = 2 THEN seen ELSE seen + 1
            /\ act /\ r = "refused" => d.refused >= 2
<1> DEFINE z == [c EXCEPT !.healthy = 0, !.unknown = 0]
<1>1. /\ z.state = c.state /\ z.reason = c.reason /\ z.refused = c.refused /\ z.attempted = c.attempted
      /\ z.active = c.active /\ z.awaiting = c.awaiting /\ z.retry = c.retry
      /\ DOMAIN z = DOMAIN c /\ DOMAIN c = {"state", "reason", "refused", "healthy", "unknown",
                                            "attempted", "active", "awaiting", "retry"}
  BY DEF Controller
<1> HIDE DEF z
<1> DEFINE again == [z EXCEPT !.attempted = FALSE, !.state = "observing"]
           Counted(e) == [e EXCEPT !.state = "observing", !.reason = r,
                            !.refused = LET seen == IF e.reason = r THEN @ ELSE 0 IN
                                        IF r # "refused" \/ seen = 2 THEN seen ELSE seen + 1]
           Due == z.state = "failed" /\ z.retry = "due"
<1>2. ObserveFailure(c, r) =
        IF z.state = "failed" /\ z.awaiting /\ z.retry = "none" /\ z.reason \in NASReasons
        THEN [ctl |-> Cooling([z EXCEPT !.reason = r]), act |-> FALSE]
        ELSE IF ~Due /\ z.attempted /\ z.state = "recovering"
        THEN [ctl |-> Cooling([z EXCEPT !.state = "failed", !.reason = r]), act |-> FALSE]
        ELSE IF ~Due /\ (z.attempted \/ z.state = "failed") THEN [ctl |-> z, act |-> FALSE]
        ELSE IF Due THEN [ctl |-> Counted(again), act |-> r = "refused" => Counted(again).refused >= 2]
        ELSE [ctl |-> Counted(z), act |-> r = "refused" => Counted(z).refused >= 2]
  <2>1. CASE z.state = "failed" /\ z.awaiting /\ z.retry = "none" /\ z.reason \in NASReasons
    BY <1>1, <2>1 DEF ObserveFailure, z
  <2>2. CASE Due
    <3>1. again.attempted = FALSE /\ again.state = "observing" /\ again.reason = z.reason /\ again.refused = z.refused
      BY <1>1
    <3> QED
      BY <1>1, <2>2, <3>1 DEF ObserveFailure, z
  <2>3. CASE ~Due /\ ~(z.state = "failed" /\ z.awaiting /\ z.retry = "none" /\ z.reason \in NASReasons)
    BY <1>1, <2>3 DEF ObserveFailure, z
  <2> QED
    BY <2>1, <2>2, <2>3
<1>3. \A e \in {[z EXCEPT !.reason = r], [z EXCEPT !.state = "failed", !.reason = r]} :
        /\ Cooling(e).attempted = z.attempted /\ Cooling(e).awaiting = z.awaiting /\ Cooling(e).refused = z.refused
        /\ Cooling(e).state = e.state /\ Cooling(e).retry = "cooling"
  BY <1>1 DEF Cooling
<1>4. /\ again.attempted = FALSE /\ again.state = "observing" /\ again.retry = z.retry /\ again.awaiting = z.awaiting
      /\ again.reason = z.reason /\ again.refused = z.refused /\ DOMAIN again = DOMAIN z
  BY <1>1
<1>5. \A e \in {again, z} :
        LET seen == IF e.reason = r THEN e.refused ELSE 0 IN
        /\ Counted(e).state = "observing" /\ Counted(e).reason = r /\ Counted(e).attempted = e.attempted
        /\ Counted(e).retry = e.retry /\ Counted(e).awaiting = e.awaiting
        /\ Counted(e).refused = IF r # "refused" \/ seen = 2 THEN seen ELSE seen + 1
  BY <1>1, <1>4
<1> HIDE DEF again, Counted
<1> QED
  BY <1>1, <1>2, <1>3, <1>4, <1>5 DEF Controller
LEMMA Observed ==
  ASSUME NEW c \in Controller, ~c.active, c.state = "recovering" => c.attempted,
         NEW d \in {ObserveUnknown(c), ObserveHealthy(c), ObserveStopped(c), ObservePending(c)}
  PROVE  \/ d = NoIncident
         \/ /\ d.attempted = c.attempted /\ d.retry = c.retry /\ d.awaiting = c.awaiting
            /\ d.reason = c.reason
            /\ \/ c.attempted
               \/ d.state = c.state /\ d.refused = 0
<1>1. \/ ObserveUnknown(c) = [c EXCEPT !.healthy = 0, !.refused = 0]
      \/ /\ c.attempted
         /\ \E n, s : ObserveUnknown(c) = [c EXCEPT !.healthy = 0, !.refused = 0, !.unknown = n, !.state = s]
  BY DEF ObserveUnknown
<1>2. \/ ObserveHealthy(c) = NoIncident
      \/ c.attempted /\ ObserveHealthy(c) = [c EXCEPT !.unknown = 0, !.healthy = @ + 1, !.state = "recovering"]
  BY DEF ObserveHealthy
<1>3. ObserveStopped(c) = NoIncident /\ ObservePending(c) = [c EXCEPT !.healthy = 0, !.refused = 0]
  BY DEF ObserveStopped, ObservePending
<1>4. CASE d = ObserveUnknown(c)
  BY <1>1, <1>4 DEF Controller
<1>5. CASE d = ObserveHealthy(c)
  BY <1>2, <1>5 DEF Controller
<1>6. CASE d \in {ObserveStopped(c), ObservePending(c)}
  BY <1>3, <1>6 DEF Controller
<1> QED
  BY <1>4, <1>5, <1>6

\* An observation without a failure ends the count of refusals, or hears nothing.
LEMMA Quiet ==
  ASSUME TypeOK, MonitorInv, Poll \/ Conclude
  PROVE  \/ UNCHANGED <<ctl, streak>>
         \/ /\ ctl' \in {ObserveUnknown(ctl), ObserveHealthy(ctl), ObserveStopped(ctl), ObservePending(ctl)}
            /\ streak' = IF ctl.active THEN streak ELSE 0
<1>1. CASE Poll
  BY <1>1 DEF Poll, Observe
<1>2. CASE Conclude
  BY <1>2 DEF Conclude, Observe
<1> QED
  BY <1>1, <1>2

LEMMA IncidentStep ==
  ASSUME TypeOK, MonitorInv, ActiveInv, IncidentInv, [Next]_vars
  PROVE  /\ IncidentInv'
         /\ Decided /\ mon.sample = "refused" => streak' = 2 \/ ctl.retry = "due"
<1> DEFINE Acts == Decided /\ mon.sample = "refused" => streak' = 2 \/ ctl.retry = "due"
<1> USE DEF IncidentInv
<1>t. mon \in Monitor /\ mu \in Operation /\ ctl \in Controller /\ streak \in 0..2
  BY DEF TypeOK
<1>w. Waiting.pc = "idle"
  BY DEF Waiting
<1>a. ASSUME UNCHANGED <<ctl, streak>> PROVE IncidentInv'
  BY <1>a
<1>b. ASSUME mon.pc # "confirmed" PROVE Acts
  BY <1>b DEF Decided
<1>1. CASE Poll \/ Conclude
  <2>1. mon.pc # "confirmed"
    BY <1>1 DEF Poll, Conclude
  <2>2. CASE ctl.active
    <3>1. UNCHANGED <<ctl, streak>>
      BY <1>1, <1>t, <2>2, Quiet, Listening
    <3> QED
      BY <1>a, <1>b, <2>1, <3>1
  <2>3. CASE ~ctl.active
    <3>1. CASE /\ ctl' \in {ObserveUnknown(ctl), ObserveHealthy(ctl), ObserveStopped(ctl), ObservePending(ctl)}
               /\ streak' = 0
      <4>1. CASE ctl' = NoIncident
        BY <1>b, <2>1, <4>1 DEF NoIncident
      <4>2. CASE /\ ctl'.attempted = ctl.attempted /\ ctl'.retry = ctl.retry /\ ctl'.awaiting = ctl.awaiting
                 /\ ctl'.reason = ctl.reason
                 /\ \/ ctl.attempted
                    \/ ctl'.state = ctl.state /\ ctl'.refused = 0
        BY <1>b, <2>1, <3>1, <4>2
      <4> QED
        BY <1>t, <2>3, <3>1, <4>1, <4>2, Observed
    <3> QED
      BY <1>1, <1>a, <1>b, <2>1, <2>3, <3>1, Quiet
  <2> QED
    BY <1>b, <2>1, <2>2, <2>3
<1>2. CASE ConcludeFailure
  <2>r. mon.sample \in NASReasons
    BY <1>2 DEF ConcludeFailure, MonitorInv
  <2>m. Decided => ObserveFailure(ctl, mon.sample).act
    BY <1>2, <1>w DEF ConcludeFailure, Decided
  <2>c. ctl' = ObserveFailure(ctl, mon.sample).ctl
    BY <1>2 DEF ConcludeFailure
  <2>1. CASE ctl.active
    <3>1. ctl' = ctl /\ streak' = streak /\ ~ObserveFailure(ctl, mon.sample).act
      BY <1>2, <1>t, <2>1, <2>c DEF ConcludeFailure, ObserveFailure
    <3> QED
      BY <1>a, <2>m, <3>1
  <2>2. CASE ~ctl.active
    <3>1. streak' = IF mon.sample # "refused" THEN 0 ELSE IF streak = 2 THEN 2 ELSE streak + 1
      BY <1>2, <2>2 DEF ConcludeFailure
    <3>2. ctl.refused \in 0..2
      BY <1>t DEF Controller
    <3> DEFINE d == ObserveFailure(ctl, mon.sample).ctl
               act == ObserveFailure(ctl, mon.sample).act
    <3>a. ctl.attempted \in BOOLEAN /\ ctl.state \in {"idle", "observing", "recovering", "failed"}
      BY <1>t DEF Controller
    <3>3. CASE d.state = "failed" /\ d.retry = "cooling" /\ ~act /\ d.attempted = ctl.attempted
               /\ d.awaiting = ctl.awaiting /\ (ctl.attempted \/ (ctl.awaiting /\ ctl.retry = "none"))
      <4>1. ctl'.attempted /\ ctl'.state = "failed"
        BY <2>c, <3>3
      <4> QED
        BY <2>m, <3>3, <4>1
    <3>4. CASE d.state = ctl.state /\ d.retry = ctl.retry /\ ~act /\ d.attempted = ctl.attempted
               /\ d.awaiting = ctl.awaiting /\ (ctl.attempted \/ ctl.state = "failed")
      BY <2>m, <2>c, <3>4
    <3>5. CASE d.state = "observing" /\ ~d.attempted /\ d.retry = "due" /\ ctl.retry = "due"
      BY <2>m, <2>c, <3>5
    <3>6. CASE /\ d.state = "observing" /\ ~d.attempted /\ ~ctl.attempted /\ ctl.state # "failed"
               /\ d.retry = ctl.retry /\ d.reason = mon.sample /\ d.awaiting = ctl.awaiting
               /\ LET seen == IF ctl.reason = mon.sample THEN ctl.refused ELSE 0 IN
                  d.refused = IF mon.sample # "refused" \/ seen = 2 THEN seen ELSE seen + 1
               /\ act /\ mon.sample = "refused" => d.refused >= 2
      <4>1. mon.sample = "refused" /\ ctl.retry = "none" => d.refused <= streak'
        BY <1>t, <3>1, <3>2, <3>6
      <4>2. ctl.retry \in {"none", "due"}
        BY <1>t, <3>6 DEF Controller
      <4>3. streak' \in 0..2
        BY <1>t, <3>1
      <4>4. Acts
        BY <2>m, <3>2, <3>6, <4>1, <4>2, <4>3
      <4> QED
        BY <2>c, <3>6, <4>1, <4>2, <4>4
    <3> HIDE DEF d, act
    <3>7. \/ d.state = "failed" /\ d.retry = "cooling" /\ ~act /\ d.attempted = ctl.attempted
             /\ d.awaiting = ctl.awaiting /\ (ctl.attempted \/ (ctl.awaiting /\ ctl.retry = "none"))
          \/ d.state = ctl.state /\ d.retry = ctl.retry /\ ~act /\ d.attempted = ctl.attempted
             /\ d.awaiting = ctl.awaiting /\ (ctl.attempted \/ ctl.state = "failed")
          \/ d.state = "observing" /\ ~d.attempted /\ d.retry = "due" /\ ctl.retry = "due"
          \/ /\ d.state = "observing" /\ ~d.attempted /\ ~ctl.attempted /\ ctl.state # "failed"
             /\ d.retry = ctl.retry /\ d.reason = mon.sample /\ d.awaiting = ctl.awaiting
             /\ LET seen == IF ctl.reason = mon.sample THEN ctl.refused ELSE 0 IN
                d.refused = IF mon.sample # "refused" \/ seen = 2 THEN seen ELSE seen + 1
             /\ act /\ mon.sample = "refused" => d.refused >= 2
      BY <1>t, <2>r, <2>2, Failed DEF d, act
    <3> QED
      BY <3>3, <3>4, <3>5, <3>6, <3>7
  <2> QED
    BY <2>1, <2>2
<1>3. CASE Dispatch
  <2>1. ctl' = ctl \/ ctl' = BeginRecovery(ctl, mon.sample)
    BY <1>3 DEF Dispatch
  <2>2. mon.pc # "confirmed" /\ UNCHANGED streak
    BY <1>3 DEF Dispatch
  <2> QED
    BY <1>t, <1>a, <1>b, <2>1, <2>2, Begun
<1>4. CASE DispatchFailed
  <2>1. mon.pc # "confirmed" /\ ctl' = FinishRecovery(ctl, "permanent", FALSE)
    BY <1>4 DEF DispatchFailed
  <2>2. ctl'.state = "failed" /\ (ctl'.attempted <=> ctl.attempted) /\ ~ctl'.awaiting /\ ctl'.retry = ctl.retry
    BY <1>t, <2>1, Unrecorded
  <2> QED
    BY <1>b, <2>1, <2>2
<1>5. CASE BeginManual
  <2>1. UNCHANGED <<mon, streak>> /\ (ctl' = ctl \/ \E r : ctl' = BeginRecovery(ctl, r))
    BY <1>5 DEF BeginManual
  <2> QED
    BY <1>t, <1>a, <2>1, Begun DEF Decided
<1>6. CASE FinishOperation
  <2>1. UNCHANGED <<mon, streak>>
    BY <1>6 DEF FinishOperation
  <2>2. CASE Watched(mu.kind)
    <3>1. ctl' = FinishRecovery(ctl, mu.result, mu.kind # "auto")
      BY <1>6, <2>2 DEF FinishOperation
    <3>2. ctl.attempted \/ mu.kind # "auto"
      BY <1>6 DEF FinishOperation, ActiveInv
    <3>4. \/ ctl'.state = "recovering" /\ ctl'.attempted
          \/ ctl'.state = "observing" /\ ctl'.refused = 0 /\ ctl'.retry = "none" /\ ~ctl'.awaiting
          \/ ctl'.state = "failed" /\ ctl'.attempted
      BY <1>t, <3>1, <3>2, Finished
    <3>5. 0 <= streak
      BY <1>t
    <3> QED
      BY <2>1, <3>4, <3>5 DEF Decided
  <2>3. CASE UNCHANGED ctl
    BY <1>a, <2>1, <2>3 DEF Decided
  <2> QED
    BY <1>6, <2>2, <2>3 DEF FinishOperation
<1>7. CASE CooldownElapses
  <2>1. UNCHANGED <<mon, streak>> /\ ctl'.attempted = ctl.attempted /\ ctl'.state = ctl.state /\ ctl'.retry = "due"
    BY <1>7, <1>t DEF CooldownElapses, Controller
  <2> QED
    BY <2>1 DEF Decided
<1>8. CASE UNCHANGED <<ctl, streak>> /\ (UNCHANGED mon \/ mon.pc # "confirmed")
  BY <1>8, <1>a, <1>b DEF Decided
<1> QED
  BY <1>1, <1>2, <1>3, <1>4, <1>5, <1>6, <1>7, <1>8
     DEF Next, vars, MonitorStep, OperationStep, ProbeDNS, EndCheck, TryLock, Request, RunOperation, Unlock,
         VerdictExpires, GatewayChanges, FlockTaken, FlockReleased
LEMMA LoopStep ==
  ASSUME TypeOK, MonitorInv, ActiveInv, IncidentInv, LoopInv, [Next]_vars
  PROVE  /\ LoopInv'
         /\ Dispatched /\ Recorded => ~owed
<1> DEFINE Once == /\ mon.pc # "create_failed"
                   /\ mu.pc \in {"running", "finished"} /\ Watched(mu.kind) => ctl.active
                   /\ owed => ctl.attempted /\ ctl.retry # "due" /\ ~ctl.active
<1>t. mon \in Monitor /\ mu \in Operation /\ ctl \in Controller /\ budget \in [Kinds -> Nat] /\ budget' \in [Kinds -> Nat]
  BY BudgetStep DEF TypeOK
<1>b. \A k \in Kinds : budget'[k] <= Budget[k]
  <2> SUFFICES ASSUME NEW k \in Kinds PROVE budget'[k] <= Budget[k]
    OBVIOUS
  <2>1. budget'[k] <= budget[k] /\ budget[k] <= Budget[k] /\ budget'[k] \in Nat /\ budget[k] \in Nat /\ Budget[k] \in Nat
    BY <1>t, BudgetStep, RecoveryAssumption DEF LoopInv
  <2> QED
    BY <2>1
<1>s. Recorded' => Recorded /\ ~Spend("storage")
  <2>1. /\ budget'["storage"] <= budget["storage"] /\ budget["storage"] <= Budget["storage"]
        /\ budget["storage"] \in Nat /\ budget'["storage"] \in Nat /\ Budget["storage"] \in Nat
    BY <1>t, BudgetStep, RecoveryAssumption DEF LoopInv, Kinds
  <2>2. Spend("storage") => budget'["storage"] = budget["storage"] - 1
    BY <1>t, Spending DEF Kinds
  <2> QED
    BY <2>1, <2>2 DEF Recorded
<1>d. Dispatched /\ Recorded => ~owed
  <2> SUFFICES ASSUME Dispatched, Recorded, owed PROVE FALSE
    OBVIOUS
  <2>1. mon.pc = "locked" /\ mu.kind = "auto" /\ mu.pc = "locked" /\ mu'.pc = "running"
    BY DEF Dispatched, MonitorInv
  <2>2. Dispatch
    BY <2>1 DEF Next, vars, MonitorStep, OperationStep, Poll, ProbeDNS, EndCheck, Conclude, ConcludeFailure,
       TryLock, DispatchFailed, Request, BeginManual, RunOperation, FinishOperation, Unlock,
       CooldownElapses, VerdictExpires, GatewayChanges, FlockTaken, FlockReleased, NoOperation
  <2>3. MayBegin(ctl)
    BY <2>1, <2>2 DEF Dispatch, NoOperation
  <2> QED
    BY <2>3 DEF MayBegin, LoopInv
<1> SUFFICES ASSUME Recorded' PROVE Once'
  BY <1>b, <1>d DEF LoopInv
<1>o. Once /\ ~Spend("storage")
  BY <1>s DEF LoopInv
<1>w. Waiting.pc = "idle"
  BY DEF Waiting
<1>1. ASSUME UNCHANGED mu, mon'.pc # "create_failed", ctl.active => ctl'.active,
             owed' => ctl'.attempted /\ ctl'.retry # "due" /\ ~ctl'.active
      PROVE  Once'
  BY <1>o, <1>1
<1>2. CASE Poll \/ Conclude
  <2>1. UNCHANGED mu /\ mon'.pc # "create_failed"
    <3>1. \A q : [Waiting EXCEPT !.pc = "sampled", !.sample = q].pc = "sampled"
      BY DEF Waiting
    <3>2. [Waiting EXCEPT !.pc = "probing"].pc = "probing" /\ [mon EXCEPT !.pc = "confirmed"].pc = "confirmed"
      BY <1>t DEF Waiting, Monitor
    <3>3. CASE Poll
      BY <3>3, <3>1, <3>2, <1>w DEF Poll, Observe
    <3>4. CASE Conclude
      BY <3>4, <3>1, <3>2, <1>w DEF Conclude, Observe
    <3> QED
      BY <1>2, <3>3, <3>4
  <2>2. owed' => owed
    BY <1>2 DEF Poll, Conclude
  <2>3. CASE ctl' = ctl
    BY <1>1, <1>o, <2>1, <2>2, <2>3
  <2>4. CASE /\ ~ctl.active
             /\ ctl' \in {ObserveUnknown(ctl), ObserveHealthy(ctl), ObserveStopped(ctl), ObservePending(ctl)}
    <3>1. ~ctl'.active
      BY <1>t, <2>4, Listening
    <3>2. CASE ctl' = NoIncident
      <4>1. CASE Conclude
        <5>1. ~owed'
          BY <3>2, <4>1 DEF Conclude
        <5> QED
          BY <1>1, <2>1, <2>4, <5>1
      <4>2. CASE Poll
        <5>1. ctl.attempted => ctl'.attempted /\ ctl'.retry = ctl.retry
          BY <4>2, <1>t, <2>4 DEF Poll, Observe, ObserveUnknown, Controller
        <5> QED
          BY <1>1, <1>o, <2>1, <2>2, <2>4, <3>1, <5>1
      <4> QED
        BY <1>2, <4>1, <4>2
    <3>3. CASE ctl'.attempted = ctl.attempted /\ ctl'.retry = ctl.retry
      BY <1>1, <1>o, <2>1, <2>2, <2>4, <3>1, <3>3
    <3> QED
      BY <1>t, <2>4, <3>2, <3>3, Observed DEF IncidentInv
  <2> QED
    BY <1>2, <1>t, <2>3, <2>4, Quiet, Listening
<1>3. CASE ConcludeFailure
  <2>r. mon.sample \in NASReasons
    BY <1>3 DEF ConcludeFailure, MonitorInv
  <2>c. ctl' = ObserveFailure(ctl, mon.sample).ctl /\ UNCHANGED <<mu, owed>>
    BY <1>3 DEF ConcludeFailure
  <2>1. mon'.pc # "create_failed"
    BY <1>3, <1>w, <1>t DEF ConcludeFailure, Monitor
  <2>2. CASE ctl.active
    BY <1>1, <1>o, <1>t, <2>r, <2>c, <2>1, <2>2, Listening
  <2>3. CASE ~ctl.active
    <3>1. ~ctl'.active
      BY <1>t, <2>r, <2>c, <2>3, Listening
    <3>2. owed => ctl'.attempted /\ ctl'.retry # "due"
      <4> SUFFICES ASSUME owed PROVE ctl'.attempted /\ ctl'.retry # "due"
        OBVIOUS
      <4>1. ctl.attempted /\ ctl.retry # "due"
        BY <1>o
      <4> QED
        BY <1>t, <2>r, <2>c, <2>3, <4>1, Failed DEF IncidentInv
    <3> QED
      BY <1>1, <2>c, <2>1, <2>3, <3>1, <3>2
  <2> QED
    BY <2>2, <2>3
<1>4. CASE TryLock
  <2>1. UNCHANGED <<ctl, owed>> /\ mon'.pc # "create_failed" /\ (UNCHANGED mu \/ mu'.pc = "locked")
    BY <1>4, <1>w, <1>t DEF TryLock, Monitor, NoOperation
  <2> QED
    BY <1>o, <2>1
<1>5. CASE Dispatch
  <2>1. mu.kind = "auto" /\ mu.pc = "locked" /\ UNCHANGED owed
    BY <1>5 DEF Dispatch, MonitorInv
  <2>2. CASE MayBegin(ctl)
    <3>1. mon'.pc = "idle" /\ ctl'.active
      BY <1>5, <1>o, <1>w, <1>t, <2>2, Begun DEF Dispatch
    <3>2. ~owed
      BY <1>o, <2>2 DEF MayBegin
    <3> QED
      BY <2>1, <3>1, <3>2
  <2>3. CASE ~MayBegin(ctl)
    BY <1>5, <1>o, <1>w, <2>1, <2>3 DEF Dispatch, NoOperation
  <2> QED
    BY <2>2, <2>3
<1>6. CASE DispatchFailed
  BY <1>6, <1>o DEF DispatchFailed
<1>7. ASSUME NEW a \in Actions, Request(a) PROVE Once'
  BY <1>7, <1>o DEF Request, NoOperation
<1>8. CASE BeginManual
  <2>1. mu'.kind = mu.kind /\ UNCHANGED mon
    BY <1>8, <1>t DEF BeginManual, Operation
  <2>2. CASE Watched(mu.kind)
    BY <1>8, <1>o, <1>t, <2>1, <2>2, Begun DEF BeginManual
  <2>3. CASE ~Watched(mu.kind)
    BY <1>8, <1>o, <2>1, <2>3 DEF BeginManual
  <2> QED
    BY <2>2, <2>3
<1>9. CASE RunOperation
  <2>1. mu'.kind = mu.kind /\ mu.pc = "running" /\ UNCHANGED <<mon, ctl, owed>>
    BY <1>9, <1>t DEF RunOperation, Operation
  <2> QED
    BY <1>o, <2>1
<1>10. CASE FinishOperation
  <2>1. mu'.pc = "done" /\ mu.pc = "finished" /\ UNCHANGED mon
    BY <1>10, <1>t DEF FinishOperation, Operation
  <2>2. CASE Watched(mu.kind)
    <3>1. ctl.active /\ ctl.attempted /\ ctl.retry = "none" /\ ~owed
      BY <1>o, <2>1, <2>2 DEF ActiveInv
    <3>2. ctl.attempted \/ mu.kind # "auto"
      BY <3>1
    <3>3. /\ ctl' = FinishRecovery(ctl, mu.result, mu.kind # "auto")
          /\ owed' => owed \/ mu.result # "contention"
      BY <1>10, <2>2 DEF FinishOperation
    <3>4. ~ctl'.active /\ (mu.result = "contention" \/ (ctl'.attempted /\ ctl'.retry \in {ctl.retry, "cooling"}))
      BY <1>t, <3>2, <3>3, Finished
    <3> QED
      BY <1>o, <2>1, <3>1, <3>3, <3>4
  <2>3. CASE ~Watched(mu.kind)
    BY <1>10, <1>o, <2>1, <2>3 DEF FinishOperation
  <2> QED
    BY <2>2, <2>3
<1>11. CASE Unlock
  BY <1>11, <1>o DEF Unlock, NoOperation
<1>12. CASE CooldownElapses
  <2>1. ctl'.active = ctl.active /\ ~owed' /\ UNCHANGED <<mon, mu>>
    BY <1>12, <1>t DEF CooldownElapses, Controller
  <2> QED
    BY <1>o, <2>1
<1>13. CASE ProbeDNS \/ EndCheck
  <2>1. UNCHANGED <<ctl, mu, owed>> /\ mon'.pc # "create_failed"
    BY <1>13, <1>t DEF ProbeDNS, EndCheck, Monitor, Waiting
  <2> QED
    BY <1>o, <2>1
<1>14. CASE UNCHANGED <<ctl, mon, mu, owed>>
  BY <1>14, <1>o
<1> QED
  BY <1>2, <1>3, <1>4, <1>5, <1>6, <1>7, <1>8, <1>9, <1>10, <1>11, <1>12, <1>13, <1>14
     DEF Next, vars, MonitorStep, OperationStep, VerdictExpires, GatewayChanges, FlockTaken, FlockReleased
----------------------------------------------------------------------------
(* Results.                                                                *)

LEMMA Inductive == Spec => []IInv
<1>1. IInv /\ [Next]_vars => IInv'
  BY TypeStep, MonitorStepKeeps, ActiveStep, IncidentStep, LoopStep DEF IInv
<1> QED
  BY <1>1, InitInv, PTL DEF Spec

\* Type correctness of the controller, its monitor and the operations.
THEOREM TypeCorrect == Spec => []TypeOK
<1>1. IInv => TypeOK
  BY DEF IInv
<1> QED
  BY <1>1, Inductive, PTL

\* The controller is deaf only while an operation it was told of is under way.
THEOREM DeafOnly == Spec => []DeafOnlyDuringOperation
<1>1. IInv => DeafOnlyDuringOperation
  BY DEF IInv, ActiveInv
<1> QED
  BY <1>1, Inductive, PTL

\* No recovery follows a recovery that nothing has excused.
THEOREM NoLoop == Spec => NoRecoveryLoop
<1>1. IInv /\ [Next]_vars => [Dispatched /\ budget["storage"] = Budget["storage"] => ~owed]_vars
  BY LoopStep DEF IInv, Recorded
<1> QED
  BY <1>1, Inductive, PTL DEF Spec, NoRecoveryLoop

\* The monitor acts on a refusing controller only after two refusals in a row.
THEOREM RefusedTwice == Spec => RefusalConfirmedTwice
<1>1. IInv /\ [Next]_vars => [Decided /\ mon.sample = "refused" => streak' = 2 \/ ctl.retry = "due"]_vars
  BY IncidentStep DEF IInv
<1> QED
  BY <1>1, Inductive, PTL DEF Spec, RefusalConfirmedTwice
=============================================================================
