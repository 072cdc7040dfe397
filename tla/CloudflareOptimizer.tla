------------------------ MODULE CloudflareOptimizer ------------------------
(***************************************************************************)
(* The Cloudflare optimizer of the Control API                             *)
(* (internal/controlapi/cloudflare_optimizer.go): the scheduler's loop and *)
(* the POSTs scan and check under scanMu, the PUT that changes the targets *)
(* beside them, the persisted state all of them copy, change and write     *)
(* back, and the reload that takes its results into the engine.            *)
(***************************************************************************)
EXTENDS Naturals, FiniteSets

CONSTANTS
  Domains,  \* target host names
  Addresses,\* addresses a scan can choose
  NoAddress,
  Day,      \* minutes of the clock in a day of the schedule
  OHorizon, \* last minute of the clock
  OBudget   \* bounds on requests, faults and deaths

Workers == {"scheduler", "post"}
Results == [Domains -> Addresses \cup {NoAddress}]
NoResults == [d \in Domains |-> NoAddress]
Never == OHorizon + 2 * Day + 1

VARIABLES
  setup,   \* cloudflare-optimizer.json: enabled domains, schedule and checks on
  disk,    \* cloudflare-optimizer-state.json
  worker,  \* what each worker is at; the one at work holds scanMu
  task,    \* the copies the holder of scanMu works with
  put,     \* the PUT under way and its copy
  up,      \* the gateway runs
  live,    \* the addresses in the running engine
  clock,   \* minutes
  blurred, \* history: a PUT met a scan, or a failed apply left its trace
  died,    \* history: the process died in a scan
  oleft

ovars == <<setup, disk, worker, task, put, up, live, clock, blurred, died, oleft>>

Spend(k) == oleft[k] > 0 /\ oleft' = [oleft EXCEPT ![k] = @ - 1]

NoJob == [targets |-> {}, state |-> [results |-> NoResults, running |-> FALSE, checking |-> FALSE,
                                     lastRun |-> Never, lastCheck |-> Never, next |-> Never],
          before |-> NoResults, dropped |-> {}]
NoPut == [pc |-> "rest", copy |-> NoJob.state, before |-> NoResults]

OptimizerInit ==
  /\ setup \in [targets : {{}, Domains}, on : {TRUE}, health : BOOLEAN]
  /\ disk = NoJob.state /\ worker = [w \in Workers |-> "rest"] /\ task = NoJob /\ put = NoPut
  /\ up \in BOOLEAN /\ live = NoResults /\ clock = 1 /\ blurred = FALSE /\ died = FALSE /\ oleft = OBudget

----------------------------------------------------------------------------
(* Helpers.                                                                *)

\* (mutant) The results of disabled targets stay.
RetainAll(results, targets) == results

\* retainEnabledOptimizerResults
RetainEnabled(results, targets) == [d \in Domains |-> IF d \in targets THEN results[d] ELSE NoAddress]

\* (mutant) What the scan did not reach is forgotten.
MergeFresh(before, fresh, rejected, targets) == RetainEnabled(fresh, targets)

\* mergeBoundedScanResults
Merge(before, fresh, rejected, targets) ==
  RetainEnabled([d \in Domains |-> IF fresh[d] # NoAddress THEN fresh[d]
                                   ELSE IF d \in rejected THEN NoAddress ELSE before[d]], targets)

\* NextRun with an interval of one day at 00:00: later than now, always.
NextRun(last, now) ==
  LET base  == IF last = Never THEN now ELSE last
      first == (base \div Day) * Day + Day
  IN CHOOSE t \in {first + k * Day : k \in 0 .. OHorizon} : t > now /\ \A k \in 0 .. OHorizon : first + k * Day > now => t <= first + k * Day

\* populateNextRun
Populated(s, targets) == [s EXCEPT !.next = IF setup.on /\ targets # {} THEN NextRun(s.lastRun, clock) ELSE Never]

\* populateNextHealthCheck, an interval of one minute: a check is due.
CheckDue(s, now) ==
  /\ setup.health /\ setup.targets # {} /\ s.results # NoResults
  /\ LET anchor == IF s.lastCheck # Never THEN s.lastCheck ELSE s.lastRun IN anchor = Never \/ now > anchor

\* (mutant) scanMu is not taken.
WithoutLock == FALSE

Held == \E w \in Workers : worker[w] \notin {"rest", "scan", "check"}
Goes(w, pc) == worker' = [worker EXCEPT ![w] = pc]

\* A scan or a check is at work while a PUT is.
Meets == blurred \/ put.pc # "rest"

----------------------------------------------------------------------------
(* schedulerLoop: one tick a minute, dropped while the loop is busy.       *)
Tick ==
  /\ clock < OHorizon /\ clock' = clock + 1
  /\ worker' =
       IF worker["scheduler"] # "rest" \/ setup.targets = {} \/ disk.running \/ disk.checking THEN worker
       ELSE [worker EXCEPT !["scheduler"] =
               IF setup.on /\ clock' >= NextRun(disk.lastRun, clock') THEN "scan"
               ELSE IF CheckDue(disk, clock') THEN "check" ELSE "rest"]
  /\ UNCHANGED <<setup, disk, task, put, up, live, blurred, died, oleft>>

\* handleScan, handleCheck: a request takes its place before scanMu.
Request ==
  /\ worker["post"] = "rest" /\ Spend("requests") /\ \E pc \in {"scan", "check"} : Goes("post", pc)
  /\ UNCHANGED <<setup, disk, task, put, up, live, clock, blurred, died>>

----------------------------------------------------------------------------
(* runScan, under scanMu.                                                  *)

Refused(w) ==
  /\ worker[w] \in {"scan", "check"} /\ ~Held
  /\ \/ setup.targets = {}
     \/ worker[w] = "check" /\ disk.results = NoResults
  /\ Goes(w, "rest")
  /\ UNCHANGED <<setup, disk, task, put, up, live, clock, blurred, died, oleft>>

\* The configuration and the state are copied; Running is published.
ScanBegins(w) ==
  /\ worker[w] = "scan" /\ ~Held /\ setup.targets # {}
  /\ LET s == [disk EXCEPT !.running = TRUE, !.checking = FALSE] IN
       disk' = s /\ task' = [NoJob EXCEPT !.targets = setup.targets, !.state = s, !.before = disk.results]
  /\ Goes(w, "probing") /\ blurred' = Meets
  /\ UNCHANGED <<setup, put, up, live, clock, died, oleft>>

\* (mutant) An error leaves Running as it was published.
LeftRunning(s) == [s EXCEPT !.lastRun = clock]

\* finish: the copy is written back.
Finished(s) == [s EXCEPT !.running = FALSE, !.lastRun = clock]

\* The probes fail, or the budget ends before any target was verified.
ScanFails(w) ==
  /\ worker[w] = "probing" /\ Spend("faults")
  /\ disk' = Populated(Finished(task.state), task.targets) /\ task' = NoJob /\ Goes(w, "rest") /\ blurred' = Meets
  /\ UNCHANGED <<setup, put, up, live, clock, died>>

\* A result for some targets; changed results are published for the reload.
ScanAnswers(w) ==
  /\ worker[w] = "probing"
  /\ \E fresh \in Results, rejected \in SUBSET task.targets :
       /\ {d \in Domains : fresh[d] # NoAddress} \subseteq task.targets \ rejected
       /\ fresh # NoResults \/ rejected # {}
       /\ LET merged == Merge(task.before, fresh, rejected, task.targets)
              s      == [task.state EXCEPT !.results = merged]
          IN /\ task' = [task EXCEPT !.state = s, !.dropped = rejected]
             /\ IF merged # task.before THEN disk' = s /\ Goes(w, "apply") ELSE UNCHANGED disk /\ Goes(w, "ends")
  /\ blurred' = Meets
  /\ UNCHANGED <<setup, put, up, live, clock, died, oleft>>

\* applyResults: the reload reads what is published now.
ScanApplies(w) ==
  /\ worker[w] = "apply" /\ live' = (IF up THEN disk.results ELSE live) /\ Goes(w, "ends")
  /\ UNCHANGED <<setup, disk, task, put, up, clock, blurred, died, oleft>>

\* (mutant) The published results stay although the reload refused them.
StayPublished == task.state

TakenBack == [task.state EXCEPT !.results = task.before]

\* The reload fails: the old results are published and applied again.
ScanApplyFails(w) ==
  /\ worker[w] = "apply" /\ up /\ Spend("faults")
  /\ \E provisional \in BOOLEAN : live' = IF provisional THEN TakenBack.results ELSE live
  /\ disk' = Populated(Finished(TakenBack), task.targets) /\ task' = NoJob /\ Goes(w, "rest") /\ blurred' = Meets
  /\ UNCHANGED <<setup, put, up, clock, died>>

ScanEnds(w) ==
  /\ worker[w] = "ends"
  /\ disk' = Populated(Finished([task.state EXCEPT !.lastCheck = clock]), task.targets)
  /\ task' = NoJob /\ Goes(w, "rest") /\ blurred' = Meets
  /\ UNCHANGED <<setup, put, up, live, clock, died, oleft>>

(* runHealthCheck, under scanMu; an unhealthy address asks for a scan.     *)
CheckBegins(w) ==
  /\ worker[w] = "check" /\ ~Held /\ setup.targets # {} /\ disk.results # NoResults
  /\ LET s == [disk EXCEPT !.checking = TRUE] IN
       disk' = s /\ task' = [NoJob EXCEPT !.targets = setup.targets, !.state = s, !.before = disk.results]
  /\ Goes(w, "checking") /\ blurred' = Meets
  /\ UNCHANGED <<setup, put, up, live, clock, died, oleft>>

CheckEnds(w) ==
  /\ worker[w] = "checking"
  /\ disk' = Populated([task.state EXCEPT !.checking = FALSE, !.lastCheck = clock], task.targets)
  /\ \E unhealthy \in BOOLEAN : Goes(w, IF unhealthy THEN "scan" ELSE "rest")
  /\ task' = NoJob /\ blurred' = Meets
  /\ UNCHANGED <<setup, put, up, live, clock, died, oleft>>

----------------------------------------------------------------------------
(* handlePut, which does not take scanMu.                                  *)

PutConfig ==
  /\ put.pc = "rest" /\ Spend("requests")
  /\ \E targets \in SUBSET Domains, on \in BOOLEAN : setup' = [setup EXCEPT !.targets = targets, !.on = on]
  /\ put' = [NoPut EXCEPT !.pc = "load"] /\ blurred' = (blurred \/ Held)
  /\ UNCHANGED <<disk, worker, task, up, live, clock, died>>

\* The results of disabled targets are published as gone, for the reload.
PutFilters ==
  /\ put.pc = "load"
  /\ LET s == [disk EXCEPT !.results = RetainEnabled(@, setup.targets)] IN
       IF s # disk THEN disk' = s /\ put' = [pc |-> "apply", copy |-> s, before |-> disk.results]
       ELSE UNCHANGED disk /\ put' = [pc |-> "last", copy |-> s, before |-> disk.results]
  /\ blurred' = (blurred \/ Held)
  /\ UNCHANGED <<setup, worker, task, up, live, clock, died, oleft>>

PutApplies ==
  /\ put.pc = "apply" /\ live' = (IF up THEN disk.results ELSE live) /\ put' = [put EXCEPT !.pc = "last"]
  /\ UNCHANGED <<setup, disk, worker, task, up, clock, blurred, died, oleft>>

\* The results come back; the configuration that was saved stays.
PutApplyFails ==
  /\ put.pc = "apply" /\ up /\ Spend("faults")
  /\ disk' = [put.copy EXCEPT !.results = put.before] /\ put' = NoPut /\ blurred' = TRUE
  /\ UNCHANGED <<setup, worker, task, up, live, clock, died>>

PutEnds ==
  /\ put.pc = "last" /\ disk' = Populated(put.copy, setup.targets) /\ put' = NoPut /\ blurred' = (blurred \/ Held)
  /\ UNCHANGED <<setup, worker, task, up, live, clock, died, oleft>>

----------------------------------------------------------------------------
\* The process dies, wherever its workers are, and starts again.
Dies ==
  /\ Spend("deaths") /\ Held
  /\ worker' = [w \in Workers |-> "rest"] /\ task' = NoJob /\ put' = NoPut /\ died' = TRUE
  /\ UNCHANGED <<setup, disk, up, live, clock, blurred>>

GatewayStops == /\ up /\ Spend("faults") /\ up' = FALSE /\ live' = NoResults
                /\ UNCHANGED <<setup, disk, worker, task, put, clock, blurred, died>>

OptimizerNext ==
  \/ Tick \/ Request \/ PutConfig \/ PutFilters \/ PutApplies \/ PutApplyFails \/ PutEnds \/ Dies \/ GatewayStops
  \/ \E w \in Workers :
       \/ Refused(w) \/ ScanBegins(w) \/ ScanFails(w) \/ ScanAnswers(w) \/ ScanApplies(w)
       \/ ScanApplyFails(w) \/ ScanEnds(w) \/ CheckBegins(w) \/ CheckEnds(w)

----------------------------------------------------------------------------
(* Properties.                                                             *)

OptimizerTypeOK ==
  /\ setup.targets \subseteq Domains /\ disk.results \in Results /\ live \in Results /\ clock \in 1 .. OHorizon
  /\ worker \in [Workers -> {"rest", "scan", "check", "probing", "apply", "ends", "checking"}]
  /\ {up, blurred, died, disk.running, disk.checking} \subseteq BOOLEAN
  /\ Cardinality({w \in Workers : worker[w] \notin {"rest", "scan", "check"}}) <= 1

Quiet == ~Held /\ put.pc = "rest" /\ ~blurred /\ ~died

\* The engine has the addresses the state file names, those of enabled targets
\* and no others, whatever scan, check or reload failed; the two writers of the
\* file must not have met.
EngineFollowsResults ==
  Quiet => /\ up => live = disk.results
           /\ \A d \in Domains \ setup.targets : disk.results[d] = NoAddress

\* The marks that keep the scheduler away go with the work they stand for.
MarksComeDown == Quiet => ~disk.running /\ ~disk.checking

\* "Keep the last verified result for enabled hostnames omitted from this run"
\* (cloudflare_optimizer.go:229): a scan takes away what it rejected, no more.
ScanForgetsOnlyRejected ==
  [][\A w \in Workers : worker[w] = "probing" /\ worker'[w] # "probing" /\ ~blurred' /\ ~died' =>
       \A d \in setup.targets : disk.results[d] # NoAddress => d \in task'.dropped \/ disk'.results[d] # NoAddress]_ovars

\* "a periodic full optimization remains available even while current IPs stay
\* healthy" (cloudflare-hosts-optimizer.md:30): a tick that finds the published
\* date passed, and nothing at work, starts the scan.
RunsOnSchedule ==
  [][clock' # clock /\ setup.on /\ setup.targets # {} /\ disk.next <= clock' /\ worker["scheduler"] = "rest"
       /\ ~disk.running /\ ~disk.checking => worker'["scheduler"] = "scan"]_ovars
=============================================================================
