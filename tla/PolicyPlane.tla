---------------------------- MODULE PolicyPlane -----------------------------
(***************************************************************************)
(* What OpenSurge computes from its inputs as they change: the rules of    *)
(* the devices, their traffic, the real-IP filter and the next scheduled   *)
(* scan.  One behaviour for each: Init picks the part that moves.          *)
(***************************************************************************)
EXTENDS DevicePolicy

CONSTANTS
  Flows, Readers, Egresses, Openings, LeaseFiles, Policies, MaxGap, FHorizon, FBudget, Names,
  FilterEntries, MaxEntries, Schedules, DayLength, LastDay

\* There are finitely many domains to optimize, connections and egress chains; a scan comes at most once a day, and
\* what a cron expression gives in a field has steps of one or more.
ASSUME InputAssumption ==
  /\ IsFiniteSet(Names)
  /\ IsFiniteSet(Flows) /\ Egresses \subseteq Nat \ {0} /\ IsFiniteSet(Egresses)
  /\ Openings \subseteq [source : STRING, process : BOOLEAN, egress : Egresses]
  /\ DayLength \in Nat \ {0} /\ LastDay \in Nat
  /\ \A s \in Schedules :
       /\ s = [mode |-> s.mode, every |-> s.every, at |-> s.at, clock |-> s.clock, dom |-> s.dom, dow |-> s.dow]
       /\ s.mode \in {"interval", "cron"} /\ s.every \in Nat \ {0} /\ s.at \in 0 .. DayLength - 1
       /\ s.clock \cup s.dom \cup s.dow \subseteq [lo : Nat, hi : Nat, step : Nat \ {0}]

VARIABLES
  part,  \* the component that moves in this behaviour
  flows, now, reader, sampler, leases, policy, report, neighbors, fleft,
  filter, wished, advice,
  schedule, instant, lastRun, due

trafficVars  == <<flows, now, reader, sampler, leases, policy, report, neighbors, fleft>>
filterVars   == <<filter, wished, advice>>
scheduleVars == <<schedule, instant, lastRun, due>>

F == INSTANCE DeviceTraffic
R == INSTANCE RealIPFilter
H == INSTANCE ScanSchedule

\* Only the component at work is started in every way it may be.
Init ==
  /\ part \in {"policy", "traffic", "filter", "schedule"}
  /\ PolicyInit /\ (part # "policy" => <<document, topology>> =
        CHOOSE p \in Documents \X Topologies : Valid(p[1]) /\ Acceptable(p[1], p[2]))
  /\ F!TrafficInit /\ (part # "traffic" => leases = (CHOOSE s \in LeaseFiles : TRUE) /\ policy = (CHOOSE p \in Policies : TRUE))
  /\ R!FilterInit /\ (part # "filter" => filter.mode = "blacklist")
  /\ H!ScheduleInit /\ (part # "schedule" => schedule = CHOOSE s \in Schedules : TRUE)

PolicyStep ==
  /\ part = "policy" /\ PolicyNext
  /\ UNCHANGED <<part, trafficVars, filterVars, scheduleVars>>

TrafficStep ==
  /\ part = "traffic" /\ F!TrafficNext
  /\ UNCHANGED <<part, yvars, filterVars, scheduleVars>>

FilterStep ==
  /\ part = "filter" /\ R!FilterNext
  /\ UNCHANGED <<part, yvars, trafficVars, scheduleVars>>

ScheduleStep ==
  /\ part = "schedule" /\ H!ScheduleNext
  /\ UNCHANGED <<part, yvars, trafficVars, filterVars>>

Next ==
  \/ PolicyStep \/ TrafficStep \/ FilterStep \/ ScheduleStep

controllers == <<part, yvars, trafficVars, filterVars, scheduleVars>>

Spec == Init /\ [][Next]_controllers

----------------------------------------------------------------------------
(* The properties of the components, besides RoutedAsWritten and ChoicesSurvive *)
(* of DevicePolicy.  One that is not at work stands in an initial state of its   *)
(* own.                                                                         *)

\* What is compiled holds beyond the moment: behind DHCP an address has rules only
\* while it is reserved, every target was there, so that the gateway can start, and
\* the snapshot describes the run and not a later subscription.
CompiledIsSound == AddressesAreHeld /\ TargetsExist /\ SnapshotDescribesRun

\* Nobody has a rate without a connection, a device known from its traffic has some,
\* the egress and the hardware address shown do not depend on the order of a map or of
\* the ARP cache, and rates compare with the connections of the moment they are divided by.
TrafficAddsUp ==
  /\ [](part = "traffic" => /\ F!RatesFollowCounts /\ F!ObservedDevicesHaveTraffic
                           /\ F!EgressIsStable /\ F!NeighborIsUnambiguous)
  /\ F!BaselineIsOneSample

\* A real-IP plan without conflicts gives every domain its real address; the next
\* scan is in the future, on its schedule, with none skipped, and Sunday may be
\* written in two ways.
AdviceIsRight ==
  /\ part = "filter" => R!PlanSuffices
  /\ part = "schedule" => H!NextRunIsDue /\ H!SundayIsSunday
=============================================================================
