---------------------------- MODULE ControlPlane ----------------------------
(***************************************************************************)
(* The controllers around the gateway that share no state with it in       *)
(* OpenSurge's processes but files of their own: one behaviour for each,   *)
(* Init picks the controller and only that one moves.                      *)
(***************************************************************************)
EXTENDS Integers, Sequences, FiniteSets

CONSTANTS
  Slots, TBudget, Sources, Digests, NoDigest, SBudget, Raws, HostFiles, LBudget, Domains, Addresses,
  NoAddress, Day, OHorizon, OBudget, Targets, Addrs, Speeds, Settings, Requests, Sessions,
  MaxFailures, Life, WHorizon, WBudget, Specs, Images, DBudget, Conns, ABudget, Graphs, Pids,
  Clients, PBudget, Containers, Parts, IBudget, NBudget

\* What each budget bounds.
SKinds == {"operations", "faults", "deaths"}
WKinds == {"requests", "faults", "deaths"}
AKinds == {"faults", "deaths", "user"}
PKinds == {"forks", "faults", "deaths", "reboots"}
IKinds == {"faults", "deaths", "others"}
TKinds == {"human", "requests", "faults"}
OKinds == {"requests", "faults", "deaths"}
DKinds == {"applies", "faults", "people", "deaths"}

\* 0 and NoDigest stand for what is not there; maxLoginFailures allows a failure; a
\* scan's window holds an address (validateScan).
ASSUME ControlAssumption ==
  /\ Sources # {} /\ NoDigest \notin Digests /\ SBudget \in [SKinds -> Nat]
  /\ Requests # {} /\ IsFiniteSet(Requests) /\ MaxFailures \in Nat \ {0} /\ Life \in Nat /\ WHorizon \in Nat
  /\ WBudget \in [WKinds -> Nat]
  /\ 0 \notin Conns /\ IsFiniteSet(Conns) /\ ABudget \in [AKinds -> Nat]
  /\ 0 \notin Pids /\ PBudget \in [PKinds -> Nat]
  /\ IBudget \in [IKinds -> Nat]
  /\ TBudget \in [TKinds -> Nat]
  /\ OHorizon \in Nat \ {0} /\ OBudget \in [OKinds -> Nat]
  /\ Images # {} /\ DBudget \in [DKinds -> Nat]
  /\ Raws # {} /\ HostFiles # {}
  /\ Targets \in Nat /\ Addrs \in Nat /\ Speeds \subseteq Nat
  /\ Settings \subseteq [window : Nat \ {0}, downloads : Nat, floor : Nat]

VARIABLES
  part,  \* the component that moves in this behaviour
  rec, calls, job, mac, router, served, probed, kept, slip, raced, tleft,
  list, snaps, creds, chosen, work, lost, broke, sleft,
  conf, library, base, overlay, hosts, layer, mapped, found, engine, syncer, fresh, mixed, lleft,
  setup, disk, worker, task, put, up, live, clock, blurred, died, oleft,
  phase, settings, coarse, start, turn, needed, verified, tried, queue, speed, cut, answer,
  account, token, guarded, serving, sessions, bucket, remote, issued, request, tick, spent, used,
  wleft,
  box, wire, image, act, news, trampled, dleft,
  ctl, conn, helper, holders, mgr, mark, flag, retrying, slipped, crossed, aleft,
  record, procs, boot, gw, asking, holds, service, pleft,
  cached, starter, usr, stale, meddled, ileft,
  seat, daemon, owner, glance, streak, nleft

takeoverVars   == <<rec, calls, job, mac, router, served, probed, kept, slip, raced, tleft>>
sourcesVars    == <<list, snaps, creds, chosen, work, lost, broke, sleft>>
layersVars     == <<conf, library, base, overlay, hosts, layer, mapped, found, engine, syncer, fresh, mixed,
                    lleft>>
optimizerVars  == <<setup, disk, worker, task, put, up, live, clock, blurred, died, oleft>>
scanVars       == <<phase, settings, coarse, start, turn, needed, verified, tried, queue, speed, cut, answer>>
webVars        == <<account, token, guarded, serving, sessions, bucket, remote, issued, request, tick, spent,
                    used, wleft>>
deploymentVars == <<box, wire, image, act, news, trampled, dleft>>
sleepVars      == <<ctl, conn, helper, holders, mgr, mark, flag, retrying, slipped, crossed, aleft>>
engineVars     == <<record, procs, boot, gw, asking, holds, service, pleft>>
imageVars      == <<cached, starter, usr, stale, meddled, ileft>>
watchVars      == <<seat, daemon, owner, glance, streak, nleft>>

T == INSTANCE DHCPTakeover
S == INSTANCE SourceStore
L == INSTANCE ProfileLayers
O == INSTANCE CloudflareOptimizer
C == INSTANCE OptimizerScan
W == INSTANCE WebAccess
D == INSTANCE Deployment
A == INSTANCE SleepLease
P == INSTANCE PreparedEngine
I == INSTANCE RuntimeImage
N == INSTANCE DnsmasqRecovery

\* Only the component at work is started in every way it may be.
Init ==
  /\ part \in {"takeover", "sources", "layers", "optimizer", "scan", "web", "deployment", "sleep", "engine",
               "image", "watch"}
  /\ T!TakeoverInit
  /\ S!SourceInit
  /\ L!LayersInit /\ (part # "layers" => conf.mode = "managed" /\ ~overlay.on)
  /\ O!OptimizerInit /\ (part # "optimizer" => setup.targets = {} /\ setup.health /\ up)
  /\ C!ScanInit /\ (part # "scan" => settings = CHOOSE s \in Settings : TRUE)
  /\ W!WebInit /\ (part # "web" => guarded)
  /\ D!DeploymentInit
  /\ A!SleepInit
  /\ P!PreparedInit
  /\ I!ImageInit
  /\ N!WatchInit /\ (part # "watch" => daemon = "running")

Takeover ==
  /\ part = "takeover" /\ T!TakeoverNext
  /\ UNCHANGED <<part, sourcesVars, layersVars, optimizerVars, scanVars, webVars, deploymentVars, sleepVars,
                 engineVars, imageVars, watchVars>>

SourceStep ==
  /\ part = "sources" /\ S!SourceNext
  /\ UNCHANGED <<part, takeoverVars, layersVars, optimizerVars, scanVars, webVars, deploymentVars, sleepVars,
                 engineVars, imageVars, watchVars>>

LayerStep ==
  /\ part = "layers" /\ L!LayersNext
  /\ UNCHANGED <<part, takeoverVars, sourcesVars, optimizerVars, scanVars, webVars, deploymentVars, sleepVars,
                 engineVars, imageVars, watchVars>>

OptimizerStep ==
  /\ part = "optimizer" /\ O!OptimizerNext
  /\ UNCHANGED <<part, takeoverVars, sourcesVars, layersVars, scanVars, webVars, deploymentVars, sleepVars,
                 engineVars, imageVars, watchVars>>

ScanStep ==
  /\ part = "scan" /\ C!ScanNext
  /\ UNCHANGED <<part, takeoverVars, sourcesVars, layersVars, optimizerVars, webVars, deploymentVars, sleepVars,
                 engineVars, imageVars, watchVars>>

WebStep ==
  /\ part = "web" /\ W!WebNext
  /\ UNCHANGED <<part, takeoverVars, sourcesVars, layersVars, optimizerVars, scanVars, deploymentVars,
                 sleepVars, engineVars, imageVars, watchVars>>

DeploymentStep ==
  /\ part = "deployment" /\ D!DeploymentNext
  /\ UNCHANGED <<part, takeoverVars, sourcesVars, layersVars, optimizerVars, scanVars, webVars, sleepVars,
                 engineVars, imageVars, watchVars>>

SleepStep ==
  /\ part = "sleep" /\ A!SleepNext
  /\ UNCHANGED <<part, takeoverVars, sourcesVars, layersVars, optimizerVars, scanVars, webVars, deploymentVars,
                 engineVars, imageVars, watchVars>>

EngineStep ==
  /\ part = "engine" /\ P!PreparedNext
  /\ UNCHANGED <<part, takeoverVars, sourcesVars, layersVars, optimizerVars, scanVars, webVars, deploymentVars,
                 sleepVars, imageVars, watchVars>>

ImageStep ==
  /\ part = "image" /\ I!ImageNext
  /\ UNCHANGED <<part, takeoverVars, sourcesVars, layersVars, optimizerVars, scanVars, webVars, deploymentVars,
                 sleepVars, engineVars, watchVars>>

WatchStep ==
  /\ part = "watch" /\ N!WatchNext
  /\ UNCHANGED <<part, takeoverVars, sourcesVars, layersVars, optimizerVars, scanVars, webVars, deploymentVars,
                 sleepVars, engineVars, imageVars>>

Next ==
  \/ Takeover \/ SourceStep \/ LayerStep \/ OptimizerStep \/ ScanStep
  \/ WebStep \/ DeploymentStep \/ SleepStep \/ EngineStep \/ ImageStep
  \/ WatchStep

controllers == <<part, takeoverVars, sourcesVars, layersVars, optimizerVars, scanVars, webVars,
                 deploymentVars, sleepVars, engineVars, imageVars, watchVars>>

Spec == Init /\ [][Next]_controllers

\* The process runs: its ticker ticks, and what the optimizer has begun goes on.
FairSpec == Spec /\ WF_controllers(OptimizerStep)

----------------------------------------------------------------------------
(* The properties of the components, by the hazard they are about.  A component *)
(* that is not at work stands in an initial state of its own.                  *)

TypeOK ==
  /\ part = "takeover" => T!TakeoverTypeOK
  /\ part = "sources" => S!SourceTypeOK
  /\ part = "layers" => L!LayersTypeOK
  /\ part = "optimizer" => O!OptimizerTypeOK
  /\ part = "scan" => C!ScanTypeOK
  /\ part = "web" => W!WebTypeOK
  /\ part = "deployment" => D!DeploymentTypeOK
  /\ part = "sleep" => A!SleepTypeOK
  /\ part = "engine" => P!PreparedTypeOK
  /\ part = "image" => I!ImageTypeOK
  /\ part = "watch" => N!WatchTypeOK

\* Wherever a process dies, its successor finds what it needs: every version the
\* list of sources names can be read; the bootstrap token is there until the set-up
\* and no longer; SleepDisabled has its marker as long as it is OpenSurge's; one
\* engine at a time has the cache and the tailnet identity; and what a dying build
\* leaves is not taken for a runtime image.
DeathLeavesOrder ==
  /\ part = "sources" => S!VersionsReadable
  /\ part = "web" => W!TokenUntilSetup
  /\ part = "sleep" => A!OursIsMarked
  /\ part = "engine" => P!OneEngine
  /\ part = "image" => I!CacheIsWhole

\* An operation that fails half-way takes back what it did: the stage of the DHCP
\* takeover tells the network as it is, the credentials are those of the listed
\* sources, the engine has the addresses the optimizer's state names, and a failing
\* call of a replacement leaves the gateway's container as it was, on its network.
FailureIsUndone ==
  /\ part = "takeover" => T!StageTellsNetwork
  /\ part = "sources" => S!CredentialsMatchList
  /\ part = "optimizer" => O!EngineFollowsResults
  /\ part = "deployment" => D!OneFailureRestores /\ D!NetworkUnderGateway

\* What is held for somebody is held as long as he uses it, and no longer, whoever
\* hangs up or comes back meanwhile: the optimizer's marks, a session, the setting
\* that keeps the Mac awake, the prepared engine, the dnsmasq controller's deafness.
HeldWhileUsed ==
  /\ part = "optimizer" => O!MarksComeDown
  /\ part = "web" => W!SessionFollowsUse
  /\ part = "sleep" => A!SettingFollowsHolders
  /\ part = "engine" => P!EngineHasHolder
  /\ part = "watch" => N!DeafOnlyWhileActing

\* What runs is what was asked for, verified or recorded, however old the record:
\* the profile has each layer once and as its digests say, a running engine has
\* every stored layer, a preview runs the graph it was asked about, and a container
\* runs from the whole cache of its own image.
RunsWhatWasAsked ==
  /\ part = "layers" => L!NoLayerTwice /\ L!DigestsDescribeProfile /\ L!EngineHasEveryLayer
  /\ part = "engine" => P!EngineRunsTheGraph
  /\ part = "image" => I!RunsWhatWasVerified

\* A budget is shared by all who need it and exceeded by nobody: a scan that may end
\* at any point lets no target lag two windows behind, measures and decides for each,
\* and stops early only when all are served; logins checked at once pass the limit
\* by no more than are under way.
BudgetIsShared ==
  /\ part = "scan" => /\ C!WindowsAreShared /\ C!EveryTargetMeasured
                      /\ C!EveryVerifiedDecided /\ C!EarlyEndIsJustified
  /\ part = "web" => W!LimitHolds

\* No step goes further than it may: DHCP is served only after a probe that found no
\* other server; a failed synchronisation leaves layer and overlay as it found them;
\* a scan takes away only what it rejected; dnsmasq is restarted once per incident;
\* and the administrator, containers and settings of others, another client's engine
\* and a process that has got the engine's PID are left alone.
WithinItsRights ==
  /\ T!OneDHCPServer /\ L!SyncAllOrNothing /\ O!ScanForgetsOnlyRejected /\ N!OneRestartPerIncident
  /\ W!OneAdministrator /\ D!ForeignKept /\ A!TheirsIsLeft /\ P!LeaseKeepsEngine /\ P!StrangersLeft

----------------------------------------------------------------------------
(* What the repository says and the code does not keep.                       *)

\* ProfileLayers: what was reconciled can be reconciled again ("when it already
\* matches, this is a cheap no-op", host_hosts_sync.go:234).
SettledCanReconcile == part = "layers" => L!SettledCanReconcile

\* CloudflareOptimizer: a tick that finds the published date of the next scan passed,
\* and nothing at work, starts it ("a periodic full optimization remains available").
RunsOnSchedule == O!RunsOnSchedule
=============================================================================
