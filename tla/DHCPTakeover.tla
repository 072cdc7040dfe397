---------------------------- MODULE DHCPTakeover ----------------------------
(***************************************************************************)
(* The same-LAN DHCP takeover wizard (internal/controlapi/server.go): the  *)
(* Mac's network is recorded and set to a fixed address, the router's DHCP *)
(* is switched off by hand, the gateway serves DHCP, and afterwards all of *)
(* it is taken back.  recovery.json says how far it got.  The handlers     *)
(* hold no lock: each reads the record, works on the network for seconds   *)
(* and writes its copy back.  Start and stop run in the background.        *)
(***************************************************************************)
EXTENDS Naturals

CONSTANTS
  Slots,    \* HTTP requests that may be under way at the same time
  TBudget   \* bounds on the failures, requests and acts of the human

\* A running wizard, and the stages in which nothing is owed to anybody.
Serving  == {"active", "validated", "skipped"}
Resting  == {"idle", "complete", "complete_static"}
Stages   == Resting \cup Serving \cup {"prepared", "mac_static", "confirmed", "stopped", "restored"}
Handlers == {"apply-static", "dhcp-probe", "router-restored", "manual-finish", "keep-static",
             "restore-dhcp", "validate", "abandon", "notes", "edit"}

(* recovery.json: its stage, and whether it holds the network snapshot     *)
(* that the recovery card and the way back need.                           *)
Record == [stage: Stages, snap: BOOLEAN]
Idle   == [stage |-> "idle", snap |-> FALSE]
Free   == [op |-> "none", rec |-> Idle]

VARIABLES
  rec,      \* recovery.json
  calls,    \* per slot: a handler with the record it has read
  job,      \* the start, stop or reload in the background, and its record
  mac,      \* the Mac's IPv4: "auto" (DHCP) or "static"
  router,   \* the router's DHCP server answers
  served,   \* the gateway runs and serves DHCP
  probed,   \* history: a probe after the fixed address found no DHCP server
  kept,     \* history: the operator chose to keep the fixed address
  slip,     \* history: a step failed half-way, or a live record was replaced
  raced,    \* history: a request wrote back a record that had changed meanwhile,
            \* or an abandonment and a start were under way at once
  tleft     \* what is left of TBudget

tvars == <<rec, calls, job, mac, router, served, probed, kept, slip, raced, tleft>>
hist  == <<probed, kept, slip>>

TakeoverTypeOK ==
  /\ rec \in Record /\ calls \in [Slots -> [op: Handlers \cup {"none"}, rec: Record]]
  /\ job \in [op: {"none", "start", "stop", "reload"}, rec: Record]
  /\ mac \in {"auto", "static"} /\ {router, served, probed, kept, slip, raced} \subseteq BOOLEAN

TakeoverInit ==
  /\ rec = Idle /\ calls = [s \in Slots |-> Free] /\ job = Free
  /\ mac = "auto" /\ router = TRUE /\ served = FALSE
  /\ probed = FALSE /\ kept = FALSE /\ slip = FALSE /\ raced = FALSE /\ tleft = TBudget

Use(k) == tleft[k] > 0 /\ tleft' = [tleft EXCEPT ![k] = @ - 1]

\* Store.SaveRecovery at the end of a request that read old.
Write(new, old) == rec' = new /\ raced' = (raced \/ rec # old)

Required(r) == r.stage \notin Resting

----------------------------------------------------------------------------
(* The human.                                                              *)

ToggleRouter == /\ Use("human") /\ router' = ~router
                /\ UNCHANGED <<rec, calls, job, mac, served, hist, raced>>

----------------------------------------------------------------------------
(* Requests: a precondition on the record, work, and the record again.     *)

\* The stages from which each handler goes on; notes and edits look elsewhere.
Allowed(op) ==
  CASE op = "apply-static"    -> {"prepared"}
    [] op = "dhcp-probe"      -> {"mac_static"}
    [] op = "router-restored" -> {"stopped"}
    [] op = "manual-finish"   -> {"stopped"}
    [] op = "keep-static"     -> {"stopped", "restored"}
    [] op = "restore-dhcp"    -> {"restored"}
    [] op = "validate"        -> {"active"}
    [] op = "abandon"         -> {"mac_static", "confirmed"}
    [] op = "notes"           -> Stages
    [] op = "edit"            -> Resting \cup {"prepared"}

\* NetworkSnapshot # nil: these need to know how the network was.
NeedsSnapshot == {"apply-static", "router-restored", "manual-finish", "keep-static", "restore-dhcp", "abandon"}

\* (mutant) Nobody looks whether a state file is left.
StateFileIgnored == TRUE

\* gateway_still_active
NoStateFile == ~served

Call(s, op) ==
  /\ calls[s].op = "none" /\ Use("requests")
  /\ rec.stage \in Allowed(op) /\ (op \in NeedsSnapshot => rec.snap)
  /\ op \in {"abandon", "edit"} => NoStateFile
  /\ calls' = [calls EXCEPT ![s] = [op |-> op, rec |-> rec]]
  /\ raced' = (raced \/ (op = "abandon" /\ job.op = "start"))
  /\ UNCHANGED <<rec, job, mac, router, served, hist>>

Answered(s) == calls' = [calls EXCEPT ![s] = Free]
Advance(s, stage) ==
  /\ rec' = [calls[s].rec EXCEPT !.stage = stage]
  /\ raced' = (raced \/ rec # calls[s].rec)
  /\ Answered(s)
Others == <<job, router, served, tleft>>

\* handleApplyStatic: SetManual, verified and the router pinged.
ApplyStatic(s) ==
  /\ calls[s].op = "apply-static" /\ mac' = "static" /\ Advance(s, "mac_static")
  /\ UNCHANGED <<hist, Others>>

\* SetManual fails, or it works and the verification or the ping does not.
ApplyStaticFails(s) ==
  /\ calls[s].op = "apply-static" /\ Use("faults")
  /\ mac' \in {mac, "static"} /\ slip' = (slip \/ mac' # mac) /\ Answered(s)
  /\ UNCHANGED <<rec, job, router, served, probed, kept, raced>>

\* handleDHCPProbe: an answering server is a conflict.
DHCPProbe(s) ==
  /\ calls[s].op = "dhcp-probe"
  /\ IF router THEN Answered(s) /\ UNCHANGED <<rec, raced, probed>>
               ELSE Advance(s, "confirmed") /\ probed' = TRUE
  /\ UNCHANGED <<mac, kept, slip, Others>>

\* handleClientValidated, handleClientValidationSkip
ClientAccepted(s) ==
  /\ calls[s].op = "validate" /\ \E stage \in {"validated", "skipped"} : Advance(s, stage)
  /\ UNCHANGED <<mac, hist, Others>>

\* handleRouterRestored
RouterRestored(s) ==
  /\ calls[s].op = "router-restored"
  /\ IF router THEN Advance(s, "restored") ELSE Answered(s) /\ UNCHANGED <<rec, raced>>
  /\ UNCHANGED <<mac, hist, Others>>

\* networkRunner.SetDHCP
MacToAuto == mac' = "auto"

\* handleManualRecoveryFinish, handleRestoreDHCP
RestoreDHCP(s) ==
  /\ calls[s].op \in {"manual-finish", "restore-dhcp"} /\ MacToAuto /\ Advance(s, "complete")
  /\ UNCHANGED <<hist, Others>>

\* handleKeepStaticFinish
KeepStatic(s) ==
  /\ calls[s].op = "keep-static" /\ Advance(s, "complete_static") /\ kept' = TRUE
  /\ UNCHANGED <<mac, probed, slip, Others>>

\* handleAbandonTakeover: back to DHCP only when a server answers.
Abandon(s) ==
  /\ calls[s].op = "abandon"
  /\ IF router THEN mac' = "auto" /\ Advance(s, "complete") /\ UNCHANGED kept
               ELSE UNCHANGED mac /\ Advance(s, "complete_static") /\ kept' = TRUE
  /\ UNCHANGED <<probed, slip, Others>>

\* handleRecovery (POST): only the notes change, the whole record is written.
SaveNotes(s) ==
  /\ calls[s].op = "notes" /\ Advance(s, calls[s].rec.stage)
  /\ UNCHANGED <<mac, hist, Others>>

\* handleControlConfig and handleConfigFile after the file was written: a
\* prepared card is discarded under the store's lock, anything else is idle.
EditConfig(s) ==
  /\ calls[s].op = "edit"
  /\ IF calls[s].rec.stage # "prepared" THEN Write(Idle, calls[s].rec)
     ELSE rec' = (IF rec.stage = "prepared" THEN Idle ELSE rec) /\ UNCHANGED raced
  /\ Answered(s)
  /\ UNCHANGED <<mac, hist, Others>>

\* Any network operation fails: nothing is written.
CallFails(s) ==
  /\ calls[s].op \notin {"none", "apply-static"} /\ Use("faults") /\ Answered(s)
  /\ UNCHANGED <<rec, job, mac, router, served, hist, raced>>

\* handleRecoveryPrepare: it looks at the network, never at the record.
PrepareRecovery ==
  /\ Use("requests")
  /\ rec' = [stage |-> "prepared", snap |-> TRUE]
  /\ probed' = FALSE /\ UNCHANGED kept
  /\ slip' = (slip \/ (Required(rec) /\ mac = "static") \/ served \/ job.op # "none")
  /\ UNCHANGED <<calls, job, mac, router, served, raced>>

\* handleRecoveryDiscard
Discard ==
  /\ rec.stage = "prepared" /\ Use("requests") /\ rec' = Idle
  /\ UNCHANGED <<calls, job, mac, router, served, hist, raced>>

----------------------------------------------------------------------------
(* handleGatewayAction and runOperationLocked.                             *)

\* (mutant) The takeover starts as soon as the Mac has its address.
StartEarly == rec.stage \in {"mac_static", "confirmed"}

\* recovery_precondition
MayStart == rec.stage = "confirmed"

\* A stop is accepted at any stage, whether a gateway runs or not.
BeginJob(op) ==
  /\ job.op = "none" /\ Use("requests")
  /\ \/ op = "start" /\ MayStart /\ ~served
     \/ op = "stop"
     \/ op = "reload" /\ served /\ rec.stage \in Serving
  /\ job' = [op |-> op, rec |-> rec]
  /\ raced' = (raced \/ (op = "start" /\ \E s \in Slots : calls[s].op = "abandon"))
  /\ UNCHANGED <<rec, calls, mac, router, served, hist>>

StageAfter(op) == IF op = "start" THEN "active" ELSE "stopped"

\* The record of the moment gets the new stage, whatever it was; a reload changes none.
JobDone ==
  /\ job.op # "none"
  /\ served' = (job.op # "stop")
  /\ IF job.op = "reload" THEN UNCHANGED <<rec, raced>> ELSE Write([rec EXCEPT !.stage = StageAfter(job.op)], job.rec)
  /\ job' = Free
  /\ UNCHANGED <<calls, mac, router, hist, tleft>>

\* recordStartRecoveryFailure, recordReloadRecoveryFailure: the record that was
\* read before goes back; a state file left behind keeps the gateway "served".
JobFails ==
  /\ job.op # "none" /\ Use("faults")
  /\ served' \in IF job.op = "stop" THEN {served} ELSE BOOLEAN
  /\ CASE job.op = "start" /\ ~served'  -> Write(job.rec, job.rec)
       [] job.op = "reload" /\ ~served' -> Write([job.rec EXCEPT !.stage = "confirmed"], job.rec)
       [] OTHER                         -> UNCHANGED <<rec, raced>>
  /\ job' = Free
  /\ UNCHANGED <<calls, mac, router, hist>>

TakeoverNext ==
  \/ ToggleRouter \/ PrepareRecovery \/ Discard \/ JobDone \/ JobFails
  \/ \E op \in {"start", "stop", "reload"} : BeginJob(op)
  \/ \E s \in Slots :
       \/ ApplyStatic(s) \/ ApplyStaticFails(s) \/ DHCPProbe(s) \/ ClientAccepted(s) \/ RouterRestored(s)
       \/ RestoreDHCP(s) \/ KeepStatic(s) \/ Abandon(s) \/ SaveNotes(s) \/ EditConfig(s) \/ CallFails(s)
       \/ \E op \in Handlers : Call(s, op)

----------------------------------------------------------------------------
(* Properties.                                                             *)

Clean == ~raced /\ ~slip

\* The record tells the truth about the network as long as no request wrote back a
\* stale record.  A gateway serves, from a fixed address, only where the wizard says
\* that it may; the Mac is back on DHCP when the record says so (server.go:1498 and
\* :1547); and as long as the Mac has a fixed address that nobody chose to keep, or
\* the gateway serves, the record says that recovery is owed and holds the snapshot
\* for the way back.  A stop is accepted at any stage, so that "stopped" says
\* nothing of the Mac.
StageTellsNetwork ==
  Clean /\ job.op = "none"
    => /\ rec.stage = "complete" => mac = "auto"
       /\ rec.stage \in {"mac_static", "confirmed"} \cup Serving => mac = "static"
       /\ served => mac = "static" /\ rec.stage \in {"confirmed"} \cup Serving
       /\ served \/ (mac = "static" /\ ~kept) => Required(rec) /\ rec.snap

\* In a takeover without such an accident the gateway starts to serve DHCP only
\* after a probe that found no other DHCP server (server.go:849, :1446).
OneDHCPServer == [][~served /\ served' => probed \/ ~Clean]_tvars

(* What the repository says and the code does not keep.                    *)

\* A takeover is abandoned "before the gateway becomes active" (server.go:1127): when
\* it is over, no gateway serves DHCP.  The handler looks for the state file before
\* it probes, and holds no lock that keeps a start from beginning.
AbandonedStaysDown ==
  rec.stage \in {"complete", "complete_static"} /\ job.op = "none" => ~served
=============================================================================
