----------------------------- MODULE Deployment -----------------------------
(***************************************************************************)
(* The orchestrator of the gateway's container (internal/deployment:       *)
(* orchestrator.go, docker.go, rpc.go): one Apply at a time, under o.mu,   *)
(* replaces container and network call by call against Docker and puts     *)
(* the old ones back when a call fails; the caller may hang up, the        *)
(* orchestrator may die, and people use Docker beside it.                  *)
(***************************************************************************)
EXTENDS Naturals

CONSTANTS
  Specs,    \* specifications of a deployment
  Images,   \* gateway images
  DBudget   \* bounds on applies, faults, acts of people and deaths

Absent == [own |-> "none", spec |-> "-", image |-> "-", up |-> FALSE]
NoWire == [own |-> "none", spec |-> "-"]
Asleep == [pc |-> "rest", spec |-> "-", image |-> "-", old |-> Absent, back |-> FALSE, gone |-> FALSE, hits |-> 0]
NoNews == [result |-> "none", spec |-> "-", old |-> Absent, hits |-> 0]

VARIABLES
  box,       \* the container named opensurge-gateway
  wire,      \* the network of its name
  image,     \* Orchestrator.Image
  act,       \* the Apply under o.mu; hits counts what went wrong in it
  news,      \* history: how the last Apply ended, until somebody else acts
  trampled,  \* history: somebody acted while an Apply was at work, or a clean-up failed
  dleft

dvars == <<box, wire, image, act, news, trampled, dleft>>

DeploymentInit ==
  /\ box = Absent /\ wire = NoWire /\ image = (CHOOSE i \in Images : TRUE)
  /\ act = Asleep /\ news = NoNews /\ trampled = FALSE /\ dleft = DBudget

Cost(k) == dleft[k] > 0 /\ dleft' = [dleft EXCEPT ![k] = @ - 1]
Goto(pc) == act' = [act EXCEPT !.pc = pc]

----------------------------------------------------------------------------
(* Apply                                                                   *)

\* (mutant) The labels of the container are not looked at.
AnyContainer == TRUE

\* SpecFromLabels
OursOrNone == box.own # "foreign"

\* Ping, ImageExists, InspectContainer; nothing to do when the same
\* specification runs.
Apply ==
  /\ act.pc = "rest" /\ Cost("applies") /\ OursOrNone
  /\ \E s \in Specs :
       /\ ~(box.own = "managed" /\ box.spec = s /\ box.up)
       /\ act' = [Asleep EXCEPT !.pc = "stop", !.spec = s, !.image = image, !.old = box]
  /\ news' = NoNews
  /\ UNCHANGED <<box, wire, image, trampled>>

\* (mutant) A rollback uses the image that is configured now.
ImageOfNow == image
OldImage == act.old.image

\* An error of replace: of the new specification, and there is an old one to go
\* back to, or of the way back.
Fails(hits) ==
  IF ~act.back /\ act.old.own = "managed"
  THEN /\ act' = [act EXCEPT !.pc = "stop", !.back = TRUE, !.spec = act.old.spec, !.image = OldImage, !.hits = hits]
       /\ UNCHANGED news
  ELSE /\ act' = Asleep /\ news' = [result |-> "failed", spec |-> act.spec, old |-> act.old, hits |-> hits]

(* The calls of replace, with what Docker does for each.                   *)
Stopped  == box' = [box EXCEPT !.up = FALSE] /\ UNCHANGED wire
Removed  == box' = Absent /\ UNCHANGED wire
Unwired  == wire.own # "foreign" /\ wire' = NoWire /\ UNCHANGED box
Wired    == wire.own = "none" /\ wire' = [own |-> "managed", spec |-> act.spec] /\ UNCHANGED box
Created  == box.own = "none" /\ box' = [own |-> "managed", spec |-> act.spec, image |-> act.image, up |-> FALSE] /\ UNCHANGED wire
Started  == box.own # "none" /\ box' = [box EXCEPT !.up = TRUE] /\ UNCHANGED wire
Healthy  == box.up /\ UNCHANGED <<box, wire>>

Effect(pc) ==
  CASE pc = "stop" -> Stopped [] pc = "remove" -> Removed [] pc = "unwire" -> Unwired [] pc = "wire" -> Wired
    [] pc = "create" -> Created [] pc = "start" -> Started [] pc = "wait" -> Healthy

\* RemoveManagedNetwork and CreateManagedNetwork refuse, the other names are taken
\* or gone.
Refuses(pc) ==
  CASE pc = "unwire" -> wire.own = "foreign" [] pc = "wire" -> wire.own # "none" [] pc = "create" -> box.own # "none"
    [] pc = "start" -> box.own = "none" [] pc = "wait" -> ~box.up [] OTHER -> FALSE

After == [stop |-> "remove", remove |-> "unwire", unwire |-> "wire", wire |-> "create", create |-> "start", start |-> "wait"]
Early == {"stop", "remove", "unwire", "wire"}
Late  == {"create", "start", "wait"}

CallWorks ==
  /\ act.pc \in DOMAIN After /\ ~act.gone /\ Effect(act.pc) /\ Goto(After[act.pc])
  /\ UNCHANGED <<image, news, trampled, dleft>>

\* The gateway is healthy: done, or back; one that was stopped is stopped again.
Serves ==
  /\ act.pc = "wait" /\ ~act.gone /\ box.up
  /\ IF act.back
     THEN /\ box' = [box EXCEPT !.up = act.old.up]
          /\ news' = [result |-> "failed", spec |-> act.spec, old |-> act.old, hits |-> act.hits]
     ELSE UNCHANGED box /\ news' = [result |-> "applied", spec |-> act.spec, old |-> act.old, hits |-> act.hits]
  /\ act' = Asleep
  /\ UNCHANGED <<wire, image, trampled, dleft>>

\* The call answers an error, with its effect or without, before the deferred
\* clean-up is in place.
EarlyCallFails ==
  /\ act.pc \in Early
  /\ \/ (act.gone \/ Refuses(act.pc)) /\ UNCHANGED <<box, wire, dleft>>
     \/ ~act.gone /\ Cost("faults") /\ (Effect(act.pc) \/ UNCHANGED <<box, wire>>)
  /\ Fails(act.hits + 1)
  /\ UNCHANGED <<image, trampled>>

\* (mutant) The clean-up leaves the container.
NetworkOnly == box

\* The deferred RemoveContainer takes whatever has the name.
Swept == Absent

\* The same after the network was created: container and network go, with a
\* context of their own.
LateCallFails ==
  /\ act.pc \in Late
  /\ \/ (act.gone \/ Refuses(act.pc)) /\ UNCHANGED dleft
     \/ ~act.gone /\ Cost("faults")
  /\ box' = Swept /\ wire' = (IF wire.own = "foreign" THEN wire ELSE NoWire)
  /\ Fails(act.hits + 1)
  /\ UNCHANGED <<image, trampled>>

\* The clean-up fails as well, for the container or for the network.
CleanUpFails ==
  /\ act.pc \in Late /\ Cost("faults")
  /\ \/ box' = Absent /\ UNCHANGED wire
     \/ UNCHANGED box /\ wire' = IF box.up \/ wire.own = "foreign" THEN wire ELSE NoWire
  /\ Fails(act.hits + 2) /\ trampled' = TRUE
  /\ UNCHANGED image

\* The client of the RPC waited its 90 seconds: from now on every call of this
\* Apply, and of its rollback, fails.
HangsUp ==
  /\ act.pc # "rest" /\ ~act.gone /\ Cost("faults")
  /\ act' = [act EXCEPT !.gone = TRUE, !.hits = @ + 1]
  /\ UNCHANGED <<box, wire, image, news, trampled>>

OrchestratorDies ==
  /\ Cost("deaths") /\ act' = Asleep /\ news' = NoNews /\ image' \in Images
  /\ UNCHANGED <<box, wire, trampled>>

\* People create, stop or remove things of these names.
People ==
  /\ Cost("people")
  /\ \/ box.own = "none" /\ box' = [own |-> "foreign", spec |-> "-", image |-> "-", up |-> TRUE] /\ UNCHANGED wire
     \/ wire.own = "none" /\ wire' = [own |-> "foreign", spec |-> "-"] /\ UNCHANGED box
     \/ box.up /\ box' = [box EXCEPT !.up = FALSE] /\ UNCHANGED wire
     \/ box.own # "none" /\ box' = Absent /\ UNCHANGED wire
  /\ trampled' = (trampled \/ act.pc # "rest") /\ news' = NoNews
  /\ act' = [act EXCEPT !.hits = @ + IF act.pc = "rest" THEN 0 ELSE 2]
  /\ UNCHANGED image

DeploymentNext ==
  Apply \/ CallWorks \/ Serves \/ EarlyCallFails \/ LateCallFails \/ CleanUpFails \/ HangsUp \/ OrchestratorDies \/ People

----------------------------------------------------------------------------
(* Properties.                                                             *)

DeploymentTypeOK ==
  /\ box.own \in {"none", "managed", "foreign"} /\ box.up \in BOOLEAN /\ wire.own \in {"none", "managed", "foreign"}
  /\ act.pc \in DOMAIN After \cup {"rest", "wait"} /\ {act.back, act.gone, trampled} \subseteq BOOLEAN

\* One failing call, whichever it is and whether or not it had its effect, leaves
\* the gateway that was there before: its specification, its image, running or
\* not.  One that hangs up costs two: the way back is refused as well.
OneFailureRestores ==
  news.result = "failed" /\ news.hits = 1 /\ news.old.own = "managed" => box = news.old

\* A managed container never outlives its network, whatever calls of replace fail
\* and wherever the orchestrator dies.
NetworkUnderGateway ==
  ~trampled /\ box.own = "managed" => wire = [own |-> "managed", spec |-> box.spec]

\* "refusing to replace container ... because it is not OpenSurge-managed"
\* (orchestrator.go:80): at every step of an Apply, unless it came during one.
ForeignKept == [][box.own = "foreign" /\ box' # box => dleft'.people < dleft.people \/ trampled]_dvars
=============================================================================
