---------------------------- MODULE HostTakeover ----------------------------
(***************************************************************************)
(* NAS host takeover (internal/qnaphost/manager.go): the control process   *)
(* of the container routes the NAS's own public traffic through OpenSurge  *)
(* by adding policy rules to the network namespace of the NAS, which       *)
(* outlives the container, and DNS rules to its own.  One mutex serialises *)
(* the operations; each ip command is a step that may fail, with or        *)
(* without its effect, and between two steps the client may hang up, the   *)
(* control process may be killed, and the gateway, Tailscale and the NAS's *)
(* address may change.                                                     *)
(***************************************************************************)
EXTENDS Naturals

CONSTANTS
  Addresses,    \* what the NAS's LAN address may be
  Modes,        \* the DNS modes users choose: "auto", "opensurge", "host"
  MaxBlock,     \* priority blocks 1..MaxBlock of four rules; the last is tried first
  TailscaleAt,  \* the block of Tailscale's "from all" rules
  QTSBlocks,    \* where QTS may have a rule for the NAS's address (0: nowhere)
  Budget

Kinds == {"faults", "cancels", "kills", "stops", "requests", "changes"}

ASSUME HostTakeoverAssumption ==
  /\ Modes \subseteq {"auto", "opensurge", "host"}
  /\ MaxBlock \in Nat \ {0} /\ TailscaleAt \in 1..MaxBlock /\ QTSBlocks \subseteq 0..MaxBlock
  /\ Budget \in [Kinds -> Nat]

\* legacyHostPriorities: the fixed block of the first schema, after all others.
Legacy == MaxBlock + 1

(* What OpenSurge puts into the kernel.  In the NAS's namespace: the route *)
(* of table 20242, the inert capability probe and, at a priority block,    *)
(* the rules of a source address ("_via": DNS to table 20242, "_main": DNS *)
(* past it).  The "inner" pieces are the container's own.                  *)
RuleKinds  == {"udp_via", "tcp_via", "udp_main", "tcp_main", "main", "proxy"}
InnerKinds == {"inner_route", "inner_udp", "inner_tcp", "inner_probe"}
NoAddress  == "none"

Piece == [kind: RuleKinds \cup InnerKinds \cup {"route", "probe"},
          at: 0..Legacy, src: Addresses \cup {NoAddress}]

Rule(kind, at, src) == [kind |-> kind, at |-> at, src |-> src]
Single(kind)        == [kind |-> kind, at |-> 0, src |-> NoAddress]

VARIABLES
  intent,     \* qnap-host-routing.json (at: 0 when no block was ever chosen)
  net,        \* OpenSurge's pieces in both namespaces
  op,         \* the operation that holds the mutex
  control,    \* the control process: "up", "stopping" (it was told to); or its container
              \* is "down", to be restarted by Docker, or "stopped", by its user
  ready,      \* ReadinessConfig: the gateway is ready and wanted
  tailscale,  \* the NAS has a tailscale0
  address,    \* the NAS's LAN address
  qts,        \* the block of QTS's rule for the NAS's address
  budget

vars  == <<intent, net, op, control, ready, tailscale, address, qts, budget>>
world == <<ready, tailscale, address, qts>>

Intent == [enabled: BOOLEAN, at: 0..Legacy, mode: {"auto", "opensurge", "host"}, protect: BOOLEAN]

(* todo: the pieces still to be removed or installed; then: what follows   *)
(* the removal; dns, src: effectiveDNS and hostIP of enableLocked;         *)
(* cancelled: the context of the operation is done.                        *)
Op == [cmd: {"none", "enable", "disable", "reconcile", "release"},
       pc: {"idle", "list", "remove", "choose", "probe", "unprobe", "inner_probe", "inner_unprobe",
            "install", "verify", "persist"},
       todo: SUBSET Piece, then: {"end", "choose", "again", "off", "exit"},
       dns: {"via", "main"}, src: Addresses \cup {NoAddress}, cancelled: BOOLEAN]
NoOp == [cmd |-> "none", pc |-> "idle", todo |-> {}, then |-> "end",
         dns |-> "via", src |-> NoAddress, cancelled |-> FALSE]

TypeOK ==
  /\ intent \in Intent /\ net \subseteq Piece /\ op \in Op
  /\ op.todo # {} => op.pc \in {"remove", "install"}
  /\ control \in {"up", "stopping", "down", "stopped"} /\ {ready, tailscale} \subseteq BOOLEAN
  /\ address \in Addresses /\ qts \in QTSBlocks
  /\ budget \in [Kinds -> Nat]

\* Either nothing was ever configured, or the first schema was on when the
\* container was replaced by force.
Init ==
  /\ address \in Addresses /\ qts \in QTSBlocks
  /\ \/ /\ intent = [enabled |-> FALSE, at |-> 0, mode |-> "auto", protect |-> TRUE]
        /\ net = {}
     \/ /\ intent = [enabled |-> TRUE, at |-> Legacy, mode |-> "auto", protect |-> TRUE]
        /\ net = {Rule(k, Legacy, address) : k \in {"udp_via", "tcp_via", "main", "proxy"}} \cup {Single("route")}
  /\ op = NoOp /\ control = "up" /\ ready = FALSE /\ tailscale = FALSE
  /\ budget = Budget

Alive == control \in {"up", "stopping"}

Spend(k) == budget[k] > 0 /\ budget' = [budget EXCEPT ![k] = @ - 1]

----------------------------------------------------------------------------
(* What the kernel does with the rules, and what Status reads from it.     *)

\* hostPrioritiesLocked
Block == IF intent.at = 0 THEN MaxBlock ELSE intent.at

\* A packet of src for the internet: the first proxy rule with a route behind
\* it, unless QTS's own rule comes first.
ViaGateway(src) ==
  /\ Single("route") \in net
  /\ \E p \in net : p.kind = "proxy" /\ p.src = src /\ (qts = 0 \/ p.at < qts)

\* A DNS packet of src, by the rules (via, main) for its transport.
DNSVia(src, via, main) ==
  /\ Single("route") \in net
  /\ \E p \in net : /\ p.kind \in via /\ p.src = src /\ (qts = 0 \/ p.at < qts)
                    /\ \A q \in net : q.kind = main /\ q.src = src => p.at < q.at

\* resolvedDNSMode
EffectiveDNS ==
  IF intent.mode = "host" \/ (intent.mode = "auto" /\ intent.protect /\ tailscale) THEN "main" ELSE "via"

Enabled == /\ {Rule("main", Block, address), Rule("proxy", Block, address), Single("route")} \subseteq net
           /\ ViaGateway(address)

DNSRedirect ==
  /\ EffectiveDNS = "via"
  /\ {Rule("udp_via", Block, address), Rule("tcp_via", Block, address), Single("inner_route"),
      Rule("inner_udp", 0, address), Rule("inner_tcp", 0, address)} \subseteq net
  /\ DNSVia(address, {"udp_via"}, "udp_main") /\ DNSVia(address, {"tcp_via"}, "tcp_main")

DNSPreserved ==
  /\ EffectiveDNS = "main"
  /\ {Rule("udp_main", Block, address), Rule("tcp_main", Block, address)} \subseteq net
  /\ ~DNSVia(address, {"udp_via", "proxy"}, "udp_main")
  /\ ~DNSVia(address, {"tcp_via", "proxy"}, "tcp_main")

Taken == Enabled /\ (DNSRedirect \/ DNSPreserved)

\* TailscaleRoutesProtected: a "from all" rule comes before the block.
TailscaleProtected == intent.protect /\ tailscale => TailscaleAt < Block

\* (mutant) The rules of QTS for the same address are not minded.
CandidatesAnywhere(pieces, src) ==
  {b \in 1..MaxBlock : /\ b # qts /\ \A p \in pieces : p.at # b
                       /\ tailscale => IF intent.protect THEN b > TailscaleAt ELSE b < TailscaleAt}

\* chooseHostPriorities: the free blocks before every rule for src and, to
\* protect Tailscale, after its "from all" rules (otherwise before them).
Candidates(pieces, src) ==
  {b \in 1..MaxBlock :
     /\ qts # 0 => b < qts
     /\ \A p \in pieces : p.at # b /\ (p.src = src /\ p.at # 0 => b < p.at)
     /\ tailscale => IF intent.protect THEN b > TailscaleAt ELSE b < TailscaleAt}

\* The last of them is taken and put on record.
RecordBlock ==
  \E b \in Candidates(net, op.src) :
    /\ \A c \in Candidates(net, op.src) : c <= b
    /\ intent' = [intent EXCEPT !.at = b]

\* ensurePolicySlotsFreeLocked, for the block just chosen.
SlotsFree(dns) == /\ Single("route") \notin net
                  /\ dns = "via" => \A p \in net : p.kind \notin {"inner_route", "inner_udp", "inner_tcp"}

----------------------------------------------------------------------------
(* Operations.  Each begins by taking the mutex.                           *)

Run(cmd, then) ==
  op' = [NoOp EXCEPT !.cmd = cmd, !.pc = "list", !.then = then,
                     !.src = IF then = "choose" THEN address ELSE NoAddress]

\* SetDesiredWithPolicy: the policy is saved whatever comes of the request.  A
\* request under way when the process is told to stop still gets the mutex.
PutEnable ==
  /\ Alive /\ op = NoOp /\ Spend("requests")
  /\ \E mode \in Modes, protect \in BOOLEAN :
       intent' = [intent EXCEPT !.mode = mode, !.protect = protect]
  /\ IF ready THEN Run("enable", "choose") ELSE UNCHANGED op
  /\ UNCHANGED <<net, control, world>>

PutDisable ==
  /\ Alive /\ op = NoOp /\ Spend("requests")
  /\ \E mode \in Modes, protect \in BOOLEAN :
       intent' = [intent EXCEPT !.enabled = FALSE, !.mode = mode, !.protect = protect]
  /\ Run("disable", "end")
  /\ UNCHANGED <<net, control, world>>

\* (mutant) The takeover does not wait for the gateway.
WantedAnyway == intent.enabled

Wanted == intent.enabled /\ ready

\* reconcile: takes the rules away while the takeover is not wanted or the
\* gateway not ready, puts them back when Status misses any.
Reconcile ==
  /\ control = "up" /\ op = NoOp
  /\ \/ ~Wanted /\ net \ {Single("probe"), Single("inner_probe")} # {} /\ Run("reconcile", "end") /\ UNCHANGED budget
     \/ Wanted /\ ~Taken /\ Run("reconcile", "choose") /\ UNCHANGED budget
     \/ Wanted /\ Spend("faults") /\ \E then \in {"end", "choose"} : Run("reconcile", then)   \* a query fails
  /\ UNCHANGED <<intent, net, control, world>>

\* SIGTERM: the context of Run, a reconcile's too, is done.
Shutdown ==
  /\ control = "up" /\ Spend("stops")
  /\ control' = "stopping"
  /\ op' = [op EXCEPT !.cancelled = @ \/ op.cmd = "reconcile"]
  /\ UNCHANGED <<intent, net, world>>

\* Release, deferred by Run and called by main.
Release ==
  /\ control = "stopping" /\ op = NoOp
  /\ Run("release", "exit")
  /\ UNCHANGED <<intent, net, control, world, budget>>

----------------------------------------------------------------------------
(* disableLocked.  Its errors are ignored.                                 *)

\* A command fails, before or after its effect; with a done context it does
\* not even start.
Fails(net1) == \/ op.cancelled /\ UNCHANGED <<net, budget>>
               \/ ~op.cancelled /\ Spend("faults") /\ net' \in {net, net1}

\* cleanupHostDNSBypassLocked: only the main-table DNS rules whose source a
\* proxy rule of the same block confirms, both as listed.
Confirmed(p) == \E q \in net : q.kind = "proxy" /\ q.at = p.at /\ q.src = p.src

\* (mutant) Bypass rules are looked for by the address the NAS has now.
RemovableOfAddress(listed) ==
  {p \in net : \/ p.kind \in {"udp_via", "tcp_via", "main", "proxy"} /\ p.at \in {Block, Legacy}
               \/ p.kind \in {"udp_main", "tcp_main"} /\ p.at \in {Block, Legacy} /\ listed /\ p.src = address
               \/ p.kind \in {"route", "inner_udp", "inner_tcp", "inner_route"}}

\* What is deleted: at the block on record and at the legacy one.
Removable(listed) ==
  {p \in net : \/ p.kind \in {"udp_via", "tcp_via", "main", "proxy"} /\ p.at \in {Block, Legacy}
               \/ p.kind \in {"udp_main", "tcp_main"} /\ p.at \in {Block, Legacy} /\ listed /\ Confirmed(p)
               \/ p.kind \in {"route", "inner_udp", "inner_tcp", "inner_route"}}

\* (mutant) The bypass rules of every source are deleted after the proxy rule.
RemovalOrderProxyFirst ==
  [proxy |-> 1, main |-> 2, udp_via |-> 3, tcp_via |-> 4, udp_main |-> 5, tcp_main |-> 6,
   route |-> 13, inner_udp |-> 14, inner_tcp |-> 15, inner_route |-> 16]

RemovalOrder ==
  [udp_via |-> 1, tcp_via |-> 2, udp_main |-> 3, tcp_main |-> 4, proxy |-> 5, main |-> 6,
   route |-> 13, inner_udp |-> 14, inner_tcp |-> 15, inner_route |-> 16]

InstallOrder ==
  [inner_route |-> 1, inner_udp |-> 2, inner_tcp |-> 3, route |-> 4, main |-> 5, proxy |-> 6,
   udp_via |-> 7, udp_main |-> 7, tcp_via |-> 8, tcp_main |-> 8]

\* The legacy block comes after the one on record.
Comes(order, p) == order[p.kind] + (IF p.at = Legacy /\ Block # Legacy THEN 6 ELSE 0)
IsNext(p, order) == p \in op.todo /\ \A q \in op.todo : Comes(order, p) <= Comes(order, q)

List ==
  /\ op.pc = "list"
  /\ \/ /\ ~op.cancelled /\ UNCHANGED budget
        /\ op' = [op EXCEPT !.pc = "remove", !.todo = Removable(TRUE)]
     \/ /\ IF op.cancelled THEN UNCHANGED budget ELSE Spend("faults")
        /\ op' = [op EXCEPT !.pc = "remove", !.todo = Removable(FALSE)]
  /\ UNCHANGED <<intent, net, control, world>>

RemovePiece ==
  /\ op.pc = "remove" /\ op.todo # {}
  /\ \E p \in op.todo :
     /\ IsNext(p, RemovalOrder)
     /\ op' = [op EXCEPT !.todo = @ \ {p}]
     /\ \/ ~op.cancelled /\ net' = net \ {p} /\ UNCHANGED budget
        \/ Fails(net \ {p})
  /\ UNCHANGED <<intent, control, world>>

\* The namespace of the container, and the gateway in it, go with it.  "restart:
\* unless-stopped" brings back what ended by itself and not what the user stopped.
ContainerGone ==
  /\ control' \in {"down", "stopped"} /\ op' = NoOp /\ ready' = FALSE
  /\ net' = {p \in net : p.kind \notin InnerKinds}

\* What the caller does next.
Removed ==
  /\ op.pc = "remove" /\ op.todo = {}
  /\ CASE op.then = "choose" -> op' = [op EXCEPT !.pc = "choose"] /\ UNCHANGED <<intent, net, control>>
       [] op.then = "again"  -> op' = [op EXCEPT !.pc = "list", !.then = "off"] /\ UNCHANGED <<intent, net, control>>
       [] op.then = "off"    -> op' = NoOp /\ UNCHANGED <<net, control>>
                                /\ intent' = [intent EXCEPT !.enabled = FALSE]
       [] op.then = "exit"   -> ContainerGone /\ UNCHANGED intent
       [] OTHER              -> op' = NoOp /\ UNCHANGED <<intent, net, control>>
  /\ (op.then # "exit" => UNCHANGED ready) /\ UNCHANGED <<tailscale, address, qts, budget>>

----------------------------------------------------------------------------
(* enableLocked, after its disableLocked.                                  *)

\* Before anything is installed an error just returns; a request then turns
\* the takeover off.
GiveUp   == op' = IF op.cmd = "enable" THEN [op EXCEPT !.pc = "list", !.then = "off", !.todo = {}] ELSE NoOp
\* (mutant) The list of what is to be installed is kept.
RollBackKeepsTodo == op' = [op EXCEPT !.pc = "list", !.then = IF op.cmd = "enable" THEN "again" ELSE "end"]

\* Afterwards it is rolled back first.
RollBack == op' = [op EXCEPT !.pc = "list", !.then = IF op.cmd = "enable" THEN "again" ELSE "end", !.todo = {}]

\* A block is chosen and put on record, and its slots are checked.
Choose ==
  /\ op.pc = "choose"
  /\ ~op.cancelled
  /\ RecordBlock
  /\ IF SlotsFree(EffectiveDNS)
     THEN op' = [op EXCEPT !.pc = "probe", !.dns = EffectiveDNS]
     ELSE GiveUp
  /\ UNCHANGED <<net, control, world, budget>>

ChooseFails ==
  /\ op.pc = "choose"
  /\ \/ (op.cancelled \/ Candidates(net, op.src) = {}) /\ UNCHANGED <<intent, budget>>
     \/ Spend("faults") /\ (RecordBlock \/ UNCHANGED intent)
  /\ GiveUp
  /\ UNCHANGED <<net, control, world>>

Plan(dns, at, src) ==
  {Single("route"), Rule("main", at, src), Rule("proxy", at, src)} \cup
  (IF dns = "via" THEN {Rule("udp_via", at, src), Rule("tcp_via", at, src), Single("inner_route"),
                        Rule("inner_udp", 0, src), Rule("inner_tcp", 0, src)}
   ELSE {Rule("udp_main", at, src), Rule("tcp_main", at, src)})

\* preflightL4PolicyRoutingLocked: an inert rule is added and deleted in both
\* namespaces.  A rule that is already there cannot be added (EEXIST).
ProbeOf   == [probe |-> Single("probe"), unprobe |-> Single("probe"),
              inner_probe |-> Single("inner_probe"), inner_unprobe |-> Single("inner_probe")]
NextProbe == [probe |-> "unprobe", unprobe |-> "inner_probe",
              inner_probe |-> "inner_unprobe", inner_unprobe |-> "install"]
ProbeDone == LET p == ProbeOf[op.pc] IN IF op.pc \in {"probe", "inner_probe"} THEN net \cup {p} ELSE net \ {p}

Probe ==
  /\ op.pc \in DOMAIN ProbeOf
  /\ ~op.cancelled
  /\ op.pc \in {"probe", "inner_probe"} => ProbeOf[op.pc] \notin net
  /\ net' = ProbeDone
  /\ op' = [op EXCEPT !.pc = NextProbe[op.pc],
                      !.todo = IF op.pc = "inner_unprobe" THEN Plan(op.dns, Block, op.src) ELSE {}]
  /\ UNCHANGED <<intent, control, world, budget>>

ProbeFails ==
  /\ op.pc \in DOMAIN ProbeOf
  /\ \/ op.pc \in {"probe", "inner_probe"} /\ ProbeOf[op.pc] \in net /\ UNCHANGED <<net, budget>>
     \/ Fails(ProbeDone)
  /\ GiveUp
  /\ UNCHANGED <<intent, control, world>>

InstallPiece ==
  /\ op.pc = "install" /\ op.todo # {} /\ ~op.cancelled
  /\ \E p \in op.todo :
       /\ IsNext(p, InstallOrder)
       /\ net' = net \cup {p}
       /\ op' = [op EXCEPT !.todo = @ \ {p}, !.pc = IF op.todo = {p} THEN "verify" ELSE @]
  /\ UNCHANGED <<intent, control, world, budget>>

InstallFails ==
  /\ op.pc = "install" /\ op.todo # {}
  /\ \E p \in op.todo : IsNext(p, InstallOrder) /\ Fails(net \cup {p})
  /\ RollBack
  /\ UNCHANGED <<intent, control, world>>

\* The status is read back; the address and Tailscale may have changed.
Verified == Enabled /\ (IF op.dns = "via" THEN DNSRedirect ELSE DNSPreserved) /\ TailscaleProtected

Verify ==
  /\ op.pc = "verify"
  /\ ~op.cancelled /\ Verified
  /\ op' = IF op.cmd = "enable" THEN [op EXCEPT !.pc = "persist"] ELSE NoOp
  /\ UNCHANGED <<intent, net, control, world, budget>>

VerifyFails ==
  /\ op.pc = "verify"
  /\ \/ (op.cancelled \/ ~Verified) /\ UNCHANGED budget
     \/ Spend("faults")
  /\ RollBack
  /\ UNCHANGED <<intent, net, control, world>>

\* The request's last step: the intent is saved.
Persist ==
  /\ op.pc = "persist"
  /\ \/ intent' = [intent EXCEPT !.enabled = TRUE] /\ op' = NoOp /\ UNCHANGED budget
     \/ /\ Spend("faults") /\ UNCHANGED intent
        /\ op' = [op EXCEPT !.pc = "list", !.then = "end", !.todo = {}]
  /\ UNCHANGED <<net, control, world>>

OpStep == \/ List \/ RemovePiece \/ Removed \/ Choose \/ ChooseFails \/ Probe \/ ProbeFails
          \/ InstallPiece \/ InstallFails \/ Verify \/ VerifyFails \/ Persist

----------------------------------------------------------------------------
(* The environment.                                                        *)

\* The client hangs up, or the time for the release is over.
Cancel ==
  /\ op.cmd \in {"enable", "disable", "release"} /\ ~op.cancelled /\ Spend("cancels")
  /\ op' = [op EXCEPT !.cancelled = TRUE]
  /\ UNCHANGED <<intent, net, control, world>>

\* SIGKILL or a crash: the container goes, the namespace of the NAS stays.
Killed ==
  /\ Alive /\ Spend("kills")
  /\ ContainerGone
  /\ UNCHANGED <<intent, tailscale, address, qts>>

\* By Docker, or by the user.
StartControl ==
  /\ ~Alive /\ control' = "up"
  /\ UNCHANGED <<intent, net, op, world, budget>>

WorldChanges ==
  /\ Spend("changes")
  /\ \/ Alive /\ ready' = ~ready /\ UNCHANGED <<tailscale, address>>
     \/ tailscale' = ~tailscale /\ UNCHANGED <<ready, address>>
     \/ address' \in Addresses \ {address} /\ UNCHANGED <<ready, tailscale>>
  /\ UNCHANGED <<intent, net, op, control, qts>>

Next == OpStep \/ PutEnable \/ PutDisable \/ Reconcile \/ Shutdown \/ Release
        \/ Cancel \/ Killed \/ StartControl \/ WorldChanges

Spec == Init /\ [][Next]_vars

\* Commands end, the ticker ticks, and Docker restarts a container that went down
\* by itself.  One that was stopped may stay stopped.
Fairness == WF_vars(OpStep) /\ WF_vars(Reconcile) /\ WF_vars(Release)
            /\ WF_vars(control = "down" /\ StartControl)
FairSpec == Spec /\ Fairness

----------------------------------------------------------------------------
(* Properties.                                                             *)

HostRules == {p \in net : p.kind \in RuleKinds}

\* As long as no ip command has failed, every rule in the NAS's namespace can be
\* found again by the next release: it sits at the block on record, or at the
\* legacy one, and a DNS bypass rule comes with the proxy rule that confirms its
\* source.  Whatever was killed, cancelled or changed on the way.
EverythingReleasable ==
  budget["faults"] = Budget["faults"] =>
    \A p \in HostRules : /\ p.at \in {Block, Legacy}
                         /\ p.kind \in {"udp_main", "tcp_main"} => Confirmed(p)

\* Until a command has failed, an orderly stop of the container that had the
\* time to finish leaves no rule in the NAS's namespace: not those of an address
\* the NAS no longer has, of a killed predecessor or of the first schema.
StopReleases ==
  [][op.cmd = "release" /\ ~Alive' /\ ~op.cancelled
       /\ budget' = budget /\ budget["faults"] = Budget["faults"] => HostRules' = {}]_vars

Unscathed == \A k \in {"faults", "cancels", "kills"} : budget[k] = Budget[k]

\* Once the gateway is down for good, the NAS's traffic is on its own route for good:
\* whatever failed or was killed before as long as the container comes back, and when
\* its user leaves it stopped, provided nothing ever failed, hung up or was killed.
HostFallsBack ==
  <>[](~ready /\ (control = "stopped" => Unscathed)) => <>[]~ViaGateway(address)

Possible == Wanted /\ Candidates(net \ Removable(TRUE), address) # {}

ProbeLeft == \/ Single("probe") \in net /\ op.pc # "unprobe"
             \/ Single("inner_probe") \in net /\ op.pc # "inner_unprobe"

\* A takeover that stays wanted, and for which there is room, is complete in the
\* end and stays so, unless a probe rule was left behind.
TakeoverComes == <>[](Possible /\ ~ProbeLeft) => <>[]Taken

(* What the repository says and the code does not keep.                    *)

\* The documentation: once OpenSurge is ready again and the switch is still on,
\* the takeover is restored automatically.
TakeoverRestored == <>[]Possible => <>[]Taken

\* "host always preserves the host's original DNS route": while the takeover is
\* installed with that mode, no DNS of the NAS goes to the gateway.
HostModeKeepsDNS ==
  op.pc \in {"install", "verify", "persist"} /\ op.dns = "main" =>
    /\ ~DNSVia(op.src, {"udp_via", "proxy"}, "udp_main")
    /\ ~DNSVia(op.src, {"tcp_via", "proxy"}, "tcp_main")
=============================================================================
