---------------------------- MODULE DevicePolicy ----------------------------
(***************************************************************************)
(* Per-device routing (internal/device, and internal/mihomo with it): the  *)
(* user's document is validated, cut down to the devices of this LAN,      *)
(* resolved against the nodes the profile has just now, and compiled into  *)
(* selectors and ordered rules.                                            *)
(***************************************************************************)
EXTENDS SequencesExt, Naturals

CONSTANTS
  Documents,             \* sequences of devices [id, mac, ip, mode, gateway, profile]
  Profiles, Templates,   \* by name: [template, defaults, unsupported, rules]
  Topologies,            \* [same: fixed addresses, no DHCP; lan: its addresses]
  Guarded,               \* the gateway's own address, and device_policy.protected_ipv4
  Deaf,                  \* nodes that carry no UDP
  YBudget                \* bounds on edits, refreshes, choices and mishaps

Ids == UNION {{doc[i].id : i \in DOMAIN doc} : doc \in Documents}
Requests == [ip : UNION {t.lan : t \in Topologies}, domain : {"m", "n", "home"}, proto : {"tcp", "udp"}]
Unknown == "unknown"

Rules == [slot : STRING, match : [domain : SUBSET STRING, proto : SUBSET STRING], action : STRING,
          policies : Seq(STRING \ {Unknown}), unsupported : {"", "reject", "fallthrough"}]
Bundles == [template : STRING, defaults : Seq(STRING \ {Unknown}), unsupported : {"", "reject", "fallthrough"}, rules : Seq(Rules)]
Devices == [id : STRING, mac : STRING, ip : STRING, mode : {"dedicated", "inherit_global", ""},
            gateway : {"opensurge", "router"}, profile : DOMAIN Profiles]

\* What the document's format requires; mihomo's own targets carry or refuse anything.
ASSUME PolicyAssumption ==
  /\ Documents \subseteq Seq(Devices)
  /\ Profiles \in [DOMAIN Profiles -> Bundles] /\ Templates \in [DOMAIN Templates -> Bundles]
  /\ \A p \in DOMAIN Profiles : Profiles[p].template \in {"none"} \cup DOMAIN Templates
  /\ Deaf \cap {"DIRECT", "REJECT"} = {}

VARIABLES
  document, topology,   \* what is configured
  nodes,                \* the targets of the effective profile
  core,                 \* the mihomo of the gateway or of the policy editor, and what it was given
  saved,                \* device-policy.applied.json; history: whether a start that failed left it
  cachedb,              \* mihomo's cache: the choice made for each selector
  prior,                \* history: what a selector was given to use, by its user or as its first
                        \* candidate, under the present candidates
  misled,               \* history: an engine that a failed look had left without selectors was asked
                        \* for the choices, or a record was used that the choices since contradict
  yleft

yvars == <<document, topology, nodes, core, saved, cachedb, prior, misled, yleft>>

----------------------------------------------------------------------------
(* The document: resolveProfile, ValidatePolicySet, ActivePolicySetForLAN  *)

Resolved(name) ==
  LET p == Profiles[name]
      t == IF p.template = "none" THEN p ELSE Templates[p.template]
  IN [defaults |-> IF p.defaults = <<>> THEN t.defaults ELSE p.defaults,
      unsupported |-> IF p.unsupported = "" THEN t.unsupported ELSE p.unsupported,
      rules |-> IF p.template = "none" THEN p.rules ELSE t.rules \o p.rules]

Slots(name) == {Resolved(name).rules[i].slot : i \in DOMAIN Resolved(name).rules}

Distinct(s) == \A i, j \in DOMAIN s : i # j => s[i] # s[j]

\* validateRules
RulesValid(rules) == Distinct([i \in DOMAIN rules |-> rules[i].slot]) /\ \A i \in DOMAIN rules : rules[i].slot # "default"

AddressesDiffer(doc) == Distinct([i \in DOMAIN doc |-> doc[i].ip]) /\ Distinct([i \in DOMAIN doc |-> doc[i].id])

Valid(doc) ==
  /\ AddressesDiffer(doc) /\ \A i, j \in DOMAIN doc : i # j /\ doc[i].mac = doc[j].mac => doc[i].mac = ""
  /\ \A i \in DOMAIN doc :
       /\ RulesValid(Resolved(doc[i].profile).rules) /\ Resolved(doc[i].profile).defaults # <<>>
       /\ doc[i].gateway = "router" => doc[i].mac # ""

\* The places of the devices in the document.
OnLAN(doc, topo) == {i \in DOMAIN doc : doc[i].ip \in topo.lan}

\* (mutant) A device without a MAC is active behind DHCP, too.
ByAddress(d, topo) == TRUE

Identified(d, topo) == topo.same \/ d.mac # ""

Active(doc, topo) == {i \in OnLAN(doc, topo) : Identified(doc[i], topo)}
Routed(doc, topo) == {i \in Active(doc, topo) : doc[i].gateway = "opensurge"}

\* ValidatePolicySetForLAN and validateRouterBypass
Acceptable(doc, topo) ==
  /\ \A i \in Active(doc, topo) : doc[i].ip \notin Guarded
  /\ topo.same => \A i \in OnLAN(doc, topo) : doc[i].gateway # "router"

----------------------------------------------------------------------------
(* resolution.go                                                           *)

\* (mutant) A fixed target is taken as it is.
Assumed(res, t) == TRUE

Available(res, t) == t \in {"DIRECT", "REJECT"} \cup res.targets

FixedAvailable(res, t) == Available(res, t)

\* (mutant) Without an answer the first candidate is the choice.
Guessed(res, g) == FALSE

\* "selectionUnknown"
Undetermined(res, g) == res.blind /\ res.picks[g] = Unknown

\* A selector is the candidate it starts with and all it may choose from.
NoGroup == [first |-> Unknown, all |-> {}]

\* What was chosen, if it is a candidate still.
Pick(picks, g, given) == IF picks[g] \in Range(given) THEN picks[g] ELSE Head(given)

\* resolveSelector: the candidates that are left, the known choice first; none
\* when that choice is gone.
Candidates(res, g, given) ==
  LET left == {t \in Range(given) : Available(res, t)}
      pick == Pick(res.picks, g, given)
  IN CASE left = Range(given) -> [first |-> Head(given), all |-> left]
       [] left # Range(given) /\ (left = {} \/ Undetermined(res, g) \/ ~Available(res, pick)) -> NoGroup
       [] OTHER -> [first |-> pick, all |-> left]

AllSlots == {"default"} \cup (UNION {Slots(p) : p \in DOMAIN Profiles})
Selectors == Ids \X AllSlots

\* What the document gives a selector, before it is resolved.
Wished(d, slot) ==
  LET wish == Resolved(d.profile)
      mine == {j \in DOMAIN wish.rules : wish.rules[j].slot = slot}
  IN CASE slot = "default" -> IF d.mode = "inherit_global" THEN <<>> ELSE wish.defaults
       [] slot # "default" /\ mine # {} -> wish.rules[CHOOSE j \in mine : TRUE].policies
       [] OTHER -> <<>>

Given(doc, topo, g) ==
  LET owner == {i \in Routed(doc, topo) : doc[i].id = g[1]}
  IN IF owner = {} THEN <<>> ELSE Wished(doc[CHOOSE i \in owner : TRUE], g[2])

GroupsOf(doc, topo, res) ==
  [g \in Selectors |-> IF Given(doc, topo, g) = <<>> THEN NoGroup ELSE Candidates(res, g, Given(doc, topo, g))]

----------------------------------------------------------------------------
(* compilePolicySet, and the order its rules are given to mihomo           *)

\* (mutant) The values of all fields are alternatives.
AnyField(match) == UNION {{[f \in {k} |-> v] : v \in match[k]} : k \in DOMAIN match}

\* ruleVariants: one rule for each choice of a value in every field that has any.
Variants(match) ==
  LET used == {f \in DOMAIN match : match[f] # {}}
  IN {v \in [used -> UNION {match[f] : f \in used}] : \A f \in used : v[f] \in match[f]}

\* A target is <<node>>, a selector <<device, slot>>.
Direct == <<"DIRECT">>
Reject == <<"REJECT">>
DefaultOf(d) == <<d.id, "default">>
Target(d, r) == IF r.policies # <<>> THEN <<d.id, r.slot>> ELSE <<r.action>>
CanFallThrough(to) == to \notin {Direct, Reject}

Unsupported(wish, r) == IF r.unsupported # "" THEN r.unsupported ELSE IF wish.unsupported # "" THEN wish.unsupported ELSE "reject"
UnsupportedDefault(d) == Unsupported(Resolved(d.profile), [unsupported |-> ""])

\* Rows are taken by section, then in the order of the document; the variants of a
\* rule exclude each other, and a guard comes after its row.
Before(p, q) ==
  \/ p.section < q.section
  \/ p.section = q.section /\ p.device < q.device
  \/ p.section = q.section /\ p.device = q.device /\ p.rule < q.rule
  \/ p.section = q.section /\ p.device = q.device /\ p.rule = q.rule /\ p.guard < q.guard

Row(section, i, j, guard, ip, conds, to) ==
  [place |-> [section |-> section, device |-> i, rule |-> j, guard |-> guard], ip |-> ip, conds |-> conds, to |-> to]

\* A row, and what refuses the requests it cannot carry.
Strictly(section, i, j, ip, conds, to, policy) ==
  {Row(section, i, j, 0, ip, conds, to)}
  \cup (IF policy = "reject" /\ CanFallThrough(to) THEN {Row(section, i, j, 1, ip, conds, Reject)} ELSE {})

NoConds == [f \in {} |-> ""]

HasOutlet(d, r, res, groups) == IF r.policies # <<>> THEN groups[<<d.id, r.slot>>] # NoGroup ELSE FixedAvailable(res, r.action)

RuleRows(doc, i, j, res, groups) ==
  LET d == doc[i]
      r == Resolved(d.profile).rules[j]
  IN IF ~HasOutlet(d, r, res, groups) THEN {}
     ELSE UNION {Strictly(2, i, j, d.ip, v, Target(d, r), Unsupported(Resolved(d.profile), r)) : v \in Variants(r.match)}

OwnRows(doc, i, res, groups) == UNION {RuleRows(doc, i, j, res, groups) : j \in DOMAIN Resolved(doc[i].profile).rules}

DefaultRows(doc, i) ==
  Strictly(3, i, 0, doc[i].ip, NoConds, DefaultOf(doc[i]), UnsupportedDefault(doc[i]))

HomeRow(doc, i) == Row(1, i, 0, 0, doc[i].ip, [domain |-> "home"], Direct)

\* The devices of a mode whose default selector is in force.
Defaulted(doc, topo, groups, mode) ==
  {i \in Routed(doc, topo) : doc[i].mode = mode /\ groups[DefaultOf(doc[i])] # NoGroup}

\* renderPolicySections: local addresses of dedicated devices, rules, dedicated
\* defaults; then the global rules, and the defaults of old documents.
FirstRows(doc, topo, res, groups) ==
  {HomeRow(doc, i) : i \in Defaulted(doc, topo, groups, "dedicated")}
  \cup (UNION {OwnRows(doc, i, res, groups) : i \in Routed(doc, topo)})
  \cup (UNION {DefaultRows(doc, i) : i \in Defaulted(doc, topo, groups, "dedicated")})

LastRows(doc, topo, groups) == UNION {DefaultRows(doc, i) : i \in Defaulted(doc, topo, groups, "")}

Leases(doc, topo) == {[mac |-> doc[i].mac, ip |-> doc[i].ip] : i \in {k \in Active(doc, topo) : doc[k].mac # ""}}

Compile(doc, topo, res) ==
  LET groups == GroupsOf(doc, topo, res)
  IN [groups |-> groups, leases |-> Leases(doc, topo), first |-> FirstRows(doc, topo, res, groups), last |-> LastRows(doc, topo, groups)]

----------------------------------------------------------------------------
(* Steps                                                                   *)

NoPicks == [g \in Selectors |-> Unknown]
NoResolution == [targets |-> {}, picks |-> NoPicks, blind |-> FALSE]
NoCore == [kind |-> "off", alive |-> FALSE, doc |-> <<>>, topo |-> CHOOSE t \in Topologies : TRUE, res |-> NoResolution,
           out |-> [groups |-> [g \in Selectors |-> NoGroup], leases |-> {}, first |-> {}, last |-> {}]]
NotSaved == [there |-> FALSE, left |-> FALSE, doc |-> <<>>, topo |-> CHOOSE t \in Topologies : TRUE, res |-> NoResolution]

PolicyInit ==
  /\ document \in {doc \in Documents : Valid(doc)} /\ topology \in Topologies /\ Acceptable(document, topology)
  /\ nodes = {"x", "y", "z"} /\ core = NoCore /\ saved = NotSaved
  /\ cachedb = NoPicks /\ prior = NoPicks /\ misled = FALSE /\ yleft = YBudget

Spends(k) == yleft[k] > 0 /\ yleft' = [yleft EXCEPT ![k] = @ - 1]
Faults(n) == yleft["faults"] >= n /\ yleft' = [yleft EXCEPT !["faults"] = @ - n]

\* mihomo starts with what is in its cache, or with the first candidate.
Uses(group, cache, g) == IF cache[g] \in group.all THEN cache[g] ELSE group.first
Now(c, cache, g) == Uses(c.out.groups[g], cache, g)
InForce(c, g) == c.alive /\ c.out.groups[g] # NoGroup

(* devicePolicySelections, with the engine c and the snapshot s.           *)

\* The record of the run in the snapshot, and the editor's over it.
Record(c, s) ==
  [g \in Selectors |-> IF c.kind = "prepared" /\ c.res.picks[g] # Unknown THEN c.res.picks[g] ELSE s.res.picks[g]]

\* Over the record, what the engine of the gateway or the editor answers; if it does
\* not, the cache, which only a dead engine leaves unlocked.
Live(c, s) == [g \in Selectors |-> IF InForce(c, g) THEN Now(c, cachedb, g) ELSE Record(c, s)[g]]
Cached(c, s) == [g \in Selectors |-> IF cachedb[g] # Unknown THEN cachedb[g] ELSE Record(c, s)[g]]

AnyMissing ==
  \E g \in Selectors : \E t \in Range(Given(document, topology, g)) : ~Available([targets |-> nodes], t)

\* resolveDevicePolicy: nobody is asked as long as no candidate is missing.
Resolutions(c, s) ==
  LET answer == IF c.alive THEN Live(c, s) ELSE Cached(c, s)
  IN IF ~AnyMissing THEN {[targets |-> nodes, picks |-> NoPicks, blind |-> FALSE]}
     ELSE {[targets |-> nodes, picks |-> answer, blind |-> FALSE], [targets |-> nodes, picks |-> Record(c, s), blind |-> TRUE]}

\* A record keeps what an engine was asked for, also when the candidates were edited
\* since; what a selector uses since may be in no answer and no cache.
Stale(c, s, asked) == \E g \in asked : Record(c, s)[g] # Unknown /\ prior[g] # Unknown /\ Record(c, s)[g] # prior[g]

Misleads(c, s, res) ==
  AnyMissing /\ IF res.blind THEN Stale(c, s, Selectors)
                ELSE IF c.alive THEN c.res.blind ELSE Stale(c, s, {g \in Selectors : cachedb[g] = Unknown})

\* What a selector uses when nothing is missing.
Wanted(g) == Pick(cachedb, g, Given(document, topology, g))

\* A run of the gateway or the policy editor, resolved with c and s.
Runs(kind, c, s) ==
  /\ Acceptable(document, topology)
  /\ \E res \in Resolutions(c, s) :
       /\ Faults(IF res.blind THEN 1 ELSE 0) /\ misled' = (misled \/ Misleads(c, s, res))
       /\ core' = [kind |-> kind, alive |-> TRUE, doc |-> document, topo |-> topology, res |-> res, out |-> Compile(document, topology, res)]
       /\ saved' = IF kind = "gateway" THEN [there |-> TRUE, left |-> FALSE, doc |-> document, topo |-> topology, res |-> res] ELSE s
  /\ prior' = [g \in Selectors |-> IF prior[g] = Unknown /\ InForce(core', g) /\ Now(core', cachedb, g) = Wanted(g)
                                    THEN Now(core', cachedb, g) ELSE prior[g]]
  /\ UNCHANGED <<document, topology, nodes, cachedb>>

\* Start, and the policy editor: with a state file there is neither.
Launch(kind) == core.kind # "gateway" /\ Runs(kind, core, saved)

\* A reload needs a live engine and asks nothing of it: it stops the gateway, with its
\* state and snapshot, before the start resolves anything.
Reload == core.kind = "gateway" /\ core.alive /\ Runs("gateway", NoCore, NotSaved)

\* The editor's engine is gone and the snapshot written when a start fails.
StartFails ==
  /\ core.kind # "gateway" /\ Acceptable(document, topology)
  /\ \E res \in Resolutions(core, saved) :
       /\ Faults(IF res.blind THEN 2 ELSE 1) /\ misled' = (misled \/ Misleads(core, saved, res))
       /\ saved' = [there |-> TRUE, left |-> TRUE, doc |-> document, topo |-> topology, res |-> res]
  /\ core' = NoCore
  /\ UNCHANGED <<document, topology, nodes, cachedb, prior>>

\* restartMihomo, with the profile of the run only.
RestartMihomo ==
  /\ core.kind = "gateway" /\ nodes = core.res.targets /\ core' = [core EXCEPT !.alive = TRUE]
  /\ UNCHANGED <<document, topology, nodes, saved, cachedb, prior, misled, yleft>>

\* (mutant) The snapshot of the run outlives it.
StopLeavesSnapshot ==
  /\ core' = NoCore
  /\ UNCHANGED <<document, topology, nodes, saved, cachedb, prior, misled, yleft>>

Stop ==
  /\ core' = NoCore /\ saved' = NotSaved
  /\ UNCHANGED <<document, topology, nodes, cachedb, prior, misled, yleft>>

\* The last page of the editor is closed.
EditorCloses ==
  /\ core.kind = "prepared" /\ core' = NoCore
  /\ UNCHANGED <<document, topology, nodes, saved, cachedb, prior, misled, yleft>>

EngineDies ==
  /\ core.alive /\ Spends("faults") /\ core' = [core EXCEPT !.alive = FALSE]
  /\ UNCHANGED <<document, topology, nodes, saved, cachedb, prior, misled>>

\* LoadPolicyBundleSnapshot compiles again, with what the run was resolved with.
\* (mutant) With what there is by now.
WithPresentNodes == Compile(saved.doc, saved.topo, [saved.res EXCEPT !.targets = nodes])
Snapshot == Compile(saved.doc, saved.topo, saved.res)

\* handleDeviceSelection and the editor's select
Select(g, t) ==
  /\ Spends("picks") /\ InForce(core, g) /\ t \in core.out.groups[g].all /\ t # Now(core, cachedb, g)
  /\ core.kind = "gateway" => saved.there /\ Snapshot.groups[g] # NoGroup
  /\ cachedb' = [cachedb EXCEPT ![g] = t]
  /\ prior' = [prior EXCEPT ![g] = IF t \in Range(Given(document, topology, g)) THEN t ELSE Unknown]
  /\ UNCHANGED <<document, topology, nodes, core, saved, misled>>

Forgets(doc, topo) ==
  prior' = [g \in Selectors |-> IF Given(doc, topo, g) # Given(document, topology, g) THEN Unknown ELSE prior[g]]

Edit ==
  /\ Spends("edits")
  /\ \E doc \in Documents \ {document} : Valid(doc) /\ Acceptable(doc, topology) /\ document' = doc /\ Forgets(doc, topology)
  /\ UNCHANGED <<topology, nodes, core, saved, cachedb, misled>>

Relocate ==
  /\ Spends("edits")
  /\ \E topo \in Topologies \ {topology} : topology' = topo /\ Forgets(document, topo)
  /\ UNCHANGED <<document, nodes, core, saved, cachedb, misled>>

\* A refreshed subscription has other nodes.
Subscription ==
  /\ Spends("refreshes") /\ \E t \in {"x", "y", "z"} : nodes' = IF t \in nodes THEN nodes \ {t} ELSE nodes \cup {t}
  /\ UNCHANGED <<document, topology, core, saved, cachedb, prior, misled>>

PolicyNext ==
  \/ \E kind \in {"gateway", "prepared"} : Launch(kind)
  \/ \E g \in Selectors : \E t \in {"x", "y", "z"} : Select(g, t)
  \/ Reload \/ StartFails \/ RestartMihomo \/ Stop \/ EditorCloses \/ EngineDies \/ Edit \/ Relocate \/ Subscription

----------------------------------------------------------------------------
(* Properties.                                                             *)

Carries(to, q) ==
  LET node == IF Len(to) = 2 THEN Now(core, cachedb, to) ELSE to[1] IN q.proto = "tcp" \/ node \notin Deaf

\* What mihomo makes of the rules: the first that hits and can carry the request.
Suits(conds, q) == \A f \in DOMAIN conds : conds[f] = q[f]
Hits(q) == {row \in core.out.first : row.ip = q.ip /\ Suits(row.conds, q) /\ Carries(row.to, q)}
Route(q) ==
  IF Hits(q) = {} THEN <<"global">>
  ELSE (CHOOSE row \in Hits(q) : \A other \in Hits(q) : ~Before(other.place, row.place)).to

\* What the document says of a request, read without its compiler.
Sender(q) == {i \in Active(core.doc, core.topo) : core.doc[i].ip = q.ip}

Counts(d, r) == IF r.policies # <<>> THEN core.out.groups[<<d.id, r.slot>>] # NoGroup ELSE Available(core.res, r.action)

Strict(d, r) == Unsupported(Resolved(d.profile), r) = "reject" /\ CanFallThrough(Target(d, r))

Fits(match, q) == \A f \in DOMAIN match : match[f] = {} \/ q[f] \in match[f]

Decides(d, r, q) ==
  /\ Counts(d, r) /\ Fits(r.match, q)
  /\ Carries(Target(d, r), q) \/ Strict(d, r)

\* The place of the first rule that decides a request, 0 if there is none.
Decider(d, q) == SelectInSeq(Resolved(d.profile).rules, LAMBDA r : Decides(d, r, q))

MeantFor(d, q) ==
  LET rules == Resolved(d.profile).rules
      i == Decider(d, q)
      own == DefaultOf(d)
      dedicated == d.mode = "dedicated" /\ core.out.groups[own] # NoGroup
  IN CASE dedicated /\ q.domain = "home" -> Direct
       [] ~(dedicated /\ q.domain = "home") /\ i # 0 -> IF Carries(Target(d, rules[i]), q) THEN Target(d, rules[i]) ELSE Reject
       [] ~(dedicated /\ q.domain = "home") /\ i = 0 /\ dedicated ->
            IF Carries(own, q) THEN own ELSE IF UnsupportedDefault(d) = "reject" THEN Reject ELSE <<"global">>
       [] OTHER -> <<"global">>

Meant(q) ==
  IF \E i \in Sender(q) : core.doc[i].gateway = "opensurge" THEN MeantFor(core.doc[CHOOSE i \in Sender(q) : TRUE], q) ELSE <<"global">>

\* Every request of every address goes where the applied document says, whatever
\* nodes are missing: an outlet that cannot carry it rejects it and does not leak
\* it into a wider rule, and no device is routed by another's rules.
RoutedAsWritten == core.alive => \A q \in Requests : Route(q) = Meant(q)

\* "a later lease holder [cannot] inherit rules that belonged to another device":
\* behind DHCP an address has rules only if it is reserved, and protected
\* addresses never have any.
AddressesAreHeld ==
  \A row \in core.out.first :
    /\ row.ip \notin Guarded
    /\ ~core.topo.same => \E l \in core.out.leases : l.ip = row.ip /\ \A k \in core.out.leases : k.ip = row.ip => k = l

\* However nodes come and go, what is compiled names only what was there,
\* so that mihomo accepts it and the gateway can start.
TargetsExist ==
  \A row \in core.out.first \cup core.out.last :
    IF Len(row.to) = 2 THEN /\ core.out.groups[row.to].first \in core.out.groups[row.to].all
                            /\ \A t \in core.out.groups[row.to].all : Available(core.res, t)
    ELSE Available(core.res, row.to[1])

\* What a preview (a rendering for the overlay's page or render-mihomo) says that a
\* selector will use, and a start with the same resolution will make it use.
Previewed(res, g) == Candidates(res, g, Given(document, topology, g))

\* A device is not moved to another node behind its user's back: while its
\* candidates are not edited, a selector that is in force uses what it used last,
\* through outages, restarts, reloads, and engines that do not answer; and whoever
\* resolves the document at any moment, with the running gateway, the editor or
\* neither, is told just that.
ChoicesSurvive ==
  ~misled => \A g \in Selectors : prior[g] # Unknown =>
    /\ InForce(core, g) => Now(core, cachedb, g) = prior[g]
    /\ \A res \in Resolutions(core, saved) :
         \/ Misleads(core, saved, res)
         \/ Previewed(res, g) = NoGroup \/ Uses(Previewed(res, g), cachedb, g) = prior[g]

\* There is a snapshot exactly while the gateway runs, unless a start that failed left
\* it; and it describes that run, not what a later subscription would give.
SnapshotDescribesRun ==
  IF core.kind = "gateway" THEN saved.there /\ ~saved.left /\ Snapshot = core.out ELSE saved.there => saved.left
=============================================================================
