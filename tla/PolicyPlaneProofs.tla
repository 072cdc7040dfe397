------------------------- MODULE PolicyPlaneProofs -------------------------
(***************************************************************************)
(* What PolicyPlane promises for any document, any subscription, any       *)
(* traffic, any filter and any calendar.                                   *)
(***************************************************************************)
EXTENDS PolicyPlane, FiniteSetTheorems, SequenceTheorems, WellFoundedInduction, TLAPS

\* The least number of a set: what the provers have instead of an induction.
LEMMA LeastOfNumbers == ASSUME NEW Ns \in SUBSET Nat, Ns # {} PROVE \E n \in Ns : \A m \in Ns : n <= m
<1>1. PICK n \in Ns : \A m \in Ns : <<m, n>> \notin OpToRel(<, Nat)
  BY NatLessThanWellFounded, WFMin
<1>2. \A m \in Ns : ~(m < n)
  BY <1>1 DEF OpToRel
<1> QED
  BY <1>2

----------------------------------------------------------------------------
(* The document.                                                           *)

Nodes == STRING \ {Unknown}

LEMMA ResolvedType ==
  ASSUME NEW p \in DOMAIN Profiles
  PROVE  /\ Resolved(p).defaults \in Seq(Nodes) /\ Resolved(p).rules \in Seq(Rules)
         /\ Resolved(p).unsupported \in {"", "reject", "fallthrough"}
<1>1. Profiles[p] \in Bundles /\ (Profiles[p].template # "none" => Templates[Profiles[p].template] \in Bundles)
  BY PolicyAssumption DEF PolicyAssumption
<1>2. ASSUME NEW a \in Bundles PROVE a.defaults \in Seq(Nodes) /\ a.rules \in Seq(Rules) /\ a.unsupported \in {"", "reject", "fallthrough"}
  BY DEF Bundles, Nodes
<1>3. ASSUME NEW a \in Seq(Rules), NEW b \in Seq(Rules) PROVE a \o b \in Seq(Rules)
  OBVIOUS
<1> DEFINE t == IF Profiles[p].template = "none" THEN Profiles[p] ELSE Templates[Profiles[p].template]
<1>4. t \in Bundles
  BY <1>1
<1>5. /\ Resolved(p).defaults \in {t.defaults, Profiles[p].defaults}
      /\ Resolved(p).unsupported \in {t.unsupported, Profiles[p].unsupported}
      /\ Resolved(p).rules \in {Profiles[p].rules, t.rules \o Profiles[p].rules}
  BY DEF Resolved
<1> HIDE DEF t
<1> QED
  BY <1>1, <1>2, <1>3, <1>4, <1>5

\* A document's device has a profile that can be resolved.
LEMMA DeviceType ==
  ASSUME NEW doc \in Documents, NEW i \in DOMAIN doc
  PROVE  doc[i] \in Devices /\ doc[i].profile \in DOMAIN Profiles
<1>1. doc \in Seq(Devices)
  BY PolicyAssumption DEF PolicyAssumption
<1>2. doc[i] \in Devices
  BY <1>1
<1> QED
  BY <1>2 DEF Devices

LEMMA WishedType ==
  ASSUME NEW d \in Devices, NEW slot PROVE Wished(d, slot) \in Seq(Nodes)
<1>1. d.profile \in DOMAIN Profiles
  BY DEF Devices
<1> DEFINE wish == Resolved(d.profile)
           mine == {j \in DOMAIN wish.rules : wish.rules[j].slot = slot}
<1>2. wish.defaults \in Seq(Nodes) /\ wish.rules \in Seq(Rules)
  BY <1>1, ResolvedType
<1>3. ASSUME NEW j \in mine PROVE wish.rules[j].policies \in Seq(Nodes)
  <2>1. wish.rules[j] \in Rules
    BY <1>2
  <2> QED
    BY <2>1 DEF Rules, Nodes
<1>4. mine # {} => (CHOOSE j \in mine : TRUE) \in mine
  OBVIOUS
<1>5. <<>> \in Seq(Nodes)
  OBVIOUS
<1>6. Wished(d, slot) = CASE slot = "default" -> IF d.mode = "inherit_global" THEN <<>> ELSE wish.defaults
       [] slot # "default" /\ mine # {} -> wish.rules[CHOOSE j \in mine : TRUE].policies
       [] OTHER -> <<>>
  BY DEF Wished
<1> HIDE DEF wish, mine
<1>7. CASE slot = "default"
  BY <1>2, <1>5, <1>6, <1>7
<1>8. CASE slot # "default"
  BY <1>3, <1>4, <1>5, <1>6, <1>8
<1> QED
  BY <1>7, <1>8

LEMMA GivenType ==
  ASSUME NEW doc \in Documents, NEW topo, NEW g
  PROVE  Given(doc, topo, g) \in Seq(Nodes)
<1> DEFINE owner == {i \in Routed(doc, topo) : doc[i].id = g[1]}
<1>1. owner \subseteq DOMAIN doc
  BY DEF Routed, Active, OnLAN
<1>2. CASE owner = {}
  BY <1>2 DEF Given
<1>3. CASE owner # {}
  <2>1. (CHOOSE i \in owner : TRUE) \in DOMAIN doc
    BY <1>1, <1>3
  <2>2. doc[CHOOSE i \in owner : TRUE] \in Devices
    BY <2>1, DeviceType
  <2> QED
    BY <1>3, <2>2, WishedType DEF Given
<1> QED
  BY <1>2, <1>3

\* A selector that there is has its first candidate, and only candidates that are available.
LEMMA CandidatesFacts ==
  ASSUME NEW res, NEW g, NEW given \in Seq(Nodes), given # <<>>
  PROVE  LET c == Candidates(res, g, given)
         IN \/ c = NoGroup
            \/ c.first \in c.all /\ c.all \subseteq Range(given) /\ (\A t \in c.all : Available(res, t))
<1> DEFINE left == {t \in Range(given) : Available(res, t)}
           pick == Pick(res.picks, g, given)
           c == Candidates(res, g, given)
<1>1. Head(given) \in Range(given)
  BY DEF Range
<1>2. pick \in Range(given)
  BY <1>1 DEF Pick
<1>3. CASE left = Range(given)
  <2>1. c = [first |-> Head(given), all |-> left]
    BY <1>3 DEF Candidates
  <2> QED
    BY <1>1, <1>3, <2>1
<1>4. CASE left # Range(given) /\ (left = {} \/ Undetermined(res, g) \/ ~Available(res, pick))
  BY <1>4 DEF Candidates
<1>5. CASE left # Range(given) /\ ~(left = {} \/ Undetermined(res, g) \/ ~Available(res, pick))
  <2>1. c = [first |-> pick, all |-> left]
    BY <1>5 DEF Candidates
  <2> QED
    BY <1>2, <1>5, <2>1
<1> QED
  BY <1>3, <1>4, <1>5
----------------------------------------------------------------------------
(* The compiler.                                                           *)

LEMMA GroupsFacts ==
  ASSUME NEW doc \in Documents, NEW topo, NEW res, NEW g \in Selectors
  PROVE  LET c == GroupsOf(doc, topo, res)[g]
         IN \/ c = NoGroup
            \/ c.first \in c.all /\ (\A t \in c.all : Available(res, t))
<1>1. Given(doc, topo, g) \in Seq(Nodes)
  BY GivenType
<1>2. GroupsOf(doc, topo, res)[g] = IF Given(doc, topo, g) = <<>> THEN NoGroup ELSE Candidates(res, g, Given(doc, topo, g))
  BY DEF GroupsOf
<1> QED
  BY <1>1, <1>2, CandidatesFacts

\* A device's selectors are among those there are.
LEMMA SelectorOf ==
  ASSUME NEW doc \in Documents, NEW i \in DOMAIN doc
  PROVE  /\ DefaultOf(doc[i]) \in Selectors
         /\ \A j \in DOMAIN Resolved(doc[i].profile).rules : <<doc[i].id, Resolved(doc[i].profile).rules[j].slot>> \in Selectors
<1> DEFINE p == doc[i].profile
<1>1. doc[i].id \in Ids
  BY DEF Ids
<1>2. p \in DOMAIN Profiles
  BY DeviceType
<1> HIDE DEF p
<1>3. ASSUME NEW j \in DOMAIN Resolved(p).rules PROVE Resolved(p).rules[j].slot \in AllSlots
  <2>1. Resolved(p).rules[j].slot \in Slots(p)
    BY DEF Slots
  <2> QED
    BY <1>2, <2>1 DEF AllSlots
<1>4. "default" \in AllSlots
  BY DEF AllSlots
<1>5. \A slot \in AllSlots : <<doc[i].id, slot>> \in Selectors
  BY <1>1 DEF Selectors
<1> QED
  BY <1>3, <1>4, <1>5 DEF p, DefaultOf

\* What a row before the global rules may be.
LEMMA FirstRowsFacts ==
  ASSUME NEW doc, NEW topo, NEW res, NEW groups, NEW row
  PROVE  row \in FirstRows(doc, topo, res, groups) <=>
           \/ \E i \in Defaulted(doc, topo, groups, "dedicated") : row = HomeRow(doc, i)
           \/ \E i \in Defaulted(doc, topo, groups, "dedicated") : row \in DefaultRows(doc, i)
           \/ \E i \in Routed(doc, topo) : \E j \in DOMAIN Resolved(doc[i].profile).rules : row \in RuleRows(doc, i, j, res, groups)
<1>1. \A i : row \in OwnRows(doc, i, res, groups) <=> \E j \in DOMAIN Resolved(doc[i].profile).rules : row \in RuleRows(doc, i, j, res, groups)
  BY DEF OwnRows
<1>2. row \in FirstRows(doc, topo, res, groups) <=>
           \/ \E i \in Defaulted(doc, topo, groups, "dedicated") : row = HomeRow(doc, i)
           \/ \E i \in Defaulted(doc, topo, groups, "dedicated") : row \in DefaultRows(doc, i)
           \/ \E i \in Routed(doc, topo) : row \in OwnRows(doc, i, res, groups)
  BY DEF FirstRows
<1> QED
  BY <1>1, <1>2

LEMMA LastRowsFacts ==
  ASSUME NEW doc, NEW topo, NEW groups, NEW row \in LastRows(doc, topo, groups)
  PROVE  \E i \in Defaulted(doc, topo, groups, "") : row \in DefaultRows(doc, i)
BY DEF LastRows

\* A row and its guard.
LEMMA StrictlyFacts ==
  ASSUME NEW section, NEW i, NEW j, NEW ip, NEW conds, NEW to, NEW unsupp,
         NEW row \in Strictly(section, i, j, ip, conds, to, unsupp)
  PROVE  /\ row.ip = ip /\ row.conds = conds
         /\ row.place.section = section /\ row.place.device = i /\ row.place.rule = j
         /\ \/ row.to = to /\ row.place.guard = 0
            \/ row.to = Reject /\ row.place.guard = 1 /\ unsupp = "reject" /\ CanFallThrough(to)
BY DEF Strictly, Row

\* The rows of a rule: one for each variant, and its guard.
LEMMA RuleRowsFacts ==
  ASSUME NEW doc, NEW i, NEW j, NEW res, NEW groups, NEW row \in RuleRows(doc, i, j, res, groups)
  PROVE  LET d == doc[i]
             r == Resolved(d.profile).rules[j]
         IN /\ HasOutlet(d, r, res, groups)
            /\ row.ip = d.ip /\ row.conds \in Variants(r.match)
            /\ row.place.section = 2 /\ row.place.device = i /\ row.place.rule = j
            /\ \/ row.to = Target(d, r) /\ row.place.guard = 0
               \/ row.to = Reject /\ row.place.guard = 1 /\ Unsupported(Resolved(d.profile), r) = "reject" /\ CanFallThrough(Target(d, r))
<1> DEFINE d == doc[i]
           r == Resolved(d.profile).rules[j]
<1>1. HasOutlet(d, r, res, groups) /\ row \in UNION {Strictly(2, i, j, d.ip, v, Target(d, r), Unsupported(Resolved(d.profile), r)) : v \in Variants(r.match)}
  BY DEF RuleRows
<1>2. PICK v \in Variants(r.match) : row \in Strictly(2, i, j, d.ip, v, Target(d, r), Unsupported(Resolved(d.profile), r))
  BY <1>1
<1> QED
  BY <1>1, <1>2, StrictlyFacts

LEMMA DefaultRowsFacts ==
  ASSUME NEW doc, NEW i, NEW row \in DefaultRows(doc, i)
  PROVE  /\ row.ip = doc[i].ip /\ row.conds = NoConds
         /\ row.place.section = 3 /\ row.place.device = i /\ row.place.rule = 0
         /\ \/ row.to = DefaultOf(doc[i]) /\ row.place.guard = 0
            \/ row.to = Reject /\ row.place.guard = 1 /\ UnsupportedDefault(doc[i]) = "reject"
BY StrictlyFacts DEF DefaultRows

LEMMA HomeRowFacts ==
  ASSUME NEW doc, NEW i
  PROVE  LET row == HomeRow(doc, i)
         IN /\ row.ip = doc[i].ip /\ row.conds = [domain |-> "home"] /\ row.to = Direct
            /\ row.place.section = 1 /\ row.place.device = i /\ row.place.rule = 0 /\ row.place.guard = 0
BY DEF HomeRow, Row

\* Every row is a routed device's and goes to a selector in force or to what is available.
LEMMA RowsFacts ==
  ASSUME NEW doc \in Documents, NEW topo, NEW res, NEW row,
         row \in Compile(doc, topo, res).first \/ row \in Compile(doc, topo, res).last
  PROVE  /\ \E i \in Routed(doc, topo) : row.ip = doc[i].ip
         /\ \/ row.to \in {Direct, Reject}
            \/ \E t : row.to = <<t>> /\ FixedAvailable(res, t)
            \/ \E g \in Selectors : row.to = g /\ GroupsOf(doc, topo, res)[g] # NoGroup
<1> DEFINE groups == GroupsOf(doc, topo, res)
<1>0. /\ Compile(doc, topo, res).first = FirstRows(doc, topo, res, groups)
      /\ Compile(doc, topo, res).last = LastRows(doc, topo, groups)
  BY DEF Compile
<1>1. \A i \in Routed(doc, topo) : i \in DOMAIN doc
  BY DEF Routed, Active, OnLAN
<1>2. \A mode : \A i \in Defaulted(doc, topo, groups, mode) : i \in Routed(doc, topo) /\ groups[DefaultOf(doc[i])] # NoGroup
  BY DEF Defaulted
<1> HIDE DEF groups
<1>3. ASSUME NEW mode, NEW i \in Defaulted(doc, topo, groups, mode), row \in DefaultRows(doc, i)
      PROVE  /\ row.ip = doc[i].ip
             /\ row.to = Reject \/ \E g \in Selectors : row.to = g /\ groups[g] # NoGroup
  <2>1. i \in DOMAIN doc /\ groups[DefaultOf(doc[i])] # NoGroup
    BY <1>1, <1>2
  <2>2. DefaultOf(doc[i]) \in Selectors
    BY <2>1, SelectorOf
  <2>3. row.ip = doc[i].ip /\ (row.to = DefaultOf(doc[i]) \/ row.to = Reject)
    BY <1>3, DefaultRowsFacts
  <2> QED
    BY <2>1, <2>2, <2>3
<1>4. ASSUME NEW i \in Defaulted(doc, topo, groups, "dedicated"), row = HomeRow(doc, i)
      PROVE  row.ip = doc[i].ip /\ row.to = Direct
  BY <1>4, HomeRowFacts
<1>5. ASSUME NEW i \in Routed(doc, topo), NEW j \in DOMAIN Resolved(doc[i].profile).rules, row \in RuleRows(doc, i, j, res, groups)
      PROVE  /\ row.ip = doc[i].ip
             /\ \/ row.to \in {Direct, Reject}
                \/ \E t : row.to = <<t>> /\ FixedAvailable(res, t)
                \/ \E g \in Selectors : row.to = g /\ groups[g] # NoGroup
  <2> DEFINE r == Resolved(doc[i].profile).rules[j]
  <2>1. /\ HasOutlet(doc[i], r, res, groups)
        /\ row.ip = doc[i].ip /\ (row.to = Target(doc[i], r) \/ row.to = Reject)
    BY <1>5, RuleRowsFacts
  <2>2. <<doc[i].id, r.slot>> \in Selectors
    BY <1>1, SelectorOf
  <2>3. Target(doc[i], r) = IF r.policies # <<>> THEN <<doc[i].id, r.slot>> ELSE <<r.action>>
    BY DEF Target
  <2> QED
    BY <2>1, <2>2, <2>3 DEF HasOutlet
<1>6. CASE row \in FirstRows(doc, topo, res, groups)
  BY <1>2, <1>3, <1>4, <1>5, <1>6, FirstRowsFacts DEF groups
<1>7. CASE row \in LastRows(doc, topo, groups)
  BY <1>2, <1>3, <1>7, LastRowsFacts DEF groups
<1> QED
  BY <1>0, <1>6, <1>7
----------------------------------------------------------------------------
(* What is compiled.                                                       *)

\* What runs was compiled from a valid document, and the snapshot is the gateway's.
CoreInv ==
  /\ document \in Documents /\ Valid(document)
  /\ core = [kind |-> core.kind, alive |-> core.alive, doc |-> core.doc, topo |-> core.topo, res |-> core.res, out |-> core.out]
  /\ core.kind \in {"off", "gateway", "prepared"}
  /\ core.kind = "off" => core = NoCore
  /\ core.kind # "off" => /\ core.doc \in Documents /\ Valid(core.doc) /\ Acceptable(core.doc, core.topo)
                          /\ core.out = Compile(core.doc, core.topo, core.res)
  /\ IF core.kind = "gateway" THEN saved = [there |-> TRUE, left |-> FALSE, doc |-> core.doc, topo |-> core.topo, res |-> core.res]
     ELSE saved.there => saved.left

\* No two devices of a valid document share an address.
LEMMA AddressesAreUnique ==
  ASSUME NEW doc, Valid(doc), NEW i \in DOMAIN doc, NEW j \in DOMAIN doc, doc[i].ip = doc[j].ip
  PROVE  i = j
<1> DEFINE ips == [k \in DOMAIN doc |-> doc[k].ip]
<1>1. Distinct(ips)
  BY DEF Valid, AddressesDiffer
<1>2. DOMAIN ips = DOMAIN doc /\ ips[i] = ips[j]
  OBVIOUS
<1> HIDE DEF ips
<1> QED
  BY <1>1, <1>2 DEF Distinct

LEMMA ActivePlaces == \A doc, topo : Routed(doc, topo) \subseteq Active(doc, topo) /\ Active(doc, topo) \subseteq DOMAIN doc
BY DEF Routed, Active, OnLAN

LEMMA HeldByCompiling == CoreInv => AddressesAreHeld
<1> SUFFICES ASSUME CoreInv, NEW row \in core.out.first
             PROVE  /\ row.ip \notin Guarded
                    /\ ~core.topo.same => \E l \in core.out.leases : l.ip = row.ip /\ \A k \in core.out.leases : k.ip = row.ip => k = l
  BY DEF AddressesAreHeld
<1> DEFINE doc == core.doc
           topo == core.topo
<1>1. core.kind # "off"
  BY DEF CoreInv, NoCore
<1>2. /\ doc \in Documents /\ Valid(doc) /\ Acceptable(doc, topo)
      /\ row \in Compile(doc, topo, core.res).first /\ core.out.leases = Leases(doc, topo)
  BY <1>1 DEF CoreInv, Compile
<1> HIDE DEF doc, topo
<1>3. PICK i \in Routed(doc, topo) : row.ip = doc[i].ip
  BY <1>2, RowsFacts
<1>4. i \in Active(doc, topo) /\ i \in DOMAIN doc
  BY <1>3, ActivePlaces
<1>5. row.ip \notin Guarded
  BY <1>2, <1>3, <1>4 DEF Acceptable
<1>6. ASSUME ~topo.same
      PROVE  \E l \in Leases(doc, topo) : l.ip = row.ip /\ \A k \in Leases(doc, topo) : k.ip = row.ip => k = l
  <2>1. doc[i].mac # ""
    BY <1>4, <1>6 DEF Active, Identified
  <2> DEFINE l == [mac |-> doc[i].mac, ip |-> doc[i].ip]
  <2>2. l \in Leases(doc, topo) /\ l.ip = row.ip
    BY <1>3, <1>4, <2>1 DEF Leases
  <2>3. ASSUME NEW k \in Leases(doc, topo), k.ip = row.ip PROVE k = l
    <3>1. PICK j \in Active(doc, topo) : k = [mac |-> doc[j].mac, ip |-> doc[j].ip]
      BY DEF Leases
    <3>2. j \in DOMAIN doc /\ doc[j].ip = doc[i].ip
      BY <1>3, <2>3, <3>1, ActivePlaces
    <3>3. i = j
      BY <1>2, <1>4, <3>2, AddressesAreUnique
    <3> QED
      BY <3>1, <3>3
  <2> QED
    BY <2>2, <2>3
<1> QED
  BY <1>2, <1>5, <1>6 DEF topo

LEMMA SelectorIsPair == ASSUME NEW g \in Selectors PROVE Len(g) = 2
BY DEF Selectors

LEMMA ExistByCompiling == CoreInv => TargetsExist
<1> SUFFICES ASSUME CoreInv, NEW row \in core.out.first \cup core.out.last
             PROVE  IF Len(row.to) = 2 THEN /\ core.out.groups[row.to].first \in core.out.groups[row.to].all
                                            /\ \A t \in core.out.groups[row.to].all : Available(core.res, t)
                    ELSE Available(core.res, row.to[1])
  BY DEF TargetsExist
<1> DEFINE doc == core.doc
           topo == core.topo
<1>1. core.kind # "off"
  BY DEF CoreInv, NoCore
<1>2. /\ doc \in Documents
      /\ row \in Compile(doc, topo, core.res).first \/ row \in Compile(doc, topo, core.res).last
      /\ core.out.groups = GroupsOf(doc, topo, core.res)
  BY <1>1 DEF CoreInv, Compile
<1> HIDE DEF doc, topo
<1>3. \/ row.to = Direct \/ row.to = Reject
      \/ \E t : row.to = <<t>> /\ FixedAvailable(core.res, t)
      \/ \E g \in Selectors : row.to = g /\ GroupsOf(doc, topo, core.res)[g] # NoGroup
  BY <1>2, RowsFacts
<1>4. CASE row.to = Direct \/ row.to = Reject
  BY <1>4 DEF Direct, Reject, Available
<1>5. ASSUME NEW t, row.to = <<t>>, FixedAvailable(core.res, t) PROVE Len(row.to) # 2 /\ Available(core.res, row.to[1])
  BY <1>5 DEF FixedAvailable
<1>6. ASSUME NEW g \in Selectors, row.to = g, GroupsOf(doc, topo, core.res)[g] # NoGroup
      PROVE  /\ Len(row.to) = 2
             /\ core.out.groups[row.to].first \in core.out.groups[row.to].all
             /\ \A t \in core.out.groups[row.to].all : Available(core.res, t)
  BY <1>2, <1>6, GroupsFacts, SelectorIsPair
<1> QED
  BY <1>3, <1>4, <1>5, <1>6

LEMMA SnapshotByCompiling == CoreInv => SnapshotDescribesRun
BY DEF CoreInv, SnapshotDescribesRun, Snapshot

LEMMA InitCore == PolicyInit => CoreInv
BY DEF PolicyInit, CoreInv, NoCore, NotSaved

\* The editor is never prepared beside a gateway.
LEMMA RunsCore ==
  ASSUME CoreInv, NEW kind \in {"gateway", "prepared"}, NEW c, NEW s, Runs(kind, c, s), kind = "prepared" => s = saved /\ core.kind # "gateway"
  PROVE  CoreInv'
<1>1. PICK res : /\ core' = [kind |-> kind, alive |-> TRUE, doc |-> document, topo |-> topology, res |-> res, out |-> Compile(document, topology, res)]
                 /\ saved' = IF kind = "gateway" THEN [there |-> TRUE, left |-> FALSE, doc |-> document, topo |-> topology, res |-> res] ELSE s
  BY DEF Runs
<1>2. UNCHANGED document /\ Acceptable(document, topology)
  BY DEF Runs
<1>3. /\ core'.kind = kind /\ core'.doc = document /\ core'.topo = topology /\ core'.res = res
      /\ core'.out = Compile(document, topology, res) /\ core'.alive = TRUE
  BY <1>1
<1>4. kind = "prepared" => saved' = saved /\ (saved.there => saved.left)
  BY <1>1 DEF CoreInv
<1>5. /\ Valid(document)' /\ Valid(core.doc)' /\ Acceptable(core.doc, core.topo)' /\ (core.out = Compile(core.doc, core.topo, core.res))'
  BY <1>2, <1>3 DEF CoreInv
<1> QED
  BY <1>1, <1>2, <1>3, <1>4, <1>5 DEF CoreInv

LEMMA StepCore == CoreInv /\ [PolicyNext]_yvars => CoreInv'
<1> SUFFICES ASSUME CoreInv, [PolicyNext]_yvars PROVE CoreInv'
  OBVIOUS
<1>1. ASSUME NEW kind \in {"gateway", "prepared"}, Launch(kind) PROVE CoreInv'
  BY <1>1, RunsCore DEF Launch
<1>2. CASE UNCHANGED <<document, core, saved>>
  BY <1>2 DEF CoreInv
<1>3. ASSUME core' = NoCore, UNCHANGED document, (saved.there => saved.left)' PROVE CoreInv'
  <2>1. NoCore' = NoCore /\ core'.kind = "off" /\ core' = [kind |-> core'.kind, alive |-> core'.alive, doc |-> core'.doc, topo |-> core'.topo, res |-> core'.res, out |-> core'.out]
    BY <1>3 DEF NoCore, NoResolution, NoPicks
  <2> QED
    BY <1>3, <2>1 DEF CoreInv
<1>4. ASSUME NEW awake, core.kind # "off", core' = [core EXCEPT !.alive = awake], UNCHANGED <<document, saved>> PROVE CoreInv'
  <2>1. core = [kind |-> core.kind, alive |-> core.alive, doc |-> core.doc, topo |-> core.topo, res |-> core.res, out |-> core.out]
    BY DEF CoreInv
  <2>2. core' = [kind |-> core.kind, alive |-> awake, doc |-> core.doc, topo |-> core.topo, res |-> core.res, out |-> core.out]
    BY <1>4, <2>1
  <2> QED
    BY <1>4, <2>2 DEF CoreInv
<1>10. CASE Reload
  BY <1>10, RunsCore DEF Reload
<1>11. CASE StartFails
  <2>1. saved'.left
    BY <1>11 DEF StartFails
  <2> QED
    BY <1>3, <1>11, <2>1 DEF StartFails
<1>12. CASE RestartMihomo
  <2>1. core.kind # "off"
    BY <1>12 DEF RestartMihomo
  <2> QED
    BY <1>4, <1>12, <2>1 DEF RestartMihomo
<1>13. CASE Stop
  BY <1>3, <1>13 DEF Stop, NotSaved
<1>14. CASE EditorCloses
  BY <1>3, <1>14 DEF EditorCloses, CoreInv
<1>15. CASE EngineDies
  <2>1. core.kind # "off"
    BY <1>15 DEF EngineDies, CoreInv, NoCore
  <2> QED
    BY <1>4, <1>15, <2>1 DEF EngineDies
<1>5. CASE Edit
  BY <1>5 DEF Edit, CoreInv
<1>6. CASE Relocate
  BY <1>2, <1>6 DEF Relocate
<1>7. CASE Subscription
  BY <1>2, <1>7 DEF Subscription
<1>8. ASSUME NEW g, NEW t, Select(g, t) PROVE CoreInv'
  BY <1>2, <1>8 DEF Select
<1>9. CASE UNCHANGED yvars
  BY <1>2, <1>9 DEF yvars
<1> QED
  BY <1>1, <1>5, <1>6, <1>7, <1>8, <1>9, <1>10, <1>11, <1>12, <1>13, <1>14, <1>15 DEF PolicyNext
----------------------------------------------------------------------------
(* Routing.                                                                *)

LEMMA BuiltInsCarry == ASSUME NEW q PROVE Carries(Direct, q) /\ Carries(Reject, q)
<1>1. Len(Direct) = 1 /\ Direct[1] = "DIRECT" /\ Len(Reject) = 1 /\ Reject[1] = "REJECT"
  BY DEF Direct, Reject
<1>2. "DIRECT" \notin Deaf /\ "REJECT" \notin Deaf
  BY PolicyAssumption DEF PolicyAssumption
<1> QED
  BY <1>1, <1>2 DEF Carries

\* A request matches a rule exactly if it matches one of its variants.
LEMMA VariantsMatch ==
  ASSUME NEW match, NEW q
  PROVE  Fits(match, q) <=> \E v \in Variants(match) : Suits(v, q)
<1> DEFINE used == {f \in DOMAIN match : match[f] # {}}
           all == UNION {match[f] : f \in used}
<1>1. ASSUME Fits(match, q)
      PROVE  \E v \in Variants(match) : Suits(v, q)
  <2> DEFINE v == [f \in used |-> q[f]]
  <2>1. \A f \in used : q[f] \in match[f] /\ q[f] \in all
    BY <1>1 DEF Fits
  <2>2. v \in [used -> all] /\ \A f \in used : v[f] \in match[f]
    BY <2>1
  <2>3. v \in Variants(match)
    BY <2>2 DEF Variants
  <2>4. Suits(v, q)
    BY DEF Suits
  <2> QED
    BY <2>3, <2>4
<1>2. ASSUME NEW v \in Variants(match), Suits(v, q)
      PROVE  Fits(match, q)
  <2>1. v \in [used -> all] /\ \A f \in used : v[f] \in match[f]
    BY DEF Variants
  <2>2. DOMAIN v = used
    BY <2>1
  <2>3. \A f \in used : q[f] \in match[f]
    BY <1>2, <2>1, <2>2 DEF Suits
  <2> QED
    BY <2>3 DEF Fits
<1> QED
  BY <1>1, <1>2

\* The least of the rules that decide a request.
LEMMA FirstToDecide ==
  ASSUME NEW d, NEW q, d.profile \in DOMAIN Profiles
  PROVE  LET rules == Resolved(d.profile).rules
             n == Decider(d, q)
         IN \/ n = 0 /\ \A j \in DOMAIN rules : ~Decides(d, rules[j], q)
            \/ /\ n \in DOMAIN rules /\ n # 0 /\ n \in Nat /\ Decides(d, rules[n], q)
               /\ \A j \in DOMAIN rules : Decides(d, rules[j], q) => n <= j
<1> DEFINE rules == Resolved(d.profile).rules
           I == {j \in 1 .. Len(rules) : Decides(d, rules[j], q)}
           n == Decider(d, q)
<1>0. rules \in Seq(Rules)
  BY ResolvedType
<1>1. n = IF I # {} THEN Min(I) ELSE 0
  BY DEF SelectInSeq, Decider
<1>2. DOMAIN rules = 1 .. Len(rules) /\ Len(rules) \in Nat
  BY <1>0
<1>3. I \in SUBSET Nat
  BY <1>2
<1>4. CASE I = {}
  BY <1>1, <1>2, <1>4
<1>5. CASE I # {}
  <2>1. \E j \in I : \A k \in I : j <= k
    BY <1>3, <1>5, LeastOfNumbers
  <2>2. Min(I) \in I /\ \A k \in I : Min(I) <= k
    BY <2>1 DEF Min
  <2>3. n \in I /\ \A k \in I : n <= k
    BY <1>1, <1>5, <2>2
  <2> HIDE DEF n
  <2>4. /\ n \in DOMAIN rules /\ n # 0 /\ n \in Nat /\ Decides(d, rules[n], q)
        /\ \A j \in DOMAIN rules : Decides(d, rules[j], q) => n <= j
    BY <1>2, <2>3
  <2> QED
    BY <2>4 DEF n
<1> QED
  BY <1>4, <1>5

\* A row that none comes before, and whose equals in place go where it goes, decides.
LEMMA RouteDecided ==
  ASSUME NEW q, NEW row \in Hits(q), \A other \in Hits(q) : ~Before(other.place, row.place),
         \A other \in Hits(q) : ~Before(row.place, other.place) => other.to = row.to
  PROVE  Route(q) = row.to
<1> DEFINE least == CHOOSE r \in Hits(q) : \A other \in Hits(q) : ~Before(other.place, r.place)
<1>1. least \in Hits(q) /\ \A other \in Hits(q) : ~Before(other.place, least.place)
  OBVIOUS
<1>2. Route(q) = least.to
  BY DEF Route
<1> HIDE DEF least
<1> QED
  BY <1>1, <1>2

\* Where a rule's rows that hit come from, and that a rule that decides has one.
LEMMA RuleHits ==
  ASSUME NEW doc, NEW i, NEW j, NEW q,
         NEW row \in RuleRows(doc, i, j, core.res, core.out.groups), row \in Hits(q)
  PROVE  LET d == doc[i]
             r == Resolved(d.profile).rules[j]
         IN /\ Decides(d, r, q)
            /\ row.place.section = 2 /\ row.place.device = i /\ row.place.rule = j
            /\ \/ row.to = Target(d, r) /\ row.place.guard = 0 /\ Carries(Target(d, r), q)
               \/ row.to = Reject /\ row.place.guard = 1
<1> DEFINE d == doc[i]
           r == Resolved(d.profile).rules[j]
<1>1. /\ HasOutlet(d, r, core.res, core.out.groups)
      /\ row.conds \in Variants(r.match)
      /\ row.place.section = 2 /\ row.place.device = i /\ row.place.rule = j
      /\ \/ row.to = Target(d, r) /\ row.place.guard = 0
         \/ row.to = Reject /\ row.place.guard = 1 /\ Unsupported(Resolved(d.profile), r) = "reject" /\ CanFallThrough(Target(d, r))
  BY RuleRowsFacts
<1>2. Suits(row.conds, q) /\ Carries(row.to, q)
  BY DEF Hits
<1>3. Fits(r.match, q)
  BY <1>1, <1>2, VariantsMatch
<1>4. Counts(d, r)
  BY <1>1 DEF HasOutlet, Counts, FixedAvailable
<1>5. Carries(Target(d, r), q) \/ Strict(d, r)
  BY <1>1, <1>2 DEF Strict
<1> HIDE DEF d, r
<1>6. Decides(d, r, q)
  BY <1>3, <1>4, <1>5 DEF Decides
<1> QED
  BY <1>1, <1>2, <1>6 DEF d, r

\* The row of a rule that decides a request.
Answers(row, d, r, q) ==
  /\ row.ip = d.ip /\ Suits(row.conds, q) /\ Carries(row.to, q)
  /\ IF Carries(Target(d, r), q) THEN row.to = Target(d, r) /\ row.place.guard = 0
     ELSE row.to = Reject /\ row.place.guard = 1

LEMMA RuleHas ==
  ASSUME NEW doc, NEW i, NEW j, NEW q, NEW d, NEW r, d = doc[i], r = Resolved(d.profile).rules[j], Decides(d, r, q)
  PROVE  \E row \in RuleRows(doc, i, j, core.res, core.out.groups) : Answers(row, d, r, q)
<1> DEFINE policed == Unsupported(Resolved(d.profile), r)
           rows(v) == Strictly(2, i, j, d.ip, v, Target(d, r), policed)
<1>1. /\ Counts(d, r) /\ (Fits(r.match, q))
      /\ Carries(Target(d, r), q) \/ Strict(d, r)
  BY DEF Decides
<1>2. PICK v \in Variants(r.match) : Suits(v, q)
  BY <1>1, VariantsMatch
<1>3. HasOutlet(d, r, core.res, core.out.groups)
  BY <1>1 DEF HasOutlet, Counts, FixedAvailable
<1>4. RuleRows(doc, i, j, core.res, core.out.groups) = UNION {Strictly(2, i, j, d.ip, w, Target(d, r), Unsupported(Resolved(d.profile), r)) : w \in Variants(r.match)}
  BY <1>3 DEF RuleRows
<1>5. \A row \in rows(v) : row \in RuleRows(doc, i, j, core.res, core.out.groups)
  BY <1>2, <1>4
<1> HIDE DEF policed
<1>6. CASE Carries(Target(d, r), q)
  <2> DEFINE row == Row(2, i, j, 0, d.ip, v, Target(d, r))
  <2>1. row \in rows(v)
    BY DEF Strictly
  <2>2. row.ip = d.ip /\ row.conds = v /\ row.to = Target(d, r) /\ row.place.guard = 0
    BY DEF Row
  <2> HIDE DEF row, rows
  <2> QED
    BY <1>2, <1>5, <1>6, <2>1, <2>2 DEF Answers
<1>7. CASE ~Carries(Target(d, r), q)
  <2> DEFINE row == Row(2, i, j, 1, d.ip, v, Reject)
  <2>0. policed = "reject" /\ CanFallThrough(Target(d, r))
    BY <1>1, <1>7 DEF Strict, policed
  <2>1. row \in rows(v)
    BY <2>0 DEF Strictly
  <2>2. row.ip = d.ip /\ row.conds = v /\ row.to = Reject /\ row.place.guard = 1
    BY DEF Row
  <2> HIDE DEF row, rows
  <2> QED
    BY <1>2, <1>5, <1>7, <2>1, <2>2, BuiltInsCarry DEF Answers
<1> QED
  BY <1>6, <1>7
\* The rows that hit a request are its sender's.
LEMMA HitsOf ==
  ASSUME CoreInv, core.kind # "off", NEW q \in Requests, NEW i \in Routed(core.doc, core.topo), core.doc[i].ip = q.ip,
         NEW row \in Hits(q)
  PROVE  LET d == core.doc[i]
             rules == Resolved(d.profile).rules
             dedicated == d.mode = "dedicated" /\ core.out.groups[DefaultOf(d)] # NoGroup
         IN /\ row.place.device = i
            /\ \/ dedicated /\ q.domain = "home" /\ row.place.section = 1 /\ row.place.rule = 0 /\ row.place.guard = 0 /\ row.to = Direct
               \/ \E j \in DOMAIN rules :
                    /\ Decides(d, rules[j], q) /\ row.place.section = 2 /\ row.place.rule = j
                    /\ \/ row.to = Target(d, rules[j]) /\ row.place.guard = 0 /\ Carries(Target(d, rules[j]), q)
                       \/ row.to = Reject /\ row.place.guard = 1
               \/ /\ dedicated /\ row.place.section = 3 /\ row.place.rule = 0
                  /\ \/ row.to = DefaultOf(d) /\ row.place.guard = 0 /\ Carries(DefaultOf(d), q)
                     \/ row.to = Reject /\ row.place.guard = 1 /\ UnsupportedDefault(d) = "reject"
<1> DEFINE doc == core.doc
           topo == core.topo
           groups == core.out.groups
           d == doc[i]
           rules == Resolved(d.profile).rules
           dedicated == d.mode = "dedicated" /\ groups[DefaultOf(d)] # NoGroup
           Home == dedicated /\ q.domain = "home" /\ row.place.section = 1 /\ row.place.rule = 0 /\ row.place.guard = 0 /\ row.to = Direct
           Rule == \E j \in DOMAIN rules :
                    /\ Decides(d, rules[j], q) /\ row.place.section = 2 /\ row.place.rule = j
                    /\ \/ row.to = Target(d, rules[j]) /\ row.place.guard = 0 /\ Carries(Target(d, rules[j]), q)
                       \/ row.to = Reject /\ row.place.guard = 1
           Rest == /\ dedicated /\ row.place.section = 3 /\ row.place.rule = 0
                   /\ \/ row.to = DefaultOf(d) /\ row.place.guard = 0 /\ Carries(DefaultOf(d), q)
                      \/ row.to = Reject /\ row.place.guard = 1 /\ UnsupportedDefault(d) = "reject"
<1>1. /\ doc \in Documents /\ Valid(doc) /\ core.out = Compile(doc, topo, core.res)
  BY DEF CoreInv
<1>2. core.out.first = FirstRows(doc, topo, core.res, groups)
  BY <1>1 DEF Compile
<1>3. row \in FirstRows(doc, topo, core.res, groups) /\ row.ip = d.ip /\ Suits(row.conds, q) /\ Carries(row.to, q)
  BY <1>2 DEF Hits
<1>4. ASSUME NEW k \in Routed(doc, topo), row.ip = doc[k].ip PROVE k = i
  <2>1. k \in DOMAIN doc /\ i \in DOMAIN doc /\ doc[k].ip = doc[i].ip
    BY <1>3, <1>4, ActivePlaces
  <2> QED
    BY <1>1, <2>1, AddressesAreUnique
<1>5. ASSUME NEW k \in Defaulted(doc, topo, groups, "dedicated"), row = HomeRow(doc, k)
      PROVE  row.place.device = i /\ Home
  <2>1. row.ip = doc[k].ip /\ row.conds = [domain |-> "home"] /\ row.to = Direct
        /\ row.place.section = 1 /\ row.place.device = k /\ row.place.rule = 0 /\ row.place.guard = 0
    BY <1>5, HomeRowFacts
  <2>2. k \in Routed(doc, topo) /\ doc[k].mode = "dedicated" /\ groups[DefaultOf(doc[k])] # NoGroup
    BY <1>5 DEF Defaulted
  <2>3. k = i
    BY <1>4, <2>1, <2>2
  <2>4. q.domain = "home"
    BY <1>3, <2>1 DEF Suits
  <2> QED
    BY <2>1, <2>2, <2>3, <2>4
<1>6. ASSUME NEW k \in Defaulted(doc, topo, groups, "dedicated"), row \in DefaultRows(doc, k)
      PROVE  row.place.device = i /\ Rest
  <2>1. /\ row.ip = doc[k].ip
        /\ row.place.section = 3 /\ row.place.device = k /\ row.place.rule = 0
        /\ \/ row.to = DefaultOf(doc[k]) /\ row.place.guard = 0
           \/ row.to = Reject /\ row.place.guard = 1 /\ UnsupportedDefault(doc[k]) = "reject"
    BY <1>6, DefaultRowsFacts
  <2>2. k \in Routed(doc, topo) /\ doc[k].mode = "dedicated" /\ groups[DefaultOf(doc[k])] # NoGroup
    BY <1>6 DEF Defaulted
  <2>3. k = i
    BY <1>4, <2>1, <2>2
  <2> QED
    BY <1>3, <2>1, <2>2, <2>3
<1>7. ASSUME NEW k \in Routed(doc, topo), NEW j \in DOMAIN Resolved(doc[k].profile).rules, row \in RuleRows(doc, k, j, core.res, groups)
      PROVE  row.place.device = i /\ Rule
  <2>1. row.ip = doc[k].ip
    BY <1>7, RuleRowsFacts
  <2>2. k = i
    BY <1>4, <2>1
  <2>3. /\ Decides(d, rules[j], q)
        /\ row.place.section = 2 /\ row.place.device = i /\ row.place.rule = j
        /\ \/ row.to = Target(d, rules[j]) /\ row.place.guard = 0 /\ Carries(Target(d, rules[j]), q)
           \/ row.to = Reject /\ row.place.guard = 1
    BY <1>7, <2>2, RuleHits
  <2> QED
    BY <2>2, <2>3
<1> HIDE DEF Home, Rule, Rest
<1>8. row.place.device = i /\ (Home \/ Rule \/ Rest)
  BY <1>3, <1>5, <1>6, <1>7, FirstRowsFacts
<1> QED
  BY <1>8 DEF Home, Rule, Rest

\* What a row needs to hit.
LEMMA HitsHome ==
  ASSUME CoreInv, core.kind # "off", NEW q \in Requests, NEW i \in Routed(core.doc, core.topo), core.doc[i].ip = q.ip,
         core.doc[i].mode = "dedicated", core.out.groups[DefaultOf(core.doc[i])] # NoGroup, q.domain = "home"
  PROVE  HomeRow(core.doc, i) \in Hits(q)
<1> DEFINE row == HomeRow(core.doc, i)
<1>1. i \in Defaulted(core.doc, core.topo, core.out.groups, "dedicated")
  BY DEF Defaulted
<1>2. core.out.first = FirstRows(core.doc, core.topo, core.res, core.out.groups)
  BY DEF CoreInv, Compile
<1>3. row \in core.out.first
  BY <1>1, <1>2, FirstRowsFacts
<1>4. row.ip = q.ip /\ row.conds = [domain |-> "home"] /\ row.to = Direct
  BY HomeRowFacts
<1>5. Suits(row.conds, q) /\ Carries(row.to, q)
  BY <1>4, BuiltInsCarry DEF Suits
<1> QED
  BY <1>3, <1>4, <1>5 DEF Hits

LEMMA HitsRule ==
  ASSUME CoreInv, core.kind # "off", NEW q \in Requests, NEW i \in Routed(core.doc, core.topo), core.doc[i].ip = q.ip,
         NEW j \in DOMAIN Resolved(core.doc[i].profile).rules, NEW row \in RuleRows(core.doc, i, j, core.res, core.out.groups),
         row.ip = core.doc[i].ip, Suits(row.conds, q), Carries(row.to, q)
  PROVE  row \in Hits(q)
<1>1. core.out.first = FirstRows(core.doc, core.topo, core.res, core.out.groups)
  BY DEF CoreInv, Compile
<1>2. row \in core.out.first
  BY <1>1, FirstRowsFacts
<1> QED
  BY <1>2 DEF Hits

LEMMA HitsDefault ==
  ASSUME CoreInv, core.kind # "off", NEW q \in Requests, NEW i \in Routed(core.doc, core.topo), core.doc[i].ip = q.ip,
         core.doc[i].mode = "dedicated", core.out.groups[DefaultOf(core.doc[i])] # NoGroup,
         Carries(DefaultOf(core.doc[i]), q) \/ UnsupportedDefault(core.doc[i]) = "reject"
  PROVE  \E row \in Hits(q) :
           /\ row.place.section = 3 /\ row.place.rule = 0
           /\ IF Carries(DefaultOf(core.doc[i]), q) THEN row.to = DefaultOf(core.doc[i]) /\ row.place.guard = 0
              ELSE row.to = Reject /\ row.place.guard = 1
<1> DEFINE d == core.doc[i]
           guard == IF Carries(DefaultOf(d), q) THEN 0 ELSE 1
           to == IF Carries(DefaultOf(d), q) THEN DefaultOf(d) ELSE Reject
           row == Row(3, i, 0, guard, d.ip, NoConds, to)
<1>1. i \in Defaulted(core.doc, core.topo, core.out.groups, "dedicated")
  BY DEF Defaulted
<1>2. core.out.first = FirstRows(core.doc, core.topo, core.res, core.out.groups)
  BY DEF CoreInv, Compile
<1>3. CanFallThrough(DefaultOf(d))
  BY DEF CanFallThrough, DefaultOf, Direct, Reject
<1>4. row \in DefaultRows(core.doc, i)
  BY <1>3 DEF DefaultRows, Strictly
<1>5. row \in core.out.first
  BY <1>1, <1>2, <1>4, FirstRowsFacts
<1>6. row.ip = q.ip /\ row.conds = NoConds /\ row.to = to /\ row.place.section = 3 /\ row.place.rule = 0 /\ row.place.guard = guard
  BY DEF Row
<1>7. Suits(row.conds, q)
  BY <1>6 DEF Suits, NoConds
<1>8. Carries(to, q)
  BY BuiltInsCarry
<1> HIDE DEF row
<1>9. row \in Hits(q)
  BY <1>5, <1>6, <1>7, <1>8 DEF Hits
<1> QED
  BY <1>6, <1>9
\* No row of an address hits if nobody there is routed.
LEMMA NoneHits ==
  ASSUME CoreInv, core.kind # "off", NEW q, \A i \in Routed(core.doc, core.topo) : core.doc[i].ip # q.ip
  PROVE  Hits(q) = {}
<1> SUFFICES ASSUME NEW row \in Hits(q) PROVE FALSE
  OBVIOUS
<1>1. row \in core.out.first /\ row.ip = q.ip
  BY DEF Hits
<1>2. row \in Compile(core.doc, core.topo, core.res).first /\ core.doc \in Documents
  BY <1>1 DEF CoreInv
<1> QED
  BY <1>1, <1>2, RowsFacts

\* The sender of an address with a routed device is that device.
LEMMA SenderIs ==
  ASSUME CoreInv, core.kind # "off", NEW q, NEW i \in Routed(core.doc, core.topo), core.doc[i].ip = q.ip
  PROVE  Sender(q) = {i}
<1>1. Valid(core.doc)
  BY DEF CoreInv
<1>2. i \in Active(core.doc, core.topo) /\ Active(core.doc, core.topo) \subseteq DOMAIN core.doc
  BY ActivePlaces
<1>3. \A k \in Active(core.doc, core.topo) : core.doc[k].ip = q.ip => k = i
  BY <1>1, <1>2, AddressesAreUnique
<1> QED
  BY <1>2, <1>3 DEF Sender

\* A routed device's requests go where its profile says.
LEMMA RoutedSender ==
  ASSUME CoreInv, core.kind # "off", NEW q \in Requests, NEW i \in Routed(core.doc, core.topo), core.doc[i].ip = q.ip
  PROVE  Route(q) = MeantFor(core.doc[i], q)
<1> DEFINE doc == core.doc
           d == doc[i]
           rules == Resolved(d.profile).rules
           n == Decider(d, q)
           own == DefaultOf(d)
           dedicated == d.mode = "dedicated" /\ core.out.groups[own] # NoGroup
           home == dedicated /\ q.domain = "home"
           IsHome(row) == home /\ row.place.section = 1 /\ row.place.rule = 0 /\ row.place.guard = 0 /\ row.to = Direct
           IsRule(row) == \E j \in DOMAIN rules :
                            /\ Decides(d, rules[j], q) /\ row.place.section = 2 /\ row.place.rule = j
                            /\ \/ row.to = Target(d, rules[j]) /\ row.place.guard = 0 /\ Carries(Target(d, rules[j]), q)
                               \/ row.to = Reject /\ row.place.guard = 1
           IsLast(row) == /\ dedicated /\ row.place.section = 3 /\ row.place.rule = 0
                          /\ \/ row.to = own /\ row.place.guard = 0 /\ Carries(own, q)
                             \/ row.to = Reject /\ row.place.guard = 1 /\ UnsupportedDefault(d) = "reject"
<1>1. i \in DOMAIN doc /\ doc \in Documents
  BY ActivePlaces DEF CoreInv
<1>2. rules \in Seq(Rules)
  BY <1>1, DeviceType, ResolvedType
<1>3. i \in Nat
  <2>1. doc \in Seq(Devices)
    BY <1>1, PolicyAssumption DEF PolicyAssumption
  <2> QED
    BY <1>1, <2>1
<1>4. \/ n = 0 /\ \A j \in DOMAIN rules : ~Decides(d, rules[j], q)
      \/ /\ n \in DOMAIN rules /\ n # 0 /\ n \in Nat /\ Decides(d, rules[n], q)
         /\ \A j \in DOMAIN rules : Decides(d, rules[j], q) => n <= j
  BY <1>1, DeviceType, FirstToDecide
<1>5. \A row \in Hits(q) : row.place.device = i /\ (IsHome(row) \/ IsRule(row) \/ IsLast(row))
  BY HitsOf
<1>6. \A j \in DOMAIN rules : j \in Nat
  BY <1>2
<1>7. MeantFor(core.doc[i], q) =
       CASE home -> Direct
         [] ~home /\ n # 0 -> IF Carries(Target(d, rules[n]), q) THEN Target(d, rules[n]) ELSE Reject
         [] ~home /\ n = 0 /\ dedicated ->
              IF Carries(own, q) THEN own ELSE IF UnsupportedDefault(d) = "reject" THEN Reject ELSE <<"global">>
         [] OTHER -> <<"global">>
  BY DEF MeantFor
<1>8. CASE home
  <2> DEFINE row == HomeRow(doc, i)
  <2>1. row \in Hits(q)
    BY <1>8, HitsHome
  <2>2. row.to = Direct /\ row.place.section = 1 /\ row.place.device = i /\ row.place.rule = 0 /\ row.place.guard = 0
    BY HomeRowFacts
  <2> HIDE DEF row, doc, d, rules, n, own, dedicated, home
  <2>3. \A other \in Hits(q) : other.place.device = i /\
           \/ other.place.section = 1 /\ other.place.rule = 0 /\ other.place.guard = 0 /\ other.to = Direct
           \/ other.place.section = 2 \/ other.place.section = 3
    BY <1>5
  <2>4. \A other \in Hits(q) : other.to # Direct => Before(row.place, other.place)
    BY <2>2, <2>3 DEF Before
  <2>5. \A other \in Hits(q) : ~Before(other.place, row.place)
    BY <1>3, <2>2, <2>3 DEF Before
  <2>6. Route(q) = row.to
    BY <2>1, <2>2, <2>4, <2>5, RouteDecided
  <2> QED
    BY <1>7, <1>8, <2>2, <2>6
<1>9. CASE ~home /\ n # 0
  <2> DEFINE carried == Carries(Target(d, rules[n]), q)
             to == IF carried THEN Target(d, rules[n]) ELSE Reject
             guard == IF carried THEN 0 ELSE 1
  <2>1. n \in DOMAIN rules /\ Decides(d, rules[n], q) /\ \A j \in DOMAIN rules : Decides(d, rules[j], q) => n <= j
    BY <1>4, <1>9
  <2>2. PICK row \in RuleRows(doc, i, n, core.res, core.out.groups) :
              /\ row.ip = d.ip /\ Suits(row.conds, q) /\ Carries(row.to, q)
              /\ row.to = to /\ row.place.guard = guard
    <3> HIDE DEF n
    <3>1. Decides(core.doc[i], Resolved(core.doc[i].profile).rules[n], q)
      BY <2>1
    <3>2. \E row \in RuleRows(core.doc, i, n, core.res, core.out.groups) :
            /\ row.ip = d.ip /\ Suits(row.conds, q) /\ Carries(row.to, q)
            /\ IF Carries(Target(d, rules[n]), q) THEN row.to = Target(d, rules[n]) /\ row.place.guard = 0
               ELSE row.to = Reject /\ row.place.guard = 1
      <4> DEFINE r == rules[n]
      <4>1. d = core.doc[i] /\ r = Resolved(d.profile).rules[n] /\ Decides(d, r, q)
        BY <3>1
      <4> HIDE DEF d, r
      <4>2. \E row \in RuleRows(core.doc, i, n, core.res, core.out.groups) : Answers(row, d, r, q)
        BY <4>1, RuleHas
      <4> QED
        BY <4>2 DEF r, rules, Answers
    <3> HIDE DEF d, rules
    <3> QED
      BY <3>2
  <2>3. row.place.section = 2 /\ row.place.device = i /\ row.place.rule = n
    BY RuleRowsFacts
  <2>4. row \in Hits(q)
    BY <2>1, <2>2, HitsRule
  <2> HIDE DEF n
  <2>5. ASSUME NEW other \in Hits(q)
        PROVE  /\ ~Before(other.place, row.place)
               /\ ~Before(row.place, other.place) => other.to = row.to
    <3>1. other.place.device = i /\ (IsRule(other) \/ IsLast(other))
      BY <1>5, <1>9
    <3>2. CASE IsLast(other)
      BY <2>3, <3>1, <3>2 DEF Before
    <3>3. CASE IsRule(other)
      <4>1. PICK j \in DOMAIN rules :
                            /\ Decides(d, rules[j], q) /\ other.place.section = 2 /\ other.place.rule = j
                            /\ \/ other.to = Target(d, rules[j]) /\ other.place.guard = 0 /\ Carries(Target(d, rules[j]), q)
                               \/ other.to = Reject /\ other.place.guard = 1
        BY <3>3
      <4>2. n <= j /\ n \in Nat /\ j \in Nat
        BY <1>6, <2>1, <4>1
      <4> HIDE DEF doc, d, rules
      <4>3. CASE n = j
        <5>1. CASE carried
          BY <1>3, <2>2, <2>3, <3>1, <4>1, <4>2, <4>3, <5>1 DEF Before
        <5>2. CASE ~carried
          BY <1>3, <2>2, <2>3, <3>1, <4>1, <4>2, <4>3, <5>2 DEF Before
        <5> QED
          BY <5>1, <5>2
      <4>4. CASE n # j
        BY <1>3, <2>3, <3>1, <4>1, <4>2, <4>4 DEF Before
      <4> QED
        BY <4>3, <4>4
    <3> QED
      BY <3>1, <3>2, <3>3
  <2>6. Route(q) = row.to
    BY <2>4, <2>5, RouteDecided
  <2> QED
    BY <1>7, <1>9, <2>2, <2>6
<1>10. CASE ~home /\ n = 0 /\ dedicated /\ (Carries(own, q) \/ UnsupportedDefault(d) = "reject")
  <2> DEFINE carried == Carries(own, q)
             to == IF carried THEN own ELSE Reject
             guard == IF carried THEN 0 ELSE 1
  <2>1. PICK row \in Hits(q) : row.place.section = 3 /\ row.place.rule = 0 /\ row.to = to /\ row.place.guard = guard
    BY <1>10, HitsDefault
  <2>2. row.place.device = i
    BY <1>5
  <2> HIDE DEF n
  <2>3. ASSUME NEW other \in Hits(q)
        PROVE  /\ ~Before(other.place, row.place)
               /\ ~Before(row.place, other.place) => other.to = row.to
    <3>1. other.place.device = i /\ IsLast(other)
      BY <1>4, <1>5, <1>10
    <3> HIDE DEF doc, d, own
    <3>2. CASE carried
      BY <1>3, <2>1, <2>2, <3>1, <3>2 DEF Before
    <3>3. CASE ~carried
      BY <1>3, <2>1, <2>2, <3>1, <3>3 DEF Before
    <3> QED
      BY <3>2, <3>3
  <2>4. Route(q) = row.to
    BY <2>3, RouteDecided
  <2> QED
    BY <1>7, <1>10, <2>1, <2>4
<1>11. CASE ~home /\ n = 0 /\ ~(dedicated /\ (Carries(own, q) \/ UnsupportedDefault(d) = "reject"))
  <2> HIDE DEF n, doc, d, rules, own, home
  <2>1. \A row \in Hits(q) : FALSE
    BY <1>4, <1>5, <1>11
  <2>2. Route(q) = <<"global">>
    BY <2>1 DEF Route
  <2> QED
    BY <1>7, <1>11, <2>2
<1> QED
  BY <1>8, <1>9, <1>10, <1>11

LEMMA RoutedByCompiling == CoreInv => RoutedAsWritten
<1> SUFFICES ASSUME CoreInv, core.alive, NEW q \in Requests PROVE Route(q) = Meant(q)
  BY DEF RoutedAsWritten
<1>1. core.kind # "off"
  BY DEF CoreInv, NoCore
<1>2. ASSUME NEW i \in Routed(core.doc, core.topo), core.doc[i].ip = q.ip
      PROVE  Route(q) = Meant(q)
  <2>1. Sender(q) = {i} /\ core.doc[i].gateway = "opensurge"
    BY <1>1, <1>2, SenderIs DEF Routed
  <2>2. Meant(q) = MeantFor(core.doc[i], q)
    BY <2>1 DEF Meant
  <2> QED
    BY <1>1, <1>2, <2>2, RoutedSender
<1>3. ASSUME \A i \in Routed(core.doc, core.topo) : core.doc[i].ip # q.ip
      PROVE  Route(q) = Meant(q)
  <2>1. Route(q) = <<"global">>
    BY <1>1, <1>3, NoneHits DEF Route
  <2>2. \A i \in Sender(q) : core.doc[i].gateway # "opensurge"
    BY <1>3 DEF Sender, Routed
  <2> QED
    BY <2>1, <2>2 DEF Meant
<1> QED
  BY <1>2, <1>3
----------------------------------------------------------------------------
(* What a selector uses.                                                   *)

Present(g) == Given(document, topology, g)

\* What is chosen is what a selector uses when nothing is missing,
WantedIsPrior == \A g \in Selectors : prior[g] # Unknown => Present(g) # <<>> /\ prior[g] = Wanted(g)

\* and while it is in force it uses that, even if something is missing;
UsedIsPrior ==
  ~misled => \A g \in Selectors :
    core.kind # "off" /\ prior[g] # Unknown /\ core.out.groups[g] # NoGroup => Now(core, cachedb, g) = prior[g]

\* the record either says so of a selector that is not in force, or nothing.
RecordIsPrior ==
  ~misled => \A g \in Selectors :
    core.kind # "off" /\ prior[g] # Unknown /\ core.out.groups[g] = NoGroup =>
      \/ core.res.blind /\ Record(core, saved)[g] = Unknown
      \/ Pick(Record(core, saved), g, Present(g)) = prior[g]

ChoicesInv ==
  /\ cachedb = [g \in Selectors |-> cachedb[g]] /\ prior = [g \in Selectors |-> prior[g]]
  /\ WantedIsPrior /\ UsedIsPrior /\ RecordIsPrior

\* What a resolution says of a selector is what it used, or that nobody knows.
Known(res, g) == (res.blind /\ res.picks[g] = Unknown) \/ Pick(res.picks, g, Present(g)) = prior[g]

LEMMA PickFacts ==
  ASSUME NEW given \in Seq(Nodes), given # <<>>, NEW picks, NEW g
  PROVE  /\ Unknown \notin Range(given) /\ Head(given) \in Range(given) /\ Pick(picks, g, given) \in Range(given)
         /\ picks[g] = Unknown => Pick(picks, g, given) = Head(given)
         /\ picks[g] \in Range(given) => Pick(picks, g, given) = picks[g]
<1>1. Head(given) \in Range(given)
  BY DEF Range
<1>2. Unknown \notin Range(given)
  BY DEF Range, Nodes
<1> QED
  BY <1>1, <1>2 DEF Pick

LEMMA RecordIs ==
  ASSUME NEW c, NEW s, NEW g \in Selectors
  PROVE  Record(c, s)[g] = IF c.kind = "prepared" /\ c.res.picks[g] # Unknown THEN c.res.picks[g] ELSE s.res.picks[g]
BY DEF Record

\* Whoever asks, the gateway's engine, the editor's or none, if nobody is misled; and
\* what is not known then, no record has known.
LEMMA ResolutionKnows ==
  ASSUME CoreInv, ChoicesInv, NEW c, NEW s, (c = core /\ s = saved) \/ (c = NoCore /\ s = NotSaved),
         NEW res \in Resolutions(c, s), AnyMissing, ~misled, ~Misleads(c, s, res),
         NEW g \in Selectors, prior[g] # Unknown
  PROVE  Known(res, g) /\ (res.picks[g] = Unknown => Record(c, s)[g] = Unknown)
<1>1. Present(g) \in Seq(Nodes) /\ Present(g) # <<>> /\ prior[g] = Wanted(g)
  BY GivenType DEF CoreInv, ChoicesInv, WantedIsPrior, Present
<1>2. /\ Unknown \notin Range(Present(g)) /\ prior[g] \in Range(Present(g))
      /\ \A picks : /\ picks[g] = Unknown => Pick(picks, g, Present(g)) = Head(Present(g))
                    /\ picks[g] \in Range(Present(g)) => Pick(picks, g, Present(g)) = picks[g]
  BY <1>1, PickFacts DEF Wanted, Present
<1>3. c.alive => c = core /\ s = saved /\ core.kind # "off"
  BY DEF CoreInv, NoCore
<1>4. CASE c.alive /\ res = [targets |-> nodes, picks |-> Live(c, s), blind |-> FALSE]
  <2>1. c = core /\ s = saved /\ core.kind # "off" /\ ~core.res.blind
    BY <1>3, <1>4 DEF Misleads
  <2>2. res.picks[g] = IF InForce(core, g) THEN Now(core, cachedb, g) ELSE Record(core, saved)[g]
    BY <1>4, <2>1 DEF Live
  <2>3. CASE core.out.groups[g] # NoGroup
    <3>1. res.picks[g] = prior[g]
      BY <1>4, <2>1, <2>2, <2>3 DEF ChoicesInv, UsedIsPrior, InForce
    <3> QED
      BY <1>2, <3>1 DEF Known
  <2>4. CASE core.out.groups[g] = NoGroup
    <3>1. res.picks[g] = Record(core, saved)[g]
      BY <2>2, <2>4 DEF InForce
    <3>2. Pick(Record(core, saved), g, Present(g)) = prior[g]
      BY <2>1, <2>4 DEF ChoicesInv, RecordIsPrior
    <3> QED
      BY <2>1, <3>1, <3>2 DEF Known, Pick
  <2> QED
    BY <2>3, <2>4
<1>5. CASE ~c.alive /\ res = [targets |-> nodes, picks |-> Cached(c, s), blind |-> FALSE]
  <2>1. res.picks[g] = IF cachedb[g] # Unknown THEN cachedb[g] ELSE Record(c, s)[g]
    BY <1>5 DEF Cached
  <2>2. CASE cachedb[g] # Unknown
    BY <1>1, <2>1, <2>2 DEF Known, Wanted, Pick, Present
  <2>3. CASE cachedb[g] = Unknown
    <3>1. prior[g] = Head(Present(g))
      BY <1>1, <1>2, <2>3 DEF Wanted, Present
    <3>2. Record(c, s)[g] = Unknown \/ Record(c, s)[g] = prior[g]
      BY <1>5, <2>3 DEF Misleads, Stale
    <3> QED
      BY <1>2, <2>1, <2>3, <3>1, <3>2 DEF Known
  <2> QED
    BY <2>2, <2>3
<1>6. CASE res = [targets |-> nodes, picks |-> Record(c, s), blind |-> TRUE]
  <2>1. Record(c, s)[g] = Unknown \/ Record(c, s)[g] = prior[g]
    BY <1>6 DEF Misleads, Stale
  <2> QED
    BY <1>2, <1>6, <2>1 DEF Known
<1> QED
  BY <1>4, <1>5, <1>6 DEF Resolutions

\* Every resolution is of the present targets.
LEMMA ResolutionTargets == ASSUME NEW c, NEW s, NEW res \in Resolutions(c, s) PROVE res.targets = nodes
BY DEF Resolutions

\* A selector that misses nothing has all its candidates, one that misses some starts with what is known.
Settled(c, res, g, given) ==
  \/ c = [first |-> Head(given), all |-> Range(given)]
  \/ /\ \E t \in Range(given) : ~Available(res, t)
     /\ \/ c = NoGroup
        \/ c.first = Pick(res.picks, g, given) /\ c.all \subseteq Range(given) /\ ~Undetermined(res, g)

LEMMA CandidatesSettled == ASSUME NEW res, NEW g, NEW given PROVE Settled(Candidates(res, g, given), res, g, given)
<1> DEFINE c == Candidates(res, g, given)
           left == {t \in Range(given) : Available(res, t)}
           pick == Pick(res.picks, g, given)
<1>2. left # Range(given) => \E t \in Range(given) : ~Available(res, t)
  OBVIOUS
<1>3. CASE left = Range(given)
  <2>1. c = [first |-> Head(given), all |-> left]
    BY <1>3 DEF Candidates
  <2> QED
    BY <1>3, <2>1 DEF Settled
<1>4. CASE left # Range(given) /\ (left = {} \/ Undetermined(res, g) \/ ~Available(res, pick))
  <2>1. c = NoGroup
    BY <1>4 DEF Candidates
  <2> QED
    BY <1>2, <1>4, <2>1 DEF Settled
<1>5. CASE left # Range(given) /\ ~(left = {} \/ Undetermined(res, g) \/ ~Available(res, pick))
  <2>1. c = [first |-> pick, all |-> left]
    BY <1>5 DEF Candidates
  <2>2. c.first = pick /\ c.all \subseteq Range(given)
    BY <2>1
  <2> QED
    BY <1>2, <1>5, <2>2 DEF Settled
<1> QED
  BY <1>3, <1>4, <1>5

LEMMA GroupIs ==
  ASSUME NEW doc \in Documents, NEW topo, NEW res, NEW g \in Selectors, Given(doc, topo, g) # <<>>
  PROVE  Settled(GroupsOf(doc, topo, res)[g], res, g, Given(doc, topo, g))
<1>1. GroupsOf(doc, topo, res)[g] = Candidates(res, g, Given(doc, topo, g))
  BY DEF GroupsOf
<1> QED
  BY <1>1, CandidatesSettled

\* With what is known, a selector uses what it used.
LEMMA KnownIsUsed ==
  ASSUME NEW res, NEW g \in Selectors, NEW c, Settled(c, res, g, Present(g)), c # NoGroup, prior[g] = Wanted(g),
         (\E t \in Range(Present(g)) : ~Available(res, t)) => Known(res, g)
  PROVE  Uses(c, cachedb, g) = prior[g]
<1>1. prior[g] = Pick(cachedb, g, Present(g))
  BY DEF Wanted, Present
<1>2. CASE c = [first |-> Head(Present(g)), all |-> Range(Present(g))]
  BY <1>1, <1>2 DEF Uses, Pick
<1>3. CASE /\ \E t \in Range(Present(g)) : ~Available(res, t)
           /\ c.first = Pick(res.picks, g, Present(g)) /\ c.all \subseteq Range(Present(g)) /\ ~Undetermined(res, g)
  <2>1. c.first = prior[g]
    BY <1>3 DEF Known, Undetermined
  <2>2. CASE cachedb[g] \in c.all
    BY <1>1, <1>3, <2>2 DEF Uses, Pick
  <2>3. CASE cachedb[g] \notin c.all
    BY <2>1, <2>3 DEF Uses
  <2> QED
    BY <2>2, <2>3
<1> QED
  BY <1>2, <1>3 DEF Settled

LEMMA InitChoices == PolicyInit => ChoicesInv
BY DEF PolicyInit, ChoicesInv, WantedIsPrior, UsedIsPrior, RecordIsPrior, NoPicks, NoCore

LEMMA RunsChoices ==
  ASSUME CoreInv, ChoicesInv, NEW kind \in {"gateway", "prepared"}, NEW c, NEW s, Runs(kind, c, s),
         (c = core /\ s = saved) \/ (kind = "gateway" /\ c = NoCore /\ s = NotSaved)
  PROVE  ChoicesInv'
<1>1. PICK res \in Resolutions(c, s) :
         /\ misled' = (misled \/ Misleads(c, s, res))
         /\ core' = [kind |-> kind, alive |-> TRUE, doc |-> document, topo |-> topology, res |-> res, out |-> Compile(document, topology, res)]
         /\ saved' = IF kind = "gateway" THEN [there |-> TRUE, left |-> FALSE, doc |-> document, topo |-> topology, res |-> res] ELSE s
  BY DEF Runs
<1>2. UNCHANGED <<document, topology, nodes, cachedb>> /\ document \in Documents
  BY DEF Runs, CoreInv
<1>3. core'.kind = kind /\ core'.alive = TRUE /\ core'.res = res /\ core'.out.groups = GroupsOf(document, topology, res)
  BY <1>1 DEF Compile
<1>4. prior' = [g \in Selectors |-> IF prior[g] = Unknown /\ InForce(core', g) /\ Now(core', cachedb, g) = Wanted(g)
                                    THEN Now(core', cachedb, g) ELSE prior[g]]
  BY DEF Runs
<1>5. res.targets = nodes /\ (~misled' => ~misled /\ ~Misleads(c, s, res))
  BY <1>1, ResolutionTargets
<1>6. \A g : Present(g)' = Present(g) /\ Wanted(g)' = Wanted(g)
  BY <1>2 DEF Present, Wanted
<1>7. ASSUME NEW g \in Selectors, core'.out.groups[g] # NoGroup PROVE Present(g) # <<>>
  BY <1>3, <1>7 DEF GroupsOf, Present
<1>8. \A t : Available(res, t) = Available([targets |-> nodes], t)
  BY <1>5 DEF Available
<1>9. ASSUME NEW g \in Selectors, NEW t \in Range(Present(g)), ~Available(res, t) PROVE AnyMissing
  BY <1>8, <1>9 DEF AnyMissing, Present
<1>10. ASSUME NEW g \in Selectors, prior'[g] # Unknown, prior[g] = Unknown
       PROVE  InForce(core', g) /\ Now(core', cachedb, g) = Wanted(g) /\ prior'[g] = Wanted(g)
  BY <1>4, <1>10
<1>11. ASSUME NEW g \in Selectors, prior[g] # Unknown PROVE prior'[g] = prior[g]
  BY <1>4, <1>11
<1>12. ASSUME NEW g \in Selectors, prior[g] # Unknown PROVE Present(g) # <<>> /\ prior[g] = Wanted(g)
  BY <1>12 DEF ChoicesInv, WantedIsPrior
<1>13. ASSUME NEW g \in Selectors, prior[g] # Unknown, AnyMissing, ~misled'
       PROVE  Known(res, g) /\ (res.picks[g] = Unknown => Record(c, s)[g] = Unknown)
  BY <1>5, <1>13, ResolutionKnows
<1>14. ASSUME NEW g \in Selectors, Present(g) # <<>>
       PROVE  Settled(core'.out.groups[g], res, g, Present(g))
  <2>1. Settled(GroupsOf(document, topology, res)[g], res, g, Given(document, topology, g))
    BY <1>2, <1>14, GroupIs DEF Present
  <2> QED
    BY <1>3, <2>1 DEF Present
<1>15. WantedIsPrior'
  <2> SUFFICES ASSUME NEW g \in Selectors, prior'[g] # Unknown PROVE Present(g) # <<>> /\ prior'[g] = Wanted(g)
    BY <1>6 DEF WantedIsPrior
  <2> QED
    BY <1>7, <1>10, <1>11, <1>12 DEF InForce
<1>16. UsedIsPrior'
  <2> SUFFICES ASSUME ~misled', NEW g \in Selectors, prior'[g] # Unknown, core'.out.groups[g] # NoGroup
               PROVE  Now(core', cachedb, g) = prior'[g]
    BY <1>2 DEF UsedIsPrior, Now
  <2>1. CASE prior[g] = Unknown
    BY <1>10, <2>1
  <2>2. CASE prior[g] # Unknown
    <3>1. Present(g) # <<>> /\ prior[g] = Wanted(g) /\ prior'[g] = prior[g]
      BY <1>11, <1>12, <2>2
    <3>2. Settled(core'.out.groups[g], res, g, Present(g))
      BY <1>14, <3>1
    <3>3. (\E t \in Range(Present(g)) : ~Available(res, t)) => Known(res, g)
      BY <1>9, <1>13, <2>2
    <3>4. Uses(core'.out.groups[g], cachedb, g) = prior[g]
      BY <3>1, <3>2, <3>3, KnownIsUsed
    <3> QED
      BY <3>1, <3>4 DEF Now
  <2> QED
    BY <2>1, <2>2
<1>17. RecordIsPrior'
  <2> SUFFICES ASSUME ~misled', NEW g \in Selectors, prior'[g] # Unknown, core'.out.groups[g] = NoGroup
               PROVE  \/ res.blind /\ Record(core', saved')[g] = Unknown
                      \/ Pick(Record(core', saved'), g, Present(g)) = prior'[g]
    BY <1>3, <1>6 DEF RecordIsPrior, Pick, Record
  <2>1. prior[g] # Unknown
    BY <1>10 DEF InForce
  <2>2. prior'[g] = prior[g] /\ Present(g) # <<>>
    BY <1>11, <1>12, <2>1
  <2>3. Head(Present(g)) # Unknown
    <3>1. Present(g) \in Seq(Nodes)
      BY <1>2, GivenType DEF Present
    <3> QED
      BY <2>2, <3>1, PickFacts
  <2>4. \E t \in Range(Present(g)) : ~Available(res, t)
    <3>1. Settled(NoGroup, res, g, Present(g))
      BY <1>14, <2>2
    <3>2. NoGroup.first # Head(Present(g))
      BY <2>3 DEF NoGroup
    <3> QED
      BY <3>1, <3>2 DEF Settled
  <2>5. Known(res, g) /\ (res.picks[g] = Unknown => Record(c, s)[g] = Unknown)
    BY <1>9, <1>13, <2>1, <2>4
  <2>6. Record(core', saved')[g] = res.picks[g]
    <3>1. Record(core', saved')[g] = IF kind = "prepared" /\ res.picks[g] # Unknown THEN res.picks[g] ELSE saved'.res.picks[g]
      BY <1>3, RecordIs
    <3>2. CASE kind = "gateway"
      <4>1. saved'.res = res
        BY <1>1, <3>2
      <4> QED
        BY <3>1, <3>2, <4>1
    <3>3. CASE kind = "prepared" /\ res.picks[g] = Unknown
      <4>1. c = core /\ s = saved /\ saved' = saved
        BY <1>1, <3>3
      <4>2. Record(core, saved)[g] = Unknown
        BY <2>5, <3>3, <4>1
      <4>3. saved.res.picks[g] = Unknown
        BY <4>2, RecordIs
      <4> QED
        BY <3>1, <3>3, <4>1, <4>3
    <3> QED
      BY <3>1, <3>2, <3>3
  <2> QED
    BY <2>2, <2>5, <2>6 DEF Known, Pick
<1>18. cachedb' = [g \in Selectors |-> cachedb'[g]] /\ prior' = [g \in Selectors |-> prior'[g]]
  BY <1>2, <1>4 DEF ChoicesInv
<1> QED
  BY <1>15, <1>16, <1>17, <1>18 DEF ChoicesInv

LEMMA SelectChoices == ASSUME CoreInv, ChoicesInv, NEW g \in Selectors, NEW t, Select(g, t) PROVE ChoicesInv'
<1>1. /\ UNCHANGED <<document, topology, core, saved, misled>>
      /\ core.out.groups[g] # NoGroup /\ t \in core.out.groups[g].all
      /\ cachedb' = [cachedb EXCEPT ![g] = t]
      /\ prior' = [prior EXCEPT ![g] = IF t \in Range(Present(g)) THEN t ELSE Unknown]
  BY DEF Select, InForce, Present
<1>2. /\ cachedb'[g] = t /\ prior'[g] = IF t \in Range(Present(g)) THEN t ELSE Unknown
      /\ \A k \in Selectors \ {g} : cachedb'[k] = cachedb[k] /\ prior'[k] = prior[k]
      /\ cachedb' = [k \in Selectors |-> cachedb'[k]] /\ prior' = [k \in Selectors |-> prior'[k]]
  BY <1>1 DEF ChoicesInv
<1>3. \A k : Present(k)' = Present(k)
  BY <1>1 DEF Present
<1>4. WantedIsPrior'
  <2> SUFFICES ASSUME NEW k \in Selectors, prior'[k] # Unknown PROVE Present(k) # <<>> /\ prior'[k] = Pick(cachedb', k, Present(k))
    BY <1>1, <1>3 DEF WantedIsPrior, Wanted, Present
  <2>1. CASE k = g
    <3>1. prior'[g] = t /\ t \in Range(Present(g)) /\ cachedb'[g] = t
      BY <1>2, <2>1
    <3>2. Present(g) # <<>>
      BY <3>1 DEF Range
    <3> QED
      BY <2>1, <3>1, <3>2 DEF Pick
  <2>2. CASE k # g
    BY <1>2, <2>2 DEF ChoicesInv, WantedIsPrior, Wanted, Pick, Present
  <2> QED
    BY <2>1, <2>2
<1>5. UsedIsPrior'
  <2> SUFFICES ASSUME ~misled, core.kind # "off", NEW k \in Selectors, prior'[k] # Unknown, core.out.groups[k] # NoGroup
               PROVE  Now(core, cachedb', k) = prior'[k]
    BY <1>1 DEF UsedIsPrior, Now, Uses
  <2>1. CASE k = g
    BY <1>1, <1>2, <2>1 DEF Now, Uses
  <2>2. CASE k # g
    BY <1>2, <2>2 DEF ChoicesInv, UsedIsPrior, Now, Uses
  <2> QED
    BY <2>1, <2>2
<1>6. RecordIsPrior'
  <2> SUFFICES ASSUME ~misled, core.kind # "off", NEW k \in Selectors, prior'[k] # Unknown, core.out.groups[k] = NoGroup
               PROVE  (core.res.blind /\ Record(core, saved)[k] = Unknown) \/ Pick(Record(core, saved), k, Present(k)) = prior'[k]
    BY <1>1, <1>3 DEF RecordIsPrior, Pick, Record
  <2>1. k # g
    BY <1>1
  <2> QED
    BY <1>2, <2>1 DEF ChoicesInv, RecordIsPrior
<1> QED
  BY <1>2, <1>4, <1>5, <1>6 DEF ChoicesInv

\* An edit or a move of the gateway forgets what was chosen of other candidates.
LEMMA ForgetChoices ==
  ASSUME ChoicesInv, UNCHANGED <<core, saved, cachedb, misled>>, Forgets(document', topology')
  PROVE  ChoicesInv'
<1>1. /\ prior' = [g \in Selectors |-> prior'[g]] /\ cachedb' = [g \in Selectors |-> cachedb'[g]]
  BY DEF Forgets, ChoicesInv
<1>2. ASSUME NEW g \in Selectors, prior'[g] # Unknown
      PROVE  prior'[g] = prior[g] /\ Present(g)' = Present(g) /\ Wanted(g)' = Wanted(g)
  <2>1. prior'[g] = IF Given(document', topology', g) # Given(document, topology, g) THEN Unknown ELSE prior[g]
    BY DEF Forgets
  <2>2. prior'[g] = prior[g] /\ Given(document', topology', g) = Given(document, topology, g)
    BY <1>2, <2>1
  <2>3. Present(g)' = Given(document', topology', g) /\ Wanted(g)' = Pick(cachedb', g, Given(document', topology', g))
    BY DEF Present, Wanted, Given, Routed, Active, OnLAN, Pick
  <2> QED
    BY <2>2, <2>3 DEF Present, Wanted
<1>3. WantedIsPrior'
  BY <1>2 DEF ChoicesInv, WantedIsPrior
<1>4. UsedIsPrior'
  <2> SUFFICES ASSUME ~misled, core.kind # "off", NEW g \in Selectors, prior'[g] # Unknown, core.out.groups[g] # NoGroup
               PROVE  Now(core, cachedb, g) = prior'[g]
    BY DEF UsedIsPrior, Now, Uses
  <2> QED
    BY <1>2 DEF ChoicesInv, UsedIsPrior
<1>5. RecordIsPrior'
  <2> SUFFICES ASSUME ~misled, core.kind # "off", NEW g \in Selectors, prior'[g] # Unknown, core.out.groups[g] = NoGroup
               PROVE  (core.res.blind /\ Record(core, saved)[g] = Unknown) \/ Pick(Record(core, saved), g, Present(g)') = prior'[g]
    BY DEF RecordIsPrior, Pick, Record
  <2> QED
    BY <1>2 DEF ChoicesInv, RecordIsPrior
<1> QED
  BY <1>1, <1>3, <1>4, <1>5 DEF ChoicesInv

LEMMA StepChoices == CoreInv /\ ChoicesInv /\ [PolicyNext]_yvars => ChoicesInv'
<1> SUFFICES ASSUME CoreInv, ChoicesInv, [PolicyNext]_yvars PROVE ChoicesInv'
  OBVIOUS
<1>1. ASSUME NEW kind \in {"gateway", "prepared"}, Launch(kind) PROVE ChoicesInv'
  <2>1. Runs(kind, core, saved)
    BY <1>1 DEF Launch
  <2> QED
    BY <2>1, RunsChoices
<1>2. ASSUME NEW g \in Selectors, NEW t, Select(g, t) PROVE ChoicesInv'
  BY <1>2, SelectChoices
<1>3. ASSUME UNCHANGED <<document, topology, cachedb, prior>>, misled => misled',
             (core'.out = core.out /\ core'.res = core.res /\ core'.kind = core.kind /\ saved' = saved) \/ core'.kind = "off"
      PROVE  ChoicesInv'
  <2>1. \A g : Present(g)' = Present(g) /\ Wanted(g)' = Wanted(g)
    BY <1>3 DEF Present, Wanted
  <2>2. WantedIsPrior'
    BY <1>3, <2>1 DEF ChoicesInv, WantedIsPrior
  <2>3. UsedIsPrior'
    BY <1>3 DEF ChoicesInv, UsedIsPrior, Now, Uses
  <2>4. RecordIsPrior'
    BY <1>3, <2>1 DEF ChoicesInv, RecordIsPrior, Pick, Record
  <2> QED
    BY <1>3, <2>2, <2>3, <2>4 DEF ChoicesInv
<1>4. ASSUME NEW awake, core' = [core EXCEPT !.alive = awake], UNCHANGED <<document, topology, saved, cachedb, prior, misled>>
      PROVE  ChoicesInv'
  <2>1. core'.out = core.out /\ core'.res = core.res /\ core'.kind = core.kind
    BY <1>4 DEF CoreInv
  <2> QED
    BY <1>3, <1>4, <2>1
<1>5. CASE Reload
  BY <1>5, RunsChoices DEF Reload
<1>6. CASE StartFails
  BY <1>3, <1>6 DEF StartFails, NoCore
<1>7. CASE RestartMihomo
  BY <1>4, <1>7 DEF RestartMihomo
<1>8. CASE Stop
  BY <1>3, <1>8 DEF Stop, NoCore
<1>9. CASE EditorCloses
  BY <1>3, <1>9 DEF EditorCloses, NoCore
<1>10. CASE EngineDies
  BY <1>4, <1>10 DEF EngineDies
<1>11. CASE Edit
  <2>1. PICK doc \in Documents : document' = doc /\ Forgets(doc, topology)
    BY <1>11 DEF Edit
  <2>2. UNCHANGED <<topology, core, saved, cachedb, misled>>
    BY <1>11 DEF Edit
  <2> QED
    BY <2>1, <2>2, ForgetChoices
<1>12. CASE Relocate
  <2>1. PICK topo \in Topologies : topology' = topo /\ Forgets(document, topo)
    BY <1>12 DEF Relocate
  <2>2. UNCHANGED <<document, core, saved, cachedb, misled>>
    BY <1>12 DEF Relocate
  <2> QED
    BY <2>1, <2>2, ForgetChoices
<1>13. CASE Subscription
  BY <1>3, <1>13 DEF Subscription
<1>14. CASE UNCHANGED yvars
  BY <1>3, <1>14 DEF yvars
<1> QED
  BY <1>1, <1>2, <1>5, <1>6, <1>7, <1>8, <1>9, <1>10, <1>11, <1>12, <1>13, <1>14 DEF PolicyNext

LEMMA SurviveByChoices == CoreInv /\ ChoicesInv => ChoicesSurvive
<1> SUFFICES ASSUME CoreInv, ChoicesInv, ~misled, NEW g \in Selectors, prior[g] # Unknown
             PROVE  /\ InForce(core, g) => Now(core, cachedb, g) = prior[g]
                    /\ \A res \in Resolutions(core, saved) :
                         \/ Misleads(core, saved, res)
                         \/ Previewed(res, g) = NoGroup \/ Uses(Previewed(res, g), cachedb, g) = prior[g]
  BY DEF ChoicesSurvive
<1>1. InForce(core, g) => core.kind # "off"
  BY DEF InForce, CoreInv, NoCore
<1>2. ASSUME NEW res \in Resolutions(core, saved), ~Misleads(core, saved, res), Previewed(res, g) # NoGroup
      PROVE  Uses(Previewed(res, g), cachedb, g) = prior[g]
  <2>1. prior[g] = Wanted(g)
    BY DEF ChoicesInv, WantedIsPrior
  <2>2. Settled(Previewed(res, g), res, g, Present(g))
    BY CandidatesSettled DEF Previewed, Present
  <2>3. ASSUME NEW t \in Range(Present(g)), ~Available(res, t) PROVE Known(res, g)
    <3>1. ~Available([targets |-> nodes], t)
      BY <2>3, ResolutionTargets DEF Available
    <3>2. AnyMissing
      BY <3>1 DEF AnyMissing, Present
    <3> QED
      BY <1>2, <3>2, ResolutionKnows
  <2> QED
    BY <1>2, <2>1, <2>2, <2>3, KnownIsUsed
<1> QED
  BY <1>1, <1>2 DEF ChoicesInv, UsedIsPrior, InForce
----------------------------------------------------------------------------
(* The real-IP filter.                                                     *)

\* What a filter may hold in the end.
Own == [rule : BOOLEAN, kind : {"exact"}, base : Names, action : {"real-ip"}]
Held == FilterEntries \cup Own
Modes == {"blacklist", "whitelist", "rule"}

\* What planner and mihomo make of an entry in a filter of some mode,
Sees(mode, e, d) == IF mode = "rule" THEN R!RuleMatches(e, d) ELSE R!PatternMatches(e, d)
Takes(mode, e, d) ==
  /\ e.rule => mode = "rule"
  /\ \/ e.kind = "exact" /\ d = e.base
     \/ e.kind \in {"suffix", "set"} /\ R!IsSuffix(e.base, d)
     \/ ~e.rule /\ e.kind = "dot" /\ R!IsSuffix(e.base, d) /\ d # e.base
     \/ ~e.rule /\ e.kind = "star" /\ R!IsSuffix(e.base, d) /\ Len(d) = Len(e.base) + 1
     \/ e.rule /\ e.kind = "keyword" /\ R!Range(e.base) \subseteq R!Range(d)
     \/ e.rule /\ e.kind = "match"

\* where they are known to differ,
Differ(mode, e, d) ==
  \/ ~e.rule /\ e.kind = "dot" /\ d = e.base
  \/ e.rule /\ mode # "rule" /\ Sees(mode, e, d)
  \/ e.kind = "set" /\ mode # "blacklist" /\ R!IsSuffix(e.base, d)

\* and the entry that each takes for the deciding one, 0 if there is none.
Least(I) == IF I # {} THEN R!Min(I) ELSE 0
Met(mode, entries, d) == Least({i \in 1 .. Len(entries) : Sees(mode, entries[i], d)})
Deciding(mode, entries, d) == Least({i \in 1 .. Len(entries) : Takes(mode, entries[i], d)})

\* Only rules in a filter of rules.
RulesOnly(mode, entries) == mode = "rule" => \A i \in 1 .. Len(entries) : entries[i].rule

LEMMA Readings ==
  /\ \A e, d : R!Seen(e, d) <=> Sees(filter.mode, e, d)
  /\ \A d : R!FirstHit(d) = Met(filter.mode, filter.entries, d) /\ R!FirstHit(d)' = Met(filter'.mode, filter'.entries, d)
  /\ \A d : R!Decisive(d) = Deciding(filter.mode, filter.entries, d) /\ R!Decisive(d)' = Deciding(filter'.mode, filter'.entries, d)
  /\ \A e, d : R!Disputed(e, d)' <=> Differ(filter'.mode, e, d)
<1>1. \A e, d : (R!Seen(e, d) <=> Sees(filter.mode, e, d)) /\ (R!Seen(e, d)' <=> Sees(filter'.mode, e, d))
  BY DEF R!Seen, Sees, R!RuleMatches, R!PatternMatches
<1>2. \A e, d : (R!Hits(e, d) <=> Takes(filter.mode, e, d)) /\ (R!Hits(e, d)' <=> Takes(filter'.mode, e, d))
  BY DEF R!Hits, Takes, R!Len, Len
<1>3. \A d : R!FirstHit(d) = Met(filter.mode, filter.entries, d) /\ R!FirstHit(d)' = Met(filter'.mode, filter'.entries, d)
  BY <1>1 DEF R!FirstHit, R!SelectInSeq, Met, Least
<1>4. \A d : R!Decisive(d) = Deciding(filter.mode, filter.entries, d) /\ R!Decisive(d)' = Deciding(filter'.mode, filter'.entries, d)
  BY <1>2 DEF R!Decisive, R!SelectInSeq, Deciding, Least
<1>5. \A e, d : R!Disputed(e, d)' <=> Differ(filter'.mode, e, d)
  BY <1>1 DEF R!Disputed, Differ
<1> QED
  BY <1>1, <1>3, <1>4, <1>5

LEMMA LeastFacts ==
  ASSUME NEW n \in Nat, NEW I \in SUBSET (1 .. n)
  PROVE  \/ Least(I) = 0 /\ I = {}
         \/ Least(I) \in I /\ Least(I) # 0 /\ Least(I) \in Nat /\ \A k \in I : Least(I) <= k
<1>1. CASE I = {}
  BY <1>1 DEF Least
<1>2. CASE I # {}
  <2>1. \E j \in I : \A k \in I : j <= k
    BY <1>2, LeastOfNumbers
  <2>2. R!Min(I) \in I /\ \A k \in I : R!Min(I) <= k
    BY <2>1 DEF R!Min
  <2>3. Least(I) = R!Min(I) /\ \A k \in I : k \in Nat /\ k # 0
    BY <1>2 DEF Least
  <2> QED
    BY <2>2, <2>3
<1> QED
  BY <1>1, <1>2

LEMMA MetFacts ==
  ASSUME NEW mode, NEW entries \in Seq(Held), NEW d
  PROVE  LET n == Met(mode, entries, d)
         IN \/ n = 0 /\ \A j \in 1 .. Len(entries) : ~Sees(mode, entries[j], d)
            \/ /\ n \in 1 .. Len(entries) /\ n # 0 /\ n \in Nat /\ Sees(mode, entries[n], d)
               /\ \A j \in 1 .. Len(entries) : Sees(mode, entries[j], d) => n <= j
<1> DEFINE I == {j \in 1 .. Len(entries) : Sees(mode, entries[j], d)}
<1>1. Len(entries) \in Nat /\ I \in SUBSET (1 .. Len(entries)) /\ Met(mode, entries, d) = Least(I)
  BY DEF Met
<1>2. \/ Least(I) = 0 /\ I = {}
      \/ Least(I) \in I /\ Least(I) # 0 /\ Least(I) \in Nat /\ \A k \in I : Least(I) <= k
  BY <1>1, LeastFacts
<1> QED
  BY <1>1, <1>2

\* An entry that is not in dispute is read alike, but for a set in a blacklist.
LEMMA ReadAlike ==
  ASSUME NEW mode \in Modes, NEW e, NEW d, mode = "rule" => e.rule, ~Differ(mode, e, d)
  PROVE  /\ Sees(mode, e, d) => Takes(mode, e, d)
         /\ mode # "blacklist" /\ Takes(mode, e, d) => Sees(mode, e, d)
<1>1. CASE mode = "rule"
  BY <1>1 DEF Differ, Sees, Takes, R!RuleMatches
<1>2. CASE mode # "rule" /\ e.rule
  BY <1>2 DEF Differ, Takes
<1>3. CASE mode # "rule" /\ ~e.rule
  BY <1>3 DEF Differ, Sees, Takes, R!RuleMatches, R!PatternMatches, R!Len, Len
<1> QED
  BY <1>1, <1>2, <1>3

\* So both find the same entry, or a blacklist decides all the same.
LEMMA FoundAlike ==
  ASSUME NEW mode \in Modes, NEW entries \in Seq(Held), RulesOnly(mode, entries), NEW d,
         \A i \in 1 .. Len(entries) : (Met(mode, entries, d) = 0 \/ i <= Met(mode, entries, d)) => ~Differ(mode, entries[i], d)
  PROVE  /\ Met(mode, entries, d) # 0 => Deciding(mode, entries, d) # 0
         /\ mode # "blacklist" => Deciding(mode, entries, d) = Met(mode, entries, d)
<1> DEFINE f == Met(mode, entries, d)
           I == {i \in 1 .. Len(entries) : Takes(mode, entries[i], d)}
           t == Least(I)
<1>1. Len(entries) \in Nat /\ I \in SUBSET (1 .. Len(entries)) /\ Deciding(mode, entries, d) = t
  BY DEF Deciding
<1>2. \/ f = 0 /\ \A j \in 1 .. Len(entries) : ~Sees(mode, entries[j], d)
      \/ /\ f \in 1 .. Len(entries) /\ f # 0 /\ f \in Nat /\ Sees(mode, entries[f], d)
         /\ \A j \in 1 .. Len(entries) : Sees(mode, entries[j], d) => f <= j
  BY MetFacts
<1>3. \/ t = 0 /\ I = {}
      \/ t \in I /\ t # 0 /\ t \in Nat /\ \A k \in I : t <= k
  BY <1>1, LeastFacts
<1>4. \A i \in 1 .. Len(entries) : (f = 0 \/ i <= f) =>
        /\ Sees(mode, entries[i], d) => i \in I
        /\ mode # "blacklist" /\ i \in I => Sees(mode, entries[i], d)
  BY ReadAlike DEF RulesOnly
<1> HIDE DEF f, I, t
<1>5. f # 0 => t # 0 /\ t <= f
  BY <1>1, <1>2, <1>3, <1>4
<1>6. ASSUME mode # "blacklist" PROVE t = f
  <2>1. CASE f = 0
    BY <1>1, <1>2, <1>3, <1>4, <1>6, <2>1
  <2>2. CASE f # 0
    <3>1. t \in 1 .. Len(entries) /\ t \in I /\ t \in Nat /\ t <= f
      BY <1>1, <1>3, <1>5, <2>2
    <3>2. Sees(mode, entries[t], d)
      BY <1>4, <1>6, <3>1
    <3> QED
      BY <1>2, <2>2, <3>1, <3>2
  <2> QED
    BY <2>1, <2>2
<1> QED
  BY <1>1, <1>5, <1>6 DEF f

\* A set of domains as a sequence has each of them.
LEMMA ListedFacts ==
  ASSUME NEW U \in SUBSET Names
  PROVE  LET s == R!SetToSeq(U)
         IN s \in Seq(U) /\ Len(s) \in Nat /\ DOMAIN s = 1 .. Len(s) /\ \A d \in U : \E i \in 1 .. Len(s) : s[i] = d
<1> DEFINE n == Cardinality(U)
           s == R!SetToSeq(U)
<1>1. R!Cardinality(U) = n
  BY DEF R!Cardinality, Cardinality
<1>2. IsFiniteSet(U) /\ n \in Nat
  BY InputAssumption, FS_Subset, FS_CardinalityType
<1>3. PICK f \in Bijection(1 .. n, U) : TRUE
  BY <1>2, FS_CardinalityType DEF ExistsBijection
<1>4. f \in [1 .. n -> U] /\ R!IsInjective(f)
  BY <1>3 DEF Bijection, Injection, IsInjective, R!IsInjective
<1>5. s \in [1 .. n -> U] /\ R!IsInjective(s)
  BY <1>1, <1>4 DEF R!SetToSeq
<1>6. s \in Injection(1 .. n, U)
  BY <1>5 DEF Injection, IsInjective, R!IsInjective
<1>7. IsFiniteSet(1 .. n) /\ Cardinality(1 .. n) = n
  BY <1>2, FS_Interval
<1>8. s \in Surjection(1 .. n, U)
  BY <1>2, <1>6, <1>7, FS_Injection
<1> HIDE DEF n, s
<1>9. s \in Seq(U) /\ Len(s) = n /\ DOMAIN s = 1 .. n
  BY <1>2, <1>5, SeqDef, LenProperties
<1>10. \A d \in U : \E i \in 1 .. n : s[i] = d
  BY <1>8 DEF Surjection
<1> QED
  BY <1>2, <1>9, <1>10 DEF s

\* An added entry decides exactly its own domain.
LEMMA ExactsFacts ==
  ASSUME NEW U \in SUBSET Names
  PROVE  LET s == R!Exacts(R!SetToSeq(U))
         IN /\ s \in Seq(Held) /\ Len(s) \in Nat
            /\ \A i \in 1 .. Len(s) : \E x \in U : s[i] = R!Exactly(x)
            /\ \A d \in U : \E i \in 1 .. Len(s) : s[i] = R!Exactly(d)
<1> DEFINE q == R!SetToSeq(U)
           s == R!Exacts(q)
<1>1. q \in Seq(U) /\ Len(q) \in Nat /\ DOMAIN q = 1 .. Len(q) /\ \A d \in U : \E i \in 1 .. Len(q) : q[i] = d
  BY ListedFacts
<1> HIDE DEF q
<1>2. s = [i \in 1 .. Len(q) |-> R!Exactly(q[i])]
  BY <1>1 DEF R!Exacts
<1>3. \A i \in 1 .. Len(q) : q[i] \in U /\ R!Exactly(q[i]) \in Held
  BY <1>1 DEF Held, Own, R!Exactly
<1>4. s \in [1 .. Len(q) -> Held]
  BY <1>2, <1>3
<1> HIDE DEF s
<1>5. s \in Seq(Held) /\ Len(s) = Len(q)
  BY <1>1, <1>4, SeqDef, LenProperties
<1> QED
  BY <1>1, <1>2, <1>3, <1>5 DEF s, q

LEMMA ExactlySees == \A x, d : Sees(filter.mode, R!Exactly(x), d) <=> x = d
BY DEF Sees, R!Exactly, R!RuleMatches, R!PatternMatches

\* Entries in front decide before the others, entries behind after them.
LEMMA InFront ==
  ASSUME NEW mode, NEW a \in Seq(Held), NEW b \in Seq(Held), NEW d
  PROVE  LET s == a \o b
             n == Met(mode, s, d)
         IN /\ s \in Seq(Held)
            /\ (\E i \in 1 .. Len(a) : Sees(mode, a[i], d)) => n \in 1 .. Len(a) /\ s[n] = a[n] /\ Sees(mode, a[n], d)
            /\ (\A i \in 1 .. Len(a) : ~Sees(mode, a[i], d)) =>
                  IF Met(mode, b, d) = 0 THEN n = 0 ELSE n # 0 /\ s[n] = b[Met(mode, b, d)]
<1> DEFINE s == a \o b
           n == Met(mode, s, d)
           m == Met(mode, b, d)
<1>1. /\ s \in Seq(Held) /\ Len(s) = Len(a) + Len(b) /\ Len(a) \in Nat /\ Len(b) \in Nat
      /\ \A i \in 1 .. Len(a) + Len(b) : s[i] = IF i <= Len(a) THEN a[i] ELSE b[i - Len(a)]
  BY ConcatProperties, LenProperties
<1> HIDE DEF s
<1>2. \/ n = 0 /\ \A j \in 1 .. Len(s) : ~Sees(mode, s[j], d)
      \/ /\ n \in 1 .. Len(s) /\ n # 0 /\ n \in Nat /\ Sees(mode, s[n], d)
         /\ \A j \in 1 .. Len(s) : Sees(mode, s[j], d) => n <= j
  BY <1>1, MetFacts
<1>3. \/ m = 0 /\ \A j \in 1 .. Len(b) : ~Sees(mode, b[j], d)
      \/ /\ m \in 1 .. Len(b) /\ m # 0 /\ m \in Nat /\ Sees(mode, b[m], d)
         /\ \A j \in 1 .. Len(b) : Sees(mode, b[j], d) => m <= j
  BY MetFacts
<1> HIDE DEF n, m
<1>4. ASSUME NEW i \in 1 .. Len(a), Sees(mode, a[i], d)
      PROVE  n \in 1 .. Len(a) /\ s[n] = a[n] /\ Sees(mode, a[n], d)
  <2>1. i \in 1 .. Len(s) /\ s[i] = a[i]
    BY <1>1
  <2>2. n \in 1 .. Len(s) /\ n <= i /\ Sees(mode, s[n], d)
    BY <1>2, <1>4, <2>1
  <2>3. n \in 1 .. Len(a)
    BY <1>1, <2>2
  <2> QED
    BY <1>1, <2>2, <2>3
<1>5. ASSUME \A i \in 1 .. Len(a) : ~Sees(mode, a[i], d)
      PROVE  IF m = 0 THEN n = 0 ELSE n # 0 /\ s[n] = b[m]
  <2>1. \A j \in 1 .. Len(s) : Sees(mode, s[j], d) => j - Len(a) \in 1 .. Len(b) /\ s[j] = b[j - Len(a)]
    BY <1>1, <1>5
  <2>2. CASE m = 0
    BY <1>2, <1>3, <2>1, <2>2
  <2>3. CASE m # 0
    <3>1. m + Len(a) \in 1 .. Len(s) /\ s[m + Len(a)] = b[m] /\ Sees(mode, b[m], d)
      BY <1>1, <1>3, <2>3
    <3>2. n \in 1 .. Len(s) /\ n <= m + Len(a) /\ Sees(mode, s[n], d)
      BY <1>2, <3>1
    <3>3. n - Len(a) \in 1 .. Len(b) /\ s[n] = b[n - Len(a)]
      BY <2>1, <3>2
    <3>4. m <= n - Len(a)
      BY <1>3, <2>3, <3>2, <3>3
    <3>5. n - Len(a) = m
      BY <1>1, <1>3, <2>3, <3>2, <3>3, <3>4
    <3> QED
      BY <3>2, <3>3, <3>5, <1>2, <2>3
  <2> QED
    BY <2>2, <2>3
<1> QED
  BY <1>1, <1>4, <1>5 DEF s, n, m

FilterInv ==
  /\ filter \in [mode : Modes, entries : Seq(Held)] /\ wished \subseteq Names
  /\ RulesOnly(filter.mode, filter.entries)
  /\ R!PlanSuffices

LEMMA NoneAdded == R!Exacts(<<>>) = <<>>
BY DEF R!Exacts

\* The real address of a domain that is not in dispute, under the filter of the next state.
LEMMA RealNext ==
  ASSUME filter'.mode \in Modes, filter'.entries \in Seq(Held), RulesOnly(filter'.mode, filter'.entries),
         NEW d, ~R!InDispute(d)'
  PROVE  LET n == Met(filter'.mode, filter'.entries, d)
         IN /\ filter'.mode = "blacklist" /\ n # 0 => R!Real(d)'
            /\ filter'.mode = "whitelist" => (R!Real(d)' <=> n = 0)
            /\ filter'.mode = "rule" => (R!Real(d)' <=> n # 0 /\ filter'.entries[n].action = "real-ip")
<1> DEFINE mode == filter'.mode
           entries == filter'.entries
           n == Met(mode, entries, d)
           k == Deciding(mode, entries, d)
<1>1. R!FirstHit(d)' = n /\ R!Decisive(d)' = k /\ DOMAIN entries = 1 .. Len(entries)
  BY Readings
<1>2. \A i \in 1 .. Len(entries) : (n = 0 \/ i <= n) => ~Differ(mode, entries[i], d)
  BY <1>1, Readings DEF R!InDispute
<1>3. (n # 0 => k # 0) /\ (mode # "blacklist" => k = n)
  BY <1>2, FoundAlike
<1>4. R!Real(d)' <=> CASE mode = "blacklist" -> k # 0
                       [] mode = "whitelist" -> k = 0
                       [] mode = "rule" -> k # 0 /\ entries[k].action = "real-ip"
  BY <1>1 DEF R!Real
<1> HIDE DEF mode, entries, n, k
<1>5. /\ mode = "blacklist" /\ n # 0 => R!Real(d)'
      /\ mode = "whitelist" => (R!Real(d)' <=> n = 0)
      /\ mode = "rule" => (R!Real(d)' <=> n # 0 /\ entries[n].action = "real-ip")
  BY <1>3, <1>4
<1> QED
  BY <1>5 DEF mode, entries, n

LEMMA PlanFilter == ASSUME FilterInv, R!Plan PROVE FilterInv'
<1> DEFINE entries == filter.entries
           plan == R!PlanRealIP
           gone == {d \in wished : Met(filter.mode, entries, d) = 0}
           new(U) == R!Exacts(R!SetToSeq(U))
<1>1. /\ filter \in [mode : Modes, entries : Seq(Held)] /\ wished \subseteq Names
      /\ entries \in Seq(Held) /\ filter.mode \in Modes /\ RulesOnly(filter.mode, entries)
  BY DEF FilterInv
<1>2. /\ advice' = plan /\ wished' = wished
      /\ filter' = IF plan.conflicts = {} THEN [filter EXCEPT !.entries = R!Applied(plan)] ELSE filter
  BY DEF R!Plan
<1>3. filter'.mode = filter.mode /\ filter'.entries = IF plan.conflicts = {} THEN R!Applied(plan) ELSE entries
  BY <1>1, <1>2
<1>4. R!Missing = gone
  BY Readings DEF R!Missing
<1>5. \A U \in SUBSET Names : /\ new(U) \in Seq(Held)
                              /\ \A i \in 1 .. Len(new(U)) : \E x \in U : new(U)[i] = R!Exactly(x)
                              /\ \A d \in U : \E i \in 1 .. Len(new(U)) : new(U)[i] = R!Exactly(d)
  BY ExactsFacts
<1>6. <<>> \o entries = entries /\ entries \o <<>> = entries
  BY <1>1, ConcatEmptySeq
<1>7. CASE filter.mode = "blacklist"
  <2>1. plan = [append |-> R!SetToSeq(gone), prepend |-> <<>>, covered |-> wished \ gone, conflicts |-> {}]
    BY <1>4, <1>7 DEF R!PlanRealIP, R!NoPlan
  <2>2. R!Applied(plan) = entries \o new(gone)
    BY <1>6, <2>1, NoneAdded DEF R!Applied
  <2>3. filter'.entries = entries \o new(gone)
    BY <1>3, <2>1, <2>2
  <2>4. new(gone) \in Seq(Held) /\ gone \subseteq wished /\ gone \in SUBSET Names
    BY <1>1, <1>5
  <2>5. filter'.entries \in Seq(Held)
    BY <1>1, <2>3, <2>4, InFront
  <2>6. ASSUME NEW d \in wished PROVE Met(filter.mode, filter'.entries, d) # 0
    <3>1. CASE d \in gone
      <4>1. PICK i \in 1 .. Len(new(gone)) : new(gone)[i] = R!Exactly(d)
        BY <1>5, <2>4, <3>1
      <4>2. Sees(filter.mode, new(gone)[i], d)
        BY <4>1, ExactlySees
      <4>3. Met(filter.mode, new(gone), d) # 0
        BY <2>4, <4>2, MetFacts
      <4>4. \A j \in 1 .. Len(entries) : ~Sees(filter.mode, entries[j], d)
        BY <1>1, <3>1, MetFacts
      <4> QED
        BY <1>1, <2>3, <2>4, <4>3, <4>4, InFront
    <3>2. CASE d \notin gone
      <4>1. \E i \in 1 .. Len(entries) : Sees(filter.mode, entries[i], d)
        BY <1>1, <3>2, MetFacts
      <4>2. Met(filter.mode, entries \o new(gone), d) \in 1 .. Len(entries)
        BY <1>1, <2>4, <4>1, InFront
      <4> QED
        BY <2>3, <4>2
    <3> QED
      BY <3>1, <3>2
  <2>9. RulesOnly(filter'.mode, filter'.entries)
    BY <1>3, <1>7 DEF RulesOnly
  <2>7. \A d \in wished : ~R!InDispute(d)' => R!Real(d)'
    BY <1>1, <1>3, <1>7, <2>5, <2>6, <2>9, RealNext
  <2>8. (R!PlanSuffices)'
    BY <1>2, <2>1, <2>7 DEF R!PlanSuffices
  <2> QED
    BY <1>1, <1>2, <1>3, <2>1, <2>5, <2>8, <2>9 DEF FilterInv
<1>8. CASE filter.mode = "whitelist"
  <2>1. plan = [append |-> <<>>, prepend |-> <<>>, covered |-> gone, conflicts |-> wished \ gone]
    BY <1>4, <1>8 DEF R!PlanRealIP, R!NoPlan
  <2>2. R!Applied(plan) = entries
    BY <1>6, <2>1, NoneAdded DEF R!Applied
  <2>3. filter'.entries = entries
    BY <1>3, <2>2
  <2>4. ASSUME NEW d \in wished, ~R!InDispute(d)'
        PROVE  IF plan.conflicts = {} THEN R!Real(d)' ELSE d \in plan.conflicts => ~R!Real(d)'
    <3>1. R!Real(d)' <=> d \in gone
      BY <1>1, <1>3, <1>8, <2>3, <2>4, RealNext
    <3> QED
      BY <2>1, <3>1
  <2>5. (R!PlanSuffices)'
    BY <1>2, <2>4 DEF R!PlanSuffices
  <2> QED
    BY <1>1, <1>2, <1>3, <2>2, <2>3, <2>5 DEF FilterInv
<1>9. CASE filter.mode = "rule"
  <2> DEFINE first(d) == Met(filter.mode, entries, d)
             kept == {d \in wished : R!Action(d) = "fake-ip"}
             new0 == new(R!Undecided)
  <2>1. plan = [append |-> <<>>, prepend |-> R!SetToSeq(R!Undecided), covered |-> {d \in wished : R!Action(d) = "real-ip"}, conflicts |-> kept]
    BY <1>9 DEF R!PlanRealIP
  <2>2. \A d : R!Action(d) = IF first(d) = 0 THEN "none" ELSE entries[first(d)].action
    BY Readings DEF R!Action
  <2>3. R!Undecided \subseteq wished /\ R!Undecided \in SUBSET Names
    BY <1>1 DEF R!Undecided
  <2>4. /\ new0 \in Seq(Held)
        /\ \A i \in 1 .. Len(new0) : \E x \in R!Undecided : new0[i] = R!Exactly(x)
        /\ \A d \in R!Undecided : \E i \in 1 .. Len(new0) : new0[i] = R!Exactly(d)
    BY <1>5, <2>3
  <2>5. new0 \o entries \in Seq(Held)
    BY <1>1, <2>4, InFront
  <2>6. R!Applied(plan) = new0 \o entries
    <3>1. R!Applied(plan) = (new0 \o entries) \o <<>>
      BY <2>1, NoneAdded DEF R!Applied
    <3> QED
      BY <2>5, <3>1, ConcatEmptySeq
  <2>7. CASE kept = {}
    <3>1. filter'.entries = new0 \o entries
      BY <1>3, <2>1, <2>6, <2>7
    <3>4. RulesOnly(filter'.mode, filter'.entries)
      <4>1. \A i \in 1 .. Len(entries) : entries[i].rule
        BY <1>1, <1>9 DEF RulesOnly
      <4>2. \A i \in 1 .. Len(new0) : new0[i].rule
        <5>1. \A x : R!Exactly(x).rule
          BY <1>9 DEF R!Exactly
        <5> QED
          BY <2>4, <5>1
      <4>3. \A i \in 1 .. Len(new0 \o entries) :
              (new0 \o entries)[i] = IF i <= Len(new0) THEN new0[i] ELSE entries[i - Len(new0)]
        BY <1>1, <2>4, ConcatProperties
      <4>4. Len(new0 \o entries) = Len(new0) + Len(entries) /\ Len(new0) \in Nat /\ Len(entries) \in Nat
        BY <1>1, <2>4, ConcatProperties, LenProperties
      <4> HIDE DEF new0, entries
      <4>5. \A i \in 1 .. Len(new0 \o entries) : (new0 \o entries)[i].rule
        BY <4>1, <4>2, <4>3, <4>4
      <4> QED
        BY <1>3, <3>1, <4>5 DEF RulesOnly
    <3>2. ASSUME NEW d \in wished, ~R!InDispute(d)' PROVE R!Real(d)'
      <4> DEFINE n == Met(filter.mode, new0 \o entries, d)
      <4>1. CASE d \in R!Undecided
        <5>1. \E i \in 1 .. Len(new0) : Sees(filter.mode, new0[i], d)
          BY <2>4, <4>1, ExactlySees
        <5>2. n \in 1 .. Len(new0) /\ (new0 \o entries)[n] = new0[n]
          BY <1>1, <2>4, <5>1, InFront
        <5>3. n # 0 /\ (new0 \o entries)[n].action = "real-ip"
          <6>1. PICK x \in R!Undecided : new0[n] = R!Exactly(x)
            BY <2>4, <5>2
          <6> HIDE DEF n
          <6> QED
            BY <5>2, <6>1 DEF R!Exactly
        <5>4. R!Real(d)' <=> Met(filter'.mode, filter'.entries, d) # 0 /\ filter'.entries[Met(filter'.mode, filter'.entries, d)].action = "real-ip"
          BY <1>1, <1>3, <1>9, <2>5, <3>1, <3>2, <3>4, RealNext
        <5> QED
          BY <1>3, <3>1, <5>3, <5>4
      <4>2. CASE d \notin R!Undecided
        <5>1. \A i \in 1 .. Len(new0) : ~Sees(filter.mode, new0[i], d)
          BY <2>4, <4>2, ExactlySees
        <5>2. R!Action(d) = "real-ip"
          BY <2>7, <4>2 DEF R!Undecided
        <5>3. first(d) # 0 /\ entries[first(d)].action = "real-ip"
          BY <2>2, <5>2
        <5>4. n # 0 /\ (new0 \o entries)[n] = entries[first(d)]
          BY <1>1, <2>4, <5>1, <5>3, InFront
        <5> QED
          BY <1>1, <1>3, <1>9, <2>5, <3>1, <3>2, <3>4, <5>3, <5>4, RealNext
      <4> QED
        BY <4>1, <4>2
    <3>3. (R!PlanSuffices)'
      BY <1>2, <2>1, <2>7, <3>2 DEF R!PlanSuffices
    <3> QED
      BY <1>1, <1>2, <1>3, <2>5, <3>1, <3>3, <3>4 DEF FilterInv
  <2>8. CASE kept # {}
    <3>1. filter' = filter
      BY <1>2, <2>1, <2>8
    <3>2. ASSUME NEW d \in kept, ~R!InDispute(d)' PROVE ~R!Real(d)'
      <4>1. first(d) # 0 /\ entries[first(d)].action = "fake-ip"
        BY <2>2
      <4> QED
        BY <1>1, <1>9, <3>1, <3>2, <4>1, RealNext
    <3>3. (R!PlanSuffices)'
      BY <1>2, <2>1, <2>8, <3>2 DEF R!PlanSuffices
    <3> QED
      BY <1>1, <1>2, <3>1, <3>3 DEF FilterInv
  <2> QED
    BY <2>7, <2>8
<1> QED
  BY <1>1, <1>7, <1>8, <1>9 DEF Modes

LEMMA StepFilter == FilterInv /\ [R!FilterNext]_filterVars => FilterInv'
<1> SUFFICES ASSUME FilterInv, [R!FilterNext]_filterVars PROVE FilterInv'
  OBVIOUS
<1>1. CASE R!Plan
  BY <1>1, PlanFilter
<1>2. ASSUME advice' = R!NoPlan, filter' \in [mode : Modes, entries : Seq(Held)], wished' \subseteq Names,
             RulesOnly(filter'.mode, filter'.entries)
      PROVE  FilterInv'
  <2>1. (R!PlanSuffices)'
    BY <1>2 DEF R!PlanSuffices, R!NoPlan
  <2> QED
    BY <1>2, <2>1 DEF FilterInv
<1>3. CASE R!EditFilter
  <2>1. PICK e \in FilterEntries : filter' = [filter EXCEPT !.entries = Append(@, e)] /\ (filter.mode = "rule" => e.rule)
    BY <1>3 DEF R!EditFilter, R!Append
  <2>2. filter.entries \in Seq(Held) /\ e \in Held
    BY DEF FilterInv, Held
  <2>3. Append(filter.entries, e) \in Seq(Held)
    BY <2>2
  <2>4. filter' \in [mode : Modes, entries : Seq(Held)] /\ filter'.mode = filter.mode /\ filter'.entries = Append(filter.entries, e)
    <3>1. filter = [mode |-> filter.mode, entries |-> filter.entries] /\ filter.mode \in Modes
      BY DEF FilterInv
    <3>2. filter' = [mode |-> filter.mode, entries |-> Append(filter.entries, e)]
      BY <2>1, <3>1
    <3> QED
      BY <2>3, <3>1, <3>2
  <2>5. \A i \in 1 .. Len(Append(filter.entries, e)) :
          Append(filter.entries, e)[i] = e \/ (i \in 1 .. Len(filter.entries) /\ Append(filter.entries, e)[i] = filter.entries[i])
    BY <2>2, AppendProperties
  <2>6. RulesOnly(filter'.mode, filter'.entries)
    BY <2>1, <2>4, <2>5 DEF FilterInv, RulesOnly
  <2> QED
    BY <1>2, <1>3, <2>4, <2>6 DEF R!EditFilter, FilterInv
<1>4. CASE R!Wish
  BY <1>2, <1>4 DEF R!Wish, FilterInv
<1>5. CASE UNCHANGED filterVars
  <2>1. UNCHANGED <<filter, wished, advice>>
    BY <1>5 DEF filterVars
  <2>2. \A d : /\ R!FirstHit(d)' = R!FirstHit(d) /\ R!Decisive(d)' = R!Decisive(d)
    BY <2>1, Readings
  <2>3. \A e, d : R!Disputed(e, d)' <=> R!Disputed(e, d)
    BY <2>1 DEF R!Disputed, R!Seen, R!RuleMatches, R!PatternMatches
  <2>4. \A d : (R!Real(d)' <=> R!Real(d)) /\ (R!InDispute(d)' <=> R!InDispute(d))
    BY <2>1, <2>2, <2>3 DEF R!Real, R!InDispute
  <2>5. (R!PlanSuffices)'
    BY <2>1, <2>4 DEF FilterInv, R!PlanSuffices, R!NoPlan
  <2> QED
    BY <2>1, <2>5 DEF FilterInv
<1> QED
  BY <1>1, <1>3, <1>4, <1>5 DEF R!FilterNext

LEMMA InitFilter == R!FilterInit => FilterInv
<1>1. <<>> \in Seq(Held)
  OBVIOUS
<1> SUFFICES ASSUME R!FilterInit PROVE FilterInv
  OBVIOUS
<1>2. filter.entries = <<>> /\ filter \in [mode : Modes, entries : Seq(Held)]
  BY <1>1 DEF R!FilterInit, Modes
<1>3. RulesOnly(filter.mode, filter.entries)
  BY <1>2 DEF RulesOnly
<1> QED
  BY <1>2, <1>3 DEF R!FilterInit, FilterInv, R!PlanSuffices
----------------------------------------------------------------------------
(* The schedule.                                                           *)

LEMMA DivisionOrder ==
  ASSUME NEW m \in Nat \ {0}, NEW x \in Nat, NEW y \in Nat
  PROVE  x \div m \in Nat /\ (x <= y => x \div m <= y \div m)
OBVIOUS

LEMMA Remainder == ASSUME NEW m \in Nat \ {0}, NEW x \in Nat PROVE x % m \in 0 .. m - 1 /\ x % m <= x
OBVIOUS

LEMMA Multiple == ASSUME NEW m \in Nat \ {0}, NEW x \in Nat PROVE (x - (x % m) + m) % m = 0
OBVIOUS

LEMMA OfDay ==
  ASSUME NEW m \in Nat \ {0}, NEW e \in Nat, NEW at \in 0 .. m - 1
  PROVE  e * m + at \in Nat /\ (e * m + at) % m = at /\ (e * m + at) \div m = e
OBVIOUS

\* Within a period there is a day that is whole periods after an earlier one.
LEMMA WithinPeriod ==
  ASSUME NEW m \in Nat \ {0}, NEW b \in Nat, NEW d \in Nat, b <= d
  PROVE  \E e \in Nat : d < e /\ e <= d + m /\ (e - b) % m = 0
<1> DEFINE x == d - b
           e == d - (x % m) + m
<1>0. x \in Nat
  OBVIOUS
<1>1. x \in Nat /\ x % m \in 0 .. m - 1 /\ x % m <= x
  <2> HIDE DEF x
  <2> QED
    BY <1>0, Remainder
<1>2. (x - (x % m) + m) % m = 0
  <2> HIDE DEF x
  <2> QED
    BY <1>0, Multiple
<1>3. e - b = x - (x % m) + m
  BY <1>1
<1>4. e \in Nat /\ d < e /\ e <= d + m
  BY <1>1
<1> QED
  BY <1>2, <1>3, <1>4

\* The next time is the least of those there are.
LEMMA LeastIs ==
  ASSUME NEW S \in SUBSET Nat, H!Least(S) # H!End
  PROVE  H!Least(S) \in S /\ \A t \in S : H!Least(S) <= t
<1>1. S # {} /\ H!Least(S) = CHOOSE t \in S : \A u \in S : t <= u
  BY DEF H!Least
<1>2. \E t \in S : \A u \in S : t <= u
  BY <1>1, LeastOfNumbers
<1> QED
  BY <1>1, <1>2

ScheduleInv ==
  /\ schedule \in Schedules /\ instant \in Nat
  /\ lastRun = -1 \/ (lastRun \in Nat /\ lastRun <= instant)
  /\ H!NextRunIsDue

LEMMA IntervalIsDue ==
  ASSUME ScheduleInv, schedule.mode = "interval", H!NextInterval # H!End
  PROVE  LET t == H!NextInterval IN t > instant /\ t % DayLength = schedule.at /\ H!Day(t) - H!Day(instant) <= schedule.every
<1> DEFINE base == IF lastRun = -1 THEN instant ELSE lastRun
           every == schedule.every
           S == {t \in 0 .. H!End - 1 : H!After(t) /\ t % DayLength = schedule.at /\ H!Day(t) > H!Day(base) /\ (H!Day(t) - H!Day(base)) % every = 0}
           due0 == H!NextInterval
<1>1. /\ DayLength \in Nat \ {0} /\ every \in Nat \ {0} /\ schedule.at \in 0 .. DayLength - 1 /\ H!End \in Nat
      /\ instant \in Nat /\ base \in Nat /\ base <= instant
  BY InputAssumption DEF ScheduleInv, H!End
<1>2. due0 = H!Least(S) /\ S \in SUBSET Nat
  BY <1>1 DEF H!NextInterval
<1>3. due0 \in S /\ \A t \in S : due0 <= t
  BY <1>2, LeastIs
<1>4. due0 \in Nat /\ due0 < H!End /\ due0 > instant /\ due0 % DayLength = schedule.at
  BY <1>1, <1>3 DEF H!After
<1> HIDE DEF S, due0, every, base
<1> DEFINE b == H!Day(base)
           d == H!Day(instant)
<1>5. b \in Nat /\ d \in Nat /\ b <= d /\ H!Day(due0) \in Nat
  BY <1>1, <1>4, DivisionOrder DEF H!Day
<1>6. PICK e \in Nat : d < e /\ e <= d + every /\ (e - b) % every = 0
  <2> HIDE DEF b, d
  <2> QED
    BY <1>1, <1>5, WithinPeriod
<1> DEFINE t == e * DayLength + schedule.at
<1>7. t \in Nat /\ t % DayLength = schedule.at /\ H!Day(t) = e
  BY <1>1, OfDay DEF H!Day
<1> HIDE DEF t
<1>8. ~(t <= instant)
  <2>1. t <= instant => H!Day(t) <= H!Day(instant)
    BY <1>1, <1>7, DivisionOrder DEF H!Day
  <2> HIDE DEF d
  <2> QED
    BY <1>5, <1>6, <1>7, <2>1 DEF d
<1>9. ASSUME ~(H!Day(due0) - d <= every) PROVE FALSE
  <2>1. ~(due0 <= t)
    <3>1. due0 <= t => H!Day(due0) <= H!Day(t)
      BY <1>1, <1>4, <1>7, DivisionOrder DEF H!Day
    <3> HIDE DEF d
    <3> QED
      BY <1>1, <1>5, <1>6, <1>7, <1>9, <3>1
  <2>2. t \in 0 .. H!End - 1 /\ H!After(t) /\ H!Day(t) > b /\ (H!Day(t) - b) % every = 0
    <3> HIDE DEF b, d
    <3> QED
      BY <1>1, <1>4, <1>5, <1>6, <1>7, <1>8, <2>1 DEF H!After
  <2>3. t \in S
    BY <1>7, <2>2 DEF S
  <2> QED
    BY <1>3, <2>1, <2>3
<1> QED
  BY <1>4, <1>9 DEF due0, every

LEMMA CronIsDue ==
  ASSUME ScheduleInv, H!NextCron # H!End
  PROVE  LET t == H!NextCron IN t > instant /\ t \in Nat /\ \A u \in instant + 1 .. t - 1 : ~H!Fires(schedule, u)
<1> DEFINE S == {t \in 0 .. H!End - 1 : H!After(t) /\ H!Fires(schedule, t)}
           due0 == H!NextCron
<1>1. H!End \in Nat /\ instant \in Nat
  BY InputAssumption DEF ScheduleInv, H!End
<1>2. due0 = H!Least(S) /\ S \in SUBSET Nat
  BY <1>1 DEF H!NextCron
<1>3. due0 \in S /\ \A t \in S : due0 <= t
  BY <1>2, LeastIs
<1>4. due0 \in Nat /\ due0 < H!End /\ due0 > instant
  BY <1>1, <1>3 DEF H!After
<1>5. ASSUME NEW u \in instant + 1 .. due0 - 1, H!Fires(schedule, u) PROVE FALSE
  <2>1. u \in 0 .. H!End - 1 /\ u > instant /\ u < due0
    BY <1>1, <1>4
  <2>2. u \in S
    BY <1>5, <2>1 DEF H!After
  <2> QED
    BY <1>3, <1>4, <2>1, <2>2
<1> QED
  BY <1>4, <1>5

LEMMA StepSchedule == ScheduleInv /\ [H!ScheduleNext]_scheduleVars => ScheduleInv'
<1> SUFFICES ASSUME ScheduleInv, [H!ScheduleNext]_scheduleVars PROVE ScheduleInv'
  OBVIOUS
<1>1. CASE H!Compute
  <2>1. UNCHANGED <<schedule, instant, lastRun>> /\ due' = IF schedule.mode = "interval" THEN H!NextInterval ELSE H!NextCron
    BY <1>1 DEF H!Compute
  <2>2. schedule.mode \in {"interval", "cron"}
    BY InputAssumption DEF ScheduleInv
  <2>3. ASSUME due' # H!End
        PROVE  /\ due' > instant
               /\ schedule.mode = "cron" => \A t \in instant + 1 .. due' - 1 : ~H!Fires(schedule, t)
               /\ schedule.mode = "interval" => due' % DayLength = schedule.at /\ H!Day(due') - H!Day(instant) <= schedule.every
    BY <2>1, <2>2, <2>3, IntervalIsDue, CronIsDue
  <2>4. H!NextRunIsDue'
    BY <2>1, <2>3 DEF H!NextRunIsDue, H!Fires, H!Day, H!End
  <2> QED
    BY <2>1, <2>4 DEF ScheduleInv
<1>2. CASE H!Run
  BY <1>2 DEF H!Run, ScheduleInv, H!NextRunIsDue
<1>3. CASE H!Passes
  BY <1>3 DEF H!Passes, ScheduleInv, H!NextRunIsDue
<1>4. CASE UNCHANGED scheduleVars
  BY <1>4 DEF scheduleVars, ScheduleInv, H!NextRunIsDue
<1> QED
  BY <1>1, <1>2, <1>3, <1>4 DEF H!ScheduleNext

LEMMA InitSchedule == H!ScheduleInit => ScheduleInv
BY DEF H!ScheduleInit, ScheduleInv, H!NextRunIsDue

\* 3 is 0 in a week of three days.
LEMMA SundayTwice == ScheduleInv => H!SundayIsSunday
<1> DEFINE three == {[lo |-> 3, hi |-> 3, step |-> 1]}
           zero == {[lo |-> 0, hi |-> 0, step |-> 1]}
           other == [schedule EXCEPT !.dow = zero]
<1> SUFFICES ASSUME ScheduleInv, schedule.dow = three, NEW t PROVE H!Fires(schedule, t) <=> H!Fires(other, t)
  BY DEF H!SundayIsSunday
<1>1. other.dow = zero /\ other.dom = schedule.dom /\ other.clock = schedule.clock
  BY InputAssumption DEF ScheduleInv
<1>2. H!Values(three) = {3} /\ H!Values(zero) = {0}
  BY DEF H!Values
<1>3. 3 % 3 = 0 /\ 0 % 3 = 0
  OBVIOUS
<1>4. H!Weekdays(three) = {0} /\ H!Weekdays(zero) = {0}
  BY <1>2, <1>3 DEF H!Weekdays
<1>5. ~H!Wild(three, 0, 3) /\ ~H!Wild(zero, 0, 3)
  <2>1. ASSUME NEW n, n = [lo |-> 0, hi |-> 3, step |-> 1] PROVE n # [lo |-> 3, hi |-> 3, step |-> 1] /\ n # [lo |-> 0, hi |-> 0, step |-> 1]
    <3>1. n.lo = 0 /\ n.hi = 3
      BY <2>1
    <3>2. \A k : k = [lo |-> 3, hi |-> 3, step |-> 1] => k.lo = 3
      OBVIOUS
    <3>3. \A k : k = [lo |-> 0, hi |-> 0, step |-> 1] => k.hi = 0
      OBVIOUS
    <3> QED
      BY <3>1, <3>2, <3>3
  <2> QED
    BY <2>1 DEF H!Wild
<1> HIDE DEF three, zero, other
<1> QED
  BY <1>1, <1>4, <1>5 DEF H!Fires
----------------------------------------------------------------------------
(* The traffic of the devices.                                             *)

\* What is computed in stages exists: a recursive function over the numbers to N.
Steps(V, N) == [V \X (1 .. N) -> V]
Staged(f, N, a, step) == f[0] = a /\ \A n \in 1 .. N : f[n] = step[<<f[n - 1], n>>]

LEMMA Stages ==
  ASSUME NEW N \in Nat, NEW V, NEW a \in V, NEW step \in Steps(V, N)
  PROVE  \E f \in [0 .. N -> V] : Staged(f, N, a, step)
<1> DEFINE Missing == {m \in 0 .. N : ~\E f \in [0 .. m -> V] : Staged(f, m, a, step)}
<1>1. SUFFICES ASSUME Missing # {} PROVE FALSE
  <2>1. N \notin Missing
    BY <1>1
  <2> QED
    BY <2>1
<1>2. PICK m \in Missing : \A k \in Missing : m <= k
  <2> HIDE DEF Missing
  <2>1. Missing \in SUBSET Nat
    BY DEF Missing
  <2> QED
    BY <1>1, <2>1, LeastOfNumbers
<1>3. m # 0
  <2> DEFINE f == [n \in 0 .. 0 |-> a]
  <2>1. f \in [0 .. 0 -> V] /\ Staged(f, 0, a, step)
    BY DEF Staged
  <2> HIDE DEF f
  <2> QED
    BY <1>2, <2>1
<1>4. m \in 1 .. N /\ m - 1 \in 0 .. N /\ m - 1 \notin Missing
  BY <1>2, <1>3
<1>5. PICK f \in [0 .. m - 1 -> V] : Staged(f, m - 1, a, step)
  BY <1>4
<1> DEFINE g == [n \in 0 .. m |-> IF n = m THEN step[<<f[m - 1], m>>] ELSE f[n]]
<1>6. step[<<f[m - 1], m>>] \in V /\ f[0] = a /\ \A n \in 1 .. m - 1 : f[n] = step[<<f[n - 1], n>>]
  BY <1>4, <1>5 DEF Staged, Steps
<1>7. g \in [0 .. m -> V]
  BY <1>4, <1>5, <1>6
<1>8. g[0] = a
  BY <1>4, <1>6
<1>9. ASSUME NEW n \in 1 .. m PROVE g[n] = step[<<g[n - 1], n>>]
  <2>1. n \in 0 .. m /\ n - 1 \in 0 .. m /\ n - 1 # m /\ g[n - 1] = f[n - 1]
    BY <1>4
  <2>2. CASE n = m
    <3>1. g[n] = step[<<f[m - 1], m>>]
      BY <2>1, <2>2
    <3> QED
      BY <2>1, <2>2, <3>1
  <2>3. CASE n # m
    <3>1. n \in 1 .. m - 1 /\ g[n] = f[n]
      BY <1>4, <2>1, <2>3
    <3> QED
      BY <1>6, <2>1, <3>1
  <2> QED
    BY <2>2, <2>3
<1>10. Staged(g, m, a, step)
  BY <1>8, <1>9 DEF Staged
<1> HIDE DEF g
<1> QED
  BY <1>2, <1>7, <1>10

\* What holds at the first stage and is kept from stage to stage holds at each.
LEMMA Stepwise ==
  ASSUME NEW N \in Nat, NEW Good, 0 \in Good, \A n \in 1 .. N : n - 1 \in Good => n \in Good
  PROVE  \A n \in 0 .. N : n \in Good
<1> DEFINE Bad == {n \in 0 .. N : n \notin Good}
<1>1. SUFFICES ASSUME Bad # {} PROVE FALSE
  BY <1>1
<1>2. PICK n \in Bad : \A k \in Bad : n <= k
  <2> HIDE DEF Bad
  <2>1. Bad \in SUBSET Nat
    BY DEF Bad
  <2> QED
    BY <1>1, <2>1, LeastOfNumbers
<1>3. n \in 1 .. N /\ n - 1 \notin Bad
  BY <1>2
<1> QED
  BY <1>2, <1>3

\* Sums of what connections have.
LEMMA RunningFacts ==
  ASSUME NEW amount \in [Flows -> Nat], NEW list, NEW N \in Nat, Len(list) = N, \A i \in 1 .. N : list[i] \in Flows
  PROVE  F!Running(amount, list) \in [0 .. N -> Nat] /\ F!Running(amount, list)[0] = 0
<1> DEFINE st == [p \in Nat \X (1 .. N) |-> p[1] + amount[list[p[2]]]]
           Rec(f) == f = [n \in 0 .. Len(list) |-> IF n = 0 THEN 0 ELSE f[n - 1] + amount[list[n]]]
<1>1. st \in Steps(Nat, N) /\ 0 \in Nat
  BY DEF Steps
<1>2. PICK f \in [0 .. N -> Nat] : Staged(f, N, 0, st)
  <2> HIDE DEF st
  <2> QED
    BY <1>1, Stages
<1>3. Rec(f)
  <2>1. f[0] = 0
    BY <1>2 DEF Staged
  <2>2. ASSUME NEW n \in 1 .. N PROVE f[n] = f[n - 1] + amount[list[n]]
    <3>1. f[n - 1] \in Nat
      BY <1>2
    <3>2. f[n] = st[<<f[n - 1], n>>]
      BY <1>2 DEF Staged
    <3> QED
      BY <3>1, <3>2
  <2>3. f = [n \in 0 .. N |-> f[n]]
    BY <1>2
  <2>4. ASSUME NEW n \in 0 .. N PROVE f[n] = IF n = 0 THEN 0 ELSE f[n - 1] + amount[list[n]]
    BY <2>1, <2>2
  <2> HIDE DEF st
  <2> QED
    BY <2>3, <2>4
<1>4. F!Running(amount, list) = CHOOSE g : Rec(g)
  BY DEF F!Running
<1>5. Rec(CHOOSE g : Rec(g))
  <2>1. \E g : Rec(g)
    BY <1>3
  <2> HIDE DEF Rec
  <2> QED
    BY <2>1
<1> DEFINE sum == F!Running(amount, list)
<1>6. sum = [n \in 0 .. N |-> IF n = 0 THEN 0 ELSE sum[n - 1] + amount[list[n]]]
  <2>1. Rec(F!Running(amount, list))
    <3> HIDE DEF Rec
    <3> QED
      BY <1>4, <1>5
  <2> QED
    BY <2>1
<1> HIDE DEF sum, Rec, st
<1> DEFINE Good == {n \in 0 .. N : sum[n] \in Nat}
<1>7. \A n \in 0 .. N : n \in Good
  <2>1. 0 \in Good
    BY <1>6
  <2>2. ASSUME NEW n \in 1 .. N, n - 1 \in Good PROVE n \in Good
    <3>1. n \in 0 .. N /\ n # 0 /\ sum[n - 1] \in Nat /\ amount[list[n]] \in Nat
      BY <2>2
    <3>2. sum[n] = sum[n - 1] + amount[list[n]]
      BY <1>6, <3>1
    <3> QED
      BY <3>1, <3>2
  <2> HIDE DEF Good
  <2> QED
    BY <2>1, <2>2, Stepwise
<1>8. sum \in [0 .. N -> Nat] /\ sum[0] = 0
  <2>1. \A n \in 0 .. N : sum[n] \in Nat
    BY <1>7
  <2>2. sum[0] = 0
    BY <1>6
  <2>3. sum = [n \in 0 .. N |-> sum[n]]
    <3>1. DOMAIN sum = 0 .. N
      BY <1>6
    <3>2. \A q : q = [n \in 0 .. N |-> IF n = 0 THEN 0 ELSE sum[n - 1] + amount[list[n]]] => q = [n \in 0 .. N |-> q[n]]
      OBVIOUS
    <3> QED
      BY <1>6, <3>2
  <2> QED
    BY <2>1, <2>2, <2>3
<1> QED
  BY <1>8 DEF sum

\* A set of connections as a sequence.
LEMMA FlowsListed ==
  ASSUME NEW ks \in SUBSET Flows
  PROVE  LET s == F!SetToSeq(ks)
         IN F!Cardinality(ks) \in Nat /\ Len(s) = F!Cardinality(ks) /\ \A i \in 1 .. F!Cardinality(ks) : s[i] \in Flows
<1> DEFINE n == Cardinality(ks)
           s == F!SetToSeq(ks)
<1>1. F!Cardinality(ks) = n
  BY DEF F!Cardinality, Cardinality
<1>2. IsFiniteSet(ks) /\ n \in Nat
  BY InputAssumption, FS_Subset, FS_CardinalityType
<1>3. PICK f \in Bijection(1 .. n, ks) : TRUE
  BY <1>2, FS_CardinalityType DEF ExistsBijection
<1>4. f \in [1 .. n -> ks] /\ F!IsInjective(f)
  BY <1>3 DEF Bijection, Injection, IsInjective, F!IsInjective
<1>5. s \in [1 .. n -> ks] /\ F!IsInjective(s)
  BY <1>1, <1>4 DEF F!SetToSeq
<1> HIDE DEF n, s
<1>6. Len(s) = n /\ \A i \in 1 .. n : s[i] \in Flows
  <2>1. s \in Seq(ks) /\ Len(s) = n
    BY <1>2, <1>5, SeqDef, LenProperties
  <2> QED
    BY <1>5, <2>1
<1> QED
  BY <1>1, <1>2, <1>6 DEF s

LEMMA TotalFacts ==
  ASSUME NEW amount \in [Flows -> Nat]
  PROVE  F!Total(amount, {}) = 0 /\ \A ks \in SUBSET Flows : F!Total(amount, ks) \in Nat
<1>1. ASSUME NEW ks \in SUBSET Flows PROVE F!Total(amount, ks) \in Nat /\ (ks = {} => F!Total(amount, ks) = 0)
  <2> DEFINE n == F!Cardinality(ks)
             s == F!SetToSeq(ks)
  <2>1. n \in Nat /\ Len(s) = n /\ \A i \in 1 .. n : s[i] \in Flows
    BY <1>1, FlowsListed
  <2>2. ks = {} => n = 0
    <3>1. n = Cardinality(ks)
      BY DEF F!Cardinality, Cardinality
    <3> QED
      BY <3>1, FS_EmptySet
  <2>3. F!Total(amount, ks) = F!Running(amount, s)[n]
    BY DEF F!Total
  <2> HIDE DEF n, s
  <2>4. F!Running(amount, s) \in [0 .. n -> Nat] /\ F!Running(amount, s)[0] = 0
    BY <2>1, RunningFacts
  <2> QED
    BY <2>1, <2>2, <2>3, <2>4
<1> QED
  BY <1>1

Usages == [bytes : Nat, connections : Nat]

\* Between two chains with a usage one is better, and what beats the better one beats the other.
LEMMA BetterTotal ==
  ASSUME NEW e \in Nat, NEW b \in Nat, e # b, NEW u \in Usages, NEW v \in Usages, ~F!Better(e, u, b, v)
  PROVE  F!Better(b, v, e, u)
BY DEF F!Better, Usages

LEMMA BetterTransitive ==
  ASSUME NEW e \in Nat, NEW b \in Nat, NEW c \in Nat, NEW u \in Usages, NEW v \in Usages, NEW w \in Usages,
         F!Better(e, u, b, v), F!Better(b, v, c, w)
  PROVE  F!Better(e, u, c, w)
BY DEF F!Better, Usages

Snapshots == [Flows -> {F!NoFlow} \cup [source : STRING, process : BOOLEAN, bytes : Nat, egress : Egresses]]

LEMMA BytesOf == ASSUME NEW s \in Snapshots PROVE \A k \in Flows : s[k].bytes \in Nat
BY DEF Snapshots, F!NoFlow

LEMMA UsageType == ASSUME NEW s \in Snapshots, NEW ks \in SUBSET Flows PROVE \A e : F!UsageOf(s, ks, e) \in Usages
<1>1. ASSUME NEW e PROVE F!UsageOf(s, ks, e) \in Usages
  <2> DEFINE mine == {k \in ks : s[k].egress = e}
             amount == [k \in Flows |-> s[k].bytes]
  <2>1. mine \in SUBSET Flows /\ amount \in [Flows -> Nat]
    BY BytesOf
  <2>2. F!UsageOf(s, ks, e) = [bytes |-> F!Total(amount, mine), connections |-> F!Cardinality(mine)]
    BY DEF F!UsageOf
  <2> HIDE DEF mine, amount
  <2>3. F!Total(amount, mine) \in Nat /\ F!Cardinality(mine) \in Nat
    BY <2>1, TotalFacts, FlowsListed
  <2> QED
    BY <2>2, <2>3 DEF Usages
<1> QED
  BY <1>1

\* The stages of primaryEgress.
LEMMA BestsFacts ==
  ASSUME NEW s, NEW ks, NEW order, NEW N \in Nat, Len(order) = N, \A i \in 1 .. N : order[i] \in Nat
  PROVE  LET best == F!Bests(s, ks, order)
         IN /\ best[0] = 0
            /\ \A n \in 1 .. N : best[n] = IF F!Prefers(s, ks, order[n], best[n - 1]) THEN order[n] ELSE best[n - 1]
            /\ \A n \in 0 .. N : best[n] \in Nat
<1> DEFINE st == [p \in Nat \X (1 .. N) |-> IF F!Prefers(s, ks, order[p[2]], p[1]) THEN order[p[2]] ELSE p[1]]
           Rec(f) == f = [n \in 0 .. Len(order) |->
                            IF n = 0 THEN 0 ELSE IF F!Prefers(s, ks, order[n], f[n - 1]) THEN order[n] ELSE f[n - 1]]
<1>1. st \in Steps(Nat, N) /\ 0 \in Nat
  BY DEF Steps
<1>2. PICK f \in [0 .. N -> Nat] : Staged(f, N, 0, st)
  <2> HIDE DEF st
  <2> QED
    BY <1>1, Stages
<1>3. f[0] = 0 /\ \A n \in 1 .. N : f[n] = IF F!Prefers(s, ks, order[n], f[n - 1]) THEN order[n] ELSE f[n - 1]
  <2>1. f[0] = 0
    BY <1>2 DEF Staged
  <2>2. ASSUME NEW n \in 1 .. N PROVE f[n] = IF F!Prefers(s, ks, order[n], f[n - 1]) THEN order[n] ELSE f[n - 1]
    <3>1. f[n - 1] \in Nat
      BY <1>2
    <3>2. f[n] = st[<<f[n - 1], n>>]
      BY <1>2 DEF Staged
    <3> QED
      BY <3>1, <3>2
  <2> QED
    BY <2>1, <2>2
<1>4. Rec(f)
  <2>1. f = [n \in 0 .. N |-> f[n]]
    BY <1>2
  <2>2. ASSUME NEW n \in 0 .. N
        PROVE  f[n] = IF n = 0 THEN 0 ELSE IF F!Prefers(s, ks, order[n], f[n - 1]) THEN order[n] ELSE f[n - 1]
    BY <1>3
  <2> HIDE DEF st
  <2> QED
    BY <2>1, <2>2
<1>5. F!Bests(s, ks, order) = CHOOSE g : Rec(g)
  BY DEF F!Bests
<1> DEFINE best == F!Bests(s, ks, order)
<1>6. best = [n \in 0 .. N |-> IF n = 0 THEN 0 ELSE IF F!Prefers(s, ks, order[n], best[n - 1]) THEN order[n] ELSE best[n - 1]]
  <2>1. Rec(F!Bests(s, ks, order))
    <3>1. \E g : Rec(g)
      BY <1>4
    <3> HIDE DEF Rec
    <3> QED
      BY <1>5, <3>1
  <2> QED
    BY <2>1
<1> HIDE DEF best, Rec, st
<1>7. /\ best[0] = 0
      /\ \A n \in 1 .. N : best[n] = IF F!Prefers(s, ks, order[n], best[n - 1]) THEN order[n] ELSE best[n - 1]
  <2>1. ASSUME NEW q, q = [n \in 0 .. N |-> IF n = 0 THEN 0 ELSE IF F!Prefers(s, ks, order[n], best[n - 1]) THEN order[n] ELSE best[n - 1]]
        PROVE  q[0] = 0 /\ \A n \in 1 .. N : q[n] = IF F!Prefers(s, ks, order[n], best[n - 1]) THEN order[n] ELSE best[n - 1]
    <3>1. 0 \in 0 .. N /\ \A n \in 1 .. N : n \in 0 .. N /\ n # 0
      OBVIOUS
    <3> QED
      BY <2>1, <3>1, Zenon
  <2> QED
    BY <1>6, <2>1
<1> DEFINE Good == {n \in 0 .. N : best[n] \in Nat}
<1>8. \A n \in 0 .. N : n \in Good
  <2>1. 0 \in Good
    BY <1>7
  <2>2. ASSUME NEW n \in 1 .. N, n - 1 \in Good PROVE n \in Good
    <3>1. n \in 0 .. N /\ order[n] \in Nat /\ best[n - 1] \in Nat
      BY <2>2
    <3>2. best[n] = IF F!Prefers(s, ks, order[n], best[n - 1]) THEN order[n] ELSE best[n - 1]
      BY <1>7
    <3>3. best[n] \in Nat
      <4> HIDE DEF Good
      <4> QED
        BY <3>1, <3>2
    <3> QED
      BY <3>1, <3>3
  <2> HIDE DEF Good
  <2> QED
    BY <2>1, <2>2, Stepwise
<1> QED
  BY <1>7, <1>8 DEF best

Used(s, ks, e) == \E k \in ks : s[k].egress = e
Beats(s, ks, b, e) == F!Better(b, F!UsageOf(s, ks, b), e, F!UsageOf(s, ks, e))

\* Whatever the order, the chain that is shown is used and beats every other that is.
LEMMA PrimaryBest ==
  ASSUME NEW s \in Snapshots, NEW ks \in SUBSET Flows, NEW order \in F!SetToSeqs(Egresses)
  PROVE  LET b == F!Primary(s, ks, order)
         IN \A e \in Egresses : Used(s, ks, e) /\ e # b => Beats(s, ks, b, e)
<1> DEFINE N == Cardinality(Egresses)
           best == F!Bests(s, ks, order)
<1>1. IsFiniteSet(Egresses) /\ N \in Nat /\ Egresses \subseteq Nat \ {0} /\ F!Cardinality(Egresses) = N
  <2>1. F!Cardinality(Egresses) = N
    BY DEF F!Cardinality, Cardinality
  <2> QED
    BY <2>1, InputAssumption, FS_CardinalityType
<1>2. order \in [1 .. N -> Egresses] /\ F!IsInjective(order)
  BY <1>1 DEF F!SetToSeqs, F!IsInjective
<1>3. order \in Surjection(1 .. N, Egresses)
  <2>1. order \in Injection(1 .. N, Egresses)
    BY <1>2 DEF Injection, IsInjective, F!IsInjective
  <2>2. IsFiniteSet(1 .. N) /\ Cardinality(1 .. N) = N
    BY <1>1, FS_Interval
  <2> HIDE DEF N
  <2> QED
    BY <1>1, <2>1, <2>2, FS_Injection DEF N
<1>4. Len(order) = N /\ (\A i \in 1 .. N : order[i] \in Nat /\ order[i] # 0) /\ \A e \in Egresses : \E i \in 1 .. N : order[i] = e
  <2> HIDE DEF N
  <2>1. order \in Seq(Egresses) /\ Len(order) = N
    BY <1>1, <1>2, SeqDef, LenProperties
  <2>2. \A e \in Egresses : \E i \in 1 .. N : order[i] = e
    BY <1>3 DEF Surjection
  <2> QED
    BY <1>1, <1>2, <2>1, <2>2
<1> HIDE DEF N
<1>5. /\ best[0] = 0
      /\ \A n \in 1 .. N : best[n] = IF F!Prefers(s, ks, order[n], best[n - 1]) THEN order[n] ELSE best[n - 1]
      /\ \A n \in 0 .. N : best[n] \in Nat
  BY <1>1, <1>4, BestsFacts
<1> HIDE DEF best
<1> DEFINE Ahead(n) == \A i \in 1 .. n : Used(s, ks, order[i]) /\ order[i] # best[n] => best[n] # 0 /\ Beats(s, ks, best[n], order[i])
           Good == {n \in 0 .. N : Ahead(n)}
<1>6. \A n \in 0 .. N : n \in Good
  <2>1. 0 \in Good
    BY <1>1
  <2>2. ASSUME NEW n \in 1 .. N, n - 1 \in Good PROVE n \in Good
    <3> DEFINE e == order[n]
               b == best[n - 1]
    <3>1. e \in Nat /\ e # 0 /\ b \in Nat /\ best[n] = IF F!Prefers(s, ks, e, b) THEN e ELSE b
      BY <1>4, <1>5
    <3>2. \A x : F!UsageOf(s, ks, x) \in Usages
      BY UsageType
    <3>3. F!Prefers(s, ks, e, b) <=> Used(s, ks, e) /\ (b = 0 \/ Beats(s, ks, e, b))
      BY DEF F!Prefers, Used, Beats
    <3>4. ASSUME NEW i \in 1 .. n, Used(s, ks, order[i]), order[i] # best[n] PROVE best[n] # 0 /\ Beats(s, ks, best[n], order[i])
      <4>1. order[i] \in Nat
        BY <1>4, <3>4
      <4>2. i # n => Used(s, ks, order[i]) /\ (order[i] # b => b # 0 /\ Beats(s, ks, b, order[i]))
        <5>1. n - 1 \in 0 .. N /\ Ahead(n - 1)
          BY <2>2
        <5>2. i # n => i \in 1 .. n - 1
          BY <3>4
        <5> QED
          BY <3>4, <5>1, <5>2
      <4> HIDE DEF e, b, Ahead, Good
      <4>3. CASE F!Prefers(s, ks, e, b)
        <5>1. best[n] = e /\ i # n
          BY <3>1, <3>4, <4>3 DEF e
        <5>2. CASE order[i] = b
          <6>1. b # 0
            BY <1>4, <3>4, <5>2
          <6> QED
            BY <3>1, <3>3, <4>3, <5>1, <5>2, <6>1
        <5>3. CASE order[i] # b
          <6>1. Beats(s, ks, b, order[i]) /\ Beats(s, ks, e, b)
            BY <3>3, <4>2, <4>3, <5>1, <5>3
          <6>2. Beats(s, ks, e, order[i])
            BY <3>1, <3>2, <4>1, <6>1, BetterTransitive DEF Beats
          <6> QED
            BY <3>1, <5>1, <6>2
        <5> QED
          BY <5>2, <5>3
      <4>4. CASE ~F!Prefers(s, ks, e, b)
        <5>1. best[n] = b
          BY <3>1, <4>4
        <5>2. CASE i # n
          BY <3>4, <4>2, <5>1, <5>2
        <5>3. CASE i = n
          <6>1. order[i] = e /\ b # 0 /\ ~Beats(s, ks, e, b) /\ e # b
            BY <3>3, <3>4, <4>4, <5>1, <5>3 DEF e
          <6>2. Beats(s, ks, b, e)
            BY <3>1, <3>2, <6>1, BetterTotal DEF Beats
          <6> QED
            BY <5>1, <6>1, <6>2
        <5> QED
          BY <5>2, <5>3
      <4> QED
        BY <4>3, <4>4
    <3> QED
      BY <3>4
  <2> HIDE DEF Good
  <2> QED
    BY <1>1, <2>1, <2>2, Stepwise
<1>7. F!Primary(s, ks, order) = best[N]
  BY <1>4 DEF F!Primary, best
<1>8. ASSUME NEW e \in Egresses, Used(s, ks, e), e # best[N] PROVE Beats(s, ks, best[N], e)
  <2>1. PICK i \in 1 .. N : order[i] = e
    BY <1>4
  <2>2. Ahead(N)
    BY <1>1, <1>6
  <2> QED
    BY <1>8, <2>1, <2>2
<1> QED
  BY <1>7, <1>8

Blank == ""
Texts == {e.mac : e \in F!Entries} \cup {Blank}
Pads == [m : [F!LAN -> Texts], doubt : SUBSET F!LAN]
NoNotes == [m |-> [ip \in F!LAN |-> Blank], doubt |-> {}]

\* What an entry of the ARP cache changes.
LEMMA NotedFacts ==
  ASSUME NEW acc \in Pads, NEW e, e.ip \in F!LAN, e.mac \in Texts
  PROVE  LET next == F!Noted(acc, e)
             old == acc.m[e.ip]
         IN /\ next \in Pads
            /\ e.mac = Blank \/ e.ip \in acc.doubt => next = acc
            /\ e.mac # Blank /\ e.ip \notin acc.doubt =>
                 /\ next.m[e.ip] = IF old # Blank /\ old # e.mac THEN Blank ELSE e.mac
                 /\ next.doubt = IF old # Blank /\ old # e.mac THEN acc.doubt \cup {e.ip} ELSE acc.doubt
                 /\ \A ip \in F!LAN : ip # e.ip => next.m[ip] = acc.m[ip]
<1> DEFINE next == F!Noted(acc, e)
           old == acc.m[e.ip]
           clash == old # Blank /\ old # e.mac
<1>1. acc.m \in [F!LAN -> Texts] /\ acc.doubt \in SUBSET F!LAN /\ old \in Texts
  BY DEF Pads
<1>2. Blank \in Texts
  BY DEF Texts
<1>3. e.mac = Blank \/ e.ip \in acc.doubt => next = acc
  BY DEF F!Noted, Blank
<1>4. e.mac # Blank /\ e.ip \notin acc.doubt =>
        next = [m |-> [acc.m EXCEPT ![e.ip] = IF @ \notin {Blank, e.mac} THEN Blank ELSE e.mac], doubt |-> F!Doubted(acc.m, acc.doubt, e)]
  BY DEF F!Noted, Blank
<1>5. F!Doubted(acc.m, acc.doubt, e) = IF old \notin {Blank, e.mac} THEN acc.doubt \cup {e.ip} ELSE acc.doubt
  BY DEF F!Doubted, Blank
<1>6. CASE e.mac = Blank \/ e.ip \in acc.doubt
  BY <1>3, <1>6
<1>7. CASE e.mac # Blank /\ e.ip \notin acc.doubt
  <2> DEFINE m2 == [acc.m EXCEPT ![e.ip] = IF @ \notin {Blank, e.mac} THEN Blank ELSE e.mac]
             d2 == F!Doubted(acc.m, acc.doubt, e)
  <2>1. m2 \in [F!LAN -> Texts] /\ m2[e.ip] = (IF clash THEN Blank ELSE e.mac) /\ \A ip \in F!LAN : ip # e.ip => m2[ip] = acc.m[ip]
    <3> HIDE DEF F!LAN
    <3> QED
      BY <1>1, <1>2
  <2>2. d2 = (IF clash THEN acc.doubt \cup {e.ip} ELSE acc.doubt) /\ d2 \in SUBSET F!LAN
    BY <1>1, <1>5
  <2>3. next = [m |-> m2, doubt |-> d2]
    BY <1>4, <1>7
  <2> HIDE DEF m2, d2, next
  <2>4. next \in Pads /\ next.m = m2 /\ next.doubt = d2
    BY <2>1, <2>2, <2>3 DEF Pads
  <2> QED
    BY <1>7, <2>1, <2>2, <2>4 DEF next
<1> QED
  BY <1>6, <1>7

\* The stages of observedLANDevices.
LEMMA NotesFacts ==
  ASSUME NEW N \in Nat, NEW es, Len(es) = N, \A i \in 1 .. N : es[i].ip \in F!LAN /\ es[i].mac \in Texts
  PROVE  LET note == F!Notes(es)
         IN /\ note[0] = NoNotes
            /\ \A n \in 1 .. N : note[n] = F!Noted(note[n - 1], es[n])
            /\ \A n \in 0 .. N : note[n] \in Pads
<1> DEFINE st == [p \in Pads \X (1 .. N) |-> F!Noted(p[1], es[p[2]])]
           Rec(f) == f = [n \in 0 .. Len(es) |-> IF n = 0 THEN NoNotes ELSE F!Noted(f[n - 1], es[n])]
<1>1. st \in Steps(Pads, N)
  <2>1. \A acc \in Pads, i \in 1 .. N : F!Noted(acc, es[i]) \in Pads
    BY NotedFacts
  <2> QED
    BY <2>1 DEF Steps
<1>2. NoNotes \in Pads
  <2>1. Blank \in Texts
    BY DEF Texts
  <2> QED
    BY <2>1 DEF NoNotes, Pads
<1>3. PICK f \in [0 .. N -> Pads] : Staged(f, N, NoNotes, st)
  <2> HIDE DEF st
  <2> QED
    BY <1>1, <1>2, Stages
<1>4. f[0] = NoNotes /\ \A n \in 1 .. N : f[n] = F!Noted(f[n - 1], es[n])
  <2>1. f[0] = NoNotes
    BY <1>3 DEF Staged
  <2>2. ASSUME NEW n \in 1 .. N PROVE f[n] = F!Noted(f[n - 1], es[n])
    <3>1. f[n - 1] \in Pads
      BY <1>3
    <3>2. f[n] = st[<<f[n - 1], n>>]
      BY <1>3 DEF Staged
    <3> QED
      BY <3>1, <3>2
  <2> QED
    BY <2>1, <2>2
<1>5. Rec(f)
  <2>1. f = [n \in 0 .. N |-> f[n]]
    BY <1>3
  <2>2. ASSUME NEW n \in 0 .. N PROVE f[n] = IF n = 0 THEN NoNotes ELSE F!Noted(f[n - 1], es[n])
    BY <1>4
  <2> HIDE DEF st
  <2> QED
    BY <2>1, <2>2
<1>6. F!Notes(es) = CHOOSE g : Rec(g)
  BY DEF F!Notes, NoNotes, Blank
<1> DEFINE note == F!Notes(es)
<1>7. note = [n \in 0 .. N |-> IF n = 0 THEN NoNotes ELSE F!Noted(note[n - 1], es[n])]
  <2>1. Rec(F!Notes(es))
    <3>1. \E g : Rec(g)
      BY <1>5
    <3> HIDE DEF Rec
    <3> QED
      BY <1>6, <3>1
  <2> QED
    BY <2>1
<1> HIDE DEF note, Rec, st
<1>8. note[0] = NoNotes /\ \A n \in 1 .. N : note[n] = F!Noted(note[n - 1], es[n])
  <2>1. ASSUME NEW q, q = [n \in 0 .. N |-> IF n = 0 THEN NoNotes ELSE F!Noted(note[n - 1], es[n])]
        PROVE  q[0] = NoNotes /\ \A n \in 1 .. N : q[n] = F!Noted(note[n - 1], es[n])
    <3>1. 0 \in 0 .. N /\ \A n \in 1 .. N : n \in 0 .. N /\ n # 0
      OBVIOUS
    <3> QED
      BY <2>1, <3>1, Zenon
  <2> QED
    BY <1>7, <2>1
<1> DEFINE Good == {n \in 0 .. N : note[n] \in Pads}
<1>9. \A n \in 0 .. N : n \in Good
  <2>1. 0 \in Good
    BY <1>2, <1>8
  <2>2. ASSUME NEW n \in 1 .. N, n - 1 \in Good PROVE n \in Good
    <3>1. n \in 0 .. N /\ note[n - 1] \in Pads
      BY <2>2
    <3>2. note[n] = F!Noted(note[n - 1], es[n]) /\ es[n].ip \in F!LAN /\ es[n].mac \in Texts
      BY <1>8
    <3>3. F!Noted(note[n - 1], es[n]) \in Pads
      BY <3>1, <3>2, NotedFacts
    <3> QED
      BY <3>1, <3>2, <3>3
  <2> HIDE DEF Good
  <2> QED
    BY <2>1, <2>2, Stepwise
<1> QED
  BY <1>8, <1>9 DEF note

\* What the first entries have said of an IP, and what was made of it.
Said(es, n, ip) == {es[j].mac : j \in {i \in 1 .. n : es[i].ip = ip}} \ {Blank}
Settles(pad, ip, said) ==
  \/ ip \notin pad.doubt /\ pad.m[ip] = Blank /\ said = {}
  \/ ip \notin pad.doubt /\ pad.m[ip] # Blank /\ said = {pad.m[ip]}
  \/ ip \in pad.doubt /\ pad.m[ip] = Blank /\ (\E x, y \in said : x # y)

LEMMA SaidNext ==
  ASSUME NEW es, NEW n \in Nat \ {0}, NEW ip
  PROVE  Said(es, n, ip) = Said(es, n - 1, ip) \cup (IF es[n].ip = ip /\ es[n].mac # Blank THEN {es[n].mac} ELSE {})
<1>1. \A i : i \in 1 .. n <=> i \in 1 .. n - 1 \/ i = n
  OBVIOUS
<1> QED
  BY <1>1, Zenon DEF Said

LEMMA SettlesNext ==
  ASSUME NEW pad \in Pads, NEW e, e.ip \in F!LAN, e.mac \in Texts, NEW ip \in F!LAN, NEW said, Settles(pad, ip, said)
  PROVE  Settles(F!Noted(pad, e), ip, said \cup (IF e.ip = ip /\ e.mac # Blank THEN {e.mac} ELSE {}))
<1> DEFINE next == F!Noted(pad, e)
           old == pad.m[e.ip]
<1>1. /\ e.mac = Blank \/ e.ip \in pad.doubt => next = pad
      /\ e.mac # Blank /\ e.ip \notin pad.doubt =>
           /\ next.m[e.ip] = IF old # Blank /\ old # e.mac THEN Blank ELSE e.mac
           /\ next.doubt = IF old # Blank /\ old # e.mac THEN pad.doubt \cup {e.ip} ELSE pad.doubt
           /\ \A x \in F!LAN : x # e.ip => next.m[x] = pad.m[x]
  BY NotedFacts
<1> HIDE DEF next
<1>2. CASE e.mac = Blank
  BY <1>1, <1>2 DEF Settles, next
<1>3. CASE e.mac # Blank /\ e.ip \in pad.doubt
  BY <1>1, <1>3 DEF Settles, next
<1>4. CASE e.mac # Blank /\ e.ip \notin pad.doubt /\ e.ip # ip
  BY <1>1, <1>4 DEF Settles, next
<1>5. CASE e.mac # Blank /\ e.ip \notin pad.doubt /\ e.ip = ip
  <2>1. CASE old = Blank
    BY <1>1, <1>5, <2>1 DEF Settles, next
  <2>2. CASE old = e.mac
    BY <1>1, <1>5, <2>2 DEF Settles, next
  <2>3. CASE old # Blank /\ old # e.mac
    BY <1>1, <1>5, <2>3 DEF Settles, next
  <2> QED
    BY <2>1, <2>2, <2>3
<1> QED
  BY <1>2, <1>3, <1>4, <1>5

\* After any entries an IP has the one hardware address they gave it, or none.
LEMMA NotesSettle ==
  ASSUME NEW N \in Nat, NEW es, Len(es) = N, \A i \in 1 .. N : es[i].ip \in F!LAN /\ es[i].mac \in Texts, NEW ip \in F!LAN
  PROVE  Settles(F!Notes(es)[N], ip, Said(es, N, ip))
<1> DEFINE note == F!Notes(es)
           Good == {n \in 0 .. N : Settles(note[n], ip, Said(es, n, ip))}
<1>1. /\ note[0] = NoNotes
      /\ \A n \in 1 .. N : note[n] = F!Noted(note[n - 1], es[n])
      /\ \A n \in 0 .. N : note[n] \in Pads
  BY NotesFacts
<1> HIDE DEF note
<1>2. 0 \in Good
  <2>1. Said(es, 0, ip) = {}
    BY DEF Said
  <2>2. NoNotes.m[ip] = Blank /\ NoNotes.doubt = {}
    BY DEF NoNotes
  <2>3. Settles(NoNotes, ip, {})
    BY <2>2 DEF Settles
  <2>4. 0 \in 0 .. N
    OBVIOUS
  <2> HIDE DEF NoNotes
  <2> QED
    BY <1>1, <2>1, <2>3, <2>4, Zenon
<1>3. ASSUME NEW n \in 1 .. N, n - 1 \in Good PROVE n \in Good
  <2>1. n \in Nat \ {0} /\ n \in 0 .. N /\ n - 1 \in 0 .. N /\ Settles(note[n - 1], ip, Said(es, n - 1, ip))
    BY <1>3
  <2> HIDE DEF Good
  <2>2. note[n] = F!Noted(note[n - 1], es[n]) /\ note[n - 1] \in Pads /\ es[n].ip \in F!LAN /\ es[n].mac \in Texts
    BY <1>1, <2>1
  <2>3. Settles(F!Noted(note[n - 1], es[n]), ip, Said(es, n - 1, ip) \cup (IF es[n].ip = ip /\ es[n].mac # Blank THEN {es[n].mac} ELSE {}))
    BY <2>1, <2>2, SettlesNext
  <2> QED
    BY <2>1, <2>2, <2>3, SaidNext DEF Good
<1> HIDE DEF Good
<1>4. N \in Good
  <2>1. \A n \in 0 .. N : n \in Good
    BY <1>2, <1>3, Stepwise
  <2> QED
    BY <2>1
<1> QED
  BY <1>4 DEF Good, note

\* The hardware address that what was said comes to.
LEMMA SettledIs ==
  ASSUME NEW pad, NEW ip, NEW said, Settles(pad, ip, said)
  PROVE  pad.m[ip] = IF \E x \in said : said = {x} THEN CHOOSE x \in said : TRUE ELSE Blank
<1>1. CASE said = {}
  BY <1>1 DEF Settles
<1>2. CASE ip \notin pad.doubt /\ pad.m[ip] # Blank /\ said = {pad.m[ip]}
  <2>1. (CHOOSE x \in said : TRUE) \in said /\ \E x \in said : said = {x}
    BY <1>2
  <2> QED
    BY <1>2, <2>1
<1>3. CASE pad.m[ip] = Blank /\ (\E x, y \in said : x # y)
  <2>1. ~\E x \in said : said = {x}
    BY <1>3
  <2> QED
    BY <1>3, <2>1
<1> QED
  BY <1>1, <1>2, <1>3 DEF Settles

SaidIn(list, ip) == {list[i].mac : i \in {j \in DOMAIN list : list[j].ip = ip}} \ {Blank}
Unambiguous(seen) ==
  \A ip \in F!LAN :
    LET said == SaidIn(seen.list, ip) IN seen.macs[ip] = IF \E x \in said : said = {x} THEN CHOOSE x \in said : TRUE ELSE Blank

LEMMA UnambiguousIs == (F!NeighborIsUnambiguous <=> Unambiguous(neighbors)) /\ (F!NeighborIsUnambiguous' <=> Unambiguous(neighbors'))
BY Zenon DEF F!NeighborIsUnambiguous, Unambiguous, SaidIn, Blank

LEMMA NobodySeen == Unambiguous(F!NoNeighbors)
<1>1. F!NoNeighbors.list = <<>> /\ F!NoNeighbors.macs = [ip \in F!LAN |-> Blank]
  BY DEF F!NoNeighbors, Blank
<1>2. \A ip : SaidIn(<<>>, ip) = {}
  BY DEF SaidIn
<1> QED
  BY <1>1, <1>2 DEF Unambiguous

\* What is made of the ARP cache.
LEMMA LookTraffic == ASSUME F!LookAtNeighbors PROVE F!NeighborIsUnambiguous'
<1>1. PICK n \in 1 .. 4 : \E es \in [1 .. n -> F!Entries] : neighbors' = [list |-> es, macs |-> F!Notes(es)[n].m]
  BY DEF F!LookAtNeighbors
<1> PICK es \in [1 .. n -> F!Entries] : neighbors' = [list |-> es, macs |-> F!Notes(es)[n].m]
  BY <1>1
<1>2. neighbors'.list = es /\ neighbors'.macs = F!Notes(es)[n].m
  BY <1>1
<1>3. n \in Nat /\ DOMAIN es = 1 .. n /\ \A i \in 1 .. n : es[i] \in F!Entries
  BY <1>1
<1>4. Len(es) = n
  BY <1>3, SeqDef, LenProperties
<1>5. \A e \in F!Entries : e.ip \in F!LAN /\ e.mac \in Texts
  <2>1. ASSUME NEW e \in F!Entries PROVE e.ip = "a"
    BY DEF F!Entries
  <2> QED
    BY <2>1 DEF Texts, F!LAN
<1>6. ASSUME NEW ip \in F!LAN
      PROVE  LET said == SaidIn(neighbors'.list, ip)
             IN neighbors'.macs[ip] = IF \E x \in said : said = {x} THEN CHOOSE x \in said : TRUE ELSE Blank
  <2>1. Settles(F!Notes(es)[n], ip, Said(es, n, ip))
    BY <1>3, <1>4, <1>5, NotesSettle
  <2>2. SaidIn(neighbors'.list, ip) = Said(es, n, ip)
    BY <1>2, <1>3 DEF SaidIn, Said
  <2>3. F!Notes(es)[n].m[ip] = IF \E x \in Said(es, n, ip) : Said(es, n, ip) = {x} THEN CHOOSE x \in Said(es, n, ip) : TRUE ELSE Blank
    BY <2>1, SettledIs
  <2> QED
    BY <1>2, <2>2, <2>3
<1>7. Unambiguous(neighbors')
  BY <1>6 DEF Unambiguous
<1> QED
  BY <1>7, UnambiguousIs

Samples == [at : Nat, flows : Snapshots]

LEMMA NoSampleType == F!NoSample \in Samples /\ F!NoSample.flows \in Snapshots
BY DEF F!NoSample, Samples, Snapshots

ReportRight == F!RatesFollowCounts /\ F!ObservedDevicesHaveTraffic /\ F!EgressIsStable

LEMMA NobodyReports == (report = F!NoReport => ReportRight) /\ (report' = F!NoReport => ReportRight')
<1>1. F!NoReport.localRate = 0 /\ DOMAIN F!NoReport.rated = {} /\ DOMAIN F!NoReport.kind = {} /\ DOMAIN F!NoReport.egress = {}
  BY DEF F!NoReport
<1> HIDE DEF F!NoReport
<1>2. ASSUME report = F!NoReport PROVE ReportRight
  BY <1>1, <1>2 DEF ReportRight, F!RatesFollowCounts, F!ObservedDevicesHaveTraffic, F!EgressIsStable
<1>3. ASSUME report' = F!NoReport PROVE ReportRight'
  BY <1>1, <1>3 DEF ReportRight, F!RatesFollowCounts, F!ObservedDevicesHaveTraffic, F!EgressIsStable
<1> QED
  BY <1>2, <1>3

TrafficInv ==
  /\ flows \in Snapshots /\ now \in Nat /\ reader \in [Readers -> Samples] /\ sampler \in Samples
  /\ ReportRight /\ F!NeighborIsUnambiguous

\* A snapshot that stays one when a connection opens, carries a byte or closes.
LEMMA TrafficType ==
  ASSUME flows \in Snapshots, F!Traffic
  PROVE  flows' \in Snapshots
<1> DEFINE Full == [source : STRING, process : BOOLEAN, bytes : Nat, egress : Egresses]
<1>1. Snapshots = [Flows -> {F!NoFlow} \cup Full]
  BY DEF Snapshots
<1>2. PICK k \in Flows :
       \/ \E o \in Openings : flows' = [flows EXCEPT ![k] = [source |-> o.source, process |-> o.process, bytes |-> 1, egress |-> o.egress]]
       \/ flows[k] # F!NoFlow /\ flows' = [flows EXCEPT ![k].bytes = @ + 1]
       \/ flows' = [flows EXCEPT ![k] = F!NoFlow]
  BY DEF F!Traffic
<1>3. CASE \E o \in Openings : flows' = [flows EXCEPT ![k] = [source |-> o.source, process |-> o.process, bytes |-> 1, egress |-> o.egress]]
  <2> PICK o \in Openings : flows' = [flows EXCEPT ![k] = [source |-> o.source, process |-> o.process, bytes |-> 1, egress |-> o.egress]]
    BY <1>3
  <2>1. o \in [source : STRING, process : BOOLEAN, egress : Egresses]
    BY InputAssumption
  <2>2. [source |-> o.source, process |-> o.process, bytes |-> 1, egress |-> o.egress] \in Full
    BY <2>1
  <2> HIDE DEF Full
  <2> QED
    BY <1>1, <2>2
<1>4. CASE flows[k] # F!NoFlow /\ flows' = [flows EXCEPT ![k].bytes = @ + 1]
  <2>1. flows[k] \in Full
    BY <1>1, <1>4
  <2>2. [flows[k] EXCEPT !.bytes = @ + 1] \in Full
    BY <2>1
  <2> HIDE DEF Full
  <2> QED
    BY <1>1, <1>4, <2>2
<1>5. CASE flows' = [flows EXCEPT ![k] = F!NoFlow]
  <2> HIDE DEF Full
  <2> QED
    BY <1>1, <1>5
<1> QED
  BY <1>2, <1>3, <1>4, <1>5

\* The growth of no connection is nothing.
LEMMA NoGrowth == ASSUME NEW s \in Snapshots, NEW before \in Snapshots PROVE F!Growth(s, before, {}) = 0
<1> DEFINE amount == [k \in Flows |-> IF before[k] = F!NoFlow \/ s[k].bytes <= before[k].bytes THEN 0 ELSE s[k].bytes - before[k].bytes]
<1>1. \A k \in Flows : s[k].bytes \in Nat /\ before[k].bytes \in Nat
  BY BytesOf
<1>2. amount \in [Flows -> Nat]
  <2> HIDE DEF Snapshots
  <2> QED
    BY <1>1
<1>3. F!Growth(s, before, {}) = F!Total(amount, {})
  BY DEF F!Growth
<1> HIDE DEF amount
<1> QED
  BY <1>2, <1>3, TotalFacts

Assigned(s, ip) == {k \in F!Live(s) \ F!Local(s) : s[k].source = ip}
RateOf(s, at, ks) == IF F!Comparable(at) THEN F!Growth(s, sampler.flows, ks) ELSE 0

LEMMA AnswerIs ==
  ASSUME NEW r \in Readers, NEW order, F!Answer(r, order)
  PROVE  LET s == reader[r].flows
             at == reader[r].at
             rows == F!Rows(s)
         IN /\ report' = [snapshot |-> s, local |-> F!Local(s), kind |-> [ip \in rows |-> F!Kind(ip)],
                          assigned |-> [ip \in rows |-> Assigned(s, ip)], rated |-> [ip \in rows |-> RateOf(s, at, Assigned(s, ip))],
                          localRate |-> RateOf(s, at, F!Local(s)), egress |-> [ip \in rows |-> F!Primary(s, Assigned(s, ip), order)]]
            /\ sampler' = [at |-> at, flows |-> s] /\ neighbors' = F!NoNeighbors
            /\ reader' = [reader EXCEPT ![r] = F!NoSample] /\ UNCHANGED <<flows, now>>
BY DEF F!Answer, F!RatedLocal, F!Baseline, Assigned, RateOf

\* What is answered: the rates, the rows and the egress of each.
LEMMA AnswerTraffic ==
  ASSUME TrafficInv, NEW r \in Readers, NEW order \in F!SetToSeqs(Egresses), F!Answer(r, order)
  PROVE  TrafficInv'
<1> DEFINE s == reader[r].flows
           at == reader[r].at
           rows == F!Rows(s)
           RateAt(ks) == RateOf(s, at, ks)
<1>1. s \in Snapshots /\ at \in Nat /\ sampler.flows \in Snapshots
  BY DEF TrafficInv, Samples
<1>2. /\ report'.snapshot = s /\ report'.local = F!Local(s) /\ report'.kind = [ip \in rows |-> F!Kind(ip)]
      /\ report'.assigned = [ip \in rows |-> Assigned(s, ip)] /\ report'.rated = [ip \in rows |-> RateOf(s, at, Assigned(s, ip))]
      /\ report'.localRate = RateOf(s, at, F!Local(s)) /\ report'.egress = [ip \in rows |-> F!Primary(s, Assigned(s, ip), order)]
  BY AnswerIs
<1>3. sampler' = [at |-> at, flows |-> s] /\ neighbors' = F!NoNeighbors /\ reader' = [reader EXCEPT ![r] = F!NoSample] /\ UNCHANGED <<flows, now>>
  BY AnswerIs
<1> HIDE DEF s, at, rows
<1>4. RateOf(s, at, {}) = 0
  BY <1>1, NoGrowth DEF RateOf
<1>5. F!RatesFollowCounts'
  <2>1. report'.localRate > 0 => report'.local # {}
    BY <1>2, <1>4
  <2>2. ASSUME NEW ip \in DOMAIN report'.rated, report'.rated[ip] > 0 PROVE report'.assigned[ip] # {}
    BY <1>2, <1>4, <2>2
  <2> QED
    BY <2>1, <2>2 DEF F!RatesFollowCounts
<1>6. F!ObservedDevicesHaveTraffic'
  <2>1. ASSUME NEW ip \in DOMAIN report'.kind, report'.kind[ip] = "observed_traffic" PROVE report'.assigned[ip] # {}
    <3>1. ip \in rows /\ F!Kind(ip) = "observed_traffic"
      BY <1>2, <2>1
    <3>2. ip \notin F!Leased /\ ip \notin F!Named
      BY <3>1 DEF F!Kind
    <3>3. ip \in F!Observed(s)
      BY <3>1, <3>2 DEF F!Rows, rows
    <3>4. PICK k \in F!Live(s) \ F!Local(s) : s[k].source = ip
      BY <3>3 DEF F!Observed, F!NotObserved
    <3>5. report'.assigned[ip] = Assigned(s, ip)
      BY <1>2, <3>1
    <3> QED
      BY <3>4, <3>5 DEF Assigned
  <2> QED
    BY <2>1 DEF F!ObservedDevicesHaveTraffic
<1>7. F!EgressIsStable'
  <2>1. ASSUME NEW ip \in DOMAIN report'.egress,
               NEW e \in {report'.snapshot[k].egress : k \in report'.assigned[ip]} \ {report'.egress[ip]}
        PROVE  Beats(report'.snapshot, report'.assigned[ip], report'.egress[ip], e)
    <3> DEFINE ks == Assigned(s, ip)
               b == F!Primary(s, ks, order)
    <3>1. ip \in rows /\ report'.assigned[ip] = ks /\ report'.egress[ip] = b /\ report'.snapshot = s
      BY <1>2, <2>1
    <3>2. ks \in SUBSET Flows /\ \A k \in ks : s[k] # F!NoFlow
      BY DEF Assigned, F!Live
    <3>3. PICK k \in ks : s[k].egress = e
      BY <2>1, <3>1
    <3>4. e \in Egresses
      <4>1. s[k] \in [source : STRING, process : BOOLEAN, bytes : Nat, egress : Egresses]
        BY <1>1, <3>2, <3>3 DEF Snapshots
      <4> QED
        BY <3>3, <4>1
    <3>5. Used(s, ks, e) /\ e # b
      BY <2>1, <3>1, <3>3 DEF Used
    <3> HIDE DEF ks
    <3>6. Beats(s, ks, b, e)
      BY <1>1, <3>2, <3>4, <3>5, PrimaryBest
    <3> HIDE DEF b
    <3> QED
      BY <3>1, <3>6
  <2> QED
    BY <2>1 DEF F!EgressIsStable, Beats, F!Better
<1>8. reader' \in [Readers -> Samples] /\ sampler' \in Samples
  BY <1>1, <1>3, NoSampleType DEF TrafficInv, Samples
<1>9. F!NeighborIsUnambiguous'
  BY <1>3, NobodySeen, UnambiguousIs
<1> QED
  BY <1>3, <1>5, <1>6, <1>7, <1>8, <1>9 DEF TrafficInv, ReportRight

LEMMA SilentTraffic == ASSUME report' = F!NoReport, neighbors' = F!NoNeighbors PROVE ReportRight' /\ F!NeighborIsUnambiguous'
BY NobodyReports, NobodySeen, UnambiguousIs

LEMMA InitTraffic == F!TrafficInit => TrafficInv
<1> SUFFICES ASSUME F!TrafficInit PROVE TrafficInv
  OBVIOUS
<1>1. flows \in Snapshots /\ now \in Nat /\ reader \in [Readers -> Samples] /\ sampler \in Samples
  BY NoSampleType DEF F!TrafficInit
<1>2. ReportRight /\ F!NeighborIsUnambiguous
  BY NobodyReports, NobodySeen, UnambiguousIs DEF F!TrafficInit
<1> QED
  BY <1>1, <1>2 DEF TrafficInv

\* Every step keeps it, and the baseline of the next rates is a sample somebody took.
LEMMA StepTraffic ==
  TrafficInv /\ [F!TrafficNext]_trafficVars =>
    TrafficInv' /\ (sampler' # sampler => sampler' \in {F!NoSample} \cup {reader[r] : r \in Readers})
<1> SUFFICES ASSUME TrafficInv, [F!TrafficNext]_trafficVars
             PROVE  TrafficInv' /\ (sampler' # sampler => sampler' \in {F!NoSample} \cup {reader[r] : r \in Readers})
  OBVIOUS
<1>1. CASE F!Traffic
  <2>1. UNCHANGED <<now, reader, sampler>> /\ report' = F!NoReport /\ neighbors' = F!NoNeighbors
    BY <1>1 DEF F!Traffic, F!Silent
  <2>2. flows' \in Snapshots
    BY <1>1, TrafficType DEF TrafficInv
  <2> QED
    BY <2>1, <2>2, SilentTraffic DEF TrafficInv
<1>2. CASE F!Clock
  <2>1. UNCHANGED <<flows, reader, sampler>> /\ now' = now + 1 /\ report' = F!NoReport /\ neighbors' = F!NoNeighbors
    BY <1>2 DEF F!Clock, F!Silent
  <2> QED
    BY <2>1, SilentTraffic DEF TrafficInv
<1>3. CASE F!LookAtNeighbors
  <2>1. UNCHANGED <<flows, now, reader, sampler>> /\ report' = F!NoReport
    BY <1>3 DEF F!LookAtNeighbors
  <2> QED
    BY <1>3, <2>1, NobodyReports, LookTraffic DEF TrafficInv
<1>4. ASSUME NEW r \in Readers, F!Sample(r)
      PROVE  TrafficInv' /\ sampler' = sampler
  <2>1. UNCHANGED <<flows, now, sampler>> /\ reader' = [reader EXCEPT ![r] = [at |-> now, flows |-> flows]] /\ report' = F!NoReport /\ neighbors' = F!NoNeighbors
    BY <1>4 DEF F!Sample, F!Silent
  <2>2. [at |-> now, flows |-> flows] \in Samples
    BY DEF TrafficInv, Samples
  <2>3. reader' \in [Readers -> Samples]
    BY <2>1, <2>2 DEF TrafficInv
  <2> QED
    BY <2>1, <2>3, SilentTraffic DEF TrafficInv
<1>5. ASSUME NEW r \in Readers, F!SampleFails(r)
      PROVE  TrafficInv' /\ sampler' = F!NoSample
  <2>1. UNCHANGED <<flows, now, reader>> /\ sampler' = F!NoSample /\ report' = F!NoReport /\ neighbors' = F!NoNeighbors
    BY <1>5 DEF F!SampleFails, F!Silent
  <2> QED
    BY <2>1, SilentTraffic, NoSampleType DEF TrafficInv
<1>6. ASSUME NEW r \in Readers, NEW order \in F!SetToSeqs(Egresses), F!Answer(r, order)
      PROVE  TrafficInv' /\ sampler' = reader[r]
  <2>1. TrafficInv'
    BY <1>6, AnswerTraffic
  <2>2. sampler' = [at |-> reader[r].at, flows |-> reader[r].flows]
    BY <1>6, AnswerIs
  <2>3. reader[r] \in Samples
    BY DEF TrafficInv
  <2> QED
    BY <2>1, <2>2, <2>3 DEF Samples
<1>7. CASE UNCHANGED trafficVars
  <2>1. UNCHANGED <<flows, now, reader, sampler, report, neighbors>>
    BY <1>7 DEF trafficVars
  <2>2. ReportRight' /\ F!NeighborIsUnambiguous'
    BY <2>1, UnambiguousIs DEF TrafficInv, ReportRight, F!RatesFollowCounts, F!ObservedDevicesHaveTraffic, F!EgressIsStable
  <2> QED
    BY <2>1, <2>2 DEF TrafficInv
<1> QED
  BY <1>1, <1>2, <1>3, <1>4, <1>5, <1>6, <1>7 DEF F!TrafficNext, F!Traffic, F!Clock, F!LookAtNeighbors
----------------------------------------------------------------------------
(* The theorems.                                                           *)

PolicyInv == CoreInv /\ ChoicesInv

LEMMA PolicyIsInv == Spec => []PolicyInv
<1>1. Init => PolicyInv
  BY InitCore, InitChoices DEF Init, PolicyInv
<1>2. Next => [PolicyNext]_yvars
  BY DEF Next, PolicyStep, TrafficStep, FilterStep, ScheduleStep
<1>3. UNCHANGED controllers => UNCHANGED yvars
  BY DEF controllers
<1>4. PolicyInv /\ [Next]_controllers => PolicyInv'
  BY <1>2, <1>3, StepCore, StepChoices DEF PolicyInv
<1> QED
  BY <1>1, <1>4, PTL DEF Spec

\* Every request of every address goes where the applied document says, through the
\* first rule that decides it, for any document, any nodes and any choices
\* (compilePolicySet, renderPolicySections).
THEOREM RoutedRight == Spec => []RoutedAsWritten
<1>1. PolicyInv => RoutedAsWritten
  BY RoutedByCompiling DEF PolicyInv
<1> QED
  BY <1>1, PolicyIsInv, PTL

\* Behind DHCP an address has rules only while it is reserved, mihomo is given no
\* target that was not there, and the snapshot describes the run.
THEOREM CompiledSound == Spec => []CompiledIsSound
<1>1. PolicyInv => CompiledIsSound
  BY HeldByCompiling, ExistByCompiling, SnapshotByCompiling DEF PolicyInv, CompiledIsSound
<1> QED
  BY <1>1, PolicyIsInv, PTL

\* A selector that is in force uses what it used last under the same candidates,
\* however often nodes vanish, engines die and launches repeat.
THEOREM ChoicesKept == Spec => []ChoicesSurvive
<1>1. PolicyInv => ChoicesSurvive
  BY SurviveByChoices DEF PolicyInv
<1> QED
  BY <1>1, PolicyIsInv, PTL

AdviceInv == FilterInv /\ ScheduleInv

LEMMA AdviceIsInv == Spec => []AdviceInv
<1>1. Init => AdviceInv
  BY InitFilter, InitSchedule DEF Init, AdviceInv
<1>2. Next => [R!FilterNext]_filterVars /\ [H!ScheduleNext]_scheduleVars
  BY DEF Next, PolicyStep, TrafficStep, FilterStep, ScheduleStep
<1>3. UNCHANGED controllers => UNCHANGED filterVars /\ UNCHANGED scheduleVars
  BY DEF controllers
<1>4. AdviceInv /\ [Next]_controllers => AdviceInv'
  BY <1>2, <1>3, StepFilter, StepSchedule DEF AdviceInv
<1> QED
  BY <1>1, <1>4, PTL DEF Spec

\* A real-IP plan without conflicts gives every domain its real address, in every mode
\* and over any entries (PlanRealIP); the next scan is in the future, on its schedule,
\* with none skipped (NextRun).
THEOREM AdviceRight == Spec => []AdviceIsRight
<1>1. AdviceInv => AdviceIsRight
  BY SundayTwice DEF AdviceInv, AdviceIsRight, FilterInv, ScheduleInv
<1> QED
  BY <1>1, AdviceIsInv, PTL
LEMMA TrafficIsInv == Spec => []TrafficInv
<1>1. Init => TrafficInv
  BY InitTraffic DEF Init
<1>2. Next => [F!TrafficNext]_trafficVars
  BY DEF Next, PolicyStep, TrafficStep, FilterStep, ScheduleStep
<1>3. UNCHANGED controllers => UNCHANGED trafficVars
  BY DEF controllers
<1>4. TrafficInv /\ [Next]_controllers => TrafficInv'
  BY <1>2, <1>3, StepTraffic
<1> QED
  BY <1>1, <1>4, PTL DEF Spec

\* Whatever the connections, the order of a map and the order of the answers: nobody has
\* a rate without a connection, a device known from its traffic has some, the egress and
\* the hardware address shown are the ones there are to show, and the next rates compare
\* with the connections of the moment they are divided by (aggregateDeviceTrafficWithPolicy,
\* annotate, observedLANDevices).
THEOREM TrafficRight == Spec => TrafficAddsUp
<1> DEFINE OneSample == sampler' # sampler => sampler' \in {F!NoSample} \cup {reader[r] : r \in Readers}
           Adds == part = "traffic" => /\ F!RatesFollowCounts /\ F!ObservedDevicesHaveTraffic
                                       /\ F!EgressIsStable /\ F!NeighborIsUnambiguous
<1>1. TrafficInv => Adds
  BY DEF TrafficInv, ReportRight
<1>2. Next => [F!TrafficNext]_trafficVars
  BY DEF Next, PolicyStep, TrafficStep, FilterStep, ScheduleStep
<1>3. UNCHANGED controllers => UNCHANGED trafficVars
  BY DEF controllers
<1>4. TrafficInv /\ [Next]_controllers => [OneSample]_(F!fvars)
  BY <1>2, <1>3, StepTraffic
<1>5. Spec => []Adds
  BY <1>1, TrafficIsInv, PTL
<1>6. Spec => [][OneSample]_(F!fvars)
  BY <1>4, TrafficIsInv, PTL DEF Spec
<1> QED
  BY <1>5, <1>6, PTL DEF TrafficAddsUp, F!BaselineIsOneSample
=============================================================================
