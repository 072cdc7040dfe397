---------------------------- MODULE RealIPFilter ----------------------------
(***************************************************************************)
(* What the fake-IP filter needs so that the Cloudflare optimizer's        *)
(* domains get real addresses (internal/cloudflareopt/filter.go).          *)
(***************************************************************************)
EXTENDS SequencesExt, Naturals

CONSTANTS
  Names,      \* domains, as sequences of labels
  FilterEntries,    \* what a filter may hold: [rule, kind, base, action]
  MaxEntries

NoPlan == [append |-> <<>>, prepend |-> <<>>, covered |-> {}, conflicts |-> {}]

VARIABLES
  filter,   \* fake-ip-filter-mode and fake-ip-filter
  wished,   \* the domains of the optimizer
  advice    \* the last RealIPPlan, when nothing has changed since

rvars == <<filter, wished, advice>>

FilterInit ==
  /\ filter \in [mode : {"blacklist", "whitelist", "rule"}, entries : {<<>>}] /\ wished = {} /\ advice = NoPlan

----------------------------------------------------------------------------
(* PlanRealIP                                                              *)

\* parseRuleMatch: the kinds of rules that the planner knows.
RuleMatches(e, d) ==
  /\ e.rule
  /\ \/ e.kind = "exact" /\ d = e.base
     \/ e.kind = "suffix" /\ IsSuffix(e.base, d)
     \/ e.kind = "keyword" /\ Range(e.base) \subseteq Range(d)
     \/ e.kind = "match"

\* (mutant) A star stands for any number of labels.
AnyDepth(e, d) ==
  \/ RuleMatches(e, d)
  \/ /\ ~e.rule
     /\ \/ e.kind = "exact" /\ d = e.base
        \/ e.kind \in {"suffix", "dot", "star"} /\ IsSuffix(e.base, d)

\* filterPatternMatches: a rule may stand in a list, too; any other text is a name.
PatternMatches(e, d) ==
  \/ RuleMatches(e, d)
  \/ /\ ~e.rule
     /\ \/ e.kind = "exact" /\ d = e.base
        \/ e.kind \in {"suffix", "dot"} /\ IsSuffix(e.base, d)
        \/ e.kind = "star" /\ IsSuffix(e.base, d) /\ Len(d) = Len(e.base) + 1

\* Whether an entry decides, as the planner sees it.
Seen(e, d) == IF filter.mode = "rule" THEN RuleMatches(e, d) ELSE PatternMatches(e, d)

\* firstRuleAction
FirstHit(d) == SelectInSeq(filter.entries, LAMBDA e : Seen(e, d))
Action(d) == IF FirstHit(d) = 0 THEN "none" ELSE filter.entries[FirstHit(d)].action

Missing == {d \in wished : FirstHit(d) = 0}
Undecided == {d \in wished : Action(d) \notin {"real-ip", "fake-ip"}}

PlanRealIP ==
  CASE filter.mode = "blacklist" -> [NoPlan EXCEPT !.append = SetToSeq(Missing), !.covered = wished \ Missing]
    [] filter.mode = "whitelist" -> [NoPlan EXCEPT !.covered = Missing, !.conflicts = wished \ Missing]
    [] filter.mode = "rule" -> [append |-> <<>>, prepend |-> SetToSeq(Undecided), covered |-> {d \in wished : Action(d) = "real-ip"},
                                conflicts |-> {d \in wished : Action(d) = "fake-ip"}]

\* The domain itself, or in a filter of rules a rule for it.
Exactly(d) == [rule |-> filter.mode = "rule", kind |-> "exact", base |-> d, action |-> "real-ip"]
Exacts(s) == [i \in DOMAIN s |-> Exactly(s[i])]

\* (mutant) New rules go to the end, too.
AtTheEnd(p) == filter.entries \o Exacts(p.prepend) \o Exacts(p.append)

Applied(p) == Exacts(p.prepend) \o filter.entries \o Exacts(p.append)

\* ApplyResultsToProfile refuses the whole profile for one conflict.
Plan ==
  /\ wished # {} /\ Len(filter.entries) <= MaxEntries + Cardinality(Names)
  /\ advice' = PlanRealIP
  /\ filter' = IF PlanRealIP.conflicts = {} THEN [filter EXCEPT !.entries = Applied(PlanRealIP)] ELSE filter
  /\ UNCHANGED wished

\* The user changes the filter, or what is to be optimized.
EditFilter ==
  /\ Len(filter.entries) < MaxEntries /\ advice' = NoPlan
  /\ \E e \in FilterEntries :
       /\ IF filter.mode = "rule" THEN e.rule ELSE e.action = ""
       /\ filter' = [filter EXCEPT !.entries = Append(@, e)]
  /\ UNCHANGED wished

Wish ==
  /\ wished' \in SUBSET Names /\ advice' = NoPlan
  /\ UNCHANGED filter

FilterNext == Plan \/ EditFilter \/ Wish

----------------------------------------------------------------------------
(* Properties.                                                             *)

\* What mihomo makes of an entry (docs/HOSTS_OVERLAY.md:40 for the wildcards): a leading
\* dot does not stand for the domain itself, a set is for mihomo to know (here: all
\* below its base), and a rule is none in a list of patterns.
Hits(e, d) ==
  /\ e.rule => filter.mode = "rule"
  /\ \/ e.kind = "exact" /\ d = e.base
     \/ e.kind \in {"suffix", "set"} /\ IsSuffix(e.base, d)
     \/ ~e.rule /\ e.kind = "dot" /\ IsSuffix(e.base, d) /\ d # e.base
     \/ ~e.rule /\ e.kind = "star" /\ IsSuffix(e.base, d) /\ Len(d) = Len(e.base) + 1
     \/ e.rule /\ e.kind = "keyword" /\ Range(e.base) \subseteq Range(d)
     \/ e.rule /\ e.kind = "match"

Decisive(d) == SelectInSeq(filter.entries, LAMBDA e : Hits(e, d))
Real(d) ==
  LET i == Decisive(d)
  IN CASE filter.mode = "blacklist" -> i # 0
       [] filter.mode = "whitelist" -> i = 0
       [] filter.mode = "rule" -> i # 0 /\ filter.entries[i].action = "real-ip"

\* What planner and mihomo are known to read in two ways: a leading dot and the domain
\* itself, a rule in a list, and a set, which does no harm to a blacklist.
Disputed(e, d) ==
  \/ ~e.rule /\ e.kind = "dot" /\ d = e.base
  \/ e.rule /\ filter.mode # "rule" /\ Seen(e, d)
  \/ e.kind = "set" /\ filter.mode # "blacklist" /\ IsSuffix(e.base, d)

\* The planner meets such an entry on its way to the one that decides.
InDispute(d) ==
  \E i \in DOMAIN filter.entries : /\ FirstHit(d) = 0 \/ i <= FirstHit(d)
                                 /\ Disputed(filter.entries[i], d)

\* A plan without conflicts gives every domain its real address, whatever the
\* user's own entries cover and in whatever order they stand; and a domain is
\* reported as a conflict only if it has none.  Of a domain in dispute it says
\* nothing: see CoverageIsReal.
PlanSuffices ==
  advice # NoPlan => \A d \in wished :
    ~InDispute(d) => IF advice.conflicts = {} THEN Real(d) ELSE (d \in advice.conflicts => ~Real(d))

(* What the repository says and the code does not keep.                    *)

\* "Existing wildcard coverage is reused", and nothing is done silently "that cannot
\* take effect" (cloudflare-hosts-optimizer.md:65): what a plan without conflicts
\* takes for covered by a wildcard gets its real address.
CoverageIsReal == advice.conflicts = {} => \A d \in advice.covered : Real(d)
=============================================================================
