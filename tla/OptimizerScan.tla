--------------------------- MODULE OptimizerScan ---------------------------
(***************************************************************************)
(* One scan of the Cloudflare optimizer (internal/cloudflareopt/probe.go): *)
(* a TCP pass over the sampled addresses, windows of HTTPS checks for each *)
(* target in turn, a bounded queue of downloads, a choice for every        *)
(* target.  The network answers as it likes and the budget may end at any  *)
(* point.  An address is its rank in the order of loss and latency.        *)
(***************************************************************************)
EXTENDS Integers, Sequences, FiniteSets, SequencesExt

CONSTANTS
  Targets,    \* number of enabled targets
  Addrs,      \* number of sampled addresses
  Speeds,     \* measured speeds, 0 for a failed download
  Settings    \* scan settings: [window, downloads, floor]

Ts == 1 .. Targets
As == 1 .. Addrs
Unmeasured == -1

VARIABLES
  phase,    \* tcp, https, download, done or error
  settings,
  coarse,   \* addresses that answered, best first
  start,    \* first address of the HTTPS window
  turn,     \* target whose turn it is in the window
  needed,   \* some target needed this window
  verified, \* addresses each target accepted
  tried,   \* windows tried for each target
  queue,    \* addresses to download from
  speed,    \* what was measured
  cut,      \* history: the outer context ended the downloads
  answer    \* selected address of each target, 0 for none; rejected targets

scvars == <<phase, settings, coarse, start, turn, needed, verified, tried, queue, speed, cut, answer>>

ScanInit ==
  /\ phase = "tcp" /\ settings \in Settings /\ coarse = <<>> /\ start = 0 /\ turn = 1 /\ needed = FALSE
  /\ verified = [t \in Ts |-> <<>>] /\ tried = [t \in Ts |-> 0] /\ queue = <<>>
  /\ speed = [a \in As |-> Unmeasured] /\ cut = FALSE /\ answer = [chosen |-> [t \in Ts |-> 0], rejected |-> {}]

Lesser(a, b) == IF a < b THEN a ELSE b
Greater(a, b) == IF a < b THEN b ELSE a
First(s, n) == SubSeq(s, 1, Lesser(n, Len(s)))
Some(t) == verified[t] # <<>>

\* The addresses of A in the order of their keys, which differ.
Ordered(A, key) == {s \in SetToSeqs(A) : \A i, j \in 1 .. Len(s) : i < j => key[s[i]] < key[s[j]]}
ByRank == [a \in As |-> a]

----------------------------------------------------------------------------
\* probeTCPBatch and the latency and loss limits: whoever answers is kept.
Coarse ==
  /\ phase = "tcp"
  /\ \E answered \in SUBSET As :
       /\ coarse' \in Ordered(answered, ByRank)
       /\ phase' = IF answered = {} THEN "error" ELSE "https"
  /\ UNCHANGED <<settings, start, turn, needed, verified, tried, queue, speed, cut, answer>>

\* requiredHTTPSCandidateCount
Required ==
  IF settings.floor > 0 THEN settings.window
  ELSE Greater(Lesser(Greater(settings.downloads, 3), settings.window), 1)

Window == SubSeq(coarse, start + 1, Lesser(start + settings.window, Len(coarse)))

\* (mutant) A target walks through all its windows before the next begins.
OneAfterTheOther ==
  IF start + settings.window < Len(coarse) /\ Len(verified'[turn]) < Required
  THEN start' = start + settings.window /\ turn' = turn
  ELSE start' = 0 /\ turn' = turn + 1

\* The same window, the next target.
Rotate == start' = start /\ turn' = turn + 1

\* probeHTTPSBatch: a target still short of addresses tries the window.
TryWindow ==
  /\ phase = "https" /\ turn <= Targets /\ start < Len(coarse) /\ Len(verified[turn]) < Required
  /\ \E good \in SUBSET ToSet(Window) : \E s \in Ordered(good, ByRank) :
       verified' = [verified EXCEPT ![turn] = @ \o s]
  /\ tried' = [tried EXCEPT ![turn] = @ + 1] /\ needed' = TRUE /\ Rotate
  /\ UNCHANGED <<phase, settings, coarse, queue, speed, cut, answer>>

SkipTarget ==
  /\ phase = "https" /\ turn <= Targets /\ start < Len(coarse) /\ Len(verified[turn]) >= Required
  /\ turn' = turn + 1
  /\ UNCHANGED <<phase, settings, coarse, start, needed, verified, tried, queue, speed, cut, answer>>

NextWindow ==
  /\ phase = "https" /\ turn > Targets /\ needed /\ start < Len(coarse)
  /\ start' = start + settings.window /\ turn' = 1 /\ needed' = FALSE
  /\ UNCHANGED <<phase, settings, coarse, verified, tried, queue, speed, cut, answer>>

----------------------------------------------------------------------------
Cap == Greater(settings.window, settings.downloads)

\* The places of the verified addresses: a target and a rank.
Places(v) == {p \in Ts \X As : p[2] <= Len(v[p[1]])}

\* The addresses at some places, each where it comes first by the places' numbers.
InOrder(v, places, number) ==
  LET at(p) == v[p[1]][p[2]]
      found == {at(p) : p \in places}
      key   == [a \in found |-> Min({number[p] : p \in {q \in places : at(q) = a}})]
  IN {First(s, Cap) : s \in Ordered(found, key)}

\* initialDownloadIPs: the best of the first target, then of the next.
InitialDownloads(v) ==
  InOrder(v, {p \in Places(v) : p[2] <= settings.downloads}, [p \in Ts \X As |-> Addrs * (p[1] - 1) + p[2]])

\* (mutant) The queue of the first targets serves the floor too.
TargetByTarget(v) == InitialDownloads(v)

\* orderedDownloadIPs: the best of every target, then the second bests.
OrderedDownloads(v) == InOrder(v, Places(v), [p \in Ts \X As |-> Targets * (p[2] - 1) + p[1]])

\* The queue of probeDownloadCandidates.
Queues(v) ==
  IF settings.downloads = 0 THEN {<<>>} ELSE IF settings.floor > 0 THEN OrderedDownloads(v) ELSE InitialDownloads(v)

\* The windows are through, or the budget is: what was verified is ordered
\* again, by loss and the time to the first byte, and cut to a window.
RankVerified ==
  /\ phase = "https"
  /\ \E order \in [Ts -> UNION {SetToSeqs(ToSet(verified[t])) : t \in Ts}] :
       /\ \A t \in Ts : order[t] \in SetToSeqs(ToSet(verified[t]))
       /\ verified' = [t \in Ts |-> First(order[t], settings.window)]
       /\ queue' \in Queues(verified')
       /\ phase' = IF \A t \in Ts : verified'[t] = <<>> THEN "error" ELSE "download"
  /\ UNCHANGED <<settings, coarse, start, turn, needed, tried, speed, cut, answer>>

Measured == {a \in As : speed[a] # Unmeasured}

\* (mutant) One target with a fast enough address is enough.
AnyMeets == \E t \in Ts : Some(t) /\ \E a \in ToSet(verified[t]) \cap Measured : speed[a] >= settings.floor

\* allVerifiedTargetsMeetMinimumDownload
AllMeet ==
  /\ \E t \in Ts : Some(t)
  /\ \A t \in Ts : Some(t) => \E a \in ToSet(verified[t]) \cap Measured : speed[a] >= settings.floor

\* The walk may end before the queue does: the first set is through and the
\* floor is met.
Enough == settings.floor > 0 /\ Cardinality(Measured) >= Lesser(settings.downloads, Cap) /\ AllMeet

\* probeDownload of the next address.
Download ==
  /\ phase = "download" /\ ~cut /\ ~Enough
  /\ queue # <<>> /\ \E s \in Speeds : speed' = [speed EXCEPT ![Head(queue)] = s]
  /\ queue' = Tail(queue)
  /\ UNCHANGED <<phase, settings, coarse, start, turn, needed, verified, tried, cut, answer>>

\* The outer context ends.
ContextEnds ==
  /\ phase = "download" /\ ~cut /\ cut' = TRUE
  /\ UNCHANGED <<phase, settings, coarse, start, turn, needed, verified, tried, queue, speed, answer>>

\* buildCandidateResults: what was not measured counts as 0.
Mbps(a) == IF speed[a] = Unmeasured THEN 0 ELSE speed[a]

\* filterByMinimumDownload
Usable(t) == {a \in ToSet(verified[t]) : Mbps(a) >= settings.floor}

\* (mutant) The speed is not looked at.
LeastLoss(a, b) == a < b

\* candidateBetter
Better(a, b) == Mbps(a) > Mbps(b) \/ (Mbps(a) = Mbps(b) /\ a < b)

Choose ==
  /\ phase = "download" /\ (cut \/ queue = <<>> \/ Enough)
  /\ LET got == {t \in Ts : Some(t) /\ Usable(t) # {}}
         bad == {t \in Ts : Some(t) /\ Usable(t) = {} /\ settings.floor > 0}
     IN /\ answer' = [chosen |-> [t \in Ts |-> IF t \in got THEN CHOOSE a \in Usable(t) : \A b \in Usable(t) \ {a} : Better(a, b) ELSE 0],
                      rejected |-> bad]
        /\ phase' = IF got = {} /\ bad = {} THEN "error" ELSE "done"
  /\ UNCHANGED <<settings, coarse, start, turn, needed, verified, tried, queue, speed, cut>>

ScanNext == Coarse \/ TryWindow \/ SkipTarget \/ NextWindow \/ RankVerified \/ Download \/ ContextEnds \/ Choose

----------------------------------------------------------------------------
(* Properties.                                                             *)

ScanTypeOK ==
  /\ phase \in {"tcp", "https", "download", "done", "error"} /\ start \in 0 .. Addrs + settings.window
  /\ turn \in 1 .. Targets + 1 /\ ToSet(queue) \subseteq ToSet(coarse) /\ \A t \in Ts : ToSet(verified[t]) \subseteq As
  /\ answer.chosen \in [Ts -> 0 .. Addrs] /\ answer.rejected \subseteq Ts

\* "Windows are rotated across targets so one difficult hostname cannot consume
\* the whole scan budget before the others get a chance" (probe.go:336):
\* whenever the budget ends, no target lags two windows behind another it could
\* have had.
WindowsAreShared ==
  phase = "https" => \A t, u \in Ts : Len(verified[t]) < Required => tried[u] <= tried[t] + 1

\* With a floor, the queue is shared: as long as it has room for everyone, no
\* verified target is refused without one of its addresses having been measured.
EveryTargetMeasured ==
  phase = "done" /\ ~cut /\ settings.floor > 0 /\ settings.downloads > 0 /\ Cap >= Targets =>
    \A t \in answer.rejected : ToSet(verified[t]) \cap Measured # {}

\* No slower address is preferred, and every target that was verified is told
\* from those the budget left out: chosen, or rejected for the floor.
EveryVerifiedDecided ==
  phase = "done" => \A t \in Ts : Some(t) =>
    IF answer.chosen[t] = 0 THEN t \in answer.rejected
    ELSE \A a \in ToSet(verified[t]) \cap Measured : speed[a] <= Mbps(answer.chosen[t])

\* The walk ends early only when everyone has a fast enough address.
EarlyEndIsJustified == phase = "done" /\ ~cut /\ queue # <<>> => answer.rejected = {}
=============================================================================
