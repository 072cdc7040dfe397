----------------------- MODULE LayersAndScanProofs -----------------------
(***************************************************************************)
(* The two controllers whose state is sequences: the layers of the profile *)
(* and a scan of the optimizer.  An inductive invariant for each, and what *)
(* then holds of all eleven controllers together.                          *)
(***************************************************************************)
EXTENDS ControlPlaneProofs, SequenceTheorems, WellFoundedInduction

----------------------------------------------------------------------------
(* The layers of the profile.                                             *)
LEMMA LAssumption == Raws # {} /\ HostFiles # {}
BY ControlAssumption

Files  == HostFiles \cup {""}
Items  == {"raw", "overlay", "hosts", "optimizer"} \X (Raws \cup Files \cup {"managed", "0", "1", "2", "ip", "?"})
Bodies == Seq(Items)
Docs    == [on : BOOLEAN, n : {"0", "1", "2"}, legacy : Files]
Choices == [on : BOOLEAN, last : Files, failed : BOOLEAN]
Tasks   == [pc : {"rest", "migrate", "layer", "reconcile", "record", "failed"}, value : Choices, before : Choices,
            file : Files, was : Files, doc : Docs]
Members(b) == {b[i] : i \in 1 .. Len(b)}

\* What a profile may be composed of: one raw profile and no overlay.
IsSource(s) == s \in Bodies /\ s # L!None /\ L!AtMostOne(s, "raw") /\ L!Kinds(s, "overlay") = {}

\* A profile composed of source s, with or without an overlay.
Composes(b, s, overlaid) ==
  /\ b \in Bodies /\ L!AtMostOne(b, "raw") /\ L!AtMostOne(b, "overlay")
  /\ L!Kinds(b, "overlay") # {} <=> overlaid
  /\ Len(s) <= Len(b) /\ \A i \in 1 .. Len(s) : b[i] = s[i]

Confs == [mode : {"managed", "imported"}, body : Bodies, source : Bodies, overlay : Docs]

LayerTypes ==
  /\ conf \in Confs
  /\ library \subseteq {L!Raw(r) : r \in Raws} /\ overlay \in Docs /\ hosts \in Choices
  /\ layer \in Files /\ mapped \in Files /\ found \in {"", "ip"}
  /\ syncer \in [L!Syncers -> Tasks] /\ fresh \in BOOLEAN /\ mixed \in BOOLEAN

\* The recorded digests are those of what the profile was composed of.
ConfInv ==
  /\ conf.mode = "managed" => conf.body = L!None /\ conf.source = L!None /\ conf.overlay = L!Plain
  /\ conf.mode = "imported" => IsSource(conf.source) /\ Composes(conf.body, conf.source, conf.overlay # L!Plain)

\* What policy-workspace/base.json names may be composed anew, and the engine has
\* the profile of the configuration.
ProfileInv ==
  /\ ConfInv
  /\ base.source # L!None => IsSource(base.source)
  /\ L!Running => engine = L!Body(conf)

\* Composing the profile anew would change nothing.
Settled == ~L!Authoritative /\ L!HostsLayer # "?" => \A s \in L!RawSource : conf = L!Wanted(s)

SettledInv == fresh /\ ~mixed /\ ~L!Busy /\ L!Running => Settled

\* As long as the synchronisations took turns, what the one under way has done.
TurnOf(s) ==
  LET t == syncer[s] IN
    /\ \A u \in L!Syncers : t.pc # "rest" /\ syncer[u].pc # "rest" => u = s
    /\ t.pc # "rest" => (hosts.on <=> t.value.on)
    /\ t.pc = "layer" => t.value.on /\ t.file # ""
    /\ t.pc \in {"reconcile", "record"} /\ t.value.on => layer = t.file /\ t.file # ""
    /\ t.pc = "record" => (L!Running => Settled) /\ (t.value.on => L!Layer("hosts", t.file) \in Members(conf.body))

SyncInv == ~mixed => \A s \in L!Syncers : TurnOf(s)

LayersInv == LayerTypes /\ ProfileInv /\ SettledInv /\ SyncInv

LEMMA LayerFacts ==
  /\ L!Plain \in Docs /\ L!Off \in Choices /\ L!Idler \in Tasks /\ L!Idler.pc = "rest" /\ L!None \in Bodies
  /\ \A r \in Raws \cup {"managed"} : L!Raw(r) \in Bodies /\ IsSource(L!Raw(r))
<1>1. L!Plain \in Docs /\ L!Off \in Choices
  BY DEF L!Plain, Docs, L!Off, Choices, Files
<1>2. L!Idler \in Tasks /\ L!Idler.pc = "rest"
  BY <1>1 DEF L!Idler, Tasks, Files
<1>3. L!None \in Bodies
  BY EmptySeq DEF L!None, Bodies
<1>4. ASSUME NEW r \in Raws \cup {"managed"} PROVE L!Raw(r) \in Bodies /\ IsSource(L!Raw(r))
  <2>1. <<"raw", r>> \in Items
    BY DEF Items
  <2>2. L!Raw(r) \in Seq(Items) /\ Len(L!Raw(r)) = 1 /\ L!Raw(r)[1] = <<"raw", r>>
    BY <2>1 DEF L!Raw, L!Layer
  <2>3. L!Raw(r)[1][1] = "raw"
    BY <2>2
  <2>4. L!Raw(r) # L!None
    BY <2>2 DEF L!None
  <2>5. L!AtMostOne(L!Raw(r), "raw")
    BY <2>2 DEF L!AtMostOne, L!Kinds
  <2>6. L!Kinds(L!Raw(r), "overlay") = {}
    BY <2>2, <2>3 DEF L!Kinds
  <2> QED
    BY <2>2, <2>4, <2>5, <2>6 DEF IsSource, Bodies
<1> QED
  BY <1>1, <1>2, <1>3, <1>4

\* One layer more.
LEMMA OneLayerMore ==
  ASSUME NEW b \in Bodies, NEW kind \in {"raw", "overlay", "hosts", "optimizer"}, NEW v, L!Layer(kind, v) \in Items
  PROVE  LET c == Append(b, L!Layer(kind, v)) IN
         /\ c \in Bodies /\ Len(c) = Len(b) + 1 /\ Len(b) \in Nat
         /\ \A i \in 1 .. Len(b) : c[i] = b[i]
         /\ L!Kinds(c, kind) = L!Kinds(b, kind) \cup {Len(b) + 1}
         /\ \A k : k # kind => L!Kinds(c, k) = L!Kinds(b, k)
         /\ Members(c) = Members(b) \cup {L!Layer(kind, v)}
<1> DEFINE x == L!Layer(kind, v)
           c == Append(b, x)
<1>1. /\ c \in Seq(Items) /\ Len(c) = Len(b) + 1 /\ c[Len(b) + 1] = x /\ Len(b) \in Nat
      /\ \A i \in 1 .. Len(b) : c[i] = b[i]
  BY AppendProperties, LenProperties DEF Bodies
<1>2. x[1] = kind
  BY DEF L!Layer
<1> HIDE DEF x, c
<1>3. L!Kinds(c, kind) = L!Kinds(b, kind) \cup {Len(b) + 1}
  BY <1>1, <1>2 DEF L!Kinds
<1>4. ASSUME NEW k, k # kind PROVE L!Kinds(c, k) = L!Kinds(b, k)
  BY <1>1, <1>2, <1>4 DEF L!Kinds
<1>5. Members(c) = Members(b) \cup {x}
  BY <1>1 DEF Members
<1> QED
  BY <1>1, <1>3, <1>4, <1>5 DEF c, x, Bodies

LEMMA SourceComposes == ASSUME NEW s, IsSource(s) PROVE Composes(s, s, FALSE)
<1>1. s \in Bodies /\ Len(s) \in Nat
  BY LenProperties DEF IsSource, Bodies
<1>2. L!AtMostOne(s, "overlay")
  BY DEF IsSource, L!AtMostOne
<1> QED
  BY <1>1, <1>2 DEF IsSource, Composes

LEMMA ComposedIsSource ==
  ASSUME NEW s, IsSource(s), NEW b, Composes(b, s, FALSE)
  PROVE  IsSource(b)
<1>1. Len(s) \in Nat /\ Len(s) # 0
  BY EmptySeq DEF IsSource, Bodies, L!None
<1>2. b # L!None
  BY <1>1 DEF Composes, L!None
<1> QED
  BY <1>2 DEF IsSource, Composes

LEMMA OverlayAdded ==
  ASSUME NEW s, IsSource(s), NEW b, Composes(b, s, FALSE), NEW n \in {"0", "1", "2"}
  PROVE  Composes(Append(b, L!Layer("overlay", n)), s, TRUE)
<1> DEFINE c == Append(b, L!Layer("overlay", n))
<1>1. L!Layer("overlay", n) \in Items
  BY DEF L!Layer, Items
<1>2. b \in Bodies /\ Len(s) \in Nat
  BY LenProperties DEF Composes, IsSource, Bodies
<1>3. /\ c \in Bodies /\ Len(c) = Len(b) + 1 /\ Len(b) \in Nat
      /\ \A i \in 1 .. Len(b) : c[i] = b[i]
      /\ L!Kinds(c, "overlay") = L!Kinds(b, "overlay") \cup {Len(b) + 1}
      /\ L!Kinds(c, "raw") = L!Kinds(b, "raw")
  BY <1>1, <1>2, OneLayerMore
<1> HIDE DEF c
<1>4. L!AtMostOne(c, "raw")
  BY <1>3 DEF L!AtMostOne, Composes
<1>5. L!AtMostOne(c, "overlay") /\ L!Kinds(c, "overlay") # {}
  BY <1>3 DEF L!AtMostOne, Composes
<1>6. Len(s) <= Len(c) /\ \A i \in 1 .. Len(s) : c[i] = s[i]
  BY <1>2, <1>3 DEF Composes
<1> QED
  BY <1>3, <1>4, <1>5, <1>6 DEF Composes, c

LEMMA PatchAdded ==
  ASSUME NEW s, IsSource(s), NEW b, NEW o \in BOOLEAN, Composes(b, s, o), NEW kind \in {"hosts", "optimizer"}, NEW v,
         L!Layer(kind, v) \in Items
  PROVE  Composes(Append(b, L!Layer(kind, v)), s, o) /\ Composes(L!Put(b, kind, v), s, o)
<1> DEFINE c == Append(b, L!Layer(kind, v))
<1>2. b \in Bodies /\ Len(s) \in Nat
  BY LenProperties DEF Composes, IsSource, Bodies
<1>3. /\ c \in Bodies /\ Len(c) = Len(b) + 1 /\ Len(b) \in Nat
      /\ \A i \in 1 .. Len(b) : c[i] = b[i]
      /\ L!Kinds(c, "overlay") = L!Kinds(b, "overlay")
      /\ L!Kinds(c, "raw") = L!Kinds(b, "raw")
  BY <1>2, OneLayerMore
<1>4. L!Put(b, kind, v) \in {b, c}
  BY DEF L!Put
<1> HIDE DEF c
<1>5. L!AtMostOne(c, "raw") /\ L!AtMostOne(c, "overlay")
  BY <1>3 DEF L!AtMostOne, Composes
<1>6. Len(s) <= Len(c) /\ \A i \in 1 .. Len(s) : c[i] = s[i]
  BY <1>2, <1>3 DEF Composes
<1>7. Composes(c, s, o)
  BY <1>3, <1>5, <1>6 DEF Composes
<1> QED
  BY <1>4, <1>7 DEF c

\* What has been put in is in, and what was in stays.
LEMMA PutIsIn ==
  ASSUME NEW b \in Bodies, NEW kind \in {"hosts", "optimizer"}, NEW v, L!Layer(kind, v) \in Items
  PROVE  /\ L!Put(b, kind, v) \in Bodies /\ Members(b) \subseteq Members(L!Put(b, kind, v))
         /\ v # "" => L!Layer(kind, v) \in Members(L!Put(b, kind, v))
<1>1. CASE v = "" \/ L!Layer(kind, v) \in Members(b)
  BY <1>1 DEF L!Put, Members
<1>2. CASE ~(v = "" \/ L!Layer(kind, v) \in Members(b))
  <2>1. L!Put(b, kind, v) = Append(b, L!Layer(kind, v))
    BY <1>2 DEF L!Put, Members
  <2> DEFINE c == Append(b, L!Layer(kind, v))
  <2>2. c \in Bodies /\ Members(c) = Members(b) \cup {L!Layer(kind, v)}
    BY OneLayerMore
  <2> QED
    BY <2>1, <2>2
<1> QED
  BY <1>1, <1>2

LEMMA ComposedFacts ==
  ASSUME NEW s, IsSource(s), NEW doc \in Docs, NEW d \in BOOLEAN
  PROVE  Composes(L!Composed(s, doc, d), s, doc.on) /\ L!Composed(s, doc, d) \in Bodies
<1> DEFINE o == IF doc.on THEN Append(s, L!Layer("overlay", doc.n)) ELSE s
           h == IF doc.on /\ ~d /\ doc.legacy # "" THEN Append(o, L!Layer("hosts", doc.legacy)) ELSE o
<1>1. doc.on \in BOOLEAN /\ doc.n \in {"0", "1", "2"} /\ doc.legacy \in Files
  BY DEF Docs
<1>2. L!Layer("overlay", doc.n) \in Items /\ L!Layer("hosts", doc.legacy) \in Items
  BY <1>1 DEF L!Layer, Items
<1>3. Composes(s, s, FALSE) /\ s \in Bodies
  BY SourceComposes DEF IsSource
<1>4. Composes(o, s, doc.on)
  BY <1>1, <1>3, OverlayAdded
<1>5. Composes(h, s, doc.on)
  <2>1. Composes(Append(o, L!Layer("hosts", doc.legacy)), s, doc.on)
    BY <1>1, <1>2, <1>4, PatchAdded
  <2> QED
    BY <1>4, <2>1
<1>6. o \in Bodies /\ h \in Bodies
  BY <1>4, <1>5 DEF Composes
<1>7. s \o L!When(doc.on, <<L!Layer("overlay", doc.n)>>) = o
  BY <1>2, <1>3, AppendIsConcat, ConcatEmptySeq DEF L!When, L!None, Bodies
<1>8. o \o L!When(doc.on /\ ~d /\ doc.legacy # "", <<L!Layer("hosts", doc.legacy)>>) = h
  BY <1>2, <1>6, AppendIsConcat, ConcatEmptySeq DEF L!When, L!None, Bodies
<1>9. L!Composed(s, doc, d) = h
  BY <1>7, <1>8 DEF L!Composed
<1> QED
  BY <1>5, <1>6, <1>9

----------------------------------------------------------------------------
(* Composing the profile anew.                                             *)

LEMMA LayerOfHosts == ASSUME LayerTypes PROVE L!HostsLayer \in Files \cup {"?"} /\ L!Layer("hosts", L!HostsLayer) \in Items
<1>1. L!HostsLayer \in Files \cup {"?"}
  BY DEF L!HostsLayer, LayerTypes, Docs, Files
<1> QED
  BY <1>1 DEF L!Layer, Items

LEMMA EffectiveFacts == ASSUME LayerTypes PROVE L!EffectiveOverlay \in Docs /\ (L!EffectiveOverlay # L!Plain <=> overlay.on)
<1>1. overlay \in Docs /\ overlay.on \in BOOLEAN /\ L!Plain.on = FALSE /\ L!Plain \in Docs
  BY LayerFacts DEF LayerTypes, Docs, L!Plain
<1> QED
  BY <1>1 DEF L!EffectiveOverlay

LEMMA WantedFacts ==
  ASSUME LayerTypes, NEW s, IsSource(s)
  PROVE  /\ L!Wanted(s) \in Confs
         /\ L!Wanted(s).mode = "imported" /\ L!Wanted(s).source = s
         /\ Composes(L!Wanted(s).body, s, L!Wanted(s).overlay # L!Plain)
         /\ L!HostsLayer # "" => L!Layer("hosts", L!HostsLayer) \in Members(L!Wanted(s).body)
<1> DEFINE b0 == L!Composed(s, overlay, TRUE)
           b1 == L!Put(b0, "hosts", L!HostsLayer)
           b2 == L!Put(b1, "optimizer", found)
<1>1. Composes(b0, s, overlay.on) /\ b0 \in Bodies /\ overlay.on \in BOOLEAN
  BY ComposedFacts DEF LayerTypes, Docs
<1>2. L!Layer("hosts", L!HostsLayer) \in Items /\ L!Layer("optimizer", found) \in Items
  BY LayerOfHosts DEF LayerTypes, L!Layer, Items, Files
<1> HIDE DEF b0
<1>3. Composes(b1, s, overlay.on) /\ b1 \in Bodies /\ (L!HostsLayer # "" => L!Layer("hosts", L!HostsLayer) \in Members(b1))
  BY <1>1, <1>2, PatchAdded, PutIsIn
<1> HIDE DEF b1
<1>4. Composes(b2, s, overlay.on) /\ b2 \in Bodies /\ Members(b1) \subseteq Members(b2)
  BY <1>1, <1>2, <1>3, PatchAdded, PutIsIn
<1> HIDE DEF b2
<1>5. L!Wanted(s) = [mode |-> "imported", source |-> s, overlay |-> L!EffectiveOverlay, body |-> b2]
  BY DEF L!Wanted, b0, b1, b2
<1>6. s \in Bodies
  BY DEF IsSource
<1>7. L!EffectiveOverlay \in Docs /\ (overlay.on <=> L!EffectiveOverlay # L!Plain)
  BY EffectiveFacts
<1>8. /\ L!Wanted(s).mode = "imported" /\ L!Wanted(s).source = s /\ L!Wanted(s).overlay = L!EffectiveOverlay
      /\ L!Wanted(s).body = b2
  BY <1>5
<1>9. L!Wanted(s) \in Confs
  BY <1>4, <1>5, <1>6, <1>7 DEF Confs
<1>10. Composes(b2, s, L!EffectiveOverlay # L!Plain)
  <2>1. overlay.on = (L!EffectiveOverlay # L!Plain)
    BY <1>1, <1>7
  <2> QED
    BY <1>4, <2>1
<1> QED
  BY <1>3, <1>4, <1>8, <1>9, <1>10

LEMMA RawSourceFacts ==
  ASSUME LayerTypes, ProfileInv
  PROVE  /\ \A s \in L!RawSource : IsSource(s) /\ L!RawSource = {s}
         /\ conf.mode = "imported" => L!RawSource \subseteq {conf.source}
<1>1. CASE conf.mode = "managed"
  BY <1>1, LayerFacts DEF L!RawSource, L!Managed
<1>2. CASE conf.mode = "imported"
  <2>1. IsSource(conf.source) /\ conf.source # L!None
    BY <1>2 DEF ProfileInv, ConfInv, IsSource
  <2>2. L!CurrentBody \subseteq {conf.source}
    BY <2>1 DEF L!CurrentBody
  <2>3. L!RawSource \subseteq {conf.source}
    BY <1>2, <2>2 DEF L!RawSource
  <2> QED
    BY <1>2, <2>1, <2>3
<1> QED
  BY <1>1, <1>2 DEF LayerTypes, Confs

LEMMA CandidateFacts ==
  ASSUME LayerTypes, ProfileInv, ~L!Failing
  PROVE  \/ L!Authoritative /\ L!Candidate = conf
         \/ ~L!Authoritative /\ \E s \in L!RawSource : L!Candidate = L!Wanted(s)
<1>1. CASE L!Authoritative
  <2>1. L!Candidate = conf
    BY <1>1, Zenon DEF L!Candidate
  <2> QED
    BY <1>1, <2>1
<1>2. CASE ~L!Authoritative
  <2>1. L!RawSource # {}
    BY <1>2 DEF L!Failing
  <2> DEFINE s == CHOOSE x \in L!RawSource : TRUE
  <2>2. s \in L!RawSource
    BY <2>1
  <2> HIDE DEF s
  <2>3. L!Candidate = L!Wanted(s)
    BY <1>2 DEF L!Candidate, L!UpToDate, s
  <2> QED
    BY <1>2, <2>2, <2>3
<1> QED
  BY <1>1, <1>2

\* A reconciliation leaves nothing to be reconciled.
LEMMA Reconciles ==
  ASSUME LayerTypes, ProfileInv, ~L!Failing, conf' = L!Candidate, UNCHANGED <<L!inputs, base>>
  PROVE  /\ conf' \in Confs /\ ConfInv' /\ Settled'
         /\ hosts.on /\ L!HostsLayer # "" => L!Layer("hosts", L!HostsLayer) \in Members(conf'.body)
<1>1. UNCHANGED <<library, overlay, hosts, layer, mapped, found, base>>
  BY DEF L!inputs
<1>2. L!HostsLayer' = L!HostsLayer /\ L!EffectiveOverlay' = L!EffectiveOverlay
  BY <1>1 DEF L!HostsLayer, L!EffectiveOverlay
<1>3. CASE L!Authoritative /\ L!Candidate = conf
  <2>1. L!Authoritative'
    BY <1>1, <1>3 DEF L!Authoritative
  <2>2. Settled'
    BY <2>1 DEF Settled
  <2>3. ~hosts.on
    BY <1>3 DEF L!Authoritative
  <2> QED
    BY <1>3, <2>2, <2>3 DEF ConfInv, LayerTypes, ProfileInv
<1>4. ASSUME NEW s \in L!RawSource, L!Candidate = L!Wanted(s) PROVE conf' \in Confs /\ ConfInv' /\ Settled' /\ (L!HostsLayer # "" => L!Layer("hosts", L!HostsLayer) \in Members(conf'.body))
  <2>1. IsSource(s) /\ s # L!None
    BY RawSourceFacts DEF IsSource
  <2>2. /\ conf' \in Confs
        /\ conf'.mode = "imported" /\ conf'.source = s
        /\ Composes(conf'.body, s, conf'.overlay # L!Plain)
        /\ L!HostsLayer # "" => L!Layer("hosts", L!HostsLayer) \in Members(conf'.body)
    BY <1>4, <2>1, WantedFacts
  <2>3. L!CurrentBody' \subseteq {s}
    BY <2>1, <2>2 DEF L!CurrentBody
  <2>4. L!RawSource' \subseteq {s}
    BY <2>2, <2>3 DEF L!RawSource
  <2>5. L!Wanted(s)' = L!Wanted(s)
    BY <1>1, <1>2 DEF L!Wanted
  <2>6. ASSUME NEW x \in L!RawSource' PROVE conf' = L!Wanted(x)'
    <3>1. x = s
      BY <2>4
    <3> QED
      BY <1>1, <1>2, <1>4, <3>1 DEF L!Wanted
  <2>7. Settled'
    BY <2>6 DEF Settled
  <2> QED
    BY <2>1, <2>2, <2>7 DEF ConfInv
<1> QED
  BY <1>3, <1>4, CandidateFacts

\* What was settled still is when no input has changed but for the sources that are left.
LEMMA StaysSettled ==
  ASSUME LayerTypes, ProfileInv, Settled, UNCHANGED <<conf, base, overlay, found>>, hosts'.on = hosts.on,
         library' \subseteq library, L!HostsLayer' # "?" => L!HostsLayer' = L!HostsLayer
  PROVE  Settled'
<1> SUFFICES ASSUME ~L!Authoritative', L!HostsLayer' # "?", NEW s \in L!RawSource' PROVE conf' = L!Wanted(s)'
  BY DEF Settled
<1>1. ~L!Authoritative /\ L!HostsLayer # "?" /\ L!HostsLayer' = L!HostsLayer
  BY DEF L!Authoritative
<1>2. s \in L!RawSource
  <2>1. L!CurrentBody' = L!CurrentBody
    BY DEF L!CurrentBody
  <2>2. CASE conf.mode = "managed"
    BY <2>2 DEF L!RawSource
  <2>3. CASE conf.mode # "managed"
    <3>1. conf.source # L!None
      BY <2>3 DEF LayerTypes, Confs, ProfileInv, ConfInv, IsSource
    <3>2. CASE conf.source \in library' \cup {base.source}
      BY <2>3, <3>1, <3>2 DEF L!RawSource
    <3>3. CASE conf.source \notin library' \cup {base.source}
      <4>1. s \in L!CurrentBody
        BY <2>1, <2>3, <3>3 DEF L!RawSource
      <4>2. s = conf.source /\ s = conf.body
        BY <3>1, <4>1 DEF L!CurrentBody
      <4> QED
        BY <2>3, <3>1, <4>1, <4>2 DEF L!RawSource
    <3> QED
      BY <3>2, <3>3
  <2> QED
    BY <2>2, <2>3
<1>3. conf = L!Wanted(s)
  BY <1>1, <1>2 DEF Settled
<1>4. L!EffectiveOverlay' = L!EffectiveOverlay
  BY DEF L!EffectiveOverlay
<1> QED
  BY <1>1, <1>3, <1>4 DEF L!Wanted

----------------------------------------------------------------------------
(* The steps.                                                              *)

LEMMA LayersStart == L!LayersInit => LayersInv
<1> SUFFICES ASSUME L!LayersInit PROVE LayersInv
  OBVIOUS
<1> DEFINE r == CHOOSE x \in Raws : TRUE
           h == CHOOSE x \in HostFiles : TRUE
<1>1. r \in Raws /\ h \in HostFiles
  BY LAssumption
<1> HIDE DEF r, h
<1>2. \/ conf = [mode |-> "managed", body |-> L!None, source |-> L!None, overlay |-> L!Plain]
      \/ conf = [mode |-> "imported", body |-> L!Raw(r), source |-> L!Raw(r), overlay |-> L!Plain]
  BY DEF L!LayersInit, r
<1>3. L!Raw(r) \in Bodies /\ IsSource(L!Raw(r)) /\ Composes(L!Raw(r), L!Raw(r), FALSE)
  BY <1>1, LayerFacts, SourceComposes
<1>4. conf \in Confs /\ ConfInv
  <2>1. conf \in Confs
    BY <1>2, <1>3, LayerFacts DEF Confs
  <2>2. conf.overlay = L!Plain /\ (conf.overlay # L!Plain) = FALSE
    BY <1>2
  <2>3. conf.mode = "managed" => conf.body = L!None /\ conf.source = L!None
    BY <1>2
  <2>4. conf.mode = "imported" => conf.body = L!Raw(r) /\ conf.source = L!Raw(r)
    BY <1>2
  <2> QED
    BY <1>3, <2>1, <2>2, <2>3, <2>4 DEF ConfInv
<1>5. overlay \in Docs
  <2>1. overlay \in {L!Plain, [on |-> TRUE, n |-> "1", legacy |-> h]}
    BY DEF L!LayersInit, h
  <2>2. [on |-> TRUE, n |-> "1", legacy |-> h] \in Docs
    BY <1>1 DEF Docs, Files
  <2> QED
    BY <2>1, <2>2, LayerFacts
<1>6. /\ library = {L!Raw(x) : x \in Raws} /\ base.source = L!None /\ hosts = L!Off /\ layer = "" /\ mapped = h /\ found = ""
      /\ engine = L!None /\ syncer = [s \in L!Syncers |-> L!Idler] /\ fresh = TRUE /\ mixed = FALSE
  BY DEF L!LayersInit, h
<1>7. LayerTypes
  BY <1>1, <1>4, <1>5, <1>6, LayerFacts DEF LayerTypes, Files
<1>8. ProfileInv /\ SettledInv
  BY <1>4, <1>6 DEF ProfileInv, SettledInv, L!Running
<1>9. \A s \in L!Syncers : syncer[s].pc = "rest"
  BY <1>6, LayerFacts
<1>10. SyncInv
  BY <1>9 DEF SyncInv, TurnOf
<1> QED
  BY <1>7, <1>8, <1>10 DEF LayersInv

\* An edit: whatever was settled no longer is, and a synchronisation under way is overtaken.
LEMMA Edited ==
  ASSUME fresh' = FALSE, mixed' = (mixed \/ L!Busy), UNCHANGED syncer
  PROVE  SettledInv' /\ SyncInv'
<1>1. SettledInv'
  BY DEF SettledInv
<1>2. ~mixed' => \A s \in L!Syncers : syncer'[s].pc = "rest"
  BY DEF L!Busy
<1>3. SyncInv'
  BY <1>2 DEF SyncInv, TurnOf
<1> QED
  BY <1>1, <1>3

\* A lifecycle operation that reconciles.
LEMMA Reconciled ==
  ASSUME LayersInv, ~L!Failing, conf' = L!Candidate, engine' = L!Body(L!Candidate), fresh' = TRUE,
         UNCHANGED <<L!inputs, base, syncer, mixed>>
  PROVE  LayersInv'
<1>1. LayerTypes /\ ProfileInv /\ SyncInv
  BY DEF LayersInv
<1>2. UNCHANGED <<library, overlay, hosts, layer, mapped, found, base, syncer, mixed>>
  BY DEF L!inputs
<1>3. /\ conf' \in Confs /\ ConfInv' /\ Settled'
      /\ hosts.on /\ L!HostsLayer # "" => L!Layer("hosts", L!HostsLayer) \in Members(conf'.body)
  BY <1>1, Reconciles
<1>4. LayerTypes'
  BY <1>1, <1>2, <1>3 DEF LayerTypes
<1>5. ProfileInv'
  BY <1>1, <1>2, <1>3 DEF ProfileInv, L!Body
<1>6. SettledInv'
  BY <1>3 DEF SettledInv
<1>7. ASSUME ~mixed, NEW s \in L!Syncers PROVE TurnOf(s)'
  <2>1. TurnOf(s)
    BY <1>1, <1>7 DEF SyncInv
  <2>2. ASSUME syncer[s].pc = "record", syncer[s].value.on PROVE L!Layer("hosts", syncer[s].file) \in Members(conf'.body)
    <3>1. hosts.on /\ layer = syncer[s].file /\ layer # ""
      BY <2>1, <2>2 DEF TurnOf
    <3>2. L!HostsLayer = layer
      BY <3>1 DEF L!HostsLayer
    <3> QED
      BY <1>3, <3>1, <3>2
  <2> QED
    BY <1>2, <1>3, <2>1, <2>2 DEF TurnOf
<1>8. SyncInv'
  BY <1>2, <1>7 DEF SyncInv
<1> QED
  BY <1>4, <1>5, <1>6, <1>8 DEF LayersInv

\* A step that composes nothing: the engine stops or goes on, a source goes, the
\* mapped file changes.
LEMMA Untroubled ==
  ASSUME LayersInv, UNCHANGED <<conf, base, overlay, hosts, layer, found, syncer, mixed>>, library' \subseteq library,
         engine' \in {engine, L!None}, mapped' \in Files, fresh' \in BOOLEAN, fresh' => fresh /\ mapped' = mapped
  PROVE  LayersInv'
<1>1. LayerTypes /\ ProfileInv /\ SettledInv /\ SyncInv
  BY DEF LayersInv
<1>2. LayerTypes'
  BY <1>1 DEF LayerTypes
<1>3. ProfileInv'
  BY <1>1 DEF ProfileInv, ConfInv, L!Running, L!Body
<1>4. L!Running' => L!Running
  BY DEF L!Running
<1>5. SettledInv'
  <2> SUFFICES ASSUME fresh', ~mixed', ~L!Busy', L!Running' PROVE Settled'
    BY DEF SettledInv
  <2>1. fresh /\ ~mixed /\ ~L!Busy /\ L!Running
    BY <1>4 DEF L!Busy
  <2>2. L!HostsLayer' = L!HostsLayer
    BY DEF L!HostsLayer
  <2> QED
    BY <1>1, <2>1, <2>2, StaysSettled DEF SettledInv
<1>6. ASSUME ~mixed, NEW s \in L!Syncers PROVE TurnOf(s)'
  <2>1. TurnOf(s)
    BY <1>1, <1>6 DEF SyncInv
  <2>2. ASSUME syncer[s].pc = "record", L!Running' PROVE Settled'
    <3>1. Settled /\ (hosts.on <=> syncer[s].value.on) /\ (hosts.on => layer # "")
      BY <1>4, <2>1, <2>2 DEF TurnOf
    <3>2. L!HostsLayer' = L!HostsLayer
      BY <3>1 DEF L!HostsLayer
    <3> QED
      BY <1>1, <3>1, <3>2, StaysSettled
  <2> QED
    BY <2>1, <2>2 DEF TurnOf
<1>7. SyncInv'
  BY <1>6 DEF SyncInv
<1> QED
  BY <1>2, <1>3, <1>5, <1>7 DEF LayersInv

LEMMA WorkspaceKeeps == ASSUME LayersInv, L!WorkspaceStart PROVE LayersInv'
<1>1. LayerTypes /\ ProfileInv /\ ConfInv
  BY DEF LayersInv, ProfileInv
<1>2. /\ UNCHANGED <<library, overlay, hosts, layer, mapped, found, syncer>>
      /\ fresh' = FALSE /\ mixed' = (mixed \/ L!Busy)
  BY DEF L!WorkspaceStart, L!inputs, L!Busy
<1>3. SettledInv' /\ SyncInv'
  BY <1>2, Edited
<1>4. engine' # L!None => engine' = L!Body(conf)'
  BY DEF L!WorkspaceStart, L!Body
<1>5. ASSUME NEW s \in L!WorkspaceSource, ~(L!Base.mode = "managed" /\ ~overlay.on) PROVE IsSource(s)
  <2>1. CASE L!Sent # {}
    <3>1. s \in library
      BY <2>1 DEF L!WorkspaceSource, L!Sent
    <3> QED
      BY <1>1, <3>1, LayerFacts DEF LayerTypes
  <2>2. CASE L!Sent = {} /\ L!Base.mode = "managed"
    BY <2>2, LayerFacts DEF L!WorkspaceSource, L!Managed
  <2>3. CASE L!Sent = {} /\ L!Base.mode # "managed" /\ L!Base.source # L!None
    <3>1. s = L!Base.source
      BY <2>3 DEF L!WorkspaceSource
    <3>2. L!Base = base
      BY <2>3 DEF L!Base
    <3> QED
      BY <1>1, <2>3, <3>1, <3>2 DEF ProfileInv
  <2>4. CASE L!Sent = {} /\ L!Base.mode # "managed" /\ L!Base.source = L!None
    <3>1. s = conf.body /\ conf.overlay = L!Plain
      BY <2>4 DEF L!WorkspaceSource
    <3>2. conf.mode = "imported"
      BY <1>1, <2>4 DEF L!Base, LayerTypes, Confs
    <3>3. IsSource(conf.source) /\ Composes(conf.body, conf.source, FALSE)
      <4>1. (conf.overlay # L!Plain) = FALSE
        BY <3>1
      <4> QED
        BY <1>1, <3>2, <4>1 DEF ConfInv
    <3> QED
      BY <3>1, <3>3, ComposedIsSource
  <2> QED
    BY <2>1, <2>2, <2>3, <2>4
<1>6. conf' \in Confs /\ ConfInv' /\ (base'.source # L!None => IsSource(base'.source))
  <2>1. CASE UNCHANGED <<conf, base>>
    BY <1>1, <2>1 DEF LayerTypes, ConfInv, ProfileInv
  <2>2. CASE conf' = [mode |-> "managed", body |-> L!None, source |-> L!None, overlay |-> L!Plain] /\ UNCHANGED base
    BY <1>1, <2>2, LayerFacts DEF Confs, ConfInv, ProfileInv
  <2>3. ASSUME NEW s \in L!WorkspaceSource, ~(L!Base.mode = "managed" /\ ~overlay.on),
               conf' = [mode |-> "imported", source |-> s, overlay |-> L!EffectiveOverlay, body |-> L!Composed(s, overlay, FALSE)],
               base' = [path |-> L!Composed(s, overlay, FALSE), mode |-> L!Base.mode, source |-> s]
        PROVE  conf' \in Confs /\ ConfInv' /\ (base'.source # L!None => IsSource(base'.source))
    <3>1. IsSource(s) /\ s \in Bodies
      BY <1>5, <2>3 DEF IsSource
    <3>2. L!EffectiveOverlay \in Docs /\ (L!EffectiveOverlay # L!Plain <=> overlay.on) /\ overlay \in Docs /\ overlay.on \in BOOLEAN
      BY <1>1, EffectiveFacts DEF LayerTypes, Docs
    <3>3. Composes(L!Composed(s, overlay, FALSE), s, overlay.on) /\ L!Composed(s, overlay, FALSE) \in Bodies
      BY <3>1, <3>2, ComposedFacts
    <3>4. (L!EffectiveOverlay # L!Plain) = overlay.on
      BY <3>2
    <3> QED
      BY <2>3, <3>1, <3>2, <3>3, <3>4 DEF Confs, ConfInv
  <2> QED
    BY <2>1, <2>2, <2>3 DEF L!WorkspaceStart
<1>7. LayerTypes'
  BY <1>1, <1>2, <1>6 DEF LayerTypes, L!Busy
<1>8. ProfileInv'
  BY <1>4, <1>6 DEF ProfileInv, L!Running
<1> QED
  BY <1>3, <1>7, <1>8 DEF LayersInv

\* One who synchronises takes a step and stands at r: what is asked of r.
LEMMA TakesTurn ==
  ASSUME SyncInv, syncer \in [L!Syncers -> Tasks], NEW s \in L!Syncers, NEW r \in Tasks, L!Step(s, r),
         \/ syncer[s].pc # "rest" /\ mixed' = mixed
         \/ syncer[s].pc = "rest" /\ mixed' = (mixed \/ L!Busy),
         ~mixed' => /\ r.pc # "rest" => (hosts'.on <=> r.value.on)
                    /\ r.pc = "layer" => r.value.on /\ r.file # ""
                    /\ r.pc \in {"reconcile", "record"} /\ r.value.on => layer' = r.file /\ r.file # ""
                    /\ r.pc = "record" => /\ L!Running' => Settled'
                                          /\ r.value.on => L!Layer("hosts", r.file) \in Members(conf'.body)
  PROVE  SyncInv' /\ syncer' \in [L!Syncers -> Tasks] /\ (r.pc # "rest" => L!Busy')
<1>1. syncer' \in [L!Syncers -> Tasks] /\ syncer'[s] = r /\ \A u \in L!Syncers : u # s => syncer'[u] = syncer[u]
  BY DEF L!Step
<1>2. r.pc # "rest" => L!Busy'
  BY <1>1 DEF L!Busy
<1>3. ASSUME ~mixed', NEW u \in L!Syncers, u # s PROVE syncer'[u].pc = "rest"
  <2>1. CASE syncer[s].pc # "rest"
    BY <1>1, <1>3, <2>1 DEF SyncInv, TurnOf
  <2>2. CASE syncer[s].pc = "rest"
    BY <1>1, <1>3, <2>2 DEF L!Busy
  <2> QED
    BY <2>1, <2>2
<1>4. ASSUME ~mixed' PROVE TurnOf(s)'
  BY <1>1, <1>3, <1>4 DEF TurnOf
<1>5. ASSUME ~mixed', NEW u \in L!Syncers PROVE TurnOf(u)'
  <2>1. CASE u # s
    BY <1>3, <1>5, <2>1 DEF TurnOf
  <2> QED
    BY <1>4, <1>5, <2>1
<1>6. SyncInv'
  BY <1>5 DEF SyncInv
<1> QED
  BY <1>1, <1>2, <1>6

LEMMA TaskFacts ==
  ASSUME NEW t \in Tasks
  PROVE  /\ t.pc \in {"rest", "migrate", "layer", "reconcile", "record", "failed"}
         /\ t.value \in Choices /\ t.before \in Choices /\ t.file \in Files /\ t.was \in Files /\ t.doc \in Docs
         /\ \A pc \in {"reconcile", "record", "failed"} :
              LET r == [t EXCEPT !.pc = pc] IN r \in Tasks /\ r.pc = pc /\ r.value = t.value /\ r.file = t.file
BY DEF Tasks

\* Beginning, migrating and writing compose nothing.
LEMMA SyncBeginKeeps == ASSUME LayersInv, NEW s \in L!Syncers, L!BeginSync(s) PROVE LayersInv'
<1>1. LayerTypes /\ ProfileInv /\ SyncInv
  BY DEF LayersInv
<1>2. /\ UNCHANGED <<conf, library, base, overlay, layer, mapped, found, engine>>
      /\ fresh' = FALSE /\ mixed' = (mixed \/ L!Busy) /\ syncer[s].pc = "rest"
  BY DEF L!BeginSync
<1>3. SettledInv' /\ ProfileInv'
  BY <1>1, <1>2 DEF SettledInv, ProfileInv, ConfInv, L!Running, L!Body
<1>4. hosts \in Choices
  BY <1>1 DEF LayerTypes
<1>5. PICK r \in Tasks : L!Step(s, r) /\ r.pc = "migrate" /\ r.value = hosts' /\ hosts' \in Choices
  <2>1. CASE s = "sync" /\ hosts.on /\ L!Step(s, [L!Idler EXCEPT !.pc = "migrate", !.value = hosts, !.before = hosts]) /\ UNCHANGED hosts
    <3>1. [L!Idler EXCEPT !.pc = "migrate", !.value = hosts, !.before = hosts] \in Tasks
      BY <1>4, LayerFacts DEF Tasks
    <3>2. /\ [L!Idler EXCEPT !.pc = "migrate", !.value = hosts, !.before = hosts].pc = "migrate"
          /\ [L!Idler EXCEPT !.pc = "migrate", !.value = hosts, !.before = hosts].value = hosts
      BY DEF L!Idler
    <3> QED
      BY <1>4, <2>1, <3>1, <3>2
  <2>2. CASE hosts' = [hosts EXCEPT !.on = ~@] /\ L!Step(s, [L!Idler EXCEPT !.pc = "migrate", !.value = hosts', !.before = hosts])
    <3>1. hosts' \in Choices
      BY <1>4, <2>2 DEF Choices
    <3>2. [L!Idler EXCEPT !.pc = "migrate", !.value = hosts', !.before = hosts] \in Tasks
      BY <1>4, <3>1, LayerFacts DEF Tasks
    <3>3. /\ [L!Idler EXCEPT !.pc = "migrate", !.value = hosts', !.before = hosts].pc = "migrate"
          /\ [L!Idler EXCEPT !.pc = "migrate", !.value = hosts', !.before = hosts].value = hosts'
      BY DEF L!Idler
    <3> QED
      BY <2>2, <3>1, <3>2, <3>3
  <2> QED
    BY <2>1, <2>2 DEF L!BeginSync
<1>6. SyncInv' /\ syncer' \in [L!Syncers -> Tasks]
  BY <1>1, <1>2, <1>5, TakesTurn DEF LayerTypes
<1>7. LayerTypes'
  BY <1>1, <1>2, <1>5, <1>6 DEF LayerTypes, L!Busy
<1> QED
  BY <1>3, <1>6, <1>7 DEF LayersInv

LEMMA MigrateKeeps == ASSUME LayersInv, NEW s \in L!Syncers, L!Migrate(s) PROVE LayersInv'
<1>1. LayerTypes /\ ProfileInv /\ SyncInv /\ syncer[s] \in Tasks
  BY DEF LayersInv, LayerTypes
<1>2. /\ UNCHANGED <<conf, library, base, hosts, layer, mapped, found, engine, fresh, mixed>>
      /\ overlay' = [overlay EXCEPT !.legacy = ""] /\ syncer[s].pc = "migrate" /\ (syncer[s].value.on => mapped # "")
  BY DEF L!Migrate
<1> DEFINE r == [syncer[s] EXCEPT !.pc = IF @ = "migrate" /\ syncer[s].value.on THEN "layer" ELSE "reconcile",
                                  !.file = mapped, !.doc = overlay]
<1>3. r \in Tasks
  BY <1>1 DEF Tasks, LayerTypes
<1>4. r.pc = (IF syncer[s].value.on THEN "layer" ELSE "reconcile") /\ r.value = syncer[s].value /\ r.file = mapped
  BY <1>1, <1>2 DEF Tasks
<1>5. L!Step(s, r)
  BY DEF L!Migrate
<1> HIDE DEF r
<1>6. ~mixed => (hosts.on <=> syncer[s].value.on)
  BY <1>1, <1>2 DEF SyncInv, TurnOf
<1>7. SyncInv' /\ syncer' \in [L!Syncers -> Tasks] /\ L!Busy'
  BY <1>1, <1>2, <1>3, <1>4, <1>5, <1>6, TakesTurn DEF LayerTypes
<1>8. overlay' \in Docs
  BY <1>1, <1>2 DEF LayerTypes, Docs, Files
<1>9. LayerTypes'
  BY <1>1, <1>2, <1>7, <1>8 DEF LayerTypes
<1>10. ProfileInv' /\ SettledInv'
  BY <1>1, <1>2, <1>7 DEF ProfileInv, ConfInv, L!Running, L!Body, SettledInv
<1> QED
  BY <1>7, <1>9, <1>10 DEF LayersInv

LEMMA MigrateFailsKeeps == ASSUME LayersInv, NEW s \in L!Syncers, L!MigrateFails(s) PROVE LayersInv'
<1>1. LayerTypes /\ ProfileInv /\ SyncInv /\ syncer[s] \in Tasks
  BY DEF LayersInv, LayerTypes
<1>2. /\ UNCHANGED <<conf, library, base, overlay, hosts, layer, mapped, found, engine, fresh, mixed>>
      /\ syncer[s].pc = "migrate"
  BY DEF L!MigrateFails, L!inputs
<1> DEFINE r == [syncer[s] EXCEPT !.pc = "failed", !.doc = overlay, !.was = layer]
<1>3. r \in Tasks
  BY <1>1 DEF Tasks, LayerTypes
<1>4. r.pc = "failed" /\ r.value = syncer[s].value
  BY <1>1 DEF Tasks
<1>5. L!Step(s, r)
  BY DEF L!MigrateFails
<1> HIDE DEF r
<1>6. ~mixed => (hosts.on <=> syncer[s].value.on)
  BY <1>1, <1>2 DEF SyncInv, TurnOf
<1>7. SyncInv' /\ syncer' \in [L!Syncers -> Tasks] /\ L!Busy'
  BY <1>1, <1>2, <1>3, <1>4, <1>5, <1>6, TakesTurn DEF LayerTypes
<1>8. LayerTypes'
  BY <1>1, <1>2, <1>7 DEF LayerTypes
<1>9. ProfileInv' /\ SettledInv'
  BY <1>1, <1>2, <1>7 DEF ProfileInv, ConfInv, L!Running, L!Body, SettledInv
<1> QED
  BY <1>7, <1>8, <1>9 DEF LayersInv

LEMMA WriteKeeps == ASSUME LayersInv, NEW s \in L!Syncers, L!WriteLayer(s) PROVE LayersInv'
<1>1. LayerTypes /\ ProfileInv /\ SyncInv /\ syncer[s] \in Tasks
  BY DEF LayersInv, LayerTypes
<1>2. /\ UNCHANGED <<conf, library, base, overlay, hosts, mapped, found, engine, fresh, mixed>>
      /\ layer' = syncer[s].file /\ syncer[s].pc = "layer"
  BY DEF L!WriteLayer
<1> DEFINE r == [syncer[s] EXCEPT !.pc = "reconcile", !.was = layer]
<1>3. r \in Tasks
  BY <1>1 DEF Tasks, LayerTypes
<1>4. r.pc = "reconcile" /\ r.value = syncer[s].value /\ r.file = syncer[s].file
  BY <1>1 DEF Tasks
<1>5. L!Step(s, r)
  BY DEF L!WriteLayer
<1> HIDE DEF r
<1>6. ~mixed => (hosts.on <=> syncer[s].value.on) /\ syncer[s].file # ""
  BY <1>1, <1>2 DEF SyncInv, TurnOf
<1>7. SyncInv' /\ syncer' \in [L!Syncers -> Tasks] /\ L!Busy'
  BY <1>1, <1>2, <1>3, <1>4, <1>5, <1>6, TakesTurn DEF LayerTypes
<1>8. LayerTypes'
  BY <1>1, <1>2, <1>7, TaskFacts DEF LayerTypes
<1>9. ProfileInv' /\ SettledInv'
  BY <1>1, <1>2, <1>7 DEF ProfileInv, ConfInv, L!Running, L!Body, SettledInv
<1> QED
  BY <1>7, <1>8, <1>9 DEF LayersInv

\* The reconciliation of a synchronisation: what it composes has the file's hosts.
LEMMA ReconcileKeeps == ASSUME LayersInv, NEW s \in L!Syncers, L!Reconcile(s) PROVE LayersInv'
<1>1. LayerTypes /\ ProfileInv /\ SyncInv /\ syncer[s] \in Tasks
  BY DEF LayersInv, LayerTypes
<1>2. /\ UNCHANGED <<L!inputs, base, fresh, mixed>> /\ UNCHANGED <<library, overlay, hosts, layer, mapped, found>>
      /\ ~L!Failing /\ conf' = L!Candidate /\ syncer[s].pc = "reconcile"
      /\ engine' = IF L!Running /\ L!Candidate # conf THEN L!Body(L!Candidate) ELSE engine
  BY DEF L!Reconcile, L!inputs
<1>3. /\ conf' \in Confs /\ ConfInv' /\ Settled'
      /\ hosts.on /\ L!HostsLayer # "" => L!Layer("hosts", L!HostsLayer) \in Members(conf'.body)
  BY <1>1, <1>2, Reconciles
<1> DEFINE r == [syncer[s] EXCEPT !.pc = "record"]
<1>4. r \in Tasks /\ r.pc = "record" /\ r.value = syncer[s].value /\ r.file = syncer[s].file
  BY <1>1, TaskFacts
<1>5. L!Step(s, r)
  BY DEF L!Reconcile, L!Next1
<1> HIDE DEF r
<1>6. ~mixed => /\ hosts.on <=> syncer[s].value.on
                /\ syncer[s].value.on => layer = syncer[s].file /\ syncer[s].file # ""
  BY <1>1, <1>2 DEF SyncInv, TurnOf
<1>7. ~mixed /\ syncer[s].value.on => L!Layer("hosts", syncer[s].file) \in Members(conf'.body)
  <2> SUFFICES ASSUME ~mixed, syncer[s].value.on PROVE L!Layer("hosts", syncer[s].file) \in Members(conf'.body)
    OBVIOUS
  <2>1. L!HostsLayer = layer /\ hosts.on /\ L!HostsLayer # ""
    BY <1>6 DEF L!HostsLayer
  <2> QED
    BY <1>3, <1>6, <2>1
<1>8. SyncInv' /\ syncer' \in [L!Syncers -> Tasks] /\ L!Busy'
  BY <1>1, <1>2, <1>3, <1>4, <1>5, <1>6, <1>7, TakesTurn DEF LayerTypes
<1>9. LayerTypes'
  BY <1>1, <1>2, <1>3, <1>8 DEF LayerTypes
<1>10. L!Running' => engine' = L!Body(conf)'
  BY <1>1, <1>2 DEF ProfileInv, L!Running, L!Body
<1>11. ProfileInv' /\ SettledInv'
  BY <1>1, <1>2, <1>3, <1>8, <1>10 DEF ProfileInv, SettledInv
<1> QED
  BY <1>8, <1>9, <1>11 DEF LayersInv

LEMMA ReconcileFailsKeeps == ASSUME LayersInv, NEW s \in L!Syncers, L!ReconcileFails(s) PROVE LayersInv'
<1>1. LayerTypes /\ ProfileInv /\ SyncInv /\ syncer[s] \in Tasks
  BY DEF LayersInv, LayerTypes
<1>2. /\ UNCHANGED <<conf, base, fresh, mixed>> /\ UNCHANGED <<library, overlay, hosts, layer, mapped, found>>
      /\ syncer[s].pc = "reconcile" /\ engine' \in {engine, L!None}
  BY DEF L!ReconcileFails, L!inputs
<1> DEFINE r == [syncer[s] EXCEPT !.pc = "failed"]
<1>3. r \in Tasks /\ r.pc = "failed" /\ r.value = syncer[s].value
  BY <1>1, TaskFacts
<1>4. L!Step(s, r)
  BY DEF L!ReconcileFails, L!Next1
<1> HIDE DEF r
<1>5. ~mixed => (hosts.on <=> syncer[s].value.on)
  BY <1>1, <1>2 DEF SyncInv, TurnOf
<1>6. SyncInv' /\ syncer' \in [L!Syncers -> Tasks] /\ L!Busy'
  BY <1>1, <1>2, <1>3, <1>4, <1>5, TakesTurn DEF LayerTypes
<1>7. LayerTypes'
  BY <1>1, <1>2, <1>6 DEF LayerTypes
<1>8. ProfileInv' /\ SettledInv'
  BY <1>1, <1>2, <1>6 DEF ProfileInv, ConfInv, L!Running, L!Body, SettledInv
<1> QED
  BY <1>6, <1>7, <1>8 DEF LayersInv

LEMMA RecordKeeps == ASSUME LayersInv, NEW s \in L!Syncers, L!Record(s) PROVE LayersInv'
<1>1. LayerTypes /\ ProfileInv /\ SyncInv /\ syncer[s] \in Tasks
  BY DEF LayersInv, LayerTypes
<1>2. /\ UNCHANGED <<conf, library, base, overlay, layer, mapped, found, engine, mixed>>
      /\ syncer[s].pc = "record" /\ fresh' = ~mixed /\ L!Step(s, L!Idler)
      /\ hosts' = [syncer[s].value EXCEPT !.failed = FALSE,
                                          !.last = IF syncer[s].value.on THEN syncer[s].file ELSE @]
  BY DEF L!Record
<1>3. hosts' \in Choices /\ (hosts'.on <=> syncer[s].value.on)
  <2>1. syncer[s].value \in Choices /\ syncer[s].file \in Files
    BY <1>1, TaskFacts
  <2> QED
    BY <1>2, <2>1 DEF Choices
<1>4. SyncInv' /\ syncer' \in [L!Syncers -> Tasks]
  BY <1>1, <1>2, LayerFacts, TakesTurn DEF LayerTypes
<1>5. LayerTypes'
  BY <1>1, <1>2, <1>3, <1>4 DEF LayerTypes
<1>6. ProfileInv'
  BY <1>1, <1>2 DEF ProfileInv, ConfInv, L!Running, L!Body
<1>7. SettledInv'
  <2> SUFFICES ASSUME ~mixed, L!Running PROVE Settled'
    BY <1>2 DEF SettledInv, L!Running
  <2>1. Settled /\ hosts'.on = hosts.on
    <3>1. TurnOf(s)
      BY <1>1 DEF SyncInv
    <3>2. hosts.on \in BOOLEAN /\ hosts'.on \in BOOLEAN
      BY <1>1, <1>3 DEF LayerTypes, Choices
    <3> QED
      BY <1>2, <1>3, <3>1, <3>2 DEF TurnOf
  <2>2. L!HostsLayer' = L!HostsLayer
    BY <1>2, <2>1 DEF L!HostsLayer
  <2> QED
    BY <1>1, <1>2, <2>1, <2>2, StaysSettled
<1> QED
  BY <1>4, <1>5, <1>6, <1>7 DEF LayersInv

LEMMA UndoKeeps == ASSUME LayersInv, NEW s \in L!Syncers, L!Undo(s) PROVE LayersInv'
<1>1. LayerTypes /\ ProfileInv /\ SyncInv /\ syncer[s] \in Tasks
  BY DEF LayersInv, LayerTypes
<1>2. /\ UNCHANGED <<conf, library, base, mapped, found, engine, mixed>>
      /\ syncer[s].pc = "failed" /\ fresh' = FALSE /\ L!Step(s, L!Idler)
      /\ layer' = L!LayerBack(s) /\ hosts' = [syncer[s].before EXCEPT !.failed = TRUE]
      /\ overlay' = IF syncer[s].doc.legacy # "" THEN syncer[s].doc ELSE overlay
  BY DEF L!Undo
<1>3. hosts' \in Choices /\ layer' \in Files /\ overlay' \in Docs
  <2>1. syncer[s].before \in Choices /\ syncer[s].was \in Files /\ syncer[s].doc \in Docs
    BY <1>1, TaskFacts
  <2>2. hosts' \in Choices
    BY <1>2, <2>1 DEF Choices
  <2> QED
    BY <1>1, <1>2, <2>1, <2>2 DEF L!LayerBack, LayerTypes
<1>4. SyncInv' /\ syncer' \in [L!Syncers -> Tasks]
  BY <1>1, <1>2, LayerFacts, TakesTurn DEF LayerTypes
<1>5. LayerTypes'
  BY <1>1, <1>2, <1>3, <1>4 DEF LayerTypes
<1>6. ProfileInv' /\ SettledInv'
  BY <1>1, <1>2 DEF ProfileInv, ConfInv, L!Running, L!Body, SettledInv
<1> QED
  BY <1>4, <1>5, <1>6 DEF LayersInv

LEMMA LayersKept == LayersInv /\ [L!LayersNext]_(L!lvars) => LayersInv'
<1> SUFFICES ASSUME LayersInv, [L!LayersNext]_(L!lvars) PROVE LayersInv'
  OBVIOUS
<1>0. LayerTypes
  BY DEF LayersInv
<1>1. CASE UNCHANGED L!lvars
  <2>1. UNCHANGED <<conf, base, overlay, hosts, layer, found, syncer, mixed, library, engine, mapped, fresh>>
    BY <1>1 DEF L!lvars
  <2> QED
    BY <1>0, <2>1, Untroubled DEF LayerTypes
<1>2. CASE L!Reload
  BY <1>2, Reconciled DEF L!Reload
<1>3. CASE L!ReloadFails
  <2>1. /\ UNCHANGED <<conf, base, overlay, hosts, layer, found, syncer, mixed, library, mapped, fresh>>
        /\ engine' \in {engine, L!None}
    BY <1>3 DEF L!ReloadFails, L!inputs
  <2> QED
    BY <1>0, <2>1, Untroubled DEF LayerTypes
<1>4. CASE L!Recover
  BY <1>4, Reconciled DEF L!Recover
<1>5. CASE L!Stop
  <2>1. /\ UNCHANGED <<conf, base, overlay, hosts, layer, found, syncer, mixed, library, mapped, fresh>>
        /\ engine' = L!None
    BY <1>5 DEF L!Stop, L!inputs
  <2> QED
    BY <1>0, <2>1, Untroubled DEF LayerTypes
<1>6. CASE L!WorkspaceStart
  BY <1>6, WorkspaceKeeps
<1>7. CASE L!EditOverlay
  <2>1. /\ UNCHANGED <<conf, library, base, hosts, layer, mapped, found, engine, syncer>>
        /\ fresh' = FALSE /\ mixed' = (mixed \/ L!Busy)
    BY <1>7 DEF L!EditOverlay
  <2>2. overlay' \in Docs
    <3>1. PICK on \in BOOLEAN, n \in {"1", "2"} : overlay' = [overlay EXCEPT !.on = on, !.n = n]
      BY <1>7 DEF L!EditOverlay
    <3> QED
      BY <1>0, <3>1 DEF LayerTypes, Docs
  <2>3. LayerTypes'
    BY <1>0, <2>1, <2>2 DEF LayerTypes, L!Busy
  <2>4. ProfileInv'
    BY <2>1 DEF LayersInv, ProfileInv, ConfInv, L!Running, L!Body
  <2> QED
    BY <2>1, <2>3, <2>4, Edited DEF LayersInv
<1>8. CASE L!ApplySource
  <2>1. PICK r \in library :
          /\ conf' = [mode |-> "imported", source |-> r, overlay |-> L!EffectiveOverlay, body |-> L!Composed(r, overlay, FALSE)]
          /\ engine' = IF L!Running THEN conf'.body ELSE L!None
    BY <1>8 DEF L!ApplySource
  <2>2. /\ UNCHANGED <<library, base, overlay, hosts, layer, mapped, found, syncer>>
        /\ fresh' = FALSE /\ mixed' = (mixed \/ L!Busy)
    BY <1>8 DEF L!ApplySource, L!inputs
  <2>3. IsSource(r) /\ r \in Bodies
    BY <1>0, LayerFacts DEF LayerTypes
  <2>4. L!EffectiveOverlay \in Docs /\ overlay \in Docs /\ overlay.on \in BOOLEAN
    BY <1>0, EffectiveFacts DEF LayerTypes, Docs
  <2>5. Composes(L!Composed(r, overlay, FALSE), r, overlay.on) /\ L!Composed(r, overlay, FALSE) \in Bodies
    BY <2>3, <2>4, ComposedFacts
  <2>6. (L!EffectiveOverlay # L!Plain) = overlay.on
    BY <1>0, <2>4, EffectiveFacts
  <2>7. conf' \in Confs /\ ConfInv'
    BY <2>1, <2>3, <2>4, <2>5, <2>6 DEF Confs, ConfInv
  <2>8. LayerTypes'
    BY <1>0, <2>2, <2>7 DEF LayerTypes, L!Busy
  <2>9. ProfileInv'
    BY <2>1, <2>2, <2>7 DEF LayersInv, ProfileInv, L!Running, L!Body
  <2> QED
    BY <2>2, <2>8, <2>9, Edited DEF LayersInv
<1>9. CASE L!Optimized
  <2>1. /\ UNCHANGED <<conf, library, base, overlay, hosts, layer, mapped, engine, syncer>>
        /\ fresh' = FALSE /\ mixed' = (mixed \/ L!Busy) /\ found' \in {"", "ip"}
    BY <1>9 DEF L!Optimized
  <2>2. LayerTypes'
    BY <1>0, <2>1 DEF LayerTypes, L!Busy
  <2>3. ProfileInv'
    BY <2>1 DEF LayersInv, ProfileInv, ConfInv, L!Running, L!Body
  <2> QED
    BY <2>1, <2>2, <2>3, Edited DEF LayersInv
<1>10. CASE L!MappedChanges
  <2>1. /\ UNCHANGED <<conf, library, base, overlay, hosts, layer, found, engine, syncer, mixed>>
        /\ fresh' = FALSE /\ mapped' \in Files
    BY <1>10 DEF L!MappedChanges, Files
  <2> QED
    BY <2>1, Untroubled
<1>11. CASE L!SourceGone
  <2>1. /\ UNCHANGED <<conf, base, overlay, hosts, layer, mapped, found, engine, syncer, fresh, mixed>>
        /\ library' \subseteq library
    BY <1>11 DEF L!SourceGone
  <2> QED
    BY <1>0, <2>1, Untroubled DEF LayerTypes
<1>12. ASSUME NEW s \in L!Syncers,
              \/ L!BeginSync(s) \/ L!Migrate(s) \/ L!MigrateFails(s) \/ L!WriteLayer(s)
              \/ L!Reconcile(s) \/ L!ReconcileFails(s) \/ L!Record(s) \/ L!Undo(s)
       PROVE  LayersInv'
  BY <1>12, SyncBeginKeeps, MigrateKeeps, MigrateFailsKeeps, WriteKeeps, ReconcileKeeps, ReconcileFailsKeeps, RecordKeeps,
     UndoKeeps
<1> QED
  BY <1>1, <1>2, <1>3, <1>4, <1>5, <1>6, <1>7, <1>8, <1>9, <1>10, <1>11, <1>12 DEF L!LayersNext

LEMMA LayersPromises ==
  ASSUME LayersInv
  PROVE  L!LayersTypeOK /\ L!NoLayerTwice /\ L!DigestsDescribeProfile /\ L!EngineHasEveryLayer
<1>1. LayerTypes /\ ProfileInv /\ ConfInv /\ SettledInv
  BY DEF LayersInv, ProfileInv
<1>2. L!LayersTypeOK
  BY <1>1 DEF LayerTypes, L!LayersTypeOK, Confs, Docs, Choices, Files
<1>3. ASSUME conf.mode = "managed" PROVE L!NoLayerTwice /\ L!DigestsDescribeProfile
  <2>1. conf.body = L!None /\ conf.mode # "imported"
    BY <1>1, <1>3 DEF ConfInv
  <2>2. \A kind : L!AtMostOne(conf.body, kind)
    BY <2>1 DEF L!None, L!AtMostOne, L!Kinds
  <2> QED
    BY <2>1, <2>2 DEF L!NoLayerTwice, L!DigestsDescribeProfile
<1>4. ASSUME conf.mode = "imported" PROVE L!NoLayerTwice /\ L!DigestsDescribeProfile
  <2>1. IsSource(conf.source) /\ Composes(conf.body, conf.source, conf.overlay # L!Plain)
    BY <1>1, <1>4 DEF ConfInv
  <2>2. L!NoLayerTwice
    BY <2>1 DEF Composes, L!NoLayerTwice
  <2>3. \E n \in 0 .. Len(conf.body) : conf.source = SubSeq(conf.body, 1, n)
    <3> DEFINE b == conf.body
               s == conf.source
               n == Len(s)
    <3>1. b \in Seq(Items) /\ s \in Seq(Items) /\ n \in Nat /\ Len(b) \in Nat /\ n <= Len(b) /\ \A i \in 1 .. n : b[i] = s[i]
      BY <2>1, LenProperties DEF IsSource, Composes, Bodies
    <3> HIDE DEF b, s, n
    <3>2. \A i \in 1 .. n : b[i] \in Items
      BY <3>1, ElementOfSeq
    <3>3. /\ SubSeq(b, 1, n) \in Seq(Items) /\ Len(SubSeq(b, 1, n)) = n
          /\ \A i \in 1 .. n : SubSeq(b, 1, n)[i] = b[i]
      <4>1. /\ SubSeq(b, 1, n) \in Seq(Items) /\ Len(SubSeq(b, 1, n)) = (IF 1 <= n THEN n - 1 + 1 ELSE 0)
            /\ \A i \in 1 .. n - 1 + 1 : SubSeq(b, 1, n)[i] = b[1 + i - 1]
        BY <3>1, <3>2, SubSeqProperties
      <4>2. n - 1 + 1 = n /\ (IF 1 <= n THEN n - 1 + 1 ELSE 0) = n /\ \A i \in 1 .. n : 1 + i - 1 = i
        BY <3>1
      <4> QED
        BY <4>1, <4>2
    <3>4. SubSeq(b, 1, n) = s
      BY <3>1, <3>3, SeqEqual DEF n
    <3> QED
      BY <3>1, <3>4 DEF b, s
  <2>4. L!DigestsDescribeProfile
    BY <2>1, <2>3 DEF Composes, L!DigestsDescribeProfile
  <2> QED
    BY <2>2, <2>4
<1>5. L!NoLayerTwice /\ L!DigestsDescribeProfile
  BY <1>1, <1>3, <1>4 DEF LayerTypes, Confs
<1>6. L!EngineHasEveryLayer
  <2> SUFFICES ASSUME L!Running, fresh, ~mixed, ~L!Busy, ~L!Failing, ~L!Authoritative
               PROVE  engine = L!Wanted(CHOOSE s \in L!RawSource : TRUE).body
    <3>1. L!Running => engine = L!Body(conf)
      BY <1>1 DEF ProfileInv
    <3> QED
      BY <3>1 DEF L!EngineHasEveryLayer
  <2>1. Settled /\ L!HostsLayer # "?" /\ L!RawSource # {} /\ engine = L!Body(conf)
    BY <1>1 DEF SettledInv, L!Failing, ProfileInv
  <2> DEFINE s == CHOOSE x \in L!RawSource : TRUE
  <2>2. s \in L!RawSource
    BY <2>1
  <2> HIDE DEF s
  <2>3. conf = L!Wanted(s)
    BY <2>1, <2>2 DEF Settled
  <2>4. L!Body(conf) = conf.body
    BY <2>3 DEF L!Wanted, L!Body
  <2> QED
    BY <2>1, <2>3, <2>4 DEF s
<1> QED
  BY <1>2, <1>5, <1>6

\* A synchronisation that ends: by its record or by its undoing.
LEMMA SyncsWhole ==
  ASSUME LayersInv, [L!LayersNext]_(L!lvars)
  PROVE  [~mixed' => \A s \in L!Syncers :
            /\ syncer[s].pc = "failed" /\ syncer'[s].pc = "rest" => layer' = syncer[s].was \/ ~syncer[s].value.on
            /\ syncer[s].pc = "record" /\ syncer'[s].pc = "rest" /\ hosts'.on
                 => \E i \in 1 .. Len(conf.body) : conf.body[i] = L!Layer("hosts", hosts'.last)]_(L!lvars)
<1> SUFFICES ASSUME L!LayersNext, ~mixed', NEW s \in L!Syncers, syncer'[s].pc = "rest", syncer[s].pc \in {"failed", "record"}
             PROVE  /\ syncer[s].pc = "failed" => layer' = syncer[s].was \/ ~syncer[s].value.on
                    /\ syncer[s].pc = "record" /\ hosts'.on
                         => \E i \in 1 .. Len(conf.body) : conf.body[i] = L!Layer("hosts", hosts'.last)
  OBVIOUS
<1>1. syncer \in [L!Syncers -> Tasks] /\ SyncInv
  BY DEF LayersInv, LayerTypes
<1>2. syncer' # syncer
  OBVIOUS
<1>3. L!Record(s) \/ L!Undo(s)
  <2>1. PICK u \in L!Syncers : \/ L!BeginSync(u) \/ L!Migrate(u) \/ L!MigrateFails(u) \/ L!WriteLayer(u)
                               \/ L!Reconcile(u) \/ L!ReconcileFails(u) \/ L!Record(u) \/ L!Undo(u)
    BY <1>2 DEF L!LayersNext, L!Reload, L!ReloadFails, L!Recover, L!Stop, L!WorkspaceStart, L!EditOverlay, L!ApplySource, L!Optimized,
       L!MappedChanges, L!SourceGone
  <2>2. \E r : L!Step(u, r)
    BY <2>1 DEF L!BeginSync, L!Migrate, L!MigrateFails, L!WriteLayer, L!Reconcile, L!ReconcileFails, L!Record, L!Undo, L!Next1
  <2>3. u = s
    BY <1>1, <1>2, <2>2 DEF L!Step
  <2>4. ~L!BeginSync(s) /\ ~L!Migrate(s) /\ ~L!MigrateFails(s) /\ ~L!WriteLayer(s)
    BY DEF L!BeginSync, L!Migrate, L!MigrateFails, L!WriteLayer
  <2>5. ~L!Reconcile(s) /\ ~L!ReconcileFails(s)
    BY DEF L!Reconcile, L!ReconcileFails
  <2> QED
    BY <2>1, <2>3, <2>4, <2>5
<1>4. CASE L!Undo(s)
  BY <1>4 DEF L!Undo, L!LayerBack
<1>5. CASE L!Record(s)
  <2>1. /\ syncer[s].pc = "record" /\ ~mixed
        /\ hosts' = [syncer[s].value EXCEPT !.failed = FALSE,
                                            !.last = IF syncer[s].value.on THEN syncer[s].file ELSE @]
    BY <1>5 DEF L!Record
  <2>2. syncer[s].value \in Choices
    BY <1>1, TaskFacts
  <2>3. (hosts'.on <=> syncer[s].value.on) /\ (hosts'.on => hosts'.last = syncer[s].file)
    BY <2>1, <2>2 DEF Choices
  <2>4. hosts'.on => L!Layer("hosts", hosts'.last) \in Members(conf.body)
    BY <1>1, <2>1, <2>3 DEF SyncInv, TurnOf
  <2> QED
    BY <2>1, <2>4 DEF Members
<1> QED
  BY <1>3, <1>4, <1>5

----------------------------------------------------------------------------
(* A scan of the optimizer.                                               *)
LEMMA CAssumption ==
  /\ Targets \in Nat /\ Addrs \in Nat /\ Speeds \subseteq Nat
  /\ Settings \subseteq [window : Nat \ {0}, downloads : Nat, floor : Nat]
BY ControlAssumption

\* The least number of a set: what the provers have instead of an induction.
LEMMA LeastNumber == ASSUME NEW Ns \in SUBSET Nat, Ns # {} PROVE \E n \in Ns : \A m \in Ns : n <= m
<1>1. PICK n \in Ns : \A m \in Ns : <<m, n>> \notin OpToRel(<, Nat)
  BY NatLessThanWellFounded, WFMin
<1>2. \A m \in Ns : ~(m < n)
  BY <1>1 DEF OpToRel
<1> QED
  BY <1>2

\* An order of a set of addresses has each of them once.
LEMMA OrderFacts ==
  ASSUME NEW U \in SUBSET C!As, NEW s \in C!SetToSeqs(U)
  PROVE  /\ s \in Seq(C!As) /\ Len(s) \in Nat /\ Len(s) <= Addrs /\ DOMAIN s = 1 .. Len(s)
         /\ C!ToSet(s) = U /\ U = {s[i] : i \in 1 .. Len(s)}
<1> DEFINE n == Cardinality(U)
<1>0. \A V : C!Cardinality(V) = Cardinality(V)
  BY DEF C!Cardinality, Cardinality
<1>1. IsFiniteSet(C!As) /\ Cardinality(C!As) = Addrs
  BY CAssumption, FS_Interval DEF C!As
<1>2. IsFiniteSet(U) /\ n \in Nat /\ n <= Addrs
  BY <1>1, FS_Subset, FS_CardinalityType
<1>3. IsFiniteSet(1 .. n) /\ Cardinality(1 .. n) = n
  BY <1>2, FS_Interval
<1>4. s \in [1 .. n -> U] /\ \A i, j \in 1 .. n : i # j => s[i] # s[j]
  BY <1>0 DEF C!SetToSeqs
<1>5. s \in Injection(1 .. n, U)
  BY <1>4 DEF Injection, IsInjective
<1>6. s \in Surjection(1 .. n, U)
  BY <1>2, <1>3, <1>5, FS_Injection
<1> HIDE DEF n
<1>7. s \in Seq(C!As) /\ s \in [1 .. n -> C!As]
  BY <1>2, <1>4, SeqDef
<1>8. Len(s) = n /\ DOMAIN s = 1 .. n
  BY <1>2, <1>7, LenProperties
<1>9. U = {s[i] : i \in 1 .. n}
  BY <1>4, <1>6 DEF Surjection
<1> QED
  BY <1>2, <1>7, <1>8, <1>9 DEF C!ToSet

LEMMA SetFacts ==
  ASSUME NEW s \in Seq(C!As)
  PROVE  /\ Len(s) \in Nat /\ DOMAIN s = 1 .. Len(s) /\ C!ToSet(s) \subseteq C!As
         /\ s # <<>> => s[1] \in C!ToSet(s)
<1>1. Len(s) \in Nat /\ DOMAIN s = 1 .. Len(s) /\ s \in [1 .. Len(s) -> C!As]
  BY LenProperties
<1>2. s # <<>> => Len(s) # 0
  BY EmptySeq
<1>3. s # <<>> => 1 \in DOMAIN s
  BY <1>1, <1>2
<1> QED
  BY <1>1, <1>3 DEF C!ToSet

LEMMA FirstFacts ==
  ASSUME NEW s \in Seq(C!As), NEW n \in Nat
  PROVE  /\ C!First(s, n) \in Seq(C!As) /\ Len(C!First(s, n)) = C!Lesser(n, Len(s))
         /\ \A i \in 1 .. C!Lesser(n, Len(s)) : C!First(s, n)[i] = s[i]
         /\ C!ToSet(C!First(s, n)) \subseteq C!ToSet(s)
<1> DEFINE m == C!Lesser(n, Len(s))
<1>1. Len(s) \in Nat /\ DOMAIN s = 1 .. Len(s) /\ m \in Nat /\ m <= Len(s)
  BY LenProperties DEF C!Lesser
<1>2. \A i \in 1 .. m : s[i] \in C!As
  BY <1>1, ElementOfSeq
<1> HIDE DEF m
<1>3. /\ SubSeq(s, 1, m) \in Seq(C!As) /\ Len(SubSeq(s, 1, m)) = (IF 1 <= m THEN m - 1 + 1 ELSE 0)
      /\ \A i \in 1 .. m - 1 + 1 : SubSeq(s, 1, m)[i] = s[1 + i - 1]
  BY <1>1, <1>2, SubSeqProperties
<1>4. m - 1 + 1 = m /\ (IF 1 <= m THEN m - 1 + 1 ELSE 0) = m /\ \A i \in 1 .. m : 1 + i - 1 = i
  BY <1>1
<1>5. C!First(s, n) = SubSeq(s, 1, m)
  BY DEF C!First, m
<1>6. C!First(s, n) \in Seq(C!As) /\ Len(C!First(s, n)) = m /\ \A i \in 1 .. m : C!First(s, n)[i] = s[i]
  BY <1>3, <1>4, <1>5
<1>7. DOMAIN C!First(s, n) = 1 .. m
  BY <1>6, LenProperties
<1> QED
  BY <1>1, <1>6, <1>7 DEF C!ToSet, m

\* What is ordered by different keys from 1 on comes no later than its key says.
LEMMA NoLaterThanKey ==
  ASSUME NEW U \in SUBSET C!As, NEW key \in [U -> Nat \ {0}], NEW s \in C!Ordered(U, key), NEW i \in 1 .. Len(s)
  PROVE  i <= key[s[i]]
<1>1. s \in C!SetToSeqs(U) /\ \A j, k \in 1 .. Len(s) : j < k => key[s[j]] < key[s[k]]
  BY DEF C!Ordered
<1>2. Len(s) \in Nat /\ U = {s[j] : j \in 1 .. Len(s)}
  BY <1>1, OrderFacts
<1> DEFINE Late == {j \in 1 .. Len(s) : ~(j <= key[s[j]])}
<1> SUFFICES ASSUME Late # {} PROVE FALSE
  OBVIOUS
<1>3. Late \subseteq Nat
  OBVIOUS
<1>4. PICK j \in Late : \A k \in Late : j <= k
  BY <1>3, LeastNumber
<1>5. j \in 1 .. Len(s) /\ key[s[j]] < j /\ key[s[j]] \in Nat \ {0}
  BY <1>2, <1>4
<1>6. j - 1 \in 1 .. Len(s) /\ j - 1 < j /\ j - 1 \notin Late
  BY <1>2, <1>4, <1>5
<1>7. j - 1 <= key[s[j - 1]] /\ key[s[j - 1]] < key[s[j]] /\ key[s[j - 1]] \in Nat
  BY <1>1, <1>2, <1>5, <1>6
<1> QED
  BY <1>5, <1>7

\* A queue holds addresses of the places it is made from, and those of the first places.
LEMMA InOrderFacts ==
  ASSUME NEW v, NEW places \in SUBSET (C!Ts \X C!As), \A p \in places : v[p[1]][p[2]] \in C!As,
         NEW number \in [C!Ts \X C!As -> Nat \ {0}], settings \in Settings, NEW q \in C!InOrder(v, places, number)
  PROVE  /\ q \in Seq(C!As) /\ \A a \in C!ToSet(q) : \E p \in places : a = v[p[1]][p[2]]
         /\ \A p \in places : number[p] <= C!Cap => v[p[1]][p[2]] \in C!ToSet(q)
<1> DEFINE at(p) == v[p[1]][p[2]]
           held == {at(p) : p \in places}
           nums(a) == {number[p] : p \in {r \in places : at(r) = a}}
           key   == [a \in held |-> C!Min(nums(a))]
<1>1. PICK s \in C!Ordered(held, key) : q = C!First(s, C!Cap)
  BY DEF C!InOrder
<1>2. held \in SUBSET C!As /\ \A p \in places : at(p) \in held
  OBVIOUS
<1>3. ASSUME NEW a \in held PROVE key[a] \in nums(a) /\ \A n \in nums(a) : key[a] <= n
  <2>1. nums(a) \subseteq Nat /\ nums(a) # {}
    OBVIOUS
  <2>2. \E n \in nums(a) : \A m \in nums(a) : n <= m
    BY <2>1, LeastNumber
  <2> HIDE DEF nums
  <2>3. C!Min(nums(a)) \in nums(a) /\ \A n \in nums(a) : C!Min(nums(a)) <= n
    BY <2>2 DEF C!Min
  <2> QED
    BY <2>3
<1>4. key \in [held -> Nat \ {0}]
  <2>1. \A a \in held : nums(a) \subseteq Nat \ {0}
    OBVIOUS
  <2>2. \A a \in held : key[a] \in Nat \ {0}
    BY <1>3, <2>1
  <2> HIDE DEF nums, held
  <2> QED
    BY <2>2
<1>5. ASSUME NEW p \in places PROVE key[at(p)] <= number[p]
  <2>1. number[p] \in nums(at(p))
    OBVIOUS
  <2> HIDE DEF nums, held, key
  <2> QED
    BY <1>2, <1>3, <2>1
<1>6. \A a \in held : \E p \in places : a = at(p)
  OBVIOUS
<1> HIDE DEF held, key, nums
<1>7. /\ s \in Seq(C!As) /\ Len(s) \in Nat /\ C!ToSet(s) = held /\ held = {s[i] : i \in 1 .. Len(s)}
      /\ DOMAIN s = 1 .. Len(s)
  BY <1>1, <1>2, OrderFacts DEF C!Ordered
<1>8. C!Cap \in Nat
  BY CAssumption DEF C!Cap, C!Greater
<1>9. /\ q \in Seq(C!As) /\ Len(q) = C!Lesser(C!Cap, Len(s)) /\ \A i \in 1 .. C!Lesser(C!Cap, Len(s)) : q[i] = s[i]
      /\ C!ToSet(q) \subseteq held
  BY <1>1, <1>7, <1>8, FirstFacts
<1>10. ASSUME NEW p \in places, number[p] <= C!Cap PROVE at(p) \in C!ToSet(q)
  <2>1. PICK i \in 1 .. Len(s) : s[i] = at(p)
    BY <1>2, <1>7
  <2>2. i <= key[at(p)]
    BY <1>1, <1>2, <1>4, <2>1, NoLaterThanKey
  <2>3. number[p] \in Nat /\ key[at(p)] \in Nat
    BY <1>2, <1>4
  <2>4. i \in 1 .. C!Lesser(C!Cap, Len(s))
    BY <1>5, <1>7, <1>8, <1>10, <2>1, <2>2, <2>3 DEF C!Lesser
  <2>5. DOMAIN q = 1 .. C!Lesser(C!Cap, Len(s))
    BY <1>9, LenProperties
  <2> QED
    BY <1>9, <2>1, <2>4, <2>5 DEF C!ToSet
<1> QED
  BY <1>6, <1>9, <1>10

\* The queues of a scan: addresses that were verified, and, when they serve a floor
\* and have room for everyone, the best of each target.
LEMMA QueueFacts ==
  ASSUME NEW v \in [C!Ts -> Seq(C!As)], settings \in Settings, NEW q \in C!Queues(v)
  PROVE  /\ q \in Seq(C!As) /\ \A a \in C!ToSet(q) : \E t \in C!Ts : a \in C!ToSet(v[t])
         /\ settings.floor > 0 /\ settings.downloads > 0 /\ C!Cap >= Targets =>
              \A t \in C!Ts : v[t] # <<>> => v[t][1] \in C!ToSet(q)
<1> DEFINE byRank == [p \in C!Ts \X C!As |-> Targets * (p[2] - 1) + p[1]]
           byTarget == [p \in C!Ts \X C!As |-> Addrs * (p[1] - 1) + p[2]]
           places == {p \in C!Places(v) : p[2] <= settings.downloads}
<1>1. C!Places(v) \in SUBSET (C!Ts \X C!As) /\ places \in SUBSET (C!Ts \X C!As) /\ places \subseteq C!Places(v)
  BY DEF C!Places
<1>2. byRank \in [C!Ts \X C!As -> Nat \ {0}] /\ byTarget \in [C!Ts \X C!As -> Nat \ {0}]
  <2>1. ASSUME NEW p \in C!Ts \X C!As PROVE Targets * (p[2] - 1) + p[1] \in Nat \ {0} /\ Addrs * (p[1] - 1) + p[2] \in Nat \ {0}
    <3>1. p[1] \in Nat \ {0} /\ p[2] \in Nat \ {0} /\ p[1] - 1 \in Nat /\ p[2] - 1 \in Nat
      BY CAssumption DEF C!Ts, C!As
    <3>2. \A x, y \in Nat : x * y \in Nat
      OBVIOUS
    <3>3. Targets * (p[2] - 1) \in Nat /\ Addrs * (p[1] - 1) \in Nat
      BY <3>1, <3>2, CAssumption
    <3> QED
      BY <3>1, <3>3
  <2> QED
    BY <2>1
<1>3. ASSUME NEW p \in C!Places(v) PROVE p[1] \in C!Ts /\ v[p[1]][p[2]] \in C!As /\ v[p[1]][p[2]] \in C!ToSet(v[p[1]])
  <2>1. p[1] \in C!Ts /\ v[p[1]] \in Seq(C!As) /\ p[2] \in 1 .. Len(v[p[1]])
    BY <1>3, LenProperties, CAssumption DEF C!Places, C!As
  <2> QED
    BY <2>1, ElementOfSeq, LenProperties DEF C!ToSet
<1>4. settings.downloads \in Nat /\ settings.floor \in Nat
  BY CAssumption
<1> HIDE DEF byRank, byTarget, places
<1>5. CASE settings.downloads = 0
  <2>1. q = <<>>
    BY <1>5 DEF C!Queues
  <2>2. q \in Seq(C!As) /\ C!ToSet(q) = {}
    BY <2>1 DEF C!ToSet
  <2> QED
    BY <1>5, <2>2
<1>6. CASE settings.downloads # 0 /\ settings.floor > 0
  <2>1. q \in C!InOrder(v, C!Places(v), byRank)
    BY <1>6 DEF C!Queues, C!OrderedDownloads, byRank
  <2>2. /\ q \in Seq(C!As) /\ \A a \in C!ToSet(q) : \E p \in C!Places(v) : a = v[p[1]][p[2]]
        /\ \A p \in C!Places(v) : byRank[p] <= C!Cap => v[p[1]][p[2]] \in C!ToSet(q)
    BY <1>1, <1>2, <1>3, <2>1, InOrderFacts
  <2>3. ASSUME C!Cap >= Targets, NEW t \in C!Ts, v[t] # <<>> PROVE v[t][1] \in C!ToSet(q)
    <3>1. Len(v[t]) \in Nat \ {0} /\ v[t][1] \in C!As
      <4>1. v[t] \in Seq(C!As)
        OBVIOUS
      <4>2. Len(v[t]) \in Nat \ {0}
        BY <2>3, <4>1, EmptySeq
      <4> QED
        BY <4>1, <4>2, ElementOfSeq
    <3>2. 1 \in C!As
      BY <3>1, CAssumption DEF C!As
    <3>3. <<t, 1>> \in C!Places(v)
      BY <3>1, <3>2 DEF C!Places
    <3>4. byRank[<<t, 1>>] = t
      <4>1. byRank[<<t, 1>>] = Targets * (1 - 1) + t
        BY <3>2 DEF byRank
      <4>2. t \in Nat /\ Targets * 0 = 0 /\ 1 - 1 = 0
        BY CAssumption DEF C!Ts
      <4> QED
        BY <4>1, <4>2
    <3>5. t <= C!Cap
      BY <2>3, CAssumption DEF C!Ts, C!Cap, C!Greater
    <3>6. v[<<t, 1>>[1]][<<t, 1>>[2]] \in C!ToSet(q)
      BY <2>2, <3>3, <3>4, <3>5
    <3> QED
      BY <3>6
  <2> QED
    BY <1>3, <2>2, <2>3
<1>7. CASE settings.downloads # 0 /\ ~(settings.floor > 0)
  <2>1. q \in C!InOrder(v, places, byTarget)
    BY <1>7 DEF C!Queues, C!InitialDownloads, byTarget, places
  <2>2. \A p \in places : v[p[1]][p[2]] \in C!As
    BY <1>1, <1>3
  <2>3. /\ q \in Seq(C!As) /\ \A a \in C!ToSet(q) : \E p \in places : a = v[p[1]][p[2]]
        /\ \A p \in places : byTarget[p] <= C!Cap => v[p[1]][p[2]] \in C!ToSet(q)
    BY <1>1, <1>2, <2>1, <2>2, InOrderFacts
  <2> QED
    BY <1>1, <1>3, <1>7, <2>3
<1> QED
  BY <1>5, <1>6, <1>7

\* Among some addresses there is one that is better than the others.
LEMMA BestExists ==
  ASSUME NEW U \in SUBSET C!As, U # {}, \A a \in C!As : C!Mbps(a) \in Nat
  PROVE  \E a \in U : \A b \in U \ {a} : C!Better(a, b)
<1> DEFINE Bounded(n) == \E m \in Nat : \A a \in 1 .. n : C!Mbps(a) <= m
           Unbounded == {n \in 0 .. Addrs : ~Bounded(n)}
           Bounds == {m \in Nat : \A a \in U : C!Mbps(a) <= m}
<1>1. Unbounded = {}
  <2> SUFFICES ASSUME Unbounded # {} PROVE FALSE
    OBVIOUS
  <2>1. PICK n \in Unbounded : \A k \in Unbounded : n <= k
    <3>1. Unbounded \subseteq Nat
      BY CAssumption
    <3> HIDE DEF Unbounded
    <3> QED
      BY <3>1, LeastNumber
  <2>2. n \in 0 .. Addrs /\ ~Bounded(n)
    OBVIOUS
  <2>3. n # 0
    <3>1. 0 \in Nat /\ \A a \in 1 .. 0 : C!Mbps(a) <= 0
      OBVIOUS
    <3> QED
      BY <2>2, <3>1
  <2>4. n - 1 \in 0 .. Addrs /\ n - 1 < n /\ n \in C!As
    BY <2>2, <2>3, CAssumption DEF C!As
  <2>5. Bounded(n - 1)
    <3>1. n - 1 \notin Unbounded
      <4> HIDE DEF Unbounded
      <4> QED
        BY <2>1, <2>4, <2>2, CAssumption
    <3> QED
      BY <2>4, <3>1
  <2>6. PICK m \in Nat : \A a \in 1 .. n - 1 : C!Mbps(a) <= m
    BY <2>5
  <2> DEFINE top == IF C!Mbps(n) <= m THEN m ELSE C!Mbps(n)
  <2>7. top \in Nat /\ m <= top /\ C!Mbps(n) <= top
    BY <2>4
  <2>8. \A a \in 1 .. n : C!Mbps(a) <= top
    <3> SUFFICES ASSUME NEW a \in 1 .. n PROVE C!Mbps(a) <= top
      OBVIOUS
    <3>1. CASE a = n
      BY <2>7, <3>1
    <3>2. CASE a # n
      <4>1. a \in 1 .. n - 1 /\ a \in C!As
        BY <2>2, <3>2, CAssumption DEF C!As
      <4>2. C!Mbps(a) <= m /\ C!Mbps(a) \in Nat
        BY <2>6, <4>1
      <4> HIDE DEF top
      <4> QED
        BY <2>7, <4>2
    <3> QED
      BY <3>1, <3>2
  <2> HIDE DEF top
  <2>9. Bounded(n)
    BY <2>7, <2>8
  <2> QED
    BY <2>2, <2>9
<1>2. Bounds # {}
  <2>1. Addrs \in 0 .. Addrs
    BY CAssumption
  <2>2. Bounded(Addrs)
    BY <1>1, <2>1
  <2> QED
    BY <2>2 DEF C!As
<1>3. PICK m \in Bounds : \A k \in Bounds : m <= k
  <2>1. Bounds \subseteq Nat
    OBVIOUS
  <2> QED
    BY <1>2, <2>1, LeastNumber
<1>4. m \in Nat /\ \A a \in U : C!Mbps(a) <= m /\ C!Mbps(a) \in Nat
  OBVIOUS
<1> DEFINE Top == {a \in U : C!Mbps(a) = m}
<1>5. Top # {}
  <2> SUFFICES ASSUME Top = {} PROVE FALSE
    OBVIOUS
  <2>1. \A a \in U : C!Mbps(a) < m /\ C!Mbps(a) \in Nat
    BY <1>4
  <2>2. m # 0 /\ m - 1 \in Nat /\ m - 1 < m
    BY <1>4, <2>1
  <2>3. \A a \in U : C!Mbps(a) <= m - 1
    BY <1>4, <2>1
  <2>4. m - 1 \in Bounds
    BY <2>2, <2>3
  <2> HIDE DEF Bounds
  <2> QED
    BY <1>3, <1>4, <2>2, <2>4
<1>6. PICK a \in Top : \A b \in Top : a <= b
  <2>1. Top \subseteq C!As
    OBVIOUS
  <2>3. C!As \subseteq Nat
    BY CAssumption DEF C!As
  <2>2. Top \subseteq Nat
    BY <2>1, <2>3
  <2> HIDE DEF Top
  <2> QED
    BY <1>5, <2>2, LeastNumber
<1>7. ASSUME NEW b \in U \ {a} PROVE C!Better(a, b)
  <2>1. a \in Nat /\ b \in Nat /\ a # b /\ C!Mbps(a) = m
    BY CAssumption DEF C!As
  <2>2. CASE C!Mbps(b) = m
    <3>1. a <= b
      BY <1>6, <2>2
    <3> QED
      BY <2>1, <2>2, <3>1 DEF C!Better
  <2>3. CASE C!Mbps(b) # m
    <3>1. C!Mbps(b) < m
      BY <1>4, <2>3
    <3> QED
      BY <2>1, <3>1 DEF C!Better
  <2> QED
    BY <2>2, <2>3
<1> QED
  BY <1>7

----------------------------------------------------------------------------
(* What holds throughout a scan.                                           *)
ScanTypes ==
  /\ phase \in {"tcp", "https", "download", "done", "error"} /\ settings \in Settings
  /\ coarse \in Seq(C!As) /\ Len(coarse) <= Addrs /\ start \in 0 .. Addrs + settings.window /\ turn \in 1 .. Targets + 1
  /\ verified \in [C!Ts -> Seq(C!As)] /\ tried \in [C!Ts -> Nat] /\ queue \in Seq(C!As)
  /\ speed \in [C!As -> Nat \cup {C!Unmeasured}] /\ cut \in BOOLEAN
  /\ answer.chosen \in [C!Ts -> 0 .. Addrs] /\ answer.rejected \subseteq C!Ts
  /\ \A t \in C!Ts : C!ToSet(verified[t]) \subseteq C!ToSet(coarse)
  /\ C!ToSet(queue) \subseteq C!ToSet(coarse)
  /\ phase = "tcp" => queue = <<>> /\ \A t \in C!Ts : verified[t] = <<>>

\* In a round whoever still lacks addresses has tried every window so far, and those
\* whose turn has been one more; nobody has tried more than they.
HadTurn(t) == IF t < turn THEN 1 ELSE 0
InRound(n) ==
  \A t \in C!Ts : /\ tried[t] <= n + HadTurn(t)
                  /\ Len(verified[t]) < C!Required => tried[t] = n + HadTurn(t)
RoundInv == phase \in {"tcp", "https"} => \E n \in Nat : InRound(n)

\* With a floor and room for everyone the best of each target is measured or waits.
Roomy == settings.floor > 0 /\ settings.downloads > 0 /\ C!Cap >= Targets
QueueInv == phase = "download" /\ Roomy => \A t \in C!Ts : C!Some(t) => verified[t][1] \in C!ToSet(queue) \cup C!Measured

ScanInv ==
  /\ ScanTypes /\ RoundInv /\ QueueInv
  /\ C!EveryTargetMeasured /\ C!EveryVerifiedDecided /\ C!EarlyEndIsJustified

LEMMA SettingFacts ==
  ASSUME settings \in Settings
  PROVE  /\ settings.window \in Nat \ {0} /\ settings.downloads \in Nat /\ settings.floor \in Nat
         /\ C!Required \in Nat /\ C!Cap \in Nat
BY CAssumption DEF C!Required, C!Cap, C!Greater, C!Lesser

LEMMA ScanStart == C!ScanInit => ScanInv
<1> SUFFICES ASSUME C!ScanInit PROVE ScanInv
  OBVIOUS
<1> USE DEF C!ScanInit
<1>1. settings.window \in Nat \ {0} /\ C!Required \in Nat
  BY SettingFacts
<1>2. <<>> \in Seq(C!As) /\ Len(<<>>) = 0 /\ C!ToSet(<<>>) = {}
  BY EmptySeq DEF C!ToSet
<1>3. ScanTypes
  <2>1. answer.chosen \in [C!Ts -> 0 .. Addrs] /\ answer.rejected \subseteq C!Ts
    BY CAssumption
  <2>2. verified \in [C!Ts -> Seq(C!As)] /\ tried \in [C!Ts -> Nat] /\ speed \in [C!As -> Nat \cup {C!Unmeasured}]
    BY <1>2
  <2>3. start \in 0 .. Addrs + settings.window /\ turn \in 1 .. Targets + 1 /\ Len(coarse) <= Addrs
    BY <1>1, <1>2, CAssumption
  <2>4. \A t \in C!Ts : verified[t] = <<>>
    OBVIOUS
  <2> QED
    BY <1>1, <1>2, <2>1, <2>2, <2>3, <2>4 DEF ScanTypes
<1>4. InRound(0)
  <2>1. \A t \in C!Ts : HadTurn(t) = 0 /\ tried[t] = 0
    BY DEF HadTurn, C!Ts
  <2> QED
    BY <2>1 DEF InRound
<1> QED
  BY <1>3, <1>4 DEF ScanInv, RoundInv, QueueInv, C!EveryTargetMeasured, C!EveryVerifiedDecided, C!EarlyEndIsJustified

\* What is said of the end is said once: no step leaves it.
LEMMA NotYetDone ==
  ASSUME phase' # "done"
  PROVE  C!EveryTargetMeasured' /\ C!EveryVerifiedDecided' /\ C!EarlyEndIsJustified'
BY DEF C!EveryTargetMeasured, C!EveryVerifiedDecided, C!EarlyEndIsJustified

LEMMA CoarseKeeps == ASSUME ScanInv, C!Coarse PROVE ScanInv'
<1>1. ScanTypes /\ RoundInv
  BY DEF ScanInv
<1>2. /\ phase = "tcp" /\ phase' \in {"error", "https"}
      /\ UNCHANGED <<settings, start, turn, needed, verified, tried, queue, speed, cut, answer>>
  BY DEF C!Coarse
<1>3. coarse' \in Seq(C!As) /\ Len(coarse') <= Addrs
  <2>1. PICK answered \in SUBSET C!As : coarse' \in C!Ordered(answered, C!ByRank)
    BY DEF C!Coarse
  <2> QED
    BY <2>1, OrderFacts DEF C!Ordered
<1>4. C!ToSet(<<>>) = {}
  BY DEF C!ToSet
<1>5. ScanTypes'
  BY <1>1, <1>2, <1>3, <1>4 DEF ScanTypes
<1>6. RoundInv'
  BY <1>1, <1>2 DEF RoundInv, InRound, HadTurn, C!Required
<1>7. QueueInv' /\ phase' # "done"
  BY <1>2 DEF QueueInv
<1> QED
  BY <1>5, <1>6, <1>7, NotYetDone DEF ScanInv

LEMMA JoinFacts ==
  ASSUME NEW s \in Seq(C!As), NEW r \in Seq(C!As)
  PROVE  /\ s \o r \in Seq(C!As) /\ Len(s \o r) = Len(s) + Len(r) /\ Len(s) \in Nat /\ Len(r) \in Nat
         /\ C!ToSet(s \o r) \subseteq C!ToSet(s) \cup C!ToSet(r)
<1>1. /\ s \o r \in Seq(C!As) /\ Len(s \o r) = Len(s) + Len(r) /\ Len(s) \in Nat /\ Len(r) \in Nat
      /\ \A i \in 1 .. Len(s) + Len(r) : (s \o r)[i] = IF i <= Len(s) THEN s[i] ELSE r[i - Len(s)]
      /\ DOMAIN s = 1 .. Len(s) /\ DOMAIN r = 1 .. Len(r)
  BY ConcatProperties, LenProperties
<1>2. DOMAIN (s \o r) = 1 .. Len(s) + Len(r)
  BY <1>1, LenProperties
<1>3. ASSUME NEW i \in 1 .. Len(s) + Len(r) PROVE (s \o r)[i] \in C!ToSet(s) \cup C!ToSet(r)
  <2>1. CASE i <= Len(s)
    BY <1>1, <2>1 DEF C!ToSet
  <2>2. CASE ~(i <= Len(s))
    <3>1. i - Len(s) \in 1 .. Len(r)
      BY <1>1, <2>2
    <3> QED
      BY <1>1, <2>2, <3>1 DEF C!ToSet
  <2> QED
    BY <2>1, <2>2
<1> QED
  BY <1>1, <1>2, <1>3 DEF C!ToSet

LEMMA TryWindowKeeps == ASSUME ScanInv, C!TryWindow PROVE ScanInv'
<1>1. ScanTypes /\ RoundInv
  BY DEF ScanInv
<1>2. /\ phase = "https" /\ turn \in C!Ts /\ start < Len(coarse) /\ Len(verified[turn]) < C!Required
      /\ tried' = [tried EXCEPT ![turn] = @ + 1] /\ start' = start /\ turn' = turn + 1
      /\ UNCHANGED <<phase, settings, coarse, queue, speed, cut, answer>>
  BY <1>1, CAssumption DEF C!TryWindow, C!Rotate, ScanTypes, C!Ts
<1>3. PICK good \in SUBSET C!ToSet(C!Window) :
        \E s \in C!Ordered(good, C!ByRank) : verified' = [verified EXCEPT ![turn] = @ \o s]
  BY DEF C!TryWindow
<1>30. PICK s \in C!Ordered(good, C!ByRank) : verified' = [verified EXCEPT ![turn] = @ \o s]
  BY <1>3
<1>4. /\ settings.window \in Nat \ {0} /\ C!Required \in Nat /\ start \in Nat /\ Len(coarse) \in Nat
      /\ DOMAIN coarse = 1 .. Len(coarse) /\ coarse \in [1 .. Len(coarse) -> C!As]
  BY <1>1, SettingFacts, LenProperties DEF ScanTypes
<1>5. C!ToSet(C!Window) \subseteq C!ToSet(coarse) /\ C!ToSet(coarse) \subseteq C!As
  <2> DEFINE m == C!Lesser(start + settings.window, Len(coarse))
  <2>1. m \in Nat /\ start + 1 <= m /\ m <= Len(coarse)
    BY <1>2, <1>4 DEF C!Lesser
  <2>2. \A i \in start + 1 .. m : coarse[i] \in C!As
    BY <1>4, <2>1
  <2> HIDE DEF m
  <2>3. /\ SubSeq(coarse, start + 1, m) \in Seq(C!As)
        /\ Len(SubSeq(coarse, start + 1, m)) = (IF start + 1 <= m THEN m - (start + 1) + 1 ELSE 0)
        /\ \A i \in 1 .. m - (start + 1) + 1 : SubSeq(coarse, start + 1, m)[i] = coarse[start + 1 + i - 1]
    BY <1>4, <2>1, <2>2, SubSeqProperties
  <2>4. Len(SubSeq(coarse, start + 1, m)) = m - start /\ \A i \in 1 .. m - start : SubSeq(coarse, start + 1, m)[i] = coarse[start + i]
    <3>1. m - (start + 1) + 1 = m - start /\ \A i \in 1 .. m - start : start + 1 + i - 1 = start + i
      BY <1>4, <2>1
    <3> QED
      BY <2>1, <2>3, <3>1
  <2>5. DOMAIN SubSeq(coarse, start + 1, m) = 1 .. m - start
    BY <2>3, <2>4, LenProperties
  <2>6. \A i \in 1 .. m - start : start + i \in 1 .. Len(coarse)
    BY <1>4, <2>1
  <2>7. C!Window = SubSeq(coarse, start + 1, m)
    BY DEF C!Window, m
  <2>8. ASSUME NEW x \in C!ToSet(C!Window) PROVE \E i \in 1 .. Len(coarse) : x = coarse[i]
    <3>1. PICK i \in 1 .. m - start : x = SubSeq(coarse, start + 1, m)[i]
      BY <2>5, <2>7 DEF C!ToSet
    <3> QED
      BY <2>4, <2>6, <3>1
  <2> QED
    BY <1>4, <2>8 DEF C!ToSet
<1>6. s \in Seq(C!As) /\ C!ToSet(s) \subseteq C!ToSet(coarse)
  <2>1. good \in SUBSET C!As /\ s \in C!SetToSeqs(good)
    BY <1>3, <1>5 DEF C!Ordered
  <2> QED
    BY <1>3, <1>5, <2>1, OrderFacts
<1> DEFINE w == verified[turn] \o s
<1>7. w \in Seq(C!As) /\ Len(w) >= Len(verified[turn]) /\ Len(w) \in Nat /\ Len(verified[turn]) \in Nat /\ C!ToSet(w) \subseteq C!ToSet(coarse)
  <2>1. verified[turn] \in Seq(C!As) /\ C!ToSet(verified[turn]) \subseteq C!ToSet(coarse)
    BY <1>1, <1>2 DEF ScanTypes
  <2> QED
    BY <1>6, <2>1, JoinFacts
<1>8. /\ verified' \in [C!Ts -> Seq(C!As)] /\ verified'[turn] = w /\ \A t \in C!Ts : t # turn => verified'[t] = verified[t]
      /\ tried' \in [C!Ts -> Nat] /\ tried'[turn] = tried[turn] + 1 /\ \A t \in C!Ts : t # turn => tried'[t] = tried[t]
      /\ turn' \in 1 .. Targets + 1
  <2>1. verified \in [C!Ts -> Seq(C!As)] /\ tried \in [C!Ts -> Nat]
    BY <1>1 DEF ScanTypes
  <2>2. verified' \in [C!Ts -> Seq(C!As)] /\ verified'[turn] = w /\ \A t \in C!Ts : t # turn => verified'[t] = verified[t]
    BY <1>2, <1>30, <1>7, <2>1
  <2>3. tried' \in [C!Ts -> Nat] /\ tried'[turn] = tried[turn] + 1 /\ \A t \in C!Ts : t # turn => tried'[t] = tried[t]
    BY <1>2, <2>1
  <2>4. turn' \in 1 .. Targets + 1
    BY <1>2, CAssumption DEF C!Ts
  <2> QED
    BY <2>2, <2>3, <2>4
<1> HIDE DEF w
<1>9. ScanTypes'
  BY <1>1, <1>2, <1>7, <1>8 DEF ScanTypes
<1>10. RoundInv'
  <2>1. PICK n \in Nat : InRound(n)
    BY <1>1, <1>2 DEF RoundInv
  <2>2. C!Required' = C!Required
    BY <1>2 DEF C!Required
  <2>3. ASSUME NEW t \in C!Ts
        PROVE  tried'[t] <= n + HadTurn(t)' /\ (Len(verified'[t]) < C!Required => tried'[t] = n + HadTurn(t)')
    <3>1. tried[t] <= n + HadTurn(t) /\ (Len(verified[t]) < C!Required => tried[t] = n + HadTurn(t)) /\ tried[t] \in Nat
      BY <1>1, <2>1 DEF InRound, ScanTypes
    <3>2. CASE t = turn
      <4>1. HadTurn(t) = 0 /\ HadTurn(t)' = 1 /\ tried'[t] = tried[t] + 1
        BY <1>2, <1>8, <3>2, CAssumption DEF HadTurn, C!Ts
      <4>2. tried[t] = n
        BY <1>2, <3>1, <3>2, <4>1
      <4> QED
        BY <4>1, <4>2
    <3>3. CASE t # turn
      <4>1. HadTurn(t)' = HadTurn(t)
        BY <1>2, <3>3, CAssumption DEF HadTurn, C!Ts
      <4> QED
        BY <1>8, <3>1, <3>3, <4>1
    <3> QED
      BY <3>2, <3>3
  <2>4. InRound(n)'
    BY <2>2, <2>3 DEF InRound
  <2> QED
    BY <2>4 DEF RoundInv
<1>11. QueueInv' /\ phase' # "done"
  BY <1>2 DEF QueueInv
<1> QED
  BY <1>9, <1>10, <1>11, NotYetDone DEF ScanInv

LEMMA SkipTargetKeeps == ASSUME ScanInv, C!SkipTarget PROVE ScanInv'
<1>1. ScanTypes /\ RoundInv
  BY DEF ScanInv
<1>2. /\ phase = "https" /\ turn \in C!Ts /\ Len(verified[turn]) >= C!Required /\ turn' = turn + 1
      /\ UNCHANGED <<phase, settings, coarse, start, needed, verified, tried, queue, speed, cut, answer>>
  BY <1>1, CAssumption DEF C!SkipTarget, ScanTypes, C!Ts
<1>3. turn' \in 1 .. Targets + 1
  BY <1>2, CAssumption DEF C!Ts
<1>4. ScanTypes'
  BY <1>1, <1>2, <1>3 DEF ScanTypes
<1>5. RoundInv'
  <2>1. PICK n \in Nat : InRound(n)
    BY <1>1, <1>2 DEF RoundInv
  <2>2. C!Required' = C!Required
    BY <1>2 DEF C!Required
  <2>3. ASSUME NEW t \in C!Ts
        PROVE  tried[t] <= n + HadTurn(t)' /\ (Len(verified[t]) < C!Required => tried[t] = n + HadTurn(t)')
    <3>1. tried[t] <= n + HadTurn(t) /\ (Len(verified[t]) < C!Required => tried[t] = n + HadTurn(t)) /\ tried[t] \in Nat
      BY <1>1, <2>1 DEF InRound, ScanTypes
    <3>2. CASE t = turn
      <4>1. HadTurn(t) = 0 /\ HadTurn(t)' = 1
        BY <1>2, <3>2, CAssumption DEF HadTurn, C!Ts
      <4>2. Len(verified[t]) \in Nat /\ C!Required \in Nat
        BY <1>1, SettingFacts, LenProperties DEF ScanTypes
      <4>3. ~(Len(verified[t]) < C!Required)
        BY <1>2, <3>2, <4>2
      <4> QED
        BY <3>1, <4>1, <4>3
    <3>3. CASE t # turn
      <4>1. HadTurn(t)' = HadTurn(t)
        BY <1>2, <3>3, CAssumption DEF HadTurn, C!Ts
      <4> QED
        BY <3>1, <4>1
    <3> QED
      BY <3>2, <3>3
  <2>4. InRound(n)'
    BY <1>2, <2>2, <2>3 DEF InRound
  <2> QED
    BY <2>4 DEF RoundInv
<1>6. QueueInv' /\ phase' # "done"
  BY <1>2 DEF QueueInv
<1> QED
  BY <1>4, <1>5, <1>6, NotYetDone DEF ScanInv

LEMMA NextWindowKeeps == ASSUME ScanInv, C!NextWindow PROVE ScanInv'
<1>1. ScanTypes /\ RoundInv
  BY DEF ScanInv
<1>2. /\ phase = "https" /\ turn > Targets /\ start < Len(coarse) /\ start' = start + settings.window /\ turn' = 1
      /\ UNCHANGED <<phase, settings, coarse, verified, tried, queue, speed, cut, answer>>
  BY DEF C!NextWindow
<1>3. start' \in 0 .. Addrs + settings.window /\ turn' \in 1 .. Targets + 1
  <2>1. settings.window \in Nat /\ start \in Nat /\ Len(coarse) \in Nat /\ Len(coarse) <= Addrs
    BY <1>1, SettingFacts, LenProperties DEF ScanTypes
  <2> QED
    BY <1>2, <2>1, CAssumption
<1>4. ScanTypes'
  BY <1>1, <1>2, <1>3 DEF ScanTypes
<1>5. RoundInv'
  <2>1. PICK n \in Nat : InRound(n)
    BY <1>1, <1>2 DEF RoundInv
  <2>2. C!Required' = C!Required
    BY <1>2 DEF C!Required
  <2>3. \A t \in C!Ts : HadTurn(t) = 1 /\ HadTurn(t)' = 0 /\ n + 1 = n + 1 + 0
    BY <1>1, <1>2, CAssumption DEF HadTurn, C!Ts, ScanTypes
  <2>4. InRound(n + 1)'
    <3>1. ASSUME NEW t \in C!Ts
          PROVE  tried[t] <= n + 1 + HadTurn(t)' /\ (Len(verified[t]) < C!Required => tried[t] = n + 1 + HadTurn(t)')
      BY <2>1, <2>3 DEF InRound
    <3> QED
      BY <1>2, <2>2, <3>1 DEF InRound
  <2> QED
    BY <2>4 DEF RoundInv
<1>6. QueueInv' /\ phase' # "done"
  BY <1>2 DEF QueueInv
<1> QED
  BY <1>4, <1>5, <1>6, NotYetDone DEF ScanInv

LEMMA RankVerifiedKeeps == ASSUME ScanInv, C!RankVerified PROVE ScanInv'
<1>1. ScanTypes /\ RoundInv
  BY DEF ScanInv
<1>2. /\ phase = "https" /\ phase' \in {"error", "download"}
      /\ UNCHANGED <<settings, coarse, start, turn, needed, tried, speed, cut, answer>>
  BY DEF C!RankVerified
<1>3. PICK order \in [C!Ts -> UNION {C!SetToSeqs(C!ToSet(verified[t])) : t \in C!Ts}] :
        /\ \A t \in C!Ts : order[t] \in C!SetToSeqs(C!ToSet(verified[t]))
        /\ verified' = [t \in C!Ts |-> C!First(order[t], settings.window)]
        /\ queue' \in C!Queues(verified')
  BY DEF C!RankVerified
<1>4. settings \in Settings /\ settings.window \in Nat
  BY <1>1, SettingFacts DEF ScanTypes
<1>5. ASSUME NEW t \in C!Ts
      PROVE  C!First(order[t], settings.window) \in Seq(C!As) /\ C!ToSet(C!First(order[t], settings.window)) \subseteq C!ToSet(coarse)
  <2>1. C!ToSet(verified[t]) \subseteq C!ToSet(coarse) /\ C!ToSet(coarse) \subseteq C!As
    BY <1>1, SetFacts DEF ScanTypes
  <2>2. order[t] \in Seq(C!As) /\ C!ToSet(order[t]) = C!ToSet(verified[t])
    BY <1>3, <2>1, OrderFacts
  <2> QED
    BY <1>4, <2>1, <2>2, FirstFacts
<1>6. verified' \in [C!Ts -> Seq(C!As)] /\ \A t \in C!Ts : C!ToSet(verified'[t]) \subseteq C!ToSet(coarse)
  BY <1>3, <1>5
<1> DEFINE v == verified'
<1>7. v \in [C!Ts -> Seq(C!As)] /\ queue' \in C!Queues(v) /\ \A t \in C!Ts : C!ToSet(v[t]) \subseteq C!ToSet(coarse)
  BY <1>3, <1>6
<1> HIDE DEF v
<1>8. /\ queue' \in Seq(C!As) /\ \A a \in C!ToSet(queue') : \E t \in C!Ts : a \in C!ToSet(v[t])
      /\ settings.floor > 0 /\ settings.downloads > 0 /\ C!Cap >= Targets =>
           \A t \in C!Ts : v[t] # <<>> => v[t][1] \in C!ToSet(queue')
  BY <1>4, <1>7, QueueFacts
<1>9. ScanTypes'
  <2>1. C!ToSet(queue') \subseteq C!ToSet(coarse)
    BY <1>7, <1>8
  <2> QED
    BY <1>1, <1>2, <1>6, <1>8, <2>1 DEF ScanTypes
<1>10. QueueInv'
  <2>1. Roomy' = Roomy
    BY <1>2 DEF Roomy, C!Cap
  <2>2. Roomy => \A t \in C!Ts : verified'[t] # <<>> => verified'[t][1] \in C!ToSet(queue')
    BY <1>8 DEF Roomy, v
  <2> QED
    BY <2>1, <2>2 DEF QueueInv, C!Some
<1>11. RoundInv' /\ phase' # "done"
  BY <1>2 DEF RoundInv
<1> QED
  BY <1>9, <1>10, <1>11, NotYetDone DEF ScanInv

LEMMA DownloadKeeps == ASSUME ScanInv, C!Download PROVE ScanInv'
<1>1. ScanTypes /\ QueueInv
  BY DEF ScanInv
<1>2. /\ phase = "download" /\ queue # <<>> /\ queue' = Tail(queue)
      /\ UNCHANGED <<phase, settings, coarse, start, turn, needed, verified, tried, cut, answer>>
  BY DEF C!Download
<1>3. PICK s \in Speeds : speed' = [speed EXCEPT ![Head(queue)] = s]
  BY DEF C!Download
<1>4. s \in Nat /\ s # C!Unmeasured
  BY CAssumption DEF C!Unmeasured
<1>5. /\ Tail(queue) \in Seq(C!As) /\ Head(queue) \in C!As
      /\ C!ToSet(queue) = {Head(queue)} \cup C!ToSet(Tail(queue))
  <2>1. queue \in Seq(C!As)
    BY <1>1 DEF ScanTypes
  <2>2. Len(queue) \in Nat /\ Len(queue) # 0 /\ DOMAIN queue = 1 .. Len(queue)
    BY <2>1, <1>2, EmptySeq, LenProperties
  <2>3. /\ Tail(queue) \in Seq(C!As) /\ Len(Tail(queue)) = Len(queue) - 1
        /\ \A i \in 1 .. Len(Tail(queue)) : Tail(queue)[i] = queue[i + 1]
        /\ Head(queue) = queue[1] /\ Head(queue) \in C!As
    BY <1>2, <2>1, HeadTailProperties, ElementOfSeq
  <2>4. DOMAIN Tail(queue) = 1 .. Len(queue) - 1
    BY <2>3, LenProperties
  <2>5. ASSUME NEW i \in 1 .. Len(queue) PROVE queue[i] \in {Head(queue)} \cup C!ToSet(Tail(queue))
    <3>1. CASE i = 1
      BY <2>3, <3>1
    <3>2. CASE i # 1
      <4>1. i - 1 \in 1 .. Len(queue) - 1 /\ i - 1 + 1 = i
        BY <2>2, <3>2
      <4>2. Tail(queue)[i - 1] = queue[i]
        BY <2>3, <4>1
      <4> QED
        BY <2>4, <4>1, <4>2 DEF C!ToSet
    <3> QED
      BY <3>1, <3>2
  <2>6. ASSUME NEW i \in 1 .. Len(queue) - 1 PROVE Tail(queue)[i] \in C!ToSet(queue)
    <3>1. i + 1 \in 1 .. Len(queue)
      BY <2>2
    <3> QED
      BY <2>2, <2>3, <3>1 DEF C!ToSet
  <2>7. queue[1] \in C!ToSet(queue)
    BY <2>2 DEF C!ToSet
  <2> QED
    BY <2>2, <2>3, <2>4, <2>5, <2>6, <2>7 DEF C!ToSet
<1>6. speed' \in [C!As -> Nat \cup {C!Unmeasured}] /\ C!Measured \cup {Head(queue)} \subseteq C!Measured'
  <2>1. speed \in [C!As -> Nat \cup {C!Unmeasured}]
    BY <1>1 DEF ScanTypes
  <2>2. speed' \in [C!As -> Nat \cup {C!Unmeasured}]
    BY <1>3, <1>4, <1>5, <2>1
  <2>3. \A a \in C!Measured \cup {Head(queue)} : a \in C!As /\ speed'[a] # C!Unmeasured
    BY <1>3, <1>4, <1>5, <2>1 DEF C!Measured
  <2> QED
    BY <2>2, <2>3 DEF C!Measured
<1>7. ScanTypes'
  <2>1. C!ToSet(Tail(queue)) \subseteq C!ToSet(coarse)
    BY <1>1, <1>5 DEF ScanTypes
  <2> QED
    BY <1>1, <1>2, <1>5, <1>6, <2>1 DEF ScanTypes
<1>8. QueueInv'
  <2>1. Roomy' = Roomy
    BY <1>2 DEF Roomy, C!Cap
  <2> QED
    BY <1>1, <1>2, <1>5, <1>6, <2>1 DEF QueueInv, C!Some
<1>9. RoundInv' /\ phase' # "done"
  BY <1>2 DEF RoundInv
<1> QED
  BY <1>7, <1>8, <1>9, NotYetDone DEF ScanInv

LEMMA ContextEndsKeeps == ASSUME ScanInv, C!ContextEnds PROVE ScanInv'
<1>1. ScanTypes /\ QueueInv
  BY DEF ScanInv
<1>2. /\ phase = "download" /\ cut' = TRUE
      /\ UNCHANGED <<phase, settings, coarse, start, turn, needed, verified, tried, queue, speed, answer>>
  BY DEF C!ContextEnds
<1>3. ScanTypes'
  BY <1>1, <1>2 DEF ScanTypes
<1>4. QueueInv'
  BY <1>1, <1>2 DEF QueueInv, Roomy, C!Cap, C!Some, C!Measured
<1>5. RoundInv' /\ phase' # "done"
  BY <1>2 DEF RoundInv
<1> QED
  BY <1>3, <1>4, <1>5, NotYetDone DEF ScanInv

\* The choice: the best usable address of whoever has one, the floor against the others.
LEMMA ChooseKeeps == ASSUME ScanInv, C!Choose PROVE ScanInv'
<1> DEFINE best(t) == CHOOSE a \in C!Usable(t) : \A b \in C!Usable(t) \ {a} : C!Better(a, b)
           got == {t \in C!Ts : C!Some(t) /\ C!Usable(t) # {}}
           bad == {t \in C!Ts : C!Some(t) /\ C!Usable(t) = {} /\ settings.floor > 0}
<1>1. ScanTypes /\ QueueInv
  BY DEF ScanInv
<1>2. /\ phase = "download" /\ (cut \/ queue = <<>> \/ C!Enough) /\ phase' \in {"error", "done"}
      /\ answer' = [chosen |-> [t \in C!Ts |-> IF t \in got THEN best(t) ELSE 0], rejected |-> bad]
      /\ UNCHANGED <<settings, coarse, start, turn, needed, verified, tried, queue, speed, cut>>
  BY DEF C!Choose
<1>3. settings.floor \in Nat /\ \A a \in C!As : C!Mbps(a) \in Nat /\ speed[a] \in Nat \cup {C!Unmeasured}
  BY <1>1, SettingFacts DEF ScanTypes, C!Mbps
<1>4. \A t \in C!Ts : C!ToSet(verified[t]) \subseteq C!As
  BY <1>1, SetFacts DEF ScanTypes
<1>5. ASSUME NEW t \in got
      PROVE  best(t) \in C!Usable(t) /\ best(t) \in C!As /\ \A b \in C!Usable(t) \ {best(t)} : C!Better(best(t), b)
  <2>1. C!Usable(t) \in SUBSET C!As /\ C!Usable(t) # {}
    BY <1>4 DEF C!Usable
  <2>2. \E a \in C!Usable(t) : \A b \in C!Usable(t) \ {a} : C!Better(a, b)
    BY <1>3, <2>1, BestExists
  <2> QED
    BY <2>1, <2>2
<1> HIDE DEF best
<1>6. /\ answer'.chosen \in [C!Ts -> 0 .. Addrs] /\ answer'.rejected = bad
      /\ \A t \in C!Ts : answer'.chosen[t] = IF t \in got THEN best(t) ELSE 0
  <2>1. \A t \in C!Ts : (IF t \in got THEN best(t) ELSE 0) \in 0 .. Addrs
    BY <1>5, CAssumption DEF C!As
  <2> HIDE DEF got, bad
  <2> QED
    BY <1>2, <2>1
<1>7. ScanTypes'
  <2>1. bad \subseteq C!Ts
    OBVIOUS
  <2> HIDE DEF bad, got
  <2> QED
    BY <1>1, <1>2, <1>6, <2>1 DEF ScanTypes
<1>8. RoundInv' /\ QueueInv'
  BY <1>2 DEF RoundInv, QueueInv
<1>9. ASSUME C!Enough, NEW t \in bad PROVE FALSE
  <2>1. PICK a \in C!ToSet(verified[t]) \cap C!Measured : speed[a] >= settings.floor
    BY <1>9 DEF C!Enough, C!AllMeet
  <2>2. a \in C!Usable(t)
    BY <2>1 DEF C!Usable, C!Mbps, C!Measured
  <2> QED
    BY <2>2
<1>10. ASSUME ~cut, Roomy, NEW t \in bad PROVE C!ToSet(verified[t]) \cap C!Measured # {}
  <2>1. queue = <<>>
    BY <1>2, <1>9, <1>10
  <2>2. C!ToSet(queue) = {}
    BY <2>1 DEF C!ToSet
  <2>3. t \in C!Ts /\ C!Some(t)
    OBVIOUS
  <2>4. verified[t][1] \in C!Measured
    BY <1>1, <1>2, <1>10, <2>2, <2>3 DEF QueueInv
  <2>5. verified[t][1] \in C!ToSet(verified[t])
    BY <1>1, <2>3, SetFacts DEF ScanTypes, C!Some
  <2> QED
    BY <2>4, <2>5
<1>11. ASSUME NEW t \in C!Ts, C!Some(t)
       PROVE  IF answer'.chosen[t] = 0 THEN t \in bad
              ELSE \A a \in C!ToSet(verified[t]) \cap C!Measured : speed[a] <= C!Mbps(answer'.chosen[t])
  <2>1. CASE C!Usable(t) # {}
    <3>1. t \in got /\ answer'.chosen[t] = best(t) /\ best(t) \in C!As /\ best(t) # 0
      <4>1. t \in got
        BY <1>11, <2>1
      <4> HIDE DEF got
      <4> QED
        BY <1>5, <1>6, <4>1, CAssumption DEF C!As
    <3>2. best(t) \in C!Usable(t) /\ \A b \in C!Usable(t) \ {best(t)} : C!Better(best(t), b)
      <4> HIDE DEF got
      <4> QED
        BY <1>5, <3>1
    <3>3. ASSUME NEW a \in C!ToSet(verified[t]) \cap C!Measured PROVE speed[a] <= C!Mbps(best(t))
      <4>1. a \in C!As /\ C!Mbps(a) = speed[a] /\ C!Mbps(a) \in Nat /\ C!Mbps(best(t)) \in Nat
        BY <1>3, <1>4, <3>1 DEF C!Measured, C!Mbps
      <4>2. CASE a \in C!Usable(t)
        <5>1. CASE a = best(t)
          BY <4>1, <5>1
        <5>2. CASE a # best(t)
          <6>1. C!Better(best(t), a)
            BY <3>2, <4>2, <5>2
          <6> QED
            BY <4>1, <6>1 DEF C!Better
        <5> QED
          BY <5>1, <5>2
      <4>3. CASE a \notin C!Usable(t)
        <5>1. C!Mbps(a) < settings.floor
          BY <1>3, <4>1, <4>3 DEF C!Usable
        <5>2. C!Mbps(best(t)) >= settings.floor
          BY <3>2 DEF C!Usable
        <5> QED
          BY <1>3, <4>1, <5>1, <5>2
      <4> QED
        BY <4>2, <4>3
    <3> QED
      BY <3>1, <3>3
  <2>2. CASE C!Usable(t) = {}
    <3>1. answer'.chosen[t] = 0
      <4>1. t \notin got
        BY <2>2
      <4> HIDE DEF got
      <4> QED
        BY <1>6, <4>1
    <3>2. settings.floor > 0
      <4>3. verified[t][1] \in C!ToSet(verified[t])
        BY <1>1, <1>11, SetFacts DEF ScanTypes, C!Some
      <4>4. ~(C!Mbps(verified[t][1]) >= settings.floor) /\ C!Mbps(verified[t][1]) \in Nat
        BY <1>3, <1>4, <2>2, <4>3 DEF C!Usable
      <4> QED
        BY <1>3, <4>4
    <3> QED
      BY <1>11, <2>2, <3>1, <3>2
  <2> QED
    BY <2>1, <2>2
<1>12. C!EveryTargetMeasured'
  <2>1. (phase' = "done" /\ ~cut' /\ settings'.floor > 0 /\ settings'.downloads > 0 /\ C!Cap' >= Targets) => ~cut /\ Roomy
    BY <1>2 DEF Roomy, C!Cap
  <2>2. \A t : C!ToSet(verified'[t]) \cap C!Measured' = C!ToSet(verified[t]) \cap C!Measured
    BY <1>2 DEF C!Measured
  <2> HIDE DEF bad, got
  <2> QED
    BY <1>6, <1>10, <2>1, <2>2 DEF C!EveryTargetMeasured
<1>13. C!EveryVerifiedDecided'
  <2>1. \A t : (C!Some(t)' <=> C!Some(t)) /\ C!ToSet(verified'[t]) \cap C!Measured' = C!ToSet(verified[t]) \cap C!Measured
    BY <1>2 DEF C!Some, C!Measured
  <2>2. \A t : C!Mbps(answer.chosen[t])' = C!Mbps(answer'.chosen[t])
    BY <1>2 DEF C!Mbps
  <2>3. speed' = speed
    BY <1>2
  <2> HIDE DEF bad, got
  <2> QED
    BY <1>6, <1>11, <2>1, <2>2, <2>3 DEF C!EveryVerifiedDecided
<1>14. C!EarlyEndIsJustified'
  <2>1. ASSUME ~cut, queue # <<>> PROVE bad = {}
    BY <1>2, <1>9, <2>1
  <2> HIDE DEF bad, got
  <2> QED
    BY <1>2, <1>6, <2>1 DEF C!EarlyEndIsJustified
<1> QED
  BY <1>7, <1>8, <1>12, <1>13, <1>14 DEF ScanInv

LEMMA ScanKept == ScanInv /\ [C!ScanNext]_(C!scvars) => ScanInv'
<1> SUFFICES ASSUME ScanInv, [C!ScanNext]_(C!scvars) PROVE ScanInv'
  OBVIOUS
<1>1. CASE UNCHANGED C!scvars
  <2>1. UNCHANGED <<phase, settings, coarse, start, turn, needed, verified, tried, queue, speed, cut, answer>>
    BY <1>1 DEF C!scvars
  <2>2. ScanTypes /\ RoundInv /\ QueueInv /\ C!EveryTargetMeasured /\ C!EveryVerifiedDecided /\ C!EarlyEndIsJustified
    BY DEF ScanInv
  <2>3. ScanTypes'
    BY <2>1, <2>2 DEF ScanTypes
  <2>4. RoundInv'
    BY <2>1, <2>2 DEF RoundInv, InRound, HadTurn, C!Required
  <2>5. QueueInv'
    BY <2>1, <2>2 DEF QueueInv, Roomy, C!Cap, C!Some, C!Measured
  <2>6. C!EveryTargetMeasured'
    BY <2>1, <2>2 DEF C!EveryTargetMeasured, C!Cap, C!Measured
  <2>7. C!EveryVerifiedDecided'
    BY <2>1, <2>2 DEF C!EveryVerifiedDecided, C!Some, C!Measured, C!Mbps
  <2>8. C!EarlyEndIsJustified'
    BY <2>1, <2>2 DEF C!EarlyEndIsJustified
  <2> QED
    BY <2>3, <2>4, <2>5, <2>6, <2>7, <2>8 DEF ScanInv
<1> QED
  BY <1>1, CoarseKeeps, TryWindowKeeps, SkipTargetKeeps, NextWindowKeeps, RankVerifiedKeeps, DownloadKeeps,
     ContextEndsKeeps, ChooseKeeps DEF C!ScanNext

LEMMA ScanPromises ==
  ScanInv => C!ScanTypeOK /\ C!WindowsAreShared /\ C!EveryTargetMeasured /\ C!EveryVerifiedDecided /\ C!EarlyEndIsJustified
<1> SUFFICES ASSUME ScanInv PROVE C!ScanTypeOK /\ C!WindowsAreShared
  BY DEF ScanInv
<1>1. ScanTypes /\ RoundInv
  BY DEF ScanInv
<1>2. C!ScanTypeOK
  <2>1. \A t \in C!Ts : C!ToSet(verified[t]) \subseteq C!As
    BY <1>1, SetFacts DEF ScanTypes
  <2> QED
    BY <1>1, <2>1 DEF C!ScanTypeOK, ScanTypes
<1>3. C!WindowsAreShared
  <2> SUFFICES ASSUME phase = "https", NEW t \in C!Ts, NEW u \in C!Ts, Len(verified[t]) < C!Required
               PROVE  tried[u] <= tried[t] + 1
    BY DEF C!WindowsAreShared
  <2>1. PICK n \in Nat : InRound(n)
    BY <1>1 DEF RoundInv
  <2>2. tried[t] = n + HadTurn(t) /\ tried[u] <= n + HadTurn(u) /\ tried[u] \in Nat
    BY <1>1, <2>1 DEF InRound, ScanTypes
  <2>3. HadTurn(t) \in {0, 1} /\ HadTurn(u) \in {0, 1}
    BY DEF HadTurn
  <2> QED
    BY <2>2, <2>3
<1> QED
  BY <1>2, <1>3

----------------------------------------------------------------------------
(* All the controllers.                                                   *)

\* The controllers of both modules, each with its own invariant.
EveryInv == ControlInv /\ LayersInv /\ ScanInv

\* Only the controller at work changes its files, processes and requests.
LEMMA StepsOfTheseTwo ==
  ASSUME [Next]_controllers
  PROVE  [L!LayersNext]_(L!lvars) /\ [C!ScanNext]_(C!scvars)
<1> USE DEF Next, controllers, Takeover, SourceStep, LayerStep, OptimizerStep, ScanStep, WebStep, DeploymentStep,
        SleepStep, EngineStep, ImageStep, WatchStep
<1>1. L!LayersNext \/ UNCHANGED layersVars
  OBVIOUS
<1>2. C!ScanNext \/ UNCHANGED scanVars
  OBVIOUS
<1> HIDE DEF Next, controllers, Takeover, SourceStep, LayerStep, OptimizerStep, ScanStep, WebStep, DeploymentStep,
         SleepStep, EngineStep, ImageStep, WatchStep
<1> QED
  BY <1>1, <1>2 DEF layersVars, scanVars, L!lvars, C!scvars

LEMMA EveryKept == EveryInv /\ [Next]_controllers => EveryInv'
BY ControlKept, LayersKept, ScanKept, StepsOfTheseTwo DEF EveryInv

LEMMA AlwaysEveryInv == Spec => []EveryInv
<1>1. Init => EveryInv
  BY ControlStart, LayersStart, ScanStart DEF Init, EveryInv
<1> QED
  BY <1>1, EveryKept, PTL DEF Spec

\* The files, records, processes and queues of all eleven controllers have their types,
\* however many requests, faults and deaths there are.
THEOREM ControlPlaneTyped == Spec => []TypeOK
<1>1. EveryInv => L!LayersTypeOK /\ C!ScanTypeOK
  BY LayersPromises, ScanPromises DEF EveryInv
<1>2. (/\ L!LayersTypeOK /\ C!ScanTypeOK
       /\ T!TakeoverTypeOK /\ S!SourceTypeOK /\ O!OptimizerTypeOK /\ W!WebTypeOK /\ D!DeploymentTypeOK
       /\ A!SleepTypeOK /\ P!PreparedTypeOK /\ I!ImageTypeOK /\ N!WatchTypeOK) => TypeOK
  BY DEF TypeOK
<1> QED
  BY <1>1, <1>2, AlwaysEveryInv, ControllersTyped, PTL

\* The profile has each layer once and as its digests say and a running engine has
\* every stored layer, whoever reconciles meanwhile; a preview runs the graph it was
\* asked about; a container runs from the whole cache of its own image.
THEOREM RunsAsAsked == Spec => []RunsWhatWasAsked
<1>1. EveryInv => L!NoLayerTwice /\ L!DigestsDescribeProfile /\ L!EngineHasEveryLayer
  BY LayersPromises DEF EveryInv
<1>2. (/\ L!NoLayerTwice /\ L!DigestsDescribeProfile /\ L!EngineHasEveryLayer
       /\ P!EngineRunsTheGraph /\ I!RunsWhatWasVerified /\ W!LimitHolds) => RunsWhatWasAsked
  BY DEF RunsWhatWasAsked
<1> QED
  BY <1>1, <1>2, AlwaysEveryInv, AskedAndLimited, PTL

\* Wherever its budget ends, a scan has let no target lag two windows behind; with a
\* floor and room for everyone it measures an address of each before it refuses the
\* target, decides for each that was verified, and stops early only when all are
\* served.  Logins that are checked at once pass the limit by no more than are under way.
THEOREM BudgetsAreShared == Spec => []BudgetIsShared
<1>1. EveryInv => C!WindowsAreShared /\ C!EveryTargetMeasured /\ C!EveryVerifiedDecided /\ C!EarlyEndIsJustified
  BY ScanPromises DEF EveryInv
<1>2. (/\ C!WindowsAreShared /\ C!EveryTargetMeasured /\ C!EveryVerifiedDecided /\ C!EarlyEndIsJustified
       /\ P!EngineRunsTheGraph /\ I!RunsWhatWasVerified /\ W!LimitHolds) => BudgetIsShared
  BY DEF BudgetIsShared
<1> QED
  BY <1>1, <1>2, AlwaysEveryInv, AskedAndLimited, PTL

\* No step of any controller goes further than it may; that a failed synchronisation
\* leaves layer and overlay as it found them, and one that succeeds is in the
\* profile, is added here to what the other controllers keep.
THEOREM AllWithinRights == Spec => WithinItsRights
<1>1. EveryInv /\ [Next]_controllers =>
        [~mixed' => \A s \in L!Syncers :
           /\ syncer[s].pc = "failed" /\ syncer'[s].pc = "rest" => layer' = syncer[s].was \/ ~syncer[s].value.on
           /\ syncer[s].pc = "record" /\ syncer'[s].pc = "rest" /\ hosts'.on
                => \E i \in 1 .. Len(conf.body) : conf.body[i] = L!Layer("hosts", hosts'.last)]_(L!lvars)
  BY StepsOfTheseTwo, SyncsWhole DEF EveryInv
<1>2. Spec => L!SyncAllOrNothing
  BY <1>1, AlwaysEveryInv, PTL DEF Spec, L!SyncAllOrNothing
<1> QED
  BY <1>2, ServesAndScansWithinRights, OthersAreLeftAlone DEF WithinItsRights
=============================================================================
