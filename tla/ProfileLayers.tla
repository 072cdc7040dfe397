--------------------------- MODULE ProfileLayers ---------------------------
(***************************************************************************)
(* What the engine's profile is made of (internal/controlapi:              *)
(* container_profile_reload.go, host_hosts_sync.go, profile_overlay.go,    *)
(* the candidate of policy_workspace.go; mihomo/profile_overlay.go): a raw *)
(* profile, the global overlay, the hosts of the NAS and the addresses of  *)
(* the Cloudflare optimizer, composed anew from the stored inputs by every *)
(* sync and lifecycle operation.  A digest is what it is the digest of.    *)
(***************************************************************************)
EXTENDS Naturals, Sequences

CONSTANTS
  Raws,      \* imported profiles
  HostFiles, \* contents of the NAS's /etc/hosts
  LBudget    \* bounds on edits, operations and faults

\* A layer of a profile: its kind and its content.
Layer(kind, value) == <<kind, value>>
Raw(r)             == <<Layer("raw", r)>>
Managed            == Raw("managed")     \* RenderManagedBaseProfile
None               == <<>>
When(cond, layers) == IF cond THEN layers ELSE None

Plain == [on |-> FALSE, n |-> "0", legacy |-> ""]   \* no overlay applied
Off   == [on |-> FALSE, last |-> "", failed |-> FALSE]
Idler == [pc |-> "rest", value |-> Off, before |-> Off, file |-> "", was |-> "", doc |-> Plain]

Syncers == {"sync", "put"}

VARIABLES
  conf,     \* opensurge.yaml: profile mode, profile, source and overlay digests
  library,  \* raw profiles the source store can still produce
  base,     \* policy-workspace/base.json: the source of a composed profile
  overlay,  \* the stored overlay; its legacy block of hosts
  hosts,    \* host-hosts-sync.json
  layer,    \* the managed hosts layer on disk, "" when absent
  mapped,   \* the mapped /etc/hosts, "" when it cannot be read
  found,    \* the optimizer's persisted result, "" for none
  engine,   \* the profile the running engine has, None when stopped
  syncer,   \* the loop or POST, and the PUT, of the hosts synchronisation
  fresh,    \* history: nothing was edited since the last reconciliation
  mixed,    \* history: two syncers overlapped, or an edit hit one
  lleft     \* what is left of LBudget

lvars  == <<conf, library, base, overlay, hosts, layer, mapped, found, engine, syncer, fresh, mixed, lleft>>
inputs == <<library, overlay, hosts, layer, mapped, found>>

Pay(k) == lleft[k] > 0 /\ lleft' = [lleft EXCEPT ![k] = @ - 1]

LayersInit ==
  /\ conf \in {[mode |-> "managed", body |-> None, source |-> None, overlay |-> Plain],
               [mode |-> "imported", body |-> Raw(CHOOSE r \in Raws : TRUE), source |-> Raw(CHOOSE r \in Raws : TRUE), overlay |-> Plain]}
  /\ library = {Raw(r) : r \in Raws} /\ base = [path |-> None, mode |-> "", source |-> None]
  /\ overlay \in {Plain, [on |-> TRUE, n |-> "1", legacy |-> CHOOSE h \in HostFiles : TRUE]}
  /\ hosts = Off /\ layer = "" /\ mapped = (CHOOSE h \in HostFiles : TRUE) /\ found = "" /\ engine = None
  /\ syncer = [s \in Syncers |-> Idler] /\ fresh = TRUE /\ mixed = FALSE /\ lleft = LBudget

----------------------------------------------------------------------------
(* prepareContainerProfileReconcile                                        *)

\* ComposeProfileOverlay, with the legacy hosts block detached or not.
Composed(source, doc, detached) ==
  source \o When(doc.on, <<Layer("overlay", doc.n)>>)
         \o When(doc.on /\ ~detached /\ doc.legacy # "", <<Layer("hosts", doc.legacy)>>)

\* loadManagedHostHostsLayer: "" when synchronisation is off, "?" when on and
\* there is nothing to read.
HostsLayer ==
  IF ~hosts.on THEN ""
  ELSE IF layer # "" THEN layer
  ELSE IF overlay.legacy # "" THEN overlay.legacy
  ELSE IF mapped # "" THEN mapped ELSE "?"

\* (mutant) The current profile is taken for a raw source whatever it is.
AnyCurrentBody == {conf.body}

\* An imported profile with no overlay applied is its own source, if it still
\* is what its digest says.
CurrentBody ==
  IF conf.overlay = Plain /\ conf.source \in {None, conf.body} THEN {conf.body} ELSE {}

\* rawProfileSourceForReconcile: the possible sources, none when unavailable.
RawSource ==
  IF conf.mode = "managed" THEN {Managed}
  ELSE IF conf.source # None /\ conf.source \in library \cup {base.source} THEN {conf.source}
  ELSE CurrentBody

\* (mutant) The overlay's digest is taken from the document that is stored.
AppliedWhenOff == overlay

EffectiveOverlay == IF overlay.on THEN overlay ELSE Plain

\* A layer that is there already changes nothing when it is applied again.
Put(body, kind, value) ==
  IF value = "" \/ Layer(kind, value) \in {body[i] : i \in 1 .. Len(body)} THEN body
  ELSE Append(body, Layer(kind, value))

Wanted(source) ==
  [mode |-> "imported", source |-> source, overlay |-> EffectiveOverlay,
   body |-> Put(Put(Composed(source, overlay, TRUE), "hosts", HostsLayer), "optimizer", found)]

\* (mutant) Recorded digests alone decide whether anything has to be done.
SameDigests(c) == conf.mode = "imported" /\ conf.source = c.source /\ conf.overlay = c.overlay

UpToDate(c) == conf = c

Authoritative == conf.mode = "managed" /\ ~overlay.on /\ ~hosts.on /\ found = ""
Failing == ~Authoritative /\ (HostsLayer = "?" \/ RawSource = {})

\* The candidate, or conf itself when there is nothing to do.
Candidate ==
  IF Authoritative THEN conf
  ELSE LET c == Wanted(CHOOSE s \in RawSource : TRUE) IN IF UpToDate(c) THEN conf ELSE c

Body(c) == IF c.mode = "managed" THEN Managed ELSE c.body
Running == engine # None

----------------------------------------------------------------------------
(* Lifecycle operations of ContainerRunner and the starts of the API.      *)

\* reload, restart-mihomo, the optimizer's apply: reconcile, then reload.
Reload ==
  /\ Running /\ Pay("operations") /\ ~Failing
  /\ conf' = Candidate /\ engine' = Body(Candidate) /\ fresh' = TRUE
  /\ UNCHANGED <<inputs, base, syncer, mixed>>

\* The reconciliation is refused, or the new profile does not run and the old
\* one comes back, or nothing does.
ReloadFails ==
  /\ Running /\ \/ Failing /\ Pay("operations") /\ UNCHANGED engine
                \/ ~Failing /\ Pay("faults") /\ engine' \in {engine, None}
  /\ UNCHANGED <<inputs, conf, base, syncer, fresh, mixed>>

\* recover-gateway and the start of the container: materialise, then start.
Recover ==
  /\ ~Running /\ Pay("operations") /\ ~Failing
  /\ conf' = Candidate /\ engine' = Body(Candidate) /\ fresh' = TRUE
  /\ UNCHANGED <<inputs, base, syncer, mixed>>

Stop == /\ Running /\ Pay("operations") /\ engine' = None
        /\ UNCHANGED <<inputs, conf, base, syncer, fresh, mixed>>

(* StartPolicyWorkspace: workspaceCandidate knows the overlay, not the     *)
(* hosts layer nor the optimizer.                                          *)
Base == IF base.path = conf.body /\ conf.mode = "imported" THEN base
        ELSE [path |-> None, mode |-> conf.mode, source |-> None]

Sent == \* input.Source
  IF conf.mode = "imported" /\ conf.overlay # EffectiveOverlay THEN
    LET digest == IF conf.source = None THEN conf.body ELSE conf.source IN {digest} \cap library
  ELSE {}

WorkspaceSource ==
  IF Sent # {} THEN Sent
  ELSE IF Base.mode = "managed" THEN {Managed}
  ELSE IF Base.source # None THEN {Base.source}
  ELSE IF conf.overlay = Plain THEN {conf.body} ELSE {}

\* What is wanted is there already.
Untouched == /\ conf.mode = "imported"
             /\ \/ ~overlay.on /\ conf.overlay = Plain
                \/ WorkspaceSource = {} /\ conf.overlay = overlay

\* The configuration is committed before the gateway starts.
WorkspaceStart ==
  /\ ~Running
  /\ \/ Untouched /\ UNCHANGED <<conf, base>>
     \/ /\ ~Untouched /\ Base.mode = "managed" /\ ~overlay.on
        /\ conf' = [mode |-> "managed", body |-> None, source |-> None, overlay |-> Plain] /\ UNCHANGED base
     \/ /\ ~Untouched /\ ~(Base.mode = "managed" /\ ~overlay.on)
        /\ \E s \in WorkspaceSource :
             /\ conf' = [mode |-> "imported", source |-> s, overlay |-> EffectiveOverlay, body |-> Composed(s, overlay, FALSE)]
             /\ base' = [path |-> Composed(s, overlay, FALSE), mode |-> Base.mode, source |-> s]
  /\ \/ Pay("operations") /\ engine' = Body(conf')
     \/ Pay("faults") /\ engine' = None
  /\ fresh' = FALSE /\ mixed' = (mixed \/ \E s \in Syncers : syncer[s].pc # "rest")
  /\ UNCHANGED <<inputs, syncer>>

----------------------------------------------------------------------------
(* Edits.                                                                  *)

Busy == \E s \in Syncers : syncer[s].pc # "rest"

\* handleProfileOverlay, handleProfileOverlayHosts: If-Match, then save.
EditOverlay ==
  /\ Pay("edits") /\ \E on \in BOOLEAN, n \in {"1", "2"} : overlay' = [overlay EXCEPT !.on = on, !.n = n]
  /\ fresh' = FALSE /\ mixed' = (mixed \/ Busy)
  /\ UNCHANGED <<conf, library, base, hosts, layer, mapped, found, engine, syncer>>

\* handleSourceApply: raw profile and overlay; a running gateway is reloaded.
ApplySource ==
  /\ Pay("edits")
  /\ \E r \in library :
       /\ conf' = [mode |-> "imported", source |-> r, overlay |-> EffectiveOverlay, body |-> Composed(r, overlay, FALSE)]
       /\ engine' = IF Running THEN conf'.body ELSE None
  /\ fresh' = FALSE /\ mixed' = (mixed \/ Busy)
  /\ UNCHANGED <<inputs, base, syncer>>

\* The optimizer publishes a result or takes it back.
Optimized ==
  /\ Pay("edits") /\ found' = (IF found = "" THEN "ip" ELSE "") /\ fresh' = FALSE /\ mixed' = (mixed \/ Busy)
  /\ UNCHANGED <<conf, library, base, overlay, hosts, layer, mapped, engine, syncer>>

\* The NAS changes its hosts file or takes the mount away.
MappedChanges ==
  /\ Pay("edits") /\ mapped' \in (HostFiles \cup {""}) \ {mapped} /\ fresh' = FALSE
  /\ UNCHANGED <<conf, library, base, overlay, hosts, layer, found, engine, syncer, mixed>>

\* A source leaves the store.
SourceGone ==
  /\ Pay("faults") /\ \E r \in library : library' = library \ {r}
  /\ UNCHANGED <<conf, base, overlay, hosts, layer, mapped, found, engine, syncer, fresh, mixed>>

----------------------------------------------------------------------------
(* handleHostHostsSync and syncHostHosts.                                  *)

Step(s, r)  == syncer' = [syncer EXCEPT ![s] = r]
Next1(s, pc) == Step(s, [syncer[s] EXCEPT !.pc = pc])

\* The settings are read; a PUT saves the new choice at once.
BeginSync(s) ==
  /\ syncer[s].pc = "rest" /\ Pay("operations")
  /\ \/ /\ s = "sync" /\ hosts.on
        /\ Step(s, [Idler EXCEPT !.pc = "migrate", !.value = hosts, !.before = hosts]) /\ UNCHANGED hosts
     \/ /\ s = "put" /\ hosts' = [hosts EXCEPT !.on = ~@]
        /\ Step(s, [Idler EXCEPT !.pc = "migrate", !.value = hosts', !.before = hosts])
  /\ mixed' = (mixed \/ Busy) /\ fresh' = FALSE
  /\ UNCHANGED <<conf, library, base, overlay, layer, mapped, found, engine>>

\* The mapped file is read, the legacy block taken out of the overlay.
Migrate(s) ==
  /\ syncer[s].pc = "migrate" /\ (mapped # "" \/ ~syncer[s].value.on)
  /\ overlay' = [overlay EXCEPT !.legacy = ""]
  /\ Step(s, [syncer[s] EXCEPT !.pc = IF @ = "migrate" /\ syncer[s].value.on THEN "layer" ELSE "reconcile",
                               !.file = mapped, !.doc = overlay])
  /\ UNCHANGED <<conf, library, base, hosts, layer, mapped, found, engine, fresh, mixed, lleft>>

\* The mapped file cannot be read: nothing was done yet.
MigrateFails(s) ==
  /\ syncer[s].pc = "migrate" /\ syncer[s].value.on /\ mapped = ""
  /\ Step(s, [syncer[s] EXCEPT !.pc = "failed", !.doc = overlay, !.was = layer])
  /\ UNCHANGED <<inputs, conf, base, engine, fresh, mixed, lleft>>

WriteLayer(s) ==
  /\ syncer[s].pc = "layer" /\ layer' = syncer[s].file
  /\ Step(s, [syncer[s] EXCEPT !.pc = "reconcile", !.was = layer])
  /\ UNCHANGED <<conf, library, base, overlay, hosts, mapped, found, engine, fresh, mixed, lleft>>

\* reconcileHostHostsProfile, under lifecycleMu.
Reconcile(s) ==
  /\ syncer[s].pc = "reconcile" /\ ~Failing
  /\ conf' = Candidate /\ engine' = (IF Running /\ Candidate # conf THEN Body(Candidate) ELSE engine)
  /\ Next1(s, "record")
  /\ UNCHANGED <<inputs, base, fresh, mixed, lleft>>

ReconcileFails(s) ==
  /\ syncer[s].pc = "reconcile"
  /\ \/ Failing /\ UNCHANGED <<engine, lleft>>
     \/ ~Failing /\ Candidate # conf /\ Pay("faults") /\ engine' \in {engine, None}
  /\ Next1(s, "failed")
  /\ UNCHANGED <<inputs, conf, base, fresh, mixed>>

\* Success is recorded in the copy of the settings that was read.
Record(s) ==
  /\ syncer[s].pc = "record"
  /\ LET t == syncer[s] IN
       hosts' = [t.value EXCEPT !.failed = FALSE, !.last = IF t.value.on THEN t.file ELSE @]
  /\ Step(s, Idler) /\ fresh' = ~mixed
  /\ UNCHANGED <<conf, library, base, overlay, layer, mapped, found, engine, mixed, lleft>>

\* (mutant) A failed synchronisation leaves the new hosts layer.
LayerKept(s) == layer

\* The layer that was there before (a disabling PUT never touches it).
LayerBack(s) == IF syncer[s].value.on THEN syncer[s].was ELSE layer

\* Layer, overlay and settings are put back; the settings with the error.
Undo(s) ==
  /\ syncer[s].pc = "failed"
  /\ layer' = LayerBack(s) /\ overlay' = (IF syncer[s].doc.legacy # "" THEN syncer[s].doc ELSE overlay)
  /\ hosts' = [syncer[s].before EXCEPT !.failed = TRUE]
  /\ Step(s, Idler) /\ fresh' = FALSE
  /\ UNCHANGED <<conf, library, base, mapped, found, engine, mixed, lleft>>

LayersNext ==
  \/ Reload \/ ReloadFails \/ Recover \/ Stop \/ WorkspaceStart
  \/ EditOverlay \/ ApplySource \/ Optimized \/ MappedChanges \/ SourceGone
  \/ \E s \in Syncers : BeginSync(s) \/ Migrate(s) \/ MigrateFails(s) \/ WriteLayer(s)
                        \/ Reconcile(s) \/ ReconcileFails(s) \/ Record(s) \/ Undo(s)

----------------------------------------------------------------------------
(* Properties.                                                             *)

Kinds(b, kind) == {i \in 1 .. Len(b) : b[i][1] = kind}
AtMostOne(b, kind) == \A i, j \in Kinds(b, kind) : i = j

LayersTypeOK ==
  /\ conf.mode \in {"managed", "imported"} /\ conf.overlay.on \in BOOLEAN /\ hosts.on \in BOOLEAN
  /\ layer \in HostFiles \cup {""} /\ mapped \in HostFiles \cup {""} /\ DOMAIN syncer = Syncers
  /\ {fresh, mixed} \subseteq BOOLEAN

\* "we must never compose on top of that effective profile because additions
\* would be duplicated" (container_profile_reload.go:223): no sequence of syncs,
\* starts and edits puts the overlay in twice.
NoLayerTwice == \A kind \in {"raw", "overlay"} : AtMostOne(conf.body, kind)

\* The recorded digests say what the profile is made of; the next composition
\* trusts them.
DigestsDescribeProfile ==
  conf.mode = "imported" =>
    /\ conf.source # None => \E n \in 0 .. Len(conf.body) : conf.source = SubSeq(conf.body, 1, n)
    /\ (conf.overlay # Plain) <=> Kinds(conf.body, "overlay") # {}

\* A running engine has every stored layer unless something was edited since.
EngineHasEveryLayer ==
  Running /\ fresh /\ ~mixed /\ ~Busy /\ ~Failing =>
    engine = IF Authoritative THEN Body(conf) ELSE Wanted(CHOOSE s \in RawSource : TRUE).body

\* A synchronisation that fails leaves the hosts layer and the overlay as it
\* found them, and one that records a file has it in the profile.
SyncAllOrNothing ==
  [][~mixed' => \A s \in Syncers :
       /\ syncer[s].pc = "failed" /\ syncer'[s].pc = "rest" => layer' = syncer[s].was \/ ~syncer[s].value.on
       /\ syncer[s].pc = "record" /\ syncer'[s].pc = "rest" /\ hosts'.on
            => \E i \in 1 .. Len(conf.body) : conf.body[i] = Layer("hosts", hosts'.last)]_lvars

\* "when it already matches, this is a cheap no-op" (host_hosts_sync.go:234):
\* what was reconciled can be reconciled again.
SettledCanReconcile == fresh /\ ~mixed /\ hosts.on /\ mapped # "" /\ library = {Raw(r) : r \in Raws} => ~Failing

\* "Recomposition always starts from those user-owned inputs, so removing a
\* target automatically restores any previous host/filter value"
\* (profile_patch.go:15): no recorded source holds an address the optimizer chose.
SourceIsUserOwned == Kinds(conf.source, "optimizer") = {}
=============================================================================
