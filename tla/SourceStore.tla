----------------------------- MODULE SourceStore -----------------------------
(***************************************************************************)
(* The source store (internal/controlapi/sources.go, source_refresh.go,    *)
(* source_delete.go, source_files.go, credentials.go): subscriptions and   *)
(* uploaded profiles, their snapshots by digest, their credentials, and    *)
(* sources.json, which every operation reads, changes in memory and writes *)
(* back whole.  Only refreshes exclude each other (sourceRefreshMu); the   *)
(* deletion even runs in another Server object.                            *)
(***************************************************************************)
EXTENDS Naturals

CONSTANTS
  Sources,   \* ids: the digest of name and redacted origin
  Digests,   \* what their servers may answer
  NoDigest,
  SBudget    \* how many operations, faults and deaths may happen

\* The importer, the refresher, whoever changes settings, deletes, applies.
Workers == {"import", "refresh", "settings", "delete", "apply"}

(* A source record: NoDigest when it is not listed; the digests of its     *)
(* earlier versions; scheduled refresh.                                    *)
Entry    == [digest: Digests \cup {NoDigest}, versions: SUBSET Digests, auto: BOOLEAN]
Unlisted == [digest |-> NoDigest, versions |-> {}, auto |-> FALSE]

Rest == [pc |-> "rest", id |-> CHOOSE s \in Sources : TRUE, digest |-> NoDigest,
         copy |-> [s \in Sources |-> Unlisted], before |-> [s \in Sources |-> Unlisted], mine |-> Unlisted]

VARIABLES
  list,    \* sources.json
  snaps,   \* sources/<id>/<digest>.yaml
  creds,   \* ids with a URL in credentials/sources.json
  chosen,  \* mihomo.profile_source_digest of the configuration
  work,    \* per worker: where it is and what it has read
  lost,    \* history: a worker wrote back a list that had changed since it read
           \* it, or removed files of a source another was working on
  broke,   \* history: an undone import took a snapshot that was there before it
  sleft   \* what is left of SBudget

svars == <<list, snaps, creds, chosen, work, lost, broke, sleft>>

SourceTypeOK ==
  /\ list \in [Sources -> Entry] /\ snaps \subseteq Sources \X Digests /\ creds \subseteq Sources
  /\ chosen \in Digests \cup {NoDigest} /\ DOMAIN work = Workers /\ {lost, broke} \subseteq BOOLEAN

SourceInit ==
  /\ list = [s \in Sources |-> Unlisted] /\ snaps = {} /\ creds = {} /\ chosen = NoDigest
  /\ work = [w \in Workers |-> Rest] /\ lost = FALSE /\ broke = FALSE /\ sleft = SBudget

Spend(k) == sleft[k] > 0 /\ sleft' = [sleft EXCEPT ![k] = @ - 1]

Listed(s) == list[s].digest # NoDigest

At(w, pc) == work[w].pc = pc
Set(w, r) == work' = [work EXCEPT ![w] = r]
Go(w, pc) == Set(w, [work[w] EXCEPT !.pc = pc])
Done(w)   == Set(w, Rest)
Works(w, s) == work[w].pc # "rest" /\ work[w].id = s

\* Store.SaveSources of a list that was read earlier as old.
SaveList(new, old) == list' = new /\ lost' = (lost \/ list # old)

----------------------------------------------------------------------------
(* importURL and importReader, by the importer or inside a refresh.        *)

\* The download has answered; importURL remembers the list for its rollback.
BeginImport ==
  /\ At("import", "rest") /\ Spend("operations")
  /\ \E s \in Sources, d \in Digests :
       Set("import", [Rest EXCEPT !.pc = "snapshot", !.id = s, !.digest = d, !.before = list])
  /\ UNCHANGED <<list, snaps, creds, chosen, lost, broke>>

WriteSnapshot(w) ==
  /\ At(w, "snapshot")
  /\ snaps' = snaps \cup {<<work[w].id, work[w].digest>>}
  /\ Go(w, "read")
  /\ UNCHANGED <<list, creds, chosen, lost, broke, sleft>>

ReadList(w) ==
  /\ At(w, "read") /\ Set(w, [work[w] EXCEPT !.pc = "write", !.copy = list])
  /\ UNCHANGED <<list, snaps, creds, chosen, lost, broke, sleft>>

\* The record a new snapshot gives: settings are kept, another digest makes
\* the present one a version.
Updated(e, d) ==
  IF e.digest = NoDigest THEN [Unlisted EXCEPT !.digest = d]
  ELSE IF e.digest = d THEN e
  ELSE [e EXCEPT !.digest = d, !.versions = @ \cup {e.digest}]

WriteList(w) ==
  /\ At(w, "write")
  /\ LET t == work[w]  new == [t.copy EXCEPT ![t.id] = Updated(@, t.digest)] IN
       SaveList(new, t.copy) /\ Go(w, "credential")
  /\ UNCHANGED <<snaps, creds, chosen, broke, sleft>>

\* credentials.Put; a refresh goes on to stamp its attempt on the new record.
PutCredential(w) ==
  /\ At(w, "credential") /\ creds' = creds \cup {work[w].id}
  /\ LET t == work[w] IN
       IF w = "refresh" THEN Set(w, [t EXCEPT !.pc = "reread", !.mine = Updated(t.copy[t.id], t.digest)])
                        ELSE Done(w)
  /\ UNCHANGED <<list, snaps, chosen, lost, broke, sleft>>

\* (mutant) The rollback of a failed import removes the snapshot only.
ListLeft(w) == UNCHANGED <<list, lost>>

\* SaveSources(before), over what this import has written.
ListBack(w) == SaveList(work[w].before, [work[w].before EXCEPT ![work[w].id] = Updated(@, work[w].digest)])

\* Put fails: the list of before the import and no snapshot.  A refresh then
\* records the failure on the source as it was when the refresh began.
PutCredentialFails(w) ==
  /\ At(w, "credential") /\ Spend("faults")
  /\ LET t == work[w]  was == t.before[t.id] IN
       /\ IF \E v \in {"import", "refresh"} \ {w} : Works(v, t.id)
            THEN list' = t.before /\ lost' = TRUE
            ELSE ListBack(w)
       /\ snaps' = snaps \ {<<t.id, t.digest>>}
       /\ broke' = (broke \/ t.digest \in {was.digest} \cup was.versions)
  /\ IF w = "refresh" THEN Go(w, "reread") ELSE Done(w)
  /\ UNCHANGED <<creds, chosen>>

----------------------------------------------------------------------------
(* refreshSource, under sourceRefreshMu.                                   *)

\* sourceByID; without a credential only the failed attempt is recorded.
BeginRefresh ==
  /\ At("refresh", "rest") /\ Spend("operations")
  /\ \E s \in Sources, d \in Digests :
       /\ Listed(s)
       /\ Set("refresh", [Rest EXCEPT !.pc = IF s \in creds THEN "fetch" ELSE "reread",
                                      !.id = s, !.digest = d, !.mine = list[s]])
  /\ UNCHANGED <<list, snaps, creds, chosen, lost, broke>>

\* The download ends, seconds later.
Fetched ==
  /\ At("refresh", "fetch") /\ Set("refresh", [work["refresh"] EXCEPT !.pc = "snapshot", !.before = list])
  /\ UNCHANGED <<list, snaps, creds, chosen, lost, broke, sleft>>

FetchFails ==
  /\ At("refresh", "fetch") /\ Spend("faults") /\ Go("refresh", "reread")
  /\ UNCHANGED <<list, snaps, creds, chosen, lost, broke>>

\* handleSourceRefreshSettings reads the record ...
BeginSettings ==
  /\ At("settings", "rest") /\ Spend("operations")
  /\ \E s \in Sources, on \in BOOLEAN :
       /\ Listed(s)
       /\ Set("settings", [Rest EXCEPT !.pc = "reread", !.id = s, !.mine = [list[s] EXCEPT !.auto = on]])
  /\ UNCHANGED <<list, snaps, creds, chosen, lost, broke>>

\* ... and saveSourceRecord, for both, reads the list once more ...
Reread(w) ==
  /\ At(w, "reread")
  /\ IF Listed(work[w].id) THEN Set(w, [work[w] EXCEPT !.pc = "record", !.copy = list]) ELSE Done(w)
  /\ UNCHANGED <<list, snaps, creds, chosen, lost, broke, sleft>>

\* ... and puts its whole record into it.
WriteRecord(w) ==
  /\ At(w, "record")
  /\ LET t == work[w] IN
       /\ list' = [t.copy EXCEPT ![t.id] = t.mine]
       /\ lost' = (lost \/ list # t.copy \/ [t.mine EXCEPT !.auto = FALSE] # [list[t.id] EXCEPT !.auto = FALSE])
  /\ Done(w)
  /\ UNCHANGED <<snaps, creds, chosen, broke, sleft>>

----------------------------------------------------------------------------
(* handleSourceDelete and the list a profile apply writes back.            *)

\* decorated[index].Desired: the digest of the record itself, not those of its
\* versions.  (Applied implies Desired.)
InUse(e) == chosen # NoDigest /\ e.digest = chosen

BeginDelete ==
  /\ At("delete", "rest") /\ Spend("operations")
  /\ \E s \in Sources :
       /\ Listed(s) /\ ~InUse(list[s])
       /\ Set("delete", [Rest EXCEPT !.pc = "unlist", !.id = s, !.copy = list])
  /\ UNCHANGED <<list, snaps, creds, chosen, lost, broke>>

Unlist ==
  /\ At("delete", "unlist")
  /\ SaveList([work["delete"].copy EXCEPT ![work["delete"].id] = Unlisted], work["delete"].copy)
  /\ Go("delete", "clean")
  /\ UNCHANGED <<snaps, creds, chosen, broke, sleft>>

\* (mutant) A deletion leaves the credential.
NoneForgotten(s) == {}

Forgotten(s) == {s}

\* Credential and directory; what cannot be removed is only a warning.
Clean ==
  /\ At("delete", "clean")
  /\ LET s == work["delete"].id IN
       /\ creds' = creds \ Forgotten(s) /\ snaps' = {x \in snaps : x[1] # s}
       /\ lost' = (lost \/ Listed(s) \/ \E w \in {"import", "refresh"} : Works(w, s))
  /\ Done("delete")
  /\ UNCHANGED <<list, chosen, broke, sleft>>

\* handleSourceApply: the snapshot is read and checked against its digest, the
\* configuration written; then the list is read, decorated and saved.
Apply ==
  /\ At("apply", "rest") /\ Spend("operations")
  /\ \E s \in Sources :
       /\ Listed(s) /\ <<s, list[s].digest>> \in snaps /\ chosen' = list[s].digest
       /\ Set("apply", [Rest EXCEPT !.pc = "decorate", !.copy = list])
       /\ lost' = (lost \/ \E w \in {"import", "refresh", "delete"} : Works(w, s))
  /\ UNCHANGED <<list, snaps, creds, broke>>

Decorate ==
  /\ At("apply", "decorate") /\ SaveList(work["apply"].copy, work["apply"].copy) /\ Done("apply")
  /\ UNCHANGED <<snaps, creds, chosen, broke, sleft>>

\* The control process dies with whatever it was doing.
Die ==
  /\ Spend("deaths") /\ \E w \in Workers : work[w].pc # "rest"
  /\ work' = [w \in Workers |-> Rest]
  /\ UNCHANGED <<list, snaps, creds, chosen, lost, broke>>

SourceNext ==
  \/ BeginImport \/ BeginRefresh \/ Fetched \/ FetchFails \/ BeginSettings
  \/ BeginDelete \/ Unlist \/ Clean \/ Apply \/ Decorate \/ Die
  \/ \E w \in {"import", "refresh"} : WriteSnapshot(w) \/ ReadList(w) \/ WriteList(w) \/ PutCredential(w) \/ PutCredentialFails(w)
  \/ \E w \in {"refresh", "settings"} : Reread(w) \/ WriteRecord(w)

----------------------------------------------------------------------------
(* Properties.  What the missing lock can cost is in lost; they say that   *)
(* nothing else goes wrong.                                                *)

\* Every version the list names can be read back, at every moment and after a
\* crash: the snapshot is written before the list that names it and removed
\* after the list that does not.
VersionsReadable ==
  ~lost /\ ~broke => \A s \in Sources : Listed(s) => {s} \X ({list[s].digest} \cup list[s].versions) \subseteq snaps

\* Between operations the credentials are those of the listed sources.
CredentialsMatchList ==
  ~lost /\ sleft.deaths = SBudget.deaths /\ (\A w \in Workers : work[w].pc = "rest")
    => creds = {s \in Sources : Listed(s)}
=============================================================================
