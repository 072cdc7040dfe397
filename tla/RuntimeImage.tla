---------------------------- MODULE RuntimeImage ----------------------------
(***************************************************************************)
(* The runtime image cache (internal/runtimeimage, called by the entry     *)
(* point before anything else): /usr of the image is copied into /data,    *)
(* verified against the image's manifest and bound read-only over /usr.    *)
(***************************************************************************)
EXTENDS Naturals, FiniteSets

CONSTANTS
  Containers, Images,
  Parts,     \* the entries of a manifest
  IBudget    \* bounds on failed copies, deaths, and changes of the cache by others

Nothing == [parts |-> {}, spoilt |-> {}]
Gone == [there |-> FALSE, tree |-> Nothing]
Asleep == [pc |-> "off", img |-> "none", tree |-> Nothing]
OwnUsr == [img |-> "own", ro |-> FALSE]

VARIABLES
  cached,    \* by image: the directory under its manifest's hash
  starter,   \* each container: off, check, build, verify, rename, bind, protect, runs
  usr,       \* what each container has under /usr
  stale,     \* .building- directories nobody works at
  meddled,   \* history: images whose cache was changed after it was verified
  ileft

ivars == <<cached, starter, usr, stale, meddled, ileft>>

ImageInit ==
  /\ cached = [i \in Images |-> Gone] /\ starter = [c \in Containers |-> Asleep] /\ usr = [c \in Containers |-> OwnUsr]
  /\ stale = 0 /\ meddled = {} /\ ileft = IBudget

Costs(k) == ileft[k] > 0 /\ ileft' = [ileft EXCEPT ![k] = @ - 1]
Steps(c, pc) == starter' = [starter EXCEPT ![c].pc = pc]
Ends(c) == starter' = [starter EXCEPT ![c] = Asleep] /\ usr' = [usr EXCEPT ![c] = OwnUsr]

\* Verify, against the manifest of this image.
Whole(tree) == tree.parts = Parts /\ tree.spoilt = {}

Begin(c) ==
  /\ starter[c].pc = "off" /\ \E i \in Images : starter' = [starter EXCEPT ![c] = [pc |-> "check", img |-> i, tree |-> Nothing]]
  /\ UNCHANGED <<cached, usr, stale, meddled, ileft>>

\* (mutant) A cache that is there is used.
ThereIsEnough(i) == cached[i].there

\* "Every file and symlink is checked [...] before a cached tree is mounted."
Usable(i) == cached[i].there /\ Whole(cached[i].tree)

\* Prepare with a cache: it is verified, or refused and kept as it is.
Check(c) ==
  /\ starter[c].pc = "check"
  /\ LET i == starter[c].img
     IN \/ Usable(i) /\ Steps(c, "bind") /\ meddled' = meddled \ {i} /\ UNCHANGED usr
        \/ cached[i].there /\ ~Usable(i) /\ Ends(c) /\ UNCHANGED meddled
        \/ ~cached[i].there /\ Steps(c, "build") /\ UNCHANGED <<usr, meddled>>
  /\ UNCHANGED <<cached, stale, ileft>>

\* (mutant) The tree grows where it will be looked for.
InPlace(c, p) == [cached EXCEPT ![starter[c].img] = [there |-> TRUE, tree |-> [@.tree EXCEPT !.parts = @ \cup {p}]]]

\* The tree grows under .building-.
BuiltAside(c, p) == cached

\* One entry; a copy may fail, or be wrong without saying so.
Copy(c) ==
  /\ starter[c].pc = "build"
  /\ \E p \in Parts \ starter[c].tree.parts :
       /\ cached' = BuiltAside(c, p)
       /\ \/ starter' = [starter EXCEPT ![c].tree.parts = @ \cup {p}] /\ UNCHANGED <<usr, ileft>>
          \/ Costs("faults") /\ Ends(c)
          \/ Costs("faults") /\ starter' = [starter EXCEPT ![c].tree = [parts |-> @.parts \cup {p}, spoilt |-> @.spoilt \cup {p}]] /\ UNCHANGED usr
  /\ UNCHANGED <<stale, meddled>>

Verified(c) ==
  /\ starter[c].pc = "build" /\ starter[c].tree.parts = Parts
  /\ \/ Whole(starter[c].tree) /\ Steps(c, "rename") /\ UNCHANGED usr
     \/ ~Whole(starter[c].tree) /\ Ends(c)
  /\ UNCHANGED <<cached, stale, meddled, ileft>>

\* rename(2) over a directory that has entries fails.
Rename(c) ==
  /\ starter[c].pc = "rename"
  /\ LET i == starter[c].img
     IN \/ ~cached[i].there /\ cached' = [cached EXCEPT ![i] = [there |-> TRUE, tree |-> starter[c].tree]]
           /\ Steps(c, "bind") /\ meddled' = meddled \ {i} /\ UNCHANGED usr
        \/ cached[i].there /\ Ends(c) /\ UNCHANGED <<cached, meddled>>
  /\ UNCHANGED <<stale, ileft>>

\* Mount: the bind, or the one Docker has made, which must be read-only.
Bind(c) ==
  /\ starter[c].pc = "bind"
  /\ \/ usr' = [usr EXCEPT ![c] = [img |-> starter[c].img, ro |-> FALSE]] /\ Steps(c, "protect")
     \/ usr' = [usr EXCEPT ![c] = [img |-> starter[c].img, ro |-> TRUE]] /\ Steps(c, "runs")
     \/ Ends(c)
  /\ UNCHANGED <<cached, stale, meddled, ileft>>

\* (mutant) A remount that failed is let pass.
LetPass(c) == Steps(c, "runs") /\ UNCHANGED usr

\* The remount failed: the bind is taken away, and the container stops.
Unbound(c) == Ends(c)

Protect(c) ==
  /\ starter[c].pc = "protect"
  /\ \/ usr' = [usr EXCEPT ![c].ro = TRUE] /\ Steps(c, "runs") /\ UNCHANGED ileft
     \/ Costs("faults") /\ Unbound(c)
  /\ UNCHANGED <<cached, stale, meddled>>

\* The container is stopped or killed; a tree under construction stays.
Dies(c) ==
  /\ starter[c].pc # "off" /\ Costs("deaths") /\ Ends(c)
  /\ stale' = stale + (IF starter[c].pc \in {"build", "rename"} THEN 1 ELSE 0)
  /\ UNCHANGED <<cached, meddled>>

\* Somebody on the NAS, or its disk, changes a file of a cache.
Meddle(i) ==
  /\ cached[i].there /\ Costs("others") /\ meddled' = meddled \cup {i}
  /\ \E p \in Parts : cached' = [cached EXCEPT ![i].tree.spoilt = @ \cup {p}]
  /\ UNCHANGED <<starter, usr, stale>>

ImageNext ==
  \/ \E c \in Containers : Begin(c) \/ Check(c) \/ Copy(c) \/ Verified(c) \/ Rename(c) \/ Bind(c) \/ Protect(c) \/ Dies(c)
  \/ \E i \in Images : Meddle(i)

----------------------------------------------------------------------------
(* Properties.                                                             *)

ImageTypeOK ==
  /\ \A c \in Containers : starter[c].pc \in {"off", "check", "build", "rename", "bind", "protect", "runs"}
  /\ \A c \in Containers : usr[c].img \in Images \cup {"own"}
  /\ stale <= IBudget.deaths

\* A container runs from the cache of its own image, whole, and cannot write to it.
RunsWhatWasVerified ==
  \A c \in Containers : starter[c].pc = "runs" =>
    /\ usr[c] = [img |-> starter[c].img, ro |-> TRUE]
    /\ starter[c].img \notin meddled => Whole(cached[starter[c].img].tree)

\* Wherever a build dies, what it leaves is not taken for a cache: a cache that is
\* not whole was changed by somebody else, so that a restart builds again instead
\* of refusing for ever.
CacheIsWhole == \A i \in Images : cached[i].there /\ ~Whole(cached[i].tree) => cached[i].tree.spoilt # {}
=============================================================================
