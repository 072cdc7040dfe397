----------------------------- MODULE SleepLease -----------------------------
(***************************************************************************)
(* Sleep prevention (internal/controlapi: sleep_prevention.go, the         *)
(* controller of the control service and its lease; the manager in         *)
(* sleep_prevention_helper.go and the helper's connection that keeps it):  *)
(* one connection is one holder, the first sets pmset's SleepDisabled, the *)
(* last takes it back, and a marker file remembers that it is OpenSurge's. *)
(***************************************************************************)
EXTENDS Naturals, FiniteSets

CONSTANTS
  Conns,    \* connections to the helper, each used once
  ABudget   \* bounds on faults, deaths and acts of the user

NoConn == 0
NoWork == [pc |-> "rest", why |-> "none", conn |-> NoConn]
NoLease == [changing |-> FALSE, lease |-> NoConn]

VARIABLES
  ctl,      \* sleepPreventionController: changing, and the connection it waits for or holds
  conn,     \* unused, asked, gone (closed while asked), held, dropped (closed while
            \* held, and the helper has not noticed), over
  helper,   \* down, starting (it reconciles), up
  holders,
  mgr,      \* what m.mu is held for, and how far it got
  mark,     \* the ownership marker exists
  flag,     \* SleepDisabled: "0", or who set it
  retrying, \* retryRelease runs
  slipped,  \* history: pmset failed after it had its effect
  crossed,  \* history: the user used pmset while the manager was at it
  aleft

avars == <<ctl, conn, helper, holders, mgr, mark, flag, retrying, slipped, crossed, aleft>>

SleepInit ==
  /\ ctl = NoLease
  /\ conn = [c \in Conns |-> "unused"] /\ helper = "up" /\ holders = 0 /\ mgr = NoWork
  /\ mark = FALSE /\ flag = "0" /\ retrying = FALSE /\ slipped = FALSE /\ crossed = FALSE /\ aleft = ABudget

Takes(k) == aleft[k] > 0 /\ aleft' = [aleft EXCEPT ![k] = @ - 1]
Sets(c, s) == conn' = [conn EXCEPT ![c] = s]

----------------------------------------------------------------------------
(* SetEnabled, observe and the end of the control service.                 *)

\* c.changing is set and the runner asks the helper, without the mutex.
Enable ==
  /\ ctl = NoLease
  /\ \E c \in Conns :
       /\ conn[c] = "unused"
       /\ IF helper = "up" THEN Sets(c, "asked") /\ ctl' = [changing |-> TRUE, lease |-> c]
                           ELSE Sets(c, "over") /\ UNCHANGED ctl
  /\ UNCHANGED <<helper, holders, mgr, mark, flag, retrying, slipped, crossed, aleft>>

\* The answer: the lease is there, or it is not.
Enabled ==
  /\ ctl.changing /\ conn[ctl.lease] \in {"held", "over"}
  /\ ctl' = IF conn[ctl.lease] = "held" THEN [ctl EXCEPT !.changing = FALSE] ELSE NoLease
  /\ UNCHANGED <<conn, helper, holders, mgr, mark, flag, retrying, slipped, crossed, aleft>>

\* The end of a connection, as the helper will find it.
Closed(c) == CASE conn[c] = "asked" -> "gone" [] conn[c] = "held" -> "dropped" [] OTHER -> conn[c]

\* 10 seconds without an answer, or the service dies before it.
GivesUp ==
  /\ ctl.changing /\ Takes("faults") /\ Sets(ctl.lease, Closed(ctl.lease)) /\ ctl' = NoLease
  /\ UNCHANGED <<helper, holders, mgr, mark, flag, retrying, slipped, crossed>>

\* lease.Close, by the user or by the shutdown.
Disable ==
  /\ ctl.lease # NoConn /\ ~ctl.changing /\ Sets(ctl.lease, Closed(ctl.lease)) /\ ctl' = NoLease
  /\ UNCHANGED <<helper, holders, mgr, mark, flag, retrying, slipped, crossed, aleft>>

\* The helper closed the connection under the lease.
Observe ==
  /\ ctl.lease # NoConn /\ ~ctl.changing /\ conn[ctl.lease] = "over" /\ ctl' = NoLease
  /\ UNCHANGED <<conn, helper, holders, mgr, mark, flag, retrying, slipped, crossed, aleft>>

----------------------------------------------------------------------------
(* systemSleepLeaseManager, one operation at a time under m.mu.            *)

Works(pc, why, c) == mgr' = [pc |-> pc, why |-> why, conn |-> c]
\* An answer nobody reads any more is released at once.
Held(c) == IF conn[c] = "asked" THEN "held" ELSE "dropped"

\* Acquire
Acquire(c) ==
  /\ helper = "up" /\ mgr.pc = "rest" /\ conn[c] \in {"asked", "gone"}
  /\ IF holders > 0 THEN holders' = holders + 1 /\ Sets(c, Held(c)) /\ UNCHANGED mgr
     ELSE Works(IF mark THEN "restore" ELSE "look", "acquire", c) /\ UNCHANGED <<holders, conn>>
  /\ UNCHANGED <<ctl, helper, mark, flag, retrying, slipped, crossed, aleft>>

\* (mutant) Every disconnect gives the setting back.
AnyOne == TRUE

\* The last holder
LastOne == holders = 1

\* Release, when the helper notices a connection that is gone.
Release(c) ==
  /\ helper = "up" /\ mgr.pc = "rest" /\ conn[c] = "dropped"
  /\ holders' = holders - 1 /\ Sets(c, "over")
  /\ IF LastOne /\ mark THEN Works("restore", "release", NoConn) ELSE UNCHANGED mgr
  /\ UNCHANGED <<ctl, helper, mark, flag, retrying, slipped, crossed, aleft>>

Refuse(c) == conn' = [x \in Conns |-> IF x = c THEN "over" ELSE conn[x]]

\* (mutant) A release that failed is not tried again.
NoRetry(why) == retrying

\* retrySystemSleepRelease after a failed Release or Reconcile.
Retries(why) == retrying \/ why \in {"release", "reconcile"}

\* (mutant) The marker goes before pmset has run.
MarkFirst == FALSE

\* releaseOwnedLocked removes the marker only after pmset.
MarkWhileRestoring == mark

\* releaseOwnedLocked: pmset first ...
Restore ==
  /\ mgr.pc = "restore"
  /\ \/ flag' = "0" /\ Works("unmark", mgr.why, mgr.conn) /\ UNCHANGED <<conn, helper, retrying, slipped, aleft>>
     \/ Takes("faults") /\ flag' \in {flag, "0"} /\ mgr' = NoWork /\ Refuse(mgr.conn) /\ retrying' = Retries(mgr.why)
        /\ helper' = "up" /\ UNCHANGED slipped
  /\ mark' = MarkWhileRestoring
  /\ UNCHANGED <<ctl, holders, crossed>>

\* ... then the marker.
Unmark ==
  /\ mgr.pc = "unmark" /\ mark' = FALSE
  /\ IF mgr.why = "acquire" THEN Works("look", "acquire", mgr.conn) ELSE mgr' = NoWork
  /\ helper' = "up" /\ retrying' = (retrying /\ mgr.why # "retry")
  /\ UNCHANGED <<ctl, conn, holders, flag, slipped, crossed, aleft>>

\* (mutant) What others have set is taken over.
NeverTheirs == FALSE

\* errSleepPreventionExternallyOwned
Theirs == flag # "0"

Look ==
  /\ mgr.pc = "look"
  /\ IF Theirs THEN Refuse(mgr.conn) /\ mgr' = NoWork ELSE Works("mark", "acquire", mgr.conn) /\ UNCHANGED conn
  /\ UNCHANGED <<ctl, helper, holders, mark, flag, retrying, slipped, crossed, aleft>>

Mark ==
  /\ mgr.pc = "mark" /\ mark' = TRUE /\ Works("set", "acquire", mgr.conn)
  /\ UNCHANGED <<ctl, conn, helper, holders, flag, retrying, slipped, crossed, aleft>>

\* pmset: a failure takes the marker back, whether or not it had its effect.
Set ==
  /\ mgr.pc = "set" /\ mgr' = NoWork
  /\ \/ flag' = "ours" /\ holders' = 1 /\ Sets(mgr.conn, Held(mgr.conn)) /\ UNCHANGED <<mark, slipped, aleft>>
     \/ Takes("faults") /\ flag' \in {flag, "ours"} /\ slipped' = (slipped \/ flag' # flag) /\ mark' = FALSE
        /\ Refuse(mgr.conn) /\ UNCHANGED holders
  /\ UNCHANGED <<ctl, helper, retrying, crossed>>

\* retryRelease, once a second until it worked or somebody holds again.
Retry ==
  /\ helper = "up" /\ retrying /\ mgr.pc = "rest"
  /\ IF holders > 0 \/ ~mark THEN retrying' = FALSE /\ UNCHANGED mgr ELSE Works("restore", "retry", NoConn) /\ UNCHANGED retrying
  /\ UNCHANGED <<ctl, conn, helper, holders, mark, flag, slipped, crossed, aleft>>

----------------------------------------------------------------------------
HelperDies ==
  /\ helper # "down" /\ Takes("deaths")
  /\ helper' = "down" /\ holders' = 0 /\ mgr' = NoWork /\ retrying' = FALSE
  /\ conn' = [c \in Conns |-> IF conn[c] = "unused" THEN "unused" ELSE "over"]
  /\ UNCHANGED <<ctl, mark, flag, slipped, crossed>>

\* ServeHelper: Reconcile before the first connection.
HelperStarts ==
  /\ helper = "down"
  /\ IF mark THEN helper' = "starting" /\ Works("restore", "reconcile", NoConn) ELSE helper' = "up" /\ UNCHANGED mgr
  /\ UNCHANGED <<ctl, conn, holders, mark, flag, retrying, slipped, crossed, aleft>>

\* The user changes SleepDisabled.
User ==
  /\ Takes("user") /\ flag' = (IF flag = "0" THEN "theirs" ELSE "0")
  /\ crossed' = (crossed \/ mark \/ mgr.pc # "rest")
  /\ UNCHANGED <<ctl, conn, helper, holders, mgr, mark, retrying, slipped>>

SleepNext ==
  \/ Enable \/ Enabled \/ GivesUp \/ Disable \/ Observe \/ Restore \/ Unmark \/ Look \/ Mark \/ Set \/ Retry
  \/ HelperDies \/ HelperStarts \/ User
  \/ \E c \in Conns : Acquire(c) \/ Release(c)

----------------------------------------------------------------------------
(* Properties.                                                             *)

SleepTypeOK ==
  /\ conn \in [Conns -> {"unused", "asked", "gone", "held", "dropped", "over"}] /\ ctl.lease \in Conns \cup {NoConn}
  /\ holders \in 0 .. Cardinality(Conns) /\ flag \in {"0", "ours", "theirs"} /\ helper \in {"down", "starting", "up"}

Calm == ~slipped /\ ~crossed

\* SleepDisabled survives a reboot: as long as OpenSurge's setting stands, wherever
\* helper or service die, the marker is there for the next helper to undo it.
OursIsMarked == Calm /\ flag = "ours" => mark

\* With the helper up and nothing under way, the setting stands exactly as long as
\* a connection holds it; a release that failed is still being retried.
SettingFollowsHolders ==
  Calm /\ helper = "up" /\ mgr.pc = "rest" =>
    /\ holders = Cardinality({c \in Conns : conn[c] \in {"held", "dropped"}})
    /\ (holders > 0) => flag = "ours"
    /\ flag = "ours" => holders > 0 \/ retrying

\* "system sleep is already disabled outside OpenSurge": what the user has set is
\* neither taken over nor given back, unless it changed under an operation.
TheirsIsLeft == [][flag = "theirs" /\ flag' # "theirs" => aleft'.user < aleft.user \/ crossed]_avars
=============================================================================
