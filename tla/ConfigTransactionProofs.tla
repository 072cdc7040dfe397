----------------------- MODULE ConfigTransactionProofs -----------------------
(***************************************************************************)
(* What the configuration transactions promise, for any number of editors, *)
(* payloads and keys and for budgets of any size, and that their edits are *)
(* those of ConfigRegister.                                                *)
(***************************************************************************)
EXTENDS ConfigTransaction, TLAPS

(* The inductive invariant: ConfigTypeOK and the parts below.              *)

\* A request has a revision to send, and one that has it is not yet answered;
\* the flock is held by an editor with a request, who has released the engine.
RequestInv ==
  /\ \A e \in Editors : /\ req[e] # "none" => seen[e] # NoRevision
                        /\ seen[e] # NoRevision => answer[e] = "none"
  /\ flock = NoEditor <=> txn.pc = "idle"
  /\ flock # NoEditor => req[flock] # "none" /\ prepared = "none"

\* How far the transaction has come: what it has compared, staged and committed.
PhaseInv ==
  /\ txn.pc \in {"check", "save", "restart"} => conf = txn.old
  /\ txn.pc \in {"reload", "restore"} => conf = txn.new
  /\ txn.pc \in {"save", "reload", "restore", "restart"} => seen[flock] = txn.old
  /\ txn.pc \in {"check", "restart"} => key = txn.keyOld
  /\ txn.pc \in {"check", "reload", "restore", "restart"} => policy = txn.polOld
  /\ txn.pc \in {"check", "idle"} => ~txn.fresh

\* The transaction knows whether the gateway runs, and who must find it stopped has.
RunInv ==
  /\ txn.pc \in {"check", "save"} => (txn.was <=> gw.s # "off")
  /\ txn.pc = "save" /\ txn.was => policy = txn.polOld

\* Until one is torn, a transaction has both profiles on disk, the old one not in the
\* file it would clean up, and the gateway runs the old configuration.
DiskInv ==
  /\ ~torn /\ txn.pc # "idle" => txn.old.prof \in files \cup {Managed}
  /\ ~torn => conf.prof \in files \cup {Managed}
  /\ ~torn /\ txn.pc # "idle" => txn.new.prof \in files \cup {Managed}
  /\ ~torn /\ txn.fresh => txn.new.prof # txn.old.prof
  /\ ~torn /\ gw.s = "on" => gw.conf = IF txn.pc = "idle" THEN conf ELSE txn.old

IInv == ConfigTypeOK /\ RequestInv /\ PhaseInv /\ RunInv /\ DiskInv /\ NodeKeepsIdentity
(* Types.                                                                  *)

LEMMA FreshConf == Fresh \in Conf /\ NoTxn.old \in Conf
BY DEF Fresh, Conf, NoTxn

LEMMA NoTxnType == NoTxn \in Txn
BY FreshConf DEF NoTxn, Txn, Fresh, Conf

LEMMA InitType == ConfigInit => ConfigTypeOK
<1> SUFFICES ASSUME ConfigInit PROVE ConfigTypeOK
  OBVIOUS
<1>1. conf \in Conf /\ gw \in GwState /\ txn \in Txn
  BY FreshConf, NoTxnType DEF ConfigInit, GwState
<1>2. left \in [CKinds -> Nat]
  BY ConfigAssumption DEF ConfigInit, ConfigAssumption
<1>3. identity \in BOOLEAN /\ torn \in BOOLEAN
  BY DEF ConfigInit
<1>4. req \in [Editors -> Kind \cup {"none"}] /\ answer \in [Editors -> {"none", "ok", "failed", "torn"}]
  BY DEF ConfigInit
<1>5. seen \in [Editors -> Conf \cup {NoRevision}] /\ seenPolicy \in [Editors -> 0..2]
  BY DEF ConfigInit
<1> QED
  BY <1>1, <1>2, <1>3, <1>4, <1>5 DEF ConfigInit, ConfigTypeOK

\* What a step may cost.
LEMMA PayType == ASSUME left \in [CKinds -> Nat], NEW k \in CKinds, Pay(k) PROVE left' \in [CKinds -> Nat]
BY DEF Pay

LEMMA InitInv == ConfigInit => IInv
<1> SUFFICES ASSUME ConfigInit PROVE IInv
  OBVIOUS
<1>1. RequestInv /\ PhaseInv /\ RunInv
  BY DEF ConfigInit, RequestInv, PhaseInv, RunInv, NoTxn
<1>2. DiskInv /\ NodeKeepsIdentity
  BY DEF ConfigInit, DiskInv, NodeKeepsIdentity, NoTxn, Fresh
<1> QED
  BY <1>1, <1>2, InitType DEF IInv

\* The transaction's record after a step.
LEMMA TxnSteps ==
  ASSUME NEW t \in Txn, NEW c \in Conf, NEW b \in BOOLEAN,
         NEW pc \in {"check", "save", "reload", "restore", "restart"}
  PROVE  /\ [t EXCEPT !.pc = pc] \in Txn
         /\ [t EXCEPT !.pc = pc, !.new = c] \in Txn
         /\ [t EXCEPT !.pc = pc, !.new = c, !.fresh = b] \in Txn
BY DEF Txn

LEMMA ConfSteps ==
  ASSUME NEW c \in Conf
  PROVE  /\ \A p \in Payloads : [c EXCEPT !.prof = p] \in Conf
         /\ \A on \in BOOLEAN : [c EXCEPT !.ts = on] \in Conf
         /\ \A n \in 1..2 : [c EXCEPT !.net = n, !.pol = TRUE] \in Conf
         /\ \A n \in 1..2, on \in BOOLEAN : [c EXCEPT !.net = n, !.ts = on] \in Conf
BY DEF Conf

LEMMA GwSteps ==
  ASSUME NEW g \in GwState, NEW c \in Conf, NEW s \in {"off", "on", "broken"}
  PROVE  [g EXCEPT !.s = s] \in GwState /\ [s |-> s, conf |-> c] \in GwState /\ g.s \in {"off", "on", "broken"}
BY DEF GwState

LEMMA TxnFields ==
  ASSUME NEW t \in Txn
  PROVE  t.old \in Conf /\ t.new \in Conf /\ t.keyOld \in Keys \cup {NoKey} /\ t.polOld \in 0..2
BY DEF Txn

\* How a request ends, and the lock is given back.
LEMMA EndType ==
  ASSUME ConfigTypeOK, NEW e \in Editors, NEW a \in {"none", "ok", "failed", "torn"}
  PROVE  /\ Release => flock' \in Editors \cup {NoEditor} /\ txn' \in Txn
         /\ Closed(e, a) => /\ req' \in [Editors -> Kind \cup {"none"}]
                            /\ seen' \in [Editors -> Conf \cup {NoRevision}]
                            /\ seenPolicy' \in [Editors -> 0..2]
                            /\ answer' \in [Editors -> {"none", "ok", "failed", "torn"}]
<1>1. Release => flock' \in Editors \cup {NoEditor} /\ txn' \in Txn
  BY NoTxnType DEF Release
<1> QED
  BY <1>1 DEF Closed, ConfigTypeOK

LEMMA StagedType == ASSUME ConfigTypeOK, NEW new \in Conf, Staged(new) PROVE txn' \in Txn
BY TxnSteps DEF Staged, ConfigTypeOK

LEMMA BeginType == ASSUME ConfigTypeOK, NEW e \in Editors, Begin(e) PROVE txn' \in Txn
BY NoTxnType DEF Begin, ConfigTypeOK, Txn

LEMMA TypeStep == ConfigTypeOK /\ [ConfigNext]_cvars => ConfigTypeOK'
<1> SUFFICES ASSUME ConfigTypeOK, [ConfigNext]_cvars PROVE ConfigTypeOK'
  OBVIOUS
<1> USE DEF ConfigTypeOK, data, views
<1>1. ASSUME NEW e \in Editors, Fetch(e) PROVE ConfigTypeOK'
  BY <1>1, PayType DEF Fetch, CKinds
<1>2. ASSUME NEW e \in Editors, TurnedAway(e) PROVE ConfigTypeOK'
  BY <1>2, EndType DEF TurnedAway
<1>3. ASSUME NEW e \in Editors, Begin(e) PROVE ConfigTypeOK'
  BY <1>3, BeginType DEF Begin, StopPrepared
<1>4. ASSUME NEW e \in Editors, NEW kind \in Kind, Send(e, kind) PROVE ConfigTypeOK'
  BY <1>4 DEF Send
<1>5. ASSUME NEW e \in Editors, Kill(e) PROVE ConfigTypeOK'
  BY <1>5, EndType, PayType, GwSteps DEF Kill, CKinds
<1>6. ASSUME NEW e \in Editors, Step(e) PROVE ConfigTypeOK'
  <2>1. CASE Refuse(e) \/ Forget(e)
    BY <2>1, EndType DEF Refuse, Forget, End
  <2>2. CASE SavePolicy(e)
    <3>1. policy' \in 0..2
      BY <2>2 DEF SavePolicy
    <3> QED
      BY <2>2, <3>1, EndType DEF SavePolicy
  <2>3. CASE StageProfile(e)
    <3>1. txn' \in Txn /\ files' \subseteq Payloads
      <4>1. PICK p \in Payloads :
              /\ files' = files \cup {p}
              /\ txn' = [txn EXCEPT !.pc = "save", !.new = [conf EXCEPT !.prof = p], !.fresh = p \notin files]
        BY <2>3 DEF StageProfile
      <4>2. [conf EXCEPT !.prof = p] \in Conf /\ (p \notin files) \in BOOLEAN
        BY ConfSteps
      <4> QED
        BY <4>1, <4>2, TxnSteps
    <3> QED
      BY <2>3, <3>1 DEF StageProfile
  <2>4. CASE StageTailscale(e)
    <3>1. CASE End(e, "failed") /\ UNCHANGED key
      BY <2>4, <3>1, EndType DEF StageTailscale, End
    <3>2. CASE \E on \in BOOLEAN : Staged([conf EXCEPT !.ts = on]) /\ UNCHANGED <<flock, req, views>>
      <4>1. txn' \in Txn
        BY <3>2, StagedType, ConfSteps
      <4>2. key' \in Keys \cup {NoKey}
        BY <2>4 DEF StageTailscale
      <4> QED
        BY <2>4, <3>2, <4>1, <4>2 DEF StageTailscale
    <3> QED
      BY <2>4, <3>1, <3>2 DEF StageTailscale
  <2>5. CASE StageControl(e)
    <3>1. txn' \in Txn
      BY <2>5, StagedType, ConfSteps DEF StageControl
    <3>2. policy' \in 0..2
      BY <2>5 DEF StageControl
    <3> QED
      BY <2>5, <3>1, <3>2 DEF StageControl
  <2>6. CASE StageFile(e)
    <3>1. txn' \in Txn
      BY <2>6, StagedType, ConfSteps DEF StageFile
    <3> QED
      BY <2>6, <3>1 DEF StageFile
  <2>7. CASE Reject(e) \/ RestoreFails(e)
    BY <2>7, EndType, TxnFields, PayType DEF Reject, RestoreFails, CleanupProfile, RollbackKey, End, CKinds
  <2>8. CASE Save(e)
    BY <2>8, EndType, TxnFields, TxnSteps DEF Save, End
  <2>9. CASE Reload(e)
    BY <2>9, EndType, GwSteps DEF Reload, Running, End
  <2>10. CASE ReloadFails
    <3>1. gw' \in GwState
      <4>1. PICK s \in {gw.s, "off", "broken"} : gw' = [gw EXCEPT !.s = s]
        BY <2>10 DEF ReloadFails
      <4> QED
        BY <4>1, GwSteps
    <3> QED
      BY <2>10, <3>1, TxnSteps, PayType DEF ReloadFails, CKinds
  <2>11. CASE Restore
    BY <2>11, TxnFields, TxnSteps DEF Restore, RollbackKey
  <2>12. CASE Restart(e)
    <3>1. gw' \in GwState /\ left' \in [CKinds -> Nat]
      BY <2>12, GwSteps, PayType DEF Restart, Running, CKinds
    <3>2. identity' \in BOOLEAN
      BY <2>12 DEF Restart, Running
    <3> QED
      BY <2>12, <3>1, <3>2, EndType DEF Restart, CleanupProfile, End
  <2> QED
    BY <1>6, <2>1, <2>2, <2>3, <2>4, <2>5, <2>6, <2>7, <2>8, <2>9, <2>10, <2>11, <2>12 DEF Step
<1>7. CASE GatewayStart
  BY <1>7, PayType, GwSteps DEF GatewayStart, Running, CKinds
<1>8. CASE GatewayStop \/ Prepare
  BY <1>8, PayType, GwSteps DEF GatewayStop, Prepare, CKinds
<1>9. CASE UNCHANGED cvars
  BY <1>9 DEF cvars
<1> QED
  BY <1>1, <1>2, <1>3, <1>4, <1>5, <1>6, <1>7, <1>8, <1>9 DEF ConfigNext

(* The invariant is preserved.                                             *)

Parts == RequestInv /\ PhaseInv /\ RunInv /\ DiskInv /\ NodeKeepsIdentity

LEMMA PartsStep == IInv /\ [ConfigNext]_cvars => Parts'
<1> SUFFICES ASSUME IInv, [ConfigNext]_cvars PROVE Parts'
  OBVIOUS
<1> USE ConfigAssumption DEF ConfigAssumption, IInv, ConfigTypeOK, Parts, RequestInv, PhaseInv, RunInv, DiskInv, NodeKeepsIdentity, data, views, Txn, GwState, Conf
<1>1. ASSUME NEW e \in Editors, Fetch(e) PROVE Parts'
  BY <1>1 DEF Fetch
<1>2. ASSUME NEW e \in Editors, TurnedAway(e) PROVE Parts'
  BY <1>2 DEF TurnedAway, Closed
<1>3. ASSUME NEW e \in Editors, Begin(e) PROVE Parts'
  BY <1>3 DEF Begin, StopPrepared, NoTxn
<1>4. ASSUME NEW e \in Editors, NEW kind \in Kind, Send(e, kind) PROVE Parts'
  BY <1>4 DEF Send, Kind
<1>5. ASSUME NEW e \in Editors, Kill(e) PROVE Parts'
  BY <1>5 DEF Kill, Release, Closed, NoTxn
<1>6. ASSUME NEW e \in Editors, Step(e) PROVE Parts'
  <2>0. flock = e /\ flock # NoEditor
    BY <1>6 DEF Step
  <2>1. CASE Refuse(e) \/ Forget(e)
    BY <2>0, <2>1 DEF Refuse, Forget, End, Release, Closed, NoTxn
  <2>2. CASE SavePolicy(e)
    BY <2>0, <2>2 DEF SavePolicy, End, Release, Closed, NoTxn
  <2>3. CASE StageProfile(e)
    BY <2>0, <2>3 DEF StageProfile, Current
  <2>4. CASE StageTailscale(e)
    <3>1. CASE End(e, "failed") /\ UNCHANGED key
      BY <2>0, <2>4, <3>1 DEF StageTailscale, End, Release, Closed, NoTxn
    <3>2. ASSUME NEW on \in BOOLEAN, Staged([conf EXCEPT !.ts = on]), UNCHANGED <<flock, req, views>>
          PROVE  Parts'
      BY <2>0, <2>4, <3>2 DEF StageTailscale, Staged, Current
    <3> QED
      BY <2>4, <3>1, <3>2 DEF StageTailscale
  <2>5. CASE StageControl(e)
    <3>1. PICK n \in 1..2 : Staged([conf EXCEPT !.net = n, !.pol = TRUE])
      BY <2>5 DEF StageControl
    <3> QED
      BY <2>0, <2>5, <3>1 DEF StageControl, Staged, Current, Editable
  <2>6. CASE StageFile(e)
    <3>1. PICK n \in 1..2, on \in BOOLEAN : Staged([conf EXCEPT !.net = n, !.ts = on])
      BY <2>6 DEF StageFile
    <3> QED
      BY <2>0, <2>6, <3>1 DEF StageFile, Staged, Current, Editable
  <2>7. CASE Reject(e) \/ RestoreFails(e)
    BY <2>0, <2>7 DEF Reject, RestoreFails, CleanupProfile, RollbackKey, End, Release, Closed, NoTxn
  <2>8. CASE Save(e)
    BY <2>0, <2>8 DEF Save, MustReload, End, Release, Closed, NoTxn
  <2>9. CASE Reload(e)
    BY <2>0, <2>9 DEF Reload, Running, End, Release, Closed, NoTxn
  <2>10. CASE ReloadFails
    BY <2>0, <2>10 DEF ReloadFails
  <2>11. CASE Restore
    BY <2>0, <2>11 DEF Restore, RollbackKey
  <2>12. CASE Restart(e)
    BY <2>0, <2>12 DEF Restart, Running, CleanupProfile, End, Release, Closed, NoTxn
  <2> QED
    BY <1>6, <2>1, <2>2, <2>3, <2>4, <2>5, <2>6, <2>7, <2>8, <2>9, <2>10, <2>11, <2>12 DEF Step
<1>7. CASE GatewayStart
  BY <1>7 DEF GatewayStart, Running
<1>8. CASE GatewayStop \/ Prepare
  BY <1>8 DEF GatewayStop, Prepare
<1>9. CASE UNCHANGED cvars
  BY <1>9 DEF cvars
<1> QED
  BY <1>1, <1>2, <1>3, <1>4, <1>5, <1>6, <1>7, <1>8, <1>9 DEF ConfigNext

LEMMA Inductive == ConfigSpec => []IInv
<1>1. IInv /\ [ConfigNext]_cvars => IInv'
  BY TypeStep, PartsStep DEF IInv, Parts
<1> QED
  BY <1>1, InitInv, PTL DEF ConfigSpec

\* Type correctness of the whole transaction.
THEOREM TypeCorrect == ConfigSpec => []ConfigTypeOK
<1>1. IInv => ConfigTypeOK
  BY DEF IInv
<1> QED
  BY <1>1, Inductive, PTL

\* Until a transaction is torn the file names no profile that is not on disk and a
\* running gateway runs what the file says; an engine that is a tailnet node always
\* has its identity.
THEOREM ConfigurationKept == ConfigSpec => []ConfigurationHolds
<1>1. IInv => ConfigurationHolds
  BY DEF IInv, RequestInv, DiskInv, ConfigurationHolds, ProfileOnDisk, RunningAsConfigured, Settled
<1> QED
  BY <1>1, Inductive, PTL

\* A request that is answered as failed leaves the file, the key, the policy and the
\* imported profiles as it found them.
THEOREM NoTrace == ConfigSpec => FailureLeavesNoTrace
<1> DEFINE Undone(e) == /\ conf' = txn.old /\ key' = txn.keyOld /\ policy' = txn.polOld
                        /\ txn.fresh => txn.new.prof \notin files'
<1>1. ASSUME IInv, [ConfigNext]_cvars, NEW e \in Editors, flock = e, answer'[e] = "failed" PROVE Undone(e)
  <2> USE <1>1, ConfigAssumption DEF ConfigAssumption, IInv, RequestInv, PhaseInv
  <2>0. flock # NoEditor /\ answer[e] = "none"
    OBVIOUS
  <2>1. ASSUME NEW c \in Editors, Fetch(c) \/ TurnedAway(c) \/ \E kind \in Kind : Send(c, kind) PROVE Undone(e)
    BY <2>0, <2>1 DEF Fetch, TurnedAway, Send, Closed, views, ConfigTypeOK
  <2>2. ASSUME NEW c \in Editors, Kill(c) PROVE Undone(e)
    BY <2>0, <2>2 DEF Kill, Closed, ConfigTypeOK
  <2>3. CASE Step(e)
    <3>1. CASE Refuse(e)
      BY <2>0, <3>1 DEF Refuse, data
    <3>2. CASE StageTailscale(e)
      BY <2>0, <3>2 DEF StageTailscale, views
    <3>3. CASE Reject(e)
      BY <2>0, <3>3 DEF Reject, CleanupProfile, RollbackKey
    <3>4. CASE Restart(e)
      BY <2>0, <3>4 DEF Restart, CleanupProfile
    <3>5. CASE StageProfile(e) \/ StageControl(e) \/ StageFile(e) \/ SavePolicy(e) \/ ReloadFails \/ Restore
      BY <2>0, <3>5 DEF StageProfile, StageControl, StageFile, SavePolicy, ReloadFails, Restore, views
    <3>6. CASE Forget(e) \/ Save(e) \/ Reload(e) \/ RestoreFails(e)
      BY <2>0, <3>6 DEF Forget, Save, Reload, RestoreFails, End, Closed, views, ConfigTypeOK
    <3> QED
      BY <2>3, <3>1, <3>2, <3>3, <3>4, <3>5, <3>6 DEF Step
  <2>4. CASE GatewayStart \/ GatewayStop \/ Prepare \/ UNCHANGED cvars
    BY <2>0, <2>4 DEF GatewayStart, GatewayStop, Prepare, cvars, views
  <2> QED
    BY <2>0, <2>1, <2>2, <2>3, <2>4 DEF ConfigNext, Begin, Step
<1>2. IInv /\ [ConfigNext]_cvars
      => [\A e \in Editors : flock = e /\ answer'[e] = "failed" => Undone(e)]_cvars
  BY <1>1
<1> QED
  BY <1>2, Inductive, PTL DEF ConfigSpec, FailureLeavesNoTrace

(* The refinement.                                                         *)

\* The register's value: what is being reloaded is not yet committed.
Committed == IF txn.pc \in {"reload", "restore"} THEN txn.old ELSE conf

LEMMA CommitLemma == IInv => Committed \in Conf /\ (txn.pc # "idle" => Committed = txn.old)
BY TxnFields DEF IInv, ConfigTypeOK, PhaseInv, Committed, Txn

LEMMA RefinesInit == ConfigInit => Register!RegisterInit
BY InitType DEF ConfigInit, Register!RegisterInit, ConfigTypeOK, NoTxn

LEMMA RefinesNext == IInv /\ IInv' /\ [ConfigNext]_cvars => [Register!RegisterNext]_(Register!register)
<1> SUFFICES ASSUME IInv, IInv', [ConfigNext]_cvars
             PROVE  Register!RegisterNext \/ UNCHANGED <<Committed, seen, answer>>
  BY DEF Register!register, Committed
<1>0. /\ Committed \in Conf /\ (Committed)' \in Conf
      /\ txn.pc # "idle" => Committed = txn.old
  BY CommitLemma, TxnFields DEF IInv, ConfigTypeOK, Committed
<1> DEFINE Same == UNCHANGED <<Committed, seen, answer>>
<1> USE <1>0 DEF Committed, data, views
<1>1. ASSUME NEW e \in Editors, Fetch(e) PROVE Register!Read(e)
  BY <1>1 DEF Fetch, Register!Read, IInv, ConfigTypeOK
<1>2. ASSUME NEW e \in Editors, TurnedAway(e) PROVE Register!Decline(e)
  BY <1>2 DEF TurnedAway, Closed, Register!Decline, Register!Close
<1>3. ASSUME NEW e \in Editors, Begin(e) \/ \E kind \in Kind : Send(e, kind) PROVE Same
  <2>1. CASE Begin(e)
    <3>1. txn.pc = "idle" /\ txn'.pc = "check"
      BY <2>1 DEF Begin, NoTxn, IInv, RequestInv
    <3> QED
      BY <2>1, <3>1 DEF Begin
  <2>2. CASE \E kind \in Kind : Send(e, kind)
    BY <2>2 DEF Send
  <2> QED
    BY <1>3, <2>1, <2>2
<1>4. ASSUME NEW e \in Editors, Kill(e) PROVE Register!Vanish(e)
  BY <1>4, ConfigAssumption DEF ConfigAssumption, Kill, Release, Closed, NoTxn, Register!Vanish, Register!Close,
     IInv, RequestInv, PhaseInv
<1>5. ASSUME NEW e \in Editors, Step(e)
      PROVE  Register!Swap(e) \/ Register!Decline(e) \/ Register!Tear(e) \/ Same
  <2> USE DEF IInv, RequestInv, PhaseInv, Register!Close, NoTxn, End, Release, Closed
  <2>0. flock = e /\ seen[e] # NoRevision
    BY <1>5, ConfigAssumption DEF Step, ConfigAssumption
  <2>1. CASE Refuse(e)
    BY <2>0, <2>1 DEF Refuse, Register!Decline
  <2>2. CASE SavePolicy(e)
    BY <2>0, <2>2 DEF SavePolicy
  <2>3. CASE StageProfile(e) \/ StageControl(e) \/ StageFile(e)
    <3>1. txn.pc = "check" /\ txn'.pc = "save"
      <4>1. CASE StageProfile(e)
        BY <4>1 DEF StageProfile, ConfigTypeOK, Txn
      <4>2. CASE StageControl(e) \/ StageFile(e)
        <5>1. ASSUME NEW new, Staged(new) PROVE txn'.pc = "save"
          BY <5>1 DEF Staged, ConfigTypeOK, Txn
        <5> QED
          BY <4>2, <5>1 DEF StageControl, StageFile
      <4> QED
        BY <2>3, <4>1, <4>2
    <3> QED
      BY <2>3, <3>1 DEF StageProfile, StageControl, StageFile
  <2>4. CASE StageTailscale(e)
    <3>1. CASE End(e, "failed")
      BY <2>0, <2>4, <3>1 DEF StageTailscale, Register!Decline
    <3>2. ASSUME NEW on \in BOOLEAN, Staged([conf EXCEPT !.ts = on]), UNCHANGED <<flock, req, views>> PROVE Same
      <4>1. txn.pc = "check" /\ txn'.pc = "save"
        BY <2>4, <3>2 DEF StageTailscale, Staged, ConfigTypeOK, Txn
      <4> QED
        BY <2>4, <3>2, <4>1 DEF StageTailscale
    <3> QED
      BY <2>4, <3>1, <3>2 DEF StageTailscale
  <2>5. CASE Forget(e)
    BY <2>0, <2>5 DEF Forget, Current, Register!Swap
  <2>6. CASE Reject(e)
    BY <2>0, <2>6 DEF Reject, Register!Decline
  <2>7. CASE Save(e)
    BY <2>0, <2>7 DEF Save, Register!Swap, ConfigTypeOK, Txn
  <2>8. CASE Reload(e)
    BY <2>0, <2>8 DEF Reload, Register!Swap
  <2>9. CASE ReloadFails \/ Restore
    BY <2>0, <2>9 DEF ReloadFails, Restore, ConfigTypeOK, Txn
  <2>10. CASE RestoreFails(e)
    BY <2>0, <2>10 DEF RestoreFails, Register!Tear
  <2>11. CASE Restart(e)
    BY <2>0, <2>11 DEF Restart, Register!Decline
  <2> QED
    BY <1>5, <2>1, <2>2, <2>3, <2>4, <2>5, <2>6, <2>7, <2>8, <2>9, <2>10, <2>11 DEF Step
<1>6. CASE GatewayStart \/ GatewayStop \/ Prepare \/ UNCHANGED cvars
  BY <1>6 DEF GatewayStart, GatewayStop, Prepare, cvars
<1> QED
  BY <1>1, <1>2, <1>3, <1>4, <1>5, <1>6 DEF ConfigNext, Register!RegisterNext

\* Every behaviour of the transactions, whatever fails and whoever is killed, is one of
\* the register: no edit overwrites a configuration its author has not seen.
THEOREM CompareAndSwap == ConfigSpec => EditsAreCompareAndSwap
BY Inductive, RefinesInit, RefinesNext, PTL DEF ConfigSpec, EditsAreCompareAndSwap, Register!RegisterSpec
=============================================================================
