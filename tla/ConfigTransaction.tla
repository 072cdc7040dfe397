-------------------------- MODULE ConfigTransaction --------------------------
(***************************************************************************)
(* The configuration transactions (internal/controlapi/                    *)
(* configuration_actions.go and config_file.go): apply a profile, the      *)
(* Tailscale section, the network section or the whole file, save the      *)
(* device policy, forget the Tailscale identity.  Each takes the lifecycle *)
(* flock (contention refuses, it does not wait), releases the prepared     *)
(* engine, compares the client's revision with the file's, stages its side *)
(* files, validates, writes the configuration and, when the gateway runs,  *)
(* reloads it; a failure undoes what was done, and the undo can fail too.  *)
(* A revision is the digest of a content, so it is the content here.       *)
(***************************************************************************)
EXTENDS Naturals

CONSTANTS
  Editors,   \* browser sessions and the command line
  NoEditor,
  Payloads,  \* composed mihomo profiles
  Managed,   \* mihomo.profile_mode: managed, no profile file
  Keys,      \* Tailscale auth keys
  NoKey,
  NoRevision,
  CBudget    \* how many faults (a kill is one), requests and gateway commands may happen

CKinds == {"faults", "requests", "commands"}

ASSUME ConfigAssumption ==
  /\ NoEditor \notin Editors /\ Managed \notin Payloads /\ NoKey \notin Keys
  /\ CBudget \in [CKinds -> Nat]

(* The configuration file: the profile, tailscale.enabled, a network       *)
(* section and whether device_policy.file is set.                          *)
Conf == [prof: Payloads \cup {Managed}, ts: BOOLEAN, net: 1..2, pol: BOOLEAN]

Kind == {"profile", "tailscale", "control", "file", "policy", "forget"}

VARIABLES
  conf,      \* the configuration file
  files,     \* data/imported-profile-*.yaml
  policy,    \* data/device-policy.json: 0 when there is none
  key,       \* data/tailscale-auth-key
  identity,  \* data/tailscale is not empty
  gw,        \* the gateway, with the configuration it was started with
  prepared,  \* the prepared engine: "none", "plain" or "tailnet"
  flock,     \* who holds the lifecycle flock
  txn,       \* the transaction under it
  req,       \* per editor: the request that has passed the handler's own checks
  seen,      \* per editor: the revision it last read
  seenPolicy,
  answer,    \* per editor: how its last request ended
  torn,      \* a transaction was killed or could not be undone
  left       \* what is left of CBudget

cvars == <<conf, files, policy, key, identity, gw, prepared, flock, txn, req,
           seen, seenPolicy, answer, torn, left>>
data  == <<conf, files, policy, key, identity>>
views == <<seen, seenPolicy, answer>>

\* Exists of a runtime.State: "broken" left its state file behind.
GwState == [s: {"off", "on", "broken"}, conf: Conf]

\* A fresh installation.
Fresh == [prof |-> Managed, ts |-> FALSE, net |-> 1, pol |-> FALSE]

Txn == [kind: Kind \cup {"none"}, pc: {"idle", "check", "save", "reload", "restore", "restart"},
        old: Conf, new: Conf, was: BOOLEAN, fresh: BOOLEAN, keyOld: Keys \cup {NoKey}, polOld: 0..2]

NoTxn == [kind |-> "none", pc |-> "idle", old |-> Fresh, new |-> Fresh, was |-> FALSE,
          fresh |-> FALSE, keyOld |-> NoKey, polOld |-> 0]

ConfigTypeOK ==
  /\ conf \in Conf /\ files \subseteq Payloads /\ policy \in 0..2
  /\ key \in Keys \cup {NoKey} /\ identity \in BOOLEAN /\ gw \in GwState
  /\ prepared \in {"none", "plain", "tailnet"} /\ flock \in Editors \cup {NoEditor}
  /\ txn \in Txn
  /\ req \in [Editors -> Kind \cup {"none"}]
  /\ seen \in [Editors -> Conf \cup {NoRevision}] /\ seenPolicy \in [Editors -> 0..2]
  /\ answer \in [Editors -> {"none", "ok", "failed", "torn"}]
  /\ torn \in BOOLEAN /\ left \in [CKinds -> Nat]

\* A fresh installation, with the gateway stopped or started.
ConfigInit ==
  /\ conf = Fresh
  /\ files = {} /\ policy = 0 /\ key = NoKey /\ identity = FALSE
  /\ gw \in [s: {"off", "on"}, conf: {Fresh}] /\ prepared = "none"
  /\ flock = NoEditor /\ txn = NoTxn /\ req = [e \in Editors |-> "none"]
  /\ seen = [e \in Editors |-> NoRevision] /\ seenPolicy = [e \in Editors |-> 0]
  /\ answer = [e \in Editors |-> "none"] /\ torn = FALSE /\ left = CBudget

Pay(k) == left[k] > 0 /\ left' = [left EXCEPT ![k] = @ - 1]

----------------------------------------------------------------------------
(* The handlers.                                                           *)

\* GET: no lock, so it may show what a transaction has not settled.
Fetch(e) ==
  /\ req[e] = "none" /\ Pay("requests")
  /\ seen' = [seen EXCEPT ![e] = conf] /\ seenPolicy' = [seenPolicy EXCEPT ![e] = policy]
  /\ answer' = [answer EXCEPT ![e] = "none"]
  /\ UNCHANGED <<data, gw, prepared, flock, txn, req, torn>>

\* If-Match against the revision of the moment, before any lock is held.
Send(e, kind) ==
  /\ req[e] = "none" /\ seen[e] # NoRevision
  /\ IF kind = "policy" THEN conf.pol /\ seenPolicy[e] = policy ELSE seen[e] = conf
  /\ req' = [req EXCEPT ![e] = kind]
  /\ UNCHANGED <<data, gw, prepared, flock, txn, views, torn, left>>

Closed(e, a) ==
  /\ req' = [req EXCEPT ![e] = "none"] /\ seen' = [seen EXCEPT ![e] = NoRevision]
  /\ answer' = [answer EXCEPT ![e] = a] /\ UNCHANGED seenPolicy

\* 409 or 422 before the lock: the revision is stale, lifecycleMu or the flock
\* is taken, or the prepared engine cannot be released.
TurnedAway(e) ==
  /\ seen[e] # NoRevision /\ flock # e
  /\ Closed(e, "failed")
  /\ UNCHANGED <<data, gw, prepared, flock, txn, torn, left>>

\* (mutant) The prepared engine is left running.
KeepPrepared == UNCHANGED prepared

\* mihomo.StopPreparedLocked
StopPrepared == prepared' = "none"

\* withConfigurationLifecycleLock
Begin(e) ==
  /\ req[e] # "none" /\ flock = NoEditor
  /\ flock' = e /\ StopPrepared
  /\ txn' = [NoTxn EXCEPT !.kind = req[e], !.pc = "check", !.was = gw.s # "off",
                           !.old = conf, !.new = conf, !.keyOld = key, !.polOld = policy]
  /\ UNCHANGED <<data, gw, req, views, torn, left>>

\* (mutant) The deferred Release is missing.
LeakLock == UNCHANGED flock /\ txn' = NoTxn

Release == flock' = NoEditor /\ txn' = NoTxn

End(e, a) == Release /\ Closed(e, a)

----------------------------------------------------------------------------
(* Under the flock.                                                        *)

\* (mutant) The revision was compared by the handler already.
AnyRevision(e) == TRUE

\* revision != fileDigest(configPath), or the digest of the policy bundle.
Current(e) == IF txn.kind = "policy" THEN conf.pol /\ seenPolicy[e] = policy ELSE seen[e] = conf

\* "gateway must be stopped before editing": control config and config file.
Editable == ~txn.was

\* The conflict, or a refusal that depends on the gateway or the configuration.
Refuse(e) ==
  /\ txn.pc = "check"
  /\ \/ ~Current(e)
     \/ txn.kind \in {"control", "file"} /\ ~Editable
     \/ txn.kind = "forget" /\ (conf.ts \/ txn.was)
  /\ End(e, "failed") /\ UNCHANGED <<data, gw, prepared, torn, left>>

Staged(new) == txn' = [txn EXCEPT !.pc = "save", !.new = new]

\* applyProfile up to deps.validate: the payload is written beside the others.
StageProfile(e) ==
  /\ txn.pc = "check" /\ txn.kind = "profile" /\ Current(e)
  /\ \E p \in Payloads :
       /\ files' = files \cup {p}
       /\ txn' = [txn EXCEPT !.pc = "save", !.new = [conf EXCEPT !.prof = p], !.fresh = p \notin files]
  /\ UNCHANGED <<conf, policy, key, identity, gw, prepared, flock, req, views, torn, left>>

\* applyTailscale up to deps.validate: a submitted key is written first.
StageTailscale(e) ==
  /\ txn.pc = "check" /\ txn.kind = "tailscale" /\ Current(e)
  /\ \E on \in BOOLEAN, k \in Keys \cup {NoKey} :
       IF on /\ k = NoKey /\ key = NoKey /\ ~identity
       THEN End(e, "failed") /\ UNCHANGED key    \* an auth key is required first
       ELSE /\ key' = IF k = NoKey THEN key ELSE k
            /\ Staged([conf EXCEPT !.ts = on]) /\ UNCHANGED <<flock, req, views>>
  /\ UNCHANGED <<conf, files, policy, identity, gw, prepared, torn, left>>

\* applyControlConfig: the device policy is always switched on, and a policy
\* file left by an older version is kept (CreateEmptyPolicyFile).
StageControl(e) ==
  /\ txn.pc = "check" /\ txn.kind = "control" /\ Current(e) /\ Editable
  /\ policy' = IF ~conf.pol /\ policy = 0 THEN 1 ELSE policy
  /\ \E n \in 1..2 : Staged([conf EXCEPT !.net = n, !.pol = TRUE])
  /\ UNCHANGED <<conf, files, key, identity, gw, prepared, flock, req, views, torn, left>>

\* applyConfigFile: the paths and credentials are put back from the file.
StageFile(e) ==
  /\ txn.pc = "check" /\ txn.kind = "file" /\ Current(e) /\ Editable
  /\ \E n \in 1..2, on \in BOOLEAN : Staged([conf EXCEPT !.net = n, !.ts = on])
  /\ UNCHANGED <<data, gw, prepared, flock, req, views, torn, left>>

\* applyDevicePolicy: validated as a candidate in a temporary directory, then
\* one atomic write; the running gateway keeps its own snapshot.
SavePolicy(e) ==
  /\ txn.pc = "check" /\ txn.kind = "policy" /\ Current(e)
  /\ policy' \in 1..2
  /\ Release /\ req' = [req EXCEPT ![e] = "none"]
  /\ UNCHANGED <<conf, files, key, identity, gw, prepared, views, torn, left>>

\* forgetTailscaleIdentity
Forget(e) ==
  /\ txn.pc = "check" /\ txn.kind = "forget" /\ Current(e) /\ ~conf.ts /\ ~txn.was
  /\ identity' = FALSE /\ End(e, "ok")
  /\ UNCHANGED <<conf, files, policy, key, gw, prepared, torn, left>>

\* (mutant) The payload's file goes, even when it was there before.
CleanupAlways == files' = IF txn.kind = "profile" THEN files \ {txn.new.prof} ELSE files

\* cleanupProfile
CleanupProfile == files' = IF txn.fresh THEN files \ {txn.new.prof} ELSE files

\* (mutant) The key that was submitted stays.
KeepKey == UNCHANGED key

\* rollbackKey
RollbackKey == key' = txn.keyOld

\* Validation or the write of the file fails: side files are put back.
Reject(e) ==
  /\ txn.pc = "save" /\ Pay("faults")
  /\ CleanupProfile /\ RollbackKey /\ policy' = txn.polOld
  /\ End(e, "failed")
  /\ UNCHANGED <<conf, identity, gw, prepared, torn>>

\* (mutant) The gateway is reloaded by whoever comes next.
NeverReload == FALSE

\* wasRunning; control and file transactions find the gateway stopped.
MustReload == txn.was

\* The commit, unless the gateway has to be reloaded.
Save(e) ==
  /\ txn.pc = "save" /\ conf' = txn.new
  /\ IF MustReload THEN txn' = [txn EXCEPT !.pc = "reload"] /\ UNCHANGED <<flock, req, views>> ELSE End(e, "ok")
  /\ UNCHANGED <<files, policy, key, identity, gw, prepared, torn, left>>

Running(c) == gw' = [s |-> "on", conf |-> c] /\ identity' = (identity \/ c.ts)

\* gateway.ReloadLocked succeeds ...
Reload(e) ==
  /\ txn.pc = "reload" /\ Running(conf) /\ End(e, "ok")
  /\ UNCHANGED <<conf, files, policy, key, prepared, torn, left>>

\* ... or fails, before it has stopped anything, after it has stopped all, or
\* with a state file that says there is something left to clean.
ReloadFails ==
  /\ txn.pc = "reload" /\ Pay("faults")
  /\ \E s \in {gw.s, "off", "broken"} : gw' = [gw EXCEPT !.s = s]
  /\ txn' = [txn EXCEPT !.pc = "restore"]
  /\ UNCHANGED <<data, prepared, flock, req, views, torn>>

\* restoring_config
Restore ==
  /\ txn.pc = "restore"
  /\ conf' = txn.old /\ RollbackKey /\ txn' = [txn EXCEPT !.pc = "restart"]
  /\ UNCHANGED <<files, policy, identity, gw, prepared, flock, req, views, torn, left>>

\* The previous file cannot be written: key and profile are undone all the same.
RestoreFails(e) ==
  /\ txn.pc = "restore" /\ Pay("faults")
  /\ RollbackKey /\ CleanupProfile /\ torn' = TRUE /\ End(e, "torn")
  /\ UNCHANGED <<conf, policy, identity, gw, prepared>>

\* Start is called only when no state file is left, and may fail again.
Restart(e) ==
  /\ txn.pc = "restart"
  /\ \/ gw.s # "off" /\ UNCHANGED <<gw, identity, left>>
     \/ gw.s = "off" /\ Running(conf) /\ UNCHANGED left
     \/ gw.s = "off" /\ Pay("faults") /\ gw' \in {gw, [gw EXCEPT !.s = "broken"]} /\ UNCHANGED identity
  /\ CleanupProfile /\ End(e, "failed")
  /\ UNCHANGED <<conf, policy, key, prepared, torn>>

Step(e) ==
  /\ flock = e
  /\ \/ Refuse(e) \/ StageProfile(e) \/ StageTailscale(e) \/ StageControl(e) \/ StageFile(e)
     \/ SavePolicy(e) \/ Forget(e) \/ Reject(e) \/ Save(e)
     \/ Reload(e) \/ ReloadFails \/ Restore \/ RestoreFails(e) \/ Restart(e)

\* The process dies: the kernel drops the flock, the files stay as they are.
Kill(e) ==
  /\ flock = e /\ Pay("faults")
  /\ gw' \in {gw} \cup IF txn.pc = "reload" THEN {[gw EXCEPT !.s = "off"], [gw EXCEPT !.s = "broken"]} ELSE {}
  /\ torn' = TRUE /\ Release /\ Closed(e, "none")
  /\ UNCHANGED <<data, prepared>>

----------------------------------------------------------------------------
(* The lifecycle commands and the workspace, each under the flock.         *)

GatewayStart ==
  /\ flock = NoEditor /\ gw.s = "off" /\ Pay("commands")
  /\ conf.prof \in files \cup {Managed} /\ (conf.ts => key # NoKey \/ identity)
  /\ Running(conf) /\ prepared' = "none"
  /\ UNCHANGED <<conf, files, policy, key, flock, txn, req, views, torn>>

GatewayStop ==
  /\ flock = NoEditor /\ gw.s # "off" /\ Pay("commands")
  /\ gw' = [gw EXCEPT !.s = "off"]
  /\ UNCHANGED <<data, prepared, flock, txn, req, views, torn>>

\* A workspace starts the prepared engine; with Tailscale it is a tailnet node.
Prepare ==
  /\ flock = NoEditor /\ gw.s = "off" /\ prepared = "none" /\ Pay("commands")
  /\ conf.prof \in files \cup {Managed} /\ (conf.ts => key # NoKey \/ identity)
  /\ prepared' = IF conf.ts THEN "tailnet" ELSE "plain"
  /\ identity' = (identity \/ conf.ts)
  /\ UNCHANGED <<conf, files, policy, key, gw, flock, txn, req, views, torn>>

ConfigNext ==
  \/ \E e \in Editors : \/ Fetch(e) \/ TurnedAway(e) \/ Begin(e) \/ Step(e) \/ Kill(e)
                        \/ \E kind \in Kind : Send(e, kind)
  \/ GatewayStart \/ GatewayStop \/ Prepare

\* A request under way goes on; the gateway's commands return (they have time-outs).
ConfigSpec ==
  /\ ConfigInit /\ [][ConfigNext]_cvars
  /\ \A e \in Editors : WF_cvars(Step(e))

----------------------------------------------------------------------------
(* Properties.                                                             *)

Settled == flock = NoEditor /\ ~torn

\* The configuration never names an imported profile that is not on disk: the
\* clean-up of a failed apply (configuration_actions.go:122) spares a file that
\* was there before, which the restored configuration may name.
ProfileOnDisk == ~torn => conf.prof \in files \cup {Managed}

\* Between transactions a running gateway runs what the file says: every apply
\* to a running gateway reloads it or takes the file back.
RunningAsConfigured == Settled /\ gw.s = "on" => gw.conf = conf

\* An engine that is a tailnet node keeps its identity under its feet: the
\* prepared engine is released before any transaction may erase it.
NodeKeepsIdentity == prepared = "tailnet" \/ (gw.s = "on" /\ gw.conf.ts) => identity

\* A request answered as failed leaves the file, the auth key, the policy and
\* the imported profiles as they were when it took the lock.
FailureLeavesNoTrace ==
  [][\A e \in Editors : flock = e /\ answer'[e] = "failed"
       => /\ conf' = txn.old /\ key' = txn.keyOld /\ policy' = txn.polOld
          /\ txn.fresh => txn.new.prof \notin files']_cvars

\* The three of them: what is configured can be started, and what runs is what is
\* configured.
ConfigurationHolds == ProfileOnDisk /\ RunningAsConfigured /\ NodeKeepsIdentity

\* Whatever the editors do at the same time, the file is a register with
\* compare-and-swap: no edit overwrites one its author has not seen.
Register == INSTANCE ConfigRegister WITH
  Clients <- Editors, Values <- Conf, NoValue <- NoRevision,
  value <- IF txn.pc \in {"reload", "restore"} THEN txn.old ELSE conf
EditsAreCompareAndSwap == Register!RegisterSpec

\* Every path through a transaction, the failing ones too, gives the flock back.
LockComesBack == flock # NoEditor ~> flock = NoEditor

\* A request comes to an end, and one that ends in failure leaves nothing behind.
RequestsEndCleanly == FailureLeavesNoTrace /\ LockComesBack
=============================================================================
