------------------------ MODULE ControlPlaneProofs ------------------------
(***************************************************************************)
(* Why the controllers keep what they promise, for every size and budget:  *)
(* one inductive invariant for each, in the order the modules' own         *)
(* comments explain them, and the theorems they add up to.                 *)
(***************************************************************************)
EXTENDS ControlPlane, FiniteSetTheorems, TLAPS

\* A component counts as its composition does.
LEMMA SameCount ==
  \A U : /\ A!Cardinality(U) = Cardinality(U) /\ P!Cardinality(U) = Cardinality(U)
         /\ W!Cardinality(U) = Cardinality(U) /\ O!Cardinality(U) = Cardinality(U)
<1>1. \A U : A!Cardinality(U) = Cardinality(U)
  BY DEF A!Cardinality, Cardinality
<1>2. \A U : P!Cardinality(U) = Cardinality(U)
  BY DEF P!Cardinality, Cardinality
<1>3. \A U : W!Cardinality(U) = Cardinality(U)
  BY DEF W!Cardinality, Cardinality
<1>4. \A U : O!Cardinality(U) = Cardinality(U)
  BY DEF O!Cardinality, Cardinality
<1> QED
  BY <1>1, <1>2, <1>3, <1>4

----------------------------------------------------------------------------
(* The dnsmasq recovery controller.                                       *)
\* The controller's record, and the rounds and operations it is between.
Seat == [state : {"idle", "observing", "recovering", "failed"}, healthy : 0 .. 1,
         attempted : BOOLEAN, active : BOOLEAN]

WatchInv ==
  /\ seat \in Seat /\ N!WatchTypeOK
  /\ N!DeafOnlyWhileActing
  /\ glance \in {"act", "owed"} => owner # "auto"
  /\ glance = "act" => ~seat.attempted
  /\ seat.active => seat.attempted /\ seat.healthy = 0
  /\ ~seat.attempted => streak >= 2
  /\ seat.attempted /\ seat.healthy = 1 => streak >= 1

LEMMA WatchStart == N!WatchInit => WatchInv
BY DEF N!WatchInit, WatchInv, Seat, N!WatchTypeOK, N!DeafOnlyWhileActing, N!Fresh

LEMMA WatchKept == WatchInv /\ [N!WatchNext]_(N!nvars) => WatchInv' /\ (owner = "none" /\ owner' = "auto" => streak >= 2)
<1> SUFFICES ASSUME WatchInv, [N!WatchNext]_(N!nvars)
             PROVE  WatchInv' /\ (owner = "none" /\ owner' = "auto" => streak >= 2)
  OBVIOUS
<1> USE DEF WatchInv, Seat, N!WatchTypeOK, N!DeafOnlyWhileActing
<1>1. CASE N!Glance
  BY <1>1 DEF N!Glance, N!Pays
<1>2. CASE N!Observe
  <2>1. CASE glance = "healthy"
    <3>1. /\ seat' = N!Healthy /\ glance' = "none" /\ UNCHANGED <<daemon, owner>>
          /\ streak' = IF seat.active \/ streak >= 2 THEN streak ELSE streak + 1
      BY <1>2, <2>1 DEF N!Observe
    <3>2. CASE seat.active
      <4>1. seat' = seat /\ streak' = streak
        BY <3>1, <3>2 DEF N!Healthy
      <4> QED
        BY <2>1, <3>1, <4>1
    <3>3. CASE ~seat.active /\ seat.attempted /\ seat.healthy = 0
      <4>1. seat' = [seat EXCEPT !.state = "recovering", !.healthy = 1]
        BY <3>1, <3>3 DEF N!Healthy, N!Confirmations
      <4>2. /\ seat' \in Seat /\ (seat'.active <=> seat.active) /\ (seat'.attempted <=> seat.attempted)
            /\ seat'.healthy = 1
        <5>1. seat' \in Seat
          <6>1. 1 \in 0 .. 1 /\ seat \in Seat
            OBVIOUS
          <6> HIDE DEF WatchInv, N!WatchTypeOK, N!DeafOnlyWhileActing
          <6> QED
            BY <4>1, <6>1
        <5>2. seat'.active <=> seat.active
          BY <4>1
        <5>3. seat'.attempted <=> seat.attempted
          BY <4>1
        <5>4. seat'.healthy = 1
          BY <4>1
        <5> QED
          BY <5>1, <5>2, <5>3, <5>4
      <4>3. streak' \in {1, 2, 9}
        BY <3>1, <3>3
      <4> QED
        BY <2>1, <3>1, <3>3, <4>2, <4>3
    <3>4. CASE ~seat.active /\ (~seat.attempted \/ seat.healthy = 1)
      <4>1. seat' = N!Fresh
        BY <3>1, <3>4 DEF N!Healthy, N!Confirmations
      <4> QED
        BY <3>1, <3>4, <4>1 DEF N!Fresh
    <3> QED
      BY <3>2, <3>3, <3>4
  <2>2. CASE glance = "unknown"
    <3>1. /\ seat' = N!Unknown /\ glance' = "none" /\ UNCHANGED <<daemon, owner>>
          /\ streak' = IF streak = 1 THEN 0 ELSE streak
      BY <1>2, <2>2 DEF N!Observe
    <3>2. /\ seat' \in Seat /\ (seat'.active <=> seat.active) /\ (seat'.attempted <=> seat.attempted)
          /\ seat'.healthy = 0
      <4>1. CASE seat.active
        BY <3>1, <4>1 DEF N!Unknown
      <4>2. CASE ~seat.active
        BY <3>1, <4>2 DEF N!Unknown
      <4> QED
        BY <4>1, <4>2
    <3>3. streak' \in {0, 1, 2, 9} /\ (streak >= 2 => streak' >= 2)
      BY <3>1
    <3> QED
      BY <2>2, <3>1, <3>2, <3>3
  <2> QED
    BY <1>2, <2>1, <2>2 DEF N!Observe
<1>3. CASE N!Missing
  <2>1. /\ streak' = IF streak = 1 THEN 0 ELSE streak
        /\ UNCHANGED <<daemon, owner>>
    BY <1>3 DEF N!Missing
  <2>2. CASE owner \in {"manual", "auto"}
    BY <1>3, <2>1, <2>2 DEF N!Missing, N!Unknown
  <2>3. CASE owner = "none"
    <3>1. seat' = N!Absent /\ glance' = IF N!Wants THEN "act" ELSE "none"
      BY <1>3, <2>3 DEF N!Missing
    <3>2. /\ seat' \in Seat /\ (seat'.active <=> seat.active) /\ (seat'.attempted <=> seat.attempted)
          /\ seat'.healthy = 0
      <4>1. CASE seat.active
        BY <3>1, <4>1 DEF N!Absent
      <4>2. CASE ~seat.active
        <5>0. PICK st \in {"idle", "observing", "recovering", "failed"} :
                seat' = [seat EXCEPT !.healthy = 0] \/ seat' = [seat EXCEPT !.healthy = 0, !.state = st]
          BY <3>1, <4>2 DEF N!Absent
        <5>1. seat' \in Seat
          <6>1. 0 \in 0 .. 1 /\ seat \in Seat
            OBVIOUS
          <6> HIDE DEF WatchInv, N!WatchTypeOK, N!DeafOnlyWhileActing
          <6>2. CASE seat' = [seat EXCEPT !.healthy = 0]
            BY <6>1, <6>2
          <6>3. CASE seat' = [seat EXCEPT !.healthy = 0, !.state = st]
            BY <6>1, <6>3
          <6> QED
            BY <5>0, <6>2, <6>3
        <5>2. seat'.active <=> seat.active
          BY <5>0
        <5>3. seat'.attempted <=> seat.attempted
          BY <5>0
        <5>4. seat'.healthy = 0
          BY <5>0
        <5> QED
          BY <5>1, <5>2, <5>3, <5>4
      <4> QED
        BY <4>1, <4>2
    <3>3. streak' \in {0, 1, 2, 9} /\ (streak >= 2 => streak' >= 2)
      BY <2>1
    <3> QED
      BY <1>3, <2>1, <2>3, <3>1, <3>2, <3>3 DEF N!Wants, N!Missing
  <2> QED
    BY <2>2, <2>3
<1>4. CASE N!Begin
  <2>1. CASE UNCHANGED <<seat, owner, streak>> /\ glance' = "none"
    BY <1>4, <2>1 DEF N!Begin
  <2>2. CASE owner = "none" /\ seat' = [N!Fresh EXCEPT !.state = "recovering", !.attempted = TRUE, !.active = TRUE]
    <3>1. /\ seat' \in Seat /\ seat'.active /\ seat'.attempted /\ seat'.healthy = 0
          /\ glance = "act" /\ daemon' = daemon
          /\ \/ owner' = "auto" /\ streak' = 0 /\ glance' = "none"
             \/ glance' = "owed" /\ UNCHANGED <<owner, streak>>
      <4>1. seat' \in Seat /\ seat'.active /\ seat'.attempted /\ seat'.healthy = 0
        <5>1. seat' = [state |-> "recovering", healthy |-> 0, attempted |-> TRUE, active |-> TRUE]
          BY <2>2 DEF N!Fresh
        <5> QED
          BY <5>1
      <4> QED
        BY <1>4, <2>2, <4>1 DEF N!Begin
    <3> QED
      BY <2>2, <3>1
  <2> QED
    BY <1>4, <2>1, <2>2 DEF N!Begin
<1>5. CASE N!NotStored
  BY <1>5 DEF N!NotStored, N!Finished
<1>6. CASE N!AutoEnds
  BY <1>6 DEF N!AutoEnds, N!Outcome, N!Finished
<1>7. CASE N!ManualBegins \/ N!ManualEnds \/ N!DnsmasqDies
  BY <1>7 DEF N!ManualBegins, N!ManualEnds, N!DnsmasqDies
<1>8. CASE UNCHANGED N!nvars
  BY <1>8 DEF N!nvars
<1> QED
  BY <1>1, <1>2, <1>3, <1>4, <1>5, <1>6, <1>7, <1>8 DEF N!WatchNext

----------------------------------------------------------------------------
(* Who is let in by the web gateway.                                      *)
LEMMA WAssumption ==
  /\ Requests # {} /\ IsFiniteSet(Requests) /\ MaxFailures \in Nat \ {0} /\ Life \in Nat /\ WHorizon \in Nat
  /\ WBudget \in [WKinds -> Nat]
BY ControlAssumption DEF WKinds
WebTypes ==
  /\ account \in {"", "alice", "bob"} /\ token \in BOOLEAN /\ guarded \in BOOLEAN /\ serving \in BOOLEAN
  /\ sessions \in [Sessions -> Nat] /\ used \in [Sessions -> Nat]
  /\ bucket \in [start : Nat, failed : Nat] /\ issued \in Nat /\ remote \in 0 .. issued
  /\ request \in [Requests -> {"rest", "setup", "clear", "login"}]
  /\ tick \in Nat /\ tick > 0 /\ wleft \in [WKinds -> Nat]

\* A live session ends Life after its last use; only one that has ended is forgotten.
SessionInv ==
  \A s \in Sessions : \/ used[s] = 0 /\ sessions[s] = 0
                      \/ used[s] # 0 /\ sessions[s] = used[s] + Life
                      \/ used[s] # 0 /\ sessions[s] = 0 /\ used[s] + Life <= tick

\* Whoever is to clear the token has written the administrator.
TokenInv == W!TokenUntilSetup /\ \A r \in Requests : request[r] = "clear" => account # ""

LoggingIn(q) == {r \in Requests : q[r] = "login"}

\* Failures, and the failures that may still come of what is under way.
LimitInv == W!Failures + Cardinality(LoggingIn(request)) <= MaxFailures + Cardinality(Requests) - 1

WebInv == WebTypes /\ SessionInv /\ TokenInv /\ LimitInv

LEMMA LoginsCounted ==
  ASSUME NEW q
  PROVE  /\ Cardinality(LoggingIn(q)) \in Nat /\ Cardinality(Requests) \in Nat \ {0}
         /\ Cardinality(LoggingIn(q)) <= Cardinality(Requests) /\ IsFiniteSet(LoggingIn(q))
<1>1. LoggingIn(q) \subseteq Requests
  BY DEF LoggingIn
<1> QED
  BY <1>1, WAssumption, FS_Subset, FS_CardinalityType, FS_EmptySet

LEMMA FailuresCounted == WebTypes => W!Failures \in Nat
BY DEF WebTypes, W!Failures

LEMMA WebPromises == WebInv => W!WebTypeOK /\ W!TokenUntilSetup /\ W!SessionFollowsUse /\ W!LimitHolds
<1> SUFFICES ASSUME WebInv PROVE W!WebTypeOK /\ W!TokenUntilSetup /\ W!SessionFollowsUse /\ W!LimitHolds
  OBVIOUS
<1>1. W!WebTypeOK
  BY DEF WebInv, WebTypes, W!WebTypeOK
<1>2. W!SessionFollowsUse
  <2>1. tick \in Nat /\ Life \in Nat /\ used \in [Sessions -> Nat] /\ tick > 0
    BY WAssumption DEF WebInv, WebTypes
  <2>2. SUFFICES ASSUME NEW s \in Sessions
                 PROVE  tick < sessions[s] <=> (used[s] # 0 /\ tick < used[s] + Life)
    BY DEF W!SessionFollowsUse
  <2>3. used[s] \in Nat
    BY <2>1
  <2> QED
    BY <2>1, <2>3 DEF WebInv, SessionInv
<1>3. W!LimitHolds
  BY LoginsCounted, FailuresCounted, WAssumption, SameCount DEF WebInv, LimitInv, W!LimitHolds
<1> QED
  BY <1>1, <1>2, <1>3 DEF WebInv, TokenInv

LEMMA WebStart == W!WebInit => WebInv
<1> SUFFICES ASSUME W!WebInit PROVE WebInv
  OBVIOUS
<1>1. WebTypes
  <2>0. /\ bucket = [start |-> 0, failed |-> 0] /\ remote = 0 /\ issued = 0 /\ tick = 1
        /\ sessions = [s \in Sessions |-> 0] /\ used = sessions
    BY DEF W!WebInit
  <2>1. bucket \in [start : Nat, failed : Nat] /\ remote \in 0 .. issued /\ issued \in Nat
    BY <2>0
  <2>2. sessions \in [Sessions -> Nat] /\ used \in [Sessions -> Nat] /\ tick \in Nat /\ tick > 0
    BY <2>0
  <2>3. request \in [Requests -> {"rest", "setup", "clear", "login"}] /\ wleft \in [WKinds -> Nat]
    BY WAssumption DEF W!WebInit
  <2> QED
    BY <2>1, <2>2, <2>3 DEF W!WebInit, WebTypes
<1>2. SessionInv
  BY DEF W!WebInit, SessionInv
<1>3. TokenInv
  BY DEF W!WebInit, TokenInv, W!TokenUntilSetup
<1>4. W!Failures = 0
  BY DEF W!WebInit, W!Failures, W!InWindow
<1>5. LimitInv
  BY <1>4, LoginsCounted, WAssumption DEF LimitInv
<1> QED
  BY <1>1, <1>2, <1>3, <1>5 DEF WebInv

----------------------------------------------------------------------------
(* The parts of the invariant, each under the steps that can disturb it.   *)

LEMMA ChargeTaken == ASSUME wleft \in [WKinds -> Nat], NEW k \in WKinds, W!Charge(k) PROVE wleft' \in [WKinds -> Nat]
BY DEF W!Charge, WKinds

LEMMA WebTypesKept == ASSUME WebTypes, [W!WebNext]_(W!wvars) PROVE WebTypes'
<1>a. /\ tick \in Nat /\ tick > 0 /\ Life \in Nat /\ bucket.start \in Nat
      /\ bucket \in [start : Nat, failed : Nat] /\ W!Failures \in Nat
  BY WAssumption, FailuresCounted DEF WebTypes
<1>b. sessions \in [Sessions -> Nat] /\ used \in [Sessions -> Nat] /\ issued \in Nat /\ remote \in 0 .. issued
  BY DEF WebTypes
<1> USE DEF WebTypes
<1>0. CASE UNCHANGED W!wvars
  BY <1>0 DEF W!wvars
<1>1. CASE W!WebNext
  <2>1. wleft' \in [WKinds -> Nat]
    BY <1>1, ChargeTaken DEF W!WebNext, W!Starts, W!Dies, W!Rotate, W!Revoke, W!Time, W!Use, W!Logout, W!SetupAsks, W!SetupWrites,
       W!SetupEnds, W!LoginAsks, W!LoginFails, W!LoginEnds, WKinds
  <2>2. account' \in {"", "alice", "bob"} /\ guarded' \in BOOLEAN /\ serving' \in BOOLEAN
    BY <1>1 DEF W!WebNext, W!Starts, W!Dies, W!Rotate, W!Revoke, W!Time, W!Use, W!Logout, W!SetupAsks, W!SetupWrites,
       W!SetupEnds, W!LoginAsks, W!LoginFails, W!LoginEnds
  <2>3. token' \in BOOLEAN
    BY <1>1 DEF W!WebNext, W!Starts, W!Dies, W!Rotate, W!Revoke, W!Time, W!Use, W!Logout, W!SetupAsks, W!SetupWrites,
       W!SetupEnds, W!LoginAsks, W!LoginFails, W!LoginEnds, W!EnsuredToken
  <2>8. tick' \in Nat /\ tick' > 0
    <3>1. tick' = tick \/ tick' = tick + 1
      BY <1>1 DEF W!WebNext, W!Starts, W!Dies, W!Rotate, W!Revoke, W!Time, W!Use, W!Logout, W!SetupAsks, W!SetupWrites,
         W!SetupEnds, W!LoginAsks, W!LoginFails, W!LoginEnds
    <3> HIDE DEF WebTypes
    <3> QED
      BY <3>1, <1>a
  <2>4. sessions' \in [Sessions -> Nat] /\ used' \in [Sessions -> Nat]
    <3> HIDE DEF WebTypes
    <3>1. tick \in Nat /\ tick + Life \in Nat
      BY <1>a
    <3>2. sessions \in [Sessions -> Nat] /\ used \in [Sessions -> Nat]
      BY <1>b
    <3>3. CASE UNCHANGED <<sessions, used>>
      BY <3>2, <3>3
    <3>4. ASSUME NEW s \in Sessions, W!Issue(s) PROVE sessions' \in [Sessions -> Nat] /\ used' \in [Sessions -> Nat]
      BY <3>1, <3>2, <3>4 DEF W!Issue
    <3>5. CASE \E s \in Sessions : W!Use(s) \/ W!Logout(s)
      BY <3>1, <3>2, <3>5 DEF W!Use, W!Logout, W!Slid
    <3>6. CASE W!Dies
      BY <3>6 DEF W!Dies
    <3> QED
      BY <1>1, <3>3, <3>4, <3>5, <3>6 DEF W!WebNext, W!Starts, W!Rotate, W!Revoke, W!Time, W!SetupAsks, W!SetupWrites,
         W!SetupEnds, W!LoginAsks, W!LoginFails, W!LoginEnds
  <2>5. bucket' \in [start : Nat, failed : Nat]
    <3>1. \/ bucket' = bucket
          \/ bucket' = [start |-> 0, failed |-> 0]
          \/ bucket' = [start |-> IF W!InWindow THEN bucket.start ELSE tick, failed |-> W!Failures + 1]
      BY <1>1 DEF W!WebNext, W!Starts, W!Dies, W!Rotate, W!Revoke, W!Time, W!Use, W!Logout, W!SetupAsks, W!SetupWrites,
         W!SetupEnds, W!LoginAsks, W!LoginFails, W!LoginEnds
    <3> HIDE DEF WebTypes
    <3>2. W!Failures + 1 \in Nat /\ tick \in Nat /\ bucket.start \in Nat /\ bucket \in [start : Nat, failed : Nat]
      BY <1>a
    <3> QED
      BY <3>1, <3>2
  <2>6. issued' \in Nat /\ remote' \in 0 .. issued'
    <3>1. \/ issued' = issued /\ remote' \in {remote, 0}
          \/ issued' = issued + 1 /\ remote' = issued'
      BY <1>1 DEF W!WebNext, W!Starts, W!Dies, W!Rotate, W!Revoke, W!Time, W!Use, W!Logout, W!SetupAsks, W!SetupWrites,
         W!SetupEnds, W!LoginAsks, W!LoginFails, W!LoginEnds
    <3>2. issued \in Nat /\ remote \in 0 .. issued
      OBVIOUS
    <3> HIDE DEF WebTypes
    <3> QED
      BY <3>1, <3>2
  <2>7. request' \in [Requests -> {"rest", "setup", "clear", "login"}]
    BY <1>1 DEF W!WebNext, W!Starts, W!Dies, W!Rotate, W!Revoke, W!Time, W!Use, W!Logout, W!SetupAsks, W!SetupWrites,
       W!SetupEnds, W!LoginAsks, W!LoginFails, W!LoginEnds, W!To
  <2> QED
    BY <2>1, <2>2, <2>3, <2>4, <2>5, <2>6, <2>7, <2>8
<1> QED
  BY <1>0, <1>1

LEMMA SessionsKept == ASSUME WebTypes, SessionInv, [W!WebNext]_(W!wvars) PROVE SessionInv'
<1>0. tick \in Nat /\ tick > 0 /\ Life \in Nat /\ used \in [Sessions -> Nat] /\ sessions \in [Sessions -> Nat]
  BY WAssumption DEF WebTypes
<1>a. \A s \in Sessions : used[s] \in Nat
  BY <1>0
<1>1. ASSUME NEW s \in Sessions, W!Issue(s), tick' = tick PROVE SessionInv'
  BY <1>0, <1>1 DEF SessionInv, W!Issue
<1>2. CASE UNCHANGED <<sessions, used>> /\ tick' \in {tick, tick + 1}
  BY <1>0, <1>a, <1>2 DEF SessionInv
<1>3. CASE W!Dies
  BY <1>0, <1>3 DEF SessionInv, W!Dies
<1>4. ASSUME NEW s \in Sessions, W!Use(s) PROVE SessionInv'
  <2>1. \A d \in Sessions : d # s => sessions'[d] = sessions[d] /\ used'[d] = used[d]
    BY <1>0, <1>4 DEF W!Use
  <2>2. tick' = tick
    BY <1>4 DEF W!Use
  <2>3. CASE tick < sessions[s]
    <3>1. sessions'[s] = tick + Life /\ used'[s] = tick
      BY <1>0, <1>4, <2>3 DEF W!Use, W!Slid
    <3> QED
      BY <1>0, <2>1, <2>2, <3>1 DEF SessionInv
  <2>4. CASE ~(tick < sessions[s])
    <3>1. sessions'[s] = 0 /\ used'[s] = used[s]
      BY <1>0, <1>4, <2>4 DEF W!Use
    <3>2. used[s] = 0 \/ used[s] + Life <= tick
      BY <1>0, <1>a, <2>4 DEF SessionInv
    <3> QED
      BY <2>1, <2>2, <3>1, <3>2 DEF SessionInv
  <2> QED
    BY <2>3, <2>4
<1>5. ASSUME NEW s \in Sessions, W!Logout(s) PROVE SessionInv'
  BY <1>0, <1>5 DEF SessionInv, W!Logout
<1>6. ASSUME NEW r \in Requests, W!SetupEnds(r) \/ W!LoginEnds(r) PROVE SessionInv'
  BY <1>1, <1>6 DEF W!SetupEnds, W!LoginEnds
<1> QED
  BY <1>2, <1>3, <1>4, <1>5, <1>6 DEF W!wvars, W!WebNext, W!Starts, W!Rotate, W!Revoke, W!Time, W!SetupAsks, W!SetupWrites,
     W!LoginAsks, W!LoginFails

LEMMA TokenKept == ASSUME WebTypes, TokenInv, [W!WebNext]_(W!wvars) PROVE TokenInv'
<1> USE DEF WebTypes, TokenInv, W!TokenUntilSetup
<1>1. CASE UNCHANGED <<account, token, guarded, serving, request>>
  BY <1>1
<1>2. CASE W!Starts
  BY <1>2 DEF W!Starts, W!EnsuredToken
<1>3. CASE W!Dies
  BY <1>3 DEF W!Dies
<1>4. ASSUME NEW r \in Requests, NEW pc \in {"rest", "setup", "login"},
             request[r] # "clear", W!To(r, pc), UNCHANGED <<account, token, guarded, serving>>
      PROVE  TokenInv'
  <2>1. \A q \in Requests : request'[q] = "clear" <=> request[q] = "clear"
    BY <1>4 DEF W!To
  <2> QED
    BY <1>4, <2>1
<1>5. ASSUME NEW r \in Requests, W!SetupWrites(r) PROVE TokenInv'
  <2>1. CASE account = "" /\ account' \in {"alice", "bob"} /\ W!To(r, "clear")
    BY <1>5, <2>1 DEF W!SetupWrites, W!To
  <2>2. CASE account' = account /\ W!To(r, "rest")
    BY <1>4, <1>5, <2>2 DEF W!SetupWrites, W!At
  <2> QED
    BY <1>5, <2>1, <2>2 DEF W!SetupWrites, W!Free
<1>6. ASSUME NEW r \in Requests, W!SetupEnds(r) PROVE TokenInv'
  <2>1. account # "" /\ account' = account /\ guarded' = guarded /\ (token' <=> token /\ ~guarded)
    BY <1>6 DEF W!SetupEnds, W!At
  <2>2. \A q \in Requests : request'[q] = "clear" => request[q] = "clear"
    BY <1>6 DEF W!SetupEnds, W!To
  <2> QED
    BY <2>1, <2>2
<1>7. ASSUME NEW r \in Requests, W!SetupAsks(r) \/ W!LoginAsks(r) \/ W!LoginFails(r) \/ W!LoginEnds(r) PROVE TokenInv'
  BY <1>4, <1>7 DEF W!SetupAsks, W!LoginAsks, W!LoginFails, W!LoginEnds, W!At
<1> QED
  BY <1>1, <1>2, <1>3, <1>5, <1>6, <1>7 DEF W!wvars, W!WebNext, W!Rotate, W!Revoke, W!Time, W!Use, W!Logout

LEMMA FailuresLater == WebTypes' => W!Failures' \in Nat
BY DEF WebTypes, W!Failures

LEMMA LimitKept == ASSUME WebTypes, LimitInv, [W!WebNext]_(W!wvars) PROVE LimitInv'
<1> USE LoginsCounted, WAssumption
<1>0. W!Failures \in Nat /\ WebTypes' /\ W!Failures' \in Nat
  BY FailuresCounted, WebTypesKept, FailuresLater
<1>1. CASE UNCHANGED <<bucket, tick>> /\ LoggingIn(request') \subseteq LoggingIn(request)
  <2>1. W!Failures' = W!Failures
    BY <1>1 DEF W!Failures, W!InWindow
  <2>2. Cardinality(LoggingIn(request')) <= Cardinality(LoggingIn(request))
    BY <1>1, FS_Subset
  <2> QED
    BY <1>0, <2>1, <2>2 DEF LimitInv
<1>2. CASE W!Dies
  <2>1. W!Failures' = 0
    BY <1>2 DEF W!Dies, W!Failures, W!InWindow
  <2> QED
    BY <2>1 DEF LimitInv
<1>3. CASE W!Time
  <2>1. W!Failures' <= W!Failures
    <3>1. tick \in Nat /\ Life \in Nat /\ bucket.start \in Nat /\ bucket.failed \in Nat
      BY DEF WebTypes
    <3>2. tick' = tick + 1 /\ bucket' = bucket
      BY <1>3 DEF W!Time
    <3> QED
      BY <3>1, <3>2 DEF W!Failures, W!InWindow
  <2>2. request' = request
    BY <1>3 DEF W!Time
  <2> QED
    BY <1>0, <2>1, <2>2 DEF LimitInv
<1>4. ASSUME NEW r \in Requests, W!LoginAsks(r) PROVE LimitInv'
  <2>1. W!Failures' = W!Failures /\ W!Failures < MaxFailures
    <3>1. W!Failures' = W!Failures
      BY <1>4 DEF W!LoginAsks, W!Failures, W!InWindow
    <3>2. ~(W!Failures >= MaxFailures)
      BY <1>4 DEF W!LoginAsks, W!Blocked
    <3> QED
      BY <1>0, <3>1, <3>2
  <2> QED
    BY <1>0, <2>1 DEF LimitInv
<1>5. ASSUME NEW r \in Requests, W!At(r, "login"), W!To(r, "rest")
      PROVE  Cardinality(LoggingIn(request')) = Cardinality(LoggingIn(request)) - 1
  <2>1. LoggingIn(request') = LoggingIn(request) \ {r} /\ r \in LoggingIn(request)
    BY <1>5 DEF LoggingIn, W!At, W!To, WebTypes
  <2>2. IsFiniteSet(LoggingIn(request))
    BY LoginsCounted
  <2> QED
    BY ONLY <2>1, <2>2, FS_RemoveElement
<1>6. ASSUME NEW r \in Requests, W!LoginFails(r) PROVE LimitInv'
  <2>1. W!Failures' <= W!Failures + 1
    <3>1. bucket' = [start |-> IF W!InWindow THEN bucket.start ELSE tick, failed |-> W!Failures + 1]
      BY <1>6 DEF W!LoginFails
    <3>2. bucket'.failed = W!Failures + 1
      BY <3>1
    <3> QED
      BY <1>0, <3>2 DEF W!Failures
  <2>2. Cardinality(LoggingIn(request')) = Cardinality(LoggingIn(request)) - 1
    BY <1>5, <1>6 DEF W!LoginFails
  <2> QED
    BY <1>0, <2>1, <2>2 DEF LimitInv
<1>7. ASSUME NEW r \in Requests, W!LoginEnds(r) PROVE LimitInv'
  <2>1. W!Failures' = 0
    <3>1. bucket' = [start |-> 0, failed |-> 0]
      BY <1>7 DEF W!LoginEnds
    <3> QED
      BY <3>1 DEF W!Failures, W!InWindow
  <2> QED
    BY <2>1 DEF LimitInv
<1>8. ASSUME NEW r \in Requests, W!SetupAsks(r) \/ W!SetupWrites(r) \/ W!SetupEnds(r) PROVE LimitInv'
  <2>1. LoggingIn(request') \subseteq LoggingIn(request)
    BY <1>8 DEF W!SetupAsks, W!SetupWrites, W!SetupEnds, W!To, LoggingIn, WebTypes
  <2>2. UNCHANGED <<bucket, tick>>
    BY <1>8 DEF W!SetupAsks, W!SetupWrites, W!SetupEnds
  <2> QED
    BY <1>1, <2>1, <2>2
<1>9. CASE UNCHANGED <<bucket, tick, request>>
  BY <1>1, <1>9
<1> QED
  BY <1>2, <1>3, <1>4, <1>6, <1>7, <1>8, <1>9 DEF W!wvars, W!WebNext, W!Starts, W!Rotate, W!Revoke, W!Use, W!Logout

LEMMA WebKept == ASSUME WebInv, [W!WebNext]_(W!wvars) PROVE WebInv'
BY WebTypesKept, SessionsKept, TokenKept, LimitKept, PTL DEF WebInv

LEMMA AdministratorKept == ASSUME [W!WebNext]_(W!wvars), account # "" PROVE account' = account
BY DEF W!wvars, W!WebNext, W!Starts, W!Dies, W!Rotate, W!Revoke, W!Time, W!Use, W!Logout, W!SetupAsks, W!SetupWrites,
   W!SetupEnds, W!LoginAsks, W!LoginFails, W!LoginEnds, W!Free

----------------------------------------------------------------------------
(* The source store.                                                      *)
LEMMA SAssumption == Sources # {} /\ NoDigest \notin Digests /\ SBudget \in [SKinds -> Nat]
BY ControlAssumption DEF SKinds
SourcePcs == {"rest", "snapshot", "read", "write", "credential", "reread", "record", "fetch", "unlist", "clean", "decorate"}
Lists == [Sources -> S!Entry]
Work == [pc : SourcePcs, id : Sources, digest : Digests \cup {NoDigest}, copy : Lists, before : Lists, mine : S!Entry]
Loaders == {"import", "refresh"}

SourceTypes ==
  /\ list \in Lists /\ snaps \subseteq Sources \X Digests /\ creds \subseteq Sources
  /\ chosen \in Digests \cup {NoDigest} /\ lost \in BOOLEAN /\ broke \in BOOLEAN
  /\ work \in [S!Workers -> Work]
  /\ \A w \in Loaders : work[w].pc \in {"fetch", "snapshot", "read", "write", "credential"} => work[w].digest \in Digests
  /\ sleft \in [SKinds -> Nat] /\ sleft.deaths <= SBudget.deaths

NamesOf(e) == {e.digest} \cup e.versions

\* As long as no write was lost: a snapshot is there before the list that names it.
SnapshotsInv ==
  ~lost =>
    /\ \A w \in Loaders : work[w].pc \in {"read", "write", "credential"} => <<work[w].id, work[w].digest>> \in snaps
    /\ ~broke => \A s \in Sources : S!Listed(s) => \A d \in NamesOf(list[s]) : <<s, d>> \in snaps

Cleaning(s) == work["delete"].pc = "clean" /\ work["delete"].id = s

\* As long as nothing was lost and nobody died, for a source whose directory is not
\* being removed: its credential is there with its record, and an import that may
\* still fail knows how both were.
CredentialOf(s) ==
  LET i == work["import"]  r == work["refresh"] IN
    /\ r.id = s /\ r.pc \in {"fetch", "snapshot", "read", "write", "credential"} => S!Listed(s)
    /\ r.id = s /\ r.pc \in {"snapshot", "read", "write", "credential"} => r.before[s].digest # NoDigest
    /\ i.id = s /\ i.pc \in {"snapshot", "read", "write"} => (i.before[s].digest # NoDigest <=> S!Listed(s))
    /\ ~(i.id = s /\ i.pc = "credential") => (s \in creds <=> S!Listed(s))
    /\ i.id = s /\ i.pc = "credential" => S!Listed(s) /\ (s \in creds <=> i.before[s].digest # NoDigest)

CredentialsInv ==
  ~lost /\ sleft.deaths = SBudget.deaths =>
    /\ work["refresh"].pc \in {"fetch", "snapshot", "read", "write", "credential"} => work["refresh"].id \in creds
    /\ \A s \in Sources : ~Cleaning(s) => CredentialOf(s)

SourceInv == SourceTypes /\ SnapshotsInv /\ CredentialsInv

LEMMA EntryFacts ==
  /\ S!Unlisted \in S!Entry /\ S!Unlisted.digest = NoDigest /\ S!Unlisted.versions = {}
  /\ \A e \in S!Entry : e.digest \in Digests \cup {NoDigest} /\ e.versions \subseteq Digests /\ e.auto \in BOOLEAN
BY DEF S!Entry, S!Unlisted

LEMMA UpdatedFacts ==
  ASSUME NEW e \in S!Entry, NEW d \in Digests
  PROVE  /\ S!Updated(e, d) \in S!Entry /\ S!Updated(e, d).digest = d
         /\ NamesOf(S!Updated(e, d)) \subseteq {d} \cup (IF e.digest = NoDigest THEN {} ELSE NamesOf(e))
         /\ e.digest # NoDigest => NamesOf(e) \subseteq NamesOf(S!Updated(e, d))
<1> USE EntryFacts, SAssumption
<1>1. CASE e.digest = NoDigest
  <2>1. S!Updated(e, d) = [S!Unlisted EXCEPT !.digest = d]
    BY <1>1 DEF S!Updated
  <2>2. S!Updated(e, d) = [digest |-> d, versions |-> {}, auto |-> FALSE]
    BY <2>1 DEF S!Unlisted
  <2> QED
    BY <1>1, <2>2 DEF S!Entry, NamesOf
<1>2. CASE e.digest # NoDigest /\ e.digest = d
  BY <1>2 DEF S!Updated, NamesOf
<1>3. CASE e.digest # NoDigest /\ e.digest # d
  <2>1. S!Updated(e, d) = [e EXCEPT !.digest = d, !.versions = @ \cup {e.digest}]
    BY <1>3 DEF S!Updated
  <2>2. S!Updated(e, d) = [digest |-> d, versions |-> e.versions \cup {e.digest}, auto |-> e.auto]
    BY <2>1 DEF S!Entry
  <2> QED
    BY <1>3, <2>2 DEF S!Entry, NamesOf
<1> QED
  BY <1>1, <1>2, <1>3

LEMMA RestFacts == S!Rest \in Work /\ S!Rest.pc = "rest"
<1>1. (CHOOSE s \in Sources : TRUE) \in Sources
  BY SAssumption
<1>2. [s \in Sources |-> S!Unlisted] \in Lists
  BY EntryFacts DEF Lists
<1> QED
  BY <1>1, <1>2, EntryFacts DEF S!Rest, Work, SourcePcs

LEMMA WorkFacts ==
  ASSUME NEW t \in Work
  PROVE  /\ t.pc \in SourcePcs /\ t.id \in Sources /\ t.digest \in Digests \cup {NoDigest}
         /\ t.copy \in Lists /\ t.before \in Lists /\ t.mine \in S!Entry
BY DEF Work

\* A worker moves on, with the rest of what it carries.
LEMMA WorkSet ==
  ASSUME work \in [S!Workers -> Work], NEW w \in S!Workers, NEW r \in Work, S!Set(w, r)
  PROVE  work' \in [S!Workers -> Work] /\ work'[w] = r /\ \A v \in S!Workers : v # w => work'[v] = work[v]
BY DEF S!Set

LEMMA WorkGoes ==
  ASSUME work \in [S!Workers -> Work], NEW w \in S!Workers, NEW pc \in SourcePcs, S!Go(w, pc)
  PROVE  /\ work' \in [S!Workers -> Work] /\ \A v \in S!Workers : v # w => work'[v] = work[v]
         /\ work'[w].pc = pc /\ work'[w].id = work[w].id /\ work'[w].digest = work[w].digest
         /\ work'[w].before = work[w].before /\ work'[w].copy = work[w].copy /\ work'[w].mine = work[w].mine
<1> DEFINE r == [work[w] EXCEPT !.pc = pc]
<1>1. work[w] \in Work
  OBVIOUS
<1>2. r \in Work /\ r.pc = pc /\ r.id = work[w].id /\ r.digest = work[w].digest
      /\ r.before = work[w].before /\ r.copy = work[w].copy /\ r.mine = work[w].mine
  BY <1>1 DEF Work
<1>3. S!Set(w, r)
  BY DEF S!Go
<1> HIDE DEF r
<1> QED
  BY <1>2, <1>3, WorkSet

LEMMA WorkRests ==
  ASSUME work \in [S!Workers -> Work], NEW w \in S!Workers, S!Done(w)
  PROVE  /\ work' \in [S!Workers -> Work] /\ work'[w].pc = "rest"
         /\ \A v \in S!Workers : v # w => work'[v] = work[v]
BY RestFacts, WorkSet DEF S!Done

LEMMA Spent ==
  ASSUME sleft \in [SKinds -> Nat], NEW k \in SKinds, S!Spend(k)
  PROVE  /\ sleft' \in [SKinds -> Nat] /\ sleft'.deaths <= sleft.deaths
         /\ k = "deaths" => sleft'.deaths < sleft.deaths
         /\ k # "deaths" => sleft'.deaths = sleft.deaths
<1>1. sleft'[k] = sleft[k] - 1 /\ sleft' \in [SKinds -> Nat] /\ \A j \in SKinds : j # k => sleft'[j] = sleft[j]
  BY DEF S!Spend
<1>2. "deaths" \in SKinds /\ sleft[k] \in Nat
  BY DEF SKinds
<1> QED
  BY <1>1, <1>2

----------------------------------------------------------------------------
(* The steps, with what each does to the worker that takes it.             *)

\* A step that leaves files and credentials alone, and a worker at no point that
\* promises anything.
LEMMA CalmStep ==
  ASSUME SourceInv, NEW w \in S!Workers, UNCHANGED <<snaps, creds>>, lost => lost', broke' = broke,
         list' \in Lists,
         ~lost' => \A s \in Sources : list'[s].digest = list[s].digest /\ NamesOf(list'[s]) = NamesOf(list[s]),
         chosen' \in Digests \cup {NoDigest}, lost' \in BOOLEAN,
         sleft' \in [SKinds -> Nat], sleft'.deaths <= sleft.deaths,
         work' \in [S!Workers -> Work], \A v \in S!Workers : v # w => work'[v] = work[v],
         work[w].pc # "clean" \/ lost',
         work'[w].pc \in {"rest", "reread", "record", "unlist", "decorate"},
         ~(w = "import" /\ work[w].pc = "credential")
  PROVE  SourceInv'
<1>1. SourceTypes /\ SnapshotsInv /\ CredentialsInv
  BY DEF SourceInv
<1>2. SourceTypes'
  <2>1. ASSUME NEW v \in Loaders, work'[v].pc \in {"fetch", "snapshot", "read", "write", "credential"}
        PROVE  work'[v].digest \in Digests
    <3>1. v \in S!Workers /\ v # w
      BY <2>1 DEF Loaders, S!Workers
    <3> QED
      BY <1>1, <2>1, <3>1 DEF SourceTypes
  <2>2. sleft'.deaths <= SBudget.deaths
    <3>1. sleft.deaths \in Nat /\ sleft'.deaths \in Nat /\ SBudget.deaths \in Nat /\ sleft.deaths <= SBudget.deaths
      BY <1>1, SAssumption DEF SourceTypes, SKinds
    <3> QED
      BY <3>1
  <2> QED
    BY <1>1, <2>1, <2>2 DEF SourceTypes
<1>3. SnapshotsInv'
  BY <1>1 DEF SourceTypes, SnapshotsInv, S!Listed, Loaders, S!Workers
<1>4. CredentialsInv'
  <2>1. SUFFICES ASSUME ~lost', sleft'.deaths = SBudget.deaths PROVE CredentialsInv'
    BY DEF CredentialsInv
  <2>2. ~lost /\ sleft.deaths = SBudget.deaths
    <3>1. sleft.deaths \in Nat /\ sleft'.deaths \in Nat /\ SBudget.deaths \in Nat /\ sleft.deaths <= SBudget.deaths
      BY <1>1, SAssumption DEF SourceTypes, SKinds
    <3> QED
      BY <2>1, <3>1
  <2>3. \A s \in Sources : ~Cleaning(s)' => ~Cleaning(s)
    BY <2>1 DEF Cleaning, S!Workers
  <2>4. "import" \in S!Workers /\ "refresh" \in S!Workers
    BY DEF S!Workers
  <2>5. ASSUME NEW s \in Sources, CredentialOf(s) PROVE CredentialOf(s)'
    <3>1. w = "import" => work'["refresh"] = work["refresh"]
      BY <2>4
    <3>2. w = "refresh" => work'["import"] = work["import"]
      BY <2>4
    <3>3. w # "refresh" /\ w # "import" => work'["import"] = work["import"] /\ work'["refresh"] = work["refresh"]
      BY <2>4
    <3>4. (S!Listed(s))' <=> S!Listed(s)
      BY <2>1 DEF S!Listed
    <3>5. creds' = creds /\ work'[w].pc \in {"rest", "reread", "record", "unlist", "decorate"}
      OBVIOUS
    <3>6. CASE w = "import"
      BY ONLY <2>5, <3>1, <3>4, <3>5, <3>6, ~(w = "import" /\ work[w].pc = "credential") DEF CredentialOf
    <3>7. CASE w = "refresh"
      BY ONLY <2>5, <3>2, <3>4, <3>5, <3>7 DEF CredentialOf
    <3>8. CASE w # "refresh" /\ w # "import"
      BY ONLY <2>5, <3>3, <3>4, <3>5, <3>8 DEF CredentialOf
    <3> QED
      BY <3>6, <3>7, <3>8
  <2>6. work'["refresh"].pc \in {"fetch", "snapshot", "read", "write", "credential"}
          => work'["refresh"] = work["refresh"]
    BY <2>4
  <2> QED
    BY <1>1, <2>2, <2>3, <2>5, <2>6 DEF CredentialsInv
<1> QED
  BY <1>2, <1>3, <1>4 DEF SourceInv

LEMMA CalmKeeps ==
  ASSUME SourceInv, \/ S!FetchFails \/ S!BeginSettings \/ S!BeginDelete \/ S!Apply \/ S!Decorate
                    \/ \E w \in {"refresh", "settings"} : S!Reread(w) \/ S!WriteRecord(w)
  PROVE  SourceInv'
<1> USE DEF S!Workers
<1>1. SourceTypes
  BY DEF SourceInv
<1>2. /\ work \in [S!Workers -> Work] /\ sleft \in [SKinds -> Nat] /\ list \in Lists /\ lost \in BOOLEAN
      /\ chosen \in Digests \cup {NoDigest} /\ sleft.deaths \in Nat
  BY <1>1 DEF SourceTypes, SKinds
<1>3. S!Unlisted \in S!Entry /\ S!Rest \in Work
  BY RestFacts, EntryFacts
<1>4. CASE S!FetchFails
  <2>1. sleft' \in [SKinds -> Nat] /\ sleft'.deaths <= sleft.deaths
    BY <1>2, <1>4, Spent DEF S!FetchFails, SKinds
  <2>2. /\ work' \in [S!Workers -> Work] /\ \A v \in S!Workers : v # "refresh" => work'[v] = work[v]
        /\ work'["refresh"].pc = "reread"
    BY <1>2, <1>4, WorkGoes DEF S!FetchFails, SourcePcs
  <2> QED
    BY <1>2, <1>4, <2>1, <2>2, CalmStep DEF S!FetchFails, S!At
<1>5. ASSUME NEW s \in Sources, NEW on \in BOOLEAN,
             S!Set("settings", [S!Rest EXCEPT !.pc = "reread", !.id = s, !.mine = [list[s] EXCEPT !.auto = on]]),
             S!BeginSettings
      PROVE  SourceInv'
  <2>1. sleft' \in [SKinds -> Nat] /\ sleft'.deaths <= sleft.deaths
    BY <1>2, <1>5, Spent DEF S!BeginSettings, SKinds
  <2>2. [list[s] EXCEPT !.auto = on] \in S!Entry
    BY <1>2 DEF Lists, S!Entry
  <2>3. /\ [S!Rest EXCEPT !.pc = "reread", !.id = s, !.mine = [list[s] EXCEPT !.auto = on]] \in Work
        /\ [S!Rest EXCEPT !.pc = "reread", !.id = s, !.mine = [list[s] EXCEPT !.auto = on]].pc = "reread"
    BY <1>3, <2>2 DEF Work, SourcePcs
  <2>4. work' \in [S!Workers -> Work] /\ work'["settings"].pc = "reread"
        /\ \A v \in S!Workers : v # "settings" => work'[v] = work[v]
    BY <1>2, <1>5, <2>3, WorkSet
  <2> QED
    BY <1>2, <1>5, <2>1, <2>4, CalmStep DEF S!BeginSettings, S!At
<1>6. ASSUME NEW s \in Sources, S!Set("delete", [S!Rest EXCEPT !.pc = "unlist", !.id = s, !.copy = list]), S!BeginDelete
      PROVE  SourceInv'
  <2>1. sleft' \in [SKinds -> Nat] /\ sleft'.deaths <= sleft.deaths
    BY <1>2, <1>6, Spent DEF S!BeginDelete, SKinds
  <2>3. /\ [S!Rest EXCEPT !.pc = "unlist", !.id = s, !.copy = list] \in Work
        /\ [S!Rest EXCEPT !.pc = "unlist", !.id = s, !.copy = list].pc = "unlist"
    BY <1>2, <1>3 DEF Work, SourcePcs
  <2>4. work' \in [S!Workers -> Work] /\ work'["delete"].pc = "unlist"
        /\ \A v \in S!Workers : v # "delete" => work'[v] = work[v]
    BY <1>2, <1>6, <2>3, WorkSet
  <2> QED
    BY <1>2, <1>6, <2>1, <2>4, CalmStep DEF S!BeginDelete, S!At
<1>7. ASSUME NEW s \in Sources, S!Set("apply", [S!Rest EXCEPT !.pc = "decorate", !.copy = list]),
             chosen' = list[s].digest, S!Apply
      PROVE  SourceInv'
  <2>1. sleft' \in [SKinds -> Nat] /\ sleft'.deaths <= sleft.deaths
    BY <1>2, <1>7, Spent DEF S!Apply, SKinds
  <2>2. chosen' \in Digests \cup {NoDigest}
    BY <1>2, <1>7 DEF Lists, S!Entry
  <2>3. /\ [S!Rest EXCEPT !.pc = "decorate", !.copy = list] \in Work
        /\ [S!Rest EXCEPT !.pc = "decorate", !.copy = list].pc = "decorate"
    BY <1>2, <1>3 DEF Work, SourcePcs
  <2>4. work' \in [S!Workers -> Work] /\ work'["apply"].pc = "decorate"
        /\ \A v \in S!Workers : v # "apply" => work'[v] = work[v]
    BY <1>2, <1>7, <2>3, WorkSet
  <2>5. lost' \in BOOLEAN /\ (lost => lost')
    BY <1>2, <1>7 DEF S!Apply
  <2> QED
    BY <1>2, <1>7, <2>1, <2>2, <2>4, <2>5, CalmStep DEF S!Apply, S!At
<1>8. CASE S!Decorate
  <2>1. work["apply"].copy \in Lists
    BY <1>2, WorkFacts
  <2>2. work' \in [S!Workers -> Work] /\ work'["apply"].pc = "rest"
        /\ \A v \in S!Workers : v # "apply" => work'[v] = work[v]
    BY <1>2, <1>8, WorkRests DEF S!Decorate
  <2>3. list' \in Lists /\ lost' \in BOOLEAN /\ (lost => lost') /\ (~lost' => list' = list)
    BY <1>2, <1>8, <2>1 DEF S!Decorate, S!SaveList
  <2>4. work["apply"].pc # "clean"
    BY <1>8 DEF S!Decorate, S!At
  <2> QED
    BY <1>2, <1>8, <2>2, <2>3, <2>4, CalmStep DEF S!Decorate
<1>9. ASSUME NEW w \in {"refresh", "settings"}, S!Reread(w) PROVE SourceInv'
  <2>1. work[w].pc # "clean" /\ w \in S!Workers
    BY <1>9 DEF S!Reread, S!At
  <2>2. [work[w] EXCEPT !.pc = "record", !.copy = list] \in Work
        /\ [work[w] EXCEPT !.pc = "record", !.copy = list].pc = "record"
    <3>1. work[w] \in Work
      BY <1>2, <2>1
    <3> QED
      BY <1>2, <3>1 DEF Work, SourcePcs
  <2>3. work' \in [S!Workers -> Work] /\ work'[w].pc \in {"record", "rest"}
        /\ \A v \in S!Workers : v # w => work'[v] = work[v]
    BY <1>2, <1>9, <2>1, <2>2, WorkSet, WorkRests DEF S!Reread
  <2> QED
    BY <1>2, <1>9, <2>1, <2>3, CalmStep DEF S!Reread
<1>10. ASSUME NEW w \in {"refresh", "settings"}, S!WriteRecord(w) PROVE SourceInv'
  <2>1. work[w].pc # "clean" /\ w \in S!Workers
    BY <1>10 DEF S!WriteRecord, S!At
  <2>2. work' \in [S!Workers -> Work] /\ work'[w].pc = "rest"
        /\ \A v \in S!Workers : v # w => work'[v] = work[v]
    BY <1>2, <1>10, <2>1, WorkRests DEF S!WriteRecord
  <2> DEFINE t == work[w]
  <2>3. t.id \in Sources /\ t.copy \in Lists /\ t.mine \in S!Entry
    BY <1>2, <2>1, WorkFacts
  <2>4. list' = [t.copy EXCEPT ![t.id] = t.mine]
        /\ lost' = (lost \/ list # t.copy \/ [t.mine EXCEPT !.auto = FALSE] # [list[t.id] EXCEPT !.auto = FALSE])
    BY <1>10 DEF S!WriteRecord
  <2> HIDE DEF t
  <2>5. list' \in Lists
    BY <2>3, <2>4 DEF Lists
  <2>6. ASSUME ~lost', NEW s \in Sources PROVE list'[s].digest = list[s].digest /\ NamesOf(list'[s]) = NamesOf(list[s])
    <3>1. list = t.copy /\ [t.mine EXCEPT !.auto = FALSE] = [list[t.id] EXCEPT !.auto = FALSE]
      BY <2>4, <2>6
    <3>2. list[t.id] \in S!Entry
      BY <1>2, <2>3 DEF Lists
    <3>3. [t.mine EXCEPT !.auto = FALSE].digest = t.mine.digest /\ [t.mine EXCEPT !.auto = FALSE].versions = t.mine.versions
      BY <2>3 DEF S!Entry
    <3>4. [list[t.id] EXCEPT !.auto = FALSE].digest = list[t.id].digest /\ [list[t.id] EXCEPT !.auto = FALSE].versions = list[t.id].versions
      BY <3>2 DEF S!Entry
    <3>5. t.mine.digest = list[t.id].digest /\ t.mine.versions = list[t.id].versions
      BY <3>1, <3>3, <3>4
    <3>6. list'[s] = IF s = t.id THEN t.mine ELSE list[s]
      BY <2>3, <2>4, <3>1 DEF Lists
    <3> QED
      BY <3>5, <3>6 DEF NamesOf
  <2>7. lost' \in BOOLEAN /\ (lost => lost')
    BY <1>2, <2>4
  <2>8. UNCHANGED <<snaps, creds, chosen, broke, sleft>>
    BY <1>10 DEF S!WriteRecord
  <2> QED
    BY <1>2, <2>1, <2>2, <2>5, <2>6, <2>7, <2>8, CalmStep
<1> QED
  BY <1>4, <1>5, <1>6, <1>7, <1>8, <1>9, <1>10 DEF S!BeginSettings, S!BeginDelete, S!Apply

----------------------------------------------------------------------------
(* Imports and refreshes.                                                  *)
LEMMA TypesBy ==
  ASSUME SourceTypes, NEW w \in S!Workers, work' \in [S!Workers -> Work],
         \A v \in S!Workers : v # w => work'[v] = work[v],
         w \in Loaders => work'[w].pc = "rest" \/ work'[w].digest \in Digests,
         list' \in Lists, snaps' \subseteq Sources \X Digests, creds' \subseteq Sources,
         chosen' = chosen, lost' \in BOOLEAN, broke' \in BOOLEAN,
         sleft' \in [SKinds -> Nat], sleft'.deaths <= sleft.deaths
  PROVE  SourceTypes'
<1>1. ASSUME NEW v \in Loaders, work'[v].pc \in {"fetch", "snapshot", "read", "write", "credential"}
      PROVE  work'[v].digest \in Digests
  <2>1. v \in S!Workers
    BY DEF Loaders, S!Workers
  <2> QED
    BY <1>1, <2>1 DEF SourceTypes
<1>2. sleft'.deaths <= SBudget.deaths
  <2>1. sleft.deaths \in Nat /\ sleft'.deaths \in Nat /\ SBudget.deaths \in Nat /\ sleft.deaths <= SBudget.deaths
    BY SAssumption DEF SourceTypes, SKinds
  <2> QED
    BY <2>1
<1> QED
  BY <1>1, <1>2 DEF SourceTypes

LEMMA NobodyDied ==
  ASSUME SourceTypes, sleft' \in [SKinds -> Nat], sleft'.deaths <= sleft.deaths, sleft'.deaths = SBudget.deaths
  PROVE  sleft.deaths = SBudget.deaths
BY SAssumption DEF SourceTypes, SKinds

\* A loader with a digest in hand goes on, and writes no list.
LEMMA LoaderMoves ==
  ASSUME SourceInv, NEW w \in Loaders, UNCHANGED <<list, creds, chosen, lost, broke>>,
         snaps' = snaps \/ (work[w].pc = "snapshot" /\ snaps' = snaps \cup {<<work[w].id, work[w].digest>>}),
         sleft' \in [SKinds -> Nat], sleft'.deaths <= sleft.deaths,
         work' \in [S!Workers -> Work], \A v \in S!Workers : v # w => work'[v] = work[v],
         work'[w].digest \in Digests,
         \/ /\ work'[w].pc = "snapshot" /\ work'[w].before = list
            /\ \/ w = "import" /\ work[w].pc = "rest"
               \/ w = "refresh" /\ work[w].pc = "fetch" /\ work'[w].id = work[w].id
         \/ /\ w = "refresh" /\ work[w].pc = "rest" /\ work'[w].pc = "fetch"
            /\ work'[w].id \in creds /\ S!Listed(work'[w].id)
         \/ /\ work[w].pc \in {"snapshot", "read", "write"} /\ work'[w].pc \in {"read", "write"}
            /\ work'[w].id = work[w].id /\ work'[w].digest = work[w].digest /\ work'[w].before = work[w].before
            /\ lost \/ <<work[w].id, work[w].digest>> \in snaps'
  PROVE  SourceInv'
<1> USE DEF Loaders, S!Workers
<1>1. SourceTypes /\ SnapshotsInv /\ CredentialsInv
  BY DEF SourceInv
<1>2. SourceTypes'
  <2>1. snaps' \subseteq Sources \X Digests
    <3>1. work[w].pc \in {"snapshot", "read", "write"} => work[w].digest \in Digests
      BY <1>1 DEF SourceTypes
    <3>2. work[w].id \in Sources /\ snaps \subseteq Sources \X Digests
      BY <1>1, WorkFacts DEF SourceTypes
    <3>3. CASE snaps' = snaps
      BY <3>2, <3>3
    <3>4. CASE work[w].digest \in Digests
      BY <3>2, <3>4
    <3> QED
      BY <3>1, <3>3, <3>4
  <2> QED
    BY <1>1, <2>1, TypesBy DEF SourceTypes
<1>3. SnapshotsInv'
  <2>1. snaps \subseteq snaps'
    OBVIOUS
  <2>2. ASSUME ~lost, NEW v \in Loaders, work'[v].pc \in {"read", "write", "credential"}
        PROVE  <<work'[v].id, work'[v].digest>> \in snaps'
    BY <1>1, <2>1, <2>2 DEF SnapshotsInv
  <2> QED
    BY <1>1, <2>1, <2>2 DEF SnapshotsInv, S!Listed
<1>4. CredentialsInv'
  <2>1. SUFFICES ASSUME ~lost', sleft'.deaths = SBudget.deaths PROVE CredentialsInv'
    BY DEF CredentialsInv
  <2>2. ~lost /\ sleft.deaths = SBudget.deaths
    BY <1>1, <2>1, NobodyDied
  <2>3. work'["delete"] = work["delete"]
    OBVIOUS
  <2>4. ASSUME NEW s \in Sources, CredentialOf(s) PROVE CredentialOf(s)'
    <3>1. (S!Listed(s))' <=> S!Listed(s)
      BY DEF S!Listed
    <3>2. CASE w = "import"
      <4>1. work'["refresh"] = work["refresh"]
        BY <3>2
      <4> QED
        BY <2>4, <3>1, <3>2, <4>1 DEF CredentialOf, S!Listed
    <3>3. CASE w = "refresh"
      <4>1. work'["import"] = work["import"]
        BY <3>3
      <4> QED
        BY <2>4, <3>1, <3>3, <4>1 DEF CredentialOf, S!Listed
    <3> QED
      BY <3>2, <3>3
  <2>5. work'["refresh"].pc \in {"fetch", "snapshot", "read", "write", "credential"} => work'["refresh"].id \in creds
    BY <1>1, <2>2 DEF CredentialsInv
  <2> QED
    BY <1>1, <2>2, <2>3, <2>4, <2>5 DEF CredentialsInv, Cleaning
<1> QED
  BY <1>2, <1>3, <1>4 DEF SourceInv

LEMMA MovesKeep ==
  ASSUME SourceInv, \/ S!BeginImport \/ S!BeginRefresh \/ S!Fetched
                    \/ \E w \in {"import", "refresh"} : S!WriteSnapshot(w) \/ S!ReadList(w)
  PROVE  SourceInv'
<1>1. SourceTypes
  BY DEF SourceInv
<1>2. /\ work \in [S!Workers -> Work] /\ sleft \in [SKinds -> Nat] /\ list \in Lists /\ sleft.deaths \in Nat
      /\ \A w \in Loaders : work[w].pc \in {"fetch", "snapshot", "read", "write", "credential"} => work[w].digest \in Digests
  BY <1>1 DEF SourceTypes, SKinds
<1>a. "import" \in S!Workers /\ "refresh" \in S!Workers /\ Loaders = {"import", "refresh"} /\ Loaders \subseteq S!Workers
  BY DEF S!Workers, Loaders
<1>b. sleft' = sleft => sleft' \in [SKinds -> Nat] /\ sleft'.deaths <= sleft.deaths
  BY <1>2
<1>3. ASSUME NEW s \in Sources, NEW d \in Digests, S!BeginImport,
             S!Set("import", [S!Rest EXCEPT !.pc = "snapshot", !.id = s, !.digest = d, !.before = list])
      PROVE  SourceInv'
  <2>1. sleft' \in [SKinds -> Nat] /\ sleft'.deaths <= sleft.deaths
    BY <1>2, <1>3, Spent DEF S!BeginImport, SKinds
  <2> DEFINE r == [S!Rest EXCEPT !.pc = "snapshot", !.id = s, !.digest = d, !.before = list]
  <2>2. r \in Work /\ r.pc = "snapshot" /\ r.digest = d /\ r.before = list
    BY <1>2, RestFacts DEF Work, SourcePcs
  <2>3. work' \in [S!Workers -> Work] /\ work'["import"] = r /\ \A v \in S!Workers : v # "import" => work'[v] = work[v]
    BY <1>2, <1>3, <1>a, <2>2, WorkSet
  <2> HIDE DEF r
  <2>4. UNCHANGED <<list, snaps, creds, chosen, lost, broke>> /\ work["import"].pc = "rest"
    BY <1>3 DEF S!BeginImport, S!At
  <2>5. /\ work'["import"].digest \in Digests /\ work'["import"].pc = "snapshot" /\ work'["import"].before = list
        /\ "import" \in Loaders /\ snaps' = snaps
    BY <1>a, <2>2, <2>3, <2>4
  <2>9. ASSUME NEW w \in Loaders, w = "import" PROVE SourceInv'
    BY <2>1, <2>3, <2>4, <2>5, <2>9, LoaderMoves
  <2> QED
    BY <2>9, <1>a
<1>4. ASSUME NEW s \in Sources, NEW d \in Digests, S!BeginRefresh, S!Listed(s),
             S!Set("refresh", [S!Rest EXCEPT !.pc = IF s \in creds THEN "fetch" ELSE "reread",
                                         !.id = s, !.digest = d, !.mine = list[s]])
      PROVE  SourceInv'
  <2>1. sleft' \in [SKinds -> Nat] /\ sleft'.deaths <= sleft.deaths
    BY <1>2, <1>4, Spent DEF S!BeginRefresh, SKinds
  <2> DEFINE r == [S!Rest EXCEPT !.pc = IF s \in creds THEN "fetch" ELSE "reread",
                               !.id = s, !.digest = d, !.mine = list[s]]
  <2>2. r \in Work /\ r.pc = (IF s \in creds THEN "fetch" ELSE "reread") /\ r.digest = d /\ r.id = s
    <3>1. list[s] \in S!Entry
      BY <1>2 DEF Lists
    <3> QED
      BY <3>1, RestFacts DEF Work, SourcePcs
  <2>3. work' \in [S!Workers -> Work] /\ work'["refresh"] = r /\ \A v \in S!Workers : v # "refresh" => work'[v] = work[v]
    BY <1>2, <1>4, <1>a, <2>2, WorkSet
  <2> HIDE DEF r
  <2>4. /\ UNCHANGED <<list, snaps, creds, chosen, lost, broke>> /\ work["refresh"].pc = "rest"
    BY <1>4 DEF S!BeginRefresh, S!At
  <2>5. CASE s \in creds
    <3>1. /\ work'["refresh"].digest \in Digests /\ work'["refresh"].pc = "fetch" /\ work'["refresh"].id \in creds
          /\ S!Listed(work'["refresh"].id) /\ "refresh" \in Loaders /\ snaps' = snaps
      BY <1>4, <1>a, <2>2, <2>3, <2>4, <2>5
    <3>9. ASSUME NEW w \in Loaders, w = "refresh" PROVE SourceInv'
      BY <2>1, <2>3, <2>4, <3>1, <3>9, LoaderMoves
    <3> QED
      BY <3>9, <1>a
  <2>6. CASE s \notin creds
    <3>1. chosen' \in Digests \cup {NoDigest} /\ lost' \in BOOLEAN /\ list' \in Lists
      BY <1>1, <2>4 DEF SourceTypes
    <3> QED
      BY <1>a, <2>1, <2>2, <2>3, <2>4, <2>6, <3>1, CalmStep
  <2> QED
    BY <2>5, <2>6
<1>5. CASE S!Fetched
  <2> DEFINE r == [work["refresh"] EXCEPT !.pc = "snapshot", !.before = list]
  <2>1. work["refresh"] \in Work /\ work["refresh"].digest \in Digests /\ work["refresh"].pc = "fetch"
    BY <1>2, <1>5, <1>a DEF S!Fetched, S!At
  <2>2. r \in Work /\ r.pc = "snapshot" /\ r.digest = work["refresh"].digest /\ r.before = list
        /\ r.id = work["refresh"].id
    BY <1>2, <2>1 DEF Work, SourcePcs
  <2>3. work' \in [S!Workers -> Work] /\ work'["refresh"] = r /\ \A v \in S!Workers : v # "refresh" => work'[v] = work[v]
    BY <1>2, <1>5, <1>a, <2>2, WorkSet DEF S!Fetched
  <2> HIDE DEF r
  <2>4. UNCHANGED <<list, snaps, creds, chosen, lost, broke, sleft>>
    BY <1>5 DEF S!Fetched
  <2>5. /\ work'["refresh"].digest \in Digests /\ work'["refresh"].pc = "snapshot" /\ work'["refresh"].before = list
        /\ work'["refresh"].id = work["refresh"].id /\ "refresh" \in Loaders /\ snaps' = snaps
    BY <1>a, <2>1, <2>2, <2>3, <2>4
  <2>9. ASSUME NEW w \in Loaders, w = "refresh" PROVE SourceInv'
    BY <1>b, <2>1, <2>3, <2>4, <2>5, <2>9, LoaderMoves
  <2> QED
    BY <2>9, <1>a
<1>6. ASSUME NEW w \in Loaders, S!WriteSnapshot(w) PROVE SourceInv'
  <2>1. work[w] \in Work /\ work[w].digest \in Digests /\ work[w].pc = "snapshot"
    BY <1>2, <1>6, <1>a DEF S!WriteSnapshot, S!At
  <2>2. /\ work' \in [S!Workers -> Work] /\ \A v \in S!Workers : v # w => work'[v] = work[v]
        /\ work'[w].pc = "read" /\ work'[w].id = work[w].id /\ work'[w].digest = work[w].digest
        /\ work'[w].before = work[w].before
    BY <1>2, <1>6, <1>a, WorkGoes DEF S!WriteSnapshot, SourcePcs
  <2> QED
    BY <1>6, <1>a, <1>b, <2>1, <2>2, LoaderMoves DEF S!WriteSnapshot
<1>7. ASSUME NEW w \in Loaders, S!ReadList(w) PROVE SourceInv'
  <2> DEFINE r == [work[w] EXCEPT !.pc = "write", !.copy = list]
  <2>1. work[w] \in Work /\ work[w].digest \in Digests /\ work[w].pc = "read"
    BY <1>2, <1>7, <1>a DEF S!ReadList, S!At
  <2>2. r \in Work /\ r.pc = "write" /\ r.digest = work[w].digest /\ r.before = work[w].before
        /\ r.id = work[w].id
    BY <1>2, <2>1 DEF Work, SourcePcs
  <2>3. work' \in [S!Workers -> Work] /\ work'[w] = r /\ \A v \in S!Workers : v # w => work'[v] = work[v]
    BY <1>2, <1>7, <1>a, <2>2, WorkSet DEF S!ReadList
  <2> HIDE DEF r
  <2>4. UNCHANGED <<list, snaps, creds, chosen, lost, broke, sleft>>
    BY <1>7 DEF S!ReadList
  <2>5. lost \/ <<work[w].id, work[w].digest>> \in snaps
    BY <1>7, <2>1 DEF SourceInv, SnapshotsInv
  <2> QED
    BY <1>a, <1>b, <2>1, <2>2, <2>3, <2>4, <2>5, LoaderMoves
<1> QED
  BY <1>3, <1>4, <1>5, <1>6, <1>7, <1>a DEF S!BeginImport, S!BeginRefresh

LEMMA WriteListKeeps == ASSUME SourceInv, NEW w \in Loaders, S!WriteList(w) PROVE SourceInv'
<1>1. SourceTypes /\ SnapshotsInv /\ CredentialsInv
  BY DEF SourceInv
<1>2. "import" \in S!Workers /\ "refresh" \in S!Workers /\ "delete" \in S!Workers /\ w \in S!Workers /\ w # "delete"
      /\ w \in {"import", "refresh"}
  BY DEF S!Workers, Loaders
<1> DEFINE t == work[w]
           e == S!Updated(t.copy[t.id], t.digest)
<1>3. t \in Work /\ t.pc = "write" /\ t.id \in Sources /\ t.digest \in Digests /\ t.copy \in Lists
  <2>1. work[w].pc = "write"
    BY DEF S!WriteList, S!At
  <2> QED
    BY <1>1, <1>2, <2>1, WorkFacts DEF SourceTypes
<1>4. list' = [t.copy EXCEPT ![t.id] = e] /\ lost' = (lost \/ list # t.copy)
      /\ UNCHANGED <<snaps, creds, chosen, broke, sleft>>
  BY DEF S!WriteList, S!SaveList
<1>5. /\ work' \in [S!Workers -> Work] /\ \A v \in S!Workers : v # w => work'[v] = work[v]
      /\ work'[w].pc = "credential" /\ work'[w].id = t.id /\ work'[w].digest = t.digest
      /\ work'[w].before = t.before
  BY <1>1, <1>2, WorkGoes DEF S!WriteList, SourcePcs, SourceTypes
<1>6. e \in S!Entry /\ e.digest = t.digest /\ t.copy[t.id] \in S!Entry
      /\ NamesOf(e) \subseteq {t.digest} \cup (IF t.copy[t.id].digest = NoDigest THEN {} ELSE NamesOf(t.copy[t.id]))
  <2>1. t.copy[t.id] \in S!Entry
    BY <1>3 DEF Lists
  <2> QED
    BY <1>3, <2>1, UpdatedFacts
<1>7. t.digest # NoDigest
  BY <1>3, SAssumption
<1>8. ~lost' => ~lost /\ list = t.copy /\ list'[t.id] = e /\ \A s \in Sources : s # t.id => list'[s] = list[s]
  BY <1>3, <1>4 DEF Lists
<1> HIDE DEF t, e
<1>9. SourceTypes'
  <2>1. list' \in Lists
    BY <1>3, <1>4, <1>6 DEF Lists
  <2>2. snaps' \subseteq Sources \X Digests /\ creds' \subseteq Sources /\ broke' \in BOOLEAN /\ lost' \in BOOLEAN
        /\ sleft' \in [SKinds -> Nat] /\ sleft'.deaths <= sleft.deaths /\ chosen' = chosen
    BY <1>1, <1>4 DEF SourceTypes, SKinds
  <2>3. work'[w].digest \in Digests
    BY <1>3, <1>5
  <2> QED
    BY <1>1, <1>2, <1>5, <2>1, <2>2, <2>3, TypesBy
<1>10. SnapshotsInv'
  <2>1. SUFFICES ASSUME ~lost' PROVE SnapshotsInv'
    BY DEF SnapshotsInv
  <2>2. <<t.id, t.digest>> \in snaps
    BY <1>1, <1>3, <1>8, <2>1 DEF SnapshotsInv, t
  <2>3. ASSUME NEW v \in Loaders, work'[v].pc \in {"read", "write", "credential"}
        PROVE  <<work'[v].id, work'[v].digest>> \in snaps'
    <3>1. v \in S!Workers
      BY DEF Loaders, S!Workers
    <3>2. CASE v = w
      BY <1>4, <1>5, <2>2, <3>2
    <3>3. CASE v # w
      BY <1>1, <1>4, <1>5, <1>8, <2>1, <2>3, <3>1, <3>3 DEF SnapshotsInv
    <3> QED
      BY <3>2, <3>3
  <2>4. ASSUME ~broke', NEW s \in Sources, (S!Listed(s))', NEW d \in NamesOf(list'[s]) PROVE <<s, d>> \in snaps'
    <3>1. CASE s # t.id
      <4>1. list'[s] = list[s] /\ S!Listed(s) /\ ~broke
        BY <1>4, <1>8, <2>1, <2>4, <3>1 DEF S!Listed
      <4> QED
        BY <1>1, <1>4, <1>8, <2>1, <2>4, <4>1 DEF SnapshotsInv
    <3>2. CASE s = t.id
      <4>1. d = t.digest \/ (S!Listed(s) /\ d \in NamesOf(list[s]))
        BY <1>6, <1>8, <2>1, <2>4, <3>2 DEF S!Listed
      <4> QED
        BY <1>1, <1>4, <1>8, <2>1, <2>2, <2>4, <3>2, <4>1 DEF SnapshotsInv
    <3> QED
      BY <3>1, <3>2
  <2> QED
    BY <2>3, <2>4 DEF SnapshotsInv
<1>11. CredentialsInv'
  <2>1. SUFFICES ASSUME ~lost', sleft'.deaths = SBudget.deaths PROVE CredentialsInv'
    BY DEF CredentialsInv
  <2>2. ~lost /\ sleft.deaths = SBudget.deaths /\ creds' = creds /\ work'["delete"] = work["delete"]
    BY <1>2, <1>4, <1>5, <1>8, <2>1
  <2>3. ASSUME NEW s \in Sources, CredentialOf(s) PROVE CredentialOf(s)'
    <3>1. (S!Listed(s))' <=> S!Listed(s) \/ s = t.id
      BY <1>6, <1>7, <1>8, <2>1 DEF S!Listed
    <3>2. CASE w = "import"
      <4>1. work'["refresh"] = work["refresh"]
        BY <1>2, <1>5, <3>2
      <4>2. /\ work'["import"].pc = "credential" /\ work'["import"].id = work["import"].id
            /\ work'["import"].before = work["import"].before /\ work["import"].pc = "write" /\ t = work["import"]
        BY <1>3, <1>5, <3>2 DEF t
      <4> QED
        BY <2>2, <2>3, <3>1, <4>1, <4>2 DEF CredentialOf
    <3>3. CASE w = "refresh"
      <4>1. work'["import"] = work["import"]
        BY <1>2, <1>5, <3>3
      <4>2. /\ work'["refresh"].pc = "credential" /\ work'["refresh"].id = work["refresh"].id
            /\ work'["refresh"].before = work["refresh"].before /\ work["refresh"].pc = "write" /\ t = work["refresh"]
        BY <1>3, <1>5, <3>3 DEF t
      <4> QED
        BY <2>2, <2>3, <3>1, <4>1, <4>2 DEF CredentialOf
    <3> QED
      BY <1>2, <3>2, <3>3
  <2>4. work'["refresh"].pc \in {"fetch", "snapshot", "read", "write", "credential"}
          => work["refresh"].pc \in {"fetch", "snapshot", "read", "write", "credential"}
             /\ work'["refresh"].id = work["refresh"].id
    BY <1>2, <1>3, <1>5 DEF t
  <2> QED
    BY <1>1, <2>2, <2>3, <2>4 DEF CredentialsInv, Cleaning
<1> QED
  BY <1>9, <1>10, <1>11 DEF SourceInv

LEMMA PutCredentialKeeps == ASSUME SourceInv, NEW w \in Loaders, S!PutCredential(w) PROVE SourceInv'
<1>1. SourceTypes /\ SnapshotsInv /\ CredentialsInv
  BY DEF SourceInv
<1>2. "import" \in S!Workers /\ "refresh" \in S!Workers /\ "delete" \in S!Workers /\ w \in S!Workers /\ w # "delete"
      /\ w \in {"import", "refresh"}
  BY DEF S!Workers, Loaders
<1> DEFINE t == work[w]
           e == S!Updated(t.copy[t.id], t.digest)
<1>3. t \in Work /\ t.pc = "credential" /\ t.id \in Sources /\ t.digest \in Digests /\ t.copy \in Lists
  <2>1. work[w].pc = "credential"
    BY DEF S!PutCredential, S!At
  <2> QED
    BY <1>1, <1>2, <2>1, WorkFacts DEF SourceTypes
<1>4. creds' = creds \cup {t.id} /\ UNCHANGED <<list, snaps, chosen, lost, broke, sleft>>
  BY DEF S!PutCredential
<1>5. work \in [S!Workers -> Work]
  BY <1>1 DEF SourceTypes
<1>6. e \in S!Entry
  BY <1>3, UpdatedFacts DEF Lists
<1>7. IF w = "refresh" THEN S!Set(w, [t EXCEPT !.pc = "reread", !.mine = e]) ELSE S!Done(w)
  BY DEF S!PutCredential
<1> HIDE DEF t, e
<1>8. /\ work' \in [S!Workers -> Work] /\ \A v \in S!Workers : v # w => work'[v] = work[v]
      /\ work'[w].pc \in {"reread", "rest"} /\ (work'[w].pc = "rest" \/ work'[w].digest \in Digests)
  <2>1. CASE w = "refresh"
    <3> DEFINE r == [t EXCEPT !.pc = "reread", !.mine = e]
    <3>1. r \in Work /\ r.pc = "reread" /\ r.digest = t.digest
      BY <1>3, <1>6 DEF Work, SourcePcs
    <3>2. S!Set(w, r)
      BY <1>7, <2>1
    <3> HIDE DEF r
    <3> QED
      BY <1>2, <1>3, <1>5, <3>1, <3>2, WorkSet
  <2>2. CASE w # "refresh"
    BY <1>2, <1>5, <1>7, <2>2, WorkRests
  <2> QED
    BY <2>1, <2>2
<1>9. SourceTypes'
  <2>1. list' \in Lists /\ snaps' \subseteq Sources \X Digests /\ creds' \subseteq Sources /\ broke' \in BOOLEAN
        /\ lost' \in BOOLEAN /\ sleft' \in [SKinds -> Nat] /\ sleft'.deaths <= sleft.deaths /\ chosen' = chosen
    BY <1>1, <1>3, <1>4 DEF SourceTypes, SKinds
  <2> QED
    BY <1>1, <1>2, <1>8, <2>1, TypesBy
<1>10. SnapshotsInv'
  <2>1. \A v \in Loaders : work'[v].pc \in {"read", "write", "credential"} => work'[v] = work[v]
    BY <1>8 DEF Loaders, S!Workers
  <2> QED
    BY <1>1, <1>4, <2>1 DEF SnapshotsInv, S!Listed
<1>11. CredentialsInv'
  <2>1. SUFFICES ASSUME ~lost', sleft'.deaths = SBudget.deaths PROVE CredentialsInv'
    BY DEF CredentialsInv
  <2>2. ~lost /\ sleft.deaths = SBudget.deaths /\ work'["delete"] = work["delete"]
    BY <1>2, <1>4, <1>8, <2>1
  <2>3. ASSUME NEW s \in Sources, CredentialOf(s) PROVE CredentialOf(s)'
    <3>1. (S!Listed(s))' <=> S!Listed(s)
      BY <1>4 DEF S!Listed
    <3>2. CASE w = "import"
      <4>1. work'["refresh"] = work["refresh"]
        BY <1>2, <1>8, <3>2
      <4>2. /\ work'["import"].pc \in {"reread", "rest"} /\ work["import"].pc = "credential" /\ t = work["import"]
            /\ creds' = creds \cup {work["import"].id}
        BY <1>3, <1>4, <1>8, <3>2 DEF t
      <4> QED
        BY <2>2, <2>3, <3>1, <4>1, <4>2 DEF CredentialOf
    <3>3. CASE w = "refresh"
      <4>1. work'["import"] = work["import"]
        BY <1>2, <1>8, <3>3
      <4>2. /\ work'["refresh"].pc \in {"reread", "rest"} /\ work["refresh"].pc = "credential" /\ t = work["refresh"]
        BY <1>3, <1>8, <3>3 DEF t
      <4>3. creds' = creds
        BY <1>1, <1>4, <2>2, <4>2 DEF CredentialsInv
      <4> QED
        BY <2>2, <2>3, <3>1, <4>1, <4>2, <4>3 DEF CredentialOf
    <3> QED
      BY <1>2, <3>2, <3>3
  <2>4. work'["refresh"].pc \in {"fetch", "snapshot", "read", "write", "credential"} => work'["refresh"] = work["refresh"]
    BY <1>2, <1>8
  <2> QED
    BY <1>1, <1>4, <2>2, <2>3, <2>4 DEF CredentialsInv, Cleaning
<1> QED
  BY <1>9, <1>10, <1>11 DEF SourceInv

LEMMA PutCredentialFailsKeeps == ASSUME SourceInv, NEW w \in Loaders, S!PutCredentialFails(w) PROVE SourceInv'
<1>1. SourceTypes /\ SnapshotsInv /\ CredentialsInv
  BY DEF SourceInv
<1>2. "import" \in S!Workers /\ "refresh" \in S!Workers /\ "delete" \in S!Workers /\ w \in S!Workers /\ w # "delete"
      /\ w \in {"import", "refresh"} /\ Loaders = {"import", "refresh"}
  BY DEF S!Workers, Loaders
<1> DEFINE t == work[w]
           was == t.before[t.id]
           e == S!Updated(was, t.digest)
           other == \E v \in {"import", "refresh"} \ {w} : S!Works(v, t.id)
<1>3. t \in Work /\ t.pc = "credential" /\ t.id \in Sources /\ t.digest \in Digests /\ t.before \in Lists /\ was \in S!Entry
  <2>1. work[w].pc = "credential"
    BY DEF S!PutCredentialFails, S!At
  <2> QED
    BY <1>1, <1>2, <2>1, WorkFacts DEF SourceTypes, Lists
<1>4. /\ IF other THEN list' = t.before /\ lost' = TRUE
                  ELSE list' = t.before /\ lost' = (lost \/ list # [t.before EXCEPT ![t.id] = e])
      /\ snaps' = snaps \ {<<t.id, t.digest>>} /\ broke' = (broke \/ t.digest \in NamesOf(was))
      /\ UNCHANGED <<creds, chosen>>
  BY DEF S!PutCredentialFails, S!ListBack, S!SaveList, NamesOf
<1>5. /\ work' \in [S!Workers -> Work] /\ \A v \in S!Workers : v # w => work'[v] = work[v]
      /\ work'[w].pc \in {"reread", "rest"} /\ (work'[w].pc = "rest" \/ work'[w].digest = t.digest)
  BY <1>1, <1>2, WorkGoes, WorkRests DEF S!PutCredentialFails, SourceTypes, SourcePcs
<1>6. sleft' \in [SKinds -> Nat] /\ sleft'.deaths = sleft.deaths /\ sleft.deaths \in Nat
  BY <1>1, Spent DEF S!PutCredentialFails, SourceTypes, SKinds
<1>7. e \in S!Entry /\ e.digest = t.digest /\ (was.digest # NoDigest => NamesOf(was) \subseteq NamesOf(e))
      /\ t.digest # NoDigest
  BY <1>3, UpdatedFacts, SAssumption
<1>8. ~lost' => /\ ~lost /\ ~other /\ list[t.id] = e
                /\ \A s \in Sources : s # t.id => list[s] = t.before[s]
  BY <1>3, <1>4 DEF Lists
<1>9. ~other => \A v \in Loaders : v # w /\ work[v].pc # "rest" => work[v].id # t.id
  BY <1>2 DEF S!Works
<1>10. list' = t.before
  BY <1>4
<1> HIDE DEF t, was, e, other
<1>11. SourceTypes'
  <2>1. list' \in Lists /\ snaps' \subseteq Sources \X Digests /\ creds' \subseteq Sources /\ broke' \in BOOLEAN
        /\ lost' \in BOOLEAN
    BY <1>1, <1>3, <1>4 DEF SourceTypes
  <2>2. sleft'.deaths <= sleft.deaths /\ chosen' = chosen /\ (work'[w].pc = "rest" \/ work'[w].digest \in Digests)
    BY <1>3, <1>4, <1>5, <1>6
  <2> QED
    BY <1>1, <1>2, <1>5, <1>6, <2>1, <2>2, TypesBy
<1>12. SnapshotsInv'
  <2>1. SUFFICES ASSUME ~lost' PROVE SnapshotsInv'
    BY DEF SnapshotsInv
  <2>2. ASSUME NEW v \in Loaders, work'[v].pc \in {"read", "write", "credential"}
        PROVE  <<work'[v].id, work'[v].digest>> \in snaps'
    <3>1. v \in S!Workers /\ v # w /\ work'[v] = work[v]
      BY <1>5, <2>2 DEF Loaders, S!Workers
    <3>2. <<work[v].id, work[v].digest>> \in snaps /\ work[v].id # t.id
      BY <1>1, <1>8, <1>9, <2>1, <2>2, <3>1 DEF SnapshotsInv
    <3> QED
      BY <1>4, <3>1, <3>2
  <2>3. ASSUME ~broke', NEW s \in Sources, (S!Listed(s))', NEW d \in NamesOf(list'[s]) PROVE <<s, d>> \in snaps'
    <3>0. ~broke /\ t.digest \notin NamesOf(was)
      BY <1>4, <2>3
    <3>1. CASE s # t.id
      <4>1. list'[s] = list[s] /\ S!Listed(s)
        BY <1>8, <1>10, <2>1, <2>3, <3>1 DEF S!Listed
      <4>2. <<s, d>> \in snaps
        BY <1>1, <1>8, <2>1, <2>3, <3>0, <4>1 DEF SnapshotsInv
      <4> QED
        BY <1>4, <3>1, <4>2
    <3>2. CASE s = t.id
      <4>1. list'[s] = was /\ was.digest # NoDigest
        BY <1>10, <2>3, <3>2 DEF was, S!Listed
      <4>2. d \in NamesOf(list[s]) /\ S!Listed(s) /\ d # t.digest
        BY <1>7, <1>8, <2>1, <2>3, <3>0, <3>2, <4>1 DEF S!Listed
      <4>3. <<s, d>> \in snaps
        BY <1>1, <1>8, <2>1, <2>3, <3>0, <4>2 DEF SnapshotsInv
      <4> QED
        BY <1>4, <4>2, <4>3
    <3> QED
      BY <3>1, <3>2
  <2> QED
    BY <2>2, <2>3 DEF SnapshotsInv
<1>13. CredentialsInv'
  <2>1. SUFFICES ASSUME ~lost', sleft'.deaths = SBudget.deaths PROVE CredentialsInv'
    BY DEF CredentialsInv
  <2>2. ~lost /\ sleft.deaths = SBudget.deaths /\ work'["delete"] = work["delete"] /\ creds' = creds /\ ~other
    BY <1>2, <1>4, <1>5, <1>6, <1>8, <2>1
  <2>3. ASSUME NEW s \in Sources, CredentialOf(s) PROVE CredentialOf(s)'
    <3>1. (S!Listed(s))' <=> t.before[s].digest # NoDigest
      BY <1>10 DEF S!Listed
    <3>2. s # t.id => (S!Listed(s) <=> t.before[s].digest # NoDigest)
      BY <1>8, <2>1 DEF S!Listed
    <3>3. CASE w = "import"
      <4>1. work'["refresh"] = work["refresh"]
        BY <1>2, <1>5, <3>3
      <4>2. /\ work'["import"].pc \in {"reread", "rest"} /\ work["import"].pc = "credential" /\ t = work["import"]
            /\ (work["refresh"].pc # "rest" => work["refresh"].id # t.id)
        BY <1>2, <1>3, <1>5, <1>9, <2>2, <3>3 DEF t
      <4>3. CASE s = t.id
        BY <2>2, <2>3, <3>1, <4>1, <4>2, <4>3 DEF CredentialOf
      <4>4. CASE s # t.id
        BY <2>2, <2>3, <3>1, <3>2, <4>1, <4>2, <4>4 DEF CredentialOf
      <4> QED
        BY <4>3, <4>4
    <3>4. CASE w = "refresh"
      <4>1. work'["import"] = work["import"]
        BY <1>2, <1>5, <3>4
      <4>2. /\ work'["refresh"].pc \in {"reread", "rest"} /\ work["refresh"].pc = "credential" /\ t = work["refresh"]
            /\ (work["import"].pc # "rest" => work["import"].id # t.id)
        BY <1>2, <1>3, <1>5, <1>9, <2>2, <3>4 DEF t
      <4>3. CASE s = t.id
        BY <2>2, <2>3, <3>1, <4>1, <4>2, <4>3 DEF CredentialOf
      <4>4. CASE s # t.id
        BY <2>2, <2>3, <3>1, <3>2, <4>1, <4>2, <4>4 DEF CredentialOf
      <4> QED
        BY <4>3, <4>4
    <3> QED
      BY <1>2, <3>3, <3>4
  <2>4. work'["refresh"].pc \in {"fetch", "snapshot", "read", "write", "credential"} => work'["refresh"] = work["refresh"]
    BY <1>2, <1>5
  <2> QED
    BY <1>1, <2>2, <2>3, <2>4 DEF CredentialsInv, Cleaning
<1> QED
  BY <1>11, <1>12, <1>13 DEF SourceInv

----------------------------------------------------------------------------
(* Deletion and death.                                                     *)
LEMMA UnlistKeeps == ASSUME SourceInv, S!Unlist PROVE SourceInv'
<1>1. SourceTypes /\ SnapshotsInv /\ CredentialsInv
  BY DEF SourceInv
<1>2. "import" \in S!Workers /\ "refresh" \in S!Workers /\ "delete" \in S!Workers /\ "delete" \notin Loaders
      /\ Loaders = {"import", "refresh"}
  BY DEF S!Workers, Loaders
<1> DEFINE t == work["delete"]
<1>3. t.pc = "unlist" /\ t.id \in Sources /\ t.copy \in Lists
  BY <1>1, <1>2, WorkFacts DEF S!Unlist, S!At, SourceTypes
<1>4. list' = [t.copy EXCEPT ![t.id] = S!Unlisted] /\ lost' = (lost \/ list # t.copy)
      /\ UNCHANGED <<snaps, creds, chosen, broke, sleft>>
  BY DEF S!Unlist, S!SaveList
<1>5. /\ work' \in [S!Workers -> Work] /\ \A v \in S!Workers : v # "delete" => work'[v] = work[v]
      /\ work'["delete"].pc = "clean" /\ work'["delete"].id = t.id
  BY <1>1, <1>2, WorkGoes DEF S!Unlist, SourcePcs, SourceTypes
<1>6. /\ ~lost' => ~lost /\ \A s \in Sources : s # t.id => list'[s] = list[s]
      /\ list'[t.id].digest = NoDigest /\ list' \in Lists
  BY <1>3, <1>4, EntryFacts DEF Lists
<1>7. work'["import"] = work["import"] /\ work'["refresh"] = work["refresh"]
  BY <1>2, <1>5
<1>8. ~Cleaning(t.id) /\ \A s \in Sources : ~Cleaning(s)
  BY <1>3 DEF Cleaning
<1> HIDE DEF t
<1>9. SourceTypes'
  <2>1. snaps' \subseteq Sources \X Digests /\ creds' \subseteq Sources /\ broke' \in BOOLEAN
        /\ lost' \in BOOLEAN /\ sleft' \in [SKinds -> Nat] /\ sleft'.deaths <= sleft.deaths /\ chosen' = chosen
    BY <1>1, <1>4 DEF SourceTypes, SKinds
  <2> QED
    BY <1>1, <1>2, <1>5, <1>6, <2>1, TypesBy
<1>10. SnapshotsInv'
  BY <1>1, <1>2, <1>4, <1>6, <1>7 DEF SnapshotsInv, S!Listed
<1>11. CredentialsInv'
  <2>1. SUFFICES ASSUME ~lost', sleft'.deaths = SBudget.deaths PROVE CredentialsInv'
    BY DEF CredentialsInv
  <2>2. ~lost /\ sleft.deaths = SBudget.deaths /\ creds' = creds
    BY <1>4, <1>6, <2>1
  <2>3. ASSUME NEW s \in Sources, CredentialOf(s), s # t.id PROVE CredentialOf(s)'
    <3>1. (S!Listed(s))' <=> S!Listed(s)
      BY <1>6, <2>1, <2>3 DEF S!Listed
    <3> QED
      BY <1>7, <2>2, <2>3, <3>1 DEF CredentialOf
  <2>4. \A s \in Sources : ~(Cleaning(s))' => s # t.id
    BY <1>5 DEF Cleaning
  <2> QED
    BY <1>1, <1>7, <1>8, <2>2, <2>3, <2>4 DEF CredentialsInv
<1> QED
  BY <1>9, <1>10, <1>11 DEF SourceInv

LEMMA CleanKeeps == ASSUME SourceInv, S!Clean PROVE SourceInv'
<1>1. SourceTypes /\ SnapshotsInv /\ CredentialsInv
  BY DEF SourceInv
<1>2. "import" \in S!Workers /\ "refresh" \in S!Workers /\ "delete" \in S!Workers /\ "delete" \notin Loaders
      /\ Loaders = {"import", "refresh"}
  BY DEF S!Workers, Loaders
<1> DEFINE a == work["delete"].id
<1>3. work["delete"].pc = "clean" /\ a \in Sources
  BY <1>1, <1>2, WorkFacts DEF S!Clean, S!At, SourceTypes
<1>4. /\ creds' = creds \ {a} /\ snaps' = {x \in snaps : x[1] # a}
      /\ lost' = (lost \/ S!Listed(a) \/ \E w \in {"import", "refresh"} : S!Works(w, a))
      /\ UNCHANGED <<list, chosen, broke, sleft>>
  BY DEF S!Clean, S!Forgotten
<1>5. /\ work' \in [S!Workers -> Work] /\ \A v \in S!Workers : v # "delete" => work'[v] = work[v]
      /\ work'["delete"].pc = "rest"
  BY <1>1, <1>2, WorkRests DEF S!Clean, SourceTypes
<1>6. ~lost' => /\ ~lost /\ ~S!Listed(a)
                /\ \A w \in Loaders : work[w].pc # "rest" => work[w].id # a
  BY <1>2, <1>4 DEF S!Works
<1>7. work'["import"] = work["import"] /\ work'["refresh"] = work["refresh"]
  BY <1>2, <1>5
<1>8. \A s \in Sources : \A d : s # a /\ <<s, d>> \in snaps => <<s, d>> \in snaps'
  BY <1>4
<1>9. \A s \in Sources : Cleaning(s) => s = a
  BY DEF Cleaning
<1> HIDE DEF a
<1>10. SourceTypes'
  <2>1. snaps' \subseteq Sources \X Digests /\ creds' \subseteq Sources /\ broke' \in BOOLEAN /\ list' \in Lists
        /\ lost' \in BOOLEAN /\ sleft' \in [SKinds -> Nat] /\ sleft'.deaths <= sleft.deaths /\ chosen' = chosen
    BY <1>1, <1>4 DEF SourceTypes, SKinds
  <2> QED
    BY <1>1, <1>2, <1>5, <2>1, TypesBy
<1>11. SnapshotsInv'
  <2>1. SUFFICES ASSUME ~lost' PROVE SnapshotsInv'
    BY DEF SnapshotsInv
  <2>2. ASSUME NEW v \in Loaders, work'[v].pc \in {"read", "write", "credential"}
        PROVE  <<work'[v].id, work'[v].digest>> \in snaps'
    <3>1. work'[v] = work[v] /\ work[v].id \in Sources
      BY <1>1, <1>2, <1>7, WorkFacts DEF SourceTypes
    <3>2. <<work[v].id, work[v].digest>> \in snaps /\ work[v].id # a
      BY <1>1, <1>6, <2>1, <2>2, <3>1 DEF SnapshotsInv
    <3> QED
      BY <1>8, <3>1, <3>2
  <2>3. ASSUME ~broke', NEW s \in Sources, (S!Listed(s))', NEW d \in NamesOf(list'[s]) PROVE <<s, d>> \in snaps'
    <3>1. list' = list /\ S!Listed(s) /\ ~broke /\ ~lost /\ s # a
      BY <1>4, <1>6, <2>1, <2>3 DEF S!Listed
    <3>2. <<s, d>> \in snaps
      BY <1>1, <2>3, <3>1 DEF SnapshotsInv
    <3> QED
      BY <1>8, <3>1, <3>2
  <2> QED
    BY <2>2, <2>3 DEF SnapshotsInv
<1>12. CredentialsInv'
  <2>1. SUFFICES ASSUME ~lost', sleft'.deaths = SBudget.deaths PROVE CredentialsInv'
    BY DEF CredentialsInv
  <2>2. ~lost /\ sleft.deaths = SBudget.deaths
    BY <1>4, <1>6, <2>1
  <2>3. ASSUME NEW s \in Sources PROVE CredentialOf(s)'
    <3>1. (S!Listed(s))' <=> S!Listed(s)
      BY <1>4 DEF S!Listed
    <3>2. CASE s = a
      <4>1. /\ ~(S!Listed(s))' /\ s \notin creds'
            /\ work["import"].pc # "rest" => work["import"].id # s
            /\ work["refresh"].pc # "rest" => work["refresh"].id # s
        BY <1>2, <1>4, <1>6, <2>1, <3>1, <3>2
      <4> QED
        BY <1>7, <4>1 DEF CredentialOf
    <3>3. CASE s # a
      <4>1. CredentialOf(s) /\ (s \in creds' <=> s \in creds)
        BY <1>1, <1>4, <1>9, <2>2, <3>3 DEF CredentialsInv
      <4> QED
        BY <1>7, <3>1, <4>1 DEF CredentialOf
    <3> QED
      BY <3>2, <3>3
  <2>4. work'["refresh"].pc \in {"fetch", "snapshot", "read", "write", "credential"} => work'["refresh"].id \in creds'
    BY <1>1, <1>2, <1>4, <1>6, <1>7, <2>1, <2>2 DEF CredentialsInv
  <2> QED
    BY <2>3, <2>4 DEF CredentialsInv
<1> QED
  BY <1>10, <1>11, <1>12 DEF SourceInv

LEMMA DieKeeps == ASSUME SourceInv, S!Die PROVE SourceInv'
<1>1. SourceTypes /\ SnapshotsInv
  BY DEF SourceInv
<1>2. /\ sleft' \in [SKinds -> Nat] /\ sleft'.deaths < sleft.deaths /\ sleft'.deaths \in Nat
      /\ sleft.deaths \in Nat /\ sleft.deaths <= SBudget.deaths /\ SBudget.deaths \in Nat
  BY <1>1, Spent, SAssumption DEF S!Die, SourceTypes, SKinds
<1>3. work' = [w \in S!Workers |-> S!Rest] /\ UNCHANGED <<list, snaps, creds, chosen, lost, broke>>
  BY DEF S!Die
<1>4. work' \in [S!Workers -> Work] /\ \A w \in Loaders : work'[w].pc = "rest"
  BY <1>3, RestFacts DEF Loaders, S!Workers
<1>5. SourceTypes'
  BY <1>1, <1>2, <1>3, <1>4 DEF SourceTypes
<1>6. SnapshotsInv'
  BY <1>1, <1>3, <1>4 DEF SnapshotsInv, S!Listed
<1>7. CredentialsInv'
  BY <1>2 DEF CredentialsInv
<1> QED
  BY <1>5, <1>6, <1>7 DEF SourceInv

LEMMA SourceStart == S!SourceInit => SourceInv
<1> SUFFICES ASSUME S!SourceInit PROVE SourceInv
  OBVIOUS
<1>1. /\ list = [s \in Sources |-> S!Unlisted] /\ snaps = {} /\ creds = {} /\ chosen = NoDigest
      /\ work = [w \in S!Workers |-> S!Rest] /\ lost = FALSE /\ broke = FALSE /\ sleft = SBudget
  BY DEF S!SourceInit
<1>2. work \in [S!Workers -> Work] /\ \A w \in S!Workers : work[w].pc = "rest"
  BY <1>1, RestFacts
<1>3. list \in Lists /\ \A s \in Sources : ~S!Listed(s)
  BY <1>1, EntryFacts DEF Lists, S!Listed
<1>4. "import" \in S!Workers /\ "refresh" \in S!Workers /\ Loaders \subseteq S!Workers
  BY DEF S!Workers, Loaders
<1>5. SourceTypes
  <2>1. sleft \in [SKinds -> Nat] /\ sleft.deaths \in Nat /\ sleft = SBudget
    BY <1>1, SAssumption DEF SKinds
  <2>2. \A w \in Loaders : work[w].pc = "rest"
    BY <1>2, <1>4
  <2>3. sleft.deaths <= SBudget.deaths
    BY <2>1
  <2>4. chosen \in Digests \cup {NoDigest} /\ lost \in BOOLEAN /\ broke \in BOOLEAN
    BY <1>1
  <2>5. snaps \subseteq Sources \X Digests /\ creds \subseteq Sources
    BY <1>1
  <2>6. \A w \in Loaders : work[w].pc \notin {"fetch", "snapshot", "read", "write", "credential"}
    BY <2>2
  <2> QED
    BY <1>2, <1>3, <2>1, <2>3, <2>4, <2>5, <2>6 DEF SourceTypes
<1>6. SnapshotsInv
  BY <1>2, <1>3, <1>4 DEF SnapshotsInv
<1>7. CredentialsInv
  BY <1>1, <1>2, <1>3, <1>4 DEF CredentialsInv, CredentialOf
<1> QED
  BY <1>5, <1>6, <1>7 DEF SourceInv

LEMMA SourceKept == ASSUME SourceInv, [S!SourceNext]_(S!svars) PROVE SourceInv'
<1>1. CASE UNCHANGED S!svars
  BY <1>1 DEF S!svars, SourceInv, SourceTypes, SnapshotsInv, CredentialsInv, CredentialOf, Cleaning, S!Listed
<1>2. CASE S!SourceNext
  BY <1>2, CalmKeeps, MovesKeep, WriteListKeeps, PutCredentialKeeps, PutCredentialFailsKeeps, UnlistKeeps,
     CleanKeeps, DieKeeps DEF S!SourceNext, Loaders
<1> QED
  BY <1>1, <1>2

LEMMA SourcePromises == SourceInv => S!SourceTypeOK /\ S!VersionsReadable /\ S!CredentialsMatchList
<1> SUFFICES ASSUME SourceInv PROVE S!SourceTypeOK /\ S!VersionsReadable /\ S!CredentialsMatchList
  OBVIOUS
<1>1. SourceTypes /\ SnapshotsInv /\ CredentialsInv
  BY DEF SourceInv
<1>2. S!SourceTypeOK
  BY <1>1 DEF SourceTypes, S!SourceTypeOK, Lists
<1>3. S!VersionsReadable
  BY <1>1 DEF SnapshotsInv, S!VersionsReadable, NamesOf
<1>4. S!CredentialsMatchList
  <2>1. SUFFICES ASSUME ~lost, sleft.deaths = SBudget.deaths, \A w \in S!Workers : work[w].pc = "rest"
                 PROVE  creds = {s \in Sources : S!Listed(s)}
    BY DEF S!CredentialsMatchList
  <2>2. \A s \in Sources : CredentialOf(s)
    BY <1>1, <2>1 DEF CredentialsInv, Cleaning, S!Workers
  <2>3. \A s \in Sources : s \in creds <=> S!Listed(s)
    BY <2>1, <2>2 DEF CredentialOf, S!Workers
  <2> QED
    BY <1>1, <2>3 DEF SourceTypes
<1> QED
  BY <1>2, <1>3, <1>4

----------------------------------------------------------------------------
(* The runtime image cache.                                               *)
LEMMA IAssumption == IBudget \in [IKinds -> Nat]
BY ControlAssumption DEF IKinds
Tree == [parts : SUBSET Parts, spoilt : SUBSET Parts]

\* A cache has every entry, and unless somebody else changed it since, each is right;
\* a container that binds one has seen it, and what it renames is verified.
ImageInv ==
  /\ cached \in [Images -> [there : BOOLEAN, tree : Tree]]
  /\ starter \in [Containers -> [pc : {"off", "check", "build", "rename", "bind", "protect", "runs"},
                                 img : Images \cup {"none"}, tree : Tree]]
  /\ usr \in [Containers -> [img : Images \cup {"own"}, ro : BOOLEAN]]
  /\ ileft \in [IKinds -> Nat] /\ stale \in Nat /\ stale + ileft.deaths <= IBudget.deaths
  /\ \A i \in Images : cached[i].there => /\ cached[i].tree.parts = Parts
                                          /\ i \notin meddled => cached[i].tree.spoilt = {}
  /\ \A c \in Containers :
       /\ starter[c].pc # "off" => starter[c].img \in Images
       /\ starter[c].pc = "rename" => I!Whole(starter[c].tree)
       /\ starter[c].pc \in {"bind", "protect", "runs"} => cached[starter[c].img].there
       /\ starter[c].pc \in {"protect", "runs"} => usr[c].img = starter[c].img
       /\ starter[c].pc = "runs" => usr[c].ro

LEMMA ImageStart == I!ImageInit => ImageInv
<1> SUFFICES ASSUME I!ImageInit PROVE ImageInv
  OBVIOUS
<1>1. I!Nothing \in Tree
  BY DEF I!Nothing, Tree
<1>2. stale + ileft.deaths <= IBudget.deaths
  BY IAssumption DEF I!ImageInit, IKinds
<1> QED
  BY <1>1, <1>2, IAssumption DEF I!ImageInit, ImageInv, I!Gone, I!Asleep, I!OwnUsr

LEMMA ImagePromises == ImageInv => I!ImageTypeOK /\ I!RunsWhatWasVerified /\ I!CacheIsWhole
<1> SUFFICES ASSUME ImageInv PROVE I!ImageTypeOK /\ I!RunsWhatWasVerified /\ I!CacheIsWhole
  OBVIOUS
<1> USE DEF ImageInv
<1>1. I!ImageTypeOK
  <2>1. stale <= IBudget.deaths
    BY IAssumption DEF IKinds
  <2> QED
    BY <2>1 DEF I!ImageTypeOK
<1>2. I!RunsWhatWasVerified
  <2> SUFFICES ASSUME NEW c \in Containers, starter[c].pc = "runs"
               PROVE  /\ usr[c] = [img |-> starter[c].img, ro |-> TRUE]
                      /\ starter[c].img \notin meddled => I!Whole(cached[starter[c].img].tree)
    BY DEF I!RunsWhatWasVerified
  <2> QED
    BY DEF I!Whole
<1>3. I!CacheIsWhole
  BY DEF I!CacheIsWhole, I!Whole
<1> QED
  BY <1>1, <1>2, <1>3

\* What one container does leaves the others as they are.
LEMMA ImageKept == ImageInv /\ [I!ImageNext]_(I!ivars) => ImageInv'
<1> SUFFICES ASSUME ImageInv, [I!ImageNext]_(I!ivars) PROVE ImageInv'
  OBVIOUS
<1> USE DEF ImageInv
<1>1. ASSUME NEW k \in IKinds, I!Costs(k)
      PROVE  ileft' \in [IKinds -> Nat] /\ ileft'.deaths <= ileft.deaths /\ (k = "deaths" => ileft'.deaths + 1 = ileft.deaths)
  BY <1>1 DEF I!Costs, IKinds
<1>2. ASSUME NEW c \in Containers, I!Ends(c), UNCHANGED <<cached, meddled>>,
             stale' \in Nat, ileft' \in [IKinds -> Nat], stale' + ileft'.deaths <= IBudget.deaths
      PROVE  ImageInv'
  <2>1. I!Asleep \in [pc : {"off"}, img : {"none"}, tree : Tree] /\ I!OwnUsr \in [img : {"own"}, ro : {FALSE}]
    BY DEF I!Asleep, I!OwnUsr, I!Nothing, Tree
  <2>2. starter' = [starter EXCEPT ![c] = I!Asleep] /\ usr' = [usr EXCEPT ![c] = I!OwnUsr]
    BY <1>2 DEF I!Ends
  <2>3. starter' \in [Containers -> [pc : {"off", "check", "build", "rename", "bind", "protect", "runs"},
                                     img : Images \cup {"none"}, tree : Tree]]
    BY <2>1, <2>2
  <2>4. usr' \in [Containers -> [img : Images \cup {"own"}, ro : BOOLEAN]]
    BY <2>1, <2>2
  <2>5. \A d \in Containers : IF d = c THEN starter'[d].pc = "off" ELSE starter'[d] = starter[d] /\ usr'[d] = usr[d]
    BY <2>1, <2>2
  <2> QED
    BY <1>2, <2>3, <2>4, <2>5
<1>3. ASSUME NEW c \in Containers, I!Begin(c) PROVE ImageInv'
  <2>1. PICK i \in Images : starter' = [starter EXCEPT ![c] = [pc |-> "check", img |-> i, tree |-> I!Nothing]]
    BY <1>3 DEF I!Begin
  <2>2. I!Nothing \in Tree
    BY DEF I!Nothing, Tree
  <2> QED
    BY <1>3, <2>1, <2>2 DEF I!Begin
<1>4. ASSUME NEW c \in Containers, I!Check(c) PROVE ImageInv'
  <2>1. CASE I!Usable(starter[c].img) /\ I!Steps(c, "bind") /\ meddled' = meddled \ {starter[c].img} /\ UNCHANGED usr
    BY <1>4, <2>1 DEF I!Check, I!Usable, I!Steps, I!Whole
  <2>2. CASE I!Ends(c) /\ UNCHANGED meddled
    BY <1>2, <1>4, <2>2 DEF I!Check
  <2>3. CASE I!Steps(c, "build") /\ UNCHANGED <<usr, meddled>>
    BY <1>4, <2>3 DEF I!Check, I!Steps
  <2> QED
    BY <1>4, <2>1, <2>2, <2>3 DEF I!Check
<1>5. ASSUME NEW c \in Containers, I!Copy(c) PROVE ImageInv'
  <2>1. PICK p \in Parts \ starter[c].tree.parts :
          \/ starter' = [starter EXCEPT ![c].tree.parts = @ \cup {p}] /\ UNCHANGED <<usr, ileft>>
          \/ I!Costs("faults") /\ I!Ends(c)
          \/ I!Costs("faults") /\ starter' = [starter EXCEPT ![c].tree = [parts |-> @.parts \cup {p}, spoilt |-> @.spoilt \cup {p}]] /\ UNCHANGED usr
    BY <1>5 DEF I!Copy
  <2>2. starter[c].pc = "build" /\ UNCHANGED <<cached, stale, meddled>>
    BY <1>5 DEF I!Copy, I!BuiltAside
  <2>3. starter[c].tree \in Tree
    OBVIOUS
  <2>4. CASE starter' = [starter EXCEPT ![c].tree.parts = @ \cup {p}] /\ UNCHANGED <<usr, ileft>>
    <3>1. starter' \in [Containers -> [pc : {"off", "check", "build", "rename", "bind", "protect", "runs"},
                                       img : Images \cup {"none"}, tree : Tree]]
      <4> DEFINE t == [starter[c].tree EXCEPT !.parts = @ \cup {p}]
      <4>1. t \in Tree
        BY <2>3 DEF Tree
      <4>2. starter' = [starter EXCEPT ![c].tree = t]
        BY <2>4
      <4> HIDE DEF t
      <4> QED
        BY <4>1, <4>2
    <3>2. \A d \in Containers : starter'[d].pc = starter[d].pc /\ starter'[d].img = starter[d].img
                               /\ (d # c => starter'[d] = starter[d])
      BY <2>4
    <3> QED
      BY <2>2, <2>4, <3>1, <3>2
  <2>5. CASE I!Costs("faults") /\ I!Ends(c)
    <3>1. ileft' \in [IKinds -> Nat] /\ stale' + ileft'.deaths <= IBudget.deaths
      BY <1>1, <2>2, <2>5, IAssumption DEF IKinds
    <3> QED
      BY <1>2, <2>2, <2>5, <3>1
  <2>6. CASE I!Costs("faults") /\ starter' = [starter EXCEPT ![c].tree = [parts |-> @.parts \cup {p}, spoilt |-> @.spoilt \cup {p}]] /\ UNCHANGED usr
    <3>1. [parts |-> starter[c].tree.parts \cup {p}, spoilt |-> starter[c].tree.spoilt \cup {p}] \in Tree
      BY <2>3 DEF Tree
    <3>2. ileft' \in [IKinds -> Nat] /\ stale' + ileft'.deaths <= IBudget.deaths
      BY <1>1, <2>2, <2>6, IAssumption DEF IKinds
    <3>3. starter' \in [Containers -> [pc : {"off", "check", "build", "rename", "bind", "protect", "runs"},
                                       img : Images \cup {"none"}, tree : Tree]]
      <4> DEFINE t == [parts |-> starter[c].tree.parts \cup {p}, spoilt |-> starter[c].tree.spoilt \cup {p}]
      <4>1. t \in Tree /\ starter' = [starter EXCEPT ![c].tree = t]
        BY <2>6, <3>1
      <4> HIDE DEF t
      <4> QED
        BY <4>1
    <3>4. \A d \in Containers : starter'[d].pc = starter[d].pc /\ starter'[d].img = starter[d].img
                               /\ (d # c => starter'[d] = starter[d])
      BY <2>6
    <3> QED
      BY <2>2, <2>6, <3>2, <3>3, <3>4
  <2> QED
    BY <2>1, <2>4, <2>5, <2>6
<1>6. ASSUME NEW c \in Containers, I!Verified(c) PROVE ImageInv'
  <2>1. CASE I!Whole(starter[c].tree) /\ I!Steps(c, "rename") /\ UNCHANGED usr
    BY <1>6, <2>1 DEF I!Verified, I!Steps, I!Whole
  <2>2. CASE I!Ends(c)
    BY <1>2, <1>6, <2>2 DEF I!Verified
  <2> QED
    BY <1>6, <2>1, <2>2 DEF I!Verified
<1>7. ASSUME NEW c \in Containers, I!Rename(c) PROVE ImageInv'
  <2> DEFINE i == starter[c].img
  <2>1. i \in Images /\ I!Whole(starter[c].tree) /\ starter[c].tree \in Tree /\ UNCHANGED <<stale, ileft>>
    BY <1>7 DEF I!Rename
  <2>2. CASE /\ cached' = [cached EXCEPT ![i] = [there |-> TRUE, tree |-> starter[c].tree]]
             /\ I!Steps(c, "bind") /\ meddled' = meddled \ {i} /\ UNCHANGED usr
    BY <2>1, <2>2 DEF I!Steps, I!Whole
  <2>3. CASE I!Ends(c) /\ UNCHANGED <<cached, meddled>>
    BY <1>2, <2>1, <2>3
  <2> QED
    BY <1>7, <2>2, <2>3 DEF I!Rename
<1>8. ASSUME NEW c \in Containers, I!Bind(c) PROVE ImageInv'
  <2>0. starter[c].img \in Images /\ starter[c].pc = "bind" /\ UNCHANGED <<cached, stale, meddled, ileft>>
    BY <1>8 DEF I!Bind
  <2>1. CASE usr' = [usr EXCEPT ![c] = [img |-> starter[c].img, ro |-> FALSE]] /\ I!Steps(c, "protect")
    BY <2>0, <2>1 DEF I!Steps
  <2>3. CASE usr' = [usr EXCEPT ![c] = [img |-> starter[c].img, ro |-> TRUE]] /\ I!Steps(c, "runs")
    BY <2>0, <2>3 DEF I!Steps
  <2>2. CASE I!Ends(c)
    BY <1>2, <1>8, <2>2 DEF I!Bind
  <2> QED
    BY <1>8, <2>1, <2>2, <2>3 DEF I!Bind
<1>9. ASSUME NEW c \in Containers, I!Protect(c) PROVE ImageInv'
  <2>1. CASE usr' = [usr EXCEPT ![c].ro = TRUE] /\ I!Steps(c, "runs") /\ UNCHANGED ileft
    <3>1. \A d \in Containers : /\ starter'[d].img = starter[d].img /\ usr'[d].img = usr[d].img
                                /\ d # c => starter'[d] = starter[d] /\ usr'[d] = usr[d]
                                /\ d = c => starter'[d].pc = "runs" /\ usr'[d].ro
      BY <2>1 DEF I!Steps
    <3>2. starter[c].pc = "protect" /\ UNCHANGED <<cached, stale, meddled, ileft>>
      BY <1>9, <2>1 DEF I!Protect
    <3>3. starter' \in [Containers -> [pc : {"off", "check", "build", "rename", "bind", "protect", "runs"},
                                       img : Images \cup {"none"}, tree : Tree]]
      BY <2>1 DEF I!Steps
    <3>4. usr' \in [Containers -> [img : Images \cup {"own"}, ro : BOOLEAN]]
      BY <2>1
    <3>5. /\ starter'[c].pc = "runs"
          /\ \A d \in Containers : d # c => starter'[d] = starter[d]
      BY <2>1 DEF I!Steps
    <3>6. usr'[c].ro /\ \A d \in Containers : d # c => usr'[d] = usr[d]
      BY <2>1
    <3> SUFFICES ASSUME NEW d \in Containers
                 PROVE  /\ starter'[d].pc # "off" => starter'[d].img \in Images
                        /\ starter'[d].pc = "rename" => I!Whole(starter'[d].tree)
                        /\ starter'[d].pc \in {"bind", "protect", "runs"} => cached'[starter'[d].img].there
                        /\ starter'[d].pc \in {"protect", "runs"} => usr'[d].img = starter'[d].img
                        /\ starter'[d].pc = "runs" => usr'[d].ro
      BY <3>2, <3>3, <3>4
    <3>7. CASE d = c
      <4>1. starter[c].img \in Images /\ cached'[starter[c].img].there /\ usr[c].img = starter[c].img
        BY <3>2
      <4>2. starter'[c].img = starter[c].img /\ usr'[c].img = usr[c].img
        BY <2>1 DEF I!Steps
      <4> HIDE DEF ImageInv
      <4> QED
        BY <3>5, <3>6, <3>7, <4>1, <4>2
    <3>8. CASE d # c
      BY <3>2, <3>5, <3>6, <3>8
    <3> QED
      BY <3>7, <3>8
  <2>2. CASE I!Costs("faults") /\ I!Ends(c)
    <3>1. ileft' \in [IKinds -> Nat] /\ stale' + ileft'.deaths <= IBudget.deaths
      BY <1>1, <1>9, <2>2, IAssumption DEF I!Protect, IKinds
    <3> QED
      BY <1>2, <1>9, <2>2, <3>1 DEF I!Protect
  <2> QED
    BY <1>9, <2>1, <2>2 DEF I!Protect, I!Unbound
<1>10. ASSUME NEW c \in Containers, I!Dies(c) PROVE ImageInv'
  <2>1. stale' \in Nat /\ ileft' \in [IKinds -> Nat] /\ stale' + ileft'.deaths <= IBudget.deaths
    BY <1>1, <1>10, IAssumption DEF I!Dies, IKinds
  <2> QED
    BY <1>2, <1>10, <2>1 DEF I!Dies
<1>11. ASSUME NEW i \in Images, I!Meddle(i) PROVE ImageInv'
  <2>1. PICK p \in Parts : cached' = [cached EXCEPT ![i].tree.spoilt = @ \cup {p}]
    BY <1>11 DEF I!Meddle
  <2>2. ileft' \in [IKinds -> Nat] /\ stale' + ileft'.deaths <= IBudget.deaths
    BY <1>1, <1>11, IAssumption DEF I!Meddle, IKinds
  <2>3. cached' \in [Images -> [there : BOOLEAN, tree : Tree]]
    BY <2>1 DEF Tree
  <2>4. \A j \in Images : /\ cached'[j].there <=> cached[j].there
                          /\ cached'[j].tree.parts = cached[j].tree.parts
                          /\ j # i => cached'[j] = cached[j]
    BY <2>1 DEF Tree
  <2> QED
    BY <1>11, <2>2, <2>3, <2>4 DEF I!Meddle
<1> QED
  BY <1>3, <1>4, <1>5, <1>6, <1>7, <1>8, <1>9, <1>10, <1>11 DEF I!ImageNext, I!ivars

----------------------------------------------------------------------------
(* Sleep prevention.                                                      *)
LEMMA AAssumption == 0 \notin Conns /\ IsFiniteSet(Conns) /\ ABudget \in [AKinds -> Nat]
BY ControlAssumption DEF AKinds
SleepTypes ==
  /\ ctl \in [changing : BOOLEAN, lease : Conns \cup {A!NoConn}] /\ (ctl.changing => ctl.lease \in Conns)
  /\ conn \in [Conns -> {"unused", "asked", "gone", "held", "dropped", "over"}]
  /\ helper \in {"down", "starting", "up"} /\ holders \in Nat
  /\ mgr \in [pc : {"rest", "restore", "unmark", "look", "mark", "set"},
              why : {"none", "acquire", "release", "reconcile", "retry"}, conn : Conns \cup {A!NoConn}]
  /\ mark \in BOOLEAN /\ flag \in {"0", "ours", "theirs"} /\ retrying \in BOOLEAN
  /\ slipped \in BOOLEAN /\ crossed \in BOOLEAN /\ aleft \in [AKinds -> Nat]

HoldersOf(cs) == {c \in Conns : cs[c] \in {"held", "dropped"}}

\* The manager counts its connections, and works only for the first and after the last.
LeaseInv ==
  /\ holders = Cardinality(HoldersOf(conn))
  /\ mgr.pc # "rest" => holders = 0 /\ helper # "down" /\ mgr.why # "none"
  /\ helper = "starting" => mgr.pc # "rest" /\ mgr.why = "reconcile"
  /\ helper = "down" => holders = 0
  /\ mgr.pc \in {"look", "mark", "set"} => mgr.why = "acquire"
  /\ mgr.pc # "rest" /\ mgr.why = "acquire" => mgr.conn \in Conns /\ conn[mgr.conn] \in {"asked", "gone"}
  /\ mgr.pc # "rest" /\ mgr.why # "acquire" => mgr.conn = A!NoConn

\* What pmset and the marker say at each of its steps.
SettingInv ==
  /\ mgr.pc \in {"restore", "set"} => mark
  /\ mark /\ flag = "theirs" => crossed
  /\ mgr.pc \in {"unmark", "mark", "set"} => flag = "0" \/ crossed
  /\ A!Calm => /\ flag = "ours" => mark
               /\ holders > 0 => flag = "ours"
               /\ mgr.pc = "look" => flag # "ours"
               /\ mgr.pc = "rest" /\ helper = "up" /\ flag = "ours" => holders > 0 \/ retrying
               /\ mgr.pc = "restore" /\ mgr.why \in {"acquire", "retry"} /\ flag = "ours" => retrying

SleepInv == SleepTypes /\ LeaseInv /\ SettingInv

LEMMA SleepStart == A!SleepInit => SleepInv
<1> SUFFICES ASSUME A!SleepInit PROVE SleepInv
  OBVIOUS
<1>1. HoldersOf(conn) = {}
  BY DEF A!SleepInit, HoldersOf
<1>2. SleepTypes
  BY AAssumption DEF A!SleepInit, SleepTypes, A!NoLease, A!NoWork
<1>3. LeaseInv
  BY <1>1, FS_EmptySet DEF A!SleepInit, LeaseInv, A!NoWork
<1>4. SettingInv
  BY DEF A!SleepInit, SettingInv, A!NoWork
<1> QED
  BY <1>2, <1>3, <1>4 DEF SleepInv

LEMMA SleepPromises == SleepInv => A!SleepTypeOK /\ A!OursIsMarked /\ A!SettingFollowsHolders
<1> SUFFICES ASSUME SleepInv PROVE A!SleepTypeOK /\ A!OursIsMarked /\ A!SettingFollowsHolders
  OBVIOUS
<1>1. holders \in 0 .. Cardinality(Conns)
  <2>1. HoldersOf(conn) \subseteq Conns
    BY DEF HoldersOf
  <2>2. Cardinality(HoldersOf(conn)) <= Cardinality(Conns) /\ Cardinality(Conns) \in Nat
    BY <2>1, AAssumption, FS_Subset, FS_CardinalityType
  <2> QED
    BY <2>2 DEF SleepInv, SleepTypes, LeaseInv
<1>2. A!SleepTypeOK
  BY <1>1, SameCount DEF SleepInv, SleepTypes, A!SleepTypeOK
<1>3. A!OursIsMarked
  BY DEF SleepInv, SettingInv, A!OursIsMarked
<1>4. A!SettingFollowsHolders
  BY SameCount DEF SleepInv, LeaseInv, SettingInv, A!SettingFollowsHolders, HoldersOf
<1> QED
  BY <1>2, <1>3, <1>4

\* Connections that come, go or are refused, and one that is added or taken off.
LEMMA SameHolders ==
  ASSUME SleepTypes, NEW c \in Conns, NEW s, conn' = [conn EXCEPT ![c] = s],
         (s \in {"held", "dropped"}) <=> (conn[c] \in {"held", "dropped"})
  PROVE  HoldersOf(conn') = HoldersOf(conn)
BY DEF HoldersOf, SleepTypes

LEMMA OneMore ==
  ASSUME SleepTypes, NEW c \in Conns, conn[c] \notin {"held", "dropped"}, NEW s \in {"held", "dropped"},
         conn' = [conn EXCEPT ![c] = s]
  PROVE  Cardinality(HoldersOf(conn')) = Cardinality(HoldersOf(conn)) + 1
<1>1. HoldersOf(conn') = HoldersOf(conn) \cup {c} /\ c \notin HoldersOf(conn)
  BY DEF HoldersOf, SleepTypes
<1>2. IsFiniteSet(HoldersOf(conn))
  BY AAssumption, FS_Subset DEF HoldersOf
<1> QED
  BY <1>1, <1>2, FS_AddElement

LEMMA OneLess ==
  ASSUME SleepTypes, NEW c \in Conns, conn[c] \in {"held", "dropped"}, conn' = [conn EXCEPT ![c] = "over"]
  PROVE  /\ Cardinality(HoldersOf(conn')) = Cardinality(HoldersOf(conn)) - 1
         /\ Cardinality(HoldersOf(conn)) \in Nat \ {0}
<1>1. HoldersOf(conn') = HoldersOf(conn) \ {c} /\ c \in HoldersOf(conn)
  BY DEF HoldersOf, SleepTypes
<1>2. IsFiniteSet(HoldersOf(conn))
  BY AAssumption, FS_Subset DEF HoldersOf
<1>3. Cardinality(HoldersOf(conn)) \in Nat /\ Cardinality(HoldersOf(conn)) # 0
  BY <1>1, <1>2, FS_CardinalityType, FS_EmptySet
<1> QED
  BY <1>1, <1>2, <1>3, FS_RemoveElement

LEMMA Paid == ASSUME SleepTypes, NEW k \in AKinds, A!Takes(k)
              PROVE  aleft' \in [AKinds -> Nat] /\ (k = "user" => aleft'.user < aleft.user)
BY DEF SleepTypes, A!Takes, AKinds

\* An operation that refuses its connection, or has none.
LEMMA RefusedHolders ==
  ASSUME SleepTypes, NEW c \in Conns \cup {A!NoConn}, A!Refuse(c), c \in Conns => conn[c] \in {"asked", "gone"}
  PROVE  /\ conn' \in [Conns -> {"unused", "asked", "gone", "held", "dropped", "over"}]
         /\ HoldersOf(conn') = HoldersOf(conn)
<1>1. conn' = [x \in Conns |-> IF x = c THEN "over" ELSE conn[x]]
  BY DEF A!Refuse
<1> QED
  BY <1>1 DEF HoldersOf, SleepTypes
----------------------------------------------------------------------------
\* The control service's own steps change no holder, and nothing of the setting.
LEMMA ServiceKeeps == ASSUME SleepInv, A!Enable \/ A!Enabled \/ A!GivesUp \/ A!Disable \/ A!Observe PROVE SleepInv'
<1>1. SleepTypes /\ LeaseInv /\ SettingInv
  BY DEF SleepInv
<1>2. UNCHANGED <<helper, holders, mgr, mark, flag, retrying, slipped, crossed>>
  BY DEF A!Enable, A!Enabled, A!GivesUp, A!Disable, A!Observe
<1>3. aleft' \in [AKinds -> Nat]
  BY <1>1, Paid DEF A!Enable, A!Enabled, A!GivesUp, A!Disable, A!Observe, SleepTypes, AKinds
<1>4. \/ conn' = conn
      \/ \E c \in Conns : \E s : /\ conn' = [conn EXCEPT ![c] = s]
                                 /\ <<conn[c], s>> \in {<<"unused", "asked">>, <<"unused", "over">>, <<"asked", "gone">>, <<"held", "dropped">>}
                                       \/ s = conn[c]
  BY <1>1 DEF A!Enable, A!Enabled, A!GivesUp, A!Disable, A!Observe, A!Sets, A!Closed, SleepTypes, A!NoConn
<1>5. ctl' \in [changing : BOOLEAN, lease : Conns \cup {A!NoConn}] /\ (ctl'.changing => ctl'.lease \in Conns)
  <2>0. CASE ctl' = ctl
    BY <1>1, <2>0 DEF SleepTypes
  <2>1. CASE ctl' = A!NoLease
    <3>1. ctl' = [changing |-> FALSE, lease |-> A!NoConn]
      BY <2>1 DEF A!NoLease
    <3> QED
      BY <3>1
  <2>2. CASE \E c \in Conns : ctl' = [changing |-> TRUE, lease |-> c]
    BY <2>2
  <2>3. CASE ctl' = [ctl EXCEPT !.changing = FALSE]
    BY <1>1, <2>3 DEF SleepTypes
  <2> QED
    BY <2>0, <2>1, <2>2, <2>3 DEF A!Enable, A!Enabled, A!GivesUp, A!Disable, A!Observe
<1>6. /\ conn' \in [Conns -> {"unused", "asked", "gone", "held", "dropped", "over"}]
      /\ HoldersOf(conn') = HoldersOf(conn)
      /\ \A c \in Conns : conn[c] \in {"asked", "gone"} => conn'[c] \in {"asked", "gone"}
  BY <1>1, <1>4 DEF SleepTypes, HoldersOf
<1> QED
  BY <1>1, <1>2, <1>3, <1>5, <1>6 DEF SleepInv, SleepTypes, LeaseInv, SettingInv, A!Calm

LEMMA AcquireKeeps == ASSUME SleepInv, NEW c \in Conns, A!Acquire(c) PROVE SleepInv'
<1>1. /\ SleepTypes /\ LeaseInv /\ SettingInv /\ helper = "up" /\ mgr.pc = "rest" /\ conn[c] \in {"asked", "gone"}
      /\ UNCHANGED <<ctl, helper, mark, flag, retrying, slipped, crossed, aleft>>
  BY DEF SleepInv, A!Acquire
<1>2. CASE holders > 0 /\ holders' = holders + 1 /\ A!Sets(c, A!Held(c)) /\ UNCHANGED mgr
  <2>1. A!Held(c) \in {"held", "dropped"} /\ conn' = [conn EXCEPT ![c] = A!Held(c)]
    BY <1>2 DEF A!Held, A!Sets
  <2>2. Cardinality(HoldersOf(conn')) = Cardinality(HoldersOf(conn)) + 1
    BY <1>1, <2>1, OneMore
  <2>3. SleepTypes'
    BY <1>1, <1>2, <2>1 DEF SleepTypes
  <2>4. LeaseInv'
    BY <1>1, <1>2, <2>2 DEF LeaseInv
  <2>5. SettingInv'
    BY <1>1, <1>2 DEF SettingInv, A!Calm, SleepTypes
  <2> QED
    BY <2>3, <2>4, <2>5 DEF SleepInv
<1>3. CASE holders = 0 /\ A!Works(IF mark THEN "restore" ELSE "look", "acquire", c) /\ UNCHANGED <<holders, conn>>
  <2>1. mgr' = [pc |-> IF mark THEN "restore" ELSE "look", why |-> "acquire", conn |-> c]
    BY <1>3 DEF A!Works
  <2>2. SleepTypes'
    BY <1>1, <1>3, <2>1 DEF SleepTypes
  <2>3. LeaseInv'
    BY <1>1, <1>3, <2>1 DEF LeaseInv
  <2>4. SettingInv'
    BY <1>1, <1>3, <2>1 DEF SettingInv, A!Calm, SleepTypes
  <2> QED
    BY <2>2, <2>3, <2>4 DEF SleepInv
<1> QED
  BY <1>1, <1>2, <1>3 DEF A!Acquire, SleepTypes

LEMMA SleepReleaseKeeps == ASSUME SleepInv, NEW c \in Conns, A!Release(c) PROVE SleepInv'
<1>1. /\ SleepTypes /\ LeaseInv /\ SettingInv /\ helper = "up" /\ mgr.pc = "rest" /\ conn[c] = "dropped"
      /\ holders' = holders - 1 /\ conn' = [conn EXCEPT ![c] = "over"]
      /\ UNCHANGED <<ctl, helper, mark, flag, retrying, slipped, crossed, aleft>>
  BY DEF SleepInv, A!Release, A!Sets
<1>2. Cardinality(HoldersOf(conn')) = Cardinality(HoldersOf(conn)) - 1 /\ holders \in Nat \ {0}
  BY <1>1, OneLess DEF LeaseInv
<1>3. conn' \in [Conns -> {"unused", "asked", "gone", "held", "dropped", "over"}]
  BY <1>1 DEF SleepTypes
<1>4. CASE holders = 1 /\ mark
  <2>1. mgr' = [pc |-> "restore", why |-> "release", conn |-> A!NoConn]
    BY <1>4 DEF A!Release, A!LastOne, A!Works
  <2> QED
    BY <1>1, <1>2, <1>3, <1>4, <2>1, AAssumption DEF SleepInv, SleepTypes, LeaseInv, SettingInv, A!Calm, A!NoConn
<1>5. CASE ~(holders = 1 /\ mark)
  <2>1. mgr' = mgr
    BY <1>5 DEF A!Release, A!LastOne
  <2> QED
    BY <1>1, <1>2, <1>3, <1>5, <2>1 DEF SleepInv, SleepTypes, LeaseInv, SettingInv, A!Calm
<1> QED
  BY <1>4, <1>5
----------------------------------------------------------------------------
(* The manager's steps.                                                    *)

LEMMA RestoreKeeps == ASSUME SleepInv, A!Restore PROVE SleepInv'
<1>1. /\ SleepTypes /\ LeaseInv /\ SettingInv /\ mgr.pc = "restore" /\ mark' = mark /\ mark
      /\ UNCHANGED <<ctl, holders, crossed>>
  BY DEF SleepInv, A!Restore, A!MarkWhileRestoring, SettingInv
<1>2. CASE flag' = "0" /\ A!Works("unmark", mgr.why, mgr.conn) /\ UNCHANGED <<conn, helper, retrying, slipped, aleft>>
  <2>1. mgr' = [pc |-> "unmark", why |-> mgr.why, conn |-> mgr.conn]
    BY <1>2 DEF A!Works
  <2>2. mgr'.pc = "unmark" /\ mgr'.why = mgr.why /\ mgr'.conn = mgr.conn
    BY <2>1
  <2>3. SleepTypes'
    BY <1>1, <1>2, <2>1 DEF SleepTypes
  <2>4. LeaseInv'
    BY <1>1, <1>2, <2>2 DEF LeaseInv
  <2>5. SettingInv'
    BY <1>1, <1>2, <2>2 DEF SettingInv, LeaseInv, A!Calm
  <2> QED
    BY <2>3, <2>4, <2>5 DEF SleepInv
<1>3. CASE /\ A!Takes("faults") /\ flag' \in {flag, "0"} /\ mgr' = A!NoWork /\ A!Refuse(mgr.conn)
           /\ retrying' = A!Retries(mgr.why) /\ helper' = "up" /\ UNCHANGED slipped
  <2>1. mgr.conn \in Conns \cup {A!NoConn} /\ (mgr.conn \in Conns => conn[mgr.conn] \in {"asked", "gone"})
    BY <1>1, AAssumption DEF SleepTypes, LeaseInv, A!NoConn
  <2>2. /\ conn' \in [Conns -> {"unused", "asked", "gone", "held", "dropped", "over"}]
        /\ HoldersOf(conn') = HoldersOf(conn)
    BY <1>1, <1>3, <2>1, RefusedHolders
  <2>3. aleft' \in [AKinds -> Nat]
    BY <1>1, <1>3, Paid DEF AKinds
  <2>4. retrying' \in BOOLEAN /\ (retrying' <=> retrying \/ mgr.why \in {"release", "reconcile"})
    BY <1>1, <1>3 DEF A!Retries, SleepTypes
  <2>5. SleepTypes'
    BY <1>1, <1>3, <2>2, <2>3, <2>4 DEF SleepTypes, A!NoWork
  <2>6. LeaseInv'
    BY <1>1, <1>3, <2>2 DEF LeaseInv, A!NoWork
  <2>7. mgr.why \in {"none", "acquire", "release", "reconcile", "retry"} /\ mgr'.pc = "rest"
    BY <1>1, <1>3 DEF SleepTypes, A!NoWork
  <2>8. mgr.why # "none"
    BY <1>1 DEF LeaseInv
  <2>9. SettingInv'
    BY <1>1, <1>3, <2>4, <2>7, <2>8 DEF SettingInv, LeaseInv, A!Calm
  <2> QED
    BY <2>5, <2>6, <2>9 DEF SleepInv
<1> QED
  BY <1>2, <1>3 DEF A!Restore
LEMMA UnmarkKeeps == ASSUME SleepInv, A!Unmark PROVE SleepInv'
<1>1. /\ SleepTypes /\ LeaseInv /\ SettingInv /\ mgr.pc = "unmark" /\ mark' = FALSE /\ helper' = "up"
      /\ retrying' = (retrying /\ mgr.why # "retry")
      /\ UNCHANGED <<ctl, conn, holders, flag, slipped, crossed, aleft>>
  BY DEF SleepInv, A!Unmark
<1>2. CASE mgr.why = "acquire" /\ A!Works("look", "acquire", mgr.conn)
  <2>1. mgr' = [pc |-> "look", why |-> "acquire", conn |-> mgr.conn]
    BY <1>2 DEF A!Works
  <2>2. mgr'.pc = "look" /\ mgr'.why = "acquire" /\ mgr'.conn = mgr.conn
    BY <2>1
  <2>3. SleepTypes'
    BY <1>1, <2>1 DEF SleepTypes
  <2>4. LeaseInv'
    BY <1>1, <1>2, <2>2 DEF LeaseInv
  <2>5. SettingInv'
    BY <1>1, <1>2, <2>2 DEF SettingInv, LeaseInv, A!Calm
  <2> QED
    BY <2>3, <2>4, <2>5 DEF SleepInv
<1>3. CASE mgr' = A!NoWork
  <2>1. SleepTypes'
    BY <1>1, <1>3 DEF SleepTypes, A!NoWork
  <2>2. LeaseInv'
    BY <1>1, <1>3 DEF LeaseInv, A!NoWork
  <2>3. SettingInv'
    BY <1>1, <1>3 DEF SettingInv, LeaseInv, A!Calm, A!NoWork
  <2> QED
    BY <2>1, <2>2, <2>3 DEF SleepInv
<1> QED
  BY <1>2, <1>3 DEF A!Unmark

LEMMA LookKeeps == ASSUME SleepInv, A!Look \/ A!Mark PROVE SleepInv'
<1>1. /\ SleepTypes /\ LeaseInv /\ SettingInv /\ mgr.pc \in {"look", "mark"}
      /\ UNCHANGED <<ctl, helper, holders, flag, retrying, slipped, crossed, aleft>>
  BY DEF SleepInv, A!Look, A!Mark
<1>2. CASE A!Look /\ flag # "0"
  <2>1. mgr' = A!NoWork /\ A!Refuse(mgr.conn) /\ mark' = mark /\ mgr.pc = "look"
    BY <1>2 DEF A!Look, A!Theirs
  <2>2. /\ conn' \in [Conns -> {"unused", "asked", "gone", "held", "dropped", "over"}]
        /\ HoldersOf(conn') = HoldersOf(conn)
    BY <1>1, <2>1, RefusedHolders DEF SleepTypes, LeaseInv
  <2>3. SleepTypes'
    BY <1>1, <2>1, <2>2 DEF SleepTypes, A!NoWork
  <2>4. LeaseInv'
    BY <1>1, <2>1, <2>2 DEF LeaseInv, A!NoWork
  <2>5. SettingInv'
    BY <1>1, <2>1 DEF SettingInv, LeaseInv, A!Calm, A!NoWork
  <2> QED
    BY <2>3, <2>4, <2>5 DEF SleepInv
<1>3. CASE (A!Look /\ flag = "0") \/ A!Mark
  <2>1. PICK pc \in {"mark", "set"} : mgr' = [pc |-> pc, why |-> "acquire", conn |-> mgr.conn]
    BY <1>3 DEF A!Look, A!Mark, A!Theirs, A!Works
  <2>2. mgr'.pc = pc /\ mgr'.why = "acquire" /\ mgr'.conn = mgr.conn
    BY <2>1
  <2>3. conn' = conn /\ ((mark' = mark /\ flag = "0" /\ pc = "mark") \/ (mark' = TRUE /\ mgr.pc = "mark"))
    <3>1. CASE A!Look /\ flag = "0"
      <4>1. mgr' = [pc |-> "mark", why |-> "acquire", conn |-> mgr.conn] /\ conn' = conn /\ mark' = mark
        BY <3>1 DEF A!Look, A!Theirs, A!Works
      <4>2. mgr'.pc = "mark"
        BY <4>1
      <4> QED
        BY <2>2, <3>1, <4>1, <4>2
    <3>2. CASE A!Mark
      BY <3>2 DEF A!Mark
    <3> QED
      BY <1>3, <3>1, <3>2
  <2>4. SleepTypes'
    BY <1>1, <2>1, <2>3 DEF SleepTypes
  <2>5. LeaseInv'
    BY <1>1, <2>2, <2>3 DEF LeaseInv
  <2>6. SettingInv'
    BY <1>1, <2>2, <2>3 DEF SettingInv, LeaseInv, A!Calm
  <2> QED
    BY <2>4, <2>5, <2>6 DEF SleepInv
<1> QED
  BY <1>1, <1>2, <1>3

LEMMA SetKeeps == ASSUME SleepInv, A!Set PROVE SleepInv'
<1>1. /\ SleepTypes /\ LeaseInv /\ SettingInv /\ mgr.pc = "set" /\ mgr' = A!NoWork /\ mark
      /\ mgr.conn \in Conns /\ conn[mgr.conn] \in {"asked", "gone"} /\ holders = 0
      /\ UNCHANGED <<ctl, helper, retrying, crossed>>
  BY DEF SleepInv, A!Set, LeaseInv, SettingInv
<1>2. CASE flag' = "ours" /\ holders' = 1 /\ A!Sets(mgr.conn, A!Held(mgr.conn)) /\ UNCHANGED <<mark, slipped, aleft>>
  <2>1. A!Held(mgr.conn) \in {"held", "dropped"} /\ conn' = [conn EXCEPT ![mgr.conn] = A!Held(mgr.conn)]
    BY <1>2 DEF A!Held, A!Sets
  <2>2. Cardinality(HoldersOf(conn')) = Cardinality(HoldersOf(conn)) + 1
    BY <1>1, <2>1, OneMore
  <2>3. SleepTypes'
    BY <1>1, <1>2, <2>1 DEF SleepTypes, A!NoWork
  <2>4. LeaseInv'
    <3>1. helper = "up" /\ Cardinality(HoldersOf(conn)) = 0
      BY <1>1 DEF LeaseInv, SleepTypes
    <3>2. holders' = Cardinality(HoldersOf(conn')) /\ helper' = "up" /\ mgr'.pc = "rest"
      BY <1>1, <1>2, <2>2, <3>1 DEF A!NoWork
    <3> QED
      BY <3>2 DEF LeaseInv
  <2>5. SettingInv'
    BY <1>1, <1>2 DEF SettingInv, A!Calm, A!NoWork
  <2> QED
    BY <2>3, <2>4, <2>5 DEF SleepInv
<1>3. CASE A!Takes("faults") /\ flag' \in {flag, "ours"} /\ slipped' = (slipped \/ flag' # flag) /\ mark' = FALSE
           /\ A!Refuse(mgr.conn) /\ UNCHANGED holders
  <2>1. /\ conn' \in [Conns -> {"unused", "asked", "gone", "held", "dropped", "over"}]
        /\ HoldersOf(conn') = HoldersOf(conn)
    BY <1>1, <1>3, RefusedHolders
  <2>2. aleft' \in [AKinds -> Nat] /\ slipped' \in BOOLEAN /\ (slipped' <=> slipped \/ flag' # flag)
    BY <1>1, <1>3, Paid DEF AKinds, SleepTypes
  <2>3. SleepTypes'
    BY <1>1, <1>3, <2>1, <2>2 DEF SleepTypes, A!NoWork
  <2>4. LeaseInv'
    BY <1>1, <1>3, <2>1 DEF LeaseInv, A!NoWork
  <2>5. SettingInv'
    BY <1>1, <1>3, <2>2 DEF SettingInv, A!Calm, A!NoWork
  <2> QED
    BY <2>3, <2>4, <2>5 DEF SleepInv
<1> QED
  BY <1>2, <1>3 DEF A!Set

LEMMA RetryKeeps == ASSUME SleepInv, A!Retry PROVE SleepInv'
<1>1. /\ SleepTypes /\ LeaseInv /\ SettingInv /\ helper = "up" /\ mgr.pc = "rest" /\ retrying
      /\ UNCHANGED <<ctl, conn, helper, holders, mark, flag, slipped, crossed, aleft>>
  BY DEF SleepInv, A!Retry
<1>2. CASE (holders > 0 \/ ~mark) /\ retrying' = FALSE /\ UNCHANGED mgr
  BY <1>1, <1>2 DEF SleepInv, SleepTypes, LeaseInv, SettingInv, A!Calm
<1>3. CASE holders = 0 /\ mark /\ A!Works("restore", "retry", A!NoConn) /\ UNCHANGED retrying
  <2>1. mgr' = [pc |-> "restore", why |-> "retry", conn |-> A!NoConn]
    BY <1>3 DEF A!Works
  <2>2. mgr'.pc = "restore" /\ mgr'.why = "retry" /\ mgr'.conn = A!NoConn
    BY <2>1
  <2>3. SleepTypes'
    BY <1>1, <1>3, <2>1 DEF SleepTypes
  <2>4. LeaseInv'
    BY <1>1, <1>3, <2>2 DEF LeaseInv
  <2>5. SettingInv'
    BY <1>1, <1>3, <2>2 DEF SettingInv, A!Calm
  <2> QED
    BY <2>3, <2>4, <2>5 DEF SleepInv
<1>4. holders > 0 \/ ~mark \/ (holders = 0 /\ mark)
  BY <1>1 DEF SleepTypes
<1> QED
  BY <1>2, <1>3, <1>4 DEF A!Retry

LEMMA SleepHelperKeeps == ASSUME SleepInv, A!HelperDies \/ A!HelperStarts PROVE SleepInv'
<1>1. /\ SleepTypes /\ LeaseInv /\ SettingInv
  BY DEF SleepInv
<1>2. CASE A!HelperDies
  <2>1. /\ helper' = "down" /\ holders' = 0 /\ mgr' = A!NoWork /\ retrying' = FALSE
        /\ UNCHANGED <<ctl, mark, flag, slipped, crossed>>
    BY <1>2 DEF A!HelperDies
  <2>2. conn' \in [Conns -> {"unused", "over"}] /\ HoldersOf(conn') = {}
    BY <1>2 DEF A!HelperDies, HoldersOf
  <2>3. SleepTypes'
    <3>1. aleft' \in [AKinds -> Nat]
      BY <1>1, <1>2, Paid DEF A!HelperDies, AKinds
    <3> QED
      BY <1>1, <2>1, <2>2, <3>1 DEF SleepTypes, A!NoWork
  <2>4. LeaseInv'
    BY <1>1, <2>1, <2>2, FS_EmptySet DEF LeaseInv, A!NoWork
  <2>5. SettingInv'
    BY <1>1, <2>1 DEF SettingInv, A!NoWork, A!Calm
  <2> QED
    BY <2>3, <2>4, <2>5 DEF SleepInv
<1>3. CASE A!HelperStarts
  <2>1. helper = "down" /\ holders = 0 /\ mgr.pc = "rest" /\ UNCHANGED <<ctl, conn, holders, mark, flag, retrying, slipped, crossed, aleft>>
    BY <1>1, <1>3 DEF A!HelperStarts, LeaseInv
  <2>2. CASE mark /\ helper' = "starting" /\ A!Works("restore", "reconcile", A!NoConn)
    <3>1. mgr' = [pc |-> "restore", why |-> "reconcile", conn |-> A!NoConn]
      BY <2>2 DEF A!Works
    <3>2. mgr'.pc = "restore" /\ mgr'.why = "reconcile" /\ mgr'.conn = A!NoConn
      BY <3>1
    <3>3. SleepTypes'
      BY <1>1, <2>1, <2>2, <3>1 DEF SleepTypes
    <3>4. LeaseInv'
      BY <1>1, <2>1, <2>2, <3>2 DEF LeaseInv
    <3>5. SettingInv'
      BY <1>1, <2>1, <2>2, <3>2 DEF SettingInv, A!Calm
    <3> QED
      BY <3>3, <3>4, <3>5 DEF SleepInv
  <2>3. CASE ~mark /\ helper' = "up" /\ UNCHANGED mgr
    <3>1. SleepTypes'
      BY <1>1, <2>1, <2>3 DEF SleepTypes
    <3>2. LeaseInv'
      BY <1>1, <2>1, <2>3 DEF LeaseInv
    <3>3. SettingInv'
      BY <1>1, <2>1, <2>3 DEF SettingInv, A!Calm
    <3> QED
      BY <3>1, <3>2, <3>3 DEF SleepInv
  <2> QED
    BY <1>3, <2>2, <2>3 DEF A!HelperStarts
<1> QED
  BY <1>2, <1>3

LEMMA UserKeeps == ASSUME SleepInv, A!User PROVE SleepInv'
<1>1. /\ SleepTypes /\ LeaseInv /\ SettingInv
      /\ UNCHANGED <<ctl, conn, helper, holders, mgr, mark, retrying, slipped>>
      /\ flag' = (IF flag = "0" THEN "theirs" ELSE "0")
  BY DEF SleepInv, A!User
<1>2. crossed' \in BOOLEAN /\ (crossed' <=> crossed \/ mark \/ mgr.pc # "rest")
  BY <1>1 DEF A!User, SleepTypes
<1>3. SleepTypes'
  BY <1>1, <1>2, Paid DEF A!User, SleepTypes, AKinds
<1>4. LeaseInv'
  BY <1>1 DEF LeaseInv
<1>5. SettingInv'
  BY <1>1, <1>2 DEF SettingInv, LeaseInv, A!Calm, SleepTypes
<1> QED
  BY <1>3, <1>4, <1>5 DEF SleepInv

LEMMA SleepKept == SleepInv /\ [A!SleepNext]_(A!avars) => SleepInv'
<1> SUFFICES ASSUME SleepInv, [A!SleepNext]_(A!avars) PROVE SleepInv'
  OBVIOUS
<1>1. CASE UNCHANGED A!avars
  BY <1>1 DEF A!avars, SleepInv, SleepTypes, LeaseInv, SettingInv, A!Calm
<1> QED
  BY <1>1, ServiceKeeps, AcquireKeeps, SleepReleaseKeeps, RestoreKeeps, UnmarkKeeps, LookKeeps, SetKeeps, RetryKeeps,
     SleepHelperKeeps, UserKeeps DEF A!SleepNext

\* Only the manager and the user run pmset, and the manager takes back what is marked.
LEMMA TheirsKept == SleepInv /\ [A!SleepNext]_(A!avars) => (flag = "theirs" /\ flag' # "theirs" => aleft'.user < aleft.user \/ crossed)
<1> SUFFICES ASSUME SleepInv, [A!SleepNext]_(A!avars), flag = "theirs", flag' # "theirs"
             PROVE  aleft'.user < aleft.user \/ crossed
  OBVIOUS
<1>1. SleepTypes /\ SettingInv
  BY DEF SleepInv
<1>2. A!Restore \/ A!Set \/ A!User
  BY DEF A!SleepNext, A!avars, A!Enable, A!Enabled, A!GivesUp, A!Disable, A!Observe, A!Unmark, A!Look, A!Mark, A!Retry, A!HelperDies, A!HelperStarts,
     A!Acquire, A!Release
<1>3. CASE A!User
  BY <1>1, <1>3, Paid DEF A!User, AKinds
<1>4. CASE A!Restore \/ A!Set
  BY <1>1, <1>4 DEF A!Restore, A!Set, SettingInv
<1> QED
  BY <1>2, <1>3, <1>4

----------------------------------------------------------------------------
(* The prepared engine.                                                   *)
LEMMA PAssumption == 0 \notin Pids /\ PBudget \in [PKinds -> Nat]
BY ControlAssumption DEF PKinds
Engine == [serial : Nat \ {0}, graph : Graphs]
Record == [pid : Pids \cup {0}, serial : Nat, boot : Nat, graph : Graphs \cup {"none"}]
Request == [pc : {"rest", "look", "intent", "fork", "identify", "wait", "use"},
            graph : Graphs \cup {"none"}, pid : Pids \cup {0}]

EngineTypes ==
  /\ record \in Record /\ (record.pid # 0 => record.serial # 0)
  /\ procs \in [Pids -> {P!Free, P!Stranger} \cup Engine]
  /\ boot \in Nat \ {0} /\ pleft \in [PKinds -> Nat]
  /\ gw \in {"none", "starting", "running", "interrupted"} /\ service \in {"up", "down"}
  /\ asking \in Request /\ (asking.pc # "rest" => asking.graph \in Graphs)
  /\ holds \in [Clients -> {"unused", "held", "leaving", "retrying", "pending", "over"}]

\* Whatever engine runs is the one on record, or its intent is.
EngineKnown ==
  \A p \in P!Engines : /\ P!Ours /\ \A q \in P!Engines : q = p
                       /\ record.pid # 0 => /\ record.pid = p /\ record.serial = procs[p].serial
                                            /\ record.graph = procs[p].graph

\* How far the request has come; none is under way beside a gateway.
RequestInv ==
  /\ asking.pc # "rest" => gw = "none" /\ service = "up" /\ \E c \in Clients : holds[c] \in {"held", "leaving"}
  /\ gw = "running" => P!Engines = {}
  /\ asking.pc = "intent" => record = P!NoRecord
  /\ asking.pc \in {"fork", "identify"} => record = P!Intent
  /\ asking.pc = "fork" => P!Engines = {}
  /\ asking.pc = "identify" => /\ asking.pid \in Pids /\ procs[asking.pid] # P!Stranger /\ P!Engines \subseteq {asking.pid}
                               /\ procs[asking.pid] # P!Free => procs[asking.pid].graph = asking.graph
  /\ asking.pc \in {"wait", "use"} => /\ record.pid \in Pids /\ record.pid = asking.pid /\ record.boot = boot
                                      /\ record.graph = asking.graph

EngineInv == EngineTypes /\ EngineKnown /\ RequestInv /\ P!EngineHasHolder

LEMMA EngineStart == P!PreparedInit => EngineInv
<1> SUFFICES ASSUME P!PreparedInit PROVE EngineInv
  OBVIOUS
<1>1. EngineTypes
  BY PAssumption DEF P!PreparedInit, EngineTypes, Record, P!NoRecord, Request, P!Idle, PKinds
<1>2. P!Engines = {}
  BY DEF P!PreparedInit, P!Engines
<1> QED
  BY <1>1, <1>2 DEF P!PreparedInit, EngineInv, EngineKnown, RequestInv, P!EngineHasHolder, P!Idle

\* An engine is told from a free PID and from a stranger.
LEMMA EngineIsNoStranger ==
  ASSUME EngineTypes
  PROVE  /\ \A p \in Pids : p \in P!Engines <=> procs[p] \in Engine
         /\ \A p \in Pids : procs[p] \in Engine <=> procs[p].serial > 0
         /\ \A p \in Pids : procs[p].serial \in Int
         /\ P!Free \notin Engine /\ P!Stranger \notin Engine /\ P!Free # P!Stranger /\ P!Engines \subseteq Pids
<1>1. P!Free \notin Engine /\ P!Stranger \notin Engine
  <2>1. \A e \in Engine : e.serial > 0
    BY DEF Engine
  <2> QED
    BY <2>1 DEF P!Free, P!Stranger
<1>2. P!Free # P!Stranger
  <2>1. P!Free.serial # P!Stranger.serial
    BY DEF P!Free, P!Stranger
  <2> QED
    BY <2>1
<1>3. \A p \in Pids : procs[p] \in {P!Free, P!Stranger} \cup Engine
  BY DEF EngineTypes
<1>4. \A p \in Pids : procs[p] \in Engine <=> procs[p].serial > 0
  <2> SUFFICES ASSUME NEW p \in Pids PROVE procs[p] \in Engine <=> procs[p].serial > 0
    OBVIOUS
  <2>1. CASE procs[p] \in Engine
    BY <2>1 DEF Engine
  <2>2. CASE procs[p] \in {P!Free, P!Stranger}
    BY <1>1, <2>2 DEF P!Free, P!Stranger
  <2> QED
    BY <1>3, <2>1, <2>2
<1>5. \A p \in Pids : procs[p].serial \in Int
  BY <1>3 DEF P!Free, P!Stranger, Engine
<1> QED
  BY <1>1, <1>2, <1>3, <1>4, <1>5 DEF P!Engines

\* Who matches the record is the recorded engine; a stop that says it has worked leaves
\* neither engine nor record, and none signals a stranger.
LEMMA StopKeeps ==
  ASSUME EngineTypes, EngineKnown, NEW ok \in BOOLEAN, P!Stop(ok), UNCHANGED boot
  PROVE  /\ record' \in {record, P!NoRecord} /\ pleft' \in [PKinds -> Nat]
         /\ procs' \in [Pids -> {P!Free, P!Stranger} \cup Engine]
         /\ \A p \in Pids : procs'[p] = procs[p] \/ (procs[p] \in Engine /\ procs'[p] = P!Free)
         /\ EngineKnown' /\ P!Engines' \subseteq P!Engines
         /\ ok => record' = P!NoRecord /\ P!Engines' = {}
<1>1. P!Ours /\ ~P!Incomplete /\ P!Alive => record.pid \in Pids /\ procs[record.pid] \in Engine
  BY EngineIsNoStranger DEF P!Incomplete, P!Alive, EngineTypes, Record
<1>2. P!Engines # {} => P!Ours /\ (P!Incomplete \/ P!Alive)
  BY EngineIsNoStranger DEF EngineKnown, P!Alive, P!Incomplete, P!Ours
<1>3. pleft' \in [PKinds -> Nat]
  BY DEF P!Stop, P!Uses, EngineTypes, PKinds
<1>4. \A p \in Pids : (procs'[p] = procs[p] \/ (procs[p] \in Engine /\ procs'[p] = P!Free))
  BY <1>1 DEF P!Stop, P!Kills, EngineTypes
<1>5. procs' \in [Pids -> {P!Free, P!Stranger} \cup Engine]
  BY DEF P!Stop, P!Kills, EngineTypes
<1>6. P!Engines' \subseteq P!Engines
  BY <1>4 DEF P!Engines
<1>7. \A p \in P!Engines' : procs'[p] = procs[p]
  BY <1>4 DEF P!Engines
<1>8. record' \in {record, P!NoRecord}
  BY DEF P!Stop
<1>9. P!Ours /\ ~P!Incomplete /\ P!Alive /\ P!Kills => P!Engines' = {}
  <2> SUFFICES ASSUME P!Ours, ~P!Incomplete, P!Alive, P!Kills, NEW p \in P!Engines' PROVE FALSE
    OBVIOUS
  <2>1. p = record.pid /\ p \in Pids
    BY <1>6, EngineIsNoStranger DEF EngineKnown, P!Incomplete
  <2> QED
    BY <2>1 DEF P!Kills, P!Engines, EngineTypes
<1>10. ok => record' = P!NoRecord /\ P!Engines' = {}
  BY <1>2, <1>6, <1>9 DEF P!Stop, P!Ours
<1>11. EngineKnown'
  <2>1. CASE record' = P!NoRecord
    <3>1. P!Engines' = {}
      BY <1>2, <1>6, <1>9, <2>1 DEF P!Stop, P!Ours
    <3> QED
      BY <3>1 DEF EngineKnown
  <2>2. CASE record' = record
    BY <1>6, <1>7, <2>2 DEF EngineKnown, P!Ours
  <2> QED
    BY <1>8, <2>1, <2>2
<1> QED
  BY <1>3, <1>4, <1>5, <1>6, <1>8, <1>10, <1>11
\* With no engine and the request at rest nothing is left to be said of them.
LEMMA NoEngines ==
  ASSUME EngineTypes', P!Engines' = {}, asking'.pc = "rest"
  PROVE  EngineInv'
BY DEF EngineInv, EngineKnown, RequestInv, P!EngineHasHolder

\* Holders are counted.
LEMMA SomebodyElse ==
  ASSUME NEW c \in Clients, ~P!LastToLeave(c), holds[c] \in {"leaving", "retrying"}
  PROVE  \E d \in Clients \ {c} : holds[d] \in {"held", "leaving"}
<1> SUFFICES ASSUME \A d \in Clients \ {c} : holds[d] \notin {"held", "leaving"} PROVE FALSE
  OBVIOUS
<1>1. CASE holds[c] = "leaving"
  <2>1. {d \in Clients : holds[d] \in {"held", "leaving"}} = {c}
    BY <1>1
  <2> QED
    BY <1>1, <2>1, FS_Singleton, SameCount DEF P!LastToLeave, P!Holders
<1>2. CASE holds[c] = "retrying"
  <2>1. {d \in Clients : holds[d] \in {"held", "leaving"}} = {}
    BY <1>2
  <2> QED
    BY <1>2, <2>1, FS_EmptySet, SameCount DEF P!LastToLeave, P!Holders
<1> QED
  BY <1>1, <1>2

LEMMA HeldBySomebody == P!Leased => \E c \in Clients : holds[c] \in {"held", "leaving"}
<1> SUFFICES ASSUME P!Leased, \A c \in Clients : holds[c] \notin {"held", "leaving"} PROVE FALSE
  OBVIOUS
<1>1. {d \in Clients : holds[d] \in {"held", "leaving"}} = {}
  OBVIOUS
<1> QED
  BY <1>1, FS_EmptySet, SameCount DEF P!Leased, P!Holders

----------------------------------------------------------------------------
(* The request.                                                            *)

LEMMA AskKeeps == ASSUME EngineInv, P!Ask PROVE EngineInv'
<1>1. PICK g \in Graphs : asking' = [pc |-> "look", graph |-> g, pid |-> 0]
  BY DEF P!Ask
<1>2. UNCHANGED <<record, procs, boot, gw, holds, service, pleft>> /\ gw = "none" /\ service = "up"
  BY DEF P!Ask
<1>3. EngineTypes'
  BY <1>1, <1>2 DEF EngineInv, EngineTypes, Request
<1>4. \E c \in Clients : holds[c] \in {"held", "leaving"}
  BY HeldBySomebody DEF P!Ask
<1> QED
  BY <1>1, <1>2, <1>3, <1>4 DEF EngineInv, EngineKnown, RequestInv, P!EngineHasHolder, P!Engines, P!Ours

LEMMA ReuseKeeps == ASSUME EngineInv, P!Reuse PROVE EngineInv'
<1>1. /\ asking.pc = "look" /\ P!Ours /\ P!SameGraph /\ asking \in Request
      /\ UNCHANGED <<record, procs, boot, gw, holds, service>>
  BY DEF P!Reuse, EngineInv, EngineTypes
<1>2. pleft' \in [PKinds -> Nat]
  BY DEF P!Reuse, P!Uses, PKinds, EngineInv, EngineTypes
<1>3. CASE ~P!Incomplete /\ asking' = [asking EXCEPT !.pc = "use", !.pid = record.pid]
  <2>1. record.pid \in Pids /\ record.pid # 0
    BY <1>3 DEF P!Incomplete, EngineInv, EngineTypes, Record
  <2>2. EngineTypes'
    BY <1>1, <1>2, <1>3, <2>1 DEF EngineInv, EngineTypes, Request
  <2>3. asking'.pc = "use" /\ asking'.pid = record.pid /\ asking'.graph = asking.graph
    BY <1>1, <1>3 DEF Request
  <2> QED
    BY <1>1, <2>1, <2>2, <2>3 DEF EngineInv, EngineKnown, RequestInv, P!EngineHasHolder, P!Engines, P!Ours, P!SameGraph
<1>4. CASE asking' = P!Idle
  <2>1. EngineTypes'
    BY <1>1, <1>2, <1>4 DEF EngineInv, EngineTypes, Request, P!Idle
  <2> QED
    BY <1>1, <1>4, <2>1 DEF EngineInv, EngineKnown, RequestInv, P!EngineHasHolder, P!Engines, P!Ours, P!Idle
<1> QED
  BY <1>3, <1>4 DEF P!Reuse

LEMMA ReplaceKeeps == ASSUME EngineInv, P!Replace PROVE EngineInv'
<1>0. /\ EngineTypes /\ EngineKnown /\ asking.pc = "look" /\ asking \in Request
      /\ UNCHANGED <<boot, gw, holds, service>>
  BY DEF P!Replace, EngineInv, EngineTypes
<1>1. CASE P!Stop(TRUE) /\ P!Goes("intent")
  <2>1. record' = P!NoRecord /\ P!Engines' = {} /\ EngineKnown'
    BY <1>0, <1>1, StopKeeps
  <2>2. pleft' \in [PKinds -> Nat] /\ procs' \in [Pids -> {P!Free, P!Stranger} \cup Engine]
    BY <1>0, <1>1, StopKeeps
  <2>3. asking' \in Request /\ asking'.pc = "intent" /\ asking'.graph = asking.graph
    BY <1>0, <1>1 DEF P!Goes, Request
  <2>4. EngineTypes'
    BY <1>0, <2>1, <2>2, <2>3 DEF EngineTypes, P!NoRecord, Record
  <2> QED
    BY <1>0, <2>1, <2>3, <2>4 DEF EngineInv, RequestInv, P!EngineHasHolder
<1>2. CASE P!Stop(FALSE) /\ asking' = P!Idle
  <2>1. record' \in {record, P!NoRecord} /\ P!Engines' \subseteq P!Engines /\ EngineKnown'
    BY <1>0, <1>2, StopKeeps
  <2>2. pleft' \in [PKinds -> Nat] /\ procs' \in [Pids -> {P!Free, P!Stranger} \cup Engine]
    BY <1>0, <1>2, StopKeeps
  <2>3. EngineTypes'
    BY <1>0, <1>2, <2>1, <2>2 DEF EngineTypes, P!NoRecord, Record, P!Idle, Request
  <2> QED
    BY <1>0, <1>2, <2>1, <2>3 DEF EngineInv, RequestInv, P!EngineHasHolder, P!Idle
<1> QED
  BY <1>1, <1>2 DEF P!Replace

LEMMA SaveIntentKeeps == ASSUME EngineInv, P!SaveIntent PROVE EngineInv'
<1>1. /\ asking.pc = "intent" /\ record = P!NoRecord /\ asking \in Request /\ asking.graph \in Graphs
      /\ UNCHANGED <<procs, boot, gw, holds, service, pleft>> /\ record' = P!Intent
  BY DEF P!SaveIntent, EngineInv, EngineTypes, RequestInv
<1>2. P!Engines' = {} /\ P!Engines = {}
  BY <1>1 DEF EngineInv, EngineKnown, P!Engines, P!Ours
<1>3. asking' \in Request /\ asking'.pc = "fork" /\ asking'.graph = asking.graph
  BY <1>1 DEF P!SaveIntent, P!Goes, Request
<1>4. EngineTypes'
  BY <1>1, <1>3 DEF EngineInv, EngineTypes, P!Intent, Record
<1>5. record' = P!Intent'
  BY <1>1, <1>3 DEF P!Intent
<1> QED
  BY <1>1, <1>2, <1>3, <1>4, <1>5 DEF EngineInv, EngineKnown, RequestInv, P!EngineHasHolder
LEMMA ForkKeeps == ASSUME EngineInv, P!Fork PROVE EngineInv'
<1>1. /\ asking.pc = "fork" /\ record = P!Intent /\ asking \in Request /\ asking.graph \in Graphs /\ P!Engines = {}
      /\ gw = "none" /\ service = "up" /\ UNCHANGED <<boot, gw, holds, service>> /\ EngineTypes
  BY DEF P!Fork, EngineInv, EngineTypes, RequestInv
<1>2. \A c \in Clients : holds'[c] = holds[c]
  BY <1>1
<1>3. CASE P!Uses("faults") /\ record' = P!NoRecord /\ asking' = P!Idle /\ UNCHANGED procs
  <2>1. EngineTypes'
    BY <1>1, <1>3 DEF EngineTypes, P!Uses, PKinds, P!NoRecord, Record, P!Idle, Request
  <2>2. P!Engines' = {}
    BY <1>1, <1>3 DEF P!Engines
  <2> QED
    BY <1>3, <2>1, <2>2, NoEngines DEF P!Idle
<1>4. ASSUME NEW p \in Pids, procs[p] = P!Free, P!Uses("forks"),
             procs' = [procs EXCEPT ![p] = [serial |-> pleft.forks, graph |-> asking.graph]],
             asking' = [asking EXCEPT !.pc = "identify", !.pid = p], UNCHANGED record
      PROVE  EngineInv'
  <2>1. pleft' \in [PKinds -> Nat] /\ pleft.forks \in Nat \ {0}
    BY <1>1, <1>4 DEF EngineTypes, P!Uses, PKinds
  <2>2. [serial |-> pleft.forks, graph |-> asking.graph] \in Engine
    BY <1>1, <2>1 DEF Engine
  <2>3. asking' \in Request /\ asking'.pc = "identify" /\ asking'.graph = asking.graph /\ asking'.pid = p
    BY <1>1, <1>4 DEF Request
  <2>4. EngineTypes'
    BY <1>1, <1>4, <2>1, <2>2, <2>3 DEF EngineTypes
  <2>5. P!Engines' \subseteq {p} /\ procs'[p].graph = asking.graph /\ procs'[p] \in Engine
    BY <1>1, <1>4, <2>2 DEF P!Engines, EngineTypes
  <2>6. P!Intent' = P!Intent /\ P!Intent.pid = 0 /\ P!Intent.boot = boot /\ P!Intent # P!NoRecord
    <3>1. P!Intent.boot # P!NoRecord.boot
      BY <1>1 DEF P!Intent, P!NoRecord, EngineTypes
    <3> QED
      BY <1>1, <2>3, <3>1 DEF P!Intent
  <2>7. EngineKnown'
    BY <1>1, <1>4, <2>5, <2>6 DEF EngineKnown, P!Ours
  <2>8. procs'[p] # P!Stranger
    BY <1>1, <2>5, EngineIsNoStranger
  <2>9. P!EngineHasHolder'
    BY <1>1 DEF P!EngineHasHolder, EngineInv, RequestInv
  <2> QED
    BY <1>1, <1>4, <2>3, <2>4, <2>5, <2>6, <2>7, <2>8, <2>9 DEF EngineInv, RequestInv
<1> QED
  BY <1>1, <1>3, <1>4 DEF P!Fork

LEMMA IdentifyKeeps == ASSUME EngineInv, P!Identify PROVE EngineInv'
<1>1. /\ asking.pc = "identify" /\ record = P!Intent /\ asking \in Request /\ asking.graph \in Graphs
      /\ asking.pid \in Pids /\ procs[asking.pid] # P!Stranger /\ P!Engines \subseteq {asking.pid} /\ asking.pid # 0
      /\ procs[asking.pid] # P!Free => procs[asking.pid].graph = asking.graph
      /\ gw = "none" /\ service = "up" /\ UNCHANGED <<boot, gw, holds, service>> /\ EngineTypes
  BY PAssumption DEF P!Identify, EngineInv, EngineTypes, RequestInv
<1>2. P!Intent.pid = 0 /\ P!Intent.boot = boot /\ P!Intent.graph = asking.graph /\ P!Intent # P!NoRecord
  <2>1. P!Intent.boot # P!NoRecord.boot
    BY <1>1 DEF P!Intent, P!NoRecord, EngineTypes
  <2> QED
    BY <2>1 DEF P!Intent
<1>3. P!EngineHasHolder'
  BY <1>1 DEF P!EngineHasHolder, EngineInv, RequestInv
<1>4. CASE /\ procs[asking.pid] # P!Free
           /\ record' = [P!Intent EXCEPT !.pid = asking.pid, !.serial = procs[asking.pid].serial]
           /\ P!Goes("wait") /\ UNCHANGED <<procs, pleft>>
  <2>1. procs[asking.pid].serial \in Nat \ {0}
    BY <1>1, <1>4 DEF EngineTypes, Engine
  <2>2. /\ record'.pid = asking.pid /\ record'.serial = procs[asking.pid].serial /\ record'.boot = boot
        /\ record'.graph = asking.graph /\ record' \in Record
    BY <1>1, <1>4, <2>1 DEF P!Intent, Record, EngineTypes
  <2>3. asking' \in Request /\ asking'.pc = "wait" /\ asking'.graph = asking.graph /\ asking'.pid = asking.pid
    BY <1>1, <1>4 DEF P!Goes, Request
  <2>4. EngineTypes'
    BY <1>1, <1>4, <2>1, <2>2, <2>3 DEF EngineTypes
  <2>5. record' # P!NoRecord
    BY <1>1, <2>2 DEF P!NoRecord
  <2>6. EngineKnown'
    BY <1>1, <1>4, <2>2, <2>5 DEF EngineKnown, P!Ours, P!Engines
  <2> QED
    BY <1>1, <1>3, <2>2, <2>3, <2>4, <2>6 DEF EngineInv, RequestInv
<1>5. CASE /\ pleft' = (IF procs[asking.pid] = P!Free THEN pleft ELSE [pleft EXCEPT !.faults = @ - 1])
           /\ procs[asking.pid] = P!Free \/ pleft.faults > 0
           /\ asking' = P!Idle
           /\ \/ procs' = [procs EXCEPT ![asking.pid] = P!Free] /\ record' = P!NoRecord
              \/ UNCHANGED <<procs, record>>
  <2>1. pleft' \in [PKinds -> Nat]
    BY <1>1, <1>5 DEF EngineTypes, PKinds
  <2>2. CASE procs' = [procs EXCEPT ![asking.pid] = P!Free] /\ record' = P!NoRecord
    <3>1. EngineTypes'
      BY <1>1, <1>5, <2>1, <2>2 DEF EngineTypes, P!NoRecord, Record, P!Idle, Request
    <3>2. P!Engines' = {}
      BY <1>1, <2>2 DEF P!Engines, EngineTypes
    <3> QED
      BY <1>5, <3>1, <3>2, NoEngines DEF P!Idle
  <2>3. CASE UNCHANGED <<procs, record>>
    <3>1. EngineTypes'
      BY <1>1, <1>5, <2>1, <2>3 DEF EngineTypes, P!Idle, Request
    <3>2. EngineKnown'
      BY <1>1, <2>3 DEF EngineInv, EngineKnown, P!Ours, P!Engines
    <3> QED
      BY <1>1, <1>3, <1>5, <3>1, <3>2 DEF EngineInv, RequestInv, P!Idle
  <2> QED
    BY <2>2, <2>3, <1>5
<1> QED
  BY <1>4, <1>5 DEF P!Identify

\* A request that has an answer, or none.
LEMMA ReadyKeeps == ASSUME EngineInv, P!Ready \/ P!Answered PROVE EngineInv'
<1>1. UNCHANGED <<record, procs, boot, gw, holds, service, pleft>> /\ asking \in Request
  BY DEF P!Ready, P!Answered, EngineInv, EngineTypes
<1>2. CASE P!Ready
  <2>1. asking.pc = "wait" /\ asking' \in Request /\ asking'.pc = "use" /\ asking'.graph = asking.graph /\ asking'.pid = asking.pid
    BY <1>1, <1>2 DEF P!Ready, P!Goes, Request
  <2>2. EngineTypes'
    BY <1>1, <2>1 DEF EngineInv, EngineTypes
  <2> QED
    BY <1>1, <2>1, <2>2 DEF EngineInv, EngineKnown, RequestInv, P!EngineHasHolder, P!Engines, P!Ours
<1>3. CASE P!Answered
  <2>1. EngineTypes'
    BY <1>1, <1>3 DEF EngineInv, EngineTypes, P!Answered, P!Idle, Request
  <2> QED
    BY <1>1, <1>3, <2>1 DEF EngineInv, EngineKnown, RequestInv, P!EngineHasHolder, P!Engines, P!Ours, P!Answered, P!Idle
<1> QED
  BY <1>2, <1>3

\* Every other stop finds the request at rest or ends it.
LEMMA StopEnds ==
  ASSUME EngineInv, NEW ok \in BOOLEAN, P!Stop(ok), UNCHANGED boot, asking' = P!Idle, service' = service,
         gw' \in {"none", gw} \/ (ok /\ gw' = "running"), UNCHANGED holds \/ (ok /\ holds' \in [Clients ->
           {"unused", "held", "leaving", "retrying", "pending", "over"}])
  PROVE  EngineInv'
<1>0. EngineTypes /\ EngineKnown
  BY DEF EngineInv
<1>1. /\ record' \in {record, P!NoRecord} /\ P!Engines' \subseteq P!Engines /\ EngineKnown'
      /\ ok => P!Engines' = {}
  BY <1>0, StopKeeps
<1>2. pleft' \in [PKinds -> Nat] /\ procs' \in [Pids -> {P!Free, P!Stranger} \cup Engine]
  BY <1>0, StopKeeps
<1>3. EngineTypes'
  BY <1>0, <1>1, <1>2 DEF EngineTypes, P!NoRecord, Record, P!Idle, Request
<1> QED
  BY <1>1, <1>3 DEF EngineInv, RequestInv, P!EngineHasHolder, P!Idle

LEMMA NotReadyKeeps == ASSUME EngineInv, P!NotReady PROVE EngineInv'
<1>1. PICK ok \in BOOLEAN : P!Stop(ok)
  BY DEF P!NotReady
<1> QED
  BY <1>1, StopEnds DEF P!NotReady

----------------------------------------------------------------------------
(* The leases, the gateway and the machine.                                *)

LEMMA HoldKeeps == ASSUME EngineInv, NEW c \in Clients, P!Hold(c) \/ P!Disconnects(c) PROVE EngineInv'
<1>1. UNCHANGED <<record, procs, boot, gw, asking, service, pleft>>
  BY DEF P!Hold, P!Disconnects
<1>2. PICK s \in {"held", "leaving"} : holds' = [holds EXCEPT ![c] = s]
  BY DEF P!Hold, P!Disconnects, P!Turns
<1>3. EngineTypes /\ EngineTypes'
  BY <1>1, <1>2 DEF EngineInv, EngineTypes
<1>4. holds'[c] \in {"held", "leaving"}
  BY <1>2, <1>3 DEF EngineTypes
<1>5. P!EngineHasHolder' /\ \E d \in Clients : holds'[d] \in {"held", "leaving"}
  BY <1>4 DEF P!EngineHasHolder
<1>6. EngineKnown' /\ RequestInv'
  BY <1>1, <1>5 DEF EngineInv, EngineKnown, RequestInv, P!Engines, P!Ours, P!Intent
<1> QED
  BY <1>3, <1>5, <1>6 DEF EngineInv

LEMMA EngineReleaseKeeps == ASSUME EngineInv, NEW c \in Clients, P!Release(c) PROVE EngineInv'
<1>1. /\ asking.pc = "rest" /\ service = "up" /\ holds[c] \in {"leaving", "retrying"} /\ EngineTypes
      /\ UNCHANGED <<boot, gw, asking, service>>
  BY DEF P!Release, EngineInv
<1>2. PICK s \in {"over", "retrying", "pending"} : holds' = [holds EXCEPT ![c] = s]
  BY DEF P!Release, P!Turns
<1>3. holds' \in [Clients -> {"unused", "held", "leaving", "retrying", "pending", "over"}] /\ holds'[c] = s
  BY <1>1, <1>2 DEF EngineTypes
<1>4. CASE ~P!LastToLeave(c) /\ UNCHANGED <<record, procs, pleft>>
  <2>1. PICK d \in Clients \ {c} : holds[d] \in {"held", "leaving"}
    BY <1>1, <1>4, SomebodyElse
  <2>2. holds'[d] \in {"held", "leaving"}
    BY <1>1, <1>2, <2>1 DEF EngineTypes
  <2>3. EngineTypes'
    BY <1>1, <1>3, <1>4 DEF EngineTypes
  <2> QED
    BY <1>1, <1>4, <2>2, <2>3 DEF EngineInv, EngineKnown, RequestInv, P!EngineHasHolder, P!Engines, P!Ours
<1>5. CASE \E ok \in BOOLEAN : P!Stop(ok) /\ (~ok => s # "over")
  <2>0. PICK ok \in BOOLEAN : P!Stop(ok) /\ (~ok => s # "over")
    BY <1>5
  <2>1. /\ record' \in {record, P!NoRecord} /\ P!Engines' \subseteq P!Engines /\ EngineKnown'
        /\ ok => P!Engines' = {}
    BY <1>1, <2>0, StopKeeps DEF EngineInv
  <2>2. pleft' \in [PKinds -> Nat] /\ procs' \in [Pids -> {P!Free, P!Stranger} \cup Engine]
    BY <1>1, <2>0, StopKeeps DEF EngineInv
  <2>3. EngineTypes'
    BY <1>1, <1>3, <2>1, <2>2 DEF EngineTypes, P!NoRecord, Record
  <2>4. P!EngineHasHolder'
    BY <1>3, <2>0, <2>1 DEF P!EngineHasHolder
  <2> QED
    BY <1>1, <2>1, <2>3, <2>4 DEF EngineInv, RequestInv
<1>6. CASE s # "over" /\ UNCHANGED <<record, procs>> /\ pleft' \in [PKinds -> Nat]
  <2>1. EngineTypes'
    BY <1>1, <1>3, <1>6 DEF EngineTypes
  <2> QED
    BY <1>1, <1>3, <1>6, <2>1 DEF EngineInv, EngineKnown, RequestInv, P!EngineHasHolder, P!Engines, P!Ours
<1>7. \/ ~P!LastToLeave(c) /\ P!Turns(c, "over") /\ UNCHANGED <<record, procs, pleft>>
      \/ P!LastToLeave(c) /\ P!Unlocked /\ P!Stop(TRUE) /\ P!Turns(c, "over")
      \/ P!LastToLeave(c) /\ P!Unlocked /\ P!Stop(FALSE) /\ P!Turns(c, "retrying")
      \/ P!LastToLeave(c) /\ ~P!Unlocked /\ P!Turns(c, "retrying") /\ UNCHANGED <<record, procs, pleft>>
      \/ P!LastToLeave(c) /\ holds[c] = "retrying" /\ P!Uses("faults") /\ P!Turns(c, "pending") /\ UNCHANGED <<record, procs>>
  BY DEF P!Release
<1>8. holds'[c] = s /\ \A t : P!Turns(c, t) => holds'[c] = t
  BY <1>1, <1>3 DEF P!Turns, EngineTypes
<1>9. P!Uses("faults") => pleft' \in [PKinds -> Nat]
  BY <1>1 DEF P!Uses, PKinds, EngineTypes
<1>10. P!Turns(c, "retrying") \/ P!Turns(c, "pending") => s # "over"
  BY <1>8
<1> QED
  BY <1>1, <1>4, <1>5, <1>6, <1>7, <1>9, <1>10 DEF EngineTypes
LEMMA EngineHelperKeeps == ASSUME EngineInv, P!HelperStarts \/ P!HelperDies PROVE EngineInv'
<1>1. UNCHANGED <<boot, gw>> /\ EngineTypes
  BY DEF P!HelperStarts, P!HelperDies, EngineInv
<1>2. CASE P!HelperStarts
  <2>1. service = "down" /\ asking.pc = "rest" /\ UNCHANGED <<asking, holds>>
    BY <1>2 DEF P!HelperStarts, P!Unlocked
  <2>2. PICK ok \in BOOLEAN : P!Stop(ok) /\ service' = IF ok THEN "up" ELSE "down"
    BY <1>2, <2>1 DEF P!HelperStarts
  <2>3. /\ record' \in {record, P!NoRecord} /\ P!Engines' \subseteq P!Engines /\ EngineKnown'
        /\ ok => P!Engines' = {}
    BY <1>1, <2>2, StopKeeps DEF EngineInv
  <2>4. pleft' \in [PKinds -> Nat] /\ procs' \in [Pids -> {P!Free, P!Stranger} \cup Engine]
    BY <1>1, <2>2, StopKeeps DEF EngineInv
  <2>5. EngineTypes'
    BY <1>1, <2>1, <2>2, <2>3, <2>4 DEF EngineTypes, P!NoRecord, Record
  <2>6. P!EngineHasHolder'
    BY <2>2, <2>3 DEF P!EngineHasHolder
  <2> QED
    BY <1>1, <2>1, <2>3, <2>5, <2>6 DEF EngineInv, RequestInv
<1>3. CASE P!HelperDies
  <2>1. EngineTypes'
    BY <1>1, <1>3 DEF P!HelperDies, EngineTypes, P!Uses, PKinds, P!Idle, Request
  <2> QED
    BY <1>1, <1>3, <2>1 DEF P!HelperDies, EngineInv, EngineKnown, RequestInv, P!EngineHasHolder, P!Engines, P!Ours, P!Idle
<1> QED
  BY <1>2, <1>3

LEMMA GatewayKeeps == ASSUME EngineInv, P!GatewayStarts \/ P!GatewayTakesOver \/ P!GatewayStops PROVE EngineInv'
<1>1. CASE P!GatewayStarts \/ P!GatewayStops
  <2>1. /\ asking.pc = "rest" /\ UNCHANGED <<record, procs, boot, asking, holds, service, pleft>>
        /\ gw' \in {"starting", "none"}
    BY <1>1 DEF P!GatewayStarts, P!GatewayStops, P!Unlocked
  <2>2. EngineTypes'
    BY <2>1 DEF EngineInv, EngineTypes
  <2> QED
    BY <2>1, <2>2 DEF EngineInv, EngineKnown, RequestInv, P!EngineHasHolder, P!Engines, P!Ours
<1>2. CASE P!GatewayTakesOver
  <2>1. asking.pc = "rest" /\ UNCHANGED <<boot, asking, holds, service>> /\ EngineTypes
    BY <1>2 DEF P!GatewayTakesOver, EngineInv, RequestInv
  <2>2. PICK ok \in BOOLEAN : P!Stop(ok) /\ gw' = IF ok THEN "running" ELSE "none"
    BY <1>2 DEF P!GatewayTakesOver
  <2>3. /\ record' \in {record, P!NoRecord} /\ P!Engines' \subseteq P!Engines /\ EngineKnown'
        /\ ok => P!Engines' = {}
    BY <2>1, <2>2, StopKeeps DEF EngineInv
  <2>4. pleft' \in [PKinds -> Nat] /\ procs' \in [Pids -> {P!Free, P!Stranger} \cup Engine]
    BY <2>1, <2>2, StopKeeps DEF EngineInv
  <2>5. EngineTypes'
    BY <2>1, <2>2, <2>3, <2>4 DEF EngineTypes, P!NoRecord, Record
  <2> QED
    BY <2>1, <2>2, <2>3, <2>5 DEF EngineInv, RequestInv, P!EngineHasHolder
<1> QED
  BY <1>1, <1>2

LEMMA ProcessKeeps == ASSUME EngineInv, NEW p \in Pids, P!EngineDies(p) \/ P!PidReused(p) PROVE EngineInv'
<1>1. UNCHANGED <<record, boot, gw, asking, holds, service>> /\ EngineTypes
  BY DEF P!EngineDies, P!PidReused, EngineInv
<1>2. pleft' \in [PKinds -> Nat]
  BY <1>1 DEF P!EngineDies, P!PidReused, P!Uses, EngineTypes, PKinds
<1>3. PICK v \in {P!Free, P!Stranger} : /\ procs' = [procs EXCEPT ![p] = v]
                                        /\ v = P!Stranger => procs[p] = P!Free /\ record.pid = p
  <2>1. CASE P!EngineDies(p)
    BY <1>1, <2>1, EngineIsNoStranger DEF P!EngineDies
  <2>2. CASE P!PidReused(p)
    BY <2>2 DEF P!PidReused
  <2> QED
    BY <2>1, <2>2
<1>4. EngineTypes'
  BY <1>1, <1>2, <1>3 DEF EngineTypes
<1>5. P!Engines' = P!Engines \ {p} /\ \A q \in Pids : q # p => procs'[q] = procs[q]
  BY <1>1, <1>3 DEF P!Engines, EngineTypes
<1>6. procs'[p] = v
  BY <1>1, <1>3 DEF EngineTypes
<1>7. EngineKnown' /\ P!EngineHasHolder'
  BY <1>1, <1>5, EngineIsNoStranger DEF EngineInv, EngineKnown, P!EngineHasHolder, P!Ours
<1>8. record = P!Intent => record.pid # p
  BY PAssumption DEF P!Intent
<1>9. RequestInv'
  BY <1>1, <1>3, <1>5, <1>6, <1>8 DEF EngineInv, RequestInv, P!Intent
<1> QED
  BY <1>4, <1>7, <1>9 DEF EngineInv

LEMMA RebootKeeps == ASSUME EngineInv, P!Reboot PROVE EngineInv'
<1>1. EngineTypes'
  BY DEF P!Reboot, EngineInv, EngineTypes, P!Uses, PKinds, P!Idle, Request
<1>2. P!Engines' = {} /\ asking'.pc = "rest"
  BY DEF P!Reboot, P!Engines, P!Idle
<1> QED
  BY <1>1, <1>2, NoEngines

LEMMA EngineKept == EngineInv /\ [P!PreparedNext]_(P!pvars) => EngineInv'
<1> SUFFICES ASSUME EngineInv, [P!PreparedNext]_(P!pvars) PROVE EngineInv'
  OBVIOUS
<1>1. CASE UNCHANGED P!pvars
  BY <1>1 DEF P!pvars, EngineInv, EngineTypes, EngineKnown, RequestInv, P!EngineHasHolder, P!Engines, P!Ours, P!Intent
<1> QED
  BY <1>1, AskKeeps, ReuseKeeps, ReplaceKeeps, SaveIntentKeeps, ForkKeeps, IdentifyKeeps, ReadyKeeps, NotReadyKeeps,
     HoldKeeps, EngineReleaseKeeps, EngineHelperKeeps, GatewayKeeps, ProcessKeeps, RebootKeeps DEF P!PreparedNext

----------------------------------------------------------------------------
(* What follows.                                                           *)

LEMMA EnginePromises == EngineInv => P!PreparedTypeOK /\ P!OneEngine /\ P!EngineRunsTheGraph /\ P!EngineHasHolder
<1> SUFFICES ASSUME EngineInv PROVE P!PreparedTypeOK /\ P!OneEngine /\ P!EngineRunsTheGraph
  BY DEF EngineInv
<1>1. EngineTypes /\ EngineKnown /\ RequestInv
  BY DEF EngineInv
<1>2. P!PreparedTypeOK
  BY <1>1 DEF EngineTypes, P!PreparedTypeOK, Request, Record
<1>3. P!OneEngine
  <2>1. CASE P!Engines = {}
    BY <2>1, FS_EmptySet, SameCount DEF P!OneEngine
  <2>2. CASE P!Engines # {}
    <3>1. PICK p \in P!Engines : TRUE
      BY <2>2
    <3>2. P!Engines = {p}
      BY <1>1, <3>1 DEF EngineKnown
    <3>3. Cardinality(P!Engines) = 1
      BY <3>2, FS_Singleton
    <3> QED
      BY <1>1, <2>2, <3>3, SameCount DEF P!OneEngine, RequestInv
  <2> QED
    BY <2>1, <2>2
<1>4. P!EngineRunsTheGraph
  <2> SUFFICES ASSUME asking.pc = "use", procs[asking.pid] \notin {P!Free, P!Stranger} PROVE procs[asking.pid].graph = asking.graph
    BY DEF P!EngineRunsTheGraph
  <2>1. asking.pid \in P!Engines /\ record.pid # 0 /\ record.pid = asking.pid /\ record.graph = asking.graph
    BY <1>1, PAssumption DEF RequestInv, P!Engines
  <2> QED
    BY <1>1, <2>1 DEF EngineKnown
<1> QED
  BY <1>2, <1>3, <1>4

\* Who holds more than one lease makes the release of another stop nothing.
LEMMA LeaseKept == EngineInv /\ [P!PreparedNext]_(P!pvars) =>
  (P!Holders > 1 /\ holds' # holds /\ service' = "up" => P!Engines \subseteq {p \in Pids : procs'[p] = procs[p]})
<1> SUFFICES ASSUME EngineInv, [P!PreparedNext]_(P!pvars), P!Holders > 1, holds' # holds, service' = "up"
             PROVE  P!Engines \subseteq {p \in Pids : procs'[p] = procs[p]}
  OBVIOUS
<1>1. \E c \in Clients : P!Hold(c) \/ P!Disconnects(c) \/ P!Release(c)
  BY DEF P!PreparedNext, P!pvars, P!Ask, P!Reuse, P!Replace, P!SaveIntent, P!Fork, P!Identify, P!Ready, P!NotReady, P!Answered, P!HelperStarts,
     P!HelperDies, P!GatewayStarts, P!GatewayTakesOver, P!GatewayStops, P!Reboot, P!EngineDies, P!PidReused
<1>2. PICK c \in Clients : P!Hold(c) \/ P!Disconnects(c) \/ P!Release(c)
  BY <1>1
<1>3. ~P!LastToLeave(c)
  BY DEF P!LastToLeave
<1> QED
  BY <1>2, <1>3 DEF P!Hold, P!Disconnects, P!Release, P!Engines

\* Signals reach the recorded engine and the child just forked, never a stranger.
LEMMA StrangersKept == EngineInv /\ [P!PreparedNext]_(P!pvars) =>
  \A p \in Pids : procs[p] = P!Stranger /\ procs'[p] # P!Stranger => boot' # boot
<1> SUFFICES ASSUME EngineInv, [P!PreparedNext]_(P!pvars), boot' = boot, NEW p \in Pids, procs[p] = P!Stranger
             PROVE  procs'[p] = P!Stranger
  OBVIOUS
<1>1. EngineTypes /\ EngineKnown /\ RequestInv
  BY DEF EngineInv
<1>2. ASSUME NEW ok \in BOOLEAN, P!Stop(ok) PROVE procs'[p] = P!Stranger
  BY <1>1, <1>2, StopKeeps, EngineIsNoStranger
<1>3. ASSUME P!Replace \/ P!NotReady \/ P!HelperStarts \/ P!GatewayTakesOver \/ (\E c \in Clients : P!Release(c)) PROVE procs'[p] = P!Stranger
  BY <1>2, <1>3 DEF P!Replace, P!NotReady, P!HelperStarts, P!GatewayTakesOver, P!Release
<1>4. CASE P!Fork
  BY <1>1, <1>4, EngineIsNoStranger DEF P!Fork, EngineTypes
<1>5. CASE P!Identify
  BY <1>1, <1>5 DEF P!Identify, EngineTypes, RequestInv
<1>6. CASE \E q \in Pids : P!EngineDies(q) \/ P!PidReused(q)
  BY <1>1, <1>6 DEF P!EngineDies, P!PidReused, P!Engines, EngineTypes
<1>7. CASE P!Reboot
  BY <1>1, <1>7 DEF P!Reboot, EngineTypes
<1> QED
  BY <1>3, <1>4, <1>5, <1>6, <1>7 DEF P!PreparedNext, P!pvars, P!Ask, P!Reuse, P!SaveIntent, P!Ready, P!Answered, P!HelperDies, P!GatewayStarts,
     P!GatewayStops, P!Hold, P!Disconnects

----------------------------------------------------------------------------
(* The DHCP takeover.                                                     *)
LEMMA TAssumption == TBudget \in [TKinds -> Nat]
BY ControlAssumption DEF TKinds
Owing == T!Serving \cup {"confirmed"}

\* What a request has read still says that it may go on; a job began where one may.
ReadsAllowed ==
  /\ \A s \in Slots : calls[s].op # "none" => calls[s].rec.stage \in T!Allowed(calls[s].op)
  /\ job.op = "start" => job.rec.stage = "confirmed"
  /\ job.op = "reload" => served

\* Stage by stage, what a record with that stage and (snap) the snapshot says about
\* the Mac, the operator's choice, the gateway and the probe.
StageTrue(stage, snap, m, k, on, asked) ==
  /\ stage \in {"idle", "prepared"} => (m = "auto" \/ k) /\ ~on
  /\ stage = "complete" => m = "auto" /\ ~on
  /\ stage = "complete_static" => k /\ ~on
  /\ stage \in {"stopped", "restored"} => (m = "auto" \/ k \/ snap) /\ ~on
  /\ stage = "mac_static" => m = "static" /\ ~on
  /\ stage \in Owing => m = "static" /\ asked
  /\ stage \in {"prepared", "mac_static"} \cup Owing => snap

\* The record tells the truth; a start or a reload is under way only where the wizard
\* allows it, and no start while the takeover is being abandoned.
Truthful ==
  /\ StageTrue(rec.stage, rec.snap, mac, kept, served, probed)
  /\ job.op \in {"start", "reload"} => rec.stage \in Owing
  /\ \A s \in Slots : calls[s].op = "abandon" => job.op # "start" /\ ~served

TakeoverInv == T!TakeoverTypeOK /\ tleft \in [TKinds -> Nat] /\ ReadsAllowed /\ (T!Clean => Truthful)

LEMMA Owes == ASSUME T!TakeoverTypeOK, Truthful, served PROVE rec.stage \in Owing
BY DEF T!TakeoverTypeOK, Truthful, StageTrue, T!Record, T!Stages, T!Resting, T!Serving, Owing

LEMMA Using == ASSUME tleft \in [TKinds -> Nat], NEW k \in TKinds, T!Use(k) PROVE tleft' \in [TKinds -> Nat]
BY DEF T!Use

LEMMA TakeoverStart == T!TakeoverInit => TakeoverInv
<1> SUFFICES ASSUME T!TakeoverInit PROVE TakeoverInv
  OBVIOUS
<1>1. rec = T!Idle /\ rec.stage = "idle" /\ rec \in T!Record
  BY DEF T!TakeoverInit, T!Idle, T!Record, T!Stages, T!Resting
<1>2. calls = [s \in Slots |-> T!Free] /\ job = T!Free /\ T!Free.op = "none" /\ T!Free.rec = T!Idle
  BY DEF T!TakeoverInit, T!Free
<1>3. T!Free \in [op: T!Handlers \cup {"none"}, rec: T!Record] /\ T!Free \in [op: {"none", "start", "stop", "reload"}, rec: T!Record]
  BY <1>1 DEF T!Free
<1>4. T!TakeoverTypeOK
  BY <1>1, <1>2, <1>3 DEF T!TakeoverInit, T!TakeoverTypeOK
<1> QED
  BY <1>1, <1>2, <1>4, TAssumption DEF T!TakeoverInit, TakeoverInv, ReadsAllowed, Truthful, StageTrue, Owing, T!Serving

LEMMA TakeoverPromises == TakeoverInv => T!TakeoverTypeOK /\ T!StageTellsNetwork
<1> SUFFICES ASSUME TakeoverInv PROVE T!TakeoverTypeOK /\ T!StageTellsNetwork
  OBVIOUS
<1>1. T!TakeoverTypeOK
  BY DEF TakeoverInv
<1> SUFFICES ASSUME T!Clean, job.op = "none" PROVE T!StageTellsNetwork
  BY <1>1 DEF T!StageTellsNetwork
<1>2. Truthful /\ StageTrue(rec.stage, rec.snap, mac, kept, served, probed)
  BY DEF TakeoverInv, Truthful
<1>3. rec.stage \in T!Stages /\ mac \in {"auto", "static"}
  BY <1>1 DEF T!TakeoverTypeOK, T!Record
<1>4. served => rec.stage \in Owing
  BY <1>1, <1>2, Owes
<1>5. rec.stage = "complete" => mac = "auto"
  BY <1>2 DEF StageTrue
<1>6. rec.stage \in {"mac_static", "confirmed"} \cup T!Serving => mac = "static"
  BY <1>2 DEF StageTrue, Owing
<1>7. served => mac = "static" /\ rec.stage \in {"confirmed"} \cup T!Serving
  BY <1>2, <1>4 DEF StageTrue, Owing
<1>8. served \/ (mac = "static" /\ ~kept) => T!Required(rec) /\ rec.snap
  <2>1. rec.stage \in Owing => T!Required(rec) /\ rec.snap
    BY <1>2 DEF StageTrue, Owing, T!Required, T!Resting, T!Serving
  <2>2. mac = "static" /\ ~kept => T!Required(rec) /\ rec.snap
    BY <1>2, <1>3, <2>1 DEF StageTrue, Owing, T!Required, T!Resting, T!Serving, T!Stages
  <2> QED
    BY <1>4, <2>1, <2>2
<1> QED
  BY <1>1, <1>5, <1>6, <1>7, <1>8 DEF T!StageTellsNetwork

----------------------------------------------------------------------------
\* The end of a request: its slot is free, and without a race the record of the
\* moment is the one it had read, so that the handler was allowed to go on from it.
LEMMA Advancing ==
  ASSUME TakeoverInv, NEW s \in Slots, NEW stage \in T!Stages, calls[s].op # "none", T!Advance(s, stage)
  PROVE  /\ rec' \in T!Record /\ rec'.stage = stage /\ rec'.snap = calls[s].rec.snap
         /\ calls' \in [Slots -> [op: T!Handlers \cup {"none"}, rec: T!Record]]
         /\ \A t \in Slots : calls'[t].op # "none" => calls'[t] = calls[t]
         /\ raced' \in BOOLEAN
         /\ ~raced' => ~raced /\ rec = calls[s].rec /\ rec.stage \in T!Allowed(calls[s].op)
<1>1. T!TakeoverTypeOK /\ ReadsAllowed
  BY DEF TakeoverInv
<1>2. calls[s].rec \in T!Record
  BY <1>1 DEF T!TakeoverTypeOK
<1>3. rec' = [calls[s].rec EXCEPT !.stage = stage] /\ raced' = (raced \/ rec # calls[s].rec)
      /\ calls' = [calls EXCEPT ![s] = T!Free]
  BY DEF T!Advance, T!Answered
<1>4. rec' \in T!Record /\ rec'.stage = stage /\ rec'.snap = calls[s].rec.snap
  BY <1>2, <1>3 DEF T!Record
<1>5. T!Free \in [op: T!Handlers \cup {"none"}, rec: T!Record] /\ T!Free.op = "none"
  BY DEF T!Free, T!Idle, T!Record, T!Stages, T!Resting
<1>6. calls' \in [Slots -> [op: T!Handlers \cup {"none"}, rec: T!Record]]
      /\ \A t \in Slots : calls'[t].op # "none" => calls'[t] = calls[t]
  BY <1>1, <1>3, <1>5 DEF T!TakeoverTypeOK
<1> QED
  BY <1>1, <1>3, <1>4, <1>6 DEF T!TakeoverTypeOK, ReadsAllowed

LEMMA Freeing ==
  ASSUME T!TakeoverTypeOK, NEW s \in Slots, T!Answered(s)
  PROVE  /\ calls' \in [Slots -> [op: T!Handlers \cup {"none"}, rec: T!Record]]
         /\ \A t \in Slots : calls'[t].op # "none" => calls'[t] = calls[t]
<1>1. T!Free \in [op: T!Handlers \cup {"none"}, rec: T!Record] /\ T!Free.op = "none"
  BY DEF T!Free, T!Idle, T!Record, T!Stages, T!Resting
<1> QED
  BY <1>1 DEF T!Answered, T!TakeoverTypeOK

\* Of the requests that a step leaves under way, everything holds that held before.
LEMMA ReadsStay ==
  ASSUME ReadsAllowed, \A t \in Slots : calls'[t].op # "none" => calls'[t] = calls[t],
         job' = job \/ job'.op = "none", job'.op = "reload" => served' = served
  PROVE  ReadsAllowed'
<1>1. \A t \in Slots : calls'[t].op # "none" => calls'[t].rec.stage \in T!Allowed(calls'[t].op)
  BY DEF ReadsAllowed
<1>2. (job'.op = "start" => job'.rec.stage = "confirmed") /\ (job'.op = "reload" => served')
  BY DEF ReadsAllowed
<1> QED
  BY <1>1, <1>2 DEF ReadsAllowed

LEMMA RequestsKeep ==
  ASSUME TakeoverInv, NEW s \in Slots,
         \/ T!ApplyStatic(s) \/ T!DHCPProbe(s) \/ T!ClientAccepted(s) \/ T!RouterRestored(s)
         \/ T!RestoreDHCP(s) \/ T!KeepStatic(s) \/ T!Abandon(s) \/ T!SaveNotes(s)
  PROVE  TakeoverInv'
<1>1. T!TakeoverTypeOK /\ tleft \in [TKinds -> Nat] /\ ReadsAllowed /\ (T!Clean => Truthful)
  BY DEF TakeoverInv
<1>2. calls[s].op # "none" /\ UNCHANGED T!Others
  BY DEF T!ApplyStatic, T!DHCPProbe, T!ClientAccepted, T!RouterRestored, T!RestoreDHCP, T!KeepStatic, T!Abandon, T!SaveNotes
<1>3. job' = job /\ router' = router /\ served' = served /\ tleft' = tleft
  BY <1>2 DEF T!Others
<1>4. mac' \in {"auto", "static"} /\ {probed', kept', slip'} \subseteq BOOLEAN
  BY <1>1, <1>3 DEF T!TakeoverTypeOK, T!hist, T!ApplyStatic, T!DHCPProbe, T!ClientAccepted, T!RouterRestored, T!RestoreDHCP, T!KeepStatic,
     T!Abandon, T!SaveNotes, T!MacToAuto
<1>5. slip' = slip
  BY DEF T!hist, T!ApplyStatic, T!DHCPProbe, T!ClientAccepted, T!RouterRestored, T!RestoreDHCP, T!KeepStatic, T!Abandon, T!SaveNotes
<1>6. CASE T!Answered(s) /\ UNCHANGED <<rec, raced, mac, probed, kept>>
  <2>1. calls' \in [Slots -> [op: T!Handlers \cup {"none"}, rec: T!Record]]
        /\ \A t \in Slots : calls'[t].op # "none" => calls'[t] = calls[t]
    BY <1>1, <1>6, Freeing
  <2>2. T!TakeoverTypeOK'
    BY <1>1, <1>3, <1>5, <1>6, <2>1 DEF T!TakeoverTypeOK
  <2>3. ReadsAllowed'
    BY <1>1, <1>3, <2>1, ReadsStay
  <2>4. (T!Clean => Truthful)'
    BY <1>1, <1>3, <1>5, <1>6, <2>1 DEF T!Clean, Truthful
  <2> QED
    BY <1>1, <1>3, <2>2, <2>3, <2>4 DEF TakeoverInv
<1>7. ASSUME NEW stage \in T!Stages, T!Advance(s, stage),
             ~raced' /\ rec.stage \in T!Allowed(calls[s].op) /\ Truthful /\ rec = calls[s].rec
               => /\ StageTrue(stage, rec.snap, mac', kept', served, probed')
                  /\ job.op \in {"start", "reload"} => stage \in Owing
      PROVE  TakeoverInv'
  <2>1. /\ rec' \in T!Record /\ rec'.stage = stage /\ rec'.snap = calls[s].rec.snap
        /\ calls' \in [Slots -> [op: T!Handlers \cup {"none"}, rec: T!Record]]
        /\ \A t \in Slots : calls'[t].op # "none" => calls'[t] = calls[t]
        /\ raced' \in BOOLEAN
        /\ ~raced' => ~raced /\ rec = calls[s].rec /\ rec.stage \in T!Allowed(calls[s].op)
    BY <1>2, <1>7, Advancing
  <2>2. T!TakeoverTypeOK'
    BY <1>1, <1>3, <1>4, <2>1 DEF T!TakeoverTypeOK
  <2>3. ReadsAllowed'
    BY <1>1, <1>3, <2>1, ReadsStay
  <2>4. ASSUME T!Clean' PROVE Truthful'
    <3>1. Truthful /\ ~raced'
      BY <1>1, <1>5, <2>1, <2>4 DEF T!Clean
    <3>2. \A t \in Slots : calls'[t].op = "abandon" => job.op # "start" /\ ~served
      BY <2>1, <3>1 DEF Truthful
    <3>3. StageTrue(stage, rec.snap, mac', kept', served, probed') /\ (job.op \in {"start", "reload"} => stage \in Owing)
      BY <1>7, <2>1, <3>1
    <3>4. rec'.stage = stage /\ rec'.snap = rec.snap
      BY <2>1, <3>1
    <3> QED
      BY <1>3, <3>2, <3>3, <3>4 DEF Truthful
  <2> QED
    BY <1>1, <1>3, <2>2, <2>3, <2>4 DEF TakeoverInv
<1> DEFINE Step(stage) == T!Advance(s, stage)
<1>8. CASE T!ApplyStatic(s)
  BY <1>7, <1>8 DEF T!ApplyStatic, T!Allowed, Truthful, StageTrue, T!Stages, Owing, T!Serving, T!Resting, T!hist
<1>9. CASE T!DHCPProbe(s)
  <2>1. CASE router
    BY <1>6, <1>9, <2>1 DEF T!DHCPProbe
  <2>2. CASE ~router
    BY <1>7, <1>9, <2>2 DEF T!DHCPProbe, T!Allowed, Truthful, StageTrue, T!Stages, Owing, T!Serving, T!Resting
  <2> QED
    BY <2>1, <2>2
<1>10. CASE T!ClientAccepted(s)
  <2>1. PICK stage \in {"validated", "skipped"} : T!Advance(s, stage)
    BY <1>10 DEF T!ClientAccepted
  <2>2. stage \in T!Stages /\ stage \in Owing
    BY DEF T!Stages, Owing, T!Serving, T!Resting
  <2> QED
    BY <1>7, <1>10, <2>1, <2>2 DEF T!ClientAccepted, T!Allowed, Truthful, StageTrue, Owing, T!Serving, T!hist
<1>11. CASE T!RouterRestored(s)
  <2>1. CASE router
    BY <1>7, <1>11, <2>1 DEF T!RouterRestored, T!Allowed, Truthful, StageTrue, T!Stages, Owing, T!Serving, T!Resting, T!hist
  <2>2. CASE ~router
    BY <1>6, <1>11, <2>2 DEF T!RouterRestored, T!hist
  <2> QED
    BY <2>1, <2>2
<1>12. CASE T!RestoreDHCP(s)
  BY <1>7, <1>12 DEF T!RestoreDHCP, T!MacToAuto, T!Allowed, Truthful, StageTrue, T!Stages, Owing, T!Serving, T!Resting, T!hist
<1>13. CASE T!KeepStatic(s)
  BY <1>7, <1>13 DEF T!KeepStatic, T!Allowed, Truthful, StageTrue, T!Stages, Owing, T!Serving, T!Resting
<1>14. CASE T!Abandon(s)
  <2>1. Truthful => job.op \notin {"start", "reload"} /\ ~served
    BY <1>1, <1>14 DEF T!Abandon, Truthful, ReadsAllowed
  <2>2. CASE router
    BY <1>7, <1>14, <2>1, <2>2 DEF T!Abandon, StageTrue, T!Stages, Owing, T!Serving, T!Resting
  <2>3. CASE ~router
    BY <1>7, <1>14, <2>1, <2>3 DEF T!Abandon, StageTrue, T!Stages, Owing, T!Serving, T!Resting
  <2> QED
    BY <2>2, <2>3
<1>15. CASE T!SaveNotes(s)
  <2>1. calls[s].rec.stage \in T!Stages
    BY <1>1 DEF T!TakeoverTypeOK, T!Record
  <2>2. T!Advance(s, calls[s].rec.stage) /\ mac' = mac /\ probed' = probed /\ kept' = kept
    BY <1>15 DEF T!SaveNotes, T!hist
  <2> QED
    BY <1>7, <2>1, <2>2 DEF Truthful
<1> QED
  BY <1>8, <1>9, <1>10, <1>11, <1>12, <1>13, <1>14, <1>15

LEMMA FailuresKeep == ASSUME TakeoverInv, NEW s \in Slots, T!ApplyStaticFails(s) \/ T!CallFails(s) PROVE TakeoverInv'
<1>1. T!TakeoverTypeOK /\ tleft \in [TKinds -> Nat] /\ ReadsAllowed /\ (T!Clean => Truthful)
  BY DEF TakeoverInv
<1>2. T!Answered(s) /\ UNCHANGED <<rec, job, router, served, probed, kept, raced>> /\ mac' \in {mac, "static"}
      /\ slip' = (slip \/ mac' # mac)
  BY <1>1 DEF T!ApplyStaticFails, T!CallFails, T!hist, T!TakeoverTypeOK
<1>3. tleft' \in [TKinds -> Nat]
  BY <1>1, Using DEF T!ApplyStaticFails, T!CallFails, TKinds
<1>4. calls' \in [Slots -> [op: T!Handlers \cup {"none"}, rec: T!Record]]
      /\ \A t \in Slots : calls'[t].op # "none" => calls'[t] = calls[t]
  BY <1>1, <1>2, Freeing
<1>5. T!TakeoverTypeOK'
  BY <1>1, <1>2, <1>4 DEF T!TakeoverTypeOK
<1>6. ReadsAllowed'
  BY <1>1, <1>2, <1>4, ReadsStay
<1>7. (T!Clean => Truthful)'
  BY <1>1, <1>2, <1>4 DEF T!Clean, Truthful
<1> QED
  BY <1>3, <1>5, <1>6, <1>7 DEF TakeoverInv

LEMMA EditKeeps == ASSUME TakeoverInv, NEW s \in Slots, T!EditConfig(s) PROVE TakeoverInv'
<1>1. T!TakeoverTypeOK /\ tleft \in [TKinds -> Nat] /\ ReadsAllowed /\ (T!Clean => Truthful)
  BY DEF TakeoverInv
<1>2. T!Answered(s) /\ UNCHANGED <<mac, probed, kept, slip, job, router, served, tleft>> /\ calls[s].op = "edit"
  BY DEF T!EditConfig, T!hist, T!Others
<1>3. calls' \in [Slots -> [op: T!Handlers \cup {"none"}, rec: T!Record]]
      /\ \A t \in Slots : calls'[t].op # "none" => calls'[t] = calls[t]
  BY <1>1, <1>2, Freeing
<1>4. rec' \in {rec, T!Idle} /\ raced' \in BOOLEAN /\ (~raced' => ~raced)
      /\ (~raced' => rec' = rec \/ rec.stage \in T!Resting \cup {"prepared"})
  <2>1. calls[s].rec.stage \in T!Resting \cup {"prepared"}
    BY <1>1, <1>2 DEF ReadsAllowed, T!Allowed
  <2>2. CASE calls[s].rec.stage # "prepared"
    <3>1. rec' = T!Idle /\ raced' = (raced \/ rec # calls[s].rec)
      BY <2>2 DEF T!EditConfig, T!Write
    <3> QED
      BY <1>1, <2>1, <3>1 DEF T!TakeoverTypeOK
  <2>3. CASE calls[s].rec.stage = "prepared"
    <3>1. rec' = (IF rec.stage = "prepared" THEN T!Idle ELSE rec) /\ raced' = raced
      BY <2>3 DEF T!EditConfig
    <3> QED
      BY <1>1, <3>1 DEF T!TakeoverTypeOK
  <2> QED
    BY <2>2, <2>3
<1>5. T!Idle \in T!Record /\ T!Idle.stage = "idle"
  BY DEF T!Idle, T!Record, T!Stages, T!Resting
<1>6. T!TakeoverTypeOK'
  BY <1>1, <1>2, <1>3, <1>4, <1>5 DEF T!TakeoverTypeOK
<1>7. ReadsAllowed'
  BY <1>1, <1>2, <1>3, ReadsStay
<1>8. ASSUME T!Clean' PROVE Truthful'
  <2>1. Truthful /\ ~raced'
    BY <1>1, <1>2, <1>4, <1>8 DEF T!Clean
  <2>2. \A t \in Slots : calls'[t].op = "abandon" => job.op # "start" /\ ~served
    BY <1>3, <2>1 DEF Truthful
  <2>3. CASE rec' = rec
    BY <1>2, <2>1, <2>2, <2>3 DEF Truthful
  <2>4. CASE rec' = T!Idle /\ rec.stage \in T!Resting \cup {"prepared"}
    <3>1. rec.stage \in {"idle", "prepared", "complete", "complete_static"} /\ "idle" \notin Owing /\ rec.stage \notin Owing
      BY <2>4 DEF T!Resting, Owing, T!Serving
    <3>2. (mac = "auto" \/ kept) /\ ~served /\ job.op \notin {"start", "reload"}
      BY <2>1, <3>1 DEF Truthful, StageTrue
    <3>3. StageTrue("idle", rec'.snap, mac, kept, served, probed)
      BY <3>1, <3>2 DEF StageTrue
    <3> QED
      BY <1>2, <1>5, <2>2, <2>4, <3>2, <3>3 DEF Truthful
  <2> QED
    BY <1>4, <2>1, <2>3, <2>4
<1> QED
  BY <1>1, <1>2, <1>6, <1>7, <1>8 DEF TakeoverInv

LEMMA CallKeeps == ASSUME TakeoverInv, NEW s \in Slots, NEW op \in T!Handlers, T!Call(s, op) PROVE TakeoverInv'
<1>1. T!TakeoverTypeOK /\ tleft \in [TKinds -> Nat] /\ ReadsAllowed /\ (T!Clean => Truthful)
  BY DEF TakeoverInv
<1>2. /\ rec.stage \in T!Allowed(op) /\ calls' = [calls EXCEPT ![s] = [op |-> op, rec |-> rec]]
      /\ raced' = (raced \/ (op = "abandon" /\ job.op = "start")) /\ (op = "abandon" => ~served)
      /\ UNCHANGED <<rec, job, mac, router, served, probed, kept, slip>>
  BY DEF T!Call, T!NoStateFile, T!hist
<1>3. tleft' \in [TKinds -> Nat]
  BY <1>1, Using DEF T!Call, TKinds
<1>4. [op |-> op, rec |-> rec] \in [op: T!Handlers \cup {"none"}, rec: T!Record]
  BY <1>1 DEF T!TakeoverTypeOK
<1>5. calls' \in [Slots -> [op: T!Handlers \cup {"none"}, rec: T!Record]]
      /\ calls'[s].op = op /\ calls'[s].rec = rec /\ \A t \in Slots \ {s} : calls'[t] = calls[t]
  BY <1>1, <1>2, <1>4 DEF T!TakeoverTypeOK
<1>6. T!TakeoverTypeOK'
  BY <1>1, <1>2, <1>5 DEF T!TakeoverTypeOK
<1>7. ReadsAllowed'
  <2>1. \A t \in Slots : calls'[t].op # "none" => calls'[t].rec.stage \in T!Allowed(calls'[t].op)
    BY <1>1, <1>2, <1>5 DEF ReadsAllowed
  <2> QED
    BY <1>1, <1>2, <2>1 DEF ReadsAllowed
<1>8. ASSUME T!Clean' PROVE Truthful'
  <2>1. Truthful /\ (op = "abandon" => job.op # "start" /\ ~served)
    BY <1>1, <1>2, <1>8 DEF T!Clean
  <2>2. \A t \in Slots : calls'[t].op = "abandon" => job.op # "start" /\ ~served
    BY <1>5, <2>1 DEF Truthful
  <2> QED
    BY <1>2, <2>1, <2>2 DEF Truthful
<1> QED
  BY <1>3, <1>6, <1>7, <1>8 DEF TakeoverInv

LEMMA CardKeeps == ASSUME TakeoverInv, T!ToggleRouter \/ T!PrepareRecovery \/ T!Discard PROVE TakeoverInv'
<1>1. T!TakeoverTypeOK /\ tleft \in [TKinds -> Nat] /\ ReadsAllowed /\ (T!Clean => Truthful)
  BY DEF TakeoverInv
<1>2. tleft' \in [TKinds -> Nat]
  BY <1>1, Using DEF T!ToggleRouter, T!PrepareRecovery, T!Discard, TKinds
<1>3. UNCHANGED <<calls, job, mac, served, kept, raced>>
  BY DEF T!ToggleRouter, T!PrepareRecovery, T!Discard, T!hist
<1>4. ReadsAllowed'
  BY <1>1, <1>3, ReadsStay
<1>5. CASE T!ToggleRouter
  <2>1. UNCHANGED <<rec, probed, slip>> /\ router' \in BOOLEAN
    BY <1>1, <1>5 DEF T!ToggleRouter, T!hist, T!TakeoverTypeOK
  <2>2. T!TakeoverTypeOK'
    BY <1>1, <1>3, <2>1 DEF T!TakeoverTypeOK
  <2>3. (T!Clean => Truthful)'
    BY <1>1, <1>3, <2>1 DEF T!Clean, Truthful
  <2> QED
    BY <1>2, <1>4, <2>2, <2>3 DEF TakeoverInv
<1>6. CASE T!PrepareRecovery
  <2>1. /\ rec' = [stage |-> "prepared", snap |-> TRUE] /\ probed' = FALSE /\ router' = router
        /\ slip' = (slip \/ (T!Required(rec) /\ mac = "static") \/ served \/ job.op # "none")
    BY <1>6 DEF T!PrepareRecovery
  <2>2. rec' \in T!Record /\ rec'.stage = "prepared" /\ rec'.snap = TRUE
    BY <2>1 DEF T!Record, T!Stages
  <2>3. T!TakeoverTypeOK'
    BY <1>1, <1>3, <2>1, <2>2 DEF T!TakeoverTypeOK, T!Required
  <2>4. ASSUME T!Clean' PROVE Truthful'
    <3>1. Truthful /\ (rec.stage \in T!Resting \/ mac = "auto") /\ ~served /\ job.op = "none"
      BY <1>1, <1>3, <2>1, <2>4 DEF T!Clean, T!Required, T!TakeoverTypeOK
    <3>2. mac = "auto" \/ kept
      BY <3>1 DEF Truthful, StageTrue, T!Resting
    <3>3. StageTrue("prepared", TRUE, mac, kept, served, FALSE)
      BY <3>1, <3>2 DEF StageTrue, Owing, T!Serving
    <3> QED
      BY <1>3, <2>1, <2>2, <3>1, <3>3 DEF Truthful
  <2> QED
    BY <1>2, <1>4, <2>3, <2>4 DEF TakeoverInv
<1>7. CASE T!Discard
  <2>1. rec.stage = "prepared" /\ rec' = T!Idle /\ UNCHANGED <<probed, slip, router>>
    BY <1>7 DEF T!Discard, T!hist
  <2>2. T!Idle \in T!Record /\ T!Idle.stage = "idle"
    BY DEF T!Idle, T!Record, T!Stages, T!Resting
  <2>3. T!TakeoverTypeOK'
    BY <1>1, <1>3, <2>1, <2>2 DEF T!TakeoverTypeOK
  <2>4. (T!Clean => Truthful)'
    <3>1. Truthful => (mac = "auto" \/ kept) /\ ~served /\ job.op \notin {"start", "reload"}
      BY <2>1 DEF Truthful, StageTrue, Owing, T!Serving
    <3>2. Truthful => StageTrue("idle", rec'.snap, mac, kept, served, probed)
      BY <3>1 DEF StageTrue, Owing, T!Serving
    <3> QED
      BY <1>1, <1>3, <2>1, <2>2, <3>1, <3>2 DEF T!Clean, Truthful
  <2> QED
    BY <1>2, <1>4, <2>3, <2>4 DEF TakeoverInv
<1> QED
  BY <1>5, <1>6, <1>7

LEMMA BeginKeeps == ASSUME TakeoverInv, NEW op \in {"start", "stop", "reload"}, T!BeginJob(op) PROVE TakeoverInv'
<1>1. T!TakeoverTypeOK /\ tleft \in [TKinds -> Nat] /\ ReadsAllowed /\ (T!Clean => Truthful)
  BY DEF TakeoverInv
<1>2. /\ job' = [op |-> op, rec |-> rec]
      /\ raced' = (raced \/ (op = "start" /\ \E s \in Slots : calls[s].op = "abandon"))
      /\ UNCHANGED <<rec, calls, mac, router, served, probed, kept, slip>>
      /\ (op = "start" => rec.stage = "confirmed") /\ (op = "reload" => served)
  BY DEF T!BeginJob, T!MayStart, T!hist
<1>3. tleft' \in [TKinds -> Nat]
  BY <1>1, Using DEF T!BeginJob, TKinds
<1>4. job' \in [op: {"none", "start", "stop", "reload"}, rec: T!Record] /\ job'.op = op /\ job'.rec = rec
  BY <1>1, <1>2 DEF T!TakeoverTypeOK
<1>5. T!TakeoverTypeOK'
  <2>1. raced' \in BOOLEAN
    BY <1>1, <1>2 DEF T!TakeoverTypeOK
  <2> QED
    BY <1>1, <1>2, <1>4, <2>1 DEF T!TakeoverTypeOK
<1>6. ReadsAllowed'
  BY <1>1, <1>2, <1>4 DEF ReadsAllowed
<1>7. ASSUME T!Clean' PROVE Truthful'
  <2>1. Truthful /\ (op = "start" => \A s \in Slots : calls[s].op # "abandon")
    BY <1>1, <1>2, <1>7 DEF T!Clean
  <2>2. op \in {"start", "reload"} => rec.stage \in Owing
    BY <1>1, <1>2, <2>1, Owes DEF Owing
  <2>3. \A s \in Slots : calls[s].op = "abandon" => op # "start" /\ ~served
    BY <2>1 DEF Truthful
  <2> QED
    BY <1>2, <1>4, <2>1, <2>2, <2>3 DEF Truthful
<1> QED
  BY <1>3, <1>5, <1>6, <1>7 DEF TakeoverInv

LEMMA JobEndKeeps == ASSUME TakeoverInv, T!JobDone \/ T!JobFails PROVE TakeoverInv'
<1>1. T!TakeoverTypeOK /\ tleft \in [TKinds -> Nat] /\ ReadsAllowed /\ (T!Clean => Truthful)
  BY DEF TakeoverInv
<1>2. job.op # "none" /\ job' = T!Free /\ UNCHANGED <<calls, mac, router, probed, kept, slip>>
  BY DEF T!JobDone, T!JobFails, T!hist
<1>3. tleft' \in [TKinds -> Nat]
  BY <1>1, Using DEF T!JobDone, T!JobFails, TKinds
<1>4. T!Free \in [op: {"none", "start", "stop", "reload"}, rec: T!Record] /\ T!Free.op = "none"
  BY DEF T!Free, T!Idle, T!Record, T!Stages, T!Resting
<1>5. rec \in T!Record /\ job.rec \in T!Record /\ job.op \in {"start", "stop", "reload"} /\ raced \in BOOLEAN
      /\ served \in BOOLEAN /\ mac \in {"auto", "static"} /\ rec.stage \in T!Stages
  BY <1>1, <1>2 DEF T!TakeoverTypeOK, T!Record
<1>6. /\ rec' \in T!Record /\ raced' \in BOOLEAN /\ served' \in BOOLEAN /\ (~raced' => ~raced)
      /\ ~raced' => rec'.snap = rec.snap /\ \/ rec' = rec /\ (job.op = "stop" => served' = served)
                                            \/ ~served' /\ job.op = "stop" /\ rec'.stage = "stopped"
                                            \/ rec'.stage \in Owing /\ job.op # "stop"
  <2>1. CASE T!JobDone
    <3>1. CASE job.op = "reload"
      BY <1>5, <2>1, <3>1 DEF T!JobDone
    <3>2. CASE job.op = "start"
      <4>1. rec' = [rec EXCEPT !.stage = "active"] /\ raced' = (raced \/ rec # job.rec) /\ served' = TRUE
        BY <2>1, <3>2 DEF T!JobDone, T!StageAfter, T!Write
      <4>2. rec' \in T!Record /\ rec'.stage = "active" /\ rec'.snap = rec.snap
        BY <1>5, <4>1 DEF T!Record, T!Stages, T!Serving
      <4> QED
        BY <1>5, <3>2, <4>1, <4>2 DEF Owing, T!Serving
    <3>3. CASE job.op = "stop"
      <4>1. rec' = [rec EXCEPT !.stage = "stopped"] /\ raced' = (raced \/ rec # job.rec) /\ served' = FALSE
        BY <2>1, <3>3 DEF T!JobDone, T!StageAfter, T!Write
      <4>2. rec' \in T!Record /\ rec'.stage = "stopped" /\ rec'.snap = rec.snap
        BY <1>5, <4>1 DEF T!Record, T!Stages, T!Serving
      <4> QED
        BY <1>5, <3>3, <4>1, <4>2
    <3> QED
      BY <1>5, <3>1, <3>2, <3>3
  <2>2. CASE T!JobFails
    <3>0. served' \in BOOLEAN /\ (job.op = "stop" => served' = served)
      BY <1>5, <2>2 DEF T!JobFails
    <3>1. CASE job.op = "start" /\ ~served'
      <4>1. rec' = job.rec /\ raced' = (raced \/ rec # job.rec)
        BY <2>2, <3>1 DEF T!JobFails, T!Write
      <4>2. job.rec.stage = "confirmed"
        BY <1>1, <3>1 DEF ReadsAllowed
      <4> QED
        BY <1>5, <3>0, <3>1, <4>1, <4>2 DEF Owing
    <3>2. CASE job.op = "reload" /\ ~served'
      <4>1. rec' = [job.rec EXCEPT !.stage = "confirmed"] /\ raced' = (raced \/ rec # job.rec)
        BY <2>2, <3>2 DEF T!JobFails, T!Write
      <4>2. rec' \in T!Record /\ rec'.stage = "confirmed" /\ rec'.snap = job.rec.snap
        BY <1>5, <4>1 DEF T!Record, T!Stages
      <4> QED
        BY <1>5, <3>0, <3>2, <4>1, <4>2 DEF Owing
    <3>3. CASE ~(job.op = "start" /\ ~served') /\ ~(job.op = "reload" /\ ~served')
      <4>1. rec' = rec /\ raced' = raced
        BY <2>2, <3>3 DEF T!JobFails
      <4> QED
        BY <1>5, <3>0, <4>1
    <3> QED
      BY <3>1, <3>2, <3>3
  <2> QED
    BY <2>1, <2>2
<1>7. T!TakeoverTypeOK'
  BY <1>1, <1>2, <1>4, <1>6 DEF T!TakeoverTypeOK
<1>8. ReadsAllowed'
  BY <1>1, <1>2, <1>4, ReadsStay
<1>9. ASSUME T!Clean' PROVE Truthful'
  <2>1. Truthful /\ ~raced'
    BY <1>1, <1>2, <1>6, <1>9 DEF T!Clean
  <2>2. \A s \in Slots : calls[s].op = "abandon" => job.op = "stop" /\ ~served
    BY <1>1, <1>5, <2>1 DEF Truthful, ReadsAllowed
  <2>3. \A s \in Slots : calls[s].op = "abandon" => ~served'
    BY <1>5, <1>6, <2>1, <2>2
  <2>4. StageTrue(rec'.stage, rec'.snap, mac, kept, served', probed)
    <3>1. CASE rec' = rec /\ job.op = "stop" /\ served' = served
      BY <2>1, <3>1 DEF Truthful
    <3>2. CASE job.op # "stop" /\ rec'.stage \in Owing
      <4>1. mac = "static" /\ probed /\ rec'.snap
        BY <1>5, <1>6, <2>1, <3>2 DEF Truthful, StageTrue
      <4> QED
        BY <3>2, <4>1 DEF StageTrue, Owing, T!Serving
    <3>3. CASE ~served' /\ job.op = "stop" /\ rec'.stage = "stopped"
      <4>1. mac = "auto" \/ kept \/ rec.snap
        BY <1>5, <2>1 DEF Truthful, StageTrue, T!Stages, T!Resting, T!Serving, Owing
      <4> QED
        BY <1>6, <2>1, <3>3, <4>1 DEF StageTrue, Owing, T!Serving
    <3>4. job.op # "stop" => rec.stage \in Owing
      BY <1>5, <2>1 DEF Truthful
    <3> QED
      BY <1>6, <2>1, <3>1, <3>2, <3>3, <3>4
  <2> QED
    BY <1>2, <1>4, <2>3, <2>4 DEF Truthful
<1> QED
  BY <1>3, <1>7, <1>8, <1>9 DEF TakeoverInv

LEMMA TakeoverKept == TakeoverInv /\ [T!TakeoverNext]_(T!tvars) => TakeoverInv'
<1> SUFFICES ASSUME TakeoverInv, [T!TakeoverNext]_(T!tvars) PROVE TakeoverInv'
  OBVIOUS
<1>1. CASE UNCHANGED T!tvars
  BY <1>1 DEF T!tvars, TakeoverInv, T!TakeoverTypeOK, ReadsAllowed, Truthful, StageTrue, T!Clean
<1>2. CASE T!TakeoverNext
  BY <1>2, RequestsKeep, FailuresKeep, EditKeeps, CallKeeps, CardKeeps, BeginKeeps, JobEndKeeps DEF T!TakeoverNext
<1> QED
  BY <1>1, <1>2

LEMMA ProbedFirst == TakeoverInv /\ [T!TakeoverNext]_(T!tvars) => (~served /\ served' => probed \/ ~T!Clean)
<1> SUFFICES ASSUME TakeoverInv, [T!TakeoverNext]_(T!tvars), ~served, served' PROVE probed \/ ~T!Clean
  OBVIOUS
<1>1. T!JobDone \/ T!JobFails
  BY DEF T!TakeoverNext, T!tvars, T!Others, T!hist, T!ToggleRouter, T!PrepareRecovery, T!Discard, T!BeginJob, T!ApplyStatic,
     T!ApplyStaticFails, T!DHCPProbe, T!ClientAccepted, T!RouterRestored, T!RestoreDHCP, T!KeepStatic, T!Abandon, T!SaveNotes, T!EditConfig,
     T!CallFails, T!Call
<1>2. job.op \in {"start", "reload"}
  BY <1>1 DEF TakeoverInv, T!TakeoverTypeOK, T!JobDone, T!JobFails
<1> QED
  BY <1>2 DEF TakeoverInv, Truthful, StageTrue

----------------------------------------------------------------------------
(* The deployment orchestrator.                                           *)
LEMMA DAssumption == Images # {} /\ DBudget \in [DKinds -> Nat]
BY ControlAssumption DEF DKinds
Boxes == [own : {"none", "managed", "foreign"}, spec : Specs \cup {"-"}, image : Images \cup {"-"}, up : BOOLEAN]
Calls == {"stop", "remove", "unwire", "wire", "create", "start", "wait"}
Acts == [pc : Calls \cup {"rest"}, spec : Specs \cup {"-"}, image : Images \cup {"-"}, old : Boxes,
         back : BOOLEAN, gone : BOOLEAN, hits : Nat]

DeploymentTypes ==
  /\ box \in Boxes /\ wire \in [own : {"none", "managed", "foreign"}, spec : Specs \cup {"-"}] /\ image \in Images
  /\ act \in Acts /\ trampled \in BOOLEAN /\ dleft \in [DKinds -> Nat]
  /\ news \in [result : {"none", "failed", "applied"}, spec : Specs \cup {"-"}, old : Boxes, hits : Nat]

Mine == [own |-> "managed", spec |-> act.spec, image |-> act.image, up |-> act.pc = "wait"]

\* What an Apply knows of the container: as long as nobody interferes it is nobody
\* else's, and gone, or new on its own network, by the call that comes next.
ActInv ==
  /\ ~trampled /\ act.pc # "rest" => box.own # "foreign"
  /\ ~trampled /\ act.pc \in {"unwire", "wire", "create"} => box.own = "none"
  /\ ~trampled /\ act.pc \in {"create", "start", "wait"} => wire = [own |-> "managed", spec |-> act.spec]
  /\ ~trampled /\ act.pc \in {"start", "wait"} => box.spec = act.spec
  /\ act.pc \in {"start", "wait"} /\ act.hits <= 1 => box = Mine

\* On the way back it is the old container that is built, and something failed.
BackInv ==
  /\ act.pc # "rest" => news.result = "none"
  /\ act.pc # "rest" /\ act.back => /\ act.hits >= 1 /\ act.old.own = "managed"
                                    /\ act.spec = act.old.spec /\ act.image = act.old.image

DeploymentInv == DeploymentTypes /\ ActInv /\ BackInv /\ D!NetworkUnderGateway /\ D!OneFailureRestores

LEMMA Shapes == D!Absent \in Boxes /\ D!Asleep \in Acts /\ D!Asleep.pc = "rest" /\ D!Absent.own = "none"
                /\ D!NoWire \in [own : {"none", "managed", "foreign"}, spec : Specs \cup {"-"}]
                /\ D!NoNews \in [result : {"none", "failed", "applied"}, spec : Specs \cup {"-"}, old : Boxes, hits : Nat]
                /\ D!NoNews.result = "none" /\ D!NoWire.own = "none"
<1>1. D!Absent \in Boxes /\ D!Absent.own = "none"
  BY DEF D!Absent, Boxes
<1>2. D!Asleep \in Acts /\ D!Asleep.pc = "rest"
  BY <1>1 DEF D!Asleep, Acts
<1> QED
  BY <1>1, <1>2 DEF D!NoWire, D!NoNews

LEMMA Paying == ASSUME dleft \in [DKinds -> Nat], NEW k \in DKinds, D!Cost(k)
                PROVE  dleft' \in [DKinds -> Nat] /\ dleft'[k] < dleft[k]
BY DEF D!Cost

LEMMA DeploymentStart == D!DeploymentInit => DeploymentInv
<1> SUFFICES ASSUME D!DeploymentInit PROVE DeploymentInv
  OBVIOUS
<1>1. box = D!Absent /\ wire = D!NoWire /\ image \in Images /\ act = D!Asleep /\ news = D!NoNews /\ trampled = FALSE /\ dleft = DBudget
  BY DAssumption DEF D!DeploymentInit
<1>2. DeploymentTypes
  BY <1>1, Shapes, DAssumption DEF DeploymentTypes
<1> QED
  BY <1>1, <1>2, Shapes DEF DeploymentInv, ActInv, BackInv, D!NetworkUnderGateway, D!OneFailureRestores

LEMMA DeploymentPromises == DeploymentInv => D!DeploymentTypeOK /\ D!OneFailureRestores /\ D!NetworkUnderGateway
<1> SUFFICES ASSUME DeploymentInv PROVE D!DeploymentTypeOK
  BY DEF DeploymentInv
<1>1. DOMAIN D!After = {"stop", "remove", "unwire", "wire", "create", "start"}
  BY DEF D!After
<1> QED
  BY <1>1 DEF DeploymentInv, DeploymentTypes, D!DeploymentTypeOK, Boxes, Acts, Calls

----------------------------------------------------------------------------
\* An error of replace leads back to the old container or ends the Apply.
LEMMA FailsTo ==
  ASSUME DeploymentTypes, BackInv, NEW n \in Nat, n >= 1, act.pc # "rest", D!Fails(act.hits + n)
  PROVE  /\ act' \in Acts /\ act'.pc \in {"stop", "rest"} /\ act'.hits = act'.hits
         /\ news' \in [result : {"none", "failed", "applied"}, spec : Specs \cup {"-"}, old : Boxes, hits : Nat]
         /\ BackInv'
         /\ news'.result = "failed" /\ news'.hits = 1 => news'.old.own # "managed"
<1>1. act \in Acts /\ act.old \in Boxes /\ act.hits \in Nat /\ act.hits + n \in Nat /\ news.result = "none"
      /\ act.spec \in Specs \cup {"-"} /\ act.old.spec \in Specs \cup {"-"} /\ act.old.image \in Images \cup {"-"}
      /\ act.hits + n >= 1
  BY DEF DeploymentTypes, BackInv, Acts, Boxes
<1>2. CASE ~act.back /\ act.old.own = "managed"
  <2>1. act' = [act EXCEPT !.pc = "stop", !.back = TRUE, !.spec = act.old.spec, !.image = act.old.image, !.hits = act.hits + n]
        /\ news' = news
    BY <1>2 DEF D!Fails, D!OldImage
  <2>2. act' \in Acts
    BY <1>1, <2>1 DEF Acts, Calls
  <2>3. act'.pc = "stop" /\ act'.spec = act.old.spec /\ act'.image = act.old.image /\ act'.hits = act.hits + n
        /\ act'.old = act.old
    BY <1>1, <2>1 DEF Acts
  <2> QED
    BY <1>1, <1>2, <2>1, <2>2, <2>3 DEF BackInv, DeploymentTypes
<1>3. CASE ~(~act.back /\ act.old.own = "managed")
  <2>1. act' = D!Asleep /\ news' = [result |-> "failed", spec |-> act.spec, old |-> act.old, hits |-> act.hits + n]
    BY <1>3 DEF D!Fails
  <2>2. news'.result = "failed" /\ news'.hits = act.hits + n /\ news'.old = act.old
    BY <2>1
  <2>3. act.back => act.hits + n > 1
    BY <1>1 DEF BackInv
  <2> QED
    BY <1>1, <1>3, <2>1, <2>2, <2>3, Shapes DEF BackInv
<1> QED
  BY <1>2, <1>3

LEMMA ApplyKeeps == ASSUME DeploymentInv, D!Apply PROVE DeploymentInv'
<1>1. DeploymentTypes /\ D!NetworkUnderGateway
  BY DEF DeploymentInv
<1>2. PICK s \in Specs : act' = [D!Asleep EXCEPT !.pc = "stop", !.spec = s, !.image = image, !.old = box]
  BY DEF D!Apply
<1>3. act' = [pc |-> "stop", spec |-> s, image |-> image, old |-> box, back |-> FALSE, gone |-> FALSE, hits |-> 0]
  BY <1>2 DEF D!Asleep
<1>4. act' \in Acts /\ act'.pc = "stop" /\ ~act'.back
  BY <1>1, <1>3 DEF Acts, Calls, DeploymentTypes
<1>5. news' = D!NoNews /\ UNCHANGED <<box, wire, image, trampled>> /\ box.own # "foreign"
  BY DEF D!Apply, D!OursOrNone
<1>6. dleft' \in [DKinds -> Nat]
  BY <1>1, Paying DEF D!Apply, DeploymentTypes, DKinds
<1>7. DeploymentTypes'
  BY <1>1, <1>4, <1>5, <1>6, Shapes DEF DeploymentTypes
<1> QED
  BY <1>1, <1>4, <1>5, <1>7, Shapes DEF DeploymentInv, ActInv, BackInv, D!NetworkUnderGateway, D!OneFailureRestores

\* What a call does, with its effect or without.
LEMMA EffectOf ==
  ASSUME DeploymentTypes, ActInv, D!NetworkUnderGateway, act.pc \in Calls, D!Effect(act.pc)
  PROVE  /\ box' \in Boxes /\ wire' \in [own : {"none", "managed", "foreign"}, spec : Specs \cup {"-"}]
         /\ ~trampled => /\ box'.own # "foreign"
                         /\ box'.own = "managed" => wire' = [own |-> "managed", spec |-> box'.spec]
         /\ act.pc = "remove" => box'.own = "none"
         /\ act.pc \in {"unwire", "wire"} => box' = box
         /\ act.pc \in {"stop", "remove", "create", "start", "wait"} => wire' = wire
         /\ act.pc = "wire" => wire' = [own |-> "managed", spec |-> act.spec]
         /\ act.pc = "create" => box' = [own |-> "managed", spec |-> act.spec, image |-> act.image, up |-> FALSE]
         /\ act.pc = "start" => box' = [box EXCEPT !.up = TRUE]
         /\ act.pc = "wait" => box' = box
<1> USE DEF Calls
<1>1. box \in Boxes /\ act.spec \in Specs \cup {"-"} /\ act.image \in Images \cup {"-"}
      /\ wire \in [own : {"none", "managed", "foreign"}, spec : Specs \cup {"-"}]
  BY DEF DeploymentTypes, Acts
<1>2. CASE act.pc = "stop"
  <2>1. box' = [box EXCEPT !.up = FALSE] /\ wire' = wire
    BY <1>2 DEF D!Effect, D!Stopped
  <2>2. box' \in Boxes /\ box'.own = box.own /\ box'.spec = box.spec
    BY <1>1, <2>1 DEF Boxes
  <2> QED
    BY <1>1, <1>2, <2>1, <2>2 DEF ActInv, D!NetworkUnderGateway
<1>3. CASE act.pc = "remove"
  BY <1>1, <1>3, Shapes DEF D!Effect, D!Removed
<1>4. CASE act.pc = "unwire"
  BY <1>1, <1>4, Shapes DEF D!Effect, D!Unwired, ActInv
<1>5. CASE act.pc = "wire"
  <2>1. wire' = [own |-> "managed", spec |-> act.spec] /\ box' = box
    BY <1>5 DEF D!Effect, D!Wired
  <2> QED
    BY <1>1, <1>5, <2>1 DEF ActInv
<1>6. CASE act.pc = "create"
  <2>1. box' = [own |-> "managed", spec |-> act.spec, image |-> act.image, up |-> FALSE] /\ wire' = wire
    BY <1>6 DEF D!Effect, D!Created
  <2>2. box' \in Boxes /\ box'.own = "managed" /\ box'.spec = act.spec
    BY <1>1, <2>1 DEF Boxes
  <2> QED
    BY <1>1, <1>6, <2>1, <2>2 DEF ActInv
<1>7. CASE act.pc = "start"
  <2>1. box' = [box EXCEPT !.up = TRUE] /\ wire' = wire
    BY <1>7 DEF D!Effect, D!Started
  <2>2. box' \in Boxes /\ box'.own = box.own /\ box'.spec = box.spec
    BY <1>1, <2>1 DEF Boxes
  <2> QED
    BY <1>1, <1>7, <2>1, <2>2 DEF ActInv, D!NetworkUnderGateway
<1>8. CASE act.pc = "wait"
  BY <1>1, <1>8 DEF D!Effect, D!Healthy, ActInv, D!NetworkUnderGateway
<1> QED
  BY <1>2, <1>3, <1>4, <1>5, <1>6, <1>7, <1>8

LEMMA CallWorksKeeps == ASSUME DeploymentInv, D!CallWorks PROVE DeploymentInv'
<1>1. DeploymentTypes /\ ActInv /\ BackInv /\ D!NetworkUnderGateway
  BY DEF DeploymentInv
<1>2. /\ act.pc \in {"stop", "remove", "unwire", "wire", "create", "start"} /\ D!Effect(act.pc)
      /\ act' = [act EXCEPT !.pc = D!After[act.pc]] /\ UNCHANGED <<image, news, trampled, dleft>>
  BY DEF D!CallWorks, D!Goto, D!After
<1>3. act \in Acts /\ act.pc \in Calls
  BY <1>1, <1>2 DEF DeploymentTypes, Calls
<1>4. D!After[act.pc] \in Calls
  BY <1>2 DEF D!After, Calls
<1>5. act' \in Acts
  BY <1>2, <1>3, <1>4 DEF Acts
<1>6. /\ act'.pc = D!After[act.pc] /\ act'.spec = act.spec /\ act'.image = act.image /\ act'.old = act.old
      /\ act'.back = act.back /\ act'.hits = act.hits
  BY <1>2, <1>3 DEF Acts
<1>7. /\ act.pc = "stop" => act'.pc = "remove"
      /\ act.pc = "remove" => act'.pc = "unwire"
      /\ act.pc = "unwire" => act'.pc = "wire"
      /\ act.pc = "wire" => act'.pc = "create"
      /\ act.pc = "create" => act'.pc = "start"
      /\ act.pc = "start" => act'.pc = "wait"
  BY <1>6 DEF D!After
<1>8. DeploymentTypes'
  BY <1>1, <1>2, <1>3, <1>5, EffectOf DEF DeploymentTypes
<1>14. /\ act.pc = "create" => box' = [own |-> "managed", spec |-> act.spec, image |-> act.image, up |-> FALSE]
       /\ act.pc = "start" => box' = [box EXCEPT !.up = TRUE]
  BY <1>1, <1>2, <1>3, EffectOf
<1>9. act'.pc \in {"start", "wait"} /\ act'.hits <= 1 => box' = Mine'
  <2>1. CASE act.pc = "create"
    <3>1. box' = [own |-> "managed", spec |-> act.spec, image |-> act.image, up |-> FALSE]
      BY <1>14, <2>1
    <3>2. act'.pc = "start" /\ act'.spec = act.spec /\ act'.image = act.image
      BY <1>6, <1>7, <2>1
    <3> QED
      BY <3>1, <3>2 DEF Mine
  <2>2. CASE act.pc = "start"
    <3>1. box' = [box EXCEPT !.up = TRUE]
      BY <1>14, <2>2
    <3>2. act.hits <= 1 => box = [own |-> "managed", spec |-> act.spec, image |-> act.image, up |-> FALSE]
      BY <1>1, <2>2 DEF ActInv, Mine
    <3>3. act'.pc = "wait" /\ act'.spec = act.spec /\ act'.image = act.image /\ act'.hits = act.hits
      BY <1>6, <1>7, <2>2
    <3>4. ASSUME act.hits <= 1 PROVE box' = [own |-> "managed", spec |-> act.spec, image |-> act.image, up |-> TRUE]
      <4>1. box = [own |-> "managed", spec |-> act.spec, image |-> act.image, up |-> FALSE]
        BY <3>2, <3>4
      <4> QED
        BY ONLY <3>1, <4>1
    <3> QED
      BY <3>3, <3>4 DEF Mine
  <2> QED
    BY <1>2, <1>7, <2>1, <2>2
<1>10. box.spec = act.spec /\ act.pc = "start" => box'.spec = act.spec
  <2>1. act.pc = "start" => box' = [box EXCEPT !.up = TRUE] /\ box \in Boxes
    BY <1>1, <1>14 DEF DeploymentTypes
  <2> QED
    BY <2>1 DEF Boxes
<1>11. ActInv'
  <2>1. ~trampled /\ act.pc = "create" => box'.spec = act.spec
    <3>1. act.pc = "create" => box' = [own |-> "managed", spec |-> act.spec, image |-> act.image, up |-> FALSE]
      BY <1>14
    <3> QED
      BY <3>1
  <2> QED
    BY <1>1, <1>2, <1>3, <1>6, <1>7, <1>9, <1>10, <2>1, EffectOf DEF ActInv
<1>12. BackInv'
  BY <1>1, <1>2, <1>3, <1>6, <1>7 DEF BackInv
<1>13. D!NetworkUnderGateway' /\ D!OneFailureRestores'
  BY <1>1, <1>2, <1>3, EffectOf DEF D!NetworkUnderGateway, D!OneFailureRestores, BackInv
<1> QED
  BY <1>8, <1>11, <1>12, <1>13 DEF DeploymentInv

LEMMA ServesKeeps == ASSUME DeploymentInv, D!Serves PROVE DeploymentInv'
<1>1. DeploymentTypes /\ ActInv /\ BackInv /\ D!NetworkUnderGateway
  BY DEF DeploymentInv
<1>2. act.pc = "wait" /\ act' = D!Asleep /\ UNCHANGED <<wire, image, trampled, dleft>>
  BY DEF D!Serves
<1>3. act \in Acts /\ act.old \in Boxes /\ act.hits \in Nat /\ box \in Boxes /\ act.spec \in Specs \cup {"-"}
  BY <1>1 DEF DeploymentTypes, Acts
<1>4. CASE act.back
  <2>1. box' = [box EXCEPT !.up = act.old.up]
        /\ news' = [result |-> "failed", spec |-> act.spec, old |-> act.old, hits |-> act.hits]
    BY <1>4 DEF D!Serves
  <2>2. box' \in Boxes /\ box'.own = box.own /\ box'.spec = box.spec
    BY <1>3, <2>1 DEF Boxes
  <2>3. news'.hits = act.hits /\ news'.old = act.old
    BY <2>1
  <2>4. act.hits = 1 => box' = act.old
    <3>1. act.hits = 1 => box = [own |-> "managed", spec |-> act.old.spec, image |-> act.old.image, up |-> TRUE]
      BY <1>1, <1>2, <1>4 DEF ActInv, BackInv, Mine
    <3>2. act.old.own = "managed"
      BY <1>1, <1>2, <1>4 DEF BackInv
    <3>3. act.hits = 1 => box' = [own |-> "managed", spec |-> act.old.spec, image |-> act.old.image, up |-> act.old.up]
      BY <2>1, <3>1
    <3>4. act.old = [own |-> "managed", spec |-> act.old.spec, image |-> act.old.image, up |-> act.old.up]
      BY <1>3, <3>2 DEF Boxes
    <3> QED
      BY <3>3, <3>4
  <2>5. DeploymentTypes'
    BY <1>1, <1>2, <1>3, <2>1, <2>2, Shapes DEF DeploymentTypes
  <2> QED
    BY <1>1, <1>2, <2>2, <2>3, <2>4, <2>5, Shapes DEF DeploymentInv, ActInv, BackInv, D!NetworkUnderGateway, D!OneFailureRestores
<1>5. CASE ~act.back
  <2>1. box' = box /\ news' = [result |-> "applied", spec |-> act.spec, old |-> act.old, hits |-> act.hits]
    BY <1>5 DEF D!Serves
  <2>2. news'.result = "applied"
    BY <2>1
  <2>3. DeploymentTypes'
    BY <1>1, <1>2, <1>3, <2>1, Shapes DEF DeploymentTypes
  <2> QED
    BY <1>1, <1>2, <2>1, <2>2, <2>3, Shapes DEF DeploymentInv, ActInv, BackInv, D!NetworkUnderGateway, D!OneFailureRestores
<1> QED
  BY <1>4, <1>5

\* After a failing call nothing stands that has no network.
LEMMA FailedKeeps ==
  ASSUME DeploymentInv, act.pc # "rest", NEW n \in Nat, n >= 1, D!Fails(act.hits + n), UNCHANGED image,
         dleft' \in [DKinds -> Nat], trampled' \in BOOLEAN, box' \in Boxes,
         wire' \in [own : {"none", "managed", "foreign"}, spec : Specs \cup {"-"}],
         ~trampled' => /\ box'.own # "foreign"
                       /\ box'.own = "managed" => wire' = [own |-> "managed", spec |-> box'.spec]
  PROVE  DeploymentInv'
<1>1. DeploymentTypes /\ BackInv
  BY DEF DeploymentInv
<1>2. /\ act' \in Acts /\ act'.pc \in {"stop", "rest"} /\ BackInv'
      /\ news' \in [result : {"none", "failed", "applied"}, spec : Specs \cup {"-"}, old : Boxes, hits : Nat]
      /\ news'.result = "failed" /\ news'.hits = 1 => news'.old.own # "managed"
  BY <1>1, FailsTo
<1>3. DeploymentTypes'
  BY <1>1, <1>2 DEF DeploymentTypes
<1> QED
  BY <1>2, <1>3 DEF DeploymentInv, ActInv, D!NetworkUnderGateway, D!OneFailureRestores

LEMMA CallFailsKeeps == ASSUME DeploymentInv, D!EarlyCallFails \/ D!LateCallFails \/ D!CleanUpFails PROVE DeploymentInv'
<1>1. DeploymentTypes /\ ActInv /\ BackInv /\ D!NetworkUnderGateway
  BY DEF DeploymentInv
<1>2. act.pc \in Calls /\ act.pc # "rest" /\ UNCHANGED image
  BY DEF D!EarlyCallFails, D!LateCallFails, D!CleanUpFails, D!Early, D!Late, Calls
<1>3. dleft' \in [DKinds -> Nat]
  BY <1>1, Paying DEF D!EarlyCallFails, D!LateCallFails, D!CleanUpFails, DeploymentTypes, DKinds
<1>4. CASE D!EarlyCallFails
  <2>1. D!Fails(act.hits + 1) /\ trampled' = trampled /\ (UNCHANGED <<box, wire>> \/ D!Effect(act.pc))
    BY <1>4 DEF D!EarlyCallFails
  <2>2. CASE D!Effect(act.pc)
    BY <1>1, <1>2, <1>3, <2>1, <2>2, EffectOf, FailedKeeps DEF DeploymentTypes
  <2>3. CASE UNCHANGED <<box, wire>>
    BY <1>1, <1>2, <1>3, <2>1, <2>3, FailedKeeps DEF DeploymentTypes, ActInv, D!NetworkUnderGateway
  <2> QED
    BY <2>1, <2>2, <2>3
<1>5. CASE D!LateCallFails
  <2>1. D!Fails(act.hits + 1) /\ trampled' = trampled /\ box' = D!Absent /\ wire' \in {wire, D!NoWire}
    BY <1>5 DEF D!LateCallFails, D!Swept
  <2>2. wire' \in [own : {"none", "managed", "foreign"}, spec : Specs \cup {"-"}]
    BY <1>1, <2>1, Shapes DEF DeploymentTypes
  <2> QED
    BY <1>1, <1>2, <1>3, <2>1, <2>2, Shapes, FailedKeeps DEF DeploymentTypes
<1>6. CASE D!CleanUpFails
  <2>1. D!Fails(act.hits + 2) /\ trampled' = TRUE /\ box' \in {box, D!Absent} /\ wire' \in {wire, D!NoWire}
    BY <1>6 DEF D!CleanUpFails
  <2>2. wire' \in [own : {"none", "managed", "foreign"}, spec : Specs \cup {"-"}] /\ box' \in Boxes
    BY <1>1, <2>1, Shapes DEF DeploymentTypes
  <2> QED
    BY <1>2, <1>3, <2>1, <2>2, FailedKeeps
<1> QED
  BY <1>4, <1>5, <1>6

LEMMA OthersKeep == ASSUME DeploymentInv, D!HangsUp \/ D!OrchestratorDies \/ D!People PROVE DeploymentInv'
<1>1. DeploymentTypes /\ ActInv /\ BackInv /\ D!NetworkUnderGateway /\ D!OneFailureRestores
  BY DEF DeploymentInv
<1>2. dleft' \in [DKinds -> Nat]
  BY <1>1, Paying DEF D!HangsUp, D!OrchestratorDies, D!People, DeploymentTypes, DKinds
<1>3. act \in Acts /\ act.hits \in Nat /\ box \in Boxes
  BY <1>1 DEF DeploymentTypes, Acts
<1>4. CASE D!HangsUp
  <2>1. act.pc # "rest" /\ act' = [act EXCEPT !.gone = TRUE, !.hits = act.hits + 1] /\ UNCHANGED <<box, wire, image, news, trampled>>
    BY <1>4 DEF D!HangsUp
  <2>6. act.hits + 1 \in Nat
    BY <1>3
  <2>2. act' \in Acts /\ act'.pc = act.pc /\ act'.spec = act.spec /\ act'.image = act.image /\ act'.hits = act.hits + 1
        /\ act'.old = act.old /\ act'.back = act.back
    BY <1>3, <2>1, <2>6 DEF Acts
  <2>3. act'.hits <= 1 => act.hits <= 1
    BY <1>3, <2>2
  <2>4. act.hits >= 1 => act'.hits >= 1
    BY <1>3, <2>2
  <2>5. DeploymentTypes'
    BY <1>1, <1>2, <2>1, <2>2 DEF DeploymentTypes
  <2> QED
    BY <1>1, <2>1, <2>2, <2>3, <2>4, <2>5 DEF DeploymentInv, ActInv, BackInv, Mine, D!NetworkUnderGateway, D!OneFailureRestores
<1>5. CASE D!OrchestratorDies
  <2>1. act' = D!Asleep /\ news' = D!NoNews /\ image' \in Images /\ UNCHANGED <<box, wire, trampled>>
    BY <1>5 DEF D!OrchestratorDies
  <2>2. DeploymentTypes'
    BY <1>1, <1>2, <2>1, Shapes DEF DeploymentTypes
  <2> QED
    BY <1>1, <2>1, <2>2, Shapes DEF DeploymentInv, ActInv, BackInv, D!NetworkUnderGateway, D!OneFailureRestores
<1>6. CASE D!People
  <2>1. /\ trampled' = (trampled \/ act.pc # "rest") /\ news' = D!NoNews /\ image' = image
        /\ act' = [act EXCEPT !.hits = act.hits + IF act.pc = "rest" THEN 0 ELSE 2]
        /\ \/ box.own = "none" /\ box' = [own |-> "foreign", spec |-> "-", image |-> "-", up |-> TRUE] /\ wire' = wire
           \/ wire.own = "none" /\ wire' = [own |-> "foreign", spec |-> "-"] /\ box' = box
           \/ box.up /\ box' = [box EXCEPT !.up = FALSE] /\ wire' = wire
           \/ box' = D!Absent /\ wire' = wire
    BY <1>6 DEF D!People
  <2>2. act' \in Acts /\ act'.pc = act.pc /\ act'.old = act.old /\ act'.back = act.back
        /\ act'.spec = act.spec /\ act'.image = act.image
        /\ act'.hits = act.hits + (IF act.pc = "rest" THEN 0 ELSE 2)
    BY <1>3, <2>1 DEF Acts
  <2>3. (act.pc # "rest" => act'.hits > 1) /\ (act.hits >= 1 => act'.hits >= 1)
    BY <1>3, <2>2
  <2>4. box' \in Boxes /\ wire' \in [own : {"none", "managed", "foreign"}, spec : Specs \cup {"-"}]
    <3>1. [box EXCEPT !.up = FALSE] \in Boxes
      BY <1>3 DEF Boxes
    <3>2. [own |-> "foreign", spec |-> "-", image |-> "-", up |-> TRUE] \in Boxes
      BY DEF Boxes
    <3>3. [own |-> "foreign", spec |-> "-"] \in [own : {"none", "managed", "foreign"}, spec : Specs \cup {"-"}]
      OBVIOUS
    <3> QED
      BY <1>1, <2>1, <3>1, <3>2, <3>3, Shapes DEF DeploymentTypes
  <2>5. DeploymentTypes'
    BY <1>1, <1>2, <2>1, <2>2, <2>4, Shapes DEF DeploymentTypes
  <2>6. D!NetworkUnderGateway'
    <3>1. SUFFICES ASSUME ~trampled', box'.own = "managed" PROVE wire' = [own |-> "managed", spec |-> box'.spec]
      BY DEF D!NetworkUnderGateway
    <3>2. box'.own = box.own /\ box'.spec = box.spec
      BY <1>3, <2>1, <3>1, Shapes DEF Boxes
    <3>3. wire = [own |-> "managed", spec |-> box.spec]
      BY <1>1, <2>1, <3>1, <3>2 DEF D!NetworkUnderGateway
    <3>4. wire' = wire
      BY <2>1, <3>3
    <3> QED
      BY <3>2, <3>3, <3>4
  <2>7. ActInv'
    <3>1. ~trampled' => act'.pc = "rest"
      BY <2>1, <2>2
    <3>2. act'.pc # "rest" => ~(act'.hits <= 1)
      BY <2>2, <2>3, <1>3
    <3> QED
      BY <3>1, <3>2 DEF ActInv
  <2>8. BackInv' /\ D!OneFailureRestores'
    BY <1>1, <2>1, <2>2, <2>3, Shapes DEF BackInv, D!OneFailureRestores
  <2> QED
    BY <2>5, <2>6, <2>7, <2>8 DEF DeploymentInv
<1> QED
  BY <1>4, <1>5, <1>6

LEMMA DeploymentKept == DeploymentInv /\ [D!DeploymentNext]_(D!dvars) => DeploymentInv'
<1> SUFFICES ASSUME DeploymentInv, [D!DeploymentNext]_(D!dvars) PROVE DeploymentInv'
  OBVIOUS
<1>1. CASE UNCHANGED D!dvars
  BY <1>1 DEF D!dvars, DeploymentInv, DeploymentTypes, ActInv, BackInv, Mine, D!NetworkUnderGateway, D!OneFailureRestores
<1>2. CASE D!DeploymentNext
  BY <1>2, ApplyKeeps, CallWorksKeeps, ServesKeeps, CallFailsKeeps, OthersKeep DEF D!DeploymentNext
<1> QED
  BY <1>1, <1>2

LEMMA ForeignSpared ==
  ASSUME DeploymentInv, [D!DeploymentNext]_(D!dvars), box.own = "foreign", box' # box, ~trampled
  PROVE  dleft'.people < dleft.people
<1>1. act.pc = "rest" /\ dleft \in [DKinds -> Nat]
  BY DEF DeploymentInv, ActInv, DeploymentTypes
<1>2. D!People
  <2>1. "rest" \notin DOMAIN D!After
    BY DEF D!After
  <2> QED
    BY <1>1, <2>1 DEF D!dvars, D!DeploymentNext, D!Apply, D!CallWorks, D!Serves, D!EarlyCallFails, D!LateCallFails, D!CleanUpFails,
       D!HangsUp, D!OrchestratorDies, D!Early, D!Late
<1> QED
  BY <1>1, <1>2, Paying DEF D!People, DKinds

----------------------------------------------------------------------------
(* The Cloudflare optimizer.                                              *)
LEMMA OAssumption == OHorizon \in Nat \ {0} /\ OBudget \in [OKinds -> Nat]
BY ControlAssumption DEF OKinds
\* A state file, whatever the date in it.
StateFile(s) == /\ DOMAIN s = {"results", "running", "checking", "lastRun", "lastCheck", "next"}
                /\ s.results \in O!Results /\ s.running \in BOOLEAN /\ s.checking \in BOOLEAN
Waits == {"rest", "scan", "check"}
Works == {"probing", "apply", "ends", "checking"}

OptimizerTypes ==
  /\ setup \in [targets : SUBSET Domains, on : BOOLEAN, health : BOOLEAN]
  /\ StateFile(disk) /\ live \in O!Results /\ clock \in 1 .. OHorizon
  /\ worker \in [O!Workers -> Waits \cup Works] /\ up \in BOOLEAN /\ blurred \in BOOLEAN /\ died \in BOOLEAN
  /\ DOMAIN task = {"targets", "state", "before", "dropped"} /\ task.targets \subseteq Domains
  /\ StateFile(task.state) /\ task.before \in O!Results
  /\ DOMAIN put = {"pc", "copy", "before"} /\ put.pc \in {"rest", "load", "apply", "last"}
  /\ StateFile(put.copy) /\ put.before \in O!Results
  /\ oleft \in [OKinds -> Nat]

\* scanMu has one holder.
OneHolder == \A v, w \in O!Workers : worker[v] \in Works /\ worker[w] \in Works => v = w

\* The results are those of enabled targets, and the engine's if it runs.
Enabled(results) == \A d \in Domains \ setup.targets : results[d] = NoAddress
InStep(results) == (up => live = results) /\ Enabled(results)
Unmarked(s) == ~s.running /\ ~s.checking

AtProbing  == /\ task.state = disk /\ task.targets = setup.targets /\ task.before = disk.results
              /\ ~disk.checking /\ InStep(disk.results)
AtApply    == task.state = disk /\ ~disk.checking /\ Enabled(disk.results) /\ InStep(task.before)
AtEnds     == ~task.state.checking /\ InStep(task.state.results)
AtChecking == task.state = disk /\ ~disk.running /\ InStep(disk.results)

AtRest     == InStep(disk.results) /\ Unmarked(disk)
AtLoad     == (up => live = disk.results) /\ Unmarked(disk)
AtPutApply == put.copy = disk /\ Enabled(disk.results) /\ Unmarked(disk)
AtLast     == InStep(put.copy.results) /\ Unmarked(put.copy)

\* What the one that is at work, if any, knows of file and engine.
Known ==
  /\ O!Held => put.pc = "rest"
  /\ \A w \in O!Workers : /\ worker[w] = "probing" => AtProbing
                          /\ worker[w] = "apply" => AtApply
                          /\ worker[w] = "ends" => AtEnds
                          /\ worker[w] = "checking" => AtChecking
  /\ ~O!Held => /\ put.pc = "rest" => AtRest
                /\ put.pc = "load" => AtLoad
                /\ put.pc = "apply" => AtPutApply
                /\ put.pc = "last" => AtLast

OptimizerInv == OptimizerTypes /\ OneHolder /\ (~blurred /\ ~died => Known)

LEMMA EmptyRecords ==
  /\ O!NoResults \in O!Results /\ \A d \in Domains : O!NoResults[d] = NoAddress
  /\ StateFile(O!NoJob.state) /\ Unmarked(O!NoJob.state) /\ O!NoJob.state.results = O!NoResults
  /\ DOMAIN O!NoJob = {"targets", "state", "before", "dropped"} /\ O!NoJob.targets \subseteq Domains /\ O!NoJob.before \in O!Results
  /\ DOMAIN O!NoPut = {"pc", "copy", "before"} /\ O!NoPut.pc = "rest" /\ O!NoPut.copy = O!NoJob.state /\ O!NoPut.before \in O!Results
<1>1. O!NoResults \in O!Results /\ \A d \in Domains : O!NoResults[d] = NoAddress
  BY DEF O!NoResults, O!Results
<1>2. O!NoJob.state = [results |-> O!NoResults, running |-> FALSE, checking |-> FALSE,
                     lastRun |-> O!Never, lastCheck |-> O!Never, next |-> O!Never]
  BY DEF O!NoJob
<1>3. StateFile(O!NoJob.state) /\ Unmarked(O!NoJob.state) /\ O!NoJob.state.results = O!NoResults
  BY <1>1, <1>2 DEF StateFile, Unmarked
<1>4. DOMAIN O!NoJob = {"targets", "state", "before", "dropped"} /\ O!NoJob.targets \subseteq Domains /\ O!NoJob.before \in O!Results
  BY <1>1 DEF O!NoJob
<1>5. DOMAIN O!NoPut = {"pc", "copy", "before"} /\ O!NoPut.pc = "rest" /\ O!NoPut.copy = O!NoJob.state /\ O!NoPut.before \in O!Results
  BY <1>1 DEF O!NoPut
<1> QED
  BY <1>1, <1>3, <1>4, <1>5

\* populateNextRun touches the date only; finish takes the mark down.
LEMMA Dated ==
  ASSUME NEW s, StateFile(s), NEW targets
  PROVE  /\ StateFile(O!Populated(s, targets)) /\ O!Populated(s, targets).results = s.results
         /\ O!Populated(s, targets).running = s.running /\ O!Populated(s, targets).checking = s.checking
BY DEF StateFile, O!Populated

LEMMA Finishing ==
  ASSUME NEW s, StateFile(s)
  PROVE  /\ StateFile(O!Finished(s)) /\ O!Finished(s).results = s.results
         /\ ~O!Finished(s).running /\ O!Finished(s).checking = s.checking
BY DEF StateFile, O!Finished

LEMMA Retained ==
  ASSUME NEW r \in O!Results, NEW targets
  PROVE  /\ O!RetainEnabled(r, targets) \in O!Results
         /\ \A d \in Domains \ targets : O!RetainEnabled(r, targets)[d] = NoAddress
         /\ \A d \in Domains \cap targets : O!RetainEnabled(r, targets)[d] = r[d]
BY DEF O!RetainEnabled, O!Results

LEMMA Merged ==
  ASSUME NEW before \in O!Results, NEW got \in O!Results, NEW rejected, NEW targets
  PROVE  /\ O!Merge(before, got, rejected, targets) \in O!Results
         /\ \A d \in Domains \ targets : O!Merge(before, got, rejected, targets)[d] = NoAddress
         /\ \A d \in Domains \cap targets : before[d] # NoAddress /\ d \notin rejected
              => O!Merge(before, got, rejected, targets)[d] # NoAddress
<1> DEFINE r == [d \in Domains |-> IF got[d] # NoAddress THEN got[d] ELSE IF d \in rejected THEN NoAddress ELSE before[d]]
<1>1. r \in O!Results
  BY DEF O!Results
<1>2. \A d \in Domains : before[d] # NoAddress /\ d \notin rejected => r[d] # NoAddress
  OBVIOUS
<1>3. O!Merge(before, got, rejected, targets) = O!RetainEnabled(r, targets)
  BY DEF O!Merge
<1> HIDE DEF r
<1> QED
  BY <1>1, <1>2, <1>3, Retained

LEMMA Spending == ASSUME oleft \in [OKinds -> Nat], NEW k \in OKinds, O!Spend(k) PROVE oleft' \in [OKinds -> Nat]
BY DEF O!Spend

LEMMA HeldMeans == ASSUME OptimizerTypes PROVE O!Held <=> \E w \in O!Workers : worker[w] \in Works
BY DEF OptimizerTypes, O!Held, Waits, Works

LEMMA OptimizerStart == O!OptimizerInit => OptimizerInv
<1> SUFFICES ASSUME O!OptimizerInit PROVE OptimizerInv
  OBVIOUS
<1>1. /\ setup \in [targets : SUBSET Domains, on : BOOLEAN, health : BOOLEAN]
      /\ disk = O!NoJob.state /\ worker = [w \in O!Workers |-> "rest"] /\ task = O!NoJob /\ put = O!NoPut
      /\ up \in BOOLEAN /\ live = O!NoResults /\ clock = 1 /\ blurred = FALSE /\ died = FALSE /\ oleft = OBudget
  BY DEF O!OptimizerInit
<1>2. clock \in 1 .. OHorizon /\ oleft \in [OKinds -> Nat]
  BY <1>1, OAssumption
<1>3. worker \in [O!Workers -> Waits \cup Works] /\ \A w \in O!Workers : worker[w] = "rest"
  BY <1>1 DEF Waits
<1>4. OptimizerTypes
  BY <1>1, <1>2, <1>3, EmptyRecords DEF OptimizerTypes
<1>5. OneHolder /\ ~O!Held
  BY <1>3 DEF OneHolder, O!Held, Works
<1>6. Known
  <2>1. AtRest
    BY <1>1, EmptyRecords DEF AtRest, InStep, Enabled
  <2> QED
    BY <1>1, <1>3, <1>5, <2>1, EmptyRecords DEF Known
<1> QED
  BY <1>4, <1>5, <1>6 DEF OptimizerInv

LEMMA OptimizerPromises == OptimizerInv => O!OptimizerTypeOK /\ O!EngineFollowsResults /\ O!MarksComeDown
<1> SUFFICES ASSUME OptimizerInv PROVE O!OptimizerTypeOK /\ O!EngineFollowsResults /\ O!MarksComeDown
  OBVIOUS
<1>1. OptimizerTypes /\ OneHolder
  BY DEF OptimizerInv
<1>2. PICK v : {w \in O!Workers : worker[w] \notin {"rest", "scan", "check"}} \in {{}, {v}}
  <2>1. \A w \in O!Workers : worker[w] \notin {"rest", "scan", "check"} => worker[w] \in Works
    BY <1>1 DEF OptimizerTypes, Waits, Works
  <2>2. \A a, b \in {w \in O!Workers : worker[w] \notin {"rest", "scan", "check"}} : a = b
    BY <1>1, <2>1 DEF OneHolder
  <2> QED
    BY <2>2
<1>3. Cardinality({}) = 0 /\ Cardinality({v}) = 1
  BY FS_EmptySet, FS_Singleton
<1>4. Cardinality({w \in O!Workers : worker[w] \notin {"rest", "scan", "check"}}) <= 1
  BY <1>2, <1>3
<1>5. O!OptimizerTypeOK
  BY <1>1, <1>4, SameCount DEF OptimizerTypes, O!OptimizerTypeOK, StateFile, Waits, Works
<1>6. O!Quiet => AtRest
  BY DEF OptimizerInv, Known, O!Quiet
<1> QED
  BY <1>5, <1>6 DEF O!EngineFollowsResults, O!MarksComeDown, O!Quiet, AtRest, InStep, Enabled, Unmarked

----------------------------------------------------------------------------
\* The holder of scanMu goes on, or somebody takes it that is free.
LEMMA Holding ==
  ASSUME OptimizerTypes, OneHolder, NEW w \in O!Workers, NEW pc \in Waits \cup Works, O!Goes(w, pc), worker[w] \in Works \/ ~O!Held
  PROVE  /\ worker' \in [O!Workers -> Waits \cup Works] /\ OneHolder' /\ worker'[w] = pc
         /\ \A v \in O!Workers \ {w} : worker'[v] = worker[v] /\ worker[v] \notin Works
         /\ (\E v \in O!Workers : worker'[v] \in Works) <=> pc \in Works
<1>1. worker \in [O!Workers -> Waits \cup Works]
  BY DEF OptimizerTypes
<1>2. worker' = [worker EXCEPT ![w] = pc]
  BY DEF O!Goes
<1>3. \A v \in O!Workers \ {w} : worker[v] \notin Works
  BY HeldMeans DEF OneHolder
<1>4. worker' \in [O!Workers -> Waits \cup Works] /\ worker'[w] = pc /\ \A v \in O!Workers \ {w} : worker'[v] = worker[v]
  BY <1>1, <1>2
<1> QED
  BY <1>3, <1>4 DEF OneHolder

\* Somebody that does not hold scanMu takes another place before it.
LEMMA Waiting ==
  ASSUME OptimizerTypes, OneHolder, worker' \in [O!Workers -> Waits \cup Works],
         \A w \in O!Workers : worker'[w] = worker[w] \/ (worker[w] \in Waits /\ worker'[w] \in Waits),
         UNCHANGED <<setup, disk, task, put, up, live>>
  PROVE  OneHolder' /\ (O!Held <=> O!Held') /\ (Known => Known')
<1>1. Waits \cap Works = {}
  BY DEF Waits, Works
<1>2. \A w \in O!Workers, pc \in Works : worker'[w] = pc <=> worker[w] = pc
  BY <1>1
<1>3. OneHolder'
  BY <1>2 DEF OneHolder
<1>4. O!Held <=> O!Held'
  <2>1. \A w \in O!Workers : worker'[w] \notin {"rest", "scan", "check"} <=> worker[w] \notin {"rest", "scan", "check"}
    BY DEF Waits
  <2> QED
    BY <2>1 DEF O!Held
<1>5. /\ AtProbing' <=> AtProbing
      /\ AtApply' <=> AtApply
      /\ AtEnds' <=> AtEnds
      /\ AtChecking' <=> AtChecking
      /\ AtRest' <=> AtRest
      /\ AtLoad' <=> AtLoad
      /\ AtPutApply' <=> AtPutApply
      /\ AtLast' <=> AtLast
  BY DEF AtProbing, AtApply, AtEnds, AtChecking, AtRest, AtLoad, AtPutApply, AtLast, InStep, Enabled, Unmarked
<1>6. Known => Known'
  <2>1. \A w \in O!Workers, pc \in {"probing", "apply", "ends", "checking"} : worker'[w] = pc <=> worker[w] = pc
    BY <1>2 DEF Works
  <2> QED
    BY <1>4, <1>5, <2>1 DEF Known
<1> QED
  BY <1>3, <1>4, <1>6

LEMMA WaitersKeep ==
  ASSUME OptimizerInv, O!Tick \/ O!Request \/ \E w \in O!Workers : O!Refused(w)
  PROVE  OptimizerInv'
<1>1. OptimizerTypes /\ OneHolder /\ (~blurred /\ ~died => Known)
  BY DEF OptimizerInv
<1>2. UNCHANGED <<setup, disk, task, put, up, live, blurred, died>>
  BY DEF O!Tick, O!Request, O!Refused
<1>3. worker \in [O!Workers -> Waits \cup Works] /\ "scheduler" \in O!Workers /\ "post" \in O!Workers
  BY <1>1 DEF OptimizerTypes, O!Workers
<1>4. worker' \in [O!Workers -> Waits \cup Works]
      /\ \A w \in O!Workers : worker'[w] = worker[w] \/ (worker[w] \in Waits /\ worker'[w] \in Waits)
  <2>1. CASE O!Tick
    <3>1. \/ worker' = worker
          \/ /\ worker["scheduler"] = "rest"
             /\ \E pc \in Waits : worker' = [worker EXCEPT !["scheduler"] = pc]
      <4> DEFINE pc == IF setup.on /\ clock' >= O!NextRun(disk.lastRun, clock') THEN "scan"
                       ELSE IF O!CheckDue(disk, clock') THEN "check" ELSE "rest"
      <4>1. pc \in Waits
        BY DEF Waits
      <4>2. worker' = (IF worker["scheduler"] # "rest" \/ setup.targets = {} \/ disk.running \/ disk.checking THEN worker
                       ELSE [worker EXCEPT !["scheduler"] = pc])
        BY <2>1 DEF O!Tick
      <4> HIDE DEF pc
      <4> QED
        BY <4>1, <4>2
    <3>2. CASE worker' = worker
      BY <1>3, <3>2
    <3>3. CASE worker["scheduler"] = "rest" /\ \E pc \in Waits : worker' = [worker EXCEPT !["scheduler"] = pc]
      <4>1. PICK pc \in Waits : worker' = [worker EXCEPT !["scheduler"] = pc]
        BY <3>3
      <4>2. "rest" \in Waits
        BY DEF Waits
      <4> QED
        BY <1>3, <3>3, <4>1, <4>2
    <3> QED
      BY <3>1, <3>2, <3>3
  <2>2. CASE O!Request
    <3>1. PICK pc \in {"scan", "check"} : worker["post"] = "rest" /\ worker' = [worker EXCEPT !["post"] = pc]
      BY <2>2 DEF O!Request, O!Goes
    <3>2. pc \in Waits /\ "rest" \in Waits
      BY DEF Waits
    <3> QED
      BY <1>3, <3>1, <3>2
  <2>3. CASE \E w \in O!Workers : O!Refused(w)
    <3>1. PICK w \in O!Workers : worker[w] \in {"scan", "check"} /\ worker' = [worker EXCEPT ![w] = "rest"]
      BY <2>3 DEF O!Refused, O!Goes
    <3>2. worker[w] \in Waits /\ "rest" \in Waits
      BY <3>1 DEF Waits
    <3> QED
      BY <1>3, <3>1, <3>2
  <2> QED
    BY <2>1, <2>2, <2>3
<1>5. clock' \in 1 .. OHorizon
  BY <1>1, OAssumption DEF OptimizerTypes, O!Tick, O!Request, O!Refused
<1>6. oleft' \in [OKinds -> Nat]
  BY <1>1, Spending DEF OptimizerTypes, O!Tick, O!Request, O!Refused, OKinds
<1>7. OptimizerTypes'
  BY <1>1, <1>2, <1>4, <1>5, <1>6 DEF OptimizerTypes
<1>8. OneHolder' /\ (Known => Known')
  BY <1>1, <1>2, <1>4, Waiting
<1> QED
  BY <1>1, <1>2, <1>7, <1>8 DEF OptimizerInv

\* What a step of a worker has to show.
LEMMA WorkerStep ==
  ASSUME OptimizerInv, NEW w \in O!Workers, NEW pc \in Waits \cup Works, O!Goes(w, pc), worker[w] \in Works \/ ~O!Held,
         UNCHANGED <<setup, put, up, clock, died>>, live' \in O!Results, StateFile(disk'),
         DOMAIN task' = {"targets", "state", "before", "dropped"}, task'.targets \subseteq Domains,
         StateFile(task'.state), task'.before \in O!Results, oleft' \in [OKinds -> Nat], blurred' \in {blurred, O!Meets},
         ~blurred /\ ~died /\ Known /\ put.pc = "rest"
           => /\ pc = "probing" => AtProbing'
              /\ pc = "apply" => AtApply'
              /\ pc = "ends" => AtEnds'
              /\ pc = "checking" => AtChecking'
              /\ pc \in Waits => AtRest',
         blurred' = blurred => worker[w] \in Works \/ put.pc = "rest" \/ blurred
  PROVE  OptimizerInv'
<1>1. OptimizerTypes /\ OneHolder /\ (~blurred /\ ~died => Known)
  BY DEF OptimizerInv
<1>2. /\ worker' \in [O!Workers -> Waits \cup Works] /\ OneHolder' /\ worker'[w] = pc
      /\ \A v \in O!Workers \ {w} : worker'[v] = worker[v] /\ worker[v] \notin Works
      /\ (\E v \in O!Workers : worker'[v] \in Works) <=> pc \in Works
  BY <1>1, Holding
<1>3. blurred' \in BOOLEAN /\ (~blurred' => ~blurred)
  BY <1>1 DEF OptimizerTypes, O!Meets
<1>4. OptimizerTypes'
  BY <1>1, <1>2, <1>3 DEF OptimizerTypes
<1>5. ASSUME ~blurred', ~died' PROVE Known'
  <2>1. Known /\ ~blurred /\ ~died
    BY <1>1, <1>3, <1>5
  <2>2. put.pc = "rest"
    <3>1. CASE worker[w] \in Works
      BY <1>1, <2>1, <3>1, HeldMeans DEF Known
    <3>2. CASE worker[w] \notin Works
      BY <1>1, <1>5, <2>1, <3>2 DEF O!Meets
    <3> QED
      BY <3>1, <3>2
  <2>3. O!Held' <=> pc \in Works
    <3>1. O!Held' <=> \E v \in O!Workers : worker'[v] \in Works
      BY <1>2 DEF O!Held, Waits, Works
    <3> QED
      BY <1>2, <3>1
  <2>4. \A v \in O!Workers : worker'[v] \in Works => v = w
    BY <1>2
  <2>5. put'.pc = "rest"
    BY <2>2
  <2>6. pc \in Works \/ pc \in Waits
    OBVIOUS
  <2>7. {"probing", "apply", "ends", "checking"} \subseteq Works
    BY DEF Works
  <2>8. /\ pc = "probing" => AtProbing'
        /\ pc = "apply" => AtApply'
        /\ pc = "ends" => AtEnds'
        /\ pc = "checking" => AtChecking'
        /\ pc \in Waits => AtRest'
    BY <2>1, <2>2
  <2>9. ASSUME NEW v \in O!Workers
        PROVE  /\ worker'[v] = "probing" => AtProbing'
               /\ worker'[v] = "apply" => AtApply'
               /\ worker'[v] = "ends" => AtEnds'
               /\ worker'[v] = "checking" => AtChecking'
    BY <1>2, <2>4, <2>7, <2>8
  <2> QED
    BY <2>3, <2>5, <2>6, <2>8, <2>9 DEF Known
<1> QED
  BY <1>1, <1>2, <1>4, <1>5 DEF OptimizerInv

LEMMA ScanBeginsKeeps == ASSUME OptimizerInv, NEW w \in O!Workers, O!ScanBegins(w) \/ O!CheckBegins(w) PROVE OptimizerInv'
<1>1. OptimizerTypes
  BY DEF OptimizerInv
<1> DEFINE s == IF O!ScanBegins(w) THEN [disk EXCEPT !.running = TRUE, !.checking = FALSE] ELSE [disk EXCEPT !.checking = TRUE]
           pc == IF O!ScanBegins(w) THEN "probing" ELSE "checking"
<1>2. /\ ~O!Held /\ O!Goes(w, pc) /\ disk' = s /\ blurred' = O!Meets
      /\ task' = [O!NoJob EXCEPT !.targets = setup.targets, !.state = s, !.before = disk.results]
      /\ UNCHANGED <<setup, put, up, live, clock, died, oleft>>
  BY DEF O!ScanBegins, O!CheckBegins
<1>3. StateFile(disk) /\ disk.results \in O!Results
  BY <1>1 DEF OptimizerTypes, StateFile
<1>4. /\ StateFile(s) /\ s.results = disk.results
      /\ (pc = "probing" => ~s.checking) /\ (pc = "checking" => s.running = disk.running)
  BY <1>3 DEF StateFile
<1>5. pc \in {"probing", "checking"} /\ pc \in Works /\ pc \notin Waits /\ "apply" # pc /\ "ends" # pc
  BY DEF Works, Waits
<1> HIDE DEF s, pc
<1>6. /\ DOMAIN task' = {"targets", "state", "before", "dropped"} /\ task'.targets = setup.targets
      /\ task'.state = s /\ task'.before = disk.results
  BY <1>2, EmptyRecords
<1>7. ASSUME ~blurred, ~died, Known, put.pc = "rest"
      PROVE  (pc = "probing" => AtProbing') /\ (pc = "checking" => AtChecking')
  <2>1. InStep(disk.results) /\ Unmarked(disk)
    BY <1>2, <1>7 DEF Known, AtRest
  <2>2. InStep(disk.results)'
    BY <1>2, <1>4, <2>1 DEF InStep, Enabled
  <2> QED
    BY <1>2, <1>4, <1>6, <2>1, <2>2 DEF AtProbing, AtChecking, Unmarked
<1>8. setup.targets \subseteq Domains /\ live' \in O!Results /\ oleft' \in [OKinds -> Nat]
  BY <1>1, <1>2 DEF OptimizerTypes
<1>9. blurred' = blurred => put.pc = "rest" \/ blurred
  BY <1>1, <1>2 DEF O!Meets, OptimizerTypes
<1> QED
  BY <1>2, <1>3, <1>4, <1>5, <1>6, <1>7, <1>8, <1>9, WorkerStep

LEMMA ScanAnswersKeeps == ASSUME OptimizerInv, NEW w \in O!Workers, O!ScanAnswers(w) PROVE OptimizerInv'
<1>1. OptimizerTypes
  BY DEF OptimizerInv
<1>2. PICK got \in O!Results, rejected \in SUBSET task.targets :
        LET merged == O!Merge(task.before, got, rejected, task.targets)
            s      == [task.state EXCEPT !.results = merged]
        IN /\ task' = [task EXCEPT !.state = s, !.dropped = rejected]
           /\ IF merged # task.before THEN disk' = s /\ O!Goes(w, "apply") ELSE UNCHANGED disk /\ O!Goes(w, "ends")
  BY DEF O!ScanAnswers
<1> DEFINE merged == O!Merge(task.before, got, rejected, task.targets)
           s      == [task.state EXCEPT !.results = merged]
<1>3. /\ StateFile(disk) /\ StateFile(task.state) /\ task.before \in O!Results /\ task.targets \subseteq Domains
      /\ DOMAIN task = {"targets", "state", "before", "dropped"}
  BY <1>1 DEF OptimizerTypes
<1>4. merged \in O!Results /\ \A d \in Domains \ task.targets : merged[d] = NoAddress
  BY <1>3, Merged
<1> HIDE DEF merged
<1>5. StateFile(s) /\ s.results = merged /\ s.checking = task.state.checking
  BY <1>3, <1>4 DEF StateFile
<1>6. /\ task' = [task EXCEPT !.state = s, !.dropped = rejected]
      /\ IF merged # task.before THEN disk' = s /\ O!Goes(w, "apply") ELSE UNCHANGED disk /\ O!Goes(w, "ends")
  BY <1>2 DEF merged
<1> HIDE DEF s
<1>7. /\ DOMAIN task' = {"targets", "state", "before", "dropped"} /\ task'.targets = task.targets
      /\ task'.state = s /\ task'.before = task.before
  BY <1>3, <1>6
<1>8. worker[w] = "probing" /\ blurred' = O!Meets /\ UNCHANGED <<setup, put, up, live, clock, died, oleft>>
  BY DEF O!ScanAnswers
<1>9. worker[w] \in Works /\ {"apply", "ends"} \subseteq Works /\ {"apply", "ends"} \cap Waits = {}
  BY <1>8 DEF Works, Waits
<1>10. live' \in O!Results /\ oleft' \in [OKinds -> Nat]
  BY <1>1, <1>8 DEF OptimizerTypes
<1>11. ASSUME ~blurred, ~died, Known PROVE AtProbing /\ Enabled(merged)
  <2>1. AtProbing
    BY <1>8, <1>11 DEF Known
  <2> QED
    BY <1>4, <2>1 DEF Enabled, AtProbing
<1>12. CASE merged # task.before
  <2>1. disk' = s /\ O!Goes(w, "apply")
    BY <1>6, <1>12
  <2>2. ASSUME ~blurred, ~died, Known PROVE AtApply'
    <3>1. AtProbing /\ Enabled(merged)
      BY <1>11, <2>2
    <3>2. \A d \in Domains \ setup'.targets : disk'.results[d] = NoAddress
      BY <1>5, <1>8, <2>1, <3>1 DEF Enabled
    <3>3. InStep(task.before)'
      BY <1>7, <1>8, <3>1 DEF AtProbing, InStep, Enabled
    <3>4. task'.state = disk' /\ ~disk'.checking
      BY <1>5, <1>7, <2>1, <3>1 DEF AtProbing
    <3> QED
      BY <3>2, <3>3, <3>4 DEF AtApply, Enabled
  <2> QED
    BY <1>3, <1>5, <1>7, <1>8, <1>9, <1>10, <2>1, <2>2, WorkerStep
<1>13. CASE merged = task.before
  <2>1. disk' = disk /\ O!Goes(w, "ends")
    BY <1>6, <1>13
  <2>2. ASSUME ~blurred, ~died, Known PROVE AtEnds'
    <3>1. AtProbing /\ Enabled(merged)
      BY <1>11, <2>2
    <3> QED
      BY <1>5, <1>7, <1>8, <1>13, <2>1, <3>1 DEF AtProbing, AtEnds, InStep, Enabled
  <2> QED
    BY <1>3, <1>5, <1>7, <1>8, <1>9, <1>10, <2>1, <2>2, WorkerStep
<1> QED
  BY <1>12, <1>13

\* The file, when a worker is through with it.
LEMMA WorkerDone ==
  ASSUME OptimizerInv, NEW w \in O!Workers, NEW pc \in Waits, O!Goes(w, pc), worker[w] \in Works,
         UNCHANGED <<setup, put, up, clock, died>>, live' \in O!Results, task' = O!NoJob, oleft' \in [OKinds -> Nat],
         blurred' = O!Meets, NEW s, StateFile(s), disk' = O!Populated(s, task.targets),
         ~blurred /\ ~died /\ Known => Unmarked(s) /\ (up => live' = s.results) /\ Enabled(s.results)
  PROVE  OptimizerInv'
<1>1. /\ StateFile(disk') /\ disk'.results = s.results /\ disk'.running = s.running /\ disk'.checking = s.checking
  BY Dated
<1>2. ASSUME ~blurred, ~died, Known PROVE AtRest'
  BY <1>1, <1>2 DEF AtRest, InStep, Enabled, Unmarked
<1>3. pc \notin Works /\ pc # "probing" /\ pc # "apply" /\ pc # "ends" /\ pc # "checking"
  BY DEF Waits, Works
<1> QED
  BY <1>1, <1>2, <1>3, EmptyRecords, WorkerStep

LEMMA ScanFailsKeeps == ASSUME OptimizerInv, NEW w \in O!Workers, O!ScanFails(w) PROVE OptimizerInv'
<1>1. OptimizerTypes /\ worker[w] = "probing" /\ "probing" \in Works /\ "rest" \in Waits
  BY DEF OptimizerInv, O!ScanFails, Works, Waits
<1>2. /\ disk' = O!Populated(O!Finished(task.state), task.targets) /\ task' = O!NoJob /\ O!Goes(w, "rest") /\ blurred' = O!Meets
      /\ UNCHANGED <<setup, put, up, live, clock, died>>
  BY DEF O!ScanFails
<1>3. oleft' \in [OKinds -> Nat] /\ live' \in O!Results
  BY <1>1, <1>2, Spending DEF O!ScanFails, OptimizerTypes, OKinds
<1>4. /\ StateFile(O!Finished(task.state)) /\ O!Finished(task.state).results = task.state.results
      /\ ~O!Finished(task.state).running /\ O!Finished(task.state).checking = task.state.checking
  BY <1>1, Finishing DEF OptimizerTypes
<1>5. ~blurred /\ ~died /\ Known => task.state = disk /\ ~disk.checking /\ InStep(disk.results)
  BY <1>1 DEF Known, AtProbing
<1> QED
  BY <1>1, <1>2, <1>3, <1>4, <1>5, WorkerDone DEF InStep, Unmarked

LEMMA ScanAppliesKeeps == ASSUME OptimizerInv, NEW w \in O!Workers, O!ScanApplies(w) PROVE OptimizerInv'
<1>1. OptimizerTypes /\ worker[w] = "apply" /\ "apply" \in Works /\ "ends" \in Works /\ "ends" \notin Waits
  BY DEF OptimizerInv, O!ScanApplies, Works, Waits
<1>2. /\ live' = (IF up THEN disk.results ELSE live) /\ O!Goes(w, "ends")
      /\ UNCHANGED <<setup, disk, task, put, up, clock, blurred, died, oleft>>
  BY DEF O!ScanApplies
<1>3. oleft' \in [OKinds -> Nat] /\ live' \in O!Results
  BY <1>1, <1>2 DEF OptimizerTypes, StateFile
<1>4. ASSUME ~blurred, ~died, Known PROVE AtEnds'
  <2>1. AtApply
    BY <1>1, <1>4 DEF Known
  <2> QED
    BY <1>2, <2>1 DEF AtApply, AtEnds, InStep, Enabled
<1>5. /\ DOMAIN task' = {"targets", "state", "before", "dropped"} /\ task'.targets \subseteq Domains
      /\ StateFile(task'.state) /\ task'.before \in O!Results /\ StateFile(disk')
  BY <1>1, <1>2 DEF OptimizerTypes
<1> QED
  BY <1>1, <1>2, <1>3, <1>4, <1>5, WorkerStep

LEMMA ScanApplyFailsKeeps == ASSUME OptimizerInv, NEW w \in O!Workers, O!ScanApplyFails(w) PROVE OptimizerInv'
<1>1. OptimizerTypes /\ worker[w] = "apply" /\ "apply" \in Works /\ "rest" \in Waits
  BY DEF OptimizerInv, O!ScanApplyFails, Works, Waits
<1>2. /\ disk' = O!Populated(O!Finished(O!TakenBack), task.targets) /\ task' = O!NoJob /\ O!Goes(w, "rest") /\ blurred' = O!Meets
      /\ UNCHANGED <<setup, put, up, clock, died>> /\ live' \in {live, O!TakenBack.results}
  BY DEF O!ScanApplyFails
<1>3. StateFile(O!TakenBack) /\ O!TakenBack.results = task.before /\ O!TakenBack.checking = task.state.checking
  BY <1>1 DEF OptimizerTypes, StateFile, O!TakenBack
<1>4. oleft' \in [OKinds -> Nat] /\ live' \in O!Results
  BY <1>1, <1>2, <1>3, Spending DEF O!ScanApplyFails, OptimizerTypes, OKinds
<1>5. /\ StateFile(O!Finished(O!TakenBack)) /\ O!Finished(O!TakenBack).results = task.before
      /\ ~O!Finished(O!TakenBack).running /\ O!Finished(O!TakenBack).checking = task.state.checking
  BY <1>3, Finishing
<1>6. ~blurred /\ ~died /\ Known => ~task.state.checking /\ InStep(task.before)
  BY <1>1 DEF Known, AtApply
<1>7. ~blurred /\ ~died /\ Known => (up => live' = task.before)
  BY <1>2, <1>3, <1>6 DEF InStep
<1> QED
  BY <1>1, <1>2, <1>4, <1>5, <1>6, <1>7, WorkerDone DEF InStep, Unmarked

LEMMA ScanEndsKeeps == ASSUME OptimizerInv, NEW w \in O!Workers, O!ScanEnds(w) PROVE OptimizerInv'
<1>1. OptimizerTypes /\ worker[w] = "ends" /\ "ends" \in Works /\ "rest" \in Waits
  BY DEF OptimizerInv, O!ScanEnds, Works, Waits
<1> DEFINE s == [task.state EXCEPT !.lastCheck = clock]
<1>2. /\ disk' = O!Populated(O!Finished(s), task.targets) /\ task' = O!NoJob /\ O!Goes(w, "rest") /\ blurred' = O!Meets
      /\ UNCHANGED <<setup, put, up, live, clock, died, oleft>>
  BY DEF O!ScanEnds
<1>3. StateFile(s) /\ s.results = task.state.results /\ s.checking = task.state.checking
  BY <1>1 DEF OptimizerTypes, StateFile
<1> HIDE DEF s
<1>4. oleft' \in [OKinds -> Nat] /\ live' \in O!Results
  BY <1>1, <1>2 DEF OptimizerTypes
<1>5. /\ StateFile(O!Finished(s)) /\ O!Finished(s).results = task.state.results
      /\ ~O!Finished(s).running /\ O!Finished(s).checking = task.state.checking
  BY <1>3, Finishing
<1>6. ~blurred /\ ~died /\ Known => ~task.state.checking /\ InStep(task.state.results)
  BY <1>1 DEF Known, AtEnds
<1> QED
  BY <1>1, <1>2, <1>4, <1>5, <1>6, WorkerDone DEF InStep, Unmarked

LEMMA CheckEndsKeeps == ASSUME OptimizerInv, NEW w \in O!Workers, O!CheckEnds(w) PROVE OptimizerInv'
<1>1. OptimizerTypes /\ worker[w] = "checking" /\ "checking" \in Works
  BY DEF OptimizerInv, O!CheckEnds, Works
<1> DEFINE s == [task.state EXCEPT !.checking = FALSE, !.lastCheck = clock]
<1>2. /\ disk' = O!Populated(s, task.targets) /\ task' = O!NoJob /\ blurred' = O!Meets
      /\ UNCHANGED <<setup, put, up, live, clock, died, oleft>>
  BY DEF O!CheckEnds
<1>3. PICK pc \in Waits : O!Goes(w, pc)
  <2>1. PICK unhealthy \in BOOLEAN : O!Goes(w, IF unhealthy THEN "scan" ELSE "rest")
    BY DEF O!CheckEnds
  <2> QED
    BY <2>1 DEF Waits
<1>4. StateFile(s) /\ s.results = task.state.results /\ s.running = task.state.running /\ ~s.checking
  BY <1>1 DEF OptimizerTypes, StateFile
<1> HIDE DEF s
<1>5. oleft' \in [OKinds -> Nat] /\ live' \in O!Results
  BY <1>1, <1>2 DEF OptimizerTypes
<1>6. ~blurred /\ ~died /\ Known => task.state = disk /\ ~disk.running /\ InStep(disk.results)
  BY <1>1 DEF Known, AtChecking
<1> QED
  BY <1>1, <1>2, <1>3, <1>4, <1>5, <1>6, WorkerDone DEF InStep, Unmarked

\* What a step of the PUT has to show.
LEMMA PutStep ==
  ASSUME OptimizerInv, UNCHANGED <<worker, task, up, clock, died>>, blurred' \in BOOLEAN, ~blurred' => ~blurred /\ ~O!Held,
         setup' \in [targets : SUBSET Domains, on : BOOLEAN, health : BOOLEAN], live' \in O!Results, StateFile(disk'),
         DOMAIN put' = {"pc", "copy", "before"}, put'.pc \in {"rest", "load", "apply", "last"}, StateFile(put'.copy),
         put'.before \in O!Results, oleft' \in [OKinds -> Nat],
         ~blurred' /\ ~died /\ Known
           => /\ put'.pc = "rest" => AtRest'
              /\ put'.pc = "load" => AtLoad'
              /\ put'.pc = "apply" => AtPutApply'
              /\ put'.pc = "last" => AtLast'
  PROVE  OptimizerInv'
<1>1. OptimizerTypes /\ OneHolder /\ (~blurred /\ ~died => Known)
  BY DEF OptimizerInv
<1>2. OptimizerTypes'
  BY <1>1 DEF OptimizerTypes
<1>3. OneHolder'
  BY <1>1 DEF OneHolder
<1>4. ASSUME ~blurred', ~died' PROVE Known'
  <2>1. ~O!Held' /\ Known
    BY <1>1, <1>4 DEF O!Held
  <2>2. \A w \in O!Workers : worker'[w] \in {"rest", "scan", "check"}
    BY <2>1 DEF O!Held
  <2> QED
    BY <1>4, <2>1, <2>2 DEF Known
<1> QED
  BY <1>2, <1>3, <1>4 DEF OptimizerInv

LEMMA PutConfigKeeps == ASSUME OptimizerInv, O!PutConfig PROVE OptimizerInv'
<1>1. OptimizerTypes
  BY DEF OptimizerInv
<1>2. put.pc = "rest" /\ blurred' = (blurred \/ O!Held) /\ UNCHANGED <<disk, worker, task, up, live, clock, died>>
      /\ put' = [O!NoPut EXCEPT !.pc = "load"]
  BY DEF O!PutConfig
<1>3. setup' \in [targets : SUBSET Domains, on : BOOLEAN, health : BOOLEAN]
  BY <1>1 DEF O!PutConfig, OptimizerTypes
<1>4. oleft' \in [OKinds -> Nat]
  BY <1>1, Spending DEF O!PutConfig, OptimizerTypes, OKinds
<1>5. /\ DOMAIN put' = {"pc", "copy", "before"} /\ put'.pc = "load" /\ StateFile(put'.copy) /\ put'.before \in O!Results
  BY <1>2, EmptyRecords
<1>6. blurred' \in BOOLEAN
  BY <1>1, <1>2 DEF OptimizerTypes
<1>7. ~blurred' /\ ~died /\ Known => AtLoad'
  BY <1>2 DEF Known, AtRest, AtLoad, InStep, Unmarked
<1> QED
  BY <1>1, <1>2, <1>3, <1>4, <1>5, <1>6, <1>7, PutStep DEF OptimizerTypes

LEMMA PutFiltersKeeps == ASSUME OptimizerInv, O!PutFilters PROVE OptimizerInv'
<1>1. OptimizerTypes
  BY DEF OptimizerInv
<1> DEFINE r == O!RetainEnabled(disk.results, setup.targets)
           s == [disk EXCEPT !.results = r]
<1>2. /\ put.pc = "load" /\ blurred' = (blurred \/ O!Held) /\ UNCHANGED <<setup, worker, task, up, live, clock, died, oleft>>
      /\ put' = [pc |-> IF s # disk THEN "apply" ELSE "last", copy |-> s, before |-> disk.results] /\ disk' = s
  BY DEF O!PutFilters
<1>3. r \in O!Results /\ \A d \in Domains \ setup.targets : r[d] = NoAddress
  BY <1>1, Retained DEF OptimizerTypes, StateFile
<1> HIDE DEF r
<1>4. StateFile(s) /\ s.results = r /\ s.running = disk.running /\ s.checking = disk.checking
  BY <1>1, <1>3 DEF OptimizerTypes, StateFile
<1>5. s = disk => r = disk.results
  BY <1>4
<1> HIDE DEF s
<1>6. /\ DOMAIN put' = {"pc", "copy", "before"} /\ put'.pc = (IF s # disk THEN "apply" ELSE "last")
      /\ put'.copy = s /\ put'.before = disk.results
  BY <1>2
<1>7. ASSUME ~blurred', ~died, Known
      PROVE  (put'.pc = "apply" => AtPutApply') /\ (put'.pc = "last" => AtLast')
  <2>1. AtLoad
    BY <1>2, <1>7 DEF Known
  <2>2. /\ disk'.results = r /\ put'.copy.results = r /\ put'.copy = disk' /\ up' = up /\ live' = live
        /\ \A d \in Domains \ setup'.targets : r[d] = NoAddress
    BY <1>2, <1>3, <1>4, <1>6
  <2>3. ~disk'.running /\ ~disk'.checking /\ ~put'.copy.running /\ ~put'.copy.checking
    BY <1>2, <1>4, <1>6, <2>1 DEF AtLoad, Unmarked
  <2>4. AtPutApply'
    BY <2>2, <2>3 DEF AtPutApply, Unmarked, Enabled
  <2>5. ASSUME put'.pc = "last" PROVE AtLast'
    <3>1. r = disk.results
      BY <1>5, <1>6, <2>5
    <3>2. up' => live' = r
      BY <2>1, <2>2, <3>1 DEF AtLoad
    <3> QED
      BY <2>2, <2>3, <3>2 DEF AtLast, InStep, Unmarked, Enabled
  <2> QED
    BY <2>4, <2>5
<1>8. blurred' \in BOOLEAN /\ disk.results \in O!Results /\ live' \in O!Results /\ oleft' \in [OKinds -> Nat]
      /\ setup' \in [targets : SUBSET Domains, on : BOOLEAN, health : BOOLEAN]
  BY <1>1, <1>2 DEF OptimizerTypes, StateFile
<1> QED
  BY <1>2, <1>4, <1>6, <1>7, <1>8, PutStep

LEMMA PutAppliesKeeps == ASSUME OptimizerInv, O!PutApplies PROVE OptimizerInv'
<1>1. OptimizerTypes /\ (~blurred /\ ~died => Known)
  BY DEF OptimizerInv
<1>2. /\ put.pc = "apply" /\ live' = (IF up THEN disk.results ELSE live) /\ put' = [put EXCEPT !.pc = "last"]
      /\ UNCHANGED <<setup, disk, worker, task, up, clock, blurred, died, oleft>>
  BY DEF O!PutApplies
<1>3. DOMAIN put' = {"pc", "copy", "before"} /\ put'.pc = "last" /\ put'.copy = put.copy /\ put'.before = put.before
  BY <1>1, <1>2 DEF OptimizerTypes
<1>4. live' \in O!Results /\ oleft' \in [OKinds -> Nat] /\ blurred' \in BOOLEAN
      /\ setup' \in [targets : SUBSET Domains, on : BOOLEAN, health : BOOLEAN]
      /\ StateFile(put'.copy) /\ put'.before \in O!Results /\ StateFile(disk')
  BY <1>1, <1>2, <1>3 DEF OptimizerTypes, StateFile
<1>5. CASE ~blurred /\ ~died
  <2>1. Known /\ ~O!Held
    BY <1>1, <1>2, <1>5 DEF Known
  <2>2. AtPutApply
    BY <1>2, <2>1 DEF Known
  <2>3. AtLast'
    BY <1>2, <1>3, <2>2 DEF AtPutApply, AtLast, InStep, Enabled, Unmarked
  <2> QED
    BY <1>2, <1>3, <1>4, <2>1, <2>3, PutStep
<1>6. CASE ~(~blurred /\ ~died)
  <2>1. OptimizerTypes'
    BY <1>1, <1>2, <1>3, <1>4 DEF OptimizerTypes
  <2>2. OneHolder'
    BY <1>2 DEF OptimizerInv, OneHolder
  <2> QED
    BY <1>2, <1>6, <2>1, <2>2 DEF OptimizerInv
<1> QED
  BY <1>5, <1>6

LEMMA PutDoneKeeps == ASSUME OptimizerInv, O!PutApplyFails \/ O!PutEnds PROVE OptimizerInv'
<1>1. OptimizerTypes
  BY DEF OptimizerInv
<1>2. put' = O!NoPut /\ UNCHANGED <<setup, worker, task, up, live, clock, died>>
  BY DEF O!PutApplyFails, O!PutEnds
<1>3. oleft' \in [OKinds -> Nat] /\ live' \in O!Results /\ setup' \in [targets : SUBSET Domains, on : BOOLEAN, health : BOOLEAN]
  BY <1>1, <1>2, Spending DEF O!PutApplyFails, O!PutEnds, OptimizerTypes, OKinds
<1>4. CASE O!PutApplyFails
  <2>1. disk' = [put.copy EXCEPT !.results = put.before] /\ blurred' = TRUE
    BY <1>4 DEF O!PutApplyFails
  <2>2. StateFile(disk')
    BY <1>1, <2>1 DEF OptimizerTypes, StateFile
  <2> QED
    BY <1>2, <1>3, <2>1, <2>2, EmptyRecords, PutStep
<1>5. CASE O!PutEnds
  <2>1. put.pc = "last" /\ disk' = O!Populated(put.copy, setup.targets) /\ blurred' = (blurred \/ O!Held)
    BY <1>5 DEF O!PutEnds
  <2>2. /\ StateFile(disk') /\ disk'.results = put.copy.results
        /\ disk'.running = put.copy.running /\ disk'.checking = put.copy.checking
    BY <1>1, <2>1, Dated DEF OptimizerTypes
  <2>3. blurred' \in BOOLEAN
    BY <1>1, <2>1 DEF OptimizerTypes
  <2>4. ~blurred' /\ ~died /\ Known => AtRest'
    BY <1>2, <2>1, <2>2 DEF Known, AtLast, AtRest, InStep, Enabled, Unmarked
  <2> QED
    BY <1>2, <1>3, <2>1, <2>2, <2>3, <2>4, EmptyRecords, PutStep
<1> QED
  BY <1>4, <1>5

LEMMA StopsKeep == ASSUME OptimizerInv, O!Dies \/ O!GatewayStops PROVE OptimizerInv'
<1>1. OptimizerTypes /\ OneHolder /\ (~blurred /\ ~died => Known)
  BY DEF OptimizerInv
<1>2. UNCHANGED <<setup, disk, clock, blurred>>
  BY DEF O!Dies, O!GatewayStops
<1>3. oleft' \in [OKinds -> Nat]
  BY <1>1, Spending DEF O!Dies, O!GatewayStops, OptimizerTypes, OKinds
<1>4. CASE O!Dies
  <2>1. worker' = [w \in O!Workers |-> "rest"] /\ task' = O!NoJob /\ put' = O!NoPut /\ died' = TRUE /\ UNCHANGED <<up, live>>
    BY <1>4 DEF O!Dies
  <2>2. "rest" \in Waits /\ "rest" \notin Works
    BY DEF Waits, Works
  <2>3. OptimizerTypes'
    BY <1>1, <1>2, <1>3, <2>1, <2>2, EmptyRecords DEF OptimizerTypes
  <2> QED
    BY <2>1, <2>2, <2>3 DEF OptimizerInv, OneHolder
<1>5. CASE O!GatewayStops
  <2>1. up' = FALSE /\ live' = O!NoResults /\ UNCHANGED <<worker, task, put, died>>
    BY <1>5 DEF O!GatewayStops
  <2>2. OptimizerTypes'
    BY <1>1, <1>2, <1>3, <2>1, EmptyRecords DEF OptimizerTypes
  <2>3. \A w \in O!Workers : worker'[w] = worker[w]
    BY <2>1
  <2>4. O!Held' <=> O!Held
    BY <2>1 DEF O!Held
  <2>5. /\ AtProbing => AtProbing'
        /\ AtApply => AtApply'
        /\ AtEnds => AtEnds'
        /\ AtChecking => AtChecking'
        /\ AtRest => AtRest'
        /\ AtLoad => AtLoad'
        /\ AtPutApply => AtPutApply'
        /\ AtLast => AtLast'
    BY <1>2, <2>1 DEF AtProbing, AtApply, AtEnds, AtChecking, AtRest, AtLoad, AtPutApply, AtLast, InStep, Enabled, Unmarked
  <2>6. Known => Known'
    BY <2>1, <2>3, <2>4, <2>5 DEF Known
  <2> QED
    BY <1>1, <1>2, <2>1, <2>2, <2>6 DEF OptimizerInv, OneHolder
<1> QED
  BY <1>4, <1>5

LEMMA OptimizerKept == OptimizerInv /\ [O!OptimizerNext]_(O!ovars) => OptimizerInv'
<1> SUFFICES ASSUME OptimizerInv, [O!OptimizerNext]_(O!ovars) PROVE OptimizerInv'
  OBVIOUS
<1>1. CASE UNCHANGED O!ovars
  <2>1. UNCHANGED <<setup, disk, worker, task, put, up, live, clock, blurred, died, oleft>>
    BY <1>1 DEF O!ovars
  <2>2. OptimizerTypes /\ OneHolder /\ (~blurred /\ ~died => Known)
    BY DEF OptimizerInv
  <2>3. OptimizerTypes'
    BY <2>1, <2>2 DEF OptimizerTypes
  <2>4. worker' \in [O!Workers -> Waits \cup Works] /\ \A w \in O!Workers : worker'[w] = worker[w]
    BY <2>1, <2>2 DEF OptimizerTypes
  <2>5. OneHolder' /\ (Known => Known')
    BY <2>1, <2>2, <2>4, Waiting
  <2> QED
    BY <2>1, <2>2, <2>3, <2>5 DEF OptimizerInv
<1>2. CASE O!OptimizerNext
  BY <1>2, WaitersKeep, ScanBeginsKeeps, ScanAnswersKeeps, ScanFailsKeeps, ScanAppliesKeeps, ScanApplyFailsKeeps,
     ScanEndsKeeps, CheckEndsKeeps, PutConfigKeeps, PutFiltersKeeps, PutAppliesKeeps, PutDoneKeeps, StopsKeep
     DEF O!OptimizerNext
<1> QED
  BY <1>1, <1>2

\* A scan that ends otherwise than by an answer changes no result, and an answer
\* loses only what the probes rejected.
LEMMA ScanForgets ==
  ASSUME OptimizerInv, [O!OptimizerNext]_(O!ovars), NEW w \in O!Workers, worker[w] = "probing", worker'[w] # "probing",
         ~blurred', ~died', NEW d \in setup.targets, disk.results[d] # NoAddress
  PROVE  d \in task'.dropped \/ disk'.results[d] # NoAddress
<1>1. OptimizerTypes /\ OneHolder /\ (~blurred /\ ~died => Known)
  BY DEF OptimizerInv
<1>2. worker[w] \in Works /\ worker \in [O!Workers -> Waits \cup Works] /\ {"rest", "scan", "check"} = Waits /\ Waits \cap Works = {}
      /\ O!Held
  BY <1>1, HeldMeans DEF OptimizerTypes, Waits, Works
<1>3. PICK v \in O!Workers : \/ O!Refused(v) \/ O!ScanBegins(v) \/ O!ScanFails(v) \/ O!ScanAnswers(v) \/ O!ScanApplies(v)
                             \/ O!ScanApplyFails(v) \/ O!ScanEnds(v) \/ O!CheckBegins(v) \/ O!CheckEnds(v)
  <2>1. worker' # worker
    OBVIOUS
  <2>2. ~O!Tick /\ ~O!Request
    BY <1>2 DEF O!Tick, O!Request, O!Goes, OptimizerTypes, O!Workers
  <2> QED
    BY <2>1, <2>2 DEF O!OptimizerNext, O!ovars, O!PutConfig, O!PutFilters, O!PutApplies, O!PutApplyFails, O!PutEnds, O!Dies, O!GatewayStops
<1>4. v = w
  <2>1. \E pc \in {"rest", "scan", "probing", "apply", "ends", "checking"} : worker' = [worker EXCEPT ![v] = pc]
    BY <1>3 DEF O!Refused, O!ScanBegins, O!ScanFails, O!ScanAnswers, O!ScanApplies, O!ScanApplyFails, O!ScanEnds, O!CheckBegins, O!CheckEnds, O!Goes
  <2> QED
    BY <1>2, <2>1
<1>5. O!ScanFails(w) \/ O!ScanAnswers(w)
  BY <1>3, <1>4 DEF O!Refused, O!ScanBegins, O!ScanApplies, O!ScanApplyFails, O!ScanEnds, O!CheckBegins, O!CheckEnds
<1>6. ~blurred /\ ~died
  <2>1. blurred' = O!Meets /\ died' = died
    BY <1>5 DEF O!ScanFails, O!ScanAnswers
  <2> QED
    BY <2>1 DEF O!Meets
<1>7. AtProbing
  BY <1>1, <1>6 DEF Known
<1>8. d \in Domains /\ d \in task.targets /\ task.before[d] # NoAddress
  BY <1>1, <1>7 DEF OptimizerTypes, AtProbing
<1>9. CASE O!ScanFails(w)
  <2>1. StateFile(task.state) /\ StateFile(O!Finished(task.state)) /\ O!Finished(task.state).results = task.state.results
    BY <1>1, Finishing DEF OptimizerTypes
  <2>2. disk'.results = task.state.results
    BY <1>9, <2>1, Dated DEF O!ScanFails
  <2> QED
    BY <1>7, <2>2 DEF AtProbing
<1>10. CASE O!ScanAnswers(w)
  <2>1. PICK got \in O!Results, rejected \in SUBSET task.targets :
          LET merged == O!Merge(task.before, got, rejected, task.targets)
              s      == [task.state EXCEPT !.results = merged]
          IN /\ task' = [task EXCEPT !.state = s, !.dropped = rejected]
             /\ IF merged # task.before THEN disk' = s /\ O!Goes(w, "apply") ELSE UNCHANGED disk /\ O!Goes(w, "ends")
    BY <1>10 DEF O!ScanAnswers
  <2> DEFINE merged == O!Merge(task.before, got, rejected, task.targets)
  <2>2. task.before \in O!Results /\ DOMAIN task = {"targets", "state", "before", "dropped"} /\ StateFile(task.state)
    BY <1>1 DEF OptimizerTypes
  <2>3. d \notin rejected => merged[d] # NoAddress
    BY <1>8, <2>2, Merged
  <2>4. /\ task' = [task EXCEPT !.state = [task.state EXCEPT !.results = merged], !.dropped = rejected]
        /\ IF merged # task.before THEN disk' = [task.state EXCEPT !.results = merged] ELSE disk' = disk
    BY <2>1
  <2> HIDE DEF merged
  <2>5. task'.dropped = rejected
    BY <2>2, <2>4
  <2>6. disk'.results = merged
    <3>1. CASE merged # task.before
      BY <2>2, <2>4, <3>1 DEF StateFile
    <3>2. CASE merged = task.before
      BY <1>7, <2>4, <3>2 DEF AtProbing
    <3> QED
      BY <3>1, <3>2
  <2> QED
    BY <2>3, <2>5, <2>6
<1> QED
  BY <1>5, <1>9, <1>10

----------------------------------------------------------------------------
(* The controllers together.                                              *)

\* Every controller keeps its own invariant; while another one moves it stands still.
ControlInv ==
  /\ TakeoverInv /\ SourceInv /\ OptimizerInv /\ WebInv /\ DeploymentInv /\ SleepInv /\ EngineInv /\ ImageInv
  /\ WatchInv

\* Only the controller at work changes its files, processes and requests.
LEMMA StepsOfEach ==
  ASSUME [Next]_controllers
  PROVE  /\ [T!TakeoverNext]_(T!tvars) /\ [S!SourceNext]_(S!svars) /\ [O!OptimizerNext]_(O!ovars)
         /\ [W!WebNext]_(W!wvars) /\ [D!DeploymentNext]_(D!dvars) /\ [A!SleepNext]_(A!avars)
         /\ [P!PreparedNext]_(P!pvars) /\ [I!ImageNext]_(I!ivars) /\ [N!WatchNext]_(N!nvars)
<1> USE DEF Next, controllers, Takeover, SourceStep, LayerStep, OptimizerStep, ScanStep, WebStep, DeploymentStep,
        SleepStep, EngineStep, ImageStep, WatchStep
<1>1. T!TakeoverNext \/ UNCHANGED takeoverVars
  OBVIOUS
<1>2. S!SourceNext \/ UNCHANGED sourcesVars
  OBVIOUS
<1>3. O!OptimizerNext \/ UNCHANGED optimizerVars
  OBVIOUS
<1>4. W!WebNext \/ UNCHANGED webVars
  OBVIOUS
<1>5. D!DeploymentNext \/ UNCHANGED deploymentVars
  OBVIOUS
<1>6. A!SleepNext \/ UNCHANGED sleepVars
  OBVIOUS
<1>7. P!PreparedNext \/ UNCHANGED engineVars
  OBVIOUS
<1>8. I!ImageNext \/ UNCHANGED imageVars
  OBVIOUS
<1>9. N!WatchNext \/ UNCHANGED watchVars
  OBVIOUS
<1> HIDE DEF Next, controllers, Takeover, SourceStep, LayerStep, OptimizerStep, ScanStep, WebStep, DeploymentStep,
         SleepStep, EngineStep, ImageStep, WatchStep
<1> QED
  BY <1>1, <1>2, <1>3, <1>4, <1>5, <1>6, <1>7, <1>8, <1>9
     DEF takeoverVars, sourcesVars, optimizerVars, webVars, deploymentVars, sleepVars, engineVars, imageVars, watchVars,
         T!tvars, S!svars, O!ovars, W!wvars, D!dvars, A!avars, P!pvars, I!ivars, N!nvars

LEMMA ControlStart == Init => ControlInv
BY TakeoverStart, SourceStart, OptimizerStart, WebStart, DeploymentStart, SleepStart, EngineStart, ImageStart, WatchStart
   DEF Init, ControlInv

LEMMA ControlKept == ControlInv /\ [Next]_controllers => ControlInv'
<1> SUFFICES ASSUME ControlInv, [Next]_controllers PROVE ControlInv'
  OBVIOUS
<1>1. TakeoverInv'
  BY StepsOfEach, TakeoverKept DEF ControlInv
<1>2. SourceInv'
  BY StepsOfEach, SourceKept DEF ControlInv
<1>3. OptimizerInv'
  BY StepsOfEach, OptimizerKept DEF ControlInv
<1>4. WebInv'
  BY StepsOfEach, WebKept DEF ControlInv
<1>5. DeploymentInv'
  BY StepsOfEach, DeploymentKept DEF ControlInv
<1>6. SleepInv'
  BY StepsOfEach, SleepKept DEF ControlInv
<1>7. EngineInv'
  BY StepsOfEach, EngineKept DEF ControlInv
<1>8. ImageInv'
  BY StepsOfEach, ImageKept DEF ControlInv
<1>9. WatchInv'
  BY StepsOfEach, WatchKept DEF ControlInv
<1> QED
  BY <1>1, <1>2, <1>3, <1>4, <1>5, <1>6, <1>7, <1>8, <1>9 DEF ControlInv

LEMMA AlwaysControlInv == Spec => []ControlInv
BY ControlStart, ControlKept, PTL DEF Spec

\* The files, records and processes of these nine controllers have their types, however
\* many requests, faults and deaths there are.
LEMMA ControllersTyped ==
  Spec => [](/\ T!TakeoverTypeOK /\ S!SourceTypeOK /\ O!OptimizerTypeOK /\ W!WebTypeOK /\ D!DeploymentTypeOK
             /\ A!SleepTypeOK /\ P!PreparedTypeOK /\ I!ImageTypeOK /\ N!WatchTypeOK)
<1>1. ControlInv => /\ T!TakeoverTypeOK /\ S!SourceTypeOK /\ O!OptimizerTypeOK /\ W!WebTypeOK /\ D!DeploymentTypeOK
                    /\ A!SleepTypeOK /\ P!PreparedTypeOK /\ I!ImageTypeOK /\ N!WatchTypeOK
  BY TakeoverPromises, SourcePromises, OptimizerPromises, WebPromises, DeploymentPromises, SleepPromises, EnginePromises,
     ImagePromises DEF ControlInv, WatchInv
<1> QED
  BY <1>1, AlwaysControlInv, PTL

\* Wherever the source store, the set-up of the web gateway, the sleep helper, the
\* prepared engine's service or a build of a runtime image dies, its successor finds
\* what it needs and nothing it must not take.
THEOREM DeathsLeaveOrder == Spec => []DeathLeavesOrder
<1>1. ControlInv => DeathLeavesOrder
  BY SourcePromises, WebPromises, SleepPromises, EnginePromises, ImagePromises DEF ControlInv, DeathLeavesOrder
<1> QED
  BY <1>1, AlwaysControlInv, PTL

\* The DHCP takeover, the source store, the optimizer's apply and the replacement of
\* the gateway's container take back what they did when they fail half-way.
THEOREM FailuresAreUndone == Spec => []FailureIsUndone
<1>1. ControlInv => FailureIsUndone
  BY TakeoverPromises, SourcePromises, OptimizerPromises, DeploymentPromises DEF ControlInv, FailureIsUndone
<1> QED
  BY <1>1, AlwaysControlInv, PTL

\* The optimizer's marks, a session, the setting that keeps the Mac awake, the
\* prepared engine and the dnsmasq controller's deafness last as long as their use.
THEOREM HoldsFollowUse == Spec => []HeldWhileUsed
<1>1. ControlInv => HeldWhileUsed
  BY OptimizerPromises, WebPromises, SleepPromises, EnginePromises DEF ControlInv, HeldWhileUsed, WatchInv
<1> QED
  BY <1>1, AlwaysControlInv, PTL

\* The engine a preview has runs the graph it was asked about, a container runs from
\* the whole cache of its own image, and logins that are checked at once pass the
\* limit by no more than are under way.
LEMMA AskedAndLimited == Spec => [](P!EngineRunsTheGraph /\ I!RunsWhatWasVerified /\ W!LimitHolds)
<1>1. ControlInv => P!EngineRunsTheGraph /\ I!RunsWhatWasVerified /\ W!LimitHolds
  BY EnginePromises, ImagePromises, WebPromises DEF ControlInv
<1> QED
  BY <1>1, AlwaysControlInv, PTL

\* In a takeover without an accident the gateway serves DHCP only after a probe that
\* found no other server, and a scan of the optimizer takes away what it rejected and
\* no more.
LEMMA ServesAndScansWithinRights == Spec => T!OneDHCPServer /\ O!ScanForgetsOnlyRejected
<1>1. ControlInv /\ [Next]_controllers => [~served /\ served' => probed \/ ~T!Clean]_(T!tvars)
  BY StepsOfEach, ProbedFirst DEF ControlInv
<1>2. ControlInv /\ [Next]_controllers =>
        [\A w \in O!Workers : worker[w] = "probing" /\ worker'[w] # "probing" /\ ~blurred' /\ ~died' =>
           \A d \in setup.targets : disk.results[d] # NoAddress => d \in task'.dropped \/ disk'.results[d] # NoAddress]_(O!ovars)
  BY StepsOfEach, ScanForgets DEF ControlInv
<1> QED
  BY <1>1, <1>2, AlwaysControlInv, PTL DEF Spec, T!OneDHCPServer, O!ScanForgetsOnlyRejected

\* dnsmasq is restarted once per incident; the administrator of the web gateway, a
\* foreign container, a setting of somebody else, another client's engine and a
\* process that has got the engine's PID are left alone.
LEMMA OthersAreLeftAlone ==
  Spec => /\ N!OneRestartPerIncident /\ W!OneAdministrator /\ D!ForeignKept
          /\ A!TheirsIsLeft /\ P!LeaseKeepsEngine /\ P!StrangersLeft
<1>1. ControlInv /\ [Next]_controllers => [owner = "none" /\ owner' = "auto" => streak >= 2]_(N!nvars)
  BY StepsOfEach, WatchKept DEF ControlInv
<1>2. ControlInv /\ [Next]_controllers => [account # "" => account' = account]_(W!wvars)
  BY StepsOfEach, AdministratorKept DEF ControlInv
<1>3. ControlInv /\ [Next]_controllers =>
        [box.own = "foreign" /\ box' # box => dleft'.people < dleft.people \/ trampled]_(D!dvars)
  BY StepsOfEach, ForeignSpared DEF ControlInv
<1>4. ControlInv /\ [Next]_controllers =>
        [flag = "theirs" /\ flag' # "theirs" => aleft'.user < aleft.user \/ crossed]_(A!avars)
  BY StepsOfEach, TheirsKept DEF ControlInv
<1>5. ControlInv /\ [Next]_controllers =>
        [P!Holders > 1 /\ holds' # holds /\ service' = "up" => P!Engines \subseteq {p \in Pids : procs'[p] = procs[p]}]_(P!pvars)
  BY StepsOfEach, LeaseKept DEF ControlInv
<1>6. ControlInv /\ [Next]_controllers =>
        [\A p \in Pids : procs[p] = P!Stranger /\ procs'[p] # P!Stranger => boot' # boot]_(P!pvars)
  BY StepsOfEach, StrangersKept DEF ControlInv
<1> QED
  BY <1>1, <1>2, <1>3, <1>4, <1>5, <1>6, AlwaysControlInv, PTL
     DEF Spec, N!OneRestartPerIncident, W!OneAdministrator, D!ForeignKept, A!TheirsIsLeft, P!LeaseKeepsEngine, P!StrangersLeft

=============================================================================
