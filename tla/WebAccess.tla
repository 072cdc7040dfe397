----------------------------- MODULE WebAccess -----------------------------
(***************************************************************************)
(* Who is let in by the web gateway (internal/webgateway: auth.go,         *)
(* server.go, remote_management.go): the set-up of the one administrator   *)
(* with the bootstrap token, logins and their limit, sessions that slide   *)
(* with use, the remote management token; concurrent requests, failing     *)
(* writes and restarts of the process.                                     *)
(***************************************************************************)
EXTENDS Naturals, FiniteSets

CONSTANTS
  Requests,    \* requests that can be under way at once
  Sessions,    \* session cookies, each issued at most once
  MaxFailures, \* maxLoginFailures
  Life,        \* sessionLifetime and loginWindow, in ticks
  WHorizon,    \* last tick
  WBudget      \* bounds on requests, faults and deaths

VARIABLES
  account,   \* admin.json: the administrator, "" before the set-up
  token,     \* the bootstrap-token file exists
  guarded,   \* RequireBootstrapToken
  serving,   \* the process runs
  sessions,  \* expiry of each live session, 0 for none
  bucket,    \* failed logins of the client: start of the window and count
  remote,    \* number of the remote token accepted, 0 for none
  issued,    \* remote tokens issued
  request,   \* what each request is at
  tick,
  spent,     \* cookies issued so far
  used,      \* history: last use of each session this process knows, 0 none
  wleft

wvars == <<account, token, guarded, serving, sessions, bucket, remote, issued, request, tick, spent, used, wleft>>

Charge(k) == wleft[k] > 0 /\ wleft' = [wleft EXCEPT ![k] = @ - 1]

WebInit ==
  /\ account = "" /\ guarded \in BOOLEAN /\ token = guarded /\ serving = TRUE
  /\ sessions = [s \in Sessions |-> 0] /\ bucket = [start |-> 0, failed |-> 0] /\ remote = 0 /\ issued = 0
  /\ request = [r \in Requests |-> "rest"] /\ tick = 1 /\ spent = {} /\ used = sessions /\ wleft = WBudget

At(r, pc) == serving /\ request[r] = pc
To(r, pc) == request' = [request EXCEPT ![r] = pc]

----------------------------------------------------------------------------
(* ensureBootstrapToken, whenever the process starts.                      *)

\* (mutant) A token that outlived the set-up stays.
StaleTokenStays == token \/ (guarded /\ account = "")

\* Needed before the set-up, removed after it.
EnsuredToken == IF ~guarded THEN token ELSE account = ""

Starts ==
  /\ ~serving /\ serving' = TRUE /\ token' = EnsuredToken
  /\ UNCHANGED <<account, guarded, sessions, bucket, remote, issued, request, tick, spent, used, wleft>>

\* Sessions, failures and requests are memory.
Dies ==
  /\ serving /\ Charge("deaths") /\ serving' = FALSE
  /\ sessions' = [s \in Sessions |-> 0] /\ used' = [s \in Sessions |-> 0]
  /\ bucket' = [start |-> 0, failed |-> 0] /\ request' = [r \in Requests |-> "rest"]
  /\ UNCHANGED <<account, token, guarded, remote, issued, tick, spent>>

----------------------------------------------------------------------------
(* issueSession                                                            *)
Issue(s) ==
  /\ s \notin spent /\ spent' = spent \cup {s}
  /\ sessions' = [sessions EXCEPT ![s] = tick + Life] /\ used' = [used EXCEPT ![s] = tick]

(* handleSetup                                                             *)

\* verifyBootstrapToken
SetupAsks(r) ==
  /\ At(r, "rest") /\ Charge("requests") /\ (guarded => token)
  /\ To(r, "setup")
  /\ UNCHANGED <<account, token, guarded, serving, sessions, bucket, remote, issued, tick, spent, used>>

\* (mutant) The file is written without a look at what is there.
Overwrites == TRUE

\* AuthStore.Setup, under its mutex: nobody is administrator yet.
Free == account = ""

SetupWrites(r) ==
  /\ At(r, "setup")
  /\ \/ Free /\ account' \in {"alice", "bob"} /\ To(r, "clear") /\ UNCHANGED wleft
     \/ ~Free /\ UNCHANGED <<account, wleft>> /\ To(r, "rest")
     \/ Free /\ Charge("faults") /\ UNCHANGED account /\ To(r, "rest")
  /\ UNCHANGED <<token, guarded, serving, sessions, bucket, remote, issued, tick, spent, used>>

\* clearBootstrapToken, issueSession.
SetupEnds(r) ==
  /\ At(r, "clear") /\ \E s \in Sessions : Issue(s)
  /\ token' = (token /\ ~guarded) /\ To(r, "rest")
  /\ UNCHANGED <<account, guarded, serving, bucket, remote, issued, tick, wleft>>

----------------------------------------------------------------------------
(* handleLogin                                                             *)

InWindow == bucket.start # 0 /\ tick - bucket.start < Life

\* The failures that count now.
Failures == IF InWindow THEN bucket.failed ELSE 0

\* (mutant) The limit is not looked at.
NeverBlocked == FALSE

\* loginBlocked: over the limit the request is answered at once.
Blocked == Failures >= MaxFailures

LoginAsks(r) ==
  /\ At(r, "rest") /\ account # "" /\ ~Blocked /\ Charge("requests")
  /\ To(r, "login")
  /\ UNCHANGED <<account, token, guarded, serving, sessions, bucket, remote, issued, tick, spent, used>>

\* AuthStore.Verify says no: recordLoginFailure.
LoginFails(r) ==
  /\ At(r, "login")
  /\ bucket' = [start |-> IF InWindow THEN bucket.start ELSE tick, failed |-> Failures + 1]
  /\ To(r, "rest")
  /\ UNCHANGED <<account, token, guarded, serving, sessions, remote, issued, tick, spent, used, wleft>>

\* clearLoginFailures, issueSession.
LoginEnds(r) ==
  /\ At(r, "login") /\ bucket' = [start |-> 0, failed |-> 0] /\ \E s \in Sessions : Issue(s) /\ To(r, "rest")
  /\ UNCHANGED <<account, token, guarded, serving, remote, issued, tick, wleft>>

----------------------------------------------------------------------------
(* authenticated: a request with a cookie.                                 *)

\* (mutant) A session ends a fixed time after it was issued.
Fixed(s) == sessions[s]

\* A request moves the end of its session.
Slid(s) == tick + Life

Use(s) ==
  /\ serving /\ s \in spent /\ Charge("requests")
  /\ IF tick < sessions[s]
     THEN sessions' = [sessions EXCEPT ![s] = Slid(s)] /\ used' = [used EXCEPT ![s] = tick]
     ELSE sessions' = [sessions EXCEPT ![s] = 0] /\ UNCHANGED used
  /\ UNCHANGED <<account, token, guarded, serving, bucket, remote, issued, request, tick, spent>>

\* handleLogout
Logout(s) ==
  /\ serving /\ s \in spent /\ Charge("requests")
  /\ sessions' = [sessions EXCEPT ![s] = 0] /\ used' = [used EXCEPT ![s] = 0]
  /\ UNCHANGED <<account, token, guarded, serving, bucket, remote, issued, request, tick, spent>>

(* RemoteTokenStore.Rotate and Revoke, by an administrator's session.      *)
Rotate ==
  /\ serving /\ Charge("requests") /\ \E s \in Sessions : tick < sessions[s]
  /\ issued' = issued + 1 /\ remote' = issued'
  /\ UNCHANGED <<account, token, guarded, serving, sessions, bucket, request, tick, spent, used>>

Revoke ==
  /\ serving /\ remote # 0 /\ Charge("requests") /\ \E s \in Sessions : tick < sessions[s]
  /\ remote' = 0
  /\ UNCHANGED <<account, token, guarded, serving, sessions, bucket, issued, request, tick, spent, used>>

Time ==
  /\ tick < WHorizon /\ tick' = tick + 1
  /\ UNCHANGED <<account, token, guarded, serving, sessions, bucket, remote, issued, request, spent, used, wleft>>

WebNext ==
  \/ Starts \/ Dies \/ Rotate \/ Revoke \/ Time
  \/ \E s \in Sessions : Use(s) \/ Logout(s)
  \/ \E r \in Requests : SetupAsks(r) \/ SetupWrites(r) \/ SetupEnds(r) \/ LoginAsks(r) \/ LoginFails(r) \/ LoginEnds(r)

----------------------------------------------------------------------------
(* Properties.                                                             *)

WebTypeOK ==
  /\ account \in {"", "alice", "bob"} /\ {token, guarded, serving} \subseteq BOOLEAN
  /\ sessions \in [Sessions -> Nat] /\ bucket \in [start : Nat, failed : Nat] /\ remote \in 0 .. issued
  /\ request \in [Requests -> {"rest", "setup", "clear", "login"}]

\* Two set-ups under way, both let in by the bootstrap token, and a death in
\* either: the first administrator stays the administrator.
OneAdministrator == [][account # "" => account' = account]_wvars

\* The bootstrap token is there as long as it is needed and gone with the
\* set-up, whatever death came between the two files.
TokenUntilSetup ==
  serving /\ guarded /\ (\A r \in Requests : request[r] # "clear") => (token <=> account = "")

\* A session lasts sessionLifetime from its last use, as the cookie of the
\* browser is told when it is issued: no shorter for a busy one, no longer for
\* an idle one, and not at all after a logout or a restart.
SessionFollowsUse == \A s \in Sessions : tick < sessions[s] <=> (used[s] # 0 /\ tick < used[s] + Life)

\* Logins checked at the same time may pass the limit, by no more than are under
\* way at once.
LimitHolds == Failures <= MaxFailures + Cardinality(Requests) - 1
=============================================================================
