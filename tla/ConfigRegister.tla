--------------------------- MODULE ConfigRegister ---------------------------
(***************************************************************************)
(* What the configuration file promises its editors, whatever the          *)
(* transaction behind it does: a register that is read with a revision and *)
(* replaced, in one step, only by a client whose revision is current.  A   *)
(* refused or a failed request leaves no trace.  Two outcomes are weaker:  *)
(* a killed client may have replaced the value without an answer, and a    *)
(* failed request whose restore failed as well has replaced it.            *)
(***************************************************************************)
CONSTANTS Clients, Values, NoValue

VARIABLES
  value,   \* the committed configuration
  seen,    \* per client: the revision it would send as If-Match
  answer   \* per client: how its last request ended

register == <<value, seen, answer>>

RegisterInit ==
  /\ value \in Values
  /\ seen = [c \in Clients |-> NoValue]
  /\ answer = [c \in Clients |-> "none"]

\* A GET.  It may show a configuration that a transaction has not settled.
Read(c) ==
  /\ \E v \in Values : seen' = [seen EXCEPT ![c] = v]
  /\ answer' = [answer EXCEPT ![c] = "none"]
  /\ UNCHANGED value

Close(c, a) ==
  /\ seen' = [seen EXCEPT ![c] = NoValue]
  /\ answer' = [answer EXCEPT ![c] = a]

\* The compare-and-swap.
Swap(c) == value' \in Values /\ seen[c] = value /\ Close(c, "ok")

\* Nothing happened.
Decline(c) == seen[c] # NoValue /\ UNCHANGED value /\ Close(c, "failed")

\* The reload failed and the previous file could not be written back.
Tear(c) == value' \in Values /\ seen[c] = value /\ Close(c, "torn")

\* The client dies: the swap has happened or it has not.
Vanish(c) == value' \in Values /\ (value' # value => seen[c] = value) /\ Close(c, "none")

RegisterNext == \E c \in Clients : Read(c) \/ Swap(c) \/ Decline(c) \/ Tear(c) \/ Vanish(c)

RegisterSpec == RegisterInit /\ [][RegisterNext]_register
=============================================================================
