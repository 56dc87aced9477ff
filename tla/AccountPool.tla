----------------------------- MODULE AccountPool -----------------------------
(***************************************************************************)
(* What the failover engine promises about the pool between two polls: the *)
(* abstract specification that FailoverEngine implements (FailoverProps).  *)
(* Whatever mutex, re-checks, reads and writes a rotation takes, seen from *)
(* outside it is one step, taken by a request from its own failed account. *)
(***************************************************************************)
CONSTANTS Account, Request, None

VARIABLES
  inUse,    \* the account in use, as the set of those that are
  usable,   \* the accounts with status active
  uses      \* the account each request works with

vars == <<inUse, usable, uses>>

Init ==
  /\ \E a \in Account : inUse = {a}
  /\ usable = Account
  /\ uses = [r \in Request |-> None]

Turn(r, a) == uses' = [uses EXCEPT ![r] = a]

\* A request starts with the account in use.
Take(r) ==
  /\ uses[r] = None
  /\ \E a \in inUse : Turn(r, a)
  /\ UNCHANGED <<inUse, usable>>

\* It joins the others, who have moved to an account that serves.
Join(r) ==
  /\ uses[r] # None
  /\ \E a \in (inUse \cap usable) \ {uses[r]} : Turn(r, a)
  /\ UNCHANGED <<inUse, usable>>

\* It finds its account spent.
FindSpent(r) ==
  /\ uses[r] # None
  /\ usable' = usable \ {uses[r]}
  /\ UNCHANGED <<inUse, uses>>

\* It moves the pool to another account that serves: from its own, or from one that
\* serves nobody. Nobody else's working account is taken away.
Rotate(r) ==
  /\ uses[r] \in inUse \/ (uses[r] # None /\ inUse \cap usable = {})
  /\ \E a \in usable \ {uses[r]} : inUse' = {a} /\ Turn(r, a)
  /\ UNCHANGED usable

Leave(r) ==
  /\ uses[r] # None
  /\ Turn(r, None)
  /\ UNCHANGED <<inUse, usable>>

Next == \E r \in Request : Take(r) \/ Join(r) \/ FindSpent(r) \/ Rotate(r) \/ Leave(r)

Spec == Init /\ [][Next]_vars
=============================================================================
