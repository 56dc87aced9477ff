------------------------------ MODULE MCFailover ------------------------------
(***************************************************************************)
(* Small instances of FailoverEngine for TLC.                              *)
(***************************************************************************)
EXTENDS FailoverProps, TLC

V(p, s) == [t \in Tier |-> IF t = "primary" THEN p ELSE s]

\* Both tiers have quota; the primary tier is spent.
TwoViews == {V({"ok"}, {"ok"}), V({"empty"}, {"ok"})}

OneView == {V({"ok"}, {"ok"})}

\* Accounts and requests are interchangeable.
Symmetry == Permutations(Account) \cup Permutations(Request)
=============================================================================
