----------------------------- MODULE QuotaView -----------------------------
(***************************************************************************)
(* What the failover engine knows of one account's quota, and the pure     *)
(* rules by which it reads and updates that knowledge.                     *)
(*                                                                         *)
(* A bucket row (bucket id, names, fraction, amount, reset time) matters   *)
(* to the engine only through two facts: which model tier it matches, and  *)
(* which of three conditions it is in.                                     *)
(*    "ok"      quota is left (~isExhausted)                               *)
(*    "empty"   isExhausted, and the reset time is not reached             *)
(*    "lapsed"  isExhausted, and the reset time is reached (hasReset)      *)
(* Several buckets can match a tier (a five-hour and a weekly window of    *)
(* one model group), so a tier is seen as the SET of the conditions of the *)
(* buckets that match it; {} when none does.                               *)
(***************************************************************************)
EXTENDS Naturals

Tier == {"primary", "secondary"}

Condition == {"ok", "empty", "lapsed"}

View == [Tier -> SUBSET Condition]

NoBuckets == [t \in Tier |-> {}]

\* Some bucket of the tier is spent and not past its reset time.
Spent(v, t) == "empty" \in v[t]

\* Some bucket of the tier has quota again.
Restored(v, t) == v[t] \cap {"ok", "lapsed"} # {}

\* Every matching bucket is zeroed; with none, a zeroed one is added.
MarkSpent(v, t) == [v EXCEPT ![t] = {"empty"}]

\* The reset times of the tier's spent buckets are reached.
Lapse(v, t) == [v EXCEPT ![t] = (@ \ {"empty"}) \cup {"lapsed"}]

-----------------------------------------------------------------------------
(***************************************************************************)
(* The engine's flags for one account. A missing map entry and a zero      *)
(* entry are treated alike by every reader, so both are Fresh. The reset   *)
(* deadline is kept only as far as the code tells deadlines apart: never   *)
(* set, still ahead, reached.                                              *)
(***************************************************************************)
Deadline == {"zero", "ahead", "past"}

FallbackState == [primaryExhausted   : BOOLEAN,
                  primaryResetTime   : Deadline,
                  secondaryExhausted : BOOLEAN,
                  fallbackLogged     : BOOLEAN]

Fresh == [primaryExhausted |-> FALSE, primaryResetTime |-> "zero",
          secondaryExhausted |-> FALSE, fallbackLogged |-> FALSE]

\* Mutant of ClearPrimary: the announcement is forgotten.
ClearPrimaryFlagOnly(st) == [st EXCEPT !.primaryExhausted = FALSE]

\* The primary tier is usable again: its flag and its announcement go together.
ClearPrimary(st) ==
  [st EXCEPT !.primaryExhausted = FALSE, !.fallbackLogged = FALSE]

\* The flags that survive when buckets v replace the cached ones.
Refresh(st, v) ==
  LET p == IF Restored(v, "primary") THEN ClearPrimary(st) ELSE st
  IN  IF Restored(v, "secondary") THEN [p EXCEPT !.secondaryExhausted = FALSE]
                                  ELSE p

\* The primary tier answered 429 and the secondary tier takes over.
FallBack(st) ==
  [st EXCEPT !.primaryExhausted = TRUE, !.primaryResetTime = "ahead",
             !.fallbackLogged = TRUE]

\* Both tiers are spent.
Drain(st) ==
  [st EXCEPT !.primaryExhausted = TRUE, !.primaryResetTime = "ahead",
             !.secondaryExhausted = TRUE]

\* A fallback is predicted and announced; the deadline is not touched.
Announce(st) ==
  [st EXCEPT !.primaryExhausted = TRUE, !.fallbackLogged = TRUE]

\* The secondary tier can take a request.
SecondaryOpen(st, v) == ~st.secondaryExhausted /\ ~Spent(v, "secondary")
=============================================================================
