--------------------------- MODULE FailoverProps ---------------------------
(***************************************************************************)
(* What the failover engine promises to the handlers that call it.         *)
(***************************************************************************)
EXTENDS FailoverEngine

\* Holding mu, between reading the active account and moving the flag.
Rotating(r) == pc[r] \in {"a_pick", "a_set"} \cup RotatePc

\* From its own look at the pool on, a rotation may rely on what it saw.
Committed(r) == pc[r] \in {"a_pick", "a_set", "r_mark", "r_next", "r_set"}

\* The account whose flag a rotation is about to take is still the account it
\* compared with its own failed one (failover.go, anti-stampede check): no other
\* request has rotated the pool in between, so one exhaustion rotates once. (Where
\* nobody puts an account in use without the engine: those who do do not take mu.)
CheckStaysCurrent ==
  \A r \in Request : Committed(r) /\ cur[r] # NoAccount => ActiveNow = {cur[r]}

CoherentState(st) ==
  /\ st.fallbackLogged => st.primaryExhausted
  /\ st.primaryExhausted => st.fallbackLogged \/ st.primaryResetTime # "zero"

\* The in-memory flag that diverts a request from the primary tier is never
\* left with neither an announcement nor a deadline, and an announcement never
\* outlives its flag, however the checks, refreshes and 429s of several requests
\* interleave (accountFallbackState is written at eight places).
FlagsCohere == \A a \in Account : CoherentState(accountStates[a])

\* A rotation that gives its request another account, found or activated, leaves that
\* account without exhaustion flags, so that the model tier starts over there
\* (failover.go, "Reset fallback state"), also when that account has meanwhile been put
\* in use by somebody who resets nothing.
StartsOver ==
  [][\A r \in Request :
       Rotating(r) /\ acc'[r] \notin {acc[r], NoAccount} =>
         accountStates'[acc'[r]] = Fresh]_vars

\* What a call of HandleExhaustion hands back serves: the same account for the
\* secondary model, which is not the one that failed, or another account that is at
\* that moment the one in use and has quota (ProxyRequest relies on this).
HandsOver ==
  [][\A r \in Request :
       pc[r] \in {"h_lock", "r_active", "r_set"} /\ pc'[r] \in {"sent", "p_read"} =>
         \/ acc'[r] = acc[r] /\ model[r] # "secondary" /\ model'[r] = "secondary"
         \/ /\ acc'[r] \in Account \ {acc[r]}
            /\ isActive'[acc'[r]] /\ status'[acc'[r]] = "active"]_vars

\* While nobody is rotating, the account in use is one that can serve, if any
\* account can, whatever is put in use without the engine at the same time.
InUseCanServe ==
  mu = Free /\ (\E a \in Account : Available(a)) => \E a \in ActiveNow : Available(a)

\* Every call into the engine returns, whatever the other requests do.
CallsReturn ==
  \A r \in Request : pc[r] \notin {"idle", "sent"} ~> pc[r] \in {"idle", "sent"}

Pool == INSTANCE AccountPool WITH
          inUse <- ActiveNow, usable <- {a \in Account : Available(a)}, uses <- acc,
          None <- NoAccount

\* Between two polls and two selections on the dashboard the engine implements AccountPool:
\* each rotation is one step of the pool, from the account whose failure its request saw to
\* one with quota, which the request then uses; an account found spent is never made
\* available again, and a client that goes away in the middle leaves no half of a rotation
\* behind (failover_stress_test.go: "Exactly ONE rotation occurs across all concurrent
\* requests").
ImplementsAccountPool == Pool!Spec
=============================================================================
