--------------------------- MODULE FailoverEngine ---------------------------
(***************************************************************************)
(* internal/proxy/failover.go: the FailoverEngine, called concurrently by  *)
(* the proxy's request handlers over one SQLite account pool.              *)
(*                                                                         *)
(* The engine's maps (accountStates, quotaCache) are guarded by mu; the    *)
(* pool (status, isActive) and the bucket rows are not: the quota poller   *)
(* writes them while a handler holds mu. So one action is what happens     *)
(* between two points where another goroutine can get in: a section under  *)
(* mu without a database call, or one database call.                       *)
(*                                                                         *)
(* A request r is at pc[r]:                                                *)
(*   idle      no request                                                  *)
(*   a_lock .. a_set     in ProactivelyRotateAccount                       *)
(*   p_read .. p_log     in PredictiveCheck for acc[r]                     *)
(*   sent      upstream has the request, with model[r] on acc[r]           *)
(*   h_check .. h_lock   in HandleExhaustion, before it has mu             *)
(*   r_active .. r_set   in rotateAccountLocked, holding mu                *)
(***************************************************************************)
EXTENDS QuotaView

CONSTANTS Account, Request,
          NoAccount,    \* no account read yet (nil)
          NoView,       \* no cache entry; no bucket rows
          Free,         \* nobody holds mu
          RowViews,     \* what the poller can store for an account
          Asked,        \* the model tiers clients ask for
          Leaving,      \* the requests whose client may go away
          PollStatus,   \* the statuses the poller may write
          Switchable,   \* the values SetFallbackConfig may give the switch
          Outside,      \* the accounts that may be put in use outside the engine
          Lapsing       \* the reset times that may be reached

ASSUME EngineAssumption ==
  /\ NoAccount \notin Account
  /\ NoView \notin View
  /\ Free \notin Request
  /\ RowViews \subseteq View \cup {NoView}
  /\ Asked \subseteq {"primary", "secondary", "none"}
  /\ Leaving \subseteq Request
  /\ PollStatus \subseteq {"active", "exhausted", "error"}
  /\ Switchable \subseteq BOOLEAN
  /\ Outside \subseteq Account
  /\ Lapsing \subseteq {"rows", "cache", "flag"}

VARIABLES
  status,          \* accounts.status
  isActive,        \* accounts.is_active
  rows,            \* the quota_buckets rows of each account
  accountStates, quotaCache, fallbackSecondaryEnabled, mu,
  pc, acc, origModel, model,
  cur,             \* currentActive / latestActive of the request's rotation
  cand,            \* nextAcc of the request's rotation
  seen,            \* dbBuckets, or the slice PredictiveCheck still holds
  ctxDone          \* the client is gone: ctx.Err() # nil

pool   == <<status, isActive>>
engine == <<accountStates, quotaCache, fallbackSecondaryEnabled>>
local  == <<acc, origModel, model, cur, cand, seen>>
vars   == <<pool, rows, engine, mu, pc, local, ctxDone>>

Status == {"active", "exhausted", "error"}
Model  == {"primary", "secondary", "none"}

AdoptPc   == {"a_lock", "a_pick", "a_set"}
PredictPc == {"p_read", "p_query", "p_store", "p_eval", "p_clear", "p_after", "p_log"}
HandlePc  == {"h_check", "h_prefetch", "h_query", "h_store", "h_lock"}
RotatePc  == {"r_active", "r_mark", "r_next", "r_set"}
Pc        == {"idle", "sent"} \cup AdoptPc \cup PredictPc \cup HandlePc \cup RotatePc

\* The types, and no nil account where the code dereferences one.
TypeOK ==
  /\ status \in [Account -> Status]
  /\ isActive \in [Account -> BOOLEAN]
  /\ rows \in [Account -> View \cup {NoView}]
  /\ accountStates \in [Account -> FallbackState]
  /\ quotaCache \in [Account -> View \cup {NoView}]
  /\ fallbackSecondaryEnabled \in BOOLEAN
  /\ mu \in Request \cup {Free}
  /\ pc \in [Request -> Pc]
  /\ acc \in [Request -> Account \cup {NoAccount}]
  /\ origModel \in [Request -> Model]
  /\ model \in [Request -> Model]
  /\ cur \in [Request -> Account \cup {NoAccount}]
  /\ cand \in [Request -> Account \cup {NoAccount}]
  /\ seen \in [Request -> View \cup {NoView}]
  /\ ctxDone \in [Request -> BOOLEAN]
  /\ \A r \in Request : /\ pc[r] # "idle" => acc[r] # NoAccount
                        /\ pc[r] \in {"a_set", "r_set"} => cand[r] # NoAccount

\* A pool with one account in use, an engine that has seen nothing yet.
Init ==
  /\ status = [a \in Account |-> "active"]
  /\ \E a \in Account : isActive = [b \in Account |-> b = a]
  /\ rows \in [Account -> RowViews]
  /\ accountStates = [a \in Account |-> Fresh]
  /\ quotaCache = [a \in Account |-> NoView]
  /\ fallbackSecondaryEnabled = TRUE
  /\ mu = Free
  /\ pc = [r \in Request |-> "idle"]
  /\ acc = [r \in Request |-> NoAccount]
  /\ origModel = [r \in Request |-> "none"]
  /\ model = [r \in Request |-> "none"]
  /\ cur = [r \in Request |-> NoAccount]
  /\ cand = [r \in Request |-> NoAccount]
  /\ seen = [r \in Request |-> NoView]
  /\ ctxDone = [r \in Request |-> FALSE]

-----------------------------------------------------------------------------
(* The repository calls. With a cancelled context each of them fails. *)

Available(a) == status[a] = "active"

\* GetActive: is_active, whatever the status.
ActiveNow == {a \in Account : isActive[a]}

\* Mutant of NextAvailable: nil without an error.
NextAvailableOrNil(x) ==
  LET s == {a \in Account \ {x} : Available(a)}
  IN  IF s = {} THEN {NoAccount} ELSE s

\* GetNextAvailable(excluding x). Rows are ordered by updated_at, which has a
\* resolution of a second and is touched by every write; the order is left open.
NextAvailable(x) == {a \in Account \ {x} : Available(a)}

\* Mutant of SetActive: the second UPDATE of its transaction is lost.
SetActiveStatusOnly(a) ==
  UNCHANGED isActive /\ status' = [status EXCEPT ![a] = "active"]

\* SetActive: the flag moves and the target's status becomes active.
SetActive(a) ==
  /\ isActive' = [b \in Account |-> b = a]
  /\ status' = [status EXCEPT ![a] = "active"]

\* What GetActive gives request r: some active account, or an error.
ReadsActive(r, a) ==
  IF ctxDone[r] THEN a = NoAccount
  ELSE IF ActiveNow = {} THEN a = NoAccount ELSE a \in ActiveNow

\* Mutants of Moved: no anti-stampede test; no test of the status.
MovedNever(r, a) == FALSE

MovedWhatever(r, a) == a # NoAccount /\ a # acc[r]

\* The anti-stampede test: somebody has already moved the pool elsewhere.
Moved(r, a) == a # NoAccount /\ a # acc[r] /\ Available(a)

Goto(r, l) == pc' = [pc EXCEPT ![r] = l]

\* rows of x, as UpdateQuotaCache stores them: no rows, no buckets.
AsView(v) == IF v = NoView THEN NoBuckets ELSE v

\* The buckets the engine iterates over when it looks an account up.
Buckets(a) == AsView(quotaCache[a])

\* UpdateQuotaCache: the cache entry is replaced and the flags refreshed.
UpdateQuotaCache(a, v) ==
  /\ quotaCache' = [quotaCache EXCEPT ![a] = v]
  /\ accountStates' = [accountStates EXCEPT ![a] = Refresh(@, v)]

-----------------------------------------------------------------------------
(* ServeHTTP around the engine: arrival, the answer, the client leaving. *)

\* A request adopts the active account. With usage above the switch threshold
\* (the rows' fractions are not part of View) it first tries to rotate.
Arrive(r, m) ==
  /\ pc[r] = "idle"
  /\ \E a \in ActiveNow : acc' = [acc EXCEPT ![r] = a]
  /\ origModel' = [origModel EXCEPT ![r] = m]
  /\ model' = [model EXCEPT ![r] = m]
  /\ \/ Goto(r, "a_lock")
     \/ Goto(r, IF m = "none" THEN "sent" ELSE "p_read")
  /\ UNCHANGED <<pool, rows, engine, mu, cur, cand, seen, ctxDone>>

\* The handler returns; its locals are gone.
Finish(r) ==
  /\ Goto(r, "idle")
  /\ acc' = [acc EXCEPT ![r] = NoAccount]
  /\ origModel' = [origModel EXCEPT ![r] = "none"]
  /\ model' = [model EXCEPT ![r] = "none"]
  /\ ctxDone' = [ctxDone EXCEPT ![r] = FALSE]

\* Upstream answers: with anything but exhaustion the handler is finished.
Answered(r) ==
  /\ pc[r] = "sent"
  /\ Finish(r)
  /\ UNCHANGED <<pool, rows, engine, mu, cur, cand, seen>>

\* Upstream answers 429 (or 403 RESOURCE_EXHAUSTED): HandleExhaustion is called.
Exhausted(r) ==
  /\ pc[r] = "sent"
  /\ Goto(r, "h_check")
  /\ UNCHANGED <<pool, rows, engine, mu, local, ctxDone>>

ClientLeaves(r) ==
  /\ r \in Leaving /\ pc[r] # "idle" /\ ~ctxDone[r]
  /\ ctxDone' = [ctxDone EXCEPT ![r] = TRUE]
  /\ UNCHANGED <<pool, rows, engine, mu, pc, local>>

-----------------------------------------------------------------------------
(* ProactivelyRotateAccount *)

\* The model check that follows, or the dispatch when there is no model.
Onward(r) == IF origModel[r] = "none" THEN "sent" ELSE "p_read"

\* Mutant of Unlock: a return path without it.
UnlockForgotten(r) ==
  /\ mu' = mu
  /\ cur' = [cur EXCEPT ![r] = NoAccount]
  /\ cand' = [cand EXCEPT ![r] = NoAccount]

Unlock(r) ==
  /\ mu' = Free
  /\ cur' = [cur EXCEPT ![r] = NoAccount]
  /\ cand' = [cand EXCEPT ![r] = NoAccount]

ProactiveLock(r) ==
  /\ pc[r] = "a_lock" /\ mu = Free
  /\ \E a \in Account \cup {NoAccount} :
       /\ ReadsActive(r, a)
       /\ IF ctxDone[r] \/ Moved(r, a)
          THEN /\ acc' = IF ctxDone[r] THEN acc ELSE [acc EXCEPT ![r] = a]
               /\ Goto(r, Onward(r))
               /\ UNCHANGED <<mu, cur>>
          ELSE /\ mu' = r
               /\ cur' = [cur EXCEPT ![r] = a]
               /\ Goto(r, "a_pick")
               /\ UNCHANGED acc
  /\ UNCHANGED <<pool, rows, engine, origModel, model, cand, seen, ctxDone>>

ProactivePick(r) ==
  /\ pc[r] = "a_pick"
  /\ IF ctxDone[r] \/ NextAvailable(acc[r]) = {}
     THEN Unlock(r) /\ Goto(r, Onward(r))
     ELSE /\ \E n \in NextAvailable(acc[r]) : cand' = [cand EXCEPT ![r] = n]
          /\ Goto(r, "a_set")
          /\ UNCHANGED <<mu, cur>>
  /\ UNCHANGED <<pool, rows, engine, acc, origModel, model, seen, ctxDone>>

ProactiveSet(r) ==
  /\ pc[r] = "a_set"
  /\ IF ctxDone[r]
     THEN UNCHANGED <<pool, accountStates, acc>>
     ELSE /\ SetActive(cand[r])
          /\ accountStates' = [accountStates EXCEPT ![cand[r]] = Fresh]
          /\ acc' = [acc EXCEPT ![r] = cand[r]]
  /\ Unlock(r) /\ Goto(r, Onward(r))
  /\ UNCHANGED <<rows, quotaCache, fallbackSecondaryEnabled, origModel, model,
                 seen, ctxDone>>

-----------------------------------------------------------------------------
(* PredictiveCheck(acc[r], model[r]) *)

\* The outcome once the primary tier is known to be spent or not: st are the
\* flags and v the buckets the check looks at.
Decide(r, primarySpent, st, v) ==
  IF primarySpent /\ SecondaryOpen(st, v)
  THEN IF st.fallbackLogged
       THEN model' = [model EXCEPT ![r] = "secondary"] /\ Goto(r, "sent")
       ELSE UNCHANGED model /\ Goto(r, "p_log")
  ELSE UNCHANGED model /\ Goto(r, "sent")

\* The flag is to be cleared: its deadline is reached, or buckets show quota.
Clearable(st, v) ==
  st.primaryExhausted /\ (st.primaryResetTime = "past" \/ Restored(v, "primary"))

\* Steps 1 and 2 of the check, read under one RLock.
Evaluate(r) ==
  LET st == accountStates[acc[r]]
      v  == Buckets(acc[r])
  IN  IF Clearable(st, v)
      THEN /\ seen' = [seen EXCEPT ![r] = v]
           /\ UNCHANGED model
           /\ Goto(r, "p_clear")
      ELSE /\ seen' = [seen EXCEPT ![r] = NoView]
           /\ Decide(r, st.primaryExhausted \/ Spent(v, "primary"), st, v)

\* Rows are read again when there is no cache entry or primary looks spent.
NeedsQuery(a) ==
  \/ quotaCache[a] = NoView
  \/ Spent(Buckets(a), "primary")
  \/ accountStates[a].primaryExhausted

PredictRead(r) ==
  /\ pc[r] = "p_read" /\ mu = Free
  /\ IF ctxDone[r] \/ ~fallbackSecondaryEnabled \/ model[r] = "secondary"
     THEN Goto(r, "sent") /\ UNCHANGED <<model, seen>>
     ELSE IF NeedsQuery(acc[r])
          THEN Goto(r, "p_query") /\ UNCHANGED <<model, seen>>
          ELSE Evaluate(r)
  /\ UNCHANGED <<pool, rows, engine, mu, acc, origModel, cur, cand, ctxDone>>

\* GetByAccountID outside every lock; NoView stands for its error too, which
\* stores the same empty entry but refreshes no flag (nothing is restored).
PredictQuery(r) ==
  /\ pc[r] = "p_query"
  /\ seen' = [seen EXCEPT ![r] = IF ctxDone[r] THEN NoView ELSE rows[acc[r]]]
  /\ Goto(r, "p_store")
  /\ UNCHANGED <<pool, rows, engine, mu, acc, origModel, model, cur, cand, ctxDone>>

PredictStore(r) ==
  /\ pc[r] = "p_store" /\ mu = Free
  /\ UpdateQuotaCache(acc[r], AsView(seen[r]))
  /\ seen' = [seen EXCEPT ![r] = NoView]
  /\ Goto(r, "p_eval")
  /\ UNCHANGED <<pool, rows, fallbackSecondaryEnabled, mu, acc, origModel, model,
                 cur, cand, ctxDone>>

PredictEval(r) ==
  /\ pc[r] = "p_eval" /\ mu = Free
  /\ Evaluate(r)
  /\ UNCHANGED <<pool, rows, engine, mu, acc, origModel, cur, cand, ctxDone>>

\* The RLock was given up for the Lock: whatever happened in between is cleared.
PredictClear(r) ==
  /\ pc[r] = "p_clear" /\ mu = Free
  /\ accountStates' = [accountStates EXCEPT ![acc[r]] = ClearPrimary(@)]
  /\ Goto(r, "p_after")
  /\ UNCHANGED <<pool, rows, quotaCache, fallbackSecondaryEnabled, mu, local, ctxDone>>

\* The flags are read again, the buckets are not: the check still holds the
\* slice it had, whose entries a 429 in between zeroes in place and a refresh
\* in between leaves as they were.
PredictAfter(r) ==
  /\ pc[r] = "p_after" /\ mu = Free
  /\ \E v \in {seen[r], Buckets(acc[r])} :
       Decide(r, Spent(v, "primary"), accountStates[acc[r]], v)
  /\ seen' = [seen EXCEPT ![r] = NoView]
  /\ UNCHANGED <<pool, rows, engine, mu, acc, origModel, cur, cand, ctxDone>>

\* The transition is recorded (and announced, unless somebody already has).
PredictLog(r) ==
  /\ pc[r] = "p_log" /\ mu = Free
  /\ accountStates' =
       [accountStates EXCEPT ![acc[r]] = IF @.fallbackLogged THEN @ ELSE Announce(@)]
  /\ model' = [model EXCEPT ![r] = "secondary"]
  /\ Goto(r, "sent")
  /\ UNCHANGED <<pool, rows, quotaCache, fallbackSecondaryEnabled, mu, acc,
                 origModel, cur, cand, seen, ctxDone>>

-----------------------------------------------------------------------------
(* HandleExhaustion(acc[r], model[r]) *)

\* ctx.Err() before anything else; the error makes the handler forward the 429.
HandleCheck(r) ==
  /\ pc[r] = "h_check"
  /\ IF ctxDone[r] THEN Finish(r)
                   ELSE Goto(r, "h_prefetch") /\ UNCHANGED <<acc, origModel, model, ctxDone>>
  /\ UNCHANGED <<pool, rows, engine, mu, cur, cand, seen>>

\* ensureQuotaBucketsPrefetched: look, query outside the lock, store.
PrefetchLook(r) ==
  /\ pc[r] = "h_prefetch" /\ mu = Free
  /\ Goto(r, IF quotaCache[acc[r]] = NoView THEN "h_query" ELSE "h_lock")
  /\ UNCHANGED <<pool, rows, engine, mu, local, ctxDone>>

PrefetchQuery(r) ==
  /\ pc[r] = "h_query"
  /\ seen' = [seen EXCEPT ![r] = IF ctxDone[r] THEN NoView ELSE rows[acc[r]]]
  /\ Goto(r, "h_store")
  /\ UNCHANGED <<pool, rows, engine, mu, acc, origModel, model, cur, cand, ctxDone>>

PrefetchStore(r) ==
  /\ pc[r] = "h_store" /\ mu = Free
  /\ IF seen[r] = NoView
     THEN /\ quotaCache' = [quotaCache EXCEPT ![acc[r]] = AsView(@)]
          /\ UNCHANGED accountStates
     ELSE UpdateQuotaCache(acc[r], seen[r])
  /\ seen' = [seen EXCEPT ![r] = NoView]
  /\ Goto(r, "h_lock")
  /\ UNCHANGED <<pool, rows, fallbackSecondaryEnabled, mu, acc, origModel, model,
                 cur, cand, ctxDone>>

\* A request that has a new account starts over with its original model.
AdoptAccount(r, a) ==
  /\ acc' = [acc EXCEPT ![r] = a]
  /\ model' = [model EXCEPT ![r] = origModel[r]]
  /\ Goto(r, Onward(r))

\* Step 4: the secondary tier of the same account takes over.
FallBackSecondary(r) ==
  /\ accountStates' = [accountStates EXCEPT ![acc[r]] = FallBack(@)]
  /\ quotaCache' = [quotaCache EXCEPT ![acc[r]] = MarkSpent(AsView(@), "primary")]
  /\ model' = [model EXCEPT ![r] = "secondary"]
  /\ Goto(r, "sent")
  /\ UNCHANGED <<mu, acc>>

\* Mutant of DrainAccount: mu is released before the rotation.
DrainAccountUnlocked(r) ==
  /\ accountStates' = [accountStates EXCEPT ![acc[r]] = Drain(@)]
  /\ quotaCache' = IF model[r] = "secondary"
                   THEN [quotaCache EXCEPT ![acc[r]] = MarkSpent(AsView(@), "secondary")]
                   ELSE quotaCache
  /\ mu' = Free
  /\ Goto(r, "r_active")
  /\ UNCHANGED <<acc, model>>

\* Step 5: both tiers are marked and the account is rotated away.
DrainAccount(r) ==
  /\ accountStates' = [accountStates EXCEPT ![acc[r]] = Drain(@)]
  /\ quotaCache' = IF model[r] = "secondary"
                   THEN [quotaCache EXCEPT ![acc[r]] = MarkSpent(AsView(@), "secondary")]
                   ELSE quotaCache
  /\ mu' = r
  /\ Goto(r, "r_active")
  /\ UNCHANGED <<acc, model>>

HandleLock(r) ==
  /\ pc[r] = "h_lock" /\ mu = Free
  /\ \E a \in Account \cup {NoAccount} :
       /\ ReadsActive(r, a)
       /\ IF Moved(r, a)
          THEN AdoptAccount(r, a) /\ UNCHANGED <<mu, accountStates, quotaCache>>
          ELSE IF ~fallbackSecondaryEnabled \/ model[r] = "none"
          THEN /\ mu' = r
               /\ Goto(r, "r_active")
               /\ UNCHANGED <<acc, model, accountStates, quotaCache>>
          ELSE IF /\ model[r] # "secondary"
                  /\ SecondaryOpen(accountStates[acc[r]], Buckets(acc[r]))
          THEN FallBackSecondary(r)
          ELSE DrainAccount(r)
  /\ UNCHANGED <<pool, rows, fallbackSecondaryEnabled, origModel, cur, cand, seen,
                 ctxDone>>

-----------------------------------------------------------------------------
(* rotateAccountLocked(acc[r]), under mu *)

RecheckActive(r) ==
  /\ pc[r] = "r_active"
  /\ \E a \in Account \cup {NoAccount} :
       /\ ReadsActive(r, a)
       /\ IF Moved(r, a)
          THEN /\ accountStates' = [accountStates EXCEPT ![a] = Fresh]
               /\ AdoptAccount(r, a)
               /\ Unlock(r)
          ELSE /\ cur' = [cur EXCEPT ![r] = a]
               /\ Goto(r, "r_mark")
               /\ UNCHANGED <<accountStates, acc, model, mu, cand>>
  /\ UNCHANGED <<pool, rows, quotaCache, fallbackSecondaryEnabled, origModel, seen,
                 ctxDone>>

\* UpdateStatus(exhausted); its error is only reported.
MarkExhausted(r) ==
  /\ pc[r] = "r_mark"
  /\ IF ctxDone[r] THEN UNCHANGED status
                   ELSE status' = [status EXCEPT ![acc[r]] = "exhausted"]
  /\ Goto(r, "r_next")
  /\ UNCHANGED <<isActive, rows, engine, mu, local, ctxDone>>

\* Nobody is left: EventTypeQuotaExhausted, and the handler forwards the 429.
ReportsPoolExhausted(r) ==
  pc[r] = "r_next" /\ (ctxDone[r] \/ NextAvailable(acc[r]) = {})

PickNext(r) ==
  /\ pc[r] = "r_next"
  /\ IF ReportsPoolExhausted(r)
     THEN Unlock(r) /\ Finish(r)
     ELSE /\ \E n \in NextAvailable(acc[r]) : cand' = [cand EXCEPT ![r] = n]
          /\ Goto(r, "r_set")
          /\ UNCHANGED <<mu, cur, acc, origModel, model, ctxDone>>
  /\ UNCHANGED <<pool, rows, engine, seen>>

\* Mutant of Activate: the state of the account left is reset, not of the new one.
ActivateResetsOld(r) ==
  /\ pc[r] = "r_set"
  /\ IF ctxDone[r]
     THEN Finish(r) /\ UNCHANGED <<pool, accountStates>>
     ELSE /\ SetActive(cand[r])
          /\ accountStates' = [accountStates EXCEPT ![acc[r]] = Fresh]
          /\ AdoptAccount(r, cand[r])
          /\ UNCHANGED <<origModel, ctxDone>>
  /\ Unlock(r)
  /\ UNCHANGED <<rows, quotaCache, fallbackSecondaryEnabled, seen>>

Activate(r) ==
  /\ pc[r] = "r_set"
  /\ IF ctxDone[r]
     THEN Finish(r) /\ UNCHANGED <<pool, accountStates>>
     ELSE /\ SetActive(cand[r])
          /\ accountStates' = [accountStates EXCEPT ![cand[r]] = Fresh]
          /\ AdoptAccount(r, cand[r])
          /\ UNCHANGED <<origModel, ctxDone>>
  /\ Unlock(r)
  /\ UNCHANGED <<rows, quotaCache, fallbackSecondaryEnabled, seen>>

-----------------------------------------------------------------------------
(* What the rest of the process does to this state. *)

\* The dashboard's model settings (SetFallbackConfig takes mu).
SetFallbackConfig(on) ==
  /\ mu = Free /\ on # fallbackSecondaryEnabled
  /\ fallbackSecondaryEnabled' = on
  /\ UNCHANGED <<pool, rows, accountStates, quotaCache, mu, pc, local, ctxDone>>

\* The poller stores what upstream reports.
PollerStoresRows(a) ==
  /\ rows' \in {[rows EXCEPT ![a] = v] : v \in RowViews}
  /\ UNCHANGED <<pool, engine, mu, pc, local, ctxDone>>

\* The poller restores a spent account, or finds one spent or unusable.
PollerSetsStatus(a, s) ==
  /\ s # status[a] /\ (s = "active" => status[a] = "exhausted")
  /\ status' = [status EXCEPT ![a] = s]
  /\ UNCHANGED <<isActive, rows, engine, mu, pc, local, ctxDone>>

\* The account is put in use without the engine: selected on the dashboard (api.go:288),
\* promoted after a deletion, by the bootstrap of a request that found none in use
\* (handler.go:536), by a login. None of them takes mu or touches the engine's flags.
PutInUseOutside(a) ==
  /\ SetActive(a)
  /\ UNCHANGED <<rows, engine, mu, pc, local, ctxDone>>

\* A reset time is reached: in the rows, in the cache, or the flag's deadline.
RowsLapse(a) ==
  /\ "rows" \in Lapsing
  /\ \E t \in Tier : /\ Spent(AsView(rows[a]), t)
                     /\ rows' = [rows EXCEPT ![a] = Lapse(@, t)]
  /\ UNCHANGED <<pool, engine, mu, pc, local, ctxDone>>

CacheLapses(a) ==
  /\ "cache" \in Lapsing
  /\ \E t \in Tier : /\ Spent(Buckets(a), t)
                     /\ quotaCache' = [quotaCache EXCEPT ![a] = Lapse(@, t)]
  /\ UNCHANGED <<pool, rows, accountStates, fallbackSecondaryEnabled, mu, pc, local,
                 ctxDone>>

DeadlinePasses(a) ==
  /\ "flag" \in Lapsing
  /\ accountStates[a].primaryResetTime = "ahead"
  /\ accountStates' = [accountStates EXCEPT ![a].primaryResetTime = "past"]
  /\ UNCHANGED <<pool, rows, quotaCache, fallbackSecondaryEnabled, mu, pc, local,
                 ctxDone>>

-----------------------------------------------------------------------------
Proactive(r) == ProactiveLock(r) \/ ProactivePick(r) \/ ProactiveSet(r)

PredictiveCheck(r) ==
  \/ PredictRead(r) \/ PredictQuery(r) \/ PredictStore(r) \/ PredictEval(r)
  \/ PredictClear(r) \/ PredictAfter(r) \/ PredictLog(r)

HandleExhaustion(r) ==
  \/ HandleCheck(r) \/ PrefetchLook(r) \/ PrefetchQuery(r) \/ PrefetchStore(r)
  \/ HandleLock(r)

Rotate(r) == RecheckActive(r) \/ MarkExhausted(r) \/ PickNext(r) \/ Activate(r)

\* The steps of a handler goroutine inside the engine.
EngineStep(r) == Proactive(r) \/ PredictiveCheck(r) \/ HandleExhaustion(r) \/ Rotate(r)

Handler(r) ==
  \/ \E m \in Asked : Arrive(r, m)
  \/ Answered(r) \/ Exhausted(r) \/ ClientLeaves(r)
  \/ EngineStep(r)

Surroundings ==
  \/ \E on \in Switchable : SetFallbackConfig(on)
  \/ \E a \in Account : PollerStoresRows(a) \/ RowsLapse(a) \/ CacheLapses(a)
                        \/ DeadlinePasses(a)
  \/ \E a \in Account, s \in PollStatus : PollerSetsStatus(a, s)
  \/ \E a \in Outside : PutInUseOutside(a)

Next == (\E r \in Request : Handler(r)) \/ Surroundings

Spec == Init /\ [][Next]_vars

\* A goroutine that can run runs; sync.RWMutex does not starve a waiter.
Fairness == \A r \in Request : SF_vars(EngineStep(r))

FairSpec == Spec /\ Fairness
=============================================================================
