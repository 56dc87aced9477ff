----------------------- MODULE FailoverEngine_proofs -----------------------
(***************************************************************************)
(* Theorems about FailoverEngine, for every set of accounts and requests   *)
(* and every choice of the other constants; and that it implements the     *)
(* pool of AccountPool.                                                    *)
(***************************************************************************)
EXTENDS FailoverProps, TLAPS

USE DEF Tier, Condition

-----------------------------------------------------------------------------
(* The operators of QuotaView map views to views and flags to flags. *)

\* The buckets the engine iterates over always form a view.
LEMMA AsViewType ==
  ASSUME NEW v \in View \cup {NoView}
  PROVE  AsView(v) \in View
BY DEF AsView, NoBuckets, View

\* Zeroing the buckets of a tier (markModelExhaustedLocked) gives a view.
LEMMA MarkSpentType ==
  ASSUME NEW v \in View, NEW t \in Tier
  PROVE  MarkSpent(v, t) \in View
BY DEF MarkSpent, View

\* Reaching reset times gives a view.
LEMMA LapseType ==
  ASSUME NEW v \in View, NEW t \in Tier
  PROVE  Lapse(v, t) \in View
BY DEF Lapse, View

\* A new entry carries no flag.
LEMMA FreshCoherent == Fresh \in FallbackState /\ CoherentState(Fresh)
BY DEF Fresh, FallbackState, Deadline, CoherentState

\* Each write of the flags keeps them well formed and coherent.
LEMMA WritesCoherent ==
  ASSUME NEW st \in FallbackState, CoherentState(st)
  PROVE  /\ ClearPrimary(st) \in FallbackState /\ CoherentState(ClearPrimary(st))
         /\ FallBack(st) \in FallbackState /\ CoherentState(FallBack(st))
         /\ Drain(st) \in FallbackState /\ CoherentState(Drain(st))
         /\ Announce(st) \in FallbackState /\ CoherentState(Announce(st))
BY DEF FallbackState, Deadline, CoherentState, ClearPrimary, FallBack, Drain, Announce

\* A cache refresh (UpdateQuotaCache) keeps the flags well formed.
LEMMA RefreshType ==
  ASSUME NEW st \in FallbackState, NEW v \in View
  PROVE  Refresh(st, v) \in FallbackState
BY DEF FallbackState, Deadline, ClearPrimary, Refresh

\* A cache refresh (UpdateQuotaCache) keeps the flags well formed and coherent.
LEMMA RefreshCoherent ==
  ASSUME NEW st \in FallbackState, CoherentState(st), NEW v \in View
  PROVE  Refresh(st, v) \in FallbackState /\ CoherentState(Refresh(st, v))
BY DEF FallbackState, Deadline, CoherentState, ClearPrimary, Refresh

-----------------------------------------------------------------------------
(* Type correctness *)

\* The helpers of the actions that write several variables.
LEMMA UpdateQuotaCacheType ==
  ASSUME TypeOK, NEW a \in Account, NEW v \in View, UpdateQuotaCache(a, v)
  PROVE  /\ quotaCache' \in [Account -> View \cup {NoView}]
         /\ accountStates' \in [Account -> FallbackState]
<1>1. Refresh(accountStates[a], v) \in FallbackState
  <2>1. accountStates[a] \in FallbackState
    BY DEF TypeOK
  <2> QED
    BY <2>1, RefreshType
<1> QED
  BY <1>1 DEF TypeOK, UpdateQuotaCache

LEMMA SetActiveType ==
  ASSUME TypeOK, NEW a \in Account, SetActive(a)
  PROVE  /\ status' \in [Account -> Status]
         /\ isActive' \in [Account -> BOOLEAN]
BY DEF TypeOK, SetActive, Status

\* A handler that returns leaves well-typed locals, and no reference to a nil account.
LEMMA FinishType ==
  ASSUME TypeOK, NEW r \in Request, Finish(r)
  PROVE  /\ pc' \in [Request -> Pc] /\ acc' \in [Request -> Account \cup {NoAccount}]
         /\ origModel' \in [Request -> Model] /\ model' \in [Request -> Model]
         /\ ctxDone' \in [Request -> BOOLEAN]
         /\ \A q \in Request : /\ pc'[q] # "idle" => acc'[q] # NoAccount
                               /\ pc'[q] \in {"a_set", "r_set"} => q # r /\ pc'[q] = pc[q]
BY DEF TypeOK, Finish, Goto, Pc, Model

\* Inside the engine a request is about an account.
LEMMA EngineStepOnAccount ==
  ASSUME TypeOK, NEW r \in Request, EngineStep(r)
  PROVE  pc[r] \notin {"idle", "sent"} /\ acc[r] \in Account
BY DEF TypeOK, EngineStep, Proactive, PredictiveCheck, HandleExhaustion, Rotate,
       ProactiveLock, ProactivePick, ProactiveSet, PredictRead, PredictQuery, PredictStore,
       PredictEval, PredictClear, PredictAfter, PredictLog, HandleCheck, PrefetchLook,
       PrefetchQuery, PrefetchStore, HandleLock, RecheckActive, MarkExhausted, PickNext,
       Activate

\* A step of a handler inside the engine keeps the types.
LEMMA EngineStepType ==
  ASSUME TypeOK, NEW r \in Request, EngineStep(r)
  PROVE  TypeOK'
<1> USE EngineAssumption DEF TypeOK, vars, pool, engine, local, Goto, Pc, AdoptPc, PredictPc,
        HandlePc, RotatePc, Model
<1>a. pc[r] \notin {"idle", "sent"} /\ acc[r] \in Account
  BY EngineStepOnAccount
<1>b. /\ ClearPrimary(accountStates[acc[r]]) \in FallbackState
      /\ Announce(accountStates[acc[r]]) \in FallbackState
      /\ Drain(accountStates[acc[r]]) \in FallbackState
      /\ FallBack(accountStates[acc[r]]) \in FallbackState
  <2>1. accountStates[acc[r]] \in FallbackState
    BY <1>a
  <2> QED
    BY <2>1 DEF FallbackState, Deadline, ClearPrimary, Announce, Drain, FallBack
<1>1. CASE ProactiveLock(r)
  BY <1>a, <1>1 DEF ProactiveLock, Moved, Onward
<1>2. CASE ProactivePick(r)
  BY <1>a, <1>2 DEF ProactivePick, NextAvailable, Unlock, Onward
<1>3. CASE ProactiveSet(r)
  BY <1>a, <1>3, SetActiveType, FreshCoherent DEF ProactiveSet, Unlock, Onward
<1>4. CASE PredictRead(r)
  <2>1. Buckets(acc[r]) \in View
    BY <1>a, AsViewType DEF Buckets
  <2>2. CASE Evaluate(r)
    BY <1>a, <1>4, <2>1, <2>2 DEF PredictRead, Evaluate, Decide
  <2> QED
    BY <1>a, <1>4, <2>2 DEF PredictRead
<1>5. CASE PredictQuery(r)
  BY <1>a, <1>5 DEF PredictQuery
<1>6. CASE PredictStore(r)
  BY <1>a, <1>6, AsViewType, UpdateQuotaCacheType DEF PredictStore
<1>7. CASE PredictEval(r)
  BY <1>a, <1>7, AsViewType DEF PredictEval, Evaluate, Decide, Buckets
<1>8. CASE PredictClear(r)
  BY <1>a, <1>8, <1>b DEF PredictClear
<1>9. CASE PredictAfter(r)
  BY <1>a, <1>9 DEF PredictAfter, Decide
<1>10. CASE PredictLog(r)
  BY <1>a, <1>10, <1>b DEF PredictLog
<1>11. CASE HandleCheck(r)
  <2>1. CASE Finish(r)
    BY <1>11, <2>1, FinishType DEF HandleCheck
  <2> QED
    BY <1>a, <1>11, <2>1 DEF HandleCheck
<1>12. CASE PrefetchLook(r)
  BY <1>a, <1>12 DEF PrefetchLook
<1>13. CASE PrefetchQuery(r)
  BY <1>a, <1>13 DEF PrefetchQuery
<1>14. CASE PrefetchStore(r)
  BY <1>a, <1>14, AsViewType, UpdateQuotaCacheType DEF PrefetchStore
<1>15. CASE RecheckActive(r)
  BY <1>a, <1>15, FreshCoherent DEF RecheckActive, Moved, AdoptAccount, Onward, Unlock
<1>16. CASE MarkExhausted(r)
  BY <1>a, <1>16 DEF MarkExhausted, Status
<1>17. CASE PickNext(r)
  <2>1. CASE ReportsPoolExhausted(r)
    BY <1>17, <2>1, FinishType DEF PickNext, Unlock
  <2>2. CASE ~ReportsPoolExhausted(r)
    BY <1>a, <1>17, <2>2 DEF PickNext, NextAvailable
  <2> QED
    BY <2>1, <2>2
<1>18. CASE Activate(r)
  <2>1. CASE ctxDone[r]
    BY <1>18, <2>1, FinishType DEF Activate, Unlock
  <2>2. CASE ~ctxDone[r]
    <3>1. cand[r] \in Account
      BY <1>18 DEF Activate
    <3>2. status' \in [Account -> Status] /\ isActive' \in [Account -> BOOLEAN]
      BY <1>18, <2>2, <3>1, SetActiveType DEF Activate
    <3>3. accountStates' \in [Account -> FallbackState]
      BY <1>18, <2>2, FreshCoherent DEF Activate
    <3>4. AdoptAccount(r, cand[r]) /\ Unlock(r)
      BY <1>18, <2>2 DEF Activate
    <3>5. UNCHANGED <<origModel, ctxDone, rows, quotaCache, fallbackSecondaryEnabled, seen>>
      BY <1>18, <2>2 DEF Activate
    <3> QED
      BY <3>1, <3>2, <3>3, <3>4, <3>5 DEF Unlock, AdoptAccount, Onward
  <2> QED
    BY <2>1, <2>2
<1>19. CASE HandleLock(r)
  <2>1. PICK a \in Account \cup {NoAccount} : HandleLock(r)!2!(a)
    BY <1>19 DEF HandleLock
  <2>2. CASE Moved(r, a)
    BY <1>a, <1>19, <2>1, <2>2 DEF HandleLock, Moved, AdoptAccount, Onward
  <2>3. CASE ~Moved(r, a) /\ (~fallbackSecondaryEnabled \/ model[r] = "none")
    BY <1>a, <1>19, <2>1, <2>3 DEF HandleLock
  <2>4. AsView(quotaCache[acc[r]]) \in View
    BY <1>a, AsViewType
  <2>5. CASE FallBackSecondary(r)
    BY <1>a, <1>b, <1>19, <2>4, <2>5, MarkSpentType DEF HandleLock, FallBackSecondary
  <2>6. CASE DrainAccount(r)
    BY <1>a, <1>b, <1>19, <2>4, <2>6, MarkSpentType DEF HandleLock, DrainAccount
  <2> QED
    BY <2>1, <2>2, <2>3, <2>5, <2>6
<1> QED
  BY <1>1, <1>2, <1>3, <1>4, <1>5, <1>6, <1>7, <1>8, <1>9, <1>10, <1>11, <1>12, <1>13,
     <1>14, <1>15, <1>16, <1>17, <1>18, <1>19
     DEF EngineStep, Proactive, PredictiveCheck, HandleExhaustion, Rotate

\* Arrival, answers and clients leaving keep the types.
LEMMA HandlerType ==
  ASSUME TypeOK, NEW r \in Request, Handler(r)
  PROVE  TypeOK'
<1> USE EngineAssumption DEF TypeOK, vars, pool, engine, local, Goto, Pc, AdoptPc, PredictPc,
        HandlePc, RotatePc, Model
<1>1. ASSUME NEW m \in Asked, Arrive(r, m) PROVE TypeOK'
  BY <1>1 DEF Arrive, ActiveNow
<1>2. CASE Answered(r)
  BY <1>2, FinishType DEF Answered
<1>3. CASE Exhausted(r)
  BY <1>3 DEF Exhausted
<1>4. CASE ClientLeaves(r)
  BY <1>4 DEF ClientLeaves
<1>5. CASE EngineStep(r)
  BY <1>5, EngineStepType
<1> QED
  BY <1>1, <1>2, <1>3, <1>4, <1>5 DEF Handler

\* The poller, the dashboard and the clock keep the types.
LEMMA SurroundingsType ==
  ASSUME TypeOK, Surroundings
  PROVE  TypeOK'
<1> USE EngineAssumption DEF TypeOK, vars, pool, engine, local
<1>1. ASSUME NEW on \in Switchable, SetFallbackConfig(on) PROVE TypeOK'
  BY <1>1 DEF SetFallbackConfig
<1>2. ASSUME NEW a \in Account, PollerStoresRows(a) PROVE TypeOK'
  BY <1>2 DEF PollerStoresRows
<1>3. ASSUME NEW a \in Account, RowsLapse(a) PROVE TypeOK'
  <2>1. PICK t \in Tier : Spent(AsView(rows[a]), t) /\ rows' = [rows EXCEPT ![a] = Lapse(@, t)]
    BY <1>3 DEF RowsLapse
  <2>2. rows[a] \in View
    BY <2>1 DEF AsView, Spent, NoBuckets
  <2> QED
    BY <1>3, <2>1, <2>2, LapseType DEF RowsLapse
<1>4. ASSUME NEW a \in Account, CacheLapses(a) PROVE TypeOK'
  <2>1. PICK t \in Tier : /\ Spent(Buckets(a), t)
                          /\ quotaCache' = [quotaCache EXCEPT ![a] = Lapse(@, t)]
    BY <1>4 DEF CacheLapses
  <2>2. quotaCache[a] \in View
    BY <2>1 DEF Buckets, AsView, Spent, NoBuckets
  <2> QED
    BY <1>4, <2>1, <2>2, LapseType DEF CacheLapses
<1>5. ASSUME NEW a \in Account, DeadlinePasses(a) PROVE TypeOK'
  <2>1. [accountStates[a] EXCEPT !.primaryResetTime = "past"] \in FallbackState
    BY DEF FallbackState, Deadline
  <2> QED
    BY <1>5, <2>1 DEF DeadlinePasses
<1>6. ASSUME NEW a \in Account, NEW s \in PollStatus, PollerSetsStatus(a, s) PROVE TypeOK'
  BY <1>6 DEF PollerSetsStatus, Status
<1>7. ASSUME NEW a \in Outside, PutInUseOutside(a) PROVE TypeOK'
  BY <1>7, SetActiveType DEF PutInUseOutside
<1> QED
  BY <1>1, <1>2, <1>3, <1>4, <1>5, <1>6, <1>7 DEF Surroundings

\* The initial states are well typed.
LEMMA InitType == Init => TypeOK
<1> SUFFICES ASSUME Init PROVE TypeOK
  OBVIOUS
<1>1. PICK a \in Account : isActive = [b \in Account |-> b = a]
  BY DEF Init
<1> QED
  BY <1>1, EngineAssumption, FreshCoherent DEF Init, TypeOK, Status, Pc, Model

\* Every step keeps the types.
LEMMA NextType == TypeOK /\ [Next]_vars => TypeOK'
<1> SUFFICES ASSUME TypeOK, [Next]_vars PROVE TypeOK'
  OBVIOUS
<1>1. CASE UNCHANGED vars
  BY <1>1 DEF TypeOK, vars, pool, engine, local
<1> QED
  BY <1>1, HandlerType, SurroundingsType DEF Next

\* Every variable keeps its type, and no nil account is ever dereferenced.
THEOREM TypeCorrect == Spec => []TypeOK
BY InitType, NextType, PTL DEF Spec

-----------------------------------------------------------------------------
(* The exhaustion flags *)

\* Whatever a handler does to the flags of an account keeps them coherent.
LEMMA EngineStepFlags ==
  ASSUME TypeOK, FlagsCohere, NEW r \in Request, EngineStep(r)
  PROVE  FlagsCohere'
<1> USE DEF FlagsCohere
<1> USE DEF engine, vars
<1>1. pc[r] \notin {"idle", "sent"} /\ acc[r] \in Account
  BY EngineStepOnAccount
<1>2. accountStates \in [Account -> FallbackState]
  BY DEF TypeOK
<1>3. /\ CoherentState(Fresh)
      /\ CoherentState(ClearPrimary(accountStates[acc[r]]))
      /\ CoherentState(FallBack(accountStates[acc[r]]))
      /\ CoherentState(Drain(accountStates[acc[r]]))
      /\ CoherentState(Announce(accountStates[acc[r]]))
  BY <1>1, <1>2, FreshCoherent, WritesCoherent
<1>4. ASSUME NEW v \in View, UpdateQuotaCache(acc[r], v)
      PROVE  FlagsCohere'
  <2>1. CoherentState(Refresh(accountStates[acc[r]], v))
    BY <1>1, <1>2, RefreshCoherent
  <2> QED
    BY <1>2, <1>4, <2>1 DEF UpdateQuotaCache
<1>5. seen[r] = NoView \/ seen[r] \in View
  BY DEF TypeOK
<1>6. CASE UNCHANGED accountStates
  BY <1>6
<1>7. CASE ProactiveSet(r) \/ RecheckActive(r) \/ Activate(r)
  BY <1>2, <1>3, <1>7 DEF ProactiveSet, RecheckActive, Activate
<1>8. CASE PredictStore(r) \/ PrefetchStore(r)
  BY <1>4, <1>5, <1>8, AsViewType DEF PredictStore, PrefetchStore
<1>9. CASE PredictClear(r) \/ PredictLog(r)
  BY <1>2, <1>3, <1>9 DEF PredictClear, PredictLog
<1>10. CASE HandleLock(r)
  BY <1>2, <1>3, <1>10 DEF HandleLock, FallBackSecondary, DrainAccount
<1> QED
  BY <1>6, <1>7, <1>8, <1>9, <1>10
     DEF EngineStep, Proactive, PredictiveCheck, HandleExhaustion, Rotate,
         ProactiveLock, ProactivePick, PredictRead, PredictQuery, PredictEval, PredictAfter,
         HandleCheck, PrefetchLook, PrefetchQuery, MarkExhausted, PickNext

\* A diverting flag is announced or has a deadline, and no announcement outlives its
\* flag, in every reachable state.
THEOREM FlagsCoherent == Spec => []FlagsCohere
<1>1. Init => FlagsCohere
  BY FreshCoherent DEF Init, FlagsCohere
<1>2. TypeOK /\ FlagsCohere /\ [Next]_vars => FlagsCohere'
  <2> SUFFICES ASSUME TypeOK, FlagsCohere, [Next]_vars PROVE FlagsCohere'
    OBVIOUS
  <2>1. CASE UNCHANGED accountStates
    BY <2>1 DEF FlagsCohere
  <2>2. ASSUME NEW r \in Request, Handler(r) PROVE FlagsCohere'
    BY <2>1, <2>2, EngineStepFlags
       DEF Handler, Arrive, Answered, Exhausted, ClientLeaves, engine
  <2>3. ASSUME NEW a \in Account, DeadlinePasses(a) PROVE FlagsCohere'
    <3>1. accountStates \in [Account -> FallbackState]
      BY DEF TypeOK
    <3> QED
      BY <2>3, <3>1 DEF FlagsCohere, CoherentState, DeadlinePasses, FallbackState
  <2>4. CASE Surroundings
    BY <2>1, <2>3, <2>4
       DEF Surroundings, SetFallbackConfig, PollerStoresRows, RowsLapse, CacheLapses,
           PollerSetsStatus, PutInUseOutside, engine
  <2> QED
    BY <2>1, <2>2, <2>4 DEF Next, vars, engine
<1> QED
  BY <1>1, <1>2, TypeCorrect, PTL DEF Spec

-----------------------------------------------------------------------------
(* Rotations exclude each other *)

\* A request between its look at the pool and its write to it holds mu.
MuHeld == \A r \in Request : Rotating(r) => mu = r

\* Exactly one account is in use.
OneActive == \E a \in Account : ActiveNow = {a}

\* Who puts an account in use without the engine does not ask for mu.
CheckInv == Outside = {} => CheckStaysCurrent

\* What CheckStaysCurrent needs to be inductive.
RotationInv == TypeOK /\ MuHeld /\ OneActive /\ CheckInv

\* SetActive moves the flag to its target.
LEMMA SetActiveMoves ==
  ASSUME TypeOK, NEW a \in Account, SetActive(a)
  PROVE  ActiveNow' = {a}
BY DEF TypeOK, SetActive, ActiveNow

\* A step of r that leaves the flag and the other requests' rotations alone, and
\* under which r holds mu while it rotates.
LEMMA QuietStep ==
  ASSUME RotationInv, NEW r \in Request,
         UNCHANGED isActive,
         \A q \in Request \ {r} : pc'[q] = pc[q] /\ cur'[q] = cur[q],
         \A q \in Request \ {r} : mu = q => mu' = q,
         Rotating(r)' => mu' = r,
         Outside = {} /\ Committed(r)' /\ cur'[r] # NoAccount => ActiveNow = {cur'[r]}
  PROVE  MuHeld' /\ OneActive' /\ CheckInv'
<1>1. ActiveNow' = ActiveNow
  BY DEF ActiveNow
<1>2. \A q \in Request \ {r} : Rotating(q)' <=> Rotating(q)
  BY DEF Rotating
<1>3. \A q \in Request \ {r} : Committed(q)' <=> Committed(q)
  BY DEF Committed
<1> QED
  BY <1>1, <1>2, <1>3 DEF RotationInv, MuHeld, OneActive, CheckInv, CheckStaysCurrent

\* What r reads as the active account is the one in use.
LEMMA ReadsTheActive ==
  ASSUME OneActive, NEW r \in Request, NEW a, ReadsActive(r, a), a # NoAccount
  PROVE  ActiveNow = {a}
BY DEF OneActive, ReadsActive

\* A step that moves the flag is the only rotation under way.
LEMMA FlagStep ==
  ASSUME RotationInv, NEW r \in Request, pc[r] \in {"a_set", "r_set"},
         SetActive(cand[r]), Unlock(r),
         NEW l \in {"idle", "sent", "p_read"}, Goto(r, l)
  PROVE  MuHeld' /\ OneActive' /\ CheckInv'
<1>1. cand[r] \in Account /\ pc \in [Request -> Pc] /\ cur \in [Request -> Account \cup {NoAccount}]
  BY DEF RotationInv, TypeOK
<1>2. OneActive'
  BY <1>1, SetActiveMoves DEF RotationInv, OneActive
<1>3. \A q \in Request \ {r} : ~Rotating(q)
  BY DEF RotationInv, MuHeld, Rotating, RotatePc
<1>4. \A q \in Request : ~Rotating(q)'
  BY <1>1, <1>3 DEF Goto, Rotating, RotatePc
<1>5. \A q \in Request : Committed(q)' => Rotating(q)'
  BY DEF Committed, Rotating, RotatePc
<1> QED
  BY <1>2, <1>4, <1>5 DEF MuHeld, CheckInv, CheckStaysCurrent

\* Every step of a handler keeps rotations exclusive and their view of the pool current.
LEMMA EngineStepRotation ==
  ASSUME RotationInv, NEW r \in Request, EngineStep(r)
  PROVE  MuHeld' /\ OneActive' /\ CheckInv'
<1> USE EngineAssumption DEF pool, engine, local, Goto, Rotating, Committed, RotatePc
<1>a. /\ TypeOK /\ pc \in [Request -> Pc] /\ cur \in [Request -> Account \cup {NoAccount}]
      /\ OneActive /\ (Rotating(r) => mu = r)
      /\ (Outside = {} /\ Committed(r) /\ cur[r] # NoAccount => ActiveNow = {cur[r]})
  BY DEF RotationInv, TypeOK, MuHeld, CheckInv, CheckStaysCurrent
<1> DEFINE Quiet ==
      /\ UNCHANGED isActive
      /\ \A q \in Request \ {r} : pc'[q] = pc[q] /\ cur'[q] = cur[q]
      /\ \A q \in Request \ {r} : mu = q => mu' = q
      /\ pc'[r] \in {"a_pick", "a_set"} \cup RotatePc => mu' = r
      /\ (/\ Outside = {} /\ cur'[r] # NoAccount
          /\ pc'[r] \in {"a_pick", "a_set", "r_mark", "r_next", "r_set"})
         => ActiveNow = {cur'[r]}
<1>b. ASSUME Quiet PROVE MuHeld' /\ OneActive' /\ CheckInv'
  BY <1>b, QuietStep
<1>1. CASE ProactiveLock(r)
  <2>1. PICK a \in Account \cup {NoAccount} : ProactiveLock(r)!2!(a)
    BY <1>1 DEF ProactiveLock
  <2>2. a # NoAccount => ActiveNow = {a}
    BY <1>a, <2>1, ReadsTheActive
  <2>3. Quiet
    BY <1>1, <1>a, <2>1, <2>2 DEF ProactiveLock, Onward
  <2> QED
    BY <2>3, <1>b
<1>2. CASE RecheckActive(r)
  <2>1. PICK a \in Account \cup {NoAccount} : RecheckActive(r)!2!(a)
    BY <1>2 DEF RecheckActive
  <2>2. a # NoAccount => ActiveNow = {a}
    BY <1>a, <2>1, ReadsTheActive
  <2>3. Quiet
    BY <1>2, <1>a, <2>1, <2>2 DEF RecheckActive, AdoptAccount, Onward, Unlock
  <2> QED
    BY <2>3, <1>b
<1>3. CASE ProactiveSet(r)
  <2>1. CASE ctxDone[r]
    <3>1. Quiet
      BY <1>3, <1>a, <2>1 DEF ProactiveSet, Unlock, Onward
    <3> QED
      BY <3>1, <1>b
  <2>2. CASE ~ctxDone[r]
    BY <1>3, <2>2, FlagStep DEF ProactiveSet, Onward
  <2> QED
    BY <2>1, <2>2
<1>4. CASE Activate(r)
  <2>1. CASE ctxDone[r]
    <3>1. Quiet
      BY <1>4, <1>a, <2>1 DEF Activate, Unlock, Finish
    <3> QED
      BY <3>1, <1>b
  <2>2. CASE ~ctxDone[r]
    BY <1>4, <2>2, FlagStep DEF Activate, AdoptAccount, Onward
  <2> QED
    BY <2>1, <2>2
<1>5. CASE ProactivePick(r)
  <2>1. Quiet
    BY <1>5, <1>a DEF ProactivePick, Unlock, Onward
  <2> QED
    BY <2>1, <1>b
<1>6. CASE PredictRead(r)
  <2>1. Quiet
    BY <1>6, <1>a DEF PredictRead, Evaluate, Decide
  <2> QED
    BY <2>1, <1>b
<1>7. CASE PredictQuery(r)
  <2>1. Quiet
    BY <1>7, <1>a DEF PredictQuery
  <2> QED
    BY <2>1, <1>b
<1>8. CASE PredictStore(r)
  <2>1. Quiet
    BY <1>8, <1>a DEF PredictStore
  <2> QED
    BY <2>1, <1>b
<1>9. CASE PredictEval(r)
  <2>1. Quiet
    BY <1>9, <1>a DEF PredictEval, Evaluate, Decide
  <2> QED
    BY <2>1, <1>b
<1>10. CASE PredictClear(r)
  <2>1. Quiet
    BY <1>10, <1>a DEF PredictClear
  <2> QED
    BY <2>1, <1>b
<1>11. CASE PredictAfter(r)
  <2>1. Quiet
    BY <1>11, <1>a DEF PredictAfter, Decide
  <2> QED
    BY <2>1, <1>b
<1>12. CASE PredictLog(r)
  <2>1. Quiet
    BY <1>12, <1>a DEF PredictLog
  <2> QED
    BY <2>1, <1>b
<1>13. CASE HandleCheck(r)
  <2>1. Quiet
    BY <1>13, <1>a DEF HandleCheck, Finish
  <2> QED
    BY <2>1, <1>b
<1>14. CASE PrefetchLook(r)
  <2>1. Quiet
    BY <1>14, <1>a DEF PrefetchLook
  <2> QED
    BY <2>1, <1>b
<1>15. CASE PrefetchQuery(r)
  <2>1. Quiet
    BY <1>15, <1>a DEF PrefetchQuery
  <2> QED
    BY <2>1, <1>b
<1>16. CASE PrefetchStore(r)
  <2>1. Quiet
    BY <1>16, <1>a DEF PrefetchStore
  <2> QED
    BY <2>1, <1>b
<1>17. CASE HandleLock(r)
  <2>1. Quiet
    BY <1>17, <1>a DEF HandleLock, AdoptAccount, Onward, FallBackSecondary, DrainAccount
  <2> QED
    BY <2>1, <1>b
<1>18. CASE MarkExhausted(r)
  <2>1. Quiet
    BY <1>18, <1>a DEF MarkExhausted
  <2> QED
    BY <2>1, <1>b
<1>19. CASE PickNext(r)
  <2>1. Quiet
    BY <1>19, <1>a DEF PickNext, Unlock, Finish
  <2> QED
    BY <2>1, <1>b
<1> QED
  BY <1>1, <1>2, <1>3, <1>4, <1>5, <1>6, <1>7, <1>8, <1>9, <1>10, <1>11, <1>12, <1>13,
     <1>14, <1>15, <1>16, <1>17, <1>18, <1>19
     DEF EngineStep, Proactive, PredictiveCheck, HandleExhaustion, Rotate

\* The inductive invariant of the rotations.
LEMMA RotationInvariant == Spec => []RotationInv
<1>1. Init => RotationInv
  <2> SUFFICES ASSUME Init PROVE RotationInv
    OBVIOUS
  <2>1. TypeOK
    BY InitType
  <2>2. PICK a \in Account : isActive = [b \in Account |-> b = a]
    BY DEF Init
  <2>3. ActiveNow = {a}
    BY <2>2 DEF ActiveNow
  <2>4. \A r \in Request : pc[r] = "idle"
    BY DEF Init
  <2> QED
    BY <2>1, <2>3, <2>4
       DEF RotationInv, MuHeld, OneActive, CheckInv, CheckStaysCurrent, Rotating, Committed,
           RotatePc
<1>2. RotationInv /\ [Next]_vars => RotationInv'
  <2> SUFFICES ASSUME RotationInv, [Next]_vars PROVE RotationInv'
    OBVIOUS
  <2>1. TypeOK'
    BY NextType DEF RotationInv
  <2>2. ASSUME UNCHANGED <<isActive, pc, cur, mu>> PROVE MuHeld' /\ OneActive' /\ CheckInv'
    BY <2>2
       DEF RotationInv, MuHeld, OneActive, CheckInv, CheckStaysCurrent, Rotating, Committed,
           ActiveNow
  <2>3. ASSUME NEW r \in Request, Handler(r) PROVE MuHeld' /\ OneActive' /\ CheckInv'
    <3> USE DEF pool, local
    <3>0. pc \in [Request -> Pc]
      BY DEF RotationInv, TypeOK
    <3>1. CASE EngineStep(r)
      BY <3>1, EngineStepRotation
    <3>2. CASE ClientLeaves(r)
      BY <2>2, <3>2 DEF ClientLeaves
    <3>3. CASE (\E m \in Asked : Arrive(r, m)) \/ Answered(r) \/ Exhausted(r)
      <4>1. /\ UNCHANGED <<isActive, cur, mu>>
            /\ \A q \in Request \ {r} : pc'[q] = pc[q]
            /\ ~Rotating(r)' /\ ~Committed(r)'
        BY <3>0, <3>3
           DEF Arrive, Answered, Exhausted, Finish, Goto, Rotating, Committed, RotatePc
      <4> QED
        BY <4>1, QuietStep
    <3> QED
      BY <2>3, <3>1, <3>2, <3>3 DEF Handler
  <2>4. CASE Surroundings
    <3>1. ASSUME NEW a \in Outside, PutInUseOutside(a)
          PROVE  MuHeld' /\ OneActive' /\ CheckInv'
      <4>1. ActiveNow' = {a} /\ a \in Account
        BY <3>1, EngineAssumption, SetActiveMoves DEF RotationInv, PutInUseOutside
      <4>2. MuHeld'
        BY <3>1 DEF RotationInv, MuHeld, PutInUseOutside, Rotating
      <4> QED
        BY <3>1, <4>1, <4>2 DEF OneActive, CheckInv
    <3>2. UNCHANGED <<isActive, pc, cur, mu>> \/ \E a \in Outside : PutInUseOutside(a)
      BY <2>4
         DEF Surroundings, SetFallbackConfig, PollerStoresRows, RowsLapse, CacheLapses,
             DeadlinePasses, PollerSetsStatus, pool, local
    <3> QED
      BY <2>1, <2>2, <3>1, <3>2 DEF RotationInv
  <2>5. CASE UNCHANGED vars
    <3>1. UNCHANGED <<isActive, pc, cur, mu>>
      BY <2>5 DEF vars, pool, local
    <3> QED
      BY <2>1, <2>2, <3>1 DEF RotationInv
  <2> QED
    BY <2>1, <2>3, <2>4, <2>5 DEF Next, RotationInv
<1> QED
  BY <1>1, <1>2, PTL DEF Spec

\* Between its look at the pool and its write to it, a rotation's account in use stays
\* the one it looked at: at any time one request rotates, from what it saw. Unless an
\* account is put in use without the engine, which would need mu as well.
THEOREM RotationsAtomic ==
  ASSUME Outside = {}
  PROVE  Spec => []CheckStaysCurrent
<1>1. RotationInv => CheckStaysCurrent
  BY DEF RotationInv, CheckInv
<1> QED
  BY <1>1, RotationInvariant, PTL

\* accounts.is_active: exactly one account is in use, whatever rotations, polls and clients
\* that go away come together.
THEOREM OneInUse == Spec => []OneActive
<1>1. RotationInv => OneActive
  BY DEF RotationInv
<1> QED
  BY <1>1, RotationInvariant, PTL

\* A step of one handler leaves every other request where it is.
LEMMA OneAtATime ==
  ASSUME TypeOK, NEW q \in Request, NEW r \in Request, q # r, Handler(q)
  PROVE  pc'[r] = pc[r] /\ acc'[r] = acc[r]
<1> USE DEF Goto, Finish, AdoptAccount, pool, local
<1>1. pc \in [Request -> Pc] /\ acc \in [Request -> Account \cup {NoAccount}]
  BY DEF TypeOK
<1>2. CASE ~EngineStep(q)
  BY <1>1, <1>2 DEF Handler, Arrive, Answered, Exhausted, ClientLeaves
<1>3. CASE Proactive(q)
  BY <1>1, <1>3 DEF Proactive, ProactiveLock, ProactivePick, ProactiveSet
<1>4. CASE PredictiveCheck(q)
  BY <1>1, <1>4
     DEF PredictiveCheck, PredictRead, PredictQuery, PredictStore, PredictEval, PredictClear,
         PredictAfter, PredictLog, Evaluate, Decide
<1>5. CASE HandleExhaustion(q)
  BY <1>1, <1>5
     DEF HandleExhaustion, HandleCheck, PrefetchLook, PrefetchQuery, PrefetchStore,
         HandleLock, FallBackSecondary, DrainAccount
<1>6. CASE Rotate(q)
  BY <1>1, <1>6 DEF Rotate, RecheckActive, MarkExhausted, PickNext, Activate
<1> QED
  BY <1>2, <1>3, <1>4, <1>5, <1>6 DEF EngineStep

-----------------------------------------------------------------------------
(* A rotation starts its account over *)

\* A rotation that ends with another account for its request, whichever way it came to it
\* and whoever else has put it in use meanwhile, has just forgotten that account's flags.
THEOREM RotationStartsOver == Spec => StartsOver
<1> DEFINE Over(r) == Rotating(r) /\ acc'[r] \notin {acc[r], NoAccount} =>
                        accountStates'[acc'[r]] = Fresh
<1>1. ASSUME TypeOK, [Next]_vars, NEW r \in Request PROVE Over(r)
  <2> USE DEF pool, local, Rotating, RotatePc
  <2>1. /\ acc \in [Request -> Account \cup {NoAccount}] /\ pc \in [Request -> Pc]
        /\ cand[r] \in Account \cup {NoAccount}
        /\ (pc[r] \in {"a_set", "r_set"} => cand[r] # NoAccount)
        /\ accountStates \in [Account -> FallbackState]
    BY <1>1 DEF TypeOK
  <2>2. CASE ProactiveSet(r)
    BY <2>1, <2>2 DEF ProactiveSet
  <2>3. CASE Activate(r)
    BY <2>1, <2>3 DEF Activate, Finish, AdoptAccount
  <2>4. CASE RecheckActive(r)
    <3>1. PICK a \in Account \cup {NoAccount} : RecheckActive(r)!2!(a)
      BY <2>4 DEF RecheckActive
    <3>2. Moved(r, a) => a \in Account
      BY DEF Moved
    <3> QED
      BY <2>1, <3>1, <3>2 DEF AdoptAccount
  <2>5. CASE ProactivePick(r) \/ MarkExhausted(r) \/ PickNext(r)
    BY <2>1, <2>5 DEF ProactivePick, MarkExhausted, PickNext, Finish
  <2>6. CASE ~Rotating(r) \/ acc' = acc
    BY <2>6
  <2>7. ASSUME Handler(r), Rotating(r)
        PROVE  \/ ProactiveSet(r) \/ Activate(r) \/ RecheckActive(r)
               \/ ProactivePick(r) \/ MarkExhausted(r) \/ PickNext(r) \/ acc' = acc
    BY <2>1, <2>7
       DEF Handler, Arrive, Answered, Exhausted, ClientLeaves, EngineStep, Proactive,
           PredictiveCheck, HandleExhaustion, Rotate, ProactiveLock, PredictRead,
           PredictQuery, PredictStore, PredictEval, PredictClear, PredictAfter, PredictLog,
           HandleCheck, PrefetchLook, PrefetchQuery, PrefetchStore, HandleLock
  <2>8. ASSUME NEW q \in Request, q # r, Handler(q) PROVE acc'[r] = acc[r]
    BY <1>1, <2>8, OneAtATime
  <2>9. CASE Surroundings \/ UNCHANGED vars
    BY <2>6, <2>9
       DEF Surroundings, SetFallbackConfig, PollerStoresRows, RowsLapse, CacheLapses,
           DeadlinePasses, PollerSetsStatus, PutInUseOutside, vars
  <2> QED
    BY <1>1, <2>2, <2>3, <2>4, <2>5, <2>6, <2>7, <2>8, <2>9 DEF Next
<1>2. TypeOK /\ [Next]_vars => [\A r \in Request : Over(r)]_vars
  BY <1>1
<1> QED
  BY <1>2, TypeCorrect, PTL DEF Spec, StartsOver

-----------------------------------------------------------------------------
(* What HandleExhaustion hands back *)

\* A rotation never turns back to the account it leaves.
TurnsElsewhere == \A r \in Request : pc[r] = "r_set" => cand[r] # acc[r]

\* A handler's step keeps it: only PickNext arms a rotation.
LEMMA EngineStepTurns ==
  ASSUME TypeOK, TurnsElsewhere, NEW r \in Request, EngineStep(r)
  PROVE  TurnsElsewhere'
<1> USE DEF pool, engine, local, Goto
<1>1. /\ pc \in [Request -> Pc] /\ acc \in [Request -> Account \cup {NoAccount}]
      /\ cand \in [Request -> Account \cup {NoAccount}]
  BY DEF TypeOK
<1>2. CASE PickNext(r)
  BY <1>1, <1>2 DEF TurnsElsewhere, PickNext, NextAvailable, Finish, Unlock
<1>3. ASSUME \A q \in Request \ {r} : pc'[q] = pc[q] /\ cand'[q] = cand[q] /\ acc'[q] = acc[q],
             pc'[r] # "r_set"
      PROVE  TurnsElsewhere'
  BY <1>3 DEF TurnsElsewhere
<1>4. CASE Proactive(r)
  BY <1>1, <1>3, <1>4
     DEF Proactive, ProactiveLock, ProactivePick, ProactiveSet, Onward, Unlock
<1>5. CASE PredictiveCheck(r)
  BY <1>1, <1>3, <1>5
     DEF PredictiveCheck, PredictRead, PredictQuery, PredictStore, PredictEval, PredictClear,
         PredictAfter, PredictLog, Evaluate, Decide
<1>6. CASE HandleExhaustion(r)
  BY <1>1, <1>3, <1>6
     DEF HandleExhaustion, HandleCheck, PrefetchLook, PrefetchQuery, PrefetchStore,
         HandleLock, Finish, AdoptAccount, Onward, FallBackSecondary, DrainAccount
<1>7. CASE RecheckActive(r) \/ MarkExhausted(r) \/ Activate(r)
  BY <1>1, <1>3, <1>7
     DEF RecheckActive, MarkExhausted, Activate, AdoptAccount, Onward, Unlock, Finish
<1> QED
  BY <1>2, <1>4, <1>5, <1>6, <1>7 DEF EngineStep, Rotate

\* The account or model that HandleExhaustion hands back is not the one that failed,
\* and an account it hands back is in use and has quota at that moment.
THEOREM HandsOverServing == Spec => HandsOver
<1> DEFINE Hands == \A r \in Request :
      pc[r] \in {"h_lock", "r_active", "r_set"} /\ pc'[r] \in {"sent", "p_read"} =>
         \/ acc'[r] = acc[r] /\ model[r] # "secondary" /\ model'[r] = "secondary"
         \/ /\ acc'[r] \in Account \ {acc[r]}
            /\ isActive'[acc'[r]] /\ status'[acc'[r]] = "active"
<1>1. Init => TurnsElsewhere
  BY DEF Init, TurnsElsewhere
<1>2. TypeOK /\ TurnsElsewhere /\ [Next]_vars => TurnsElsewhere'
  <2> SUFFICES ASSUME TypeOK, TurnsElsewhere, [Next]_vars PROVE TurnsElsewhere'
    OBVIOUS
  <2> USE DEF pool, local
  <2>0. pc \in [Request -> Pc]
    BY DEF TypeOK
  <2>1. CASE UNCHANGED <<pc, cand, acc>>
    BY <2>1 DEF TurnsElsewhere
  <2>2. ASSUME NEW r \in Request, Handler(r) PROVE TurnsElsewhere'
    <3>1. CASE EngineStep(r)
      BY <3>1, EngineStepTurns
    <3>2. CASE ClientLeaves(r)
      BY <2>1, <3>2 DEF ClientLeaves
    <3>3. CASE (\E m \in Asked : Arrive(r, m)) \/ Answered(r) \/ Exhausted(r)
      BY <2>0, <3>3, TypeOK
         DEF TypeOK, TurnsElsewhere, Arrive, Answered, Exhausted, Finish, Goto
    <3> QED
      BY <2>2, <3>1, <3>2, <3>3 DEF Handler
  <2>3. CASE Surroundings
    BY <2>1, <2>3
       DEF Surroundings, SetFallbackConfig, PollerStoresRows, RowsLapse, CacheLapses,
           DeadlinePasses, PollerSetsStatus, PutInUseOutside
  <2> QED
    BY <2>1, <2>2, <2>3 DEF Next, vars
<1>3. ASSUME TypeOK, TurnsElsewhere, [Next]_vars PROVE Hands
  <2> SUFFICES ASSUME NEW r \in Request, pc[r] \in {"h_lock", "r_active", "r_set"},
                      pc'[r] \in {"sent", "p_read"}
               PROVE  \/ acc'[r] = acc[r] /\ model[r] # "secondary" /\ model'[r] = "secondary"
                      \/ /\ acc'[r] \in Account \ {acc[r]}
                         /\ isActive'[acc'[r]] /\ status'[acc'[r]] = "active"
    OBVIOUS
  <2> USE DEF pool, local, Goto
  <2>1. /\ pc \in [Request -> Pc] /\ acc \in [Request -> Account \cup {NoAccount}]
        /\ model \in [Request -> Model] /\ isActive \in [Account -> BOOLEAN]
        /\ status \in [Account -> Status] /\ cand[r] \in Account \cup {NoAccount}
        /\ (pc[r] = "r_set" => cand[r] # NoAccount /\ cand[r] # acc[r])
    BY <1>3 DEF TypeOK, TurnsElsewhere
  <2>2. CASE HandleLock(r)
    BY <2>1, <2>2, EngineAssumption
       DEF HandleLock, ReadsActive, ActiveNow, Moved, Available, AdoptAccount,
           FallBackSecondary, DrainAccount
  <2>3. CASE RecheckActive(r)
    BY <2>1, <2>3, EngineAssumption
       DEF RecheckActive, ReadsActive, ActiveNow, Moved, Available, AdoptAccount
  <2>4. CASE Activate(r)
    BY <2>1, <2>4 DEF Activate, Finish, SetActive, AdoptAccount
  <2>5. ASSUME NEW q \in Request, q # r, Handler(q) PROVE pc'[r] = pc[r]
    BY <1>3, <2>5, OneAtATime
  <2>6. CASE Surroundings \/ UNCHANGED vars
    BY <2>6
       DEF Surroundings, SetFallbackConfig, PollerStoresRows, RowsLapse, CacheLapses,
           DeadlinePasses, PollerSetsStatus, PutInUseOutside, vars
  <2>7. CASE Handler(r)
    <3>1. HandleLock(r) \/ RecheckActive(r) \/ Activate(r) \/ pc'[r] = pc[r]
      BY <2>1, <2>7
         DEF Handler, Arrive, Answered, Exhausted, ClientLeaves, EngineStep, Proactive,
             PredictiveCheck, HandleExhaustion, Rotate, ProactiveLock, ProactivePick,
             ProactiveSet, PredictRead, PredictQuery, PredictStore, PredictEval,
             PredictClear, PredictAfter, PredictLog, HandleCheck, PrefetchLook,
             PrefetchQuery, PrefetchStore, MarkExhausted, PickNext
    <3> QED
      BY <2>2, <2>3, <2>4, <3>1
  <2> QED
    BY <1>3, <2>5, <2>6, <2>7 DEF Next
<1>4. TypeOK /\ TurnsElsewhere /\ [Next]_vars => [Hands]_vars
  BY <1>3
<1> QED
  BY <1>1, <1>2, <1>4, TypeCorrect, PTL DEF Spec, HandsOver

-----------------------------------------------------------------------------
(* FailoverEngine implements AccountPool while the poller leaves the       *)
(* statuses alone, for any accounts, requests, views and switches, and     *)
(* whichever clients go away.                                              *)


\* What a rotation relies on when it moves the flag: it has seen the account in use,
\* which is its own or does not serve, and it turns to another one that does. And a
\* request that is not there uses no account.
PickInv ==
  /\ \A r \in Request : pc[r] = "idle" => acc[r] = NoAccount
  /\ \A r \in Request : Committed(r) /\ ~ctxDone[r] =>
       /\ cur[r] # NoAccount
       /\ cur[r] = acc[r] \/ ~Available(cur[r])
       /\ pc[r] \in {"a_set", "r_set"} => Available(cand[r]) /\ cand[r] # acc[r]

\* A step of one request leaves the locals of another alone, and, while that one is
\* rotating, the statuses too.
LEMMA OthersStep ==
  ASSUME RotationInv, NEW q \in Request, NEW r \in Request, q # r, Handler(q)
  PROVE  /\ pc'[r] = pc[r] /\ acc'[r] = acc[r] /\ cur'[r] = cur[r]
         /\ cand'[r] = cand[r] /\ ctxDone'[r] = ctxDone[r]
         /\ Rotating(r) => status' = status
<1> USE DEF Goto, Finish, AdoptAccount, Unlock, pool, local
<1>1. /\ pc \in [Request -> Pc] /\ acc \in [Request -> Account \cup {NoAccount}]
      /\ cur \in [Request -> Account \cup {NoAccount}]
      /\ cand \in [Request -> Account \cup {NoAccount}]
      /\ ctxDone \in [Request -> BOOLEAN]
  BY DEF RotationInv, TypeOK
<1>2. Rotating(r) => pc[q] \notin {"a_pick", "a_set"} \cup RotatePc
  BY DEF RotationInv, MuHeld, Rotating
<1>3. CASE ~EngineStep(q)
  BY <1>1, <1>3 DEF Handler, Arrive, Answered, Exhausted, ClientLeaves
<1>4. CASE Proactive(q)
  BY <1>1, <1>2, <1>4 DEF Proactive, ProactiveLock, ProactivePick, ProactiveSet
<1>5. CASE PredictiveCheck(q)
  BY <1>1, <1>5
     DEF PredictiveCheck, PredictRead, PredictQuery, PredictStore, PredictEval, PredictClear,
         PredictAfter, PredictLog, Evaluate, Decide
<1>6. CASE HandleExhaustion(q)
  BY <1>1, <1>6
     DEF HandleExhaustion, HandleCheck, PrefetchLook, PrefetchQuery, PrefetchStore,
         HandleLock, FallBackSecondary, DrainAccount
<1>7. CASE Rotate(q)
  BY <1>1, <1>2, <1>7
     DEF Rotate, RecheckActive, MarkExhausted, PickNext, Activate, RotatePc
<1> QED
  BY <1>3, <1>4, <1>5, <1>6, <1>7 DEF EngineStep

\* A request's own step keeps its part.
LEMMA OwnStep ==
  ASSUME RotationInv, PickInv, NEW r \in Request, Handler(r)
  PROVE  /\ pc'[r] = "idle" => acc'[r] = NoAccount
         /\ Committed(r)' /\ ~ctxDone'[r] =>
              /\ cur'[r] # NoAccount
              /\ cur'[r] = acc'[r] \/ ~Available(cur[r])'
              /\ pc'[r] \in {"a_set", "r_set"} => Available(cand[r])' /\ cand'[r] # acc'[r]
<1> USE DEF Goto, Finish, AdoptAccount, Unlock, pool, local, Committed
<1>1. /\ pc \in [Request -> Pc] /\ acc \in [Request -> Account \cup {NoAccount}]
      /\ cur \in [Request -> Account \cup {NoAccount}]
      /\ cand \in [Request -> Account \cup {NoAccount}]
      /\ ctxDone \in [Request -> BOOLEAN] /\ status \in [Account -> Status]
      /\ OneActive
  BY DEF RotationInv, TypeOK
<1>2. /\ pc[r] = "idle" => acc[r] = NoAccount
      /\ Committed(r) /\ ~ctxDone[r] =>
           /\ cur[r] # NoAccount
           /\ cur[r] = acc[r] \/ ~Available(cur[r])
           /\ pc[r] \in {"a_set", "r_set"} => Available(cand[r]) /\ cand[r] # acc[r]
  BY DEF PickInv
<1>3. CASE ~EngineStep(r)
  BY <1>1, <1>2, <1>3
     DEF Handler, Arrive, Answered, Exhausted, ClientLeaves, Available
<1>4. CASE ProactiveLock(r) \/ RecheckActive(r)
  BY <1>1, <1>2, <1>4, EngineAssumption
     DEF ProactiveLock, RecheckActive, ReadsActive, Moved, Available, Onward, OneActive,
         ActiveNow
<1>5. CASE ProactivePick(r) \/ PickNext(r)
  BY <1>1, <1>2, <1>5
     DEF ProactivePick, PickNext, ReportsPoolExhausted, NextAvailable, Available, Onward
<1>6. CASE MarkExhausted(r)
  BY <1>1, <1>2, <1>6 DEF MarkExhausted, Available
<1>7. CASE ProactiveSet(r) \/ Activate(r)
  BY <1>1, <1>2, <1>7 DEF ProactiveSet, Activate, Onward
<1>8. CASE PredictiveCheck(r)
  BY <1>1, <1>2, <1>8
     DEF PredictiveCheck, PredictRead, PredictQuery, PredictStore, PredictEval, PredictClear,
         PredictAfter, PredictLog, Evaluate, Decide
<1>9. CASE HandleExhaustion(r)
  BY <1>1, <1>2, <1>9
     DEF HandleExhaustion, HandleCheck, PrefetchLook, PrefetchQuery, PrefetchStore,
         HandleLock, FallBackSecondary, DrainAccount, Onward
<1> QED
  BY <1>3, <1>4, <1>5, <1>6, <1>7, <1>8, <1>9 DEF EngineStep, Proactive, Rotate

\* Between polls and selections the surroundings change neither the pool nor any request.
LEMMA QuietSurroundings ==
  ASSUME PollStatus = {}, Outside = {}, Surroundings
  PROVE  UNCHANGED <<status, isActive, pc, acc, cur, cand, ctxDone>>
BY DEF Surroundings, SetFallbackConfig, PollerStoresRows, RowsLapse, CacheLapses,
       DeadlinePasses, PollerSetsStatus, pool, local

\* Every step keeps it.
LEMMA PickInductive ==
  ASSUME PollStatus = {}, Outside = {}, RotationInv, PickInv, [Next]_vars
  PROVE  PickInv'
<1>1. CASE UNCHANGED <<status, isActive, pc, acc, cur, cand, ctxDone>>
  BY <1>1 DEF PickInv, Committed, Available
<1>2. ASSUME NEW q \in Request, Handler(q) PROVE PickInv'
  <2>1. ASSUME NEW r \in Request, r # q
        PROVE  /\ pc'[r] = "idle" => acc'[r] = NoAccount
               /\ Committed(r)' /\ ~ctxDone'[r] =>
                    /\ cur'[r] # NoAccount
                    /\ cur'[r] = acc'[r] \/ ~Available(cur[r])'
                    /\ pc'[r] \in {"a_set", "r_set"} =>
                         Available(cand[r])' /\ cand'[r] # acc'[r]
    <3>1. /\ pc'[r] = pc[r] /\ acc'[r] = acc[r] /\ cur'[r] = cur[r]
          /\ cand'[r] = cand[r] /\ ctxDone'[r] = ctxDone[r]
          /\ Rotating(r) => status' = status
      BY <1>2, <2>1, OthersStep
    <3> QED
      BY <3>1 DEF PickInv, Committed, Rotating, RotatePc, Available
  <2> QED
    BY <1>2, <2>1, OwnStep DEF PickInv
<1> QED
  BY <1>1, <1>2, QuietSurroundings DEF Next, vars, pool, local

-----------------------------------------------------------------------------
(* Each step of the engine is a step of the pool, or none that shows. *)

Usable == {a \in Account : Available(a)}

\* A step that changes nothing the pool knows of.
LEMMA Stutters ==
  ASSUME UNCHANGED <<status, isActive, acc>>
  PROVE  UNCHANGED Pool!vars
BY DEF Pool!vars, ActiveNow, Available

\* A rotation's last step, proactive or not.
LEMMA MovesThePool ==
  ASSUME Outside = {}, RotationInv, PickInv, NEW r \in Request,
         pc[r] \in {"a_set", "r_set"}, ~ctxDone[r],
         SetActive(cand[r]), acc' = [acc EXCEPT ![r] = cand[r]]
  PROVE  Pool!Rotate(r)
<1>1. /\ acc[r] \in Account /\ cand[r] \in Account /\ cur[r] \in Account
      /\ status \in [Account -> Status]
  BY DEF RotationInv, TypeOK, PickInv, Committed
<1>2. /\ Available(cand[r]) /\ cand[r] # acc[r]
      /\ cur[r] = acc[r] \/ ~Available(cur[r])
      /\ ActiveNow = {cur[r]}
  BY DEF RotationInv, PickInv, CheckInv, CheckStaysCurrent, Committed
<1>3. ActiveNow' = {cand[r]}
  BY <1>1, SetActiveMoves DEF RotationInv
<1>4. Usable' = Usable
  BY <1>1, <1>2 DEF Usable, SetActive, Available
<1>5. acc[r] \in ActiveNow \/ (acc[r] # NoAccount /\ ActiveNow \cap Usable = {})
  BY <1>1, <1>2, EngineAssumption DEF Usable
<1>6. cand[r] \in Usable \ {acc[r]}
  BY <1>1, <1>2 DEF Usable
<1> QED
  BY <1>3, <1>4, <1>5, <1>6 DEF Pool!Rotate, Pool!Turn, Usable

\* A request that finds the pool moved joins the others.
LEMMA JoinsThePool ==
  ASSUME RotationInv, NEW r \in Request, pc[r] # "idle", UNCHANGED <<status, isActive>>,
         NEW a \in Account \cup {NoAccount}, ReadsActive(r, a), Moved(r, a),
         acc' = [acc EXCEPT ![r] = a]
  PROVE  Pool!Join(r)
<1>1. acc[r] # NoAccount /\ a \in (ActiveNow \cap Usable) \ {acc[r]}
  BY DEF RotationInv, TypeOK, ReadsActive, Moved, Usable
<1>2. ActiveNow' = ActiveNow /\ Usable' = Usable
  BY DEF ActiveNow, Usable, Available
<1> QED
  BY <1>1, <1>2 DEF Pool!Join, Pool!Turn, Usable

\* A handler that returns leaves the pool as it is.
LEMMA LeavesThePool ==
  ASSUME RotationInv, NEW r \in Request, pc[r] # "idle", UNCHANGED <<status, isActive>>,
         Finish(r)
  PROVE  Pool!Leave(r)
<1>1. acc[r] # NoAccount
  BY DEF RotationInv, TypeOK
<1>2. ActiveNow' = ActiveNow /\ Usable' = Usable
  BY DEF ActiveNow, Usable, Available
<1> QED
  BY <1>1, <1>2 DEF Pool!Leave, Pool!Turn, Finish, Usable

\* A handler's step maps to a step of the same request, or to none.
LEMMA HandlerImplements ==
  ASSUME Outside = {}, RotationInv, PickInv, NEW r \in Request, Handler(r)
  PROVE  Pool!Next \/ UNCHANGED Pool!vars
<1> USE DEF pool, local
<1>1. ASSUME NEW m \in Asked, Arrive(r, m) PROVE Pool!Take(r)
  <2>1. ActiveNow' = ActiveNow /\ Usable' = Usable
    BY <1>1 DEF Arrive, ActiveNow, Usable, Available
  <2> QED
    BY <1>1, <2>1 DEF Arrive, PickInv, Pool!Take, Pool!Turn, Usable
<1>2. CASE Answered(r)
  BY <1>2, LeavesThePool DEF Answered, Pool!Next
<1>3. CASE Exhausted(r) \/ ClientLeaves(r) \/ ProactivePick(r)
  BY <1>3, Stutters DEF Exhausted, ClientLeaves, ProactivePick
<1>4. CASE ProactiveLock(r)
  <2>1. PICK a \in Account \cup {NoAccount} :
          /\ ReadsActive(r, a)
          /\ IF ctxDone[r] \/ Moved(r, a)
             THEN acc' = IF ctxDone[r] THEN acc ELSE [acc EXCEPT ![r] = a]
             ELSE UNCHANGED acc
    BY <1>4 DEF ProactiveLock
  <2>2. CASE ~ctxDone[r] /\ Moved(r, a)
    BY <1>4, <2>1, <2>2, JoinsThePool DEF ProactiveLock, Pool!Next
  <2> QED
    BY <1>4, <2>1, <2>2, Stutters DEF ProactiveLock
<1>5. CASE ProactiveSet(r)
  <2>1. CASE ctxDone[r]
    BY <1>5, <2>1, Stutters DEF ProactiveSet
  <2>2. CASE ~ctxDone[r]
    BY <1>5, <2>2, MovesThePool DEF ProactiveSet, Pool!Next
  <2> QED
    BY <2>1, <2>2
<1>6. CASE PredictiveCheck(r)
  <2>1. UNCHANGED <<status, isActive, acc>>
    BY <1>6
       DEF PredictiveCheck, PredictRead, PredictQuery, PredictStore, PredictEval,
           PredictClear, PredictAfter, PredictLog, Evaluate, Decide
  <2> QED
    BY <2>1, Stutters
<1>7. CASE HandleCheck(r)
  BY <1>7, LeavesThePool, Stutters DEF HandleCheck, Pool!Next
<1>8. CASE PrefetchLook(r) \/ PrefetchQuery(r) \/ PrefetchStore(r)
  BY <1>8, Stutters DEF PrefetchLook, PrefetchQuery, PrefetchStore
<1>9. CASE HandleLock(r)
  <2>1. PICK a \in Account \cup {NoAccount} :
          ReadsActive(r, a) /\ IF Moved(r, a) THEN acc' = [acc EXCEPT ![r] = a]
                                              ELSE UNCHANGED acc
    BY <1>9 DEF HandleLock, AdoptAccount, FallBackSecondary, DrainAccount
  <2>2. pc[r] # "idle" /\ UNCHANGED <<status, isActive>>
    BY <1>9 DEF HandleLock
  <2> QED
    BY <2>1, <2>2, JoinsThePool, Stutters DEF Pool!Next
<1>10. CASE RecheckActive(r)
  <2>1. PICK a \in Account \cup {NoAccount} :
          ReadsActive(r, a) /\ IF Moved(r, a) THEN acc' = [acc EXCEPT ![r] = a]
                                              ELSE UNCHANGED acc
    BY <1>10 DEF RecheckActive, AdoptAccount
  <2>2. pc[r] # "idle" /\ UNCHANGED <<status, isActive>>
    BY <1>10 DEF RecheckActive
  <2> QED
    BY <2>1, <2>2, JoinsThePool, Stutters DEF Pool!Next
<1>11. CASE MarkExhausted(r)
  <2>1. CASE ctxDone[r]
    BY <1>11, <2>1, Stutters DEF MarkExhausted
  <2>2. CASE ~ctxDone[r]
    <3>1. acc[r] \in Account /\ status \in [Account -> Status]
      BY <1>11 DEF MarkExhausted, RotationInv, TypeOK
    <3>2. ActiveNow' = ActiveNow /\ Usable' = Usable \ {acc[r]}
      BY <1>11, <2>2, <3>1 DEF MarkExhausted, ActiveNow, Usable, Available
    <3>3. Pool!FindSpent(r)
      BY <1>11, <3>1, <3>2, EngineAssumption DEF MarkExhausted, Pool!FindSpent, Usable
    <3> QED
      BY <3>3 DEF Pool!Next
  <2> QED
    BY <2>1, <2>2
<1>12. CASE PickNext(r)
  BY <1>12, LeavesThePool, Stutters DEF PickNext, Pool!Next
<1>13. CASE Activate(r)
  <2>1. CASE ctxDone[r]
    BY <1>13, <2>1, LeavesThePool DEF Activate, Pool!Next
  <2>2. CASE ~ctxDone[r]
    BY <1>13, <2>2, MovesThePool DEF Activate, AdoptAccount, Pool!Next
  <2> QED
    BY <2>1, <2>2
<1> QED
  BY <1>1, <1>2, <1>3, <1>4, <1>5, <1>6, <1>7, <1>8, <1>9, <1>10, <1>11, <1>12, <1>13
     DEF Handler, EngineStep, Proactive, HandleExhaustion, Rotate, Pool!Next

\* Between two polls and two selections the engine implements the pool.
THEOREM EngineImplementsPool ==
  ASSUME PollStatus = {}, Outside = {}
  PROVE  Spec => ImplementsAccountPool
<1>1. Init => PickInv /\ Pool!Init
  <2> SUFFICES ASSUME Init PROVE PickInv /\ Pool!Init
    OBVIOUS
  <2>1. PickInv
    BY DEF Init, PickInv, Committed
  <2>2. PICK a \in Account : isActive = [b \in Account |-> b = a]
    BY DEF Init
  <2>3. ActiveNow = {a} /\ Usable = Account
    BY <2>2 DEF Init, ActiveNow, Usable, Available
  <2> QED
    BY <2>1, <2>3 DEF Init, Pool!Init, Usable
<1>2. RotationInv /\ PickInv /\ [Next]_vars => PickInv'
  BY PickInductive
<1>3. RotationInv /\ PickInv /\ [Next]_vars => [Pool!Next]_(Pool!vars)
  <2> SUFFICES ASSUME RotationInv, PickInv, [Next]_vars
               PROVE  Pool!Next \/ UNCHANGED Pool!vars
    OBVIOUS
  <2>1. CASE Surroundings
    BY <2>1, QuietSurroundings, Stutters
  <2>2. CASE UNCHANGED vars
    BY <2>2, Stutters DEF vars, pool, local
  <2> QED
    BY <2>1, <2>2, HandlerImplements DEF Next
<1> QED
  BY <1>1, <1>2, <1>3, RotationInvariant, PTL DEF Spec, ImplementsAccountPool, Pool!Spec

-----------------------------------------------------------------------------
(* Whoever looks at the pool while nobody rotates finds an account that serves. *)

SomeoneServes == (\E a \in Account : Available(a)) => \E a \in ActiveNow : Available(a)

\* An account that does not serve is in use only while the rotation that found it spent
\* is under way; one that turns to nobody has left none that serves, unless its own has
\* been selected again meanwhile.
ServeInv ==
  /\ \A r \in Request : ~ctxDone[r]
  /\ SomeoneServes \/ \E r \in Request : pc[r] \in {"r_next", "r_set"}
  /\ \A r \in Request : pc[r] = "r_next" => SomeoneServes \/ ~Available(acc[r])

\* A step that leaves the pool alone, and enters or leaves no such rotation.
LEMMA ServeQuiet ==
  ASSUME ServeInv, UNCHANGED <<status, isActive, ctxDone>>,
         \A r \in Request : IF pc[r] \in {"r_next", "r_set"}
                            THEN pc'[r] = pc[r] /\ acc'[r] = acc[r]
                            ELSE pc'[r] # "r_next"
  PROVE  ServeInv'
BY DEF ServeInv, SomeoneServes, ActiveNow, Available

\* What a request does outside a rotation.
LEMMA ServeOutside ==
  ASSUME RotationInv, ServeInv, NEW r \in Request, Handler(r), Leaving = {},
         pc[r] \notin {"a_set", "r_mark", "r_next", "r_set"}
  PROVE  ServeInv'
<1> USE DEF Goto, Finish, AdoptAccount, Unlock, pool, local
<1>1. /\ pc \in [Request -> Pc] /\ acc \in [Request -> Account \cup {NoAccount}]
      /\ ctxDone \in [Request -> BOOLEAN] /\ ~ctxDone[r]
  BY DEF RotationInv, TypeOK, ServeInv
<1>2. UNCHANGED <<status, isActive>> /\ pc'[r] # "r_next"
  <2>1. CASE ~EngineStep(r)
    BY <1>1, <2>1 DEF Handler, Arrive, Answered, Exhausted, ClientLeaves
  <2>2. CASE Proactive(r)
    BY <1>1, <2>2 DEF Proactive, ProactiveLock, ProactivePick, ProactiveSet, Onward
  <2>3. CASE PredictiveCheck(r)
    BY <1>1, <2>3
       DEF PredictiveCheck, PredictRead, PredictQuery, PredictStore, PredictEval, PredictClear,
           PredictAfter, PredictLog, Evaluate, Decide
  <2>4. CASE HandleExhaustion(r)
    BY <1>1, <2>4
       DEF HandleExhaustion, HandleCheck, PrefetchLook, PrefetchQuery, PrefetchStore,
           HandleLock, FallBackSecondary, DrainAccount, Onward
  <2>5. CASE Rotate(r)
    BY <1>1, <2>5 DEF Rotate, RecheckActive, MarkExhausted, PickNext, Activate, Onward
  <2> QED
    BY <2>1, <2>2, <2>3, <2>4, <2>5 DEF EngineStep
<1>3. ctxDone' = ctxDone
  <2>1. \A q \in Request \ {r} : ctxDone'[q] = ctxDone[q]
    BY OthersStep
  <2>2. ~ctxDone'[r]
    BY <1>1 DEF Handler, Arrive, Answered, Exhausted, ClientLeaves, EngineStep, Proactive,
         ProactiveLock, ProactivePick, ProactiveSet, PredictiveCheck, PredictRead, PredictQuery,
         PredictStore, PredictEval, PredictClear, PredictAfter, PredictLog, HandleExhaustion,
         HandleCheck, PrefetchLook, PrefetchQuery, PrefetchStore, HandleLock, Rotate,
         RecheckActive, MarkExhausted, PickNext, Activate
  <2>3. ctxDone' \in [Request -> BOOLEAN]
    BY HandlerType DEF RotationInv, TypeOK
  <2> QED
    BY <1>1, <2>1, <2>2, <2>3
<1>4. \A q \in Request \ {r} : pc'[q] = pc[q] /\ acc'[q] = acc[q]
  BY OthersStep
<1> QED
  BY <1>2, <1>3, <1>4, ServeQuiet DEF ServeInv

\* Each step of a rotation.
LEMMA ServeRotating ==
  ASSUME RotationInv, ServeInv, NEW r \in Request, Handler(r), Leaving = {},
         pc[r] \in {"a_set", "r_mark", "r_next", "r_set"}
  PROVE  ServeInv'
<1> USE DEF Goto, Finish, AdoptAccount, Unlock, pool, local
<1>1. /\ pc \in [Request -> Pc] /\ acc[r] \in Account
      /\ status \in [Account -> Status]
      /\ ctxDone \in [Request -> BOOLEAN] /\ ~ctxDone[r]
  BY DEF RotationInv, TypeOK, ServeInv
<1>2. \A q \in Request \ {r} : pc[q] \notin {"r_next", "r_set"}
  BY DEF RotationInv, MuHeld, Rotating, RotatePc
<1>3. \A q \in Request \ {r} :
        pc'[q] = pc[q] /\ acc'[q] = acc[q] /\ ctxDone'[q] = ctxDone[q]
  BY OthersStep
<1>4. \/ ProactiveSet(r) \/ MarkExhausted(r) \/ PickNext(r) \/ Activate(r)
  BY <1>1 DEF Handler, Arrive, Answered, Exhausted, ClientLeaves, EngineStep, Proactive,
       ProactiveLock, ProactivePick, PredictiveCheck, PredictRead, PredictQuery, PredictStore,
       PredictEval, PredictClear, PredictAfter, PredictLog, HandleExhaustion, HandleCheck,
       PrefetchLook, PrefetchQuery, PrefetchStore, HandleLock, Rotate, RecheckActive
<1>5. CASE ProactiveSet(r) \/ Activate(r)
  <2>1. SetActive(cand[r]) /\ cand[r] \in Account /\ ~ctxDone'[r]
    BY <1>1, <1>5 DEF ProactiveSet, Activate, RotationInv, TypeOK
  <2>2. SomeoneServes'
    <3>1. ActiveNow' = {cand[r]} /\ status'[cand[r]] = "active"
      BY <1>1, <2>1, SetActiveMoves DEF RotationInv, SetActive
    <3> QED
      BY <3>1 DEF SomeoneServes, Available
  <2>3. pc'[r] \notin {"r_next", "r_set"}
    BY <1>1, <1>5 DEF ProactiveSet, Activate, Onward
  <2> QED
    BY <1>2, <1>3, <2>1, <2>2, <2>3 DEF ServeInv
<1>6. CASE MarkExhausted(r)
  <2>1. pc'[r] = "r_next" /\ acc'[r] = acc[r] /\ ~Available(acc[r])' /\ ~ctxDone'[r]
    BY <1>1, <1>6 DEF MarkExhausted, Available
  <2> QED
    BY <1>2, <1>3, <2>1 DEF ServeInv
<1>7. CASE PickNext(r)
  <2>1. /\ UNCHANGED <<status, isActive>> /\ ~ctxDone'[r]
        /\ SomeoneServes \/ ~Available(acc[r])
    BY <1>1, <1>7 DEF PickNext, ServeInv
  <2>2. CASE NextAvailable(acc[r]) = {}
    <3>1. SomeoneServes \/ \A a \in Account : ~Available(a)
      BY <1>1, <2>1, <2>2 DEF NextAvailable
    <3>2. SomeoneServes'
      BY <2>1, <3>1 DEF SomeoneServes, ActiveNow, Available
    <3>3. pc'[r] = "idle"
      BY <1>1, <1>7, <2>2 DEF PickNext, ReportsPoolExhausted
    <3> QED
      BY <1>2, <1>3, <2>1, <3>2, <3>3 DEF ServeInv
  <2>3. CASE NextAvailable(acc[r]) # {}
    <3>1. pc'[r] = "r_set"
      BY <1>1, <1>7, <2>3 DEF PickNext, ReportsPoolExhausted
    <3> QED
      BY <1>2, <1>3, <2>1, <3>1 DEF ServeInv
  <2> QED
    BY <2>2, <2>3
<1> QED
  BY <1>4, <1>5, <1>6, <1>7

\* An account put in use without the engine serves.
LEMMA ServeSelected ==
  ASSUME RotationInv, ServeInv, NEW a \in Outside, PutInUseOutside(a)
  PROVE  ServeInv'
<1>1. a \in Account /\ status \in [Account -> Status]
  BY EngineAssumption DEF RotationInv, TypeOK
<1>2. ActiveNow' = {a} /\ status'[a] = "active"
  BY <1>1, SetActiveMoves DEF RotationInv, PutInUseOutside, SetActive
<1>3. SomeoneServes' /\ ctxDone' = ctxDone
  BY <1>1, <1>2 DEF SomeoneServes, Available, PutInUseOutside
<1> QED
  BY <1>3 DEF ServeInv

\* GetActive: while nobody holds mu the account in use is one that can serve, if any account
\* can, also when accounts are put in use without the engine, as long as neither the poller
\* nor a client that goes away in the middle of its rotation gets in between.
THEOREM ActiveAccountServes ==
  ASSUME PollStatus = {}, Leaving = {}
  PROVE  Spec => []InUseCanServe
<1>1. Init => ServeInv
  <2> SUFFICES ASSUME Init PROVE ServeInv
    OBVIOUS
  <2>2. PICK a \in Account : isActive = [b \in Account |-> b = a]
    BY DEF Init
  <2>3. SomeoneServes
    BY <2>2 DEF Init, SomeoneServes, ActiveNow, Available
  <2> QED
    BY <2>3 DEF Init, ServeInv
<1>2. RotationInv /\ ServeInv /\ [Next]_vars => ServeInv'
  <2> SUFFICES ASSUME RotationInv, ServeInv, [Next]_vars PROVE ServeInv'
    OBVIOUS
  <2>1. CASE UNCHANGED <<status, isActive, pc, acc, ctxDone>>
    BY <2>1, ServeQuiet
  <2>2. CASE \E r \in Request : Handler(r)
    BY <2>2, ServeOutside, ServeRotating
  <2>3. CASE Surroundings
    <3>1. \/ UNCHANGED <<status, isActive, pc, acc, ctxDone>>
          \/ \E a \in Outside : PutInUseOutside(a)
      BY <2>3 DEF Surroundings, SetFallbackConfig, PollerStoresRows, RowsLapse, CacheLapses,
           DeadlinePasses, PollerSetsStatus, pool, local
    <3> QED
      BY <2>1, <3>1, ServeSelected
  <2> QED
    BY <2>1, <2>2, <2>3 DEF Next, vars, pool, local
<1>3. RotationInv /\ ServeInv => InUseCanServe
  BY EngineAssumption
     DEF RotationInv, MuHeld, Rotating, RotatePc, ServeInv, SomeoneServes, InUseCanServe
<1> QED
  BY <1>1, <1>2, <1>3, RotationInvariant, PTL DEF Spec
=============================================================================
