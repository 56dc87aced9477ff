--------------------------- MODULE Connect_proofs ---------------------------
(***************************************************************************)
(* A request and its retries, and a CONNECT, for any pool of accounts.     *)
(***************************************************************************)
EXTENDS Connect, FiniteSetTheorems, TLAPS

Looping  == {"attempt", "upstream", "reply"}
Prepared == {"threshold", "force", "predict", "budget"} \cup Looping

\* A request that is not passed through has an account.
AccountOK == ~passThrough /\ pc \in Prepared => acc # NoAccount

\* What has gone upstream is within the budget.
AttemptOK ==
  /\ pc \in {"upstream", "reply"} => attempt <= maxAttempts
  /\ pc \notin Looping \cup {"done"} => attempt = 0

Unforced == {"start", "dial", "resolve", "threshold", "force"}

\* Path, query and body carry the model that the handler takes them to carry, but for a
\* request that was forced to the primary one and has been restored since.
ModelOK ==
  /\ pc \in Unforced => origModel = asked /\ carried = asked /\ model = asked
  /\ asked # "other" => origModel = asked /\ carried = model
  /\ ~passThrough /\ asked = "other" /\ pc \in {"predict", "budget"} \cup Looping =>
       /\ origModel = "primary"
       /\ carried = model \/ (lastResp /\ carried = "other" /\ model = "primary")

RequestOK == ConnectTypeOK /\ AccountOK /\ AttemptOK /\ ModelOK

\* What an exhausted response can still lead to: the other accounts that serve, on both
\* tiers if there are two, and the secondary tier of the account in hand.
Left ==
  (IF enabled THEN 2 ELSE 1) * Cardinality(serving \ {acc})
  + (IF enabled /\ model \notin {"secondary", "none"} THEN 1 ELSE 0)

\* As long as nothing has come between, the account in hand is the active one, and the
\* budget has an attempt for everything that is left.
BudgetOK ==
  /\ passThrough => attempt = 0
  /\ ~passThrough /\ ~disturbed =>
       /\ pc \in Prepared => acc = inUse
       /\ pc \in Looping => /\ attempt <= maxAttempts
                            /\ ctxDone \/ attempt + Left <= maxAttempts
  /\ BudgetSuffices

-----------------------------------------------------------------------------
\* The initial states.
LEMMA RequestInit == ConnectInit => RequestOK
<1> SUFFICES ASSUME ConnectInit PROVE RequestOK
  OBVIOUS
<1> USE RequestAssumption DEF ConnectInit, Init
<1>1. answer \in Answer
  BY DEF Answer, Pending
<1>2. /\ pc \in Pc /\ origModel \in Model /\ model \in Model /\ carried \in Model
      /\ attempt \in 0..RetryCap + 1 /\ maxAttempts \in 0..RetryCap
  BY DEF Model, Pc
<1>3. TypeOK
  BY <1>1, <1>2 DEF TypeOK
<1>4. ConnectTypeOK
  BY <1>3 DEF ConnectTypeOK, Side
<1> QED
  BY <1>4 DEF RequestOK, AccountOK, AttemptOK, ModelOK, Unforced, Prepared, Looping

\* The ways in which a request ends.
Kind == {"gone", "rejected", "unavailable", "bad_gateway", "relayed", "terminal", "gave_up",
         "tunnelled"}

\* It ends with an answer.
LEMMA AnswersTypes ==
  ASSUME NEW k \in Kind, NEW w \in BOOLEAN, Answers(k, w)
  PROVE  pc' = "done" /\ answer' \in Answer /\ answer'.kind = k
BY DEF Answers, Answer, Kind

\* The next attempt is at most one past the budget.
LEMMA ContinueTypes ==
  ASSUME TypeOK, AttemptOK, pc = "reply", Continue
  PROVE  pc' = "attempt" /\ attempt' \in 0..RetryCap + 1 /\ reply' = "none"
BY RequestAssumption DEF TypeOK, AttemptOK, Continue

\* The steps before the loop.
LEMMA PreparingStep ==
  ASSUME RequestOK,
         Buffer \/ ForeignHost \/ UseAccount \/ NoAccount503 \/ Threshold \/ ForcePrimary
         \/ Predict \/ Budget,
         UNCHANGED tunnel
  PROVE  RequestOK'
<1> USE RequestAssumption
    DEF RequestOK, ConnectTypeOK, TypeOK, AccountOK, AttemptOK, ModelOK, Unforced,
        Prepared, Looping, Pc, request, route, loop, pool, tunnel
<1>1. CASE Buffer
  <2>1. /\ answer' \in Answer /\ pc' \in {"resolve", "done"}
    BY <1>1, AnswersTypes DEF Buffer, Kind
  <2> QED
    BY <1>1, <2>1 DEF Buffer
<1>2. CASE ForeignHost
  BY <1>2 DEF ForeignHost
<1>3. CASE UseAccount
  BY <1>3 DEF UseAccount
<1>4. CASE NoAccount503
  <2>1. /\ answer' \in Answer /\ pc' \in {"force", "done"} /\ passThrough' \in BOOLEAN
        /\ ~passThrough' => pc' = "done"
    BY <1>4, AnswersTypes DEF NoAccount503, Kind
  <2>2. /\ pc = "resolve"
        /\ UNCHANGED <<request, origModel, model, carried, sanitized, acc, loop, ctxDone, pool>>
    BY <1>4 DEF NoAccount503
  <2> QED
    BY <2>1, <2>2
<1>5. CASE Threshold
  BY <1>5 DEF Threshold
<1>6. CASE ForcePrimary
  BY <1>6 DEF ForcePrimary, Model
<1>7. CASE Predict
  BY <1>7 DEF Predict, Model
<1>8. CASE Budget
  <2>1. Cardinality(Account) \in Nat
    BY FS_CardinalityType
  <2>2. DynamicBound \in Nat
    BY <2>1 DEF DynamicBound
  <2>3. maxAttempts' \in 0..RetryCap
    BY <1>8, <2>2 DEF Budget
  <2> QED
    BY <1>8, <2>3 DEF Budget
<1> QED
  BY <1>1, <1>2, <1>3, <1>4, <1>5, <1>6, <1>7, <1>8

\* The steps of the loop, and around it.
LEMMA LoopStep ==
  ASSUME RequestOK,
         Send \/ GiveUp \/ RenewToken \/ Sanitize \/ EngineFallsBack \/ EngineRotates
         \/ EngineFails \/ Relay \/ Upstream \/ ClientLeaves \/ Others,
         UNCHANGED tunnel
  PROVE  RequestOK'
<1> USE RequestAssumption
    DEF RequestOK, ConnectTypeOK, TypeOK, AccountOK, AttemptOK, ModelOK, Unforced,
        Prepared, Looping, Pc, request, route, loop, pool, tunnel
<1>1. CASE Send \/ GiveUp \/ Relay
  <2>1. CASE Send
    <3>1. answer' \in Answer /\ pc' \in {"upstream", "done"}
      BY <2>1, AnswersTypes DEF Send, Kind
    <3> QED
      BY <2>1, <3>1 DEF Send
  <2>2. CASE GiveUp
    <3>1. answer' \in Answer /\ pc' = "done"
      BY <2>2, AnswersTypes DEF GiveUp, Kind
    <3> QED
      BY <2>2, <3>1 DEF GiveUp
  <2>3. CASE Relay
    <3>1. answer' \in Answer /\ pc' = "done"
      BY <2>3, AnswersTypes DEF Relay, Kind
    <3> QED
      BY <2>3, <3>1 DEF Relay
  <2> QED
    BY <1>1, <2>1, <2>2, <2>3
<1>2. CASE RenewToken \/ Sanitize
  <2>1. CASE RenewToken
    BY <2>1, ContinueTypes DEF RenewToken
  <2>2. CASE Sanitize
    BY <2>2, ContinueTypes DEF Sanitize
  <2> QED
    BY <1>2, <2>1, <2>2
<1>3. CASE EngineFallsBack
  BY <1>3, ContinueTypes DEF EngineFallsBack, CallsEngine, Model
<1>4. CASE EngineRotates
  <2>1. PICK a \in Account : Restart(a) /\ UNCHANGED asked
    BY <1>4 DEF EngineRotates, Moved
  <2>2. /\ acc' \in Account /\ model' \in Model /\ carried' \in Model /\ sanitized' = FALSE
        /\ \/ carried' = asked /\ model' = origModel
           \/ carried' = model'
    BY <2>1 DEF Restart, Model
  <2>3. inUse' \in Account \cup {NoAccount} /\ serving' \subseteq Account
    BY <1>4 DEF EngineRotates
  <2> QED
    BY <1>4, <2>2, <2>3, ContinueTypes DEF EngineRotates, CallsEngine
<1>5. CASE EngineFails
  <2>1. answer' \in Answer /\ pc' = "done" /\ serving' \subseteq Account
    BY <1>5, AnswersTypes DEF EngineFails, Kind
  <2> QED
    BY <1>5, <2>1 DEF EngineFails
<1>6. CASE Upstream
  <2>1. CASE UpstreamFails
    <3>1. answer' \in Answer /\ pc' = "done"
      BY <2>1, AnswersTypes DEF UpstreamFails, Kind
    <3> QED
      BY <2>1, <3>1 DEF UpstreamFails
  <2>2. CASE \E x \in Reply : Replies(x)
    BY <2>2 DEF Replies
  <2> QED
    BY <1>6, <2>1, <2>2 DEF Upstream
<1>7. CASE ClientLeaves \/ Others
  <2>1. CASE ClientLeaves
    BY <2>1 DEF ClientLeaves
  <2>2. CASE Others
    <3>1. enabled' \in BOOLEAN /\ inUse' \in Account \cup {NoAccount} /\ serving' \subseteq Account
      BY <2>2 DEF Others, OthersRotate, PollerRestores, SetFallbackConfig
    <3> QED
      BY <2>2, <3>1 DEF Others
  <2> QED
    BY <1>7, <2>1, <2>2
<1> QED
  BY <1>1, <1>2, <1>3, <1>4, <1>5, <1>6, <1>7

\* A CONNECT, and the tunnel it leaves behind.
LEMMA TunnelStep ==
  ASSUME RequestOK, Hijack \/ DialFails \/ Establish \/ Tunnelling PROVE RequestOK'
<1> USE RequestAssumption
    DEF RequestOK, ConnectTypeOK, TypeOK, AccountOK, AttemptOK, ModelOK, Unforced,
        Prepared, Looping, Pc, request, route, loop, pool, handling
<1>1. CASE Hijack
  <2>1. /\ answer' \in Answer /\ pc' \in {"dial", "done"}
    BY <1>1, AnswersTypes DEF Hijack, Kind
  <2>2. conn' \in [Side -> {"none", "open", "closed"}]
    BY <1>1 DEF Hijack, Side
  <2> QED
    BY <1>1, <2>1, <2>2 DEF Hijack
<1>2. CASE DialFails
  <2>1. /\ answer' \in Answer /\ pc' = "done"
    BY <1>2, AnswersTypes DEF DialFails, Kind
  <2>2. conn' \in [Side -> {"none", "open", "closed"}]
    BY <1>2 DEF DialFails, Side
  <2> QED
    BY <1>2, <2>1, <2>2 DEF DialFails
<1>3. CASE Establish
  <2>1. /\ answer' \in Answer /\ pc' = "done"
    BY <1>3, AnswersTypes DEF Establish, Kind
  <2>2. /\ conn' \in [Side -> {"none", "open", "closed"}]
        /\ copy' \in [Side -> {"off", "copying", "closing", "done"}]
    BY <1>3 DEF Establish, Side
  <2> QED
    BY <1>3, <2>1, <2>2 DEF Establish
<1>4. CASE Tunnelling
  BY <1>4 DEF Tunnelling, SourceEnds, WriteFails, Close, CloseBoth, PeerEnds, vars, Side
<1> QED
  BY <1>1, <1>2, <1>3, <1>4

\* Every step keeps the types, the model and the number of attempts.
LEMMA RequestStep == RequestOK /\ [ConnectNext]_connectVars => RequestOK'
<1> SUFFICES ASSUME RequestOK, [ConnectNext]_connectVars PROVE RequestOK'
  OBVIOUS
<1>1. CASE UNCHANGED connectVars
  BY <1>1 DEF connectVars, vars, request, route, loop, pool, tunnel, RequestOK, ConnectTypeOK,
              TypeOK, AccountOK, AttemptOK, ModelOK, Unforced
<1>2. CASE ConnectNext
  BY <1>2, PreparingStep, LoopStep, TunnelStep DEF ConnectNext, Next, Serve
<1> QED
  BY <1>1, <1>2

\* They hold all along.
LEMMA RequestInvariant == ConnectSpec => []RequestOK
BY RequestInit, RequestStep, PTL DEF ConnectSpec

-----------------------------------------------------------------------------
\* Every variable has its type, over all attempts, and a request that goes upstream with the
\* proxy's credentials goes for an account.
THEOREM TypeCorrect == ConnectSpec => []ConnectTypeOK
<1>1. RequestOK => ConnectTypeOK
  BY DEF RequestOK
<1> QED
  BY <1>1, RequestInvariant, PTL

\* handler.go, HandleExhaustion(ctx, currentAcc.ID, currentModel, ...): the model that is
\* charged is the one upstream was asked for, whatever rotations, fallbacks and predictive
\* switches the request has been through; or the request was forced to the primary model
\* and, after an exhausted answer, restored to the client's: then the primary one is charged.
THEOREM RightTierCharged == ConnectSpec => []ChargesWhatWasSent
<1>1. RequestOK => ChargesWhatWasSent
  BY DEF RequestOK, ModelOK, Looping, ChargesWhatWasSent
<1> QED
  BY <1>1, RequestInvariant, PTL

-----------------------------------------------------------------------------
\* How many accounts there are besides the one in hand.
LEMMA OthersCount ==
  ASSUME NEW S \in SUBSET Account, NEW a \in Account
  PROVE  /\ Cardinality(S \ {a}) \in Nat /\ Cardinality(Account) \in Nat
         /\ Cardinality(S \ {a}) <= Cardinality(Account) - 1
         /\ a \in S => Cardinality(S \ {a}) = Cardinality(S) - 1
         /\ Cardinality(S) \in Nat
<1>1. IsFiniteSet(S) /\ IsFiniteSet(S \ {a}) /\ IsFiniteSet(Account \ {a})
  BY RequestAssumption, FS_Subset
<1>2. /\ Cardinality(Account \ {a}) = Cardinality(Account) - 1
      /\ a \in S => Cardinality(S \ {a}) = Cardinality(S) - 1
  BY <1>1, RequestAssumption, FS_RemoveElement
<1>3. Cardinality(S \ {a}) <= Cardinality(Account \ {a})
  BY <1>1, FS_Subset
<1>4. /\ Cardinality(S \ {a}) \in Nat /\ Cardinality(Account) \in Nat
      /\ Cardinality(S) \in Nat
  BY <1>1, RequestAssumption, FS_CardinalityType
<1> QED
  BY <1>2, <1>3, <1>4

\* Nothing is left that the budget has no attempt for, unless List failed.
LEMMA BudgetCovers ==
  ASSUME RequestOK, Cardinality(Account) * 2 <= RetryCap + 1, Budget, ~passThrough
  PROVE  ctxDone' \/ attempt' + Left' <= maxAttempts'
<1> DEFINE n == Cardinality(serving \ {acc})
<1>1. acc \in Account /\ serving \in SUBSET Account
  BY DEF RequestOK, ConnectTypeOK, TypeOK, AccountOK, Budget, Prepared
<1>2. n \in Nat /\ Cardinality(Account) \in Nat /\ n <= Cardinality(Account) - 1
  BY <1>1, OthersCount
<1>3. Left' = Left /\ attempt' = 0 /\ ctxDone' = ctxDone
  BY DEF Left, Budget, route, pool, RequestOK, AttemptOK, Looping
<1>4. CASE ~ctxDone /\ enabled
  <2>1. Left \in Nat /\ Left <= 2 * n + 1
    BY <1>2, <1>4 DEF Left
  <2>2. maxAttempts' = LET n0 == IF 2 * Cardinality(Account) > DefaultMaxRetries
                                 THEN 2 * Cardinality(Account) ELSE DefaultMaxRetries
                       IN  IF n0 > RetryCap THEN RetryCap ELSE n0
    BY <1>2, <1>4 DEF Budget, DynamicBound
  <2> HIDE DEF n
  <2> QED
    BY <1>2, <1>3, <2>1, <2>2, RequestAssumption
<1>5. CASE ~ctxDone /\ ~enabled
  <2>1. Left = n
    BY <1>2, <1>5 DEF Left
  <2>2. maxAttempts' = LET n0 == IF Cardinality(Account) > DefaultMaxRetries
                                 THEN Cardinality(Account) ELSE DefaultMaxRetries
                       IN  IF n0 > RetryCap THEN RetryCap ELSE n0
    BY <1>2, <1>5 DEF Budget, DynamicBound
  <2> HIDE DEF n
  <2> QED
    BY <1>2, <1>3, <2>1, <2>2, RequestAssumption
<1> QED
  BY <1>3, <1>4, <1>5

\* A fallback uses up the primary tier of the account in hand.
LEMMA FallbackUses ==
  ASSUME RequestOK, EngineFallsBack PROVE Left \in Nat /\ Left' = Left - 1
<1>1. acc \in Account /\ serving \in SUBSET Account
  BY DEF RequestOK, ConnectTypeOK, TypeOK, AccountOK, EngineFallsBack, CallsEngine, Prepared,
         Looping
<1>2. Cardinality(serving \ {acc}) \in Nat
  BY <1>1, OthersCount
<1> QED
  BY <1>2 DEF Left, EngineFallsBack, pool

\* A rotation uses up the account in hand.
LEMMA RotationUses ==
  ASSUME RequestOK, EngineRotates, acc = inUse
  PROVE  /\ Left \in Nat /\ Left' \in Nat /\ Left' < Left
         /\ acc' = inUse'
<1>1. acc \in Account /\ serving \in SUBSET Account
  BY DEF RequestOK, ConnectTypeOK, TypeOK, AccountOK, EngineRotates, CallsEngine, Prepared,
         Looping
<1>2. PICK a \in serving \ {acc} : acc' = a /\ inUse' = a /\ serving' = serving \ {acc}
  BY DEF EngineRotates, Moved, Restart
<1> DEFINE n == Cardinality(serving \ {acc})
           m == Cardinality((serving \ {acc}) \ {a})
<1>3. n \in Nat /\ m \in Nat /\ m = n - 1
  BY <1>1, <1>2, OthersCount
<1>4. Left' = (IF enabled THEN 2 ELSE 1) * m
              + (IF enabled /\ model' \notin {"secondary", "none"} THEN 1 ELSE 0)
  BY <1>2 DEF Left, EngineRotates
<1> QED
  BY <1>2, <1>3, <1>4 DEF Left

\* The last conjunct of BudgetOK is kept by every step that does not give up.
LEMMA OnlyGiveUp ==
  ASSUME ConnectNext, ~GiveUp
  PROVE  answer'.kind = "gave_up" => answer.kind = "gave_up" /\ (disturbed => disturbed')
BY DEF ConnectNext, Next, Serve, Buffer, ForeignHost, UseAccount, NoAccount503, Threshold,
       ForcePrimary, Predict, Budget, Send, RenewToken, Sanitize, EngineFallsBack,
       EngineRotates, EngineFails, Relay, Upstream, Replies, UpstreamFails, ClientLeaves,
       Others, Hijack, DialFails, Establish, Tunnelling, SourceEnds, WriteFails, Close, PeerEnds,
       Answers, Continue, loop, handling, vars

\* The budget is kept by the steps before the loop.
LEMMA BudgetPrepared ==
  ASSUME RequestOK, BudgetOK, Cardinality(Account) * 2 <= RetryCap + 1,
         \/ Buffer \/ ForeignHost \/ UseAccount \/ NoAccount503 \/ Threshold \/ ForcePrimary
         \/ Predict \/ Budget,
         BudgetSuffices'
  PROVE  BudgetOK'
<1> USE DEF BudgetOK, Prepared, Looping, request, route, loop, pool
<1>4. pc \in {"start", "resolve", "threshold", "force", "predict", "budget"}
  BY DEF Buffer, ForeignHost, UseAccount, NoAccount503, Threshold, ForcePrimary, Predict, Budget
<1>0. attempt = 0 /\ maxAttempts \in Nat
  BY <1>4, RequestAssumption DEF RequestOK, ConnectTypeOK, TypeOK, AttemptOK
<1>1. CASE Buffer \/ ForeignHost \/ UseAccount \/ NoAccount503
  BY <1>0, <1>1 DEF Buffer, ForeignHost, UseAccount, NoAccount503, Answers, RequestOK,
                    ConnectTypeOK, TypeOK
<1>2. CASE Threshold \/ ForcePrimary \/ Predict
  BY <1>0, <1>2 DEF Threshold, ForcePrimary, Predict
<1>3. CASE Budget
  <2>1. attempt' = 0 /\ UNCHANGED <<passThrough, disturbed, acc, inUse, answer>>
    BY <1>0, <1>3 DEF Budget
  <2>2. maxAttempts' \in Nat
    BY <1>3, PreparingStep, RequestAssumption, OthersCount DEF Budget, DynamicBound
  <2> QED
    BY <1>3, <2>1, <2>2, BudgetCovers DEF Budget
<1> QED
  BY <1>1, <1>2, <1>3

\* The budget is kept by the steps of the loop.
LEMMA BudgetLoop ==
  ASSUME RequestOK, BudgetOK,
         \/ Send \/ RenewToken \/ Sanitize \/ EngineFallsBack \/ EngineRotates
         \/ EngineFails \/ Relay \/ Upstream \/ ClientLeaves \/ Others,
         BudgetSuffices'
  PROVE  BudgetOK'
<1> USE DEF BudgetOK, Prepared, Looping, request, route, loop, pool
<1>0. /\ attempt \in Nat /\ maxAttempts \in Nat
      /\ ctxDone \in BOOLEAN /\ disturbed \in BOOLEAN /\ passThrough \in BOOLEAN
  BY RequestAssumption DEF RequestOK, ConnectTypeOK, TypeOK
<1>1. CASE Send \/ Relay \/ Upstream \/ EngineFails
  BY <1>0, <1>1 DEF Send, Relay, Upstream, Replies, UpstreamFails, EngineFails, Answers, Left
<1>2. CASE RenewToken \/ Sanitize \/ Others
  BY <1>0, <1>2 DEF RenewToken, Sanitize, Others
<1>3. CASE ClientLeaves
  BY <1>0, <1>3 DEF ClientLeaves, Left
<1>4. CASE EngineFallsBack
  <2>1. /\ ~passThrough /\ ~ctxDone /\ pc = "reply" /\ pc' = "attempt" /\ attempt' = attempt + 1
        /\ UNCHANGED <<passThrough, disturbed, acc, inUse, maxAttempts>>
    BY <1>4 DEF EngineFallsBack, CallsEngine, Continue
  <2>2. Left \in Nat /\ Left' = Left - 1 /\ Left' \in Int
    BY <1>4, FallbackUses
  <2>3. ~disturbed => attempt' <= maxAttempts
    <3>1. Left >= 1
      BY <1>0, <1>4, OthersCount
         DEF Left, EngineFallsBack, CallsEngine, RequestOK, ConnectTypeOK, TypeOK, AccountOK
    <3> QED
      BY <1>0, <2>1, <2>2, <3>1
  <2> QED
    BY <1>0, <2>1, <2>2, <2>3
<1>5. CASE EngineRotates
  <2>1. /\ ~passThrough /\ ~ctxDone /\ pc = "reply" /\ pc' = "attempt" /\ attempt' = attempt + 1
        /\ UNCHANGED <<passThrough, disturbed, maxAttempts>>
    BY <1>5 DEF EngineRotates, CallsEngine, Continue
  <2>2. ~disturbed => Left \in Nat /\ Left' \in Nat /\ Left' < Left /\ acc' = inUse'
    BY <1>5, <2>1, RotationUses
  <2> QED
    BY <1>0, <2>1, <2>2
<1> QED
  BY <1>1, <1>2, <1>3, <1>4, <1>5

\* Every step keeps it.
LEMMA BudgetStep ==
  ASSUME Cardinality(Account) * 2 <= RetryCap + 1
  PROVE  RequestOK /\ BudgetOK /\ [ConnectNext]_connectVars => BudgetOK'
<1> SUFFICES ASSUME RequestOK, BudgetOK, [ConnectNext]_connectVars PROVE BudgetOK'
  OBVIOUS
<1>1. CASE UNCHANGED connectVars
  BY <1>1 DEF connectVars, vars, request, route, loop, pool, BudgetOK, BudgetSuffices, Left
<1>2. CASE GiveUp
  <2>1. attempt \in Nat /\ maxAttempts \in Nat
    BY RequestAssumption DEF RequestOK, ConnectTypeOK, TypeOK
  <2>2. disturbed /\ ~passThrough
    BY <1>2, <2>1 DEF GiveUp, BudgetOK, Looping
  <2> QED
    BY <1>2, <2>2 DEF GiveUp, BudgetOK, BudgetSuffices, route, loop
<1>3. CASE ConnectNext /\ ~GiveUp
  <2>1. BudgetSuffices'
    BY <1>3, OnlyGiveUp DEF BudgetOK, BudgetSuffices
  <2>2. CASE Hijack \/ DialFails \/ Establish \/ Tunnelling
    <3>1. CASE Tunnelling
      BY <2>1, <3>1 DEF Tunnelling, SourceEnds, WriteFails, Close, PeerEnds, vars, request, route,
           loop, pool, BudgetOK, Left
    <3>2. CASE Hijack \/ DialFails \/ Establish
      BY <2>1, <3>2 DEF Hijack, DialFails, Establish, Answers, handling, request, route, loop,
           pool, BudgetOK, Prepared, Looping
    <3> QED
      BY <2>2, <3>1, <3>2
  <2> QED
    BY <1>3, <2>1, <2>2, BudgetPrepared, BudgetLoop DEF ConnectNext, Next, Serve
<1> QED
  BY <1>1, <1>2, <1>3

\* handler.go, dynamicBound: a request whose retries are all due to exhausted accounts, with
\* nobody else changing the pool or the switch, gets an answer from every tier of every
\* account before the loop is left. The cap of the budget must leave room for that: with
\* the 50 of the code, in a pool of up to 25 accounts.
THEOREM BudgetReachesAll ==
  ASSUME Cardinality(Account) * 2 <= RetryCap + 1
  PROVE  ConnectSpec => []BudgetSuffices
<1>1. ConnectInit => BudgetOK
  BY DEF ConnectInit, Init, BudgetOK, BudgetSuffices, Pending, Prepared, Looping
<1>2. BudgetOK => BudgetSuffices
  BY DEF BudgetOK
<1> QED
  BY <1>1, <1>2, BudgetStep, RequestInvariant, PTL DEF ConnectSpec
=============================================================================
