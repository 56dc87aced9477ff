---------------------------- MODULE ProxyRequest ----------------------------
(***************************************************************************)
(* internal/proxy/handler.go, ProxyHandler.ServeHTTP: one request from its *)
(* arrival to its answer, over the retry loop.                             *)
(*                                                                         *)
(* The engine is seen through what its calls return, as FailoverEngine     *)
(* computes them (property HandsOver): HandleExhaustion diverts the        *)
(* request to the secondary tier of its account, or hands it another       *)
(* account that is in use and can serve, or fails. Of the pool only inUse  *)
(* and serving are kept; other requests rotate it at any time. A renewed   *)
(* token has no other effect here than the attempt it costs.               *)
(*                                                                         *)
(* A model is primary, secondary (the two configured ones), other (any     *)
(* other name) or none. A request carries its model in path, query and     *)
(* body, rewritten together: carried is the one upstream reads.            *)
(***************************************************************************)
EXTENDS Naturals, FiniteSets

CONSTANTS Account, NoAccount,
          Asked,               \* the models clients ask for
          DefaultMaxRetries, RetryCap

ASSUME RequestAssumption ==
  /\ IsFiniteSet(Account) /\ NoAccount \notin Account
  /\ Asked \subseteq {"primary", "secondary", "other", "none"}
  /\ DefaultMaxRetries \in Nat /\ RetryCap \in Nat

VARIABLES
  pc,
  cloud,         \* isCloudCode
  passThrough,   \* isPassThrough
  asked,         \* the model in origPath, origQuery, origBody
  origModel, model,    \* origModel, currentModel
  carried,       \* the model in currentPath, currentQuery, currentBody
  sanitized,     \* currentBody holds no signature that can be sanitized
  acc,           \* currentAcc
  attempt, maxAttempts,
  reply,         \* the upstream response in hand
  lastResp,      \* lastRespStatusCode > 0
  disturbed,     \* history: an attempt went to a renewed token or a sanitized
                 \* body, or somebody else has changed the pool or the switch
  answer,        \* what the client got
  ctxDone,       \* the client is gone
  enabled,       \* fallbackSecondaryEnabled
  inUse, serving \* the pool: GetActive, and the accounts with status active

request == <<cloud, asked>>
route   == <<passThrough, origModel, model, carried, sanitized, acc>>
loop    == <<attempt, maxAttempts, reply, lastResp, disturbed>>
pool    == <<enabled, inUse, serving>>
vars    == <<pc, request, route, loop, answer, ctxDone, pool>>

Model == {"primary", "secondary", "other", "none"}

\* What upstream can say: fine (2xx, 5xx and all the rest), quota exhausted (429,
\* or 403 RESOURCE_EXHAUSTED), 401, a plain 403, a 400 or 404, a 400 that blames
\* a thought signature.
Reply == {"fine", "exhausted", "unauthorized", "forbidden", "bad", "signature"}

\* whole: the body of the upstream response went to the client from its first byte.
Answer == [kind : {"pending", "gone", "rejected", "unavailable", "bad_gateway",
                   "relayed", "terminal", "gave_up", "tunnelled"},
           whole : BOOLEAN]

Pending == [kind |-> "pending", whole |-> FALSE]

Pc == {"start", "dial", "resolve", "threshold", "force", "predict", "budget", "attempt",
       "upstream", "reply", "done"}

TypeOK ==
  /\ pc \in Pc
  /\ cloud \in BOOLEAN /\ passThrough \in BOOLEAN /\ sanitized \in BOOLEAN
  /\ asked \in Asked
  /\ origModel \in Model /\ model \in Model /\ carried \in Model
  /\ acc \in Account \cup {NoAccount}
  /\ attempt \in 0..RetryCap + 1 /\ maxAttempts \in 0..RetryCap
  /\ reply \in Reply \cup {"none"}
  /\ lastResp \in BOOLEAN /\ disturbed \in BOOLEAN /\ ctxDone \in BOOLEAN
  /\ answer \in Answer
  /\ enabled \in BOOLEAN
  /\ inUse \in Account \cup {NoAccount} /\ serving \subseteq Account
  /\ pc \in {"upstream", "reply"} /\ ~passThrough => acc # NoAccount

Init ==
  /\ pc = "start"
  /\ cloud \in BOOLEAN /\ asked \in Asked
  /\ passThrough = FALSE
  /\ origModel = asked /\ model = asked /\ carried = asked
  /\ sanitized = FALSE /\ acc = NoAccount
  /\ attempt = 0 /\ maxAttempts = 0 /\ reply = "none"
  /\ lastResp = FALSE /\ disturbed = FALSE
  /\ answer = Pending /\ ctxDone = FALSE
  /\ enabled \in BOOLEAN
  /\ inUse \in Account \cup {NoAccount} /\ serving \in SUBSET Account

Answers(k, w) == pc' = "done" /\ answer' = [kind |-> k, whole |-> w]

-----------------------------------------------------------------------------
(* Before the loop *)

\* A body over the limit (413) or unreadable (400) ends it; for CONNECT see Connect.
Buffer ==
  /\ pc = "start"
  /\ \/ pc' = "resolve" /\ UNCHANGED answer
     \/ Answers("rejected", FALSE)
  /\ UNCHANGED <<request, route, loop, ctxDone, pool>>

\* A request for a host other than Cloud Code is passed through.
ForeignHost ==
  /\ pc = "resolve" /\ ~cloud
  /\ passThrough' = TRUE /\ pc' = "force"
  /\ UNCHANGED <<request, origModel, model, carried, sanitized, acc, loop, answer, ctxDone,
                 pool>>

\* GetActive; failing that, GetNextAvailable is made the active one.
UseAccount ==
  /\ pc = "resolve" /\ cloud /\ ~ctxDone
  /\ \/ inUse # NoAccount /\ acc' = inUse /\ UNCHANGED inUse
     \/ inUse = NoAccount /\ \E a \in serving : acc' = a /\ inUse' = a
  /\ pc' = "threshold"
  /\ UNCHANGED <<request, passThrough, origModel, model, carried, sanitized, loop, answer,
                 ctxDone, enabled, serving>>

NoneUsable == ctxDone \/ (inUse = NoAccount /\ serving = {})

\* Mutant of NoAccount503: the request goes on without an account.
NoAccountGoesOn ==
  /\ pc = "resolve" /\ cloud /\ NoneUsable
  /\ pc' = "force"
  /\ UNCHANGED <<request, route, loop, answer, ctxDone, pool>>

\* No account: the client's own credentials are passed through, or it gets a 503.
NoAccount503 ==
  /\ pc = "resolve" /\ cloud /\ NoneUsable
  /\ \/ passThrough' = TRUE /\ pc' = "force" /\ UNCHANGED answer
     \/ Answers("unavailable", FALSE) /\ UNCHANGED passThrough
  /\ UNCHANGED <<request, origModel, model, carried, sanitized, acc, loop, ctxDone, pool>>

\* Usage at the threshold: RotateProactively, whose failure changes nothing.
Threshold ==
  /\ pc = "threshold" /\ pc' = "force"
  /\ \/ UNCHANGED <<acc, inUse>>
     \/ ~ctxDone /\ inUse # acc /\ inUse \in serving /\ acc' = inUse /\ UNCHANGED inUse
     \/ ~ctxDone /\ \E a \in serving \ {acc} : acc' = a /\ inUse' = a
  /\ UNCHANGED <<request, passThrough, origModel, model, carried, sanitized, loop, answer,
                 ctxDone, enabled, serving>>

\* The configured primary model replaces a model that is neither configured one.
ForcePrimary ==
  /\ pc = "force" /\ pc' = "predict"
  /\ IF ~passThrough /\ origModel = "other"
     THEN origModel' = "primary" /\ model' = "primary" /\ carried' = "primary"
     ELSE UNCHANGED <<origModel, model, carried>>
  /\ UNCHANGED <<request, passThrough, sanitized, acc, loop, answer, ctxDone, pool>>

\* PredictiveCheck: the primary tier of acc may be known to be spent.
MayPredict(m) == ~ctxDone /\ enabled /\ m \notin {"secondary", "none"}

Predict ==
  /\ pc = "predict" /\ pc' = "budget"
  /\ \/ UNCHANGED <<model, carried>>
     \/ ~passThrough /\ MayPredict(origModel)
        /\ model' = "secondary" /\ carried' = "secondary"
  /\ UNCHANGED <<request, passThrough, origModel, sanitized, acc, loop, answer, ctxDone,
                 pool>>

\* Mutant of DynamicBound: the secondary tier is not counted.
BoundByAccounts == Cardinality(Account)

\* Every tier of every account in the pool.
DynamicBound == Cardinality(Account) * (IF enabled THEN 2 ELSE 1)

\* The number of retries; List fails when the client is gone.
Budget ==
  /\ pc = "budget" /\ pc' = "attempt"
  /\ LET bound == IF ctxDone THEN (IF enabled THEN 2 ELSE 1) ELSE DynamicBound
         n     == IF bound > DefaultMaxRetries THEN bound ELSE DefaultMaxRetries
     IN  maxAttempts' = IF passThrough THEN 0 ELSE IF n > RetryCap THEN RetryCap ELSE n
  /\ UNCHANGED <<request, route, attempt, reply, lastResp, disturbed, answer, ctxDone,
                 pool>>

-----------------------------------------------------------------------------
(* The loop *)

\* An attempt goes upstream, with the token renewed first if it has expired.
Send ==
  /\ pc = "attempt" /\ attempt <= maxAttempts
  /\ IF ctxDone THEN Answers("gone", FALSE) ELSE pc' = "upstream" /\ UNCHANGED answer
  /\ UNCHANGED <<request, route, loop, ctxDone, pool>>

\* The loop is left: the last exhausted response, or 503 if there was none.
GiveUp ==
  /\ pc = "attempt" /\ attempt > maxAttempts
  /\ Answers("gave_up", lastResp)
  /\ UNCHANGED <<request, route, loop, ctxDone, pool>>

Replies(x) ==
  /\ pc = "upstream" /\ pc' = "reply" /\ reply' = x
  /\ UNCHANGED <<request, route, attempt, maxAttempts, lastResp, disturbed, answer, ctxDone,
                 pool>>

\* client.Do fails; with the client gone nobody is told.
UpstreamFails ==
  /\ pc = "upstream"
  /\ Answers(IF ctxDone THEN "gone" ELSE "bad_gateway", FALSE)
  /\ UNCHANGED <<request, route, loop, ctxDone, pool>>

Continue == pc' = "attempt" /\ attempt' = attempt + 1 /\ reply' = "none"

\* Mutant of RenewToken: the retry with the new token is not counted.
RenewTokenFree ==
  /\ pc = "reply" /\ reply = "unauthorized" /\ ~passThrough /\ ~ctxDone
  /\ pc' = "attempt" /\ reply' = "none" /\ disturbed' = TRUE
  /\ UNCHANGED <<request, route, attempt, maxAttempts, lastResp, answer, ctxDone, pool>>

\* 401, and RefreshToken succeeds.
RenewToken ==
  /\ pc = "reply" /\ reply = "unauthorized" /\ ~passThrough /\ ~ctxDone
  /\ Continue /\ disturbed' = TRUE
  /\ UNCHANGED <<request, route, maxAttempts, lastResp, answer, ctxDone, pool>>

\* A signature error on a Gemini model, with signatures to sanitize in the body.
Sanitize ==
  /\ pc = "reply" /\ reply = "signature" /\ ~passThrough /\ ~sanitized
  /\ Continue /\ sanitized' = TRUE /\ disturbed' = TRUE
  /\ UNCHANGED <<request, passThrough, origModel, model, carried, acc, maxAttempts,
                 lastResp, answer, ctxDone, pool>>

\* isExhausted: also a signature error that could not be sanitized away, and any
\* 400 or 404 once the model is not the one that was asked for.
IsExhausted ==
  \/ reply \in {"exhausted", "signature"}
  \/ reply = "bad" /\ model # origModel

CallsEngine == pc = "reply" /\ ~passThrough /\ IsExhausted

\* The anti-stampede test: the pool has been moved to another account.
Moved == inUse \in serving \ {acc}

\* ActionFallbackSecondary: the original request, for the secondary model.
EngineFallsBack ==
  /\ CallsEngine /\ ~ctxDone /\ ~Moved
  /\ enabled /\ model \notin {"secondary", "none"}
  /\ Continue /\ lastResp' = TRUE
  /\ model' = "secondary" /\ carried' = "secondary" /\ sanitized' = FALSE
  /\ UNCHANGED <<request, passThrough, origModel, acc, maxAttempts, disturbed, answer,
                 ctxDone, pool>>

\* Mutant of Restart: the model goes back to the original, the body does not.
RestartModelOnly(a) ==
  /\ acc' = a /\ sanitized' = FALSE /\ model' = origModel /\ UNCHANGED carried

\* The request is reset for account a, whose primary tier may be known to be spent.
Restart(a) ==
  /\ acc' = a /\ sanitized' = FALSE
  /\ \/ model' = origModel /\ carried' = asked
     \/ MayPredict(origModel) /\ model' = "secondary" /\ carried' = "secondary"

\* ActionRotateAccount: the pool was moved by somebody else, or is moved now.
EngineRotates ==
  /\ CallsEngine /\ ~ctxDone
  /\ \/ Moved /\ Restart(inUse) /\ UNCHANGED <<inUse, serving>>
     \/ ~Moved /\ \E a \in serving \ {acc} :
          Restart(a) /\ inUse' = a /\ serving' = serving \ {acc}
  /\ Continue /\ lastResp' = TRUE
  /\ UNCHANGED <<request, passThrough, origModel, maxAttempts, disturbed, answer, ctxDone,
                 enabled>>

\* Nobody is left, or the client is gone: the response in hand is forwarded.
EngineFails ==
  /\ CallsEngine /\ (ctxDone \/ serving \ {acc} = {})
  /\ serving' = IF ctxDone THEN serving ELSE serving \ {acc}
  /\ lastResp' = TRUE
  /\ Answers("terminal", TRUE)
  /\ UNCHANGED <<request, route, attempt, maxAttempts, reply, disturbed, ctxDone, enabled,
                 inUse>>

\* Any other response is relayed. A 403 is told from an exhausted one by its first
\* bytes, which are written before the rest; a 400 or 404 is read the same way, and
\* what was read is not written.
Relay ==
  /\ pc = "reply" /\ (passThrough \/ ~IsExhausted)
  /\ Answers("relayed", passThrough \/ reply # "bad")
  /\ UNCHANGED <<request, route, loop, ctxDone, pool>>

-----------------------------------------------------------------------------
(* Around the request *)

ClientLeaves ==
  /\ pc # "done" /\ ~ctxDone /\ ctxDone' = TRUE
  /\ UNCHANGED <<pc, request, route, loop, answer, pool>>

\* Other requests rotate the pool, with or without marking the account they leave;
\* the poller restores an account; the dashboard turns the secondary tier on or off.
OthersRotate ==
  /\ \E a \in serving \ {inUse} : inUse' = a
  /\ serving' \in {serving, serving \ {inUse}}
  /\ UNCHANGED enabled

PollerRestores ==
  /\ \E a \in Account \ serving : serving' = serving \cup {a}
  /\ UNCHANGED <<enabled, inUse>>

SetFallbackConfig == enabled' = ~enabled /\ UNCHANGED <<inUse, serving>>

Others ==
  /\ pc # "done" /\ disturbed' = TRUE
  /\ OthersRotate \/ PollerRestores \/ SetFallbackConfig
  /\ UNCHANGED <<pc, request, route, attempt, maxAttempts, reply, lastResp, answer,
                 ctxDone>>

Upstream == (\E x \in Reply : Replies(x)) \/ UpstreamFails

\* The handler's own steps.
Serve ==
  \/ Buffer \/ ForeignHost \/ UseAccount \/ NoAccount503 \/ Threshold \/ ForcePrimary
  \/ Predict \/ Budget
  \/ Send \/ GiveUp \/ RenewToken \/ Sanitize
  \/ EngineFallsBack \/ EngineRotates \/ EngineFails \/ Relay

Next == Serve \/ Upstream \/ ClientLeaves \/ Others

Spec == Init /\ [][Next]_vars

\* Steps that no peer can hold up: for the client's body the server waits 30 seconds.
Prompt == pc # "reply" /\ Serve

\* The context of a request whose client is gone ends every wait: the exchange with
\* upstream, the reading of its answer and the writing to the client.
Aborted == ctxDone /\ (Serve \/ Upstream)

\* The handler runs. Its HTTP client has no timeout ("to allow indefinite SSE
\* streaming"): upstream need never answer, nor end an answer, while the client stays.
FairSpec == Spec /\ WF_vars(Prompt) /\ WF_vars(Aborted)

-----------------------------------------------------------------------------
\* Every request ends, or waits for ever in one exchange with an upstream that neither
\* answers nor gives up, for a client that stays: retries do not go on for ever
\* (whatever is retried counts against the budget), and nothing outlives its client.
Ends == <>(pc = "done") \/ <>[](pc \in {"upstream", "reply"} /\ ~ctxDone)

\* The budget reaches every tier of every account (handler.go, dynamicBound): the loop
\* is left early only when attempts went to renewed tokens or sanitized bodies, or
\* somebody else changed the pool or the switch meanwhile.
BudgetSuffices == answer.kind = "gave_up" => disturbed

\* HandleExhaustion is told the model that upstream has refused, so that the tier it marks
\* is the tier that is spent. There is one exception, and it takes an exhausted answer
\* before: a request that was forced to the primary model (handler.go:581) is after a
\* rotation sent again as the client wrote it (handler.go:861), and still charged to the
\* primary tier. The secondary tier is charged for the secondary model only.
ChargesWhatWasSent ==
  pc = "reply" /\ ~passThrough =>
    \/ carried = model
    \/ lastResp /\ <<asked, carried, model>> = <<"other", "other", "primary">>

\* "Unary response: copy body directly" (handler.go:926), of "e.g. 200 OK, 400, 500"
\* (handler.go:908): what is relayed is the whole body.
RelaysWhole == answer.kind = "relayed" => answer.whole
=============================================================================
