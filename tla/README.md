# Verification of antigravity-account-switcher

TLA+ models of the account switcher, their TLC configurations, and TLAPS proofs
about them. The program is a local reverse proxy for Cloud Code requests: it puts
the token of one of several Google accounts into each request, and when upstream
says that an account's quota is spent it moves the request to another model tier
of the same account or to another account.

## 1. The system

| component | state | operations | interacts with |
|---|---|---|---|
| Failover engine (`internal/proxy/failover.go`) | `accountStates`, `quotaCache`, the fallback switch, under one `RWMutex` | `PredictiveCheck`, `HandleExhaustion`, `ProactivelyRotateAccount`, `UpdateQuotaCache`, `SetFallbackConfig` | called by every proxied request; reads and writes the pool; reads the bucket rows |
| Proxy handler (`internal/proxy/handler.go`) | the locals of one request: account, model, body, attempt | `ServeHTTP`, `handleConnect` | upstream, the engine, the pool, the token refresher |
| Quota poller (`internal/quota/poller.go`) | `running`, `done`, `pollMu` | `Start`, `loop`, early discovery, `Stop`, `PollOnce`, `pollAccount` | upstream, the language server, pool and rows; called by the dashboard too |
| Store (`internal/store/sqlite`) | tables `accounts`, `quota_buckets`, `proxy_events`, `token_metrics`; one connection | `GetActive`, `GetNextAvailable`, `SetActive`, `UpdateStatus`, `UpsertBuckets`, ... | everybody; a call is a transaction, two calls are not |
| Dashboard (`internal/web`) | none of its own besides settings | select, delete, refresh, settings, event stream, OAuth start, tunnel | store, poller, engine, broadcaster, OAuth, tunnel |
| Broadcaster (`handler.go`) | the set of subscriber channels | subscribe, unsubscribe, broadcast | engine, poller, dashboard streams |
| OAuth service (`internal/oauth`) | pending states, loopback server | start, callback, exchange, upsert, automatic import | Google, store |
| SSE interceptor and metrics | usage of one stream | copy and record | proxy handler, store |
| Tunnel manager (`internal/tunnel`) | process, status, URL | start, stop, status, two goroutines | `cloudflared` |
| Launcher, command line, configuration | child process; one JSON file | wiring | all of the above |

What is hard: requests, poll passes and dashboard calls interleave at every database
call; the engine's mutex does not cover the pool that the poller writes; a client may
leave at any time, which makes every later database call of its request fail; several
values are read under one lock and used under another; rows are replaced by two calls;
retries share one budget; the poller's own goroutines outlive some of its calls.

What makes each component correct:

- engine: one exhaustion rotates once; a rotation never brings back a spent account;
  flags in memory agree with one another and start over with a new account; a call
  returns; what it hands back serves;
- handler: a request ends; the budget reaches the whole pool; the engine is told the
  tier that was really refused; the client gets the whole answer;
- poller: accounts come back when their reset times say so and not otherwise; an
  account in error is not brought back; stopping stops the writes;
- store: at most one active account; no rows without their account;
- OAuth and accounts: a state is redeemed once; tokens stay with the e-mail they were issued
  to; the account in use is lost only by its deletion, and an empty place is filled again;
- tunnel, launcher: what runs is what the manager knows; nothing is left behind by an orderly
  exit; the wrapped program never runs without its proxy;
- broadcaster and streams: a dashboard that does not read blocks nobody, one that leaves
  harms nobody; usage is recorded however a stream ends;
- model rewriting: the scanner finds the request's own model; what is sent for a model asks
  for that model everywhere and is what its family accepts;
- settings: the engine of `serve` routes by what the dashboard shows, and a start finds what was
  last set, whatever updates overlap and wherever the process stops.

`PROJECT.json` lists the components with their status and every hazard at its line.

## 2. Modules

| module | what it models |
|---|---|
| `QuotaView` | what the engine knows of one account: the conditions of the buckets of each model tier, the flags, and the pure rules that update them |
| `FailoverEngine` | the engine under any number of concurrent requests, the pool, the rows; one action per lock section or database call |
| `FailoverProps` | what the engine promises |
| `FailoverEngine_proofs` | theorems about `FailoverEngine`, and that it implements `AccountPool` |
| `AccountPool` | the abstract specification: a pool whose rotations are single steps, from the account that failed to one that serves |
| `ProxyRequest` | one request through `ServeHTTP`, against every sequence of upstream answers and a pool that others change |
| `Connect`, `Connect_proofs` | `ProxyRequest` with the other thing `ServeHTTP` does: a CONNECT, its two connections and two copiers |
| `ModelRewriter`, `ModelRewriter_proofs` | what a request carries: the JSON scanner, the rewriting of path, query and body, the adapters of the model families, the sanitizer, and the order in which a request goes through them |
| `QuotaPoller`, `QuotaPoller_proofs` | the poller's goroutines, its passes, and their other callers |
| `Accounts`, `Accounts_proofs` | the accounts table and everybody who writes it besides engine and poller: OAuth callbacks, import, dashboard, bootstrap and token renewal of a request |
| `Tunnel` | the manager of `cloudflared`, its goroutines and processes |
| `Daemon`, `Daemon_proofs` | `serve` (with a `Tunnel`) and `wrap`, from start to exit: server, poller, database, child, signals |
| `Streams`, `Streams_proofs` | broadcaster, emitters, dashboards that follow, proxied SSE streams whose usage is captured |
| `Settings`, `Settings_proofs` | the settings in `config.json`, in the server and in the engine, under updates, environment, `config set` and restarts |
| `MC...` | the finite instances |

How state and actions correspond to the code:

- **Granularity.** In `FailoverEngine` an action is a section under `mu` without a
  database call, or one database call. `mu` is the writer's lock: a read section is one
  action enabled when no writer holds it. `pc[r]` is the place in the handler:
  `a_*` `ProactivelyRotateAccount`, `p_*` `PredictiveCheck`, `h_*` `HandleExhaustion`,
  `r_*` `rotateAccountLocked`. `PredictClear` and `PredictAfter` are separate because
  the code gives up the read lock, takes the write lock, and reads again. In
  `QuotaPoller` an action is a database call or an exchange with upstream.
- **Buckets.** Names, fractions and times are reduced to what the code tells apart: for
  the engine the tier a bucket matches and whether it is usable, spent, or spent with its
  reset time reached; for the poller whether quota is left and whether the reset time is
  unset, ahead or past. An account has a *set* of such conditions, since several buckets
  (five-hour and weekly) match one tier. Time passing moves conditions from ahead to past.
- **Contexts.** `ctxDone` is the cancelled context of a request: every database call
  made with it fails, as `database/sql` does. Other database errors are not modelled.
- **Order of candidates.** `GetNextAvailable` orders by a timestamp of one second's
  resolution; the choice is left open.
- **Composition.** `ProxyRequest` sees the engine through what its calls return. That
  those returns are what the engine computes is property `HandsOver` of `FailoverEngine`,
  checked and proved. `Connect` extends `ProxyRequest`, `Daemon` extends `Tunnel`. The engine
  relies on at most one account being in use while others write the table: that is
  `SingleActive` of `Accounts`. The accounts that the dashboard, a bootstrap or a login put in use
  without `mu` are its environment (`PutInUseOutside`, constant `Outside`), one write each; what
  these callers do before and after that write is in `Accounts`. `ProxyRequest` takes the repeated sending of a sanitized body as
  impossible (`sanitized`): that is `SanitizedOnce` of `ModelRewriter`.
- **Refinement.** `FailoverProps` instantiates `AccountPool` with `inUse` the accounts whose
  flag is set, `usable` those with status active, `uses` the account of each request.
  Everything else the engine does (mutex, cache, flags, reads) maps to a stutter.
- **Accounts.** An action is one database call, one use of the state store, one exchange with
  Google. A token is the e-mail it was issued to, which is all that can be wrong about where
  it is stored. `SetActive` is one transaction, rolled back when the target row is gone;
  `MayInsert` is the unique column and the partial unique index of the schema.
- **Tunnel and Daemon.** A process is running, killed or exited; `url` is the process whose URL
  is published. `phase` is the place of the main goroutine, the tear-down in the order of
  the code and of its deferred calls. `timedOut` says that `Shutdown` gave up on a request.
- **Streams.** A broadcast is a section under the read lock in which each subscriber is served
  by a send that drops what does not fit; coming and going needs the write lock
  (`NobodySends`). Whether an event is broadcast or stored first depends on its emitter (`Order`).
- **Settings.** The primary model and the switch stand for all settings: an update may name
  any part, the environment may override any part. A save truncates, then writes; two writers
  may leave a mixture. Under `wrap` the dashboard has no settings and no way to the engine
  (`appConfig = Unset`): its first update starts from the defaults (`Base`), is saved over what
  is stored, and does not reach the engine. `told`, `shown` and `intact` are history variables:
  what the engine was told, what was loaded or last saved, and that no other writer or failed
  save has come between.
- **ModelRewriter.** A name is the set of family words in it, a body its members in order with
  the fields the adapters touch, the scanner's input a sequence of tokens. The scanner is a
  recursive function over positions, compared with `RootModel`, which looks at the members.

## 3. Runs

| run | instance | shows |
|---|---|---|
| `rotation` | 3 accounts, 2 requests, proactive and reactive rotation | `ImplementsAccountPool`, `CheckStaysCurrent` |
| `flags` | 1 account, 2 requests that may be aborted, rows of two kinds, lapsing reset times, status writes of the poller, the switch | `FlagsCohere` |
| `live` | 2 accounts, one of which may be put in use without the engine at any moment, 2 requests, fair goroutines | `CallsReturn`, `InUseCanServe`, `StartsOver`, `HandsOver`, `TypeOK` |
| `budget` | 1 request or CONNECT, 3 accounts that others rotate and restore, every upstream answer, 3 default retries | `Ends`, `BudgetSuffices`, `ChargesWhatWasSent`, `TunnelEnds`, `ConnectTypeOK` |
| `poller` | 1 account, the loop, the early discovery and one dashboard request | `RevivesNoError`, `RestoredRowsAgree`, `StoppedWritesNothing`, `PastResetRestored`, `TypeOK` |
| `accounts` | 3 ids, 2 e-mails, one login with 2 callbacks, one of which may leave; one dashboard client, one request | `SingleActive`, `ActiveLostByDeletionOnly`, `CredentialsAreOwn`, `StateRedeemedOnce`, `LoginsEnd`, `PoolServes`, `TypeOK` |
| `daemon` | serve and wrap, 2 tunnel processes, 2 dashboard requests, signals and a crash at any time | `LiveIsManaged`, `NoTunnelLeft`, `ChildHasProxy`, `RunEnds`, `DeathNoticed`, `TypeOK` |
| `streams` | 1 alert, 1 stream with 2 usage chunks, 2 dashboards, channels and history of one | `NeverSendsOnClosed`, `ShownAtMostOnce`, `BroadcastEnds`, `TokensRecorded` |
| `rewrite` | 4 models of 3 families, 2 of them registered; bodies of up to 3 members in any order; payloads of one or two turns | `ScanFindsRootModel`, `SentForModel`, `SanitizedOnce` |
| `settings` | `serve` and `wrap`, 2 models, 2 updates whose saves may fail, 2 requests, any environment, stops at any point and restarts in it or in none, `config set` | `EngineFollowsDashboard`, `RestartFindsSettings` |
| `whole`, `cooldown` | the instances of `budget` and `poller`, smaller | places where the code and a text of the repository differ; see *Findings* |

Why the bounds are enough. Two requests suffice for a rotation that overtakes another;
three accounts let the second rotation have somewhere else to go, which is what the
anti-stampede check must prevent. The flags of an account depend on that account only, so
`flags` takes one account and gives the environment everything else. In `budget` three
accounts with two tiers give six attempts, more than the three default retries, so the
dynamic bound is the one that counts (three is the code's `DefaultMaxRetries`, `handler.go:26`: four
attempts, which three accounts with two tiers exceed).
`RetryCap` is the code's cap of 50. A pass of the poller handles accounts one after the
other and shares nothing between them but the mutex and the context, so one account and
three callers show every interleaving that matters to it. The proofs need none of the
bounds. `flags`, `live` and `rotation` use disjoint parts of the environment (constants
`Leaving`, `PollStatus`, `Switchable`, `Lapsing`, `RowViews`, `Outside`) because all of it at once is
beyond TLC: in `rotation` and `live` rows always show quota, nobody leaves and the poller
writes no status; accounts are put in use without the engine in `live` only. `InUseCanServe` and
`ImplementsAccountPool` are claims about the engine between two polls, `CheckStaysCurrent` and
`ImplementsAccountPool` between two activations outside it as well; with the poller writing a
status, or the dashboard moving the flag, between two steps they do not hold, and the hazards
say so. (For clients that leave, the refinement is proved although it is not
checked; `InUseCanServe` does not hold with them, for a rotation whose client leaves between
the mark and the move leaves the spent account in use until the next request.)

In `accounts` a login meets a second callback of its own, so that each step of
`UpsertAccount` can meet a deletion, a selection, a bootstrap and another callback at each
of its own; three ids let an account be deleted and created again while another stays. In
`daemon` the second process is the one that an earlier one's waiting goroutine meets. In
`streams` buffers of one are full as soon as one event is unread, and a history of one is cut
as soon as two events are stored. In `rewrite` three members are enough for a model before,
between and after whatever else holds the word; nothing a request goes through depends on more than
two turns, since turns are treated alike. In `settings` two updates overlap with each other
and with a sync, and two syncs with one another.

Deadlock checking is off everywhere: a request ends, the process may be idle or exit, and the
poller may have been stopped. That nothing is stuck is what `CallsReturn`, `Ends`,
`TunnelEnds`, `PastResetRestored`, `LoginsEnd`, `PoolServes`, `RunEnds`, `DeathNoticed`,
`BroadcastEnds` and `TokensRecorded` say.

Fairness. `FailoverEngine`: strong fairness of each request's steps inside the engine;
Go schedules runnable goroutines, and `sync.RWMutex` does not starve a waiter. Nothing is
assumed of upstream, clients or the poller. `ProxyRequest`: the handler's next step is
taken where it waits for no peer (`Prompt`; the server gives the client 30 s for its body,
`web/server.go:121`), and every wait ends once the client is gone (`Aborted`). That upstream answers
is not assumed: the HTTP client has `Timeout: 0` and its transport no time-outs
(`handler.go:220`), so a request whose client stays may wait for ever, and `Ends` says that
this is the only way in which one does not end.
`QuotaPoller`: the ticker ticks, `sync.Mutex` starves nobody, exchanges end (the HTTP
client has a timeout of 30 s). That upstream answers with anything useful is not assumed.
`Connect`: dialling has a timeout, and a copier notices that a connection has ended.
`Accounts`: the timer of a login fires, callbacks and the import run, requests keep coming;
nobody need click, log in or delete. `Daemon`: goroutines run, `Shutdown` has a deadline, a
child that is killed, told to end or orphaned (`PR_SET_PDEATHSIG`) ends, a process that has
exited is reaped. `Streams`: emitters run, and so does the reader of a stream whose client has
left, since the context of its request ends the read; no dashboard need ever read and no
upstream ever send.

Every property is checked against a mutant: a changed definition (a dropped lock, a
forgotten half of a reset, a wrong bound; the operators called *Mutant of* in the modules)
under which TLC finds the property violated.

### Findings

- `whole`: of a plain 400 or 404 the first 64 KB, read to classify it, never reach the
  client.
- `cooldown`: for accounts whose quota request is answered 403, the five-hour bucket the
  poller makes up is armed again when it runs out, so the account waits for a moment when
  the stored weekly reset time is past as well.

### Other differences met on the way

These are behaviours of the code that the models contain and about which no property is
stated, because no text of the repository promises the contrary, or only in passing:

- `failover.go:894`: the context is checked before the engine's mutex, not after it
  (`CHANGELOG.md:36` says "upon acquiring mutex", of `RotateAccount`); a request whose
  client has left meanwhile goes on until its queries fail.
- `failover.go:846`: with one spent and one open window in the primary group each request
  announces the fallback again.
- `failover.go:229`: rows of the last poll clear the mark of a 429 that is newer than they.
- `handler.go:865`: a rotation restores the client's own model, not the configured primary one
  that was forced at 581, but goes on with `currentModel` the primary: the client's model is sent,
  and if it is refused as exhausted the primary tier is charged. The comments at 581 ("source of truth") and 861
  ("reset back to primary model") say otherwise. `ChargesWhatWasSent` and `SentForModel` state it as their only
  exception.
- `handler.go:350`: each copier of a CONNECT closes both connections when it ends; a half-closed
  connection is not kept for the other direction (`CHANGELOG.md:35`).
- `handler.go:454`: a dashboard update that reaches the engine between the two sections of a
  sync is put back to what the sync had read, although the dashboard is the "source of truth"
  (`handler.go:581`); `EngineFollowsDashboard` admits this until the next update.
- `wrap.go:266`, `wrap.go:305`: the server of `wrap` gets neither the settings nor the engine. Its dashboard
  shows none; an update is merged into the defaults (`api.go:632`), saved over what was stored,
  and does not reach the engine (`api.go:659`).
- `api.go:288`, `api.go:354`, `handler.go:536`: an account is put in use without the engine's mutex and
  without a look at its flags, in the middle of a rotation too, which then moves the flag on.
- `poller.go:170`, `poller.go:242`: the poller's context comes from the one that signals cancel,
  so under `wrap` the quotas are no longer polled while the child winds down after a signal.
- `handler.go:223`: an upstream that accepts a request and never answers holds it until the client
  leaves.
- `api.go:444`: an event broadcast after the history is read and before the subscription is
  not shown to that dashboard until it connects again.
- `api.go:657`: updates are saved without `Validate`, and a failed save is not reported;
  a `config set` and a dashboard update overwrite one another; a truncated file
  (a stop in mid-save) makes `serve` and `wrap` start from the defaults, which the next update then saves.
- `cloudflare.go:207`: the URL goroutine publishes without comparing the process, so the URL of
  a stopped tunnel may appear over a newer one; its comment says 10 seconds, the timer 15.
- `main.go:298`: a request that outlives the shutdown's deadline may start a tunnel that
  nobody stops (`timedOut`); an open event stream is enough to use up the deadline.
- `wrap.go`: the database is closed before the poller is stopped (deferred calls); the kill by
  `exec.CommandContext` is not ordered after the forwarded signal.
- `payload_adapter.go:33`: the thinking budget is raised to 1024 without a look at the output limit.

## 4. Proofs

`FailoverEngine_proofs` proves, for any accounts, requests, stored rows and environment:

- `TypeCorrect` (`TypeOK`), which includes that no step dereferences a nil account;
- `FlagsCoherent` (`FlagsCohere`): inductive together with `TypeOK`; the eight places that
  write the flags go through the operators of `QuotaView`, each of which has a lemma;
- `RotationsAtomic` (`CheckStaysCurrent`): the inductive invariant `RotationInv` adds that
  whoever is past its look at the pool holds `mu` (`MuHeld`) and that at most one account
  is active (`OneActive`). Without `MuHeld` another request could move the flag between
  the look and the move; without `OneActive` "the" active account would mean nothing.
  The theorem assumes `Outside = {}`: who does not take `mu` can move the flag at any time;
- `RotationStartsOver` (`StartsOver`): the engine moves the flag by `SetActive` only, and each
  caller forgets the flags of the same account in the same section; a rotation that finds another account
  in use, whoever put it there, forgets them too;
- `HandsOverServing` (`HandsOver`): the assumption of `ProxyRequest` about the engine.

- `OneInUse` (`OneActive`): what `RotationInv` says of the table, for its own sake.

`EngineImplementsPool` is the refinement, under the assumptions
`PollStatus = {}` (the poller writes no status meanwhile) and `Outside = {}`, which are part of its
statement.
To `RotationInv` it adds `PickInv`: between the pick and the activation the picked
account is usable and not the failed one, and no other request can change that, since it
would need `mu`. Each action is then shown to be a step of the pool or a stutter.
`ActiveAccountServes` (`InUseCanServe`) needs `PollStatus = {}` and `Leaving = {}`, but nothing of `Outside`: by `ServeInv` the account in
use serves, if any does, or a rotation that has marked its account spent is about to move the
flag; one that finds no other account leaves none that serves.

`Connect_proofs` is about a request and its retries, and a CONNECT, in a pool of any size.
`RequestOK` is inductive: the types, an account whenever one is sent for (`AccountOK`), no more
attempts than the budget (`AttemptOK`), and that path, query and body carry what the handler
takes them to carry, the restored request that had been forced excepted (`ModelOK`). `TypeCorrect` and `RightTierCharged` (`ChargesWhatWasSent`)
follow from it. `BudgetReachesAll` (`BudgetSuffices`) has a loop invariant, `BudgetOK`: as long as
nobody else has come between, what an exhausted answer can still lead to (`Left`: the other
accounts that serve, once per tier, and the other tier of the one in hand) fits into the
attempts that remain. Its hypothesis `Cardinality(Account) * 2 <= RetryCap + 1` is a real limit of the
code: with its cap of 50, a pool of more than 25 accounts can have one left that no retry reaches.

`QuotaPoller_proofs` has one inductive invariant. `PassOK` says who is inside a pass: the holder
of `pollMu`, and an account is being polled in one part of the pass only; `ListedOK` that what a
pass has still to restore was spent when it listed it, and has not been found unusable since,
which only the pass itself could have done; `RowsOK` that what is being restored has the rows just
written, or none if it was deleted; `StopOK` that after `Stop` the contexts of the daemon's
goroutines are done. From it `TypeCorrect`, `PassesExclude`, and the action properties
`ErrorsStay` (`RevivesNoError`), `RestoresAgree` (`RestoredRowsAgree`) and `StopsWriting`
(`StoppedWritesNothing`).

`ModelRewriter_proofs`: the inductive invariant says that what is sent is the client's request
with the same members and as many turns, none of them emptied (`Of`), that it asks for the
model it was last rewritten for (`Asks`), that it is taken for that model, or for the one the client
named, or was forced and restored (`Taken`), and that without rewriting it is the client's, signatures
apart (`Unchanged`). Below it are lemmas about the operators, for turns and
payloads of any length: what `Kept` filters, that a visitor's turn is free of thoughts and not empty
unless it was, that each adapter returns what its family accepts, and that sanitizing twice is
sanitizing once. From them `SentAsTaken` (`SentForModel`) and `SanitizingOnce`
(`SanitizedOnce`). `Kept` and the scanner are recursive functions over positions. That such a
function exists is the lemma `Recursion`, and what it computes is proved by induction over a set
of numbers (`UpTo`), which rests on a least counterexample (`Least`, from the library's
well-foundedness of the naturals): an induction theorem with an operator as parameter cannot be
used.

`ScanFinds` (`ScanFindsRootModel`) holds for any number of members in any order, cut anywhere. The
text is built member by member (`Writes`, shown to be what `Render` joins by `Rendered`). As long as
no member has named a model, the scan is back in the root object after each (`AtRootObject`): the depths
along a member's text are given (`Neutral`), and a scan follows them (`Passes`). The first that names
one decides (`ScanResult`), since a scan that is over stays as it is (`ScanOver`). On a beginning of
the text (`PrefixFinds`), the scan does the same up to the cut, where it can only find less. That the body
has such members at all, however often it was rewritten, is part of the inductive invariant.

`Accounts_proofs`: one inductive invariant for the table (one account in use, ids issued
once, every row's tokens its own e-mail's) and for what each caller remembers (an id
together with the e-mail its tokens are for: as ids are not reused, the row is still that
e-mail's or gone). From it `TypeCorrect`, `OneInUse`, `TokensStayHome`; `ActiveKept`
is an action property from the same invariant; `RedeemedOnce` has an invariant of its own,
that a redeemed state is no longer in the store, and that nobody comes back to a flow that
has not begun.

`Daemon_proofs`: `Managed` (a running process is `cmd`, and only `cmd` can be reached by
`Stop`), `Drained` (once the server is down without a time-out no request is being served) and
`Serving` (proxy and database are up from before the child's start until after the join, the
poller until a signal) are inductive with `TypeOK`; `TunnelsManaged`, `TunnelsStopped`, `ProxyOutlivesChild` follow.

`Streams_proofs`: `BoardOK` (a broadcast under way has only subscribers left to serve, and a
closed channel is that of a dashboard that has ended) gives `NoSendOnClosed`. `ShownOnce` needs `StoredOK` (what is
stored is past its broadcast, and stored once) and `SeenOK` (what a dashboard was shown and
what waits in its channel are without repetition, disjoint, and past their broadcast to it).

`Settings_proofs`: `LockOK` (at most one update is between its lock and unlock), `EngineOK` (what
the engine and the pending syncs hold is what the engine was told, up to the environment's
overrides) and `FileOK` (the file, a save under way and the dashboard hold what is `shown`) give `EngineFollows`
and `RestartFinds`.

They rest on the named assumptions of their modules (null values differ from real ones,
inputs are of their types, buffers hold at least one event), which TLC evaluates in
every run of the corresponding MC module.

Only model-checked: liveness under fairness (`CallsReturn`, `Ends`, `TunnelEnds`,
`PastResetRestored`, `LoginsEnd`, `PoolServes`, `RunEnds`, `DeathNoticed`, `BroadcastEnds`,
`TokensRecorded`), which is beyond the prover. Every invariant and action property that a passing
run checks is a theorem.

## 5. Not modelled

- Engine operations without callers outside the tests (`RotateAccount`, `ResetAccountState`,
  `ResetAllStates`, `ClearQuotaCache`, the `Mark...` wrappers), the poller's `PollAccount`, usage
  fractions and the warning thresholds.
- The status `disabled`, which nothing sets; several processes over one database beyond the
  login of `add-account` and `config set`; database errors other than a cancelled context, a
  violated constraint and a busy or closed database in `Streams`.
- The `/proc` scan and the HTTP probing of `language_server.go`, the payload formats of the
  quota answers, the parsing of SSE lines, certificates, headers, authentication of remote
  clients: I/O and formats. What they yield is an input of the models.
- The statistics queries, schema migrations, the dashboard's read-only handlers, the desktop
  launcher, argument parsing and printing, the browser code: presentation and wiring.
- `Accounts` and `FailoverEngine` are not composed in one state space. Each has some of the other's
  writes to the table as its environment: the engine the accounts put in use outside it
  (`PutInUseOutside`), `Accounts` accounts that fail (`AccountFails`) and what a rotation does to the
  flag only as a selection. New and deleted accounts are not in the engine's environment.
- In `Settings`, flags of the command line, and two processes that serve one `config.json` at once.

## 6. What is left

1. A finer view of usage in `QuotaView`, for the thresholds of proactive switches.
2. `Accounts` with the engine's rotation as a further writer of the same table.
