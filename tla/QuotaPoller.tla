---------------------------- MODULE QuotaPoller ----------------------------
(***************************************************************************)
(* internal/quota/poller.go: the daemon that fetches every account's quota *)
(* buckets, stores them, and restores accounts whose quota is back.        *)
(*                                                                         *)
(* Passes (PollOnce) are run by the daemon's loop, by the goroutine that   *)
(* looks for the local language server early on, and by the dashboard      *)
(* (refresh, and after a switch of account). pollMu admits one at a time.  *)
(* The pool is shared with the proxy and the dashboard, which do not take  *)
(* it. One action is one database call, or one exchange with upstream.     *)
(*                                                                         *)
(* A bucket row matters through two facts: whether quota is left           *)
(* (RemainingFraction > 0) and where its reset time is, as seen at the     *)
(* start of the pass: never set, ahead, or past. An account's rows are the *)
(* SET of such facts; {} is no rows. Tokens matter through the outcome of  *)
(* the exchange they are used in.                                          *)
(***************************************************************************)
EXTENDS Naturals

CONSTANTS Account,
          Refresher,     \* the dashboard requests that call PollOnce
          Free,          \* nobody holds pollMu
          Answers        \* the bucket lists upstream or the language server may send

Bucket == [left : BOOLEAN, reset : {"zero", "ahead", "past"}]

ASSUME PollerAssumption ==
  /\ Free \notin Refresher \cup {"loop", "discovery"}
  /\ Refresher \cap {"loop", "discovery"} = {}
  /\ Answers \subseteq SUBSET Bucket

\* The goroutines of the daemon itself, which share the context that Stop cancels.
Own    == {"loop", "discovery"}
Caller == Own \cup Refresher

VARIABLES
  status,    \* accounts.status; "gone" once the account is deleted
  rows,      \* the quota_buckets rows of each account
  pollMu,
  running,   \* the loop is started and has not ended
  stop,      \* the call of Stop
  pc, ctxDone,
  todo,      \* the account ids (of prong 1, then of List) still to be handled
  snap,      \* the statuses List returned
  at,        \* the account being polled: {} or one
  got        \* its buckets

pool == <<status, rows>>
pass == <<todo, snap, at, got>>
vars == <<pool, pollMu, running, stop, pc, ctxDone, pass>>

Status == {"active", "exhausted", "error"}

InPass == {"past_reset", "restore_past", "list", "next", "fetch", "mark_error",
           "mark_exhausted", "consumer", "delete", "upsert", "restore"}
Pc     == {"new", "idle", "lock", "gone"} \cup InPass

\* The types; a deleted account leaves no rows (the foreign key cascades).
TypeOK ==
  /\ status \in [Account -> Status \cup {"gone"}]
  /\ rows \in [Account -> SUBSET Bucket]
  /\ \A a \in Account : status[a] = "gone" => rows[a] = {}
  /\ pollMu \in Caller \cup {Free}
  /\ running \in BOOLEAN
  /\ stop \in {"idle", "waiting", "stopped", "timed_out"}
  /\ pc \in [Caller -> Pc]
  /\ ctxDone \in [Caller -> BOOLEAN]
  /\ todo \in [Caller -> SUBSET Account]
  /\ snap \in [Caller -> [Account -> Status \cup {"gone"}]]
  /\ at \in [Caller -> SUBSET Account]
  /\ got \in [Caller -> SUBSET Bucket]

NoSnap == [a \in Account |-> "gone"]

Init ==
  /\ status \in [Account -> {"active", "exhausted"}]
  /\ rows \in [Account -> Answers]
  /\ pollMu = Free
  /\ running = FALSE /\ stop = "idle"
  /\ pc = [c \in Caller |-> IF c \in Own THEN "new" ELSE "idle"]
  /\ ctxDone = [c \in Caller |-> FALSE]
  /\ todo = [c \in Caller |-> {}]
  /\ snap = [c \in Caller |-> NoSnap]
  /\ at = [c \in Caller |-> {}]
  /\ got = [c \in Caller |-> {}]

Goto(c, l) == pc' = [pc EXCEPT ![c] = l]

\* Quota is back: every bucket has some left or is past its reset time.
Restored(v) == v # {} /\ \A b \in v : b.left \/ b.reset = "past"

\* What prong 1 asks of the rows: none has a reset time ahead.
AllPastReset(v) == v # {} /\ \A b \in v : b.reset # "ahead"

\* UpdateStatus by caller c; it fails with c's context, and without the account.
UpdateStatus(c, a, s) ==
  IF ctxDone[c] \/ status[a] = "gone" THEN UNCHANGED status
                                      ELSE status' = [status EXCEPT ![a] = s]

-----------------------------------------------------------------------------
(* Start, the loop, the early discovery, Stop. Production starts it once. *)

\* The first pass comes at once.
Start ==
  /\ pc["loop"] = "new" /\ ~running
  /\ running' = TRUE
  /\ Goto("loop", "lock")
  /\ UNCHANGED <<pool, pollMu, stop, ctxDone, pass>>

\* The ticker fires, perhaps in a select where the context is done as well.
Tick ==
  /\ pc["loop"] = "idle"
  /\ Goto("loop", "lock")
  /\ UNCHANGED <<pool, pollMu, running, stop, ctxDone, pass>>

LoopEnds ==
  /\ pc["loop"] = "idle" /\ ctxDone["loop"]
  /\ Goto("loop", "gone")
  /\ running' = FALSE
  /\ UNCHANGED <<pool, pollMu, stop, ctxDone, pass>>

\* A language server shows up, and is worth one pass; or the probes are over.
Discover ==
  /\ pc["discovery"] = "idle"
  /\ Goto("discovery", "lock") \/ Goto("discovery", "gone")
  /\ UNCHANGED <<pool, pollMu, running, stop, ctxDone, pass>>

\* Mutant of Cancel: the early discovery has a context of its own.
CancelLoopOnly == ctxDone' = [ctxDone EXCEPT !["loop"] = TRUE]

Cancel == ctxDone' = [c \in Caller |-> ctxDone[c] \/ c \in Own]

\* The process is told to end: the context the poller was started with is done.
Shutdown ==
  /\ running /\ ~ctxDone["loop"]
  /\ Cancel
  /\ UNCHANGED <<pool, pollMu, running, stop, pc, pass>>

\* Stop: nothing to wait for, or cancel and wait for the loop.
Stop ==
  /\ stop = "idle" /\ pc["loop"] # "new"
  /\ IF running THEN stop' = "waiting" /\ Cancel
                ELSE stop' = "stopped" /\ UNCHANGED ctxDone
  /\ UNCHANGED <<pool, pollMu, running, pc, pass>>

\* done is closed, or five seconds are over.
StopReturns ==
  /\ stop = "waiting"
  /\ \/ pc["loop"] = "gone" /\ stop' = "stopped"
     \/ stop' = "timed_out"
  /\ UNCHANGED <<pool, pollMu, running, pc, ctxDone, pass>>

\* A dashboard request arrives; its client may leave (a switch of account polls
\* with a context nobody cancels).
Refresh(c) ==
  /\ c \in Refresher /\ pc[c] = "idle"
  /\ Goto(c, "lock")
  /\ UNCHANGED <<pool, pollMu, running, stop, ctxDone, pass>>

ClientLeaves(c) ==
  /\ c \in Refresher /\ pc[c] # "idle" /\ ~ctxDone[c]
  /\ ctxDone' = [ctxDone EXCEPT ![c] = TRUE]
  /\ UNCHANGED <<pool, pollMu, running, stop, pc, pass>>

-----------------------------------------------------------------------------
(* PollOnce *)

\* Mutant of Acquire: passes do not exclude one another.
AcquireNothing(c) == UNCHANGED pollMu

Acquire(c) == pollMu = Free /\ pollMu' = c

Lock(c) ==
  /\ pc[c] = "lock"
  /\ Acquire(c)
  /\ Goto(c, "past_reset")
  /\ UNCHANGED <<pool, running, stop, ctxDone, pass>>

\* Mutant of Release: the early return for a done context keeps the mutex.
ReleaseUnlessDone(c) == pollMu' = IF ctxDone[c] THEN pollMu ELSE Free

Release(c) == pollMu' = Free

\* The pass returns. The loop and the dashboard may start another one; after the
\* loop's first pass the early discovery begins.
Return(c) ==
  /\ Release(c)
  /\ pc' = [pc EXCEPT ![c] = IF c = "discovery" THEN "gone" ELSE "idle",
                      !["discovery"] =
                        IF c = "discovery" THEN "gone"
                        ELSE IF c = "loop" /\ @ = "new" THEN "idle" ELSE @]
  /\ ctxDone' = [ctxDone EXCEPT ![c] = c \in Own /\ @]
  /\ todo' = [todo EXCEPT ![c] = {}]
  /\ snap' = [snap EXCEPT ![c] = NoSnap]
  /\ UNCHANGED <<at, got>>

\* Prong 1: GetExhaustedAccountsPastReset. Its error is ignored.
PastReset(c) ==
  /\ pc[c] = "past_reset"
  /\ todo' = [todo EXCEPT ![c] =
       IF ctxDone[c] THEN {}
       ELSE {a \in Account : status[a] = "exhausted" /\ AllPastReset(rows[a])}]
  /\ Goto(c, "restore_past")
  /\ UNCHANGED <<pool, pollMu, running, stop, ctxDone, snap, at, got>>

RestorePast(c) ==
  /\ pc[c] = "restore_past"
  /\ IF todo[c] = {}
     THEN Goto(c, "list") /\ UNCHANGED <<status, todo>>
     ELSE \E a \in todo[c] : /\ UpdateStatus(c, a, "active")
                             /\ todo' = [todo EXCEPT ![c] = @ \ {a}]
                             /\ UNCHANGED pc
  /\ UNCHANGED <<rows, pollMu, running, stop, ctxDone, snap, at, got>>

\* accountRepo.List: every account as it is now.
List(c) ==
  /\ pc[c] = "list"
  /\ IF ctxDone[c]
     THEN Return(c)
     ELSE /\ todo' = [todo EXCEPT ![c] = {a \in Account : status[a] # "gone"}]
          /\ snap' = [snap EXCEPT ![c] = status]
          /\ Goto(c, "next")
          /\ UNCHANGED <<pollMu, ctxDone, at, got>>
  /\ UNCHANGED <<pool, running, stop>>

\* The next account of the list (created_at order is left open), or the end.
NextAccount(c) ==
  /\ pc[c] = "next"
  /\ IF ctxDone[c] \/ todo[c] = {}
     THEN Return(c)
     ELSE /\ \E a \in todo[c] : /\ at' = [at EXCEPT ![c] = {a}]
                                /\ todo' = [todo EXCEPT ![c] = @ \ {a}]
          /\ Goto(c, "fetch")
          /\ UNCHANGED <<pollMu, ctxDone, snap, got>>
  /\ UNCHANGED <<pool, running, stop>>

\* pollAccount returns, with an error or without: the pass goes on.
Proceed(c) ==
  /\ Goto(c, "next")
  /\ at' = [at EXCEPT ![c] = {}]
  /\ got' = [got EXCEPT ![c] = {}]

-----------------------------------------------------------------------------
(* pollAccount *)

\* Token renewal and fetchQuotaSummary, in one exchange. Buckets come from the
\* language server, from the summary, from the legacy endpoint after a 404, or
\* from the repeated request after a 401.
Fetch(c) ==
  /\ pc[c] = "fetch"
  /\ \/ /\ ~ctxDone[c]
        /\ \E v \in Answers \cup {{}} :
             IF v = {} THEN Proceed(c)
             ELSE /\ got' = [got EXCEPT ![c] = v]
                  /\ Goto(c, "delete")
                  /\ UNCHANGED at
     \/ /\ ~ctxDone[c]
        /\ \/ Goto(c, "mark_error")       \* invalid_grant; a 401 that stays
           \/ Goto(c, "mark_exhausted")   \* 429
           \/ Goto(c, "consumer")         \* 403
        /\ UNCHANGED <<at, got>>
     \/ Proceed(c)                        \* any other failure
  /\ UNCHANGED <<pool, pollMu, running, stop, ctxDone, todo, snap>>

MarkError(c) ==
  /\ pc[c] = "mark_error"
  /\ \A a \in at[c] : UpdateStatus(c, a, "error")
  /\ Proceed(c)
  /\ UNCHANGED <<rows, pollMu, running, stop, ctxDone, todo, snap>>

MarkExhausted(c) ==
  /\ pc[c] = "mark_exhausted"
  /\ \A a \in at[c] : UpdateStatus(c, a, "exhausted")
  /\ Proceed(c)
  /\ UNCHANGED <<rows, pollMu, running, stop, ctxDone, todo, snap>>

\* generateConsumerQuotaBuckets: a five-hour and a weekly window for each model
\* group. For a spent account the five-hour window of one group is empty and its
\* reset ahead, whether a stored one is kept or a new one computed; the weekly
\* windows have quota and their reset ahead.
ConsumerBuckets(s) ==
  IF s = "exhausted"
  THEN {[left |-> FALSE, reset |-> "ahead"], [left |-> TRUE, reset |-> "ahead"]}
  ELSE {[left |-> TRUE, reset |-> "zero"], [left |-> TRUE, reset |-> "ahead"]}

Consumer(c) ==
  /\ pc[c] = "consumer"
  /\ \A a \in at[c] : got' = [got EXCEPT ![c] = ConsumerBuckets(snap[c][a])]
  /\ Goto(c, "delete")
  /\ UNCHANGED <<pool, pollMu, running, stop, ctxDone, todo, snap, at>>

\* Mutant of DeleteByAccountID: the stored rows stay.
DeleteNothing(c, a) == UNCHANGED rows

DeleteByAccountID(c, a) ==
  IF ctxDone[c] THEN UNCHANGED rows ELSE rows' = [rows EXCEPT ![a] = {}]

\* Its error is ignored.
Delete(c) ==
  /\ pc[c] = "delete"
  /\ \A a \in at[c] : DeleteByAccountID(c, a)
  /\ Goto(c, "upsert")
  /\ UNCHANGED <<status, pollMu, running, stop, ctxDone, pass>>

\* Mutant of UpsertFails: rows are stored for an account that is not there.
UpsertFailsWhenDone(c, a) == ctxDone[c]

\* The context is done, or the foreign key has nothing to refer to.
UpsertFails(c, a) == ctxDone[c] \/ status[a] = "gone"

\* Rows of other bucket ids stay. Prong 2 follows for an account that was spent
\* when it was listed.
Upsert(c) ==
  /\ pc[c] = "upsert"
  /\ \A a \in at[c] :
       IF UpsertFails(c, a)
       THEN Proceed(c) /\ UNCHANGED rows
       ELSE /\ \E kept \in SUBSET rows[a] :
                 rows' = [rows EXCEPT ![a] = got[c] \cup kept]
            /\ IF snap[c][a] = "exhausted" /\ Restored(got[c])
               THEN Goto(c, "restore") /\ UNCHANGED <<at, got>>
               ELSE Proceed(c)
  /\ UNCHANGED <<status, pollMu, running, stop, ctxDone, todo, snap>>

RestoreFetched(c) ==
  /\ pc[c] = "restore"
  /\ \A a \in at[c] : UpdateStatus(c, a, "active")
  /\ Proceed(c)
  /\ UNCHANGED <<rows, pollMu, running, stop, ctxDone, todo, snap>>

-----------------------------------------------------------------------------
(* What the rest of the process does to the pool. *)

\* SetActive by a rotation or from the dashboard; a 429 seen by the proxy.
OthersSetStatus(a) ==
  /\ status[a] # "gone"
  /\ \E s \in {"active", "exhausted"} : status' = [status EXCEPT ![a] = s]
  /\ UNCHANGED <<rows, pollMu, running, stop, pc, ctxDone, pass>>

DeleteAccount(a) ==
  /\ status[a] # "gone"
  /\ status' = [status EXCEPT ![a] = "gone"]
  /\ rows' = [rows EXCEPT ![a] = {}]
  /\ UNCHANGED <<pollMu, running, stop, pc, ctxDone, pass>>

\* Reset times are reached, all of one kind or some.
RowsLapse(a) ==
  /\ \E b \in {x \in rows[a] : x.reset = "ahead"} :
       \E kept \in {{}, {b}} :
         rows' = [rows EXCEPT ![a] = (@ \ {b}) \cup kept \cup {[b EXCEPT !.reset = "past"]}]
  /\ UNCHANGED <<status, pollMu, running, stop, pc, ctxDone, pass>>

-----------------------------------------------------------------------------
PollOnce(c) ==
  \/ Lock(c) \/ PastReset(c) \/ RestorePast(c) \/ List(c) \/ NextAccount(c)
  \/ Fetch(c) \/ MarkError(c) \/ MarkExhausted(c) \/ Consumer(c)
  \/ Delete(c) \/ Upsert(c) \/ RestoreFetched(c)

Daemon == Start \/ Tick \/ LoopEnds \/ Discover \/ Shutdown \/ Stop \/ StopReturns

Dashboard == \E c \in Refresher : Refresh(c) \/ ClientLeaves(c)

Others == \E a \in Account : OthersSetStatus(a) \/ DeleteAccount(a) \/ RowsLapse(a)

Next == (\E c \in Caller : PollOnce(c)) \/ Daemon \/ Dashboard \/ Others

Spec == Init /\ [][Next]_vars

\* The ticker keeps ticking, exchanges end (the HTTP client has a timeout), and a
\* sync.Mutex starves nobody.
FairSpec == Spec /\ WF_vars(Tick) /\ \A c \in Caller : SF_vars(PollOnce(c))

-----------------------------------------------------------------------------
\* Caller c's step is one that may restore an account.
Restores(c) ==
  \/ pc[c] = "restore_past" /\ todo'[c] # todo[c]
  \/ pc[c] = "restore" /\ pc'[c] = "next"

\* A pass restores only accounts that are spent, or that somebody else has put back:
\* one that a pass has found unusable stays so (challenger_m3_stress_test.go:277,
\* "disabled and error accounts must never auto-restore").
RevivesNoError ==
  [][\A c \in Caller, a \in Account :
       Restores(c) /\ status[a] = "error" => status'[a] = "error"]_vars

\* When prong 2 restores an account, the rows stored for it, the ones the proxy and
\* the dashboard will read, show quota in every bucket.
RestoredRowsAgree ==
  [][\A c \in Caller : \A a \in at[c] :
       pc[c] = "restore" /\ pc'[c] = "next" /\ status'[a] # status[a]
       => Restored(rows[a])]_vars

\* Once Stop has returned nil, the daemon's goroutines leave the database alone, also
\* the early discovery, which Stop does not wait for.
StoppedWritesNothing ==
  [][\A c \in Own : stop = "stopped" /\ pc'[c] # pc[c] => UNCHANGED pool]_vars

\* Unless the daemon is told to end, a spent account whose stored reset times are all past is
\* restored by some pass, even when upstream never answers, unless the rows change.
PastResetRestored ==
  \A a \in Account :
    running /\ status[a] = "exhausted" /\ AllPastReset(rows[a])
      ~> ctxDone["loop"] \/ status[a] # "exhausted" \/ ~AllPastReset(rows[a])

\* "A 429 is a model cooldown / 5-hour burst exhaustion" (poller.go:494) and "An account
\* is restored if all buckets satisfy either: 1. remainingFraction > 0.0 2. now >=
\* resetTime" (poller.go:798): a cooldown whose reset time is past is over.
CooldownRunsOut ==
  [][\A c \in Caller : \A a \in at[c] :
       pc[c] = "consumer" /\ Restored(rows[a]) => Restored(got'[c])]_vars
=============================================================================
