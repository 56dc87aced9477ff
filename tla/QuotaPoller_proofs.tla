------------------------- MODULE QuotaPoller_proofs -------------------------
(***************************************************************************)
(* The quota poller, for any accounts, dashboard requests and answers of   *)
(* upstream.                                                               *)
(***************************************************************************)
EXTENDS QuotaPoller, TLAPS

\* pollAccount is running.
Polling == {"fetch", "mark_error", "mark_exhausted", "consumer", "delete", "upsert", "restore"}

\* pollMu is held by the caller whose pass it is.
MutexOK == \A c \in Caller : pc[c] \in InPass <=> pollMu = c

\* There is one account to poll while pollAccount runs, and none at any other time.
AtOK == \A c \in Caller : IF pc[c] \in Polling THEN \E a \in Account : at[c] = {a}
                                               ELSE at[c] = {}

\* What a pass has still to restore was spent when it was listed and has not been found
\* unusable since: only the pass itself could have.
Listed(c) ==
  /\ pc[c] = "restore_past" => \A a \in todo[c] : status[a] # "error"
  /\ pc[c] \in Polling \cup {"next"} =>
       \A a \in todo[c] \cup at[c] : snap[c][a] = "exhausted" => status[a] # "error"
  /\ at[c] \cap todo[c] = {}
  /\ pc[c] = "restore" => \A a \in at[c] : snap[c][a] = "exhausted"

ListedOK == \A c \in Caller : Listed(c)

\* The stored rows are gone before the new ones are written, and the new ones are the
\* rows of an account about to be restored, unless it is deleted meanwhile.
Stored(c) ==
  \A a \in at[c] : /\ pc[c] = "upsert" /\ ~ctxDone[c] => rows[a] = {}
                   /\ pc[c] = "restore" => status[a] = "gone" \/ Restored(rows[a])

RowsOK == \A c \in Caller : Stored(c)

\* The loop and the early discovery are told to end together; Stop says that they have
\* been only after that.
StopOK ==
  /\ ctxDone["loop"] = ctxDone["discovery"]
  /\ running <=> pc["loop"] \notin {"new", "gone"}
  /\ pc["loop"] = "gone" => ctxDone["loop"]
  /\ stop = "stopped" => ctxDone["loop"]

PassOK == MutexOK /\ AtOK

IInv == TypeOK /\ PassOK /\ ListedOK /\ RowsOK /\ StopOK

-----------------------------------------------------------------------------
\* The initial states, in which nobody polls.
LEMMA InitOK == Init => IInv
<1> SUFFICES ASSUME Init PROVE IInv
  OBVIOUS
<1> USE PollerAssumption DEF Init
<1>1. TypeOK
  BY DEF TypeOK, Caller, Own, Pc, Status, NoSnap
<1>2. PassOK
  BY DEF PassOK, MutexOK, AtOK, Caller, Own, InPass, Polling
<1>3. ListedOK /\ RowsOK
  BY DEF ListedOK, Listed, RowsOK, Stored, Caller, Own, Polling
<1>4. StopOK
  BY DEF StopOK, Caller, Own
<1> QED
  BY <1>1, <1>2, <1>3, <1>4 DEF IInv

-----------------------------------------------------------------------------
\* What a pass knows of its own, and what it leaves behind when it returns.
PassTypeOK ==
  /\ pollMu \in Caller \cup {Free}
  /\ pc \in [Caller -> Pc]
  /\ ctxDone \in [Caller -> BOOLEAN]
  /\ todo \in [Caller -> SUBSET Account]
  /\ snap \in [Caller -> [Account -> Status \cup {"gone"}]]
  /\ at \in [Caller -> SUBSET Account]
  /\ got \in [Caller -> SUBSET Bucket]

\* The steps that end a pass, or the poll of one account, or go on.
LEMMA GotoTypes ==
  ASSUME pc \in [Caller -> Pc], NEW c \in Caller, NEW l \in Pc, Goto(c, l)
  PROVE  /\ pc' \in [Caller -> Pc] /\ pc'[c] = l
         /\ \A d \in Caller \ {c} : pc'[d] = pc[d]
BY DEF Goto

LEMMA ProceedTypes ==
  ASSUME PassTypeOK, NEW c \in Caller, Proceed(c)
  PROVE  /\ pc' \in [Caller -> Pc] /\ at' \in [Caller -> SUBSET Account]
         /\ got' \in [Caller -> SUBSET Bucket]
         /\ pc'[c] = "next" /\ at'[c] = {} /\ got'[c] = {}
         /\ \A d \in Caller \ {c} : pc'[d] = pc[d] /\ at'[d] = at[d] /\ got'[d] = got[d]
BY GotoTypes DEF Proceed, PassTypeOK, Pc, InPass, Goto

LEMMA ReturnTypes ==
  ASSUME PassTypeOK, NEW c \in Caller, Return(c)
  PROVE  /\ PassTypeOK'
         /\ pollMu' = Free /\ pc'[c] \in {"idle", "gone"} /\ todo'[c] = {}
         /\ ctxDone'[c] \in {FALSE, ctxDone[c]} /\ (c \in Own => ctxDone'[c] = ctxDone[c])
         /\ c = "loop" => pc'[c] = "idle"
         /\ at' = at
         /\ \A d \in Caller \ {c} :
              /\ ctxDone'[d] = ctxDone[d] /\ todo'[d] = todo[d] /\ snap'[d] = snap[d]
              /\ pc'[d] = pc[d] \/ (c = "loop" /\ d = "discovery" /\ pc[d] = "new"
                                    /\ pc'[d] = "idle")
<1> USE PollerAssumption DEF PassTypeOK, Return, Release
<1>1. pc' \in [Caller -> Pc]
  BY DEF Pc, Caller, Own
<1>2. /\ ctxDone' \in [Caller -> BOOLEAN]
      /\ ctxDone'[c] = (c \in Own /\ ctxDone[c])
      /\ \A d \in Caller \ {c} : ctxDone'[d] = ctxDone[d]
  OBVIOUS
<1>3. /\ todo' \in [Caller -> SUBSET Account] /\ todo'[c] = {}
      /\ \A d \in Caller \ {c} : todo'[d] = todo[d]
  OBVIOUS
<1>4. /\ snap' \in [Caller -> [Account -> Status \cup {"gone"}]]
      /\ \A d \in Caller \ {c} : snap'[d] = snap[d]
  BY DEF NoSnap
<1>5. /\ pc'[c] \in {"idle", "gone"} /\ (c = "loop" => pc'[c] = "idle")
      /\ \A d \in Caller \ {c} :
              pc'[d] = pc[d] \/ (c = "loop" /\ d = "discovery" /\ pc[d] = "new"
                                    /\ pc'[d] = "idle")
  BY DEF Caller, Own
<1> QED
  BY <1>1, <1>2, <1>3, <1>4, <1>5

-----------------------------------------------------------------------------
\* A pass keeps the types, step by step.
LEMMA PassTypes == ASSUME TypeOK, AtOK, NEW c \in Caller, PollOnce(c) PROVE TypeOK'
<1>0. PassTypeOK
  BY DEF TypeOK, PassTypeOK
<1> USE PollerAssumption DEF TypeOK, pool, pass
<1>1. CASE Lock(c)
  BY <1>1 DEF Lock, Acquire, Goto, Pc, InPass
<1>2. CASE PastReset(c)
  BY <1>2 DEF PastReset, Goto, Pc, InPass
<1>3. CASE RestorePast(c)
  <2>1. CASE todo[c] = {}
    BY <1>3, <2>1, GotoTypes DEF RestorePast, Pc, InPass
  <2>2. CASE todo[c] # {}
    <3>1. PICK a \in todo[c] : UpdateStatus(c, a, "active") /\ todo' = [todo EXCEPT ![c] = @ \ {a}]
      BY <1>3, <2>2 DEF RestorePast
    <3>2. /\ status' \in [Account -> Status \cup {"gone"}]
          /\ \A x \in Account : status'[x] = "gone" <=> status[x] = "gone"
      BY <3>1 DEF UpdateStatus, Status
    <3>3. todo' \in [Caller -> SUBSET Account]
      BY <3>1
    <3> QED
      BY <1>3, <2>2, <3>2, <3>3 DEF RestorePast
  <2> QED
    BY <2>1, <2>2
<1>4. CASE List(c)
  <2>1. CASE ctxDone[c]
    BY <1>0, <1>4, <2>1, ReturnTypes DEF List, PassTypeOK
  <2>2. CASE ~ctxDone[c]
    <3>1. /\ todo' = [todo EXCEPT ![c] = {a \in Account : status[a] # "gone"}]
          /\ snap' = [snap EXCEPT ![c] = status] /\ Goto(c, "next")
          /\ UNCHANGED <<pollMu, ctxDone, at, got, pool, running, stop>>
      BY <1>4, <2>2 DEF List
    <3>2. /\ todo' \in [Caller -> SUBSET Account]
          /\ snap' \in [Caller -> [Account -> Status \cup {"gone"}]]
      BY <3>1
    <3>3. pc' \in [Caller -> Pc]
      BY <3>1, GotoTypes DEF Pc, InPass
    <3> QED
      BY <3>1, <3>2, <3>3
  <2> QED
    BY <2>1, <2>2
<1>5. CASE NextAccount(c)
  <2>1. CASE ctxDone[c] \/ todo[c] = {}
    BY <1>0, <1>5, <2>1, ReturnTypes DEF NextAccount, PassTypeOK
  <2>2. CASE ~(ctxDone[c] \/ todo[c] = {})
    <3>1. PICK a \in todo[c] : at' = [at EXCEPT ![c] = {a}] /\ todo' = [todo EXCEPT ![c] = @ \ {a}]
      BY <1>5, <2>2 DEF NextAccount
    <3>2. at' \in [Caller -> SUBSET Account] /\ todo' \in [Caller -> SUBSET Account]
      BY <3>1
    <3>3. pc' \in [Caller -> Pc]
      BY <1>5, <2>2, GotoTypes DEF NextAccount, Pc, InPass
    <3> QED
      BY <1>5, <2>2, <3>2, <3>3 DEF NextAccount
  <2> QED
    BY <2>1, <2>2
<1>6. CASE Fetch(c)
  <2>1. CASE Proceed(c)
    BY <1>0, <1>6, <2>1, ProceedTypes DEF Fetch
  <2>2. CASE ~Proceed(c)
    <3>1. /\ \E l \in {"delete", "mark_error", "mark_exhausted", "consumer"} : Goto(c, l)
          /\ at' = at
      BY <1>6, <2>2 DEF Fetch
    <3>2. UNCHANGED got \/ \E v \in Answers : got' = [got EXCEPT ![c] = v]
      BY <1>6, <2>2 DEF Fetch
    <3>3. got' \in [Caller -> SUBSET Bucket]
      BY <3>2
    <3>4. pc' \in [Caller -> Pc]
      BY <3>1, GotoTypes DEF Pc, InPass
    <3> QED
      BY <1>6, <3>1, <3>3, <3>4 DEF Fetch
  <2> QED
    BY <2>1, <2>2
<1>7. CASE pc[c] \in Polling \ {"fetch"}
  <2>1. PICK a \in Account : at[c] = {a}
    BY <1>7 DEF AtOK
  <2>2. CASE MarkError(c) \/ MarkExhausted(c) \/ RestoreFetched(c)
    <3>1. \E s \in Status : UpdateStatus(c, a, s)
      BY <2>1, <2>2 DEF MarkError, MarkExhausted, RestoreFetched, Status
    <3>2. /\ status' \in [Account -> Status \cup {"gone"}]
          /\ \A x \in Account : status'[x] = "gone" <=> status[x] = "gone"
      BY <3>1 DEF UpdateStatus, Status
    <3>3. Proceed(c)
      BY <2>2 DEF MarkError, MarkExhausted, RestoreFetched
    <3> QED
      BY <1>0, <2>2, <3>2, <3>3, ProceedTypes DEF MarkError, MarkExhausted, RestoreFetched
  <2>3. CASE Consumer(c)
    <3>1. got' = [got EXCEPT ![c] = ConsumerBuckets(snap[c][a])]
      BY <2>1, <2>3 DEF Consumer
    <3>2. ConsumerBuckets(snap[c][a]) \in SUBSET Bucket
      BY DEF ConsumerBuckets, Bucket
    <3> QED
      BY <2>3, <3>1, <3>2 DEF Consumer, Goto, Pc, InPass
  <2>4. CASE Delete(c)
    <3>1. DeleteByAccountID(c, a)
      BY <2>1, <2>4 DEF Delete
    <3>2. /\ rows' \in [Account -> SUBSET Bucket]
          /\ \A x \in Account : rows[x] = {} => rows'[x] = {}
      BY <3>1 DEF DeleteByAccountID
    <3>3. pc' \in [Caller -> Pc]
      BY <2>4, GotoTypes DEF Delete, Pc, InPass
    <3> QED
      BY <2>4, <3>2, <3>3 DEF Delete
  <2>5. CASE Upsert(c)
    <3>1. CASE UpsertFails(c, a)
      BY <1>0, <2>1, <2>5, <3>1, ProceedTypes DEF Upsert
    <3>2. CASE ~UpsertFails(c, a)
      <4>1. status[a] # "gone"
        BY <3>2 DEF UpsertFails
      <4>2. PICK kept \in SUBSET rows[a] : rows' = [rows EXCEPT ![a] = got[c] \cup kept]
        BY <2>1, <2>5, <3>2 DEF Upsert
      <4>3. rows' \in [Account -> SUBSET Bucket]
        BY <4>2
      <4>4. Proceed(c) \/ (Goto(c, "restore") /\ UNCHANGED <<at, got>>)
        BY <2>1, <2>5, <3>2 DEF Upsert
      <4>5. /\ pc' \in [Caller -> Pc] /\ at' \in [Caller -> SUBSET Account]
            /\ got' \in [Caller -> SUBSET Bucket]
        BY <1>0, <4>4, ProceedTypes, GotoTypes DEF Pc, InPass
      <4> QED
        BY <2>5, <4>1, <4>2, <4>3, <4>5 DEF Upsert
    <3> QED
      BY <3>1, <3>2
  <2> QED
    BY <1>7, <2>2, <2>3, <2>4, <2>5, <1>1, <1>2, <1>3, <1>4, <1>5, <1>6
       DEF PollOnce
<1>8. CASE pc[c] \notin Polling \ {"fetch"}
  BY <1>8, <1>1, <1>2, <1>3, <1>4, <1>5, <1>6
     DEF PollOnce, MarkError, MarkExhausted, Consumer, Delete, Upsert, RestoreFetched, Polling
<1> QED
  BY <1>7, <1>8


-----------------------------------------------------------------------------
\* A step of c's pass other than its return, as the other callers see it.
GoesOn(c) ==
  /\ \/ pc[c] = "lock" /\ pc'[c] = "past_reset" /\ pollMu = Free /\ pollMu' = c
     \/ pc[c] \in InPass /\ pc'[c] \in InPass /\ pollMu' = pollMu
  /\ UNCHANGED <<ctxDone, running, stop>>
  /\ \A d \in Caller \ {c} :
       pc'[d] = pc[d] /\ todo'[d] = todo[d] /\ snap'[d] = snap[d] /\ at'[d] = at[d]

\* Its return.
Comes(c) ==
  /\ pc[c] \in {"list", "next"} /\ Return(c)
  /\ UNCHANGED <<pool, running, stop>>

\* A step of a pass is one or the other.
LEMMA PassMoves ==
  ASSUME TypeOK, AtOK, NEW c \in Caller, PollOnce(c) PROVE GoesOn(c) \/ Comes(c)
<1>0. PassTypeOK
  BY DEF TypeOK, PassTypeOK
<1> USE PollerAssumption DEF TypeOK, pool, pass
<1>1. CASE Lock(c)
  BY <1>1, GotoTypes DEF Lock, Acquire, Pc, InPass, GoesOn
<1>2. CASE PastReset(c)
  BY <1>2, GotoTypes DEF PastReset, Pc, InPass, GoesOn
<1>3. CASE RestorePast(c)
  <2>1. CASE todo[c] = {}
    BY <1>3, <2>1, GotoTypes DEF RestorePast, Pc, InPass, GoesOn
  <2>2. CASE todo[c] # {}
    BY <1>3, <2>2 DEF RestorePast, InPass, GoesOn
  <2> QED
    BY <2>1, <2>2
<1>4. CASE List(c)
  <2>1. CASE ctxDone[c]
    BY <1>4, <2>1 DEF List, Comes
  <2>2. CASE ~ctxDone[c]
    <3>1. /\ Goto(c, "next") /\ UNCHANGED <<pollMu, ctxDone, at, running, stop>>
          /\ \A d \in Caller \ {c} : todo'[d] = todo[d] /\ snap'[d] = snap[d]
      BY <1>4, <2>2 DEF List
    <3> QED
      BY <1>4, <3>1, GotoTypes DEF List, Pc, InPass, GoesOn
  <2> QED
    BY <2>1, <2>2
<1>5. CASE NextAccount(c)
  <2>1. CASE ctxDone[c] \/ todo[c] = {}
    BY <1>5, <2>1 DEF NextAccount, Comes
  <2>2. CASE ~(ctxDone[c] \/ todo[c] = {})
    <3>1. /\ Goto(c, "fetch") /\ UNCHANGED <<pollMu, ctxDone, snap, running, stop>>
          /\ \A d \in Caller \ {c} : todo'[d] = todo[d] /\ at'[d] = at[d]
      BY <1>5, <2>2 DEF NextAccount
    <3> QED
      BY <1>5, <3>1, GotoTypes DEF NextAccount, Pc, InPass, GoesOn
  <2> QED
    BY <2>1, <2>2
<1>6. ASSUME pc[c] \in InPass, UNCHANGED <<pollMu, ctxDone, running, stop, todo, snap>>,
             \/ Proceed(c)
             \/ (\E l \in InPass : Goto(c, l)) /\ at' = at
      PROVE  GoesOn(c)
  BY <1>0, <1>6, GotoTypes, ProceedTypes DEF Pc, InPass, GoesOn
<1>7. CASE Fetch(c)
  BY <1>6, <1>7 DEF Fetch, InPass
<1>8. CASE pc[c] \in Polling \ {"fetch"}
  <2>1. PICK a \in Account : at[c] = {a}
    BY <1>8 DEF AtOK
  <2> QED
    BY <1>6, <1>8, <2>1 DEF PollOnce, Lock, PastReset, RestorePast, List, NextAccount, Fetch,
         MarkError, MarkExhausted, Consumer, Delete, Upsert, RestoreFetched, InPass, Polling
<1> QED
  BY <1>1, <1>2, <1>3, <1>4, <1>5, <1>7, <1>8
     DEF PollOnce, MarkError, MarkExhausted, Consumer, Delete, Upsert, RestoreFetched, Polling

\* Passes keep the mutex, and stay between Start and Stop.
LEMMA PassKeeps ==
  ASSUME TypeOK, PassOK, StopOK, NEW c \in Caller, PollOnce(c) PROVE MutexOK' /\ StopOK'
<1>0. PassTypeOK /\ TypeOK'
  BY PassTypes DEF TypeOK, PassTypeOK, PassOK
<1> USE PollerAssumption DEF MutexOK, PassOK
<1>1. CASE GoesOn(c)
  <2>1. MutexOK'
    BY <1>0, <1>1 DEF GoesOn, TypeOK, InPass, Caller, Own
  <2>2. \/ pc'["loop"] = pc["loop"]
        \/ pc'["loop"] \notin {"new", "gone"} /\ pc["loop"] \notin {"new", "gone"}
    <3>1. CASE c = "loop"
      BY <1>1, <3>1 DEF GoesOn, InPass
    <3>2. CASE c # "loop"
      BY <1>1, <3>2 DEF GoesOn, Caller, Own
    <3> QED
      BY <3>1, <3>2
  <2>3. StopOK'
    BY <1>1, <2>2 DEF StopOK, GoesOn, InPass
  <2> QED
    BY <2>1, <2>3
<1>2. CASE Comes(c)
  <2>1. pollMu = c
    BY <1>2 DEF Comes, InPass
  <2>0. /\ pollMu' = Free /\ pc'[c] \in {"idle", "gone"} /\ (c = "loop" => pc'[c] = "idle")
        /\ c \in Own => ctxDone'[c] = ctxDone[c]
        /\ \A d \in Caller \ {c} :
             /\ ctxDone'[d] = ctxDone[d]
             /\ pc'[d] = pc[d] \/ (d = "discovery" /\ pc'[d] = "idle")
    BY <1>0, <1>2, ReturnTypes DEF Comes
  <2>2. MutexOK'
    <3> SUFFICES ASSUME NEW d \in Caller PROVE pc'[d] \notin InPass /\ pollMu' # d
      OBVIOUS
    <3>1. pollMu' # d
      BY <2>0 DEF Caller, Own
    <3>2. pc'[d] \notin InPass
      BY <2>0, <2>1 DEF InPass
    <3> QED
      BY <3>1, <3>2
  <2>3. StopOK'
    <3>1. /\ ctxDone'["loop"] = ctxDone["loop"] /\ ctxDone'["discovery"] = ctxDone["discovery"]
          /\ UNCHANGED <<running, stop>>
      BY <1>2, <2>0 DEF Comes, Caller, Own
    <3>2. \/ pc'["loop"] = pc["loop"]
          \/ pc'["loop"] \notin {"new", "gone"} /\ pc["loop"] \notin {"new", "gone"}
      <4>1. CASE c = "loop"
        BY <1>2, <2>0, <4>1 DEF Comes
      <4>2. CASE c # "loop"
        BY <2>0, <4>2 DEF Caller, Own
      <4> QED
        BY <4>1, <4>2
    <3> QED
      BY <3>1, <3>2 DEF StopOK
  <2> QED
    BY <2>2, <2>3
<1> QED
  BY <1>1, <1>2, PassMoves

\* While c's pass makes a step, no other caller has one.
LEMMA OthersKeep ==
  ASSUME TypeOK, PassOK, ListedOK, NEW c \in Caller, PollOnce(c), NEW d \in Caller \ {c}
  PROVE  pc'[d] \notin InPass /\ at'[d] = {} /\ Listed(d)'
<1>0. PassTypeOK
  BY DEF TypeOK, PassTypeOK
<1>1. at'[d] = at[d] /\ pc'[d] \in {pc[d], "idle"}
  <2>1. CASE GoesOn(c)
    BY <2>1 DEF GoesOn
  <2>2. CASE Comes(c)
    BY <1>0, <2>2, ReturnTypes DEF Comes
  <2> QED
    BY <2>1, <2>2, PassMoves DEF PassOK
<1>2. pc[d] \notin InPass
  BY PassMoves, PollerAssumption DEF PassOK, MutexOK, GoesOn, Comes, InPass, Caller, Own
<1> QED
  BY <1>1, <1>2 DEF PassOK, AtOK, ListedOK, Listed, Polling, InPass

\* What a pass knows of the list it works through and of the rows it stores.
OwnOK(c) == /\ IF pc[c] \in Polling THEN \E a \in Account : at[c] = {a} ELSE at[c] = {}
            /\ Listed(c) /\ Stored(c)

\* The poll of an account ends: the pass goes on with the rest of its list.
LEMMA ProceedKeeps ==
  ASSUME TypeOK, NEW c \in Caller, Listed(c), pc[c] \in Polling,
         Proceed(c), UNCHANGED <<todo, snap>>,
         \A a \in Account : status'[a] = "error" => status[a] = "error" \/ a \in at[c]
  PROVE  OwnOK(c)'
<1>1. pc'[c] = "next" /\ at'[c] = {}
  BY ProceedTypes DEF TypeOK, PassTypeOK
<1> QED
  BY <1>1 DEF OwnOK, Listed, Stored, Polling, TypeOK

\* The pass keeps it.
LEMMA OwnKeeps ==
  ASSUME TypeOK, PassOK, NEW c \in Caller, OwnOK(c), PollOnce(c) PROVE OwnOK(c)'
<1>0. PassTypeOK
  BY DEF TypeOK, PassTypeOK
<1> USE PollerAssumption DEF TypeOK, pool, pass, OwnOK, Listed, Stored, Polling
<1>1. CASE Lock(c)
  BY <1>1, GotoTypes DEF Lock, Pc, InPass
<1>2. CASE PastReset(c)
  <2>1. pc'[c] = "restore_past" /\ UNCHANGED <<status, at>>
    BY <1>2, GotoTypes DEF PastReset, Pc, InPass
  <2>2. \A a \in todo'[c] : status[a] = "exhausted"
    BY <1>2 DEF PastReset
  <2>3. at'[c] = {}
    BY <1>2, <2>1 DEF PastReset
  <2> QED
    BY <2>1, <2>2, <2>3
<1>3. CASE RestorePast(c)
  <2>1. CASE todo[c] = {}
    BY <1>3, <2>1, GotoTypes DEF RestorePast, Pc, InPass
  <2>2. CASE todo[c] # {}
    <3>1. PICK a \in todo[c] : UpdateStatus(c, a, "active") /\ todo' = [todo EXCEPT ![c] = @ \ {a}]
      BY <1>3, <2>2 DEF RestorePast
    <3>2. \A x \in Account : status'[x] = "error" => status[x] = "error"
      BY <3>1 DEF UpdateStatus
    <3> QED
      BY <1>3, <2>2, <3>1, <3>2 DEF RestorePast
  <2> QED
    BY <2>1, <2>2
<1>4. CASE List(c)
  <2>1. CASE ctxDone[c]
    <3>1. Return(c) /\ at[c] = {}
      BY <1>4, <2>1 DEF List
    <3>2. at'[c] = {} /\ pc'[c] \in {"idle", "gone"}
      BY <1>0, <3>1, ReturnTypes
    <3> QED
      BY <3>2
  <2>2. CASE ~ctxDone[c]
    <3>1. /\ todo'[c] = {a \in Account : status[a] # "gone"} /\ snap'[c] = status
          /\ UNCHANGED <<at, status>>
      BY <1>4, <2>2 DEF List
    <3>2. pc'[c] = "next"
      BY <1>4, <2>2, GotoTypes DEF List, Pc, InPass
    <3>3. at'[c] = {}
      BY <1>4, <3>1 DEF List
    <3> QED
      BY <3>1, <3>2, <3>3
  <2> QED
    BY <2>1, <2>2
<1>5. CASE NextAccount(c)
  <2>1. CASE ctxDone[c] \/ todo[c] = {}
    <3>1. Return(c) /\ at[c] = {}
      BY <1>5, <2>1 DEF NextAccount
    <3>2. at'[c] = {} /\ pc'[c] \in {"idle", "gone"}
      BY <1>0, <3>1, ReturnTypes
    <3> QED
      BY <3>2
  <2>2. CASE ~(ctxDone[c] \/ todo[c] = {})
    <3>1. PICK a \in todo[c] : at' = [at EXCEPT ![c] = {a}] /\ todo' = [todo EXCEPT ![c] = @ \ {a}]
      BY <1>5, <2>2 DEF NextAccount
    <3>2. pc'[c] = "fetch" /\ UNCHANGED <<snap, status>>
      BY <1>5, <2>2, GotoTypes DEF NextAccount, Pc, InPass
    <3>3. at'[c] = {a} /\ todo'[c] = todo[c] \ {a}
      BY <3>1
    <3>4. \A x \in todo[c] : snap[c][x] = "exhausted" => status[x] # "error"
      BY <1>5 DEF NextAccount
    <3> QED
      BY <3>1, <3>2, <3>3, <3>4
  <2> QED
    BY <2>1, <2>2
<1>6. CASE Fetch(c)
  <2>1. CASE Proceed(c)
    BY <1>6, <2>1, ProceedKeeps DEF Fetch
  <2>2. CASE ~Proceed(c)
    <3>1. pc'[c] \in {"delete", "mark_error", "mark_exhausted", "consumer"} /\ at' = at
      BY <1>6, <2>2, GotoTypes DEF Fetch, Pc, InPass
    <3> QED
      BY <1>6, <3>1 DEF Fetch
  <2> QED
    BY <2>1, <2>2
<1>7. CASE pc[c] \in Polling \ {"fetch"}
  <2>1. PICK a \in Account : at[c] = {a}
    BY <1>7
  <2>2. CASE MarkError(c) \/ MarkExhausted(c) \/ RestoreFetched(c)
    <3>1. /\ \E s \in Status : UpdateStatus(c, a, s)
          /\ Proceed(c) /\ UNCHANGED <<todo, snap>>
      BY <2>1, <2>2 DEF MarkError, MarkExhausted, RestoreFetched, Status
    <3>2. \A x \in Account : status'[x] = "error" => status[x] = "error" \/ x \in at[c]
      BY <2>1, <3>1 DEF UpdateStatus
    <3> QED
      BY <1>7, <3>1, <3>2, ProceedKeeps
  <2>3. CASE Consumer(c)
    <3>1. pc'[c] = "delete"
      BY <2>3, GotoTypes DEF Consumer, Pc, InPass
    <3> QED
      BY <2>3, <3>1 DEF Consumer
  <2>4. CASE Delete(c)
    <3>1. pc'[c] = "upsert" /\ UNCHANGED <<status, ctxDone, at>>
      BY <2>4, GotoTypes DEF Delete, Pc, InPass
    <3>2. ctxDone[c] \/ rows'[a] = {}
      BY <2>1, <2>4 DEF Delete, DeleteByAccountID
    <3> QED
      BY <2>1, <2>4, <3>1, <3>2 DEF Delete
  <2>5. CASE Upsert(c)
    <3>1. CASE Proceed(c)
      BY <1>7, <2>5, <3>1, ProceedKeeps DEF Upsert
    <3>2. CASE ~Proceed(c)
      <4>1. ~UpsertFails(c, a)
        BY <2>1, <2>5, <3>2 DEF Upsert
      <4>2. /\ \E kept \in SUBSET rows[a] : rows' = [rows EXCEPT ![a] = got[c] \cup kept]
            /\ snap[c][a] = "exhausted" /\ Restored(got[c])
            /\ Goto(c, "restore") /\ UNCHANGED at
        BY <2>1, <2>5, <3>2, <4>1 DEF Upsert
      <4>3. rows[a] = {}
        BY <2>1, <2>5, <4>1 DEF Upsert, UpsertFails
      <4>4. rows'[a] = got[c]
        BY <4>2, <4>3
      <4>5. pc'[c] = "restore"
        BY <4>2, GotoTypes DEF Pc, InPass
      <4> QED
        BY <2>1, <2>5, <4>2, <4>4, <4>5 DEF Upsert, Restored
    <3> QED
      BY <3>1, <3>2
  <2> QED
    BY <1>7, <2>2, <2>3, <2>4, <2>5, <1>1, <1>2, <1>3, <1>4, <1>5, <1>6
       DEF PollOnce
<1>8. CASE pc[c] \notin Polling \ {"fetch"}
  BY <1>8, <1>1, <1>2, <1>3, <1>4, <1>5, <1>6
     DEF PollOnce, MarkError, MarkExhausted, Consumer, Delete, Upsert, RestoreFetched
<1> QED
  BY <1>7, <1>8

\* A step of a pass keeps the invariant.
LEMMA PassStep == ASSUME IInv, NEW c \in Caller, PollOnce(c) PROVE IInv'
<1>1. TypeOK' /\ MutexOK' /\ StopOK'
  BY PassTypes, PassKeeps DEF IInv, PassOK
<1>2. OwnOK(c)'
  BY OwnKeeps DEF IInv, PassOK, AtOK, ListedOK, RowsOK, OwnOK
<1>3. ASSUME NEW d \in Caller \ {c} PROVE OwnOK(d)'
  <2>1. pc'[d] \notin InPass /\ at'[d] = {} /\ Listed(d)'
    BY OthersKeep DEF IInv
  <2> QED
    BY <2>1 DEF OwnOK, Stored, Polling, InPass
<1> QED
  BY <1>1, <1>2, <1>3 DEF IInv, PassOK, AtOK, ListedOK, RowsOK, OwnOK

\* The daemon and the dashboard start passes and cancel contexts; the pool and what the
\* passes know are left alone.
LEMMA DaemonStep == ASSUME IInv, Daemon \/ Dashboard PROVE IInv'
<1> USE PollerAssumption DEF pass, pool
<1>1. /\ UNCHANGED <<status, rows, pollMu, todo, snap, at, got>>
      /\ pc' \in [Caller -> Pc]
      /\ \A c \in Caller : pc'[c] = pc[c]
                             \/ (pc[c] \in {"new", "idle"} /\ pc'[c] \in {"lock", "gone"})
      /\ ctxDone' \in [Caller -> BOOLEAN]
      /\ \A c \in Caller : ctxDone[c] => ctxDone'[c]
  BY DEF Daemon, Dashboard, Start, Tick, LoopEnds, Discover, Shutdown, Stop, StopReturns,
         Refresh, ClientLeaves, Cancel, Goto, IInv, TypeOK, Pc, InPass, Caller, Own
<1>2. running' \in BOOLEAN /\ stop' \in {"idle", "waiting", "stopped", "timed_out"}
  BY DEF Daemon, Dashboard, Start, Tick, LoopEnds, Discover, Shutdown, Stop, StopReturns,
         Refresh, ClientLeaves, IInv, TypeOK
<1>3. StopOK'
  BY DEF Daemon, Dashboard, Start, Tick, LoopEnds, Discover, Shutdown, Stop, StopReturns,
         Refresh, ClientLeaves, Cancel, Goto, IInv, TypeOK, StopOK, Caller, Own
<1>4. TypeOK'
  BY <1>1, <1>2 DEF IInv, TypeOK
<1>5. PassOK'
  BY <1>1 DEF IInv, PassOK, MutexOK, AtOK, Polling, InPass
<1>6. ListedOK'
  BY <1>1 DEF IInv, ListedOK, Listed, Polling
<1>7. RowsOK'
  BY <1>1 DEF IInv, RowsOK, Stored
<1> QED
  BY <1>3, <1>4, <1>5, <1>6, <1>7 DEF IInv

\* So does what the rest of the process does to the pool.
LEMMA OthersStep == ASSUME IInv, Others PROVE IInv'
<1> USE DEF pass, pool
<1>1. PICK a \in Account : OthersSetStatus(a) \/ DeleteAccount(a) \/ RowsLapse(a)
  BY DEF Others
<1>2. UNCHANGED <<pollMu, running, stop, pc, ctxDone, todo, snap, at, got>>
  BY <1>1 DEF OthersSetStatus, DeleteAccount, RowsLapse
<1>3. /\ status' \in [Account -> Status \cup {"gone"}]
      /\ \A x \in Account : status'[x] = "error" => status[x] = "error"
      /\ \A x \in Account : status[x] = "gone" => status'[x] = "gone"
  BY <1>1 DEF OthersSetStatus, DeleteAccount, RowsLapse, IInv, TypeOK, Status
<1>4. /\ rows' \in [Account -> SUBSET Bucket]
      /\ \A x \in Account : rows[x] = {} => rows'[x] = {}
      /\ \A x \in Account : status'[x] = "gone" => rows'[x] = {}
      /\ \A x \in Account : Restored(rows[x]) => Restored(rows'[x]) \/ status'[x] = "gone"
  <2>1. CASE OthersSetStatus(a) \/ DeleteAccount(a)
    BY <2>1 DEF OthersSetStatus, DeleteAccount, IInv, TypeOK
  <2>2. CASE RowsLapse(a)
    <3>0. PICK b \in {x \in rows[a] : x.reset = "ahead"} :
            \E kept \in {{}, {b}} :
              rows' = [rows EXCEPT ![a] = (@ \ {b}) \cup kept \cup {[b EXCEPT !.reset = "past"]}]
      BY <2>2 DEF RowsLapse
    <3>1. PICK kept \in {{}, {b}} :
            rows' = [rows EXCEPT ![a] = (@ \ {b}) \cup kept \cup {[b EXCEPT !.reset = "past"]}]
      BY <3>0
    <3>2. b \in Bucket /\ [b EXCEPT !.reset = "past"] \in Bucket /\ kept \subseteq rows[a]
      BY <3>1 DEF IInv, TypeOK, Bucket
    <3>3. rows' \in [Account -> SUBSET Bucket]
      BY <3>1, <3>2 DEF IInv, TypeOK
    <3>4. [b EXCEPT !.reset = "past"].reset = "past"
      BY <3>2 DEF Bucket
    <3>5. ASSUME Restored(rows[a]) PROVE Restored(rows'[a])
      BY <3>1, <3>2, <3>4, <3>5 DEF IInv, TypeOK, Restored
    <3>6. UNCHANGED status /\ status[a] # "gone" /\ \A x \in Account \ {a} : rows'[x] = rows[x]
      BY <2>2, <3>1 DEF RowsLapse, IInv, TypeOK
    <3> QED
      BY <3>1, <3>3, <3>5, <3>6 DEF IInv, TypeOK
  <2> QED
    BY <1>1, <2>1, <2>2
<1>5. TypeOK'
  BY <1>2, <1>3, <1>4 DEF IInv, TypeOK
<1>6. PassOK' /\ StopOK'
  BY <1>2 DEF IInv, PassOK, MutexOK, AtOK, StopOK
<1>7. ListedOK'
  BY <1>2, <1>3 DEF IInv, TypeOK, ListedOK, Listed
<1>8. RowsOK'
  BY <1>2, <1>3, <1>4 DEF IInv, TypeOK, RowsOK, Stored
<1> QED
  BY <1>5, <1>6, <1>7, <1>8 DEF IInv

\* Every step keeps the invariant.
LEMMA IInvStep == IInv /\ [Next]_vars => IInv'
<1> SUFFICES ASSUME IInv, [Next]_vars PROVE IInv'
  OBVIOUS
<1>1. CASE UNCHANGED vars
  BY <1>1 DEF vars, pool, pass, IInv, TypeOK, PassOK, MutexOK, AtOK, ListedOK, Listed, RowsOK,
              Stored, StopOK
<1>2. CASE Next
  BY <1>2, PassStep, DaemonStep, OthersStep DEF Next
<1> QED
  BY <1>1, <1>2

\* It holds all along.
LEMMA Invariant == Spec => []IInv
BY InitOK, IInvStep, PTL DEF Spec

-----------------------------------------------------------------------------
\* Every variable keeps its type, and a deleted account has no rows.
THEOREM TypeCorrect == Spec => []TypeOK
<1>1. IInv => TypeOK
  BY DEF IInv
<1> QED
  BY <1>1, Invariant, PTL

\* PollOnce: pollMu admits one pass at a time.
THEOREM PassesExclude ==
  Spec => [](\A c, d \in Caller : pc[c] \in InPass /\ pc[d] \in InPass => c = d)
<1>1. IInv => \A c, d \in Caller : pc[c] \in InPass /\ pc[d] \in InPass => c = d
  BY DEF IInv, PassOK, MutexOK
<1> QED
  BY <1>1, Invariant, PTL

-----------------------------------------------------------------------------
\* Only the caller itself takes the steps by which its pass restores accounts.
LEMMA RestoringStep ==
  ASSUME IInv, Next, NEW c \in Caller,
         (pc[c] = "restore_past" /\ todo'[c] # todo[c]) \/ (pc[c] = "restore" /\ pc'[c] # pc[c])
  PROVE  RestorePast(c) \/ RestoreFetched(c)
<1> USE PollerAssumption
<1>1. pc[c] \in InPass
  BY DEF InPass
<1>2. PollOnce(c)
  <2>1. ASSUME NEW d \in Caller \ {c}, PollOnce(d) PROVE FALSE
    <3>1. pollMu = c
      BY <1>1 DEF IInv, PassOK, MutexOK
    <3>2. GoesOn(d) \/ Comes(d)
      BY <2>1, PassMoves DEF IInv, PassOK
    <3> QED
      BY <3>1, <3>2 DEF IInv, PassOK, MutexOK, GoesOn, Comes, InPass, Caller, Own
  <2>2. ASSUME Daemon \/ Dashboard \/ Others PROVE FALSE
    <3>1. todo' = todo /\ (pc'[c] = pc[c] \/ pc[c] \notin InPass)
      BY <2>2 DEF Daemon, Dashboard, Others, Start, Tick, LoopEnds, Discover, Shutdown, Stop,
           StopReturns, Refresh, ClientLeaves, OthersSetStatus, DeleteAccount, RowsLapse, Goto,
           pass, InPass, IInv, TypeOK, Caller, Own
    <3> QED
      BY <1>1, <3>1
  <2> QED
    BY <2>1, <2>2 DEF Next
<1> QED
  BY <1>2 DEF PollOnce, Lock, PastReset, List, NextAccount, Fetch, MarkError, MarkExhausted,
              Consumer, Delete, Upsert

\* challenger_m3_stress_test.go:277: an account that a pass has found unusable is not
\* restored, by prong 1 or prong 2, unless somebody else has put it back.
THEOREM ErrorsStay == Spec => RevivesNoError
<1>1. ASSUME IInv, Next, NEW c \in Caller, NEW a \in Account, Restores(c), status[a] = "error"
      PROVE  status'[a] = "error"
  <2>1. CASE pc[c] = "restore_past"
    <3>1. RestorePast(c) /\ todo'[c] # todo[c]
      BY <1>1, <2>1, RestoringStep DEF Restores, RestoreFetched
    <3>2. PICK x \in todo[c] : UpdateStatus(c, x, "active")
      BY <3>1 DEF RestorePast
    <3>3. status[x] # "error" /\ x \in Account
      BY <1>1, <2>1 DEF IInv, TypeOK, ListedOK, Listed
    <3> QED
      BY <1>1, <3>2, <3>3 DEF UpdateStatus, IInv, TypeOK
  <2>2. CASE pc[c] = "restore"
    <3>1. RestoreFetched(c)
      BY <1>1, <2>2, RestoringStep DEF Restores, RestorePast
    <3>2. PICK x \in Account : at[c] = {x}
      BY <1>1, <2>2 DEF IInv, PassOK, AtOK, Polling
    <3>3. UpdateStatus(c, x, "active")
      BY <3>1, <3>2 DEF RestoreFetched
    <3>4. status[x] # "error"
      BY <1>1, <2>2, <3>2 DEF IInv, ListedOK, Listed, Polling
    <3> QED
      BY <1>1, <3>3, <3>4 DEF UpdateStatus, IInv, TypeOK
  <2> QED
    BY <1>1, <2>1, <2>2 DEF Restores
<1>2. IInv /\ [Next]_vars =>
        [\A c \in Caller, a \in Account :
           Restores(c) /\ status[a] = "error" => status'[a] = "error"]_vars
  BY <1>1
<1> QED
  BY <1>2, Invariant, PTL DEF Spec, RevivesNoError

\* poller.go:798: when prong 2 restores an account, every bucket stored for it has quota
\* left or is past its reset time.
THEOREM RestoresAgree == Spec => RestoredRowsAgree
<1>1. ASSUME IInv, Next, NEW c \in Caller, NEW a \in at[c],
             pc[c] = "restore", pc'[c] = "next", status'[a] # status[a]
      PROVE  Restored(rows[a])
  <2>1. RestoreFetched(c)
    BY <1>1, RestoringStep DEF RestorePast
  <2>2. at[c] = {a} /\ a \in Account
    BY <1>1 DEF IInv, PassOK, AtOK, Polling
  <2>3. UpdateStatus(c, a, "active")
    BY <2>1, <2>2 DEF RestoreFetched
  <2>4. status[a] # "gone"
    BY <1>1, <2>3 DEF UpdateStatus
  <2> QED
    BY <1>1, <2>4 DEF IInv, RowsOK, Stored
<1>2. IInv /\ [Next]_vars =>
        [\A c \in Caller : \A a \in at[c] :
           pc[c] = "restore" /\ pc'[c] = "next" /\ status'[a] # status[a]
           => Restored(rows[a])]_vars
  BY <1>1
<1> QED
  BY <1>2, Invariant, PTL DEF Spec, RestoredRowsAgree

-----------------------------------------------------------------------------
\* With its context done, a pass writes nothing any more.
LEMMA DoneWritesNothing ==
  ASSUME IInv, NEW c \in Caller, ctxDone[c], PollOnce(c) PROVE UNCHANGED pool
<1> USE DEF pool
<1>1. CASE pc[c] \in Polling
  <2>1. PICK a \in Account : at[c] = {a}
    BY <1>1 DEF IInv, PassOK, AtOK
  <2> QED
    BY <1>1, <2>1 DEF PollOnce, Lock, PastReset, RestorePast, List, NextAccount, Fetch,
         MarkError, MarkExhausted, Consumer, Delete, Upsert, RestoreFetched, UpdateStatus,
         DeleteByAccountID, UpsertFails, Polling
<1>2. CASE pc[c] \notin Polling
  BY <1>2 DEF PollOnce, Lock, PastReset, RestorePast, List, NextAccount, Fetch,
       MarkError, MarkExhausted, Consumer, Delete, Upsert, RestoreFetched, UpdateStatus, Polling
<1> QED
  BY <1>1, <1>2

\* Stop: once it has returned nil, neither the loop nor the early discovery writes to the
\* database, although Stop waits for the loop only.
THEOREM StopsWriting == Spec => StoppedWritesNothing
<1>1. ASSUME IInv, Next, NEW c \in Own, stop = "stopped", pc'[c] # pc[c]
      PROVE  UNCHANGED pool
  <2>0. c \in Caller /\ ctxDone[c]
    BY <1>1 DEF IInv, StopOK, Own, Caller
  <2>1. CASE PollOnce(c)
    BY <1>1, <2>0, <2>1, DoneWritesNothing
  <2>2. ASSUME NEW d \in Caller \ {c}, PollOnce(d) PROVE UNCHANGED pool
    <3>1. ~GoesOn(d)
      BY <1>1, <2>0 DEF GoesOn
    <3> QED
      BY <1>1, <2>2, <3>1, PassMoves DEF IInv, PassOK, Comes
  <2>3. CASE Daemon \/ Dashboard \/ Others
    BY <1>1, <2>3 DEF Daemon, Dashboard, Others, Start, Tick, LoopEnds, Discover, Shutdown,
         Stop, StopReturns, Refresh, ClientLeaves, OthersSetStatus, DeleteAccount, RowsLapse
  <2> QED
    BY <1>1, <2>1, <2>2, <2>3 DEF Next
<1>2. IInv /\ [Next]_vars =>
        [\A c \in Own : stop = "stopped" /\ pc'[c] # pc[c] => UNCHANGED pool]_vars
  BY <1>1
<1> QED
  BY <1>2, Invariant, PTL DEF Spec, StoppedWritesNothing
=============================================================================
