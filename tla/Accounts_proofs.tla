--------------------------- MODULE Accounts_proofs ---------------------------
(***************************************************************************)
(* Safety of the accounts table, for any accounts, flows, callbacks,       *)
(* clients and requests. The inductive invariant IInv says of every id a   *)
(* goroutine still holds that it was issued and, if its row is still there,*)
(* whose row it is.                                                        *)
(***************************************************************************)
EXTENDS Accounts, TLAPS

TableOK ==
  /\ accounts \in [Id -> Row \cup {NoRow}]
  /\ issued \subseteq Id
  /\ \A i \in Id : accounts[i] # NoRow => i \in issued
  /\ SingleActive
  /\ CredentialsAreOwn

\* i was issued, and is the id of e's row or of none.
Holds(i, e) == i \in issued /\ e \in Email /\ (i \in Rows => accounts[i].email = e)

FlowOK ==
  /\ entries \subseteq Flow
  /\ flow \in [Flow -> {"idle", "waiting", "returned", "over"}]
  /\ resultChan \in [Flow -> BOOLEAN]

HoldsId == {"token", "refresh", "status", "active", "activate", "set"}

CbOK ==
  /\ cb \in [Callback -> CbState]
  /\ \A c \in Callback :
       /\ cb[c].pc \in {"find", "has", "create"} => cb[c].email \in Email
       /\ cb[c].pc \in HoldsId => Holds(cb[c].id, cb[c].email)

ClickOK ==
  /\ click \in [Clicker -> [pc : {"idle", "select", "delete", "next", "promote"},
                            id : Id \cup {NoId}, wasActive : BOOLEAN]]
  /\ \A d \in Clicker : click[d].pc \in {"select", "delete", "promote"} => click[d].id \in Id

ReqOK ==
  /\ req \in [Request -> [pc : {"idle", "pick", "boot", "sent"}, id : Id \cup {NoId},
                          cred : Email \cup {NoEmail}]]
  /\ \A p \in Request : req[p].pc \in {"boot", "sent"} => Holds(req[p].id, req[p].cred)

ImportOK ==
  /\ import \in [pc : {"list", "create", "set", "done"}, email : Email \cup {NoEmail},
                 id : Id \cup {NoId}]
  /\ import.pc = "create" => import.email \in Email
  /\ import.pc = "set" => import.id \in Id

IInv == TableOK /\ FlowOK /\ CbOK /\ ClickOK /\ ReqOK /\ ImportOK

-----------------------------------------------------------------------------
(* The writes of the table *)

\* No step takes the account in use away except by deleting it.
NoLoss == GetActive # {} /\ GetActive' = {} => \E i \in GetActive : accounts'[i] = NoRow

\* What a step may do to the table.
KeepsTable ==
  /\ TableOK'
  /\ issued \subseteq issued'
  /\ \A i \in issued : accounts'[i] # NoRow =>
       accounts[i] # NoRow /\ accounts'[i].email = accounts[i].email
  /\ NoLoss

LEMMA SameTable ==
  ASSUME TableOK, UNCHANGED <<accounts, issued>>
  PROVE  KeepsTable
BY DEF KeepsTable, TableOK, SingleActive, CredentialsAreOwn, GetActive, Rows, NoLoss

\* The tokens of a row are replaced by tokens of the same e-mail.
LEMMA TokenWrite ==
  ASSUME TableOK, NEW i \in Id, NEW e, i \in Rows => accounts[i].email = e, e \in Email,
         UpdateAccess(i, e) \/ UpdateRefresh(i, e), UNCHANGED issued
  PROVE  KeepsTable
<1>1. CASE i \notin Rows
  BY <1>1, SameTable DEF UpdateAccess, UpdateRefresh, Update
<1>2. CASE i \in Rows
  <2> DEFINE a == [accounts[i] EXCEPT !.access = e]
             b == [accounts[i] EXCEPT !.refresh = e]
  <2>1. accounts[i] \in Row
    BY <1>2 DEF TableOK, Rows
  <2>2. a \in Row /\ a.email = accounts[i].email /\ a.isActive = accounts[i].isActive
        /\ a.access = e /\ a.refresh = accounts[i].refresh
    BY <2>1 DEF Row
  <2>3. b \in Row /\ b.email = accounts[i].email /\ b.isActive = accounts[i].isActive
        /\ b.refresh = e /\ b.access = accounts[i].access
    BY <2>1 DEF Row
  <2>4. PICK r \in {a, b} : accounts' = [accounts EXCEPT ![i] = r]
    BY <1>2 DEF UpdateAccess, UpdateRefresh, Update
  <2>5. r \in Row /\ r.email = e /\ r.isActive = accounts[i].isActive
        /\ r.refresh = e /\ r.access = e
    BY <1>2, <2>2, <2>3, <2>4 DEF TableOK, CredentialsAreOwn
  <2> HIDE DEF a, b
  <2>6. Rows' = Rows /\ GetActive' = GetActive
    BY <1>2, <2>4, <2>5, RowAssumption DEF TableOK, Rows, GetActive
  <2> QED
    BY <1>2, <2>4, <2>5, <2>6
       DEF KeepsTable, TableOK, SingleActive, CredentialsAreOwn, NoLoss, Rows
<1> QED
  BY <1>1, <1>2

LEMMA StatusWrite ==
  ASSUME TableOK, NEW i \in Id, NEW s \in Status, UpdateStatus(i, s), UNCHANGED issued
  PROVE  KeepsTable
<1>1. CASE i \notin Rows
  BY <1>1, SameTable DEF UpdateStatus, Update
<1>2. CASE i \in Rows
  <2> DEFINE r == [accounts[i] EXCEPT !.status = s]
  <2>1. accounts[i] \in Row
    BY <1>2 DEF TableOK, Rows
  <2>2. r \in Row /\ r.email = accounts[i].email /\ r.isActive = accounts[i].isActive
        /\ r.access = accounts[i].access /\ r.refresh = accounts[i].refresh
    BY <2>1 DEF Row
  <2>3. accounts' = [accounts EXCEPT ![i] = r]
    BY <1>2 DEF UpdateStatus, Update
  <2> HIDE DEF r
  <2>4. Rows' = Rows /\ GetActive' = GetActive
    BY <1>2, <2>2, <2>3, RowAssumption DEF TableOK, Rows, GetActive
  <2> QED
    BY <1>2, <2>2, <2>3, <2>4
       DEF KeepsTable, TableOK, SingleActive, CredentialsAreOwn, NoLoss, Rows
<1> QED
  BY <1>1, <1>2

\* The flag moves to a row that is there, or stays where it is.
LEMMA SetActiveWrite ==
  ASSUME TableOK, NEW i \in Id, SetActive(i), UNCHANGED issued
  PROVE  KeepsTable
<1>1. CASE i \notin Rows
  <2>1. accounts' = accounts
    BY <1>1 DEF SetActive, TableOK
  <2> QED
    BY <2>1, SameTable
<1>2. CASE i \in Rows
  <2> DEFINE on == [accounts[i] EXCEPT !.isActive = TRUE, !.status = "active"]
             off(j) == [accounts[j] EXCEPT !.isActive = FALSE]
  <2>1. \A j \in Rows : accounts[j] \in Row
    BY DEF TableOK, Rows
  <2>2. on \in Row /\ on.email = accounts[i].email /\ on.isActive
        /\ on.access = accounts[i].access /\ on.refresh = accounts[i].refresh
    BY <1>2, <2>1 DEF Row, Status
  <2>3. \A j \in Rows : /\ off(j) \in Row /\ off(j).email = accounts[j].email
                        /\ ~off(j).isActive /\ off(j).access = accounts[j].access
                        /\ off(j).refresh = accounts[j].refresh
    BY <2>1 DEF Row
  <2>4. accounts' = [j \in Id |-> IF j \notin Rows THEN accounts[j]
                                  ELSE IF j = i THEN on ELSE off(j)]
    BY <1>2 DEF SetActive
  <2> HIDE DEF on, off
  <2>5. \A j \in Id : /\ j \notin Rows => accounts'[j] = NoRow
                      /\ j \in Rows => accounts'[j] \in Row
                                       /\ accounts'[j].email = accounts[j].email
                                       /\ accounts'[j].access = accounts[j].access
                                       /\ accounts'[j].refresh = accounts[j].refresh
                                       /\ (accounts'[j].isActive <=> j = i)
    BY <1>2, <2>2, <2>3, <2>4 DEF Rows
  <2>6. Rows' = Rows /\ GetActive' = {i}
    BY <1>2, <2>5, RowAssumption DEF Rows, GetActive
  <2>7. accounts' \in [Id -> Row \cup {NoRow}]
    BY <2>4, <2>5
  <2> QED
    BY <2>5, <2>6, <2>7
       DEF KeepsTable, TableOK, SingleActive, CredentialsAreOwn, NoLoss, Rows
<1> QED
  BY <1>1, <1>2

\* A new account gets an id that was never used.
LEMMA InsertWrite ==
  ASSUME TableOK, NEW e \in Email, NEW on \in BOOLEAN, MayInsert(NewRow(e, on)),
         Insert(NewId, NewRow(e, on))
  PROVE  KeepsTable /\ NewId \in Id /\ NewId \in issued' /\ accounts'[NewId].email = e
<1> DEFINE n == NewId
           r == NewRow(e, on)
<1>1. n \in Id /\ n \notin issued
  BY DEF MayInsert, NewId, FreshId
<1>2. r \in Row /\ r.email = e /\ r.isActive = on /\ r.access = e /\ r.refresh = e
  BY DEF NewRow, Row, Status
<1>3. accounts' = [accounts EXCEPT ![n] = r] /\ issued' = issued \cup {n}
  BY DEF Insert
<1>4. on => GetActive = {}
  BY <1>2 DEF MayInsert
<1> HIDE DEF n, r
<1>5. n \notin Rows
  BY <1>1 DEF TableOK, Rows
<1>6. Rows' = Rows \cup {n} /\ GetActive' = GetActive \cup (IF on THEN {n} ELSE {})
  <2>1. r # NoRow
    BY <1>2, RowAssumption
  <2> QED
    BY <1>1, <1>2, <1>3, <1>5, <2>1 DEF TableOK, Rows, GetActive
<1>7. TableOK'
  BY <1>1, <1>2, <1>3, <1>4, <1>6 DEF TableOK, SingleActive, CredentialsAreOwn, Rows
<1> QED
  BY <1>1, <1>2, <1>3, <1>6, <1>7 DEF KeepsTable, TableOK, NoLoss, n

\* A deleted row, and the flag it had, are gone.
LEMMA DeleteWrite ==
  ASSUME TableOK, NEW i \in Rows, accounts' = [accounts EXCEPT ![i] = NoRow],
         UNCHANGED issued
  PROVE  KeepsTable
<1>1. i \in Id
  BY DEF Rows
<1>2. Rows' = Rows \ {i} /\ GetActive' = GetActive \ {i}
  BY <1>1 DEF TableOK, Rows, GetActive
<1> QED
  BY <1>1, <1>2 DEF KeepsTable, TableOK, SingleActive, CredentialsAreOwn, NoLoss, Rows, GetActive

-----------------------------------------------------------------------------
(* What somebody holds stays true while others write. *)

LEMMA HoldsOn ==
  ASSUME TableOK, KeepsTable, NEW i, NEW e, Holds(i, e)
  PROVE  Holds(i, e)'
BY DEF TableOK, KeepsTable, Holds, Rows

LEMMA OthersHold ==
  ASSUME IInv, KeepsTable
  PROVE  /\ UNCHANGED cb => CbOK'
         /\ UNCHANGED click => ClickOK'
         /\ UNCHANGED req => ReqOK'
         /\ UNCHANGED import => ImportOK'
         /\ UNCHANGED oauth => FlowOK'
<1>1. UNCHANGED cb => CbOK'
  BY HoldsOn DEF IInv, CbOK
<1>2. UNCHANGED req => ReqOK'
  BY HoldsOn DEF IInv, ReqOK
<1> QED
  BY <1>1, <1>2 DEF IInv, ClickOK, ImportOK, FlowOK, oauth

-----------------------------------------------------------------------------
(* The steps. Each keeps the table, and what it says of its own state. *)

\* The end of a callback.
LEMMA EndType ==
  ASSUME IInv, KeepsTable, NEW c \in Callback, NEW l \in {"refused", "done"}, End(c, l)
  PROVE  CbOK' /\ resultChan' \in [Flow -> BOOLEAN]
<1>1. NoCall \in CbState /\ [NoCall EXCEPT !.pc = l] \in CbState
      /\ [NoCall EXCEPT !.pc = l].pc = l
  BY DEF NoCall, CbState, CbPc
<1>2. \A d \in Callback : d # c => cb'[d] = cb[d]
  BY DEF End, IInv, CbOK
<1>3. cb' \in [Callback -> CbState] /\ cb'[c].pc = l
  BY <1>1 DEF End, IInv, CbOK
<1>4. CbOK'
  BY <1>2, <1>3, HoldsOn DEF IInv, CbOK, HoldsId
<1> QED
  BY <1>4, AccountsAssumption DEF End, Send, IInv, FlowOK

\* A callback goes on, with what it now holds.
LEMMA StepType ==
  ASSUME IInv, KeepsTable, NEW c \in Callback, NEW r \in CbState,
         cb' = [cb EXCEPT ![c] = r],
         r.pc \in {"find", "has", "create"} => r.email \in Email,
         r.pc \in HoldsId => Holds(r.id, r.email)'
  PROVE  CbOK'
<1>1. /\ cb' \in [Callback -> CbState] /\ cb'[c] = r
      /\ \A d \in Callback : d # c => cb'[d] = cb[d]
  BY DEF IInv, CbOK
<1> QED
  BY <1>1, HoldsOn DEF IInv, CbOK

LEMMA CallbackSteps ==
  ASSUME IInv, NEW c \in Callback,
         CallbackArrives(c) \/ CallbackLeaves(c) \/ HandleCallbackRequest(c)
  PROVE  KeepsTable /\ IInv'
<1>0. /\ cb[c] \in CbState /\ TableOK /\ cb \in [Callback -> CbState]
      /\ cb[c].pc \in {"find", "has", "create"} => cb[c].email \in Email
      /\ cb[c].pc \in HoldsId => Holds(cb[c].id, cb[c].email)
  BY DEF IInv, CbOK
<1>a. cb[c].pc \in HoldsId => cb[c].id \in Id /\ cb[c].email \in Email
                              /\ (cb[c].id \in Rows => accounts[cb[c].id].email = cb[c].email)
  BY <1>0 DEF Holds, TableOK
<1>b. /\ \A l \in CbPc : [cb[c] EXCEPT !.pc = l] \in CbState
      /\ \A l \in CbPc : [cb[c] EXCEPT !.pc = l].pc = l
      /\ \A l \in CbPc : [cb[c] EXCEPT !.pc = l].id = cb[c].id
      /\ \A l \in CbPc : [cb[c] EXCEPT !.pc = l].email = cb[c].email
  BY <1>0 DEF CbState
\* Whatever the step, the table is kept, and the callback ends or goes on.
<1>c. ASSUME KeepsTable, UNCHANGED <<flow, click, req, import>>, entries' \subseteq Flow,
             CbOK' /\ resultChan' \in [Flow -> BOOLEAN]
      PROVE  IInv'
  BY <1>c, OthersHold DEF IInv, KeepsTable, FlowOK
<1>d. UNCHANGED resultChan => resultChan' \in [Flow -> BOOLEAN]
  BY DEF IInv, FlowOK
<1>e. entries \subseteq Flow
  BY DEF IInv, FlowOK
<1>f. ASSUME KeepsTable, NEW l \in CbPc, Step(c, l),
             l \in {"find", "has", "create"} => cb[c].email \in Email,
             l \in HoldsId => cb[c].pc \in HoldsId
      PROVE  CbOK' /\ resultChan' \in [Flow -> BOOLEAN]
  <2>1. PICK r \in CbState : /\ cb' = [cb EXCEPT ![c] = r]
                              /\ r.pc = l /\ r.id = cb[c].id /\ r.email = cb[c].email
    BY <1>b, <1>f DEF Step
  <2>2. l \in HoldsId => Holds(r.id, r.email)'
    BY <1>0, <1>f, <2>1, HoldsOn
  <2> QED
    BY <1>d, <1>f, <2>1, <2>2, StepType DEF Step
<1>1. CASE CallbackArrives(c) \/ TakeState(c)
  <2>1. KeepsTable
    BY <1>0, <1>1, SameTable DEF CallbackArrives, TakeState
  <2>2. CASE CallbackArrives(c)
    BY <1>c, <1>e, <1>f, <2>1, <2>2 DEF CallbackArrives, CbPc, HoldsId
  <2>3. CASE TakeState(c)
    <3>1. entries' \subseteq Flow
      BY <1>e, <2>3 DEF TakeState, Remove
    <3>2. CASE Step(c, "exchange")
      BY <1>c, <1>f, <2>1, <2>3, <3>1, <3>2 DEF TakeState, CbPc, HoldsId
    <3>3. CASE End(c, "refused")
      BY <1>c, <2>1, <2>3, <3>1, <3>3, EndType DEF TakeState
    <3> QED
      BY <2>3, <3>2, <3>3 DEF TakeState
  <2> QED
    BY <1>1, <2>1, <2>2, <2>3
<1>2. CASE ExchangeCode(c)
  <2>1. KeepsTable
    BY <1>0, <1>2, SameTable DEF ExchangeCode
  <2>2. CASE End(c, "done")
    BY <1>c, <1>e, <1>2, <2>1, <2>2, EndType DEF ExchangeCode
  <2>3. ASSUME NEW e \in Email, cb' = [cb EXCEPT ![c].pc = "find", ![c].email = e],
               UNCHANGED resultChan
        PROVE  IInv'
    <3> DEFINE r == [cb[c] EXCEPT !.pc = "find", !.email = e]
    <3>1. cb' = [cb EXCEPT ![c] = r] /\ r \in CbState /\ r.pc = "find" /\ r.email = e
      BY <1>0, <2>3 DEF CbState, CbPc
    <3> HIDE DEF r
    <3>2. CbOK'
      BY <2>1, <3>1, StepType DEF HoldsId
    <3> QED
      BY <1>c, <1>d, <1>e, <1>2, <2>1, <2>3, <3>2 DEF ExchangeCode
  <2> QED
    BY <1>2, <2>1, <2>2, <2>3 DEF ExchangeCode
<1>3. CASE CallbackLeaves(c)
  <2>1. KeepsTable
    BY <1>0, <1>3, SameTable DEF CallbackLeaves
  <2>2. PICK r \in CbState : /\ cb' = [cb EXCEPT ![c] = r] /\ r.pc = cb[c].pc
                              /\ r.email = cb[c].email /\ r.id = cb[c].id
    <3>1. [cb[c] EXCEPT !.gone = TRUE] \in CbState
      BY <1>0 DEF CbState
    <3> QED
      BY <1>0, <1>3, <3>1 DEF CallbackLeaves, CbState
  <2>3. r.pc \in HoldsId => Holds(r.id, r.email)'
    BY <1>0, <2>1, <2>2, HoldsOn
  <2>4. CbOK'
    BY <1>0, <2>1, <2>2, <2>3, StepType
  <2> QED
    BY <1>c, <1>d, <1>e, <1>3, <2>1, <2>4 DEF CallbackLeaves, oauth
<1>4. CASE FindAccount(c)
  <2>0. cb[c].email \in Email
    BY <1>0, <1>4 DEF FindAccount, Runs
  <2>1. KeepsTable
    BY <1>0, <1>4, SameTable DEF FindAccount
  <2>2. CASE End(c, "done")
    BY <1>c, <1>e, <1>4, <2>1, <2>2, EndType DEF FindAccount
  <2>3. CASE Step(c, "has")
    BY <1>c, <1>e, <1>f, <1>4, <2>0, <2>1, <2>3 DEF FindAccount, CbPc, HoldsId
  <2>4. ASSUME NEW i \in GetByEmail(cb[c].email), UNCHANGED resultChan,
               cb' = [cb EXCEPT ![c].pc = "token", ![c].id = i,
                                ![c].repair = accounts[i].status # "active"]
        PROVE  IInv'
    <3>1. i \in Id /\ accounts[i].email = cb[c].email /\ i \in issued
      BY <1>0, <2>4 DEF GetByEmail, Rows, TableOK
    <3>2. PICK r \in CbState : /\ cb' = [cb EXCEPT ![c] = r] /\ r.pc = "token"
                                /\ r.id = i /\ r.email = cb[c].email
      <4>1. [cb[c] EXCEPT !.pc = "token", !.id = i,
                          !.repair = accounts[i].status # "active"] \in CbState
        BY <1>0, <3>1 DEF CbState, CbPc
      <4> QED
        BY <1>0, <2>4, <4>1 DEF CbState
    <3>3. Holds(r.id, r.email)'
      BY <1>4, <2>0, <3>1, <3>2 DEF FindAccount, Holds, Rows
    <3>4. CbOK'
      BY <2>1, <3>2, <3>3, StepType
    <3> QED
      BY <1>c, <1>d, <1>e, <1>4, <2>1, <2>4, <3>4 DEF FindAccount
  <2> QED
    BY <1>4, <2>1, <2>2, <2>3, <2>4 DEF FindAccount
<1>5. CASE UpdateToken(c) \/ UpdateRefreshToken(c)
  <2>0. cb[c].pc \in HoldsId
    BY <1>5 DEF UpdateToken, UpdateRefreshToken, Runs, HoldsId
  <2>1. KeepsTable
    BY <1>0, <1>a, <1>5, <2>0, SameTable, TokenWrite DEF UpdateToken, UpdateRefreshToken
  <2>2. CASE End(c, "done")
    BY <1>c, <1>e, <1>5, <2>1, <2>2, EndType DEF UpdateToken, UpdateRefreshToken
  <2>3. ASSUME NEW l \in {"refresh", "status", "active"}, Step(c, l) PROVE IInv'
    BY <1>c, <1>e, <1>f, <1>5, <2>0, <2>1, <2>3
       DEF UpdateToken, UpdateRefreshToken, CbPc, HoldsId
  <2> QED
    BY <1>5, <2>1, <2>2, <2>3 DEF UpdateToken, UpdateRefreshToken, AfterTokens
<1>6. CASE KeepRefreshToken(c) \/ EnsureActive(c)
  <2>0. cb[c].pc \in HoldsId
    BY <1>6 DEF KeepRefreshToken, EnsureActive, Runs, HoldsId
  <2>1. KeepsTable
    BY <1>0, <1>6, SameTable DEF KeepRefreshToken, EnsureActive
  <2>2. CASE End(c, "done")
    BY <1>c, <1>e, <1>6, <2>1, <2>2, EndType DEF KeepRefreshToken, EnsureActive
  <2>3. ASSUME NEW l \in {"activate", "status", "active"}, Step(c, l) PROVE IInv'
    BY <1>c, <1>e, <1>f, <1>6, <2>0, <2>1, <2>3
       DEF KeepRefreshToken, EnsureActive, CbPc, HoldsId
  <2> QED
    BY <1>6, <2>1, <2>2, <2>3 DEF KeepRefreshToken, EnsureActive, AfterTokens
<1>7. CASE ReviveAccount(c)
  <2>0. cb[c].pc \in HoldsId
    BY <1>7 DEF ReviveAccount, Runs, HoldsId
  <2>1. KeepsTable
    BY <1>0, <1>a, <1>7, <2>0, SameTable, StatusWrite DEF ReviveAccount, Status
  <2> QED
    BY <1>c, <1>e, <1>f, <1>7, <2>0, <2>1 DEF ReviveAccount, CbPc, HoldsId
<1>8. CASE ActivateExisting(c) \/ ActivateNew(c)
  <2>0. cb[c].pc \in HoldsId
    BY <1>8 DEF ActivateExisting, ActivateNew, Runs, HoldsId
  <2>1. KeepsTable
    BY <1>0, <1>a, <1>8, <2>0, SameTable, SetActiveWrite DEF ActivateExisting, ActivateNew
  <2> QED
    BY <1>c, <1>e, <1>8, <2>1, EndType DEF ActivateExisting, ActivateNew
<1>9. CASE HasActive(c)
  <2>1. KeepsTable
    BY <1>0, <1>9, SameTable DEF HasActive
  <2> DEFINE r == [cb[c] EXCEPT !.pc = "create", !.repair = cb[c].gone \/ GetActive = {}]
  <2>2. cb' = [cb EXCEPT ![c] = r] /\ r \in CbState /\ r.pc = "create" /\ r.email = cb[c].email
    BY <1>0, <1>9 DEF HasActive, CbState, CbPc
  <2> HIDE DEF r
  <2>3. CbOK'
    BY <1>0, <1>9, <2>1, <2>2, StepType DEF HasActive, Runs, HoldsId
  <2> QED
    BY <1>c, <1>d, <1>e, <1>9, <2>1, <2>3 DEF HasActive, oauth
<1>10. CASE CreateAccount(c)
  <2>0. cb[c].email \in Email
    BY <1>0, <1>10 DEF CreateAccount, Runs
  <2>1. CASE End(c, "done") /\ UNCHANGED <<accounts, issued>>
    <3>1. KeepsTable
      BY <1>0, <2>1, SameTable
    <3> QED
      BY <1>c, <1>e, <1>10, <2>1, <3>1, EndType DEF CreateAccount
  <2>2. CASE ~(cb[c].gone \/ ~MayInsert(NewRow(cb[c].email, FALSE)))
    <3>1. /\ KeepsTable /\ NewId \in Id /\ NewId \in issued'
          /\ accounts'[NewId].email = cb[c].email
      BY <1>0, <1>10, <2>0, <2>2, InsertWrite DEF CreateAccount
    <3>2. CASE ~cb[c].repair
      BY <1>c, <1>e, <1>10, <2>2, <3>1, <3>2, EndType DEF CreateAccount
    <3>3. CASE cb[c].repair
      <4>1. PICK r \in CbState : /\ cb' = [cb EXCEPT ![c] = r] /\ r.pc = "set"
                                  /\ r.id = NewId /\ r.email = cb[c].email
        <5>1. [cb[c] EXCEPT !.pc = "set", !.id = NewId] \in CbState
          BY <1>0, <3>1 DEF CbState, CbPc
        <5> QED
          BY <1>0, <1>10, <2>2, <3>3, <5>1 DEF CreateAccount, CbState
      <4>2. Holds(r.id, r.email)'
        BY <2>0, <3>1, <4>1 DEF Holds
      <4>3. CbOK'
        BY <3>1, <4>1, <4>2, StepType
      <4> QED
        BY <1>c, <1>d, <1>e, <1>10, <2>2, <3>1, <3>3, <4>3 DEF CreateAccount
    <3> QED
      BY <3>1, <3>2, <3>3
  <2> QED
    BY <1>0, <1>10, <2>1, <2>2, SameTable DEF CreateAccount
<1> QED
  BY <1>1, <1>2, <1>3, <1>4, <1>5, <1>6, <1>7, <1>8, <1>9, <1>10 DEF HandleCallbackRequest

LEMMA FlowSteps ==
  ASSUME IInv, NEW f \in Flow,
         \/ StartLoopbackFlow(f) \/ FlowReturns(f) \/ FlowTimesOut(f)
         \/ ProcessExits(f) \/ StateAges(f)
  PROVE  KeepsTable /\ IInv'
<1>1. UNCHANGED <<accounts, issued, cb, click, req, import>>
  BY DEF StartLoopbackFlow, FlowReturns, FlowTimesOut, ProcessExits, StateAges
<1>2. KeepsTable
  BY <1>1, SameTable DEF IInv
<1>3. FlowOK'
  BY DEF IInv, FlowOK, StartLoopbackFlow, FlowReturns, FlowTimesOut, ProcessExits, StateAges,
         Put
<1> QED
  BY <1>1, <1>2, <1>3, OthersHold DEF IInv, KeepsTable

LEMMA DashboardSteps ==
  ASSUME IInv, NEW d \in Clicker, Dashboard(d)
  PROVE  KeepsTable /\ IInv'
<1> SUFFICES KeepsTable /\ ClickOK'
  <2>1. UNCHANGED <<oauth, cb, req, import>>
    BY DEF Dashboard, SelectLook, DeleteLook, SelectSet, DeleteRow, PromoteLook, PromoteSet
  <2> QED
    BY <2>1, OthersHold DEF IInv, KeepsTable
<1>0. TableOK /\ ClickOK
  BY DEF IInv
<1> DEFINE C == [pc : {"idle", "select", "delete", "next", "promote"},
                 id : Id \cup {NoId}, wasActive : BOOLEAN]
<1>a. ASSUME NEW r \in C, click' = [click EXCEPT ![d] = r],
             r.pc \in {"select", "delete", "promote"} => r.id \in Id
      PROVE  ClickOK'
  BY <1>0, <1>a DEF ClickOK
<1>b. /\ NoClick \in C /\ NoClick.pc = "idle"
      /\ [NoClick EXCEPT !.pc = "next"] \in C /\ [NoClick EXCEPT !.pc = "next"].pc = "next"
      /\ \A i \in Id : /\ [NoClick EXCEPT !.pc = "promote", !.id = i] \in C
                        /\ [NoClick EXCEPT !.pc = "promote", !.id = i].id = i
  BY DEF NoClick
<1> HIDE DEF C
<1>1. ASSUME NEW i \in Id, SelectLook(d, i) \/ DeleteLook(d, i) PROVE KeepsTable /\ ClickOK'
  <2>1. KeepsTable
    BY <1>0, <1>1, SameTable DEF SelectLook, DeleteLook
  <2>2. accounts[i].isActive \in BOOLEAN
    BY <1>0, <1>1 DEF SelectLook, DeleteLook, Rows, TableOK, Row
  <2>3. \A b \in BOOLEAN : \A l \in {"select", "delete"} :
          [pc |-> l, id |-> i, wasActive |-> b] \in C
    BY DEF C
  <2>4. CASE SelectLook(d, i)
    BY <1>a, <2>1, <2>3, <2>4 DEF SelectLook
  <2>5. CASE DeleteLook(d, i)
    BY <1>a, <2>1, <2>2, <2>3, <2>5 DEF DeleteLook
  <2> QED
    BY <1>1, <2>1, <2>4, <2>5
<1>2. CASE SelectSet(d) \/ PromoteSet(d)
  <2>1. click[d].id \in Id
    BY <1>0, <1>2 DEF SelectSet, PromoteSet, ClickOK
  <2>2. UNCHANGED issued /\ click' = [click EXCEPT ![d] = NoClick]
    BY <1>2 DEF SelectSet, PromoteSet
  <2>3. KeepsTable
    BY <1>0, <1>2, <2>1, <2>2, SameTable, SetActiveWrite DEF SelectSet, PromoteSet
  <2> QED
    BY <1>a, <1>b, <2>2, <2>3
<1>3. CASE DeleteRow(d)
  <2>1. UNCHANGED issued
    BY <1>3 DEF DeleteRow
  <2>2. KeepsTable
    BY <1>0, <1>3, <2>1, SameTable, DeleteWrite DEF DeleteRow
  <2>3. PICK r \in {NoClick, [NoClick EXCEPT !.pc = "next"]} :
          click' = [click EXCEPT ![d] = r]
    BY <1>3 DEF DeleteRow
  <2> QED
    BY <1>a, <1>b, <2>2, <2>3
<1>4. CASE PromoteLook(d)
  <2>1. KeepsTable
    BY <1>0, <1>4, SameTable DEF PromoteLook
  <2>2. GetNextAvailable \subseteq Id
    BY DEF GetNextAvailable, Rows
  <2> QED
    BY <1>a, <1>b, <1>4, <2>1, <2>2 DEF PromoteLook
<1> QED
  BY <1>1, <1>2, <1>3, <1>4 DEF Dashboard

LEMMA ProxiedSteps ==
  ASSUME IInv, NEW p \in Request, Proxied(p)
  PROVE  KeepsTable /\ IInv'
<1> SUFFICES KeepsTable /\ ReqOK'
  <2>1. UNCHANGED <<oauth, cb, click, import>>
    BY DEF Proxied, ResolveAccount, PickAvailable, BootAccount, RequestEnds
  <2> QED
    BY <2>1, OthersHold DEF IInv, KeepsTable
<1>0. TableOK /\ ReqOK
  BY DEF IInv
<1>a. NoReq \in [pc : {"idle", "pick", "boot", "sent"}, id : Id \cup {NoId},
                 cred : Email \cup {NoEmail}] /\ NoReq.pc = "idle"
  BY DEF NoReq
<1>1. KeepsTable
  <2> SUFFICES KeepsTable
    OBVIOUS
  <2>1. CASE BootAccount(p)
    BY <1>0, <2>1, SetActiveWrite DEF BootAccount, ReqOK, Holds, TableOK
  <2>2. CASE RequestEnds(p)
    <3>1. req[p].id \in Id /\ Holds(req[p].id, req[p].cred)
      BY <1>0, <2>2 DEF RequestEnds, ReqOK, Holds, TableOK
    <3>2. UNCHANGED issued
      BY <2>2 DEF RequestEnds
    <3> QED
      BY <1>0, <2>2, <3>1, <3>2, SameTable, TokenWrite DEF RequestEnds, Holds
  <2> QED
    BY <1>0, <2>1, <2>2, SameTable DEF Proxied, ResolveAccount, PickAvailable
<1>2. ASSUME NEW i \in Rows, NEW l \in {"boot", "sent"},
             req' = [req EXCEPT ![p] = [pc |-> l, id |-> i, cred |-> accounts[i].refresh]]
      PROVE  ReqOK'
  <2>1. accounts[i] \in Row /\ i \in Id /\ i \in issued
        /\ accounts[i].refresh = accounts[i].email
    BY <1>0 DEF Rows, TableOK, CredentialsAreOwn
  <2>2. Holds(i, accounts[i].refresh)
    BY <2>1 DEF Holds, Row
  <2>3. PICK e \in Email : e = accounts[i].refresh
    BY <2>1 DEF Row
  <2>4. Holds(i, e)'
    BY <1>0, <1>1, <2>2, <2>3, HoldsOn
  <2>5. \A q \in Request : req'[q].pc \in {"boot", "sent"} => Holds(req[q].id, req[q].cred)'
    <3>1. ASSUME NEW q \in Request, q # p, req'[q].pc \in {"boot", "sent"}
          PROVE  Holds(req[q].id, req[q].cred)'
      <4>1. Holds(req[q].id, req[q].cred) /\ req'[q] = req[q]
        BY <1>0, <1>2, <3>1 DEF ReqOK
      <4> QED
        BY <1>0, <1>1, <4>1, HoldsOn
    <3>2. req'[p].id = i /\ req'[p].cred = e
      BY <1>0, <1>2, <2>3 DEF ReqOK
    <3> QED
      BY <2>4, <3>1, <3>2
  <2> QED
    BY <1>0, <1>2, <2>1, <2>5 DEF ReqOK, Row
<1>3. ASSUME NEW r \in [pc : {"idle", "pick", "boot", "sent"}, id : Id \cup {NoId},
                        cred : Email \cup {NoEmail}],
             req' = [req EXCEPT ![p] = r],
             r.pc \in {"boot", "sent"} => /\ req[p].pc \in {"boot", "sent"}
                                          /\ r.id = req[p].id /\ r.cred = req[p].cred
      PROVE  ReqOK'
  BY <1>0, <1>1, <1>3, HoldsOn DEF ReqOK
<1>4. CASE ResolveAccount(p)
  <2>1. CASE req' = [req EXCEPT ![p].pc = "pick"]
    <3>1. req[p].pc = "idle" /\ [req[p] EXCEPT !.pc = "pick"].pc = "pick"
          /\ [req[p] EXCEPT !.pc = "pick"] \in [pc : {"idle", "pick", "boot", "sent"},
                 id : Id \cup {NoId}, cred : Email \cup {NoEmail}]
      BY <1>0, <1>4 DEF ResolveAccount, ReqOK
    <3> QED
      BY <1>1, <1>3, <2>1, <3>1
  <2>2. ASSUME NEW i \in GetActive, Uses(p, i) PROVE ReqOK'
    BY <1>2, <2>2 DEF Uses, GetActive
  <2> QED
    BY <1>1, <1>4, <2>1, <2>2 DEF ResolveAccount
<1>5. CASE PickAvailable(p)
  BY <1>1, <1>2, <1>3, <1>5, <1>a DEF PickAvailable, GetNextAvailable
<1>6. CASE BootAccount(p)
  <2>1. /\ req[p].pc = "boot" /\ req' = [req EXCEPT ![p] = [req[p] EXCEPT !.pc = "sent"]]
        /\ req[p] \in [pc : {"idle", "pick", "boot", "sent"}, id : Id \cup {NoId},
                       cred : Email \cup {NoEmail}]
    BY <1>0, <1>6 DEF BootAccount, ReqOK
  <2> QED
    BY <1>1, <1>3, <2>1
<1>7. CASE RequestEnds(p)
  BY <1>1, <1>3, <1>7, <1>a DEF RequestEnds
<1> QED
  BY <1>1, <1>4, <1>5, <1>6, <1>7 DEF Proxied

LEMMA ImportSteps ==
  ASSUME IInv, Import
  PROVE  KeepsTable /\ IInv'
<1> SUFFICES KeepsTable /\ ImportOK'
  <2>1. UNCHANGED <<oauth, cb, click, req>>
    BY DEF Import, ImportLook, ImportCreate, ImportActivate
  <2> QED
    BY <2>1, OthersHold DEF IInv, KeepsTable
<1>0. TableOK /\ ImportOK
  BY DEF IInv
<1>1. CASE ImportLook
  BY <1>0, <1>1, SameTable DEF ImportLook, ImportOK
<1>2. CASE ImportCreate
  <2>1. import.email \in Email
    BY <1>0, <1>2 DEF ImportCreate, ImportOK
  <2>2. KeepsTable
    BY <1>0, <1>2, <2>1, SameTable, InsertWrite DEF ImportCreate
  <2>3. MayInsert(NewRow(import.email, TRUE)) => NewId \in Id
    BY DEF MayInsert, NewId, FreshId
  <2> QED
    BY <1>0, <1>2, <2>2, <2>3 DEF ImportCreate, ImportOK
<1>3. CASE ImportActivate
  BY <1>0, <1>3, SetActiveWrite DEF ImportActivate, ImportOK
<1> QED
  BY <1>1, <1>2, <1>3 DEF Import

LEMMA FailureSteps ==
  ASSUME IInv, NEW i \in Id, AccountFails(i)
  PROVE  KeepsTable /\ IInv'
<1>1. KeepsTable
  BY StatusWrite DEF AccountFails, IInv, Status
<1> QED
  BY <1>1, OthersHold DEF AccountFails, IInv, KeepsTable

LEMMA NextKeeps ==
  ASSUME IInv, [Next]_vars
  PROVE  KeepsTable /\ IInv'
<1>1. CASE UNCHANGED vars
  BY <1>1, SameTable, OthersHold DEF vars, IInv, KeepsTable
<1> QED
  BY <1>1, CallbackSteps, FlowSteps, DashboardSteps, ProxiedSteps, ImportSteps, FailureSteps
     DEF Next

LEMMA InitKeeps == Init => IInv
<1> SUFFICES ASSUME Init PROVE IInv
  OBVIOUS
<1>1. PICK s \in {{}, {CHOOSE i \in Id : TRUE}} :
        /\ issued = s
        /\ accounts = [i \in Id |-> IF i \in s THEN NewRow(CHOOSE e \in Email : TRUE, TRUE)
                                              ELSE NoRow]
  BY DEF Init
<1> QED
  BY <1>1, AccountsAssumption
     DEF Init, IInv, TableOK, SingleActive, CredentialsAreOwn, GetActive, Rows, NewRow, Row,
         Status, FlowOK, CbOK, CbState, CbPc, HoldsId, NoCall, ClickOK, NoClick, ReqOK, NoReq,
         ImportOK

LEMMA AccountsInvariant == Spec => []IInv
BY InitKeeps, NextKeeps, PTL DEF Spec

-----------------------------------------------------------------------------
\* Every variable keeps its type, and a row has an id that was issued.
THEOREM TypeCorrect == Spec => []TypeOK
<1>1. IInv => TypeOK
  BY DEF IInv, TableOK, FlowOK, CbOK, ClickOK, ReqOK, ImportOK, TypeOK
<1> QED
  BY <1>1, AccountsInvariant, PTL

\* At most one account is in use, whoever activates accounts at the same time.
THEOREM OneInUse == Spec => []SingleActive
<1>1. IInv => SingleActive
  BY DEF IInv, TableOK
<1> QED
  BY <1>1, AccountsInvariant, PTL

\* Tokens are stored with the account they were issued to.
THEOREM TokensStayHome == Spec => []CredentialsAreOwn
<1>1. IInv => CredentialsAreOwn
  BY DEF IInv, TableOK
<1> QED
  BY <1>1, AccountsInvariant, PTL

\* The account in use is lost by its deletion only.
THEOREM ActiveKept == Spec => ActiveLostByDeletionOnly
<1>1. IInv /\ [Next]_vars => [NoLoss]_vars
  BY NextKeeps DEF KeepsTable
<1> QED
  BY <1>1, AccountsInvariant, PTL DEF Spec, ActiveLostByDeletionOnly, NoLoss

-----------------------------------------------------------------------------
(* The state of a login is redeemed once. *)

\* Nobody comes back to a flow that has not begun; while its state is in the store,
\* no callback has redeemed it.
RedeemInv ==
  /\ \A c \in Callback : flow[FlowOf[c]] = "idle" => cb[c].pc = "none"
  /\ \A c \in Callback : FlowOf[c] \in entries => ~Redeemed(c)
  /\ StateRedeemedOnce

\* What a step may do to a callback: nothing, or, if the callback has neither arrived
\* nor been refused, make it go on; it redeems its state by taking it out of the store.
LEMMA CallbackMoves ==
  ASSUME IInv, NEW c \in Callback,
         CallbackArrives(c) \/ CallbackLeaves(c) \/ HandleCallbackRequest(c)
  PROVE  /\ \A d \in Callback : d # c => cb'[d] = cb[d]
         /\ UNCHANGED flow
         /\ entries' \subseteq entries
         /\ cb[c].pc = "none" => flow[FlowOf[c]] = "waiting"
         /\ Redeemed(c)' => \/ Redeemed(c)
                            \/ FlowOf[c] \in entries /\ FlowOf[c] \notin entries'
<1> USE DEF Step, End, Runs, Redeemed, NoCall, oauth
<1>0. cb \in [Callback -> CbState] /\ cb[c] \in CbState
  BY DEF IInv, CbOK
<1>1. CASE CallbackArrives(c)
  BY <1>0, <1>1 DEF CallbackArrives
<1>2. CASE CallbackLeaves(c)
  BY <1>0, <1>2 DEF CallbackLeaves, CbState
<1>3. CASE TakeState(c)
  BY <1>0, <1>3 DEF TakeState, Remove, CbState
<1>4. CASE ExchangeCode(c) \/ FindAccount(c) \/ UpdateToken(c) \/ UpdateRefreshToken(c)
           \/ KeepRefreshToken(c) \/ ReviveAccount(c)
  BY <1>0, <1>4
     DEF ExchangeCode, FindAccount, UpdateToken, UpdateRefreshToken, KeepRefreshToken,
         ReviveAccount, AfterTokens
<1>5. CASE EnsureActive(c) \/ ActivateExisting(c) \/ HasActive(c) \/ CreateAccount(c)
           \/ ActivateNew(c)
  BY <1>0, <1>5
     DEF EnsureActive, ActivateExisting, HasActive, CreateAccount, ActivateNew
<1> QED
  BY <1>1, <1>2, <1>3, <1>4, <1>5 DEF HandleCallbackRequest

\* The state of a login is redeemed by one callback at most.
THEOREM RedeemedOnce == Spec => []StateRedeemedOnce
<1>1. Init => RedeemInv
  <2> SUFFICES ASSUME Init PROVE RedeemInv
    OBVIOUS
  <2>1. entries = {} /\ \A c \in Callback : cb[c].pc = "none"
    BY DEF Init, NoCall
  <2> QED
    BY <2>1 DEF RedeemInv, Redeemed, StateRedeemedOnce
<1>2. ASSUME IInv, RedeemInv, [Next]_vars PROVE RedeemInv'
  <2>0. FlowOf \in [Callback -> Flow]
    BY AccountsAssumption
  <2>1. CASE UNCHANGED <<cb, flow>> /\ entries' \subseteq entries
    BY <1>2, <2>1 DEF RedeemInv, Redeemed, StateRedeemedOnce
  <2>2. ASSUME NEW c \in Callback,
               CallbackArrives(c) \/ CallbackLeaves(c) \/ HandleCallbackRequest(c)
        PROVE  RedeemInv'
    <3>1. /\ \A d \in Callback : d # c => cb'[d] = cb[d]
          /\ UNCHANGED flow
          /\ entries' \subseteq entries
          /\ cb[c].pc = "none" => flow[FlowOf[c]] = "waiting"
          /\ Redeemed(c)' => \/ Redeemed(c)
                             \/ FlowOf[c] \in entries /\ FlowOf[c] \notin entries'
      BY <1>2, <2>2, CallbackMoves
    <3> QED
      BY <1>2, <3>1 DEF RedeemInv, Redeemed, StateRedeemedOnce
  <2>3. ASSUME NEW f \in Flow, StartLoopbackFlow(f) PROVE RedeemInv'
    BY <1>2, <2>0, <2>3
       DEF RedeemInv, Redeemed, StateRedeemedOnce, StartLoopbackFlow, Put, IInv, FlowOK
  <2>4. ASSUME NEW f \in Flow, FlowReturns(f) \/ FlowTimesOut(f) \/ ProcessExits(f)
        PROVE  RedeemInv'
    BY <1>2, <2>0, <2>4
       DEF RedeemInv, Redeemed, StateRedeemedOnce, FlowReturns, FlowTimesOut, ProcessExits,
           IInv, FlowOK
  <2>5. ASSUME NEW f \in Flow, StateAges(f) PROVE RedeemInv'
    BY <2>1, <2>5 DEF StateAges
  <2>6. CASE Import \/ (\E d \in Clicker : Dashboard(d)) \/ (\E p \in Request : Proxied(p))
             \/ (\E i \in Id : AccountFails(i)) \/ UNCHANGED vars
    BY <2>1, <2>6
       DEF Import, ImportLook, ImportCreate, ImportActivate, Dashboard, SelectLook, DeleteLook,
           SelectSet, DeleteRow, PromoteLook, PromoteSet, Proxied, ResolveAccount,
           PickAvailable, BootAccount, RequestEnds, AccountFails, vars, oauth
  <2> QED
    BY <1>2, <2>2, <2>3, <2>4, <2>5, <2>6 DEF Next
<1>3. RedeemInv => StateRedeemedOnce
  BY DEF RedeemInv
<1> QED
  BY <1>1, <1>2, <1>3, AccountsInvariant, PTL DEF Spec
=============================================================================
