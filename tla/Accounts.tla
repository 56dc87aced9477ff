------------------------------ MODULE Accounts ------------------------------
(***************************************************************************)
(* Who writes the accounts table besides the engine and the poller: the    *)
(* OAuth login (internal/oauth/handler.go), the import at startup          *)
(* (auto_import.go), selection and deletion (internal/web/api.go, the      *)
(* command line), and the bootstrap of a proxied request (proxy/handler.go)*)
(*                                                                         *)
(* An action is one database call, one use of the state store, or one      *)
(* exchange with Google. Tokens are reduced to the e-mail they belong to;  *)
(* of the statuses only whether it is active matters here.                 *)
(***************************************************************************)
CONSTANTS Email, Id,
          Flow,        \* calls of StartLoopbackFlow, each with its own state
          Cli,         \* those made by add-account, in a process of their own
          Callback,    \* requests to a loopback listener
          FlowOf,      \* the flow whose redirect URI a callback has
          Clicker,     \* clients of the dashboard (or of switch-account)
          Request,     \* proxied requests
          Leaving,     \* the callers whose connection may break
          Failing,     \* the accounts that may become spent or unusable
          NoRow, NoId, NoEmail

ASSUME AccountsAssumption ==
  /\ Id # {} /\ NoId \notin Id
  /\ Email # {} /\ NoEmail \notin Email
  /\ Cli \subseteq Flow
  /\ FlowOf \in [Callback -> Flow]
  /\ Leaving \subseteq Callback \cup Clicker
  /\ Failing \subseteq Id

Status == {"active", "error"}
Row == [email : Email, isActive : BOOLEAN, status : Status,
        refresh : Email, access : Email]

ASSUME RowAssumption == NoRow \notin Row

VARIABLES
  accounts,   \* the table, by id
  issued,     \* the ids handed out so far (uuid.NewString)
  entries,    \* the flows whose state is in StateStore.entries, not older than the TTL
  flow,       \* idle, waiting, returned; over once its process has exited
  resultChan, \* whether its buffer holds a result
  cb,         \* HandleCallbackRequest of each callback
  click,      \* selectAccount / deleteAccount of each dashboard client
  req,        \* the account resolution of each proxied request
  import      \* AutoImportExistingAccount, before the server is started

oauth == <<entries, flow, resultChan>>
vars  == <<accounts, issued, oauth, cb, click, req, import>>

CbPc == {"none", "take", "exchange", "find", "token", "refresh", "status", "active",
         "activate", "has", "create", "set", "refused", "done"}

CbState == [pc : CbPc, email : Email \cup {NoEmail}, id : Id \cup {NoId},
            repair : BOOLEAN,   \* existing.Status # active; or !hasActive
            gone : BOOLEAN]     \* r.Context() is cancelled

TypeOK ==
  /\ accounts \in [Id -> Row \cup {NoRow}]
  /\ issued \subseteq Id
  /\ \A i \in Id : accounts[i] # NoRow => i \in issued
  /\ entries \subseteq Flow
  /\ flow \in [Flow -> {"idle", "waiting", "returned", "over"}]
  /\ resultChan \in [Flow -> BOOLEAN]
  /\ cb \in [Callback -> CbState]
  /\ click \in [Clicker -> [pc : {"idle", "select", "delete", "next", "promote"},
                            id : Id \cup {NoId}, wasActive : BOOLEAN]]
  /\ req \in [Request -> [pc : {"idle", "pick", "boot", "sent"}, id : Id \cup {NoId},
                          cred : Email \cup {NoEmail}]]
  /\ import \in [pc : {"list", "create", "set", "done"}, email : Email \cup {NoEmail},
                 id : Id \cup {NoId}]

NewRow(e, on) == [email |-> e, isActive |-> on, status |-> "active",
                  refresh |-> e, access |-> e]

NoCall  == [pc |-> "none", email |-> NoEmail, id |-> NoId, repair |-> FALSE, gone |-> FALSE]
NoClick == [pc |-> "idle", id |-> NoId, wasActive |-> FALSE]
NoReq   == [pc |-> "idle", id |-> NoId, cred |-> NoEmail]

\* An empty pool, or one with an account in use (which one makes no difference).
Init ==
  /\ \E s \in {{}, {CHOOSE i \in Id : TRUE}} :
       /\ issued = s
       /\ accounts = [i \in Id |-> IF i \in s THEN NewRow(CHOOSE e \in Email : TRUE, TRUE)
                                             ELSE NoRow]
  /\ entries = {}
  /\ flow = [f \in Flow |-> "idle"]
  /\ resultChan = [f \in Flow |-> FALSE]
  /\ cb = [c \in Callback |-> NoCall]
  /\ click = [d \in Clicker |-> NoClick]
  /\ req = [p \in Request |-> NoReq]
  /\ import = [pc |-> "list", email |-> NoEmail, id |-> NoId]

-----------------------------------------------------------------------------
(* internal/store/sqlite/account_repo.go *)

Rows == {i \in Id : accounts[i] # NoRow}
GetByEmail(e) == {i \in Rows : accounts[i].email = e}
GetActive == {i \in Rows : accounts[i].isActive}
GetNextAvailable == {i \in Rows : accounts[i].status = "active"}

\* UPDATE ... WHERE id = i; without a row of that id nothing changes.
Update(i, row) ==
  accounts' = IF i \in Rows THEN [accounts EXCEPT ![i] = row] ELSE accounts

UpdateAccess(i, e) == Update(i, [accounts[i] EXCEPT !.access = e])
UpdateRefresh(i, e) == Update(i, [accounts[i] EXCEPT !.refresh = e])
UpdateStatus(i, st) == Update(i, [accounts[i] EXCEPT !.status = st])

\* Mutant of SetActive: the transaction is committed whatever the second UPDATE did.
SetActiveNoRollback(i) ==
  accounts' = [j \in Id |->
                 IF j \notin Rows THEN NoRow
                 ELSE IF j = i THEN [accounts[j] EXCEPT !.isActive = TRUE, !.status = "active"]
                 ELSE [accounts[j] EXCEPT !.isActive = FALSE]]

\* One transaction, rolled back when the target is gone.
SetActive(i) ==
  accounts' = [j \in Id |->
                 IF i \notin Rows \/ j \notin Rows THEN accounts[j]
                 ELSE IF j = i THEN [accounts[j] EXCEPT !.isActive = TRUE, !.status = "active"]
                 ELSE [accounts[j] EXCEPT !.isActive = FALSE]]

\* Mutant of FreshId: an id is free again when its row is deleted.
ReusedId == Id \ Rows

FreshId == Id \ issued

\* Which id is drawn makes no difference.
NewId == CHOOSE i \in FreshId : TRUE

\* Mutant of MayInsert: without the partial unique index.
MayInsertSecondActive(r) == FreshId # {} /\ GetByEmail(r.email) = {}

\* The unique column email, and the unique index over is_active = 1. (Id bounds
\* the number of accounts ever created: beyond it an insert fails.)
MayInsert(r) ==
  FreshId # {} /\ GetByEmail(r.email) = {} /\ (r.isActive => GetActive = {})

\* Mutant of Insert: the id is not taken.
InsertUnissued(i, r) == accounts' = [accounts EXCEPT ![i] = r] /\ UNCHANGED issued

Insert(i, r) ==
  /\ accounts' = [accounts EXCEPT ![i] = r]
  /\ issued' = issued \cup {i}

-----------------------------------------------------------------------------
(* The state store. Every call of it first drops what is older than the TTL, so *)
(* an entry that has grown old is as good as gone.                              *)

Put(f) == entries' = entries \cup {f}

\* Mutant of Remove: the entry stays.
RemoveNothing(f) == entries' = entries

Remove(f) == entries' = entries \ {f}

StateAges(f) ==
  /\ f \in entries
  /\ entries' = entries \ {f}
  /\ UNCHANGED <<accounts, issued, flow, resultChan, cb, click, req, import>>

-----------------------------------------------------------------------------
(* StartLoopbackFlow *)

Serving == import.pc = "done"

StartLoopbackFlow(f) ==
  /\ flow[f] = "idle" /\ (f \in Cli \/ Serving)
  /\ flow' = [flow EXCEPT ![f] = "waiting"]
  /\ Put(f)
  /\ UNCHANGED <<accounts, issued, resultChan, cb, click, req, import>>

FlowReturns(f) ==
  /\ flow[f] = "waiting" /\ resultChan[f]
  /\ flow' = [flow EXCEPT ![f] = "returned"]
  /\ resultChan' = [resultChan EXCEPT ![f] = FALSE]
  /\ UNCHANGED <<accounts, issued, entries, cb, click, req, import>>

\* The timeout, or the caller's context.
FlowTimesOut(f) ==
  /\ flow[f] = "waiting"
  /\ flow' = [flow EXCEPT ![f] = "returned"]
  /\ UNCHANGED <<accounts, issued, entries, resultChan, cb, click, req, import>>

\* add-account is over two seconds after the flow, whatever its callbacks do.
ProcessExits(f) ==
  /\ f \in Cli /\ flow[f] = "returned"
  /\ flow' = [flow EXCEPT ![f] = "over"]
  /\ UNCHANGED <<accounts, issued, entries, resultChan, cb, click, req, import>>

-----------------------------------------------------------------------------
(* HandleCallbackRequest; each of its ways out sends one result, if there is room *)

Runs(c, l) == cb[c].pc = l /\ flow[FlowOf[c]] # "over"

\* Mutant of Send: a send that waits for room.
SendWaits(f) == ~resultChan[f] /\ resultChan' = [resultChan EXCEPT ![f] = TRUE]

\* Dropped when the buffer is full.
Send(f) == resultChan' = [resultChan EXCEPT ![f] = TRUE]

Step(c, l) == cb' = [cb EXCEPT ![c].pc = l] /\ UNCHANGED resultChan

End(c, l) == cb' = [cb EXCEPT ![c] = [NoCall EXCEPT !.pc = l]] /\ Send(FlowOf[c])

CallbackArrives(c) ==
  /\ cb[c].pc = "none" /\ flow[FlowOf[c]] = "waiting"
  /\ Step(c, "take")
  /\ UNCHANGED <<accounts, issued, entries, flow, click, req, import>>

\* An error of the provider or a missing parameter; otherwise GetAndRemove.
TakeState(c) ==
  /\ Runs(c, "take")
  /\ \/ End(c, "refused") /\ UNCHANGED entries
     \/ /\ Remove(FlowOf[c])
        /\ IF FlowOf[c] \in entries THEN Step(c, "exchange") ELSE End(c, "refused")
  /\ UNCHANGED <<accounts, issued, flow, click, req, import>>

\* ExchangeCode and FetchUserInfo: they fail, or say who has logged in.
ExchangeCode(c) ==
  /\ Runs(c, "exchange")
  /\ \/ End(c, "done")
     \/ /\ ~cb[c].gone
        /\ \E e \in Email : cb' = [cb EXCEPT ![c].pc = "find", ![c].email = e]
        /\ UNCHANGED resultChan
  /\ UNCHANGED <<accounts, issued, entries, flow, click, req, import>>

CallbackLeaves(c) ==
  /\ c \in Leaving /\ cb[c].pc \notin {"none", "refused", "done"}
  /\ ~cb[c].gone
  /\ cb' = [cb EXCEPT ![c].gone = TRUE]
  /\ UNCHANGED <<accounts, issued, oauth, click, req, import>>

\* UpsertAccount: a new account needs a refresh token, which may be missing.
FindAccount(c) ==
  /\ Runs(c, "find")
  /\ IF cb[c].gone THEN End(c, "done")
     ELSE IF GetByEmail(cb[c].email) = {} THEN Step(c, "has") \/ End(c, "done")
     ELSE /\ \E i \in GetByEmail(cb[c].email) :
               cb' = [cb EXCEPT ![c].pc = "token", ![c].id = i,
                                ![c].repair = accounts[i].status # "active"]
          /\ UNCHANGED resultChan
  /\ UNCHANGED <<accounts, issued, entries, flow, click, req, import>>

\* A write whose failure (no such row, or no connection) ends the login.
WriteFails(c) == cb[c].gone \/ cb[c].id \notin Rows

UpdateToken(c) ==
  /\ Runs(c, "token")
  /\ IF WriteFails(c) THEN End(c, "done") /\ UNCHANGED accounts
                      ELSE UpdateAccess(cb[c].id, cb[c].email) /\ Step(c, "refresh")
  /\ UNCHANGED <<issued, entries, flow, click, req, import>>

AfterTokens(c) == IF cb[c].repair THEN "status" ELSE "active"

UpdateRefreshToken(c) ==
  /\ Runs(c, "refresh")
  /\ IF WriteFails(c) THEN End(c, "done") /\ UNCHANGED accounts
                      ELSE UpdateRefresh(cb[c].id, cb[c].email) /\ Step(c, AfterTokens(c))
  /\ UNCHANGED <<issued, entries, flow, click, req, import>>

\* The login brought no refresh token.
KeepRefreshToken(c) ==
  /\ Runs(c, "refresh")
  /\ Step(c, AfterTokens(c))
  /\ UNCHANGED <<accounts, issued, entries, flow, click, req, import>>

\* UpdateStatus(active); its failure is ignored.
ReviveAccount(c) ==
  /\ Runs(c, "status")
  /\ IF cb[c].gone THEN UNCHANGED accounts ELSE UpdateStatus(cb[c].id, "active")
  /\ Step(c, "active")
  /\ UNCHANGED <<issued, entries, flow, click, req, import>>

\* "Ensure an active account exists"
EnsureActive(c) ==
  /\ Runs(c, "active")
  /\ IF ~cb[c].gone /\ GetActive # {} THEN End(c, "done") ELSE Step(c, "activate")
  /\ UNCHANGED <<accounts, issued, entries, flow, click, req, import>>

ActivateExisting(c) ==
  /\ Runs(c, "activate")
  /\ IF cb[c].gone THEN UNCHANGED accounts ELSE SetActive(cb[c].id)
  /\ End(c, "done")
  /\ UNCHANGED <<issued, entries, flow, click, req, import>>

HasActive(c) ==
  /\ Runs(c, "has")
  /\ cb' = [cb EXCEPT ![c].pc = "create",
                      ![c].repair = cb[c].gone \/ GetActive = {}]
  /\ UNCHANGED <<accounts, issued, oauth, click, req, import>>

CreateAccount(c) ==
  /\ Runs(c, "create")
  /\ IF cb[c].gone \/ ~MayInsert(NewRow(cb[c].email, FALSE))
     THEN End(c, "done") /\ UNCHANGED <<accounts, issued>>
     ELSE /\ Insert(NewId, NewRow(cb[c].email, FALSE))
          /\ IF cb[c].repair
             THEN /\ cb' = [cb EXCEPT ![c].pc = "set", ![c].id = NewId]
                  /\ UNCHANGED resultChan
             ELSE End(c, "done")
  /\ UNCHANGED <<entries, flow, click, req, import>>

ActivateNew(c) ==
  /\ Runs(c, "set")
  /\ IF cb[c].gone THEN UNCHANGED accounts ELSE SetActive(cb[c].id)
  /\ End(c, "done")
  /\ UNCHANGED <<issued, entries, flow, click, req, import>>

HandleCallbackRequest(c) ==
  \/ TakeState(c) \/ ExchangeCode(c) \/ FindAccount(c) \/ UpdateToken(c)
  \/ UpdateRefreshToken(c) \/ KeepRefreshToken(c) \/ ReviveAccount(c)
  \/ EnsureActive(c) \/ ActivateExisting(c) \/ HasActive(c) \/ CreateAccount(c)
  \/ ActivateNew(c)

-----------------------------------------------------------------------------
(* selectAccount and deleteAccount (switch-account selects) *)

SelectLook(d, i) ==
  /\ Serving /\ click[d].pc = "idle" /\ i \in Rows
  /\ click' = [click EXCEPT ![d] = [pc |-> "select", id |-> i, wasActive |-> FALSE]]
  /\ UNCHANGED <<accounts, issued, oauth, cb, req, import>>

SelectSet(d) ==
  /\ click[d].pc = "select"
  /\ \/ SetActive(click[d].id)
     \/ d \in Leaving /\ UNCHANGED accounts
  /\ click' = [click EXCEPT ![d] = NoClick]
  /\ UNCHANGED <<issued, oauth, cb, req, import>>

DeleteLook(d, i) ==
  /\ Serving /\ click[d].pc = "idle" /\ i \in Rows
  /\ click' = [click EXCEPT ![d] = [pc |-> "delete", id |-> i,
                                    wasActive |-> accounts[i].isActive]]
  /\ UNCHANGED <<accounts, issued, oauth, cb, req, import>>

\* The bucket rows go with the account (ON DELETE CASCADE).
DeleteRow(d) ==
  /\ click[d].pc = "delete"
  /\ \/ /\ click[d].id \in Rows
        /\ accounts' = [accounts EXCEPT ![click[d].id] = NoRow]
        /\ click' = [click EXCEPT ![d] = IF @.wasActive
                                         THEN [NoClick EXCEPT !.pc = "next"] ELSE NoClick]
     \/ /\ click[d].id \notin Rows \/ d \in Leaving
        /\ click' = [click EXCEPT ![d] = NoClick]
        /\ UNCHANGED accounts
  /\ UNCHANGED <<issued, oauth, cb, req, import>>

PromoteLook(d) ==
  /\ click[d].pc = "next"
  /\ \/ \E i \in GetNextAvailable :
          click' = [click EXCEPT ![d] = [NoClick EXCEPT !.pc = "promote", !.id = i]]
     \/ /\ GetNextAvailable = {} \/ d \in Leaving
        /\ click' = [click EXCEPT ![d] = NoClick]
  /\ UNCHANGED <<accounts, issued, oauth, cb, req, import>>

PromoteSet(d) ==
  /\ click[d].pc = "promote"
  /\ \/ SetActive(click[d].id)
     \/ d \in Leaving /\ UNCHANGED accounts
  /\ click' = [click EXCEPT ![d] = NoClick]
  /\ UNCHANGED <<issued, oauth, cb, req, import>>

Dashboard(d) ==
  \/ \E i \in Id : SelectLook(d, i) \/ DeleteLook(d, i)
  \/ SelectSet(d) \/ DeleteRow(d) \/ PromoteLook(d) \/ PromoteSet(d)

-----------------------------------------------------------------------------
(* ServeHTTP: the account of a proxied request, and the renewal of its token *)

Uses(p, i) == req' = [req EXCEPT ![p] = [pc |-> "sent", id |-> i,
                                         cred |-> accounts[i].refresh]]

ResolveAccount(p) ==
  /\ Serving /\ req[p].pc = "idle"
  /\ IF GetActive = {} THEN req' = [req EXCEPT ![p].pc = "pick"]
                       ELSE \E i \in GetActive : Uses(p, i)
  /\ UNCHANGED <<accounts, issued, oauth, cb, click, import>>

\* Nobody is available: 503, or the client's own credentials.
PickAvailable(p) ==
  /\ req[p].pc = "pick"
  /\ IF GetNextAvailable = {} THEN req' = [req EXCEPT ![p] = NoReq]
     ELSE \E i \in GetNextAvailable :
            req' = [req EXCEPT ![p] = [pc |-> "boot", id |-> i,
                                       cred |-> accounts[i].refresh]]
  /\ UNCHANGED <<accounts, issued, oauth, cb, click, import>>

\* Mutant of BootAccount: the pick is used, and not activated.
BootWithoutActivation(p) ==
  /\ req[p].pc = "boot"
  /\ req' = [req EXCEPT ![p].pc = "sent"]
  /\ UNCHANGED <<accounts, issued, oauth, cb, click, import>>

\* The request goes on with the account, whether or not it could be activated.
BootAccount(p) ==
  /\ req[p].pc = "boot"
  /\ SetActive(req[p].id)
  /\ req' = [req EXCEPT ![p].pc = "sent"]
  /\ UNCHANGED <<issued, oauth, cb, click, import>>

\* The answer; after a 401 the renewed access token is stored.
RequestEnds(p) ==
  /\ req[p].pc = "sent"
  /\ accounts' = accounts \/ UpdateAccess(req[p].id, req[p].cred)
  /\ req' = [req EXCEPT ![p] = NoReq]
  /\ UNCHANGED <<issued, oauth, cb, click, import>>

Proxied(p) == ResolveAccount(p) \/ PickAvailable(p) \/ BootAccount(p) \/ RequestEnds(p)

\* The engine or the poller finds an account spent, or its login refused.
AccountFails(i) ==
  /\ Serving /\ i \in Failing \cap Rows /\ accounts[i].status = "active"
  /\ UpdateStatus(i, "error")
  /\ UNCHANGED <<issued, oauth, cb, click, req, import>>

-----------------------------------------------------------------------------
(* AutoImportExistingAccount: list, refresh and user info, create, activate *)

ImportLook ==
  /\ import.pc = "list"
  /\ \/ import' = [import EXCEPT !.pc = "done"]
     \/ /\ Rows = {}
        /\ \E e \in Email : import' = [import EXCEPT !.pc = "create", !.email = e]
  /\ UNCHANGED <<accounts, issued, oauth, cb, click, req>>

ImportCreate ==
  /\ import.pc = "create"
  /\ IF MayInsert(NewRow(import.email, TRUE))
     THEN /\ Insert(NewId, NewRow(import.email, TRUE))
          /\ import' = [import EXCEPT !.pc = "set", !.id = NewId]
     ELSE import' = [import EXCEPT !.pc = "done"] /\ UNCHANGED <<accounts, issued>>
  /\ UNCHANGED <<oauth, cb, click, req>>

ImportActivate ==
  /\ import.pc = "set"
  /\ SetActive(import.id)
  /\ import' = [import EXCEPT !.pc = "done"]
  /\ UNCHANGED <<issued, oauth, cb, click, req>>

Import == ImportLook \/ ImportCreate \/ ImportActivate

-----------------------------------------------------------------------------
Next ==
  \/ Import
  \/ \E f \in Flow : StartLoopbackFlow(f) \/ FlowReturns(f) \/ FlowTimesOut(f)
                     \/ ProcessExits(f) \/ StateAges(f)
  \/ \E c \in Callback : CallbackArrives(c) \/ CallbackLeaves(c)
                         \/ HandleCallbackRequest(c)
  \/ \E d \in Clicker : Dashboard(d)
  \/ \E p \in Request : Proxied(p)
  \/ \E i \in Id : AccountFails(i)

Spec == Init /\ [][Next]_vars

\* Timers fire, exchanges end, and requests keep coming.
Fairness ==
  /\ WF_vars(Import)
  /\ \A f \in Flow : WF_vars(FlowReturns(f) \/ FlowTimesOut(f))
  /\ \A c \in Callback : WF_vars(HandleCallbackRequest(c))
  /\ \A p \in Request : WF_vars(Proxied(p))

FairSpec == Spec /\ Fairness

-----------------------------------------------------------------------------
\* At most one account is in use, whichever of the logins, the import, the
\* dashboard and the requests activate one at the same time. The failover engine
\* and its proofs rely on it.
SingleActive == \A i, j \in GetActive : i = j

\* Whatever is interleaved, the pool loses the account in use only because that
\* account is deleted: an activation whose target has meanwhile gone leaves the
\* old account in place (account_repo.go, SetActive's rollback).
ActiveLostByDeletionOnly ==
  [][GetActive # {} /\ GetActive' = {} => \E i \in GetActive : accounts'[i] = NoRow]_vars

\* The tokens of an account were issued to its own e-mail, although logins and
\* renewals write by an id they read earlier, and accounts are deleted and created
\* again in between.
CredentialsAreOwn ==
  \A i \in Rows : accounts[i].refresh = accounts[i].email
                  /\ accounts[i].access = accounts[i].email

\* The callback got past GetAndRemove.
Redeemed(c) == cb[c].pc \notin {"none", "take", "refused"}

\* A callback that is repeated (a reload, a prefetching browser) or late redeems
\* the authorization code of its flow no second time (StateStore, "single-use").
StateRedeemedOnce ==
  \A c, d \in Callback : Redeemed(c) /\ Redeemed(d) /\ FlowOf[c] = FlowOf[d] => c = d

\* A login comes to an end, with or without callbacks, and no callback is left
\* waiting for a flow that has already returned.
LoginsEnd ==
  /\ \A f \in Flow : flow[f] = "waiting" ~> flow[f] # "waiting"
  /\ \A c \in Callback :
       cb[c].pc = "take" ~> cb[c].pc \in {"refused", "done"} \/ flow[FlowOf[c]] = "over"

\* Whatever left the pool without an account in use (a deletion with nobody to
\* promote, a login that saw another account active), the requests that follow put
\* an available account in use.
PoolServes ==
  GetActive = {} /\ GetNextAvailable # {} ~> GetActive # {} \/ GetNextAvailable = {}
=============================================================================
