---------------------------------- MODULE Oms ----------------------------------
(***************************************************************************)
(* The order management system (crates/oms): the order lifecycle, its CSV  *)
(* repository, its gateway, and the recovery after a restart.              *)
(*                                                                         *)
(* A task is one caller of the Oms API.  It holds at most one order handle *)
(* (the `&mut Order` of the API, a clone of what the repository held when  *)
(* it was obtained) and is either idle or suspended at the await of a      *)
(* gateway call.  What runs between two awaits is one action.  A process   *)
(* may die inside an action, after some of its rows reached the status     *)
(* change file and before the order row did (Persist), or between actions. *)
(*                                                                         *)
(* The repository keeps a map in memory and appends the same rows to files,*)
(* of which the last row of an order wins when they are loaded: `saved`,   *)
(* `clientIndex` and `audit` are both the memory and the files.            *)
(***************************************************************************)
EXTENDS OrderStates, Naturals, Sequences, FiniteSets

CONSTANTS
  Tasks,      \* concurrent callers of the API
  Clients,    \* client order ids
  Gateway,    \* the adapter in use: "Mock" or "Polymarket" (live mode)
  Exclusive,  \* TRUE: callers keep at most one handle per client order id
  UseSync,    \* TRUE: callers use sync_order and recover
  MaxBoots,   \* bound on the starts of the process
  NoOrder, NoEid, NoAnswer, NoClient, NoId

VARIABLES
  up,          \* the process runs
  boots,       \* starts of the process so far
  today,       \* date part of the order ids of this start
  seq,         \* OMS_SEQ, zero at every start
  saved,       \* order id -> last saved order
  clientIndex, \* client order id -> order id
  audit,       \* rows of oms_status_changes.csv
  mixed,       \* history: an order was saved over another client's order
  pc,          \* where each task is
  held,        \* the handle of each task
  want,        \* the new client order id of a replacement under way
  todo,        \* the orders a recovery still has to query
  answer,      \* the gateway's answer to the task's call
  exch,        \* the exchange's orders, in order of arrival
  news         \* gateway outcomes announced on the event bus, per client id

vars == <<up, boots, today, seq, saved, clientIndex, audit, mixed, pc, held,
          want, todo, answer, exch, news>>
store == <<saved, clientIndex, audit, mixed>>
clock == <<boots, today>>

OrderIds == Nat \X Nat
Eids == {"MOCK", "PM"} \X (Clients \cup Nat)

Orders == [id: OrderIds, client: Clients, eid: Eids \cup {NoEid},
           status: OrderStatuses, version: Nat]

Rows == [id: OrderIds, version: Nat, from: OrderStatuses, to: OrderStatuses]

(* GatewayResult: success flag, status as the OMS maps it, order id.       *)
Answers == [ok: BOOLEAN, status: OrderStatuses, eid: Eids \cup {NoEid}]

ExchOrders == [eid: Eids, client: Clients, st: {"live", "cancelled", "filled"}]

Waiting == {"submit", "cancel", "sync", "query"}
PCs == Waiting \cup {"idle", "create", "resubmit", "recover"}

ASSUME NoValues ==
  /\ NoOrder \notin Orders
  /\ NoEid \notin Eids
  /\ NoAnswer \notin Answers
  /\ NoClient \notin Clients
  /\ NoId \notin OrderIds

ASSUME Parameters ==
  /\ Gateway \in {"Mock", "Polymarket"}
  /\ Exclusive \in BOOLEAN /\ UseSync \in BOOLEAN
  /\ MaxBoots \in Nat

--------------------------------------------------------------------------------
(* The order record.                                                       *)

NewOrder(id, c) ==
  [id |-> id, client |-> c, eid |-> NoEid, status |-> "Created", version |-> 1]

(* Mutant: a transition that does not count.                               *)
Advance_SameVersion(o, to) == [o EXCEPT !.status = to]

(* Order::transition: the status and the version.                          *)
Advance(o, to) == [o EXCEPT !.status = to, !.version = @ + 1]

(* Order::record_change runs after the status was assigned, so the row's   *)
(* `from` is the status the order already has.                             *)
ChangeRow(o, to) ==
  LET n == Advance(o, to)
  IN  [id |-> n.id, version |-> n.version, from |-> n.status, to |-> to]

(* CsvRepository::save replaces whatever was filed under the order's id.   *)
Save(o) ==
  /\ mixed' = (mixed \/ (o.id \in DOMAIN saved /\ saved[o.id].client # o.client))
  /\ saved' = [i \in DOMAIN saved \cup {o.id} |-> IF i = o.id THEN o ELSE saved[i]]
  /\ clientIndex' = [clientIndex EXCEPT ![o.client] = o.id]

(* The event apply_gateway_result publishes for a result: GatewayError is  *)
(* followed by OrderRejected whatever the new status is.                   *)
SubmitEvent(ok, s) == IF ok THEN s ELSE "Rejected"

(* sync_order and Recovery::sync_one announce differently.                 *)
SyncEvent(s) == IF s \in {"Filled", "Cancelled", "Rejected"} THEN s ELSE "Accepted"
RecoveryEvent(s) ==
  IF s \in {"Filled", "PartiallyFilled", "Cancelled", "Rejected", "Expired"}
  THEN s ELSE "Accepted"

(* Bound on the failures: the last start of a behaviour does not die.      *)
MayDie == boots < MaxBoots

(* Mutant: the order row is written before the rows of its transitions.    *)
Persist_OrderFirst(t, rows, o, told, next, keep) ==
  /\ Save(o)
  /\ \/ /\ audit' = audit \cup {rows[i] : i \in DOMAIN rows}
        /\ news' = [news EXCEPT ![o.client] = @ \o told]
        /\ held' = [held EXCEPT ![t] = keep]
        /\ pc' = [pc EXCEPT ![t] = next]
        /\ answer' = [answer EXCEPT ![t] = NoAnswer]
        /\ UNCHANGED up
     \/ /\ MayDie /\ up' = FALSE
        /\ \E k \in 0 .. Len(rows) : audit' = audit \cup {rows[i] : i \in 1 .. k}
        /\ UNCHANGED <<news, held, pc, answer>>

(***************************************************************************)
(* The end of a segment of a task that changes an order: the rows of its   *)
(* transitions, then the order row; or the process dies before the order   *)
(* row and only the first rows are in the file.                            *)
(***************************************************************************)
Persist(t, rows, o, told, next, keep) ==
  \/ /\ audit' = audit \cup {rows[i] : i \in DOMAIN rows}
     /\ Save(o)
     /\ news' = [news EXCEPT ![o.client] = @ \o told]
     /\ held' = [held EXCEPT ![t] = keep]
     /\ pc' = [pc EXCEPT ![t] = next]
     /\ answer' = [answer EXCEPT ![t] = NoAnswer]
     /\ UNCHANGED up
  \/ /\ MayDie /\ up' = FALSE
     /\ \E k \in 0 .. Len(rows) : audit' = audit \cup {rows[i] : i \in 1 .. k}
     /\ UNCHANGED <<saved, clientIndex, mixed, news, held, pc, answer>>

(* A segment that ends without touching the order.                         *)
Finish(t, next, keep) ==
  /\ pc' = [pc EXCEPT ![t] = next]
  /\ held' = [held EXCEPT ![t] = keep]
  /\ answer' = [answer EXCEPT ![t] = NoAnswer]
  /\ UNCHANGED <<up, store, news>>

(* The client order ids whose orders a task has copies of.                 *)
InUse(t) ==
  {c \in Clients : \/ held[t] # NoOrder /\ held[t].client = c
                   \/ want[t] = c
                   \/ \E o \in todo[t] : o.client = c}

MayUse(t, c) == Exclusive => \A u \in Tasks \ {t} : c \notin InUse(u)

Idle(t) == up /\ pc[t] = "idle"

--------------------------------------------------------------------------------
(* The API.                                                                *)

(* Mutant: no lookup of the client order id.                               *)
OpenOrder_NoLookup(t, c, next) ==
  /\ seq' = seq + 1
  /\ LET o == NewOrder(<<today, seq + 1>>, c)
     IN  Persist(t, <<>>, o, <<>>, next, o)

(* Lifecycle::create_order, called by a caller or by replace_order: an     *)
(* order with this client id is returned as it is, otherwise a new one is  *)
(* saved.                                                                  *)
OpenOrder(t, c, next) ==
  \/ /\ clientIndex[c] # NoId
     /\ Finish(t, next, saved[clientIndex[c]])
     /\ UNCHANGED seq
  \/ /\ clientIndex[c] = NoId
     /\ seq' = seq + 1
     /\ LET o == NewOrder(<<today, seq + 1>>, c)
        IN  Persist(t, <<>>, o, <<>>, next, o)

CreateOrder(t, c) ==
  /\ Idle(t) /\ held[t] = NoOrder /\ MayUse(t, c)
  /\ OpenOrder(t, c, "idle")
  /\ UNCHANGED <<clock, want, todo, exch>>

(* Oms::get_order: a clone of the saved order.                             *)
GetOrder(t, i) ==
  /\ Idle(t) /\ held[t] = NoOrder
  /\ i \in DOMAIN saved /\ MayUse(t, saved[i].client)
  /\ held' = [held EXCEPT ![t] = saved[i]]
  /\ UNCHANGED <<up, clock, seq, store, pc, want, todo, answer, exch, news>>

DropHandle(t) ==
  /\ Idle(t) /\ held[t] # NoOrder
  /\ held' = [held EXCEPT ![t] = NoOrder]
  /\ UNCHANGED <<up, clock, seq, store, pc, want, todo, answer, exch, news>>

(* Lifecycle::validate_order.  The rules may fail on any order and always  *)
(* fail on one that is not Created; a failure rejects the order.           *)
ValidateOrder(t) ==
  /\ Idle(t) /\ held[t] # NoOrder
  /\ LET o == held[t] IN
     \E passed \in BOOLEAN :
       LET to == IF passed THEN "Validated" ELSE "Rejected" IN
       /\ passed => o.status = "Created"
       /\ ValidTransition(o.status, to)
       /\ Persist(t, <<ChangeRow(o, to)>>, Advance(o, to),
                  IF passed THEN <<>> ELSE <<"Rejected">>, "idle", Advance(o, to))
  /\ UNCHANGED <<clock, seq, want, todo, exch>>

(* Mutant: PendingSubmit is saved, Submitted only once the answer is there. *)
BeginSubmit_SavedLate(t) ==
  LET o == held[t]
      p == IF o.status = "PendingSubmit" THEN o ELSE Advance(o, "PendingSubmit")
  IN  /\ ValidTransition(p.status, "Submitted")
      /\ Persist(t, IF p = o THEN <<>> ELSE <<ChangeRow(o, "PendingSubmit")>>, p, <<>>,
                 "submit", Advance(p, "Submitted"))

(* Lifecycle::submit_order up to its await.  An order that may not become  *)
(* Submitted is an error to the caller and nothing changes: replace_order  *)
(* then ends ("resubmit"), a direct call leaves no trace.                  *)
BeginSubmit(t) ==
  LET o    == held[t]
      jump == o.status \in {"Created", "Validated"}
      p    == IF jump THEN Advance(o, "PendingSubmit") ELSE o
      rows == (IF jump THEN <<ChangeRow(o, "PendingSubmit")>> ELSE <<>>)
              \o <<ChangeRow(p, "Submitted")>>
  IN  \/ /\ ValidTransition(p.status, "Submitted")
         /\ Persist(t, rows, Advance(p, "Submitted"), <<>>, "submit",
                    Advance(p, "Submitted"))
      \/ /\ ~ValidTransition(p.status, "Submitted")
         /\ Finish(t, "idle", o)

SubmitOrder(t) ==
  /\ Idle(t) /\ held[t] # NoOrder
  /\ held[t].status \in {"Created", "Validated", "PendingSubmit"}
  /\ BeginSubmit(t)
  /\ UNCHANGED <<clock, seq, want, todo, exch>>

(* Lifecycle::apply_gateway_result: the answer to a submission.  The order *)
(* is Submitted, from where every answer of the adapters is legal.         *)
SubmitAnswered(t) ==
  /\ up /\ pc[t] = "submit" /\ answer[t] # NoAnswer
  /\ LET r  == answer[t]
         to == IF r.ok THEN r.status
               ELSE IF r.status = "Expired" THEN "Expired" ELSE "Rejected"
         o  == IF r.ok /\ r.eid # NoEid THEN [held[t] EXCEPT !.eid = r.eid]
               ELSE held[t]
         n  == Advance(o, to)
     IN  /\ ValidTransition(o.status, to)
         /\ Persist(t, <<ChangeRow(o, to)>>, n, <<SubmitEvent(r.ok, to)>>, "idle", n)
  /\ UNCHANGED <<clock, seq, want, todo, exch>>

(* Lifecycle::cancel_order after its gateway call, if there was one: the   *)
(* result is not looked at.  A replacement goes on to create its order.    *)
EndCancel(t, replacing) ==
  LET n == Advance(held[t], "Cancelled")
  IN  Persist(t, <<ChangeRow(held[t], "Cancelled")>>, n, <<"Cancelled">>,
              IF replacing THEN "create" ELSE "idle", n)

(* Mutant: orders that have ended are cancelled too.                       *)
BeginCancel_Ended(t, replacing) ==
  \/ held[t].eid # NoEid /\ Finish(t, "cancel", held[t])
  \/ held[t].eid = NoEid /\ EndCancel(t, replacing)

(* Mutant: the gateway is never asked.                                     *)
BeginCancel_Local(t, replacing) ==
  IsActive(held[t].status) /\ EndCancel(t, replacing)

(* Up to the await.  An order the gateway gave no id to is cancelled       *)
(* locally.                                                                *)
BeginCancel(t, replacing) ==
  /\ IsActive(held[t].status)
  /\ \/ held[t].eid # NoEid /\ Finish(t, "cancel", held[t])
     \/ held[t].eid = NoEid /\ EndCancel(t, replacing)

CancelOrder(t) ==
  /\ Idle(t) /\ held[t] # NoOrder
  /\ BeginCancel(t, FALSE)
  /\ UNCHANGED <<clock, seq, want, todo, exch>>

CancelAnswered(t) ==
  /\ up /\ pc[t] = "cancel" /\ answer[t] # NoAnswer
  /\ EndCancel(t, want[t] # NoClient)
  /\ UNCHANGED <<clock, seq, want, todo, exch>>

(* Lifecycle::replace_order = cancel, create, submit.  Cancelling an order *)
(* that is not active succeeds without doing anything.                     *)
ReplaceOrder(t, c) ==
  /\ Idle(t) /\ held[t] # NoOrder /\ MayUse(t, c)
  /\ want' = [want EXCEPT ![t] = c]
  /\ \/ BeginCancel(t, TRUE)
     \/ ~IsActive(held[t].status) /\ Finish(t, "create", held[t])
  /\ UNCHANGED <<clock, seq, todo, exch>>

CreateReplacement(t) ==
  /\ up /\ pc[t] = "create"
  /\ OpenOrder(t, want[t], "resubmit")
  /\ want' = [want EXCEPT ![t] = NoClient]
  /\ UNCHANGED <<clock, todo, exch>>

SubmitReplacement(t) ==
  /\ up /\ pc[t] = "resubmit"
  /\ BeginSubmit(t)
  /\ UNCHANGED <<clock, seq, want, todo, exch>>

(* What a query's answer makes of an order, in sync_order and in           *)
(* Recovery::sync_one: nothing when the status is the same or may not      *)
(* follow; no row of the status change file otherwise.                     *)
Reconcile(t, told(_), next, same, changed(_)) ==
  LET o == held[t]  to == answer[t].status  n == Advance(o, to)
  IN  IF to # o.status /\ ValidTransition(o.status, to)
      THEN Persist(t, <<>>, n, <<told(to)>>, next, changed(n))
      ELSE Finish(t, next, same)

SyncOrder(t) ==
  /\ UseSync /\ Idle(t) /\ held[t] # NoOrder /\ held[t].eid # NoEid
  /\ Finish(t, "sync", held[t])
  /\ UNCHANGED <<clock, seq, want, todo, exch>>

SyncAnswered(t) ==
  /\ up /\ pc[t] = "sync" /\ answer[t] # NoAnswer
  /\ Reconcile(t, SyncEvent, "idle", held[t], LAMBDA n : n)
  /\ UNCHANGED <<clock, seq, want, todo, exch>>

(* Recovery::run: a snapshot of the active orders; those the gateway gave  *)
(* no id to count as synced without a query.                               *)
StartRecovery(t) ==
  /\ UseSync /\ Idle(t) /\ held[t] = NoOrder
  /\ todo' = [todo EXCEPT ![t] =
        {o \in {saved[i] : i \in DOMAIN saved} : IsActive(o.status) /\ o.eid # NoEid}]
  /\ \A i \in DOMAIN saved : IsActive(saved[i].status) => MayUse(t, saved[i].client)
  /\ Finish(t, "recover", NoOrder)
  /\ UNCHANGED <<clock, seq, want, exch>>

(* Mutant: the order stays in the list.                                    *)
RecoverNext_Again(t) ==
  /\ up /\ pc[t] = "recover"
  /\ \E o \in todo[t] : Finish(t, "query", o)
  /\ UNCHANGED <<clock, seq, want, todo, exch>>

RecoverNext(t) ==
  /\ up /\ pc[t] = "recover"
  /\ \E o \in todo[t] :
       /\ todo' = [todo EXCEPT ![t] = @ \ {o}]
       /\ Finish(t, "query", o)
  /\ UNCHANGED <<clock, seq, want, exch>>

RecoveryAnswered(t) ==
  /\ up /\ pc[t] = "query" /\ answer[t] # NoAnswer
  /\ Reconcile(t, RecoveryEvent, "recover", NoOrder, LAMBDA n : NoOrder)
  /\ UNCHANGED <<clock, seq, want, todo, exch>>

RecoveryDone(t) ==
  /\ up /\ pc[t] = "recover" /\ todo[t] = {}
  /\ Finish(t, "idle", NoOrder)
  /\ UNCHANGED <<clock, seq, want, todo, exch>>

--------------------------------------------------------------------------------
(* The gateway and the exchange behind it.                                 *)

Answered(t, ok, s, e) ==
  answer' = [answer EXCEPT ![t] =
               [ok |-> ok, status |-> FromExecution(s), eid |-> e]]

(* The mock dies with the process; a request to the exchange does not.     *)
Reachable == Gateway = "Mock" => up

NewEid(c) == IF Gateway = "Mock" THEN <<"MOCK", c>> ELSE <<"PM", Len(exch) + 1>>

(* MockGateway::submit_order expires the order without recording it or     *)
(* fills it; PolymarketGateway::submit_order accepts it, or fails with or  *)
(* without the exchange having taken the request.                          *)
GatewaySubmit(t) ==
  /\ Reachable /\ pc[t] = "submit" /\ answer[t] = NoAnswer
  /\ LET c == held[t].client
         e == NewEid(c)
     IN  \/ /\ exch' = Append(exch, [eid |-> e, client |-> c, st |-> "live"])
            /\ \/ /\ Gateway = "Mock"
                  /\ \E s \in {"Filled", "PartiallyFilled"} : Answered(t, TRUE, s, e)
               \/ /\ Gateway = "Polymarket"
                  /\ \/ Answered(t, TRUE, "Accepted", e)
                     \/ Answered(t, FALSE, "Failed", NoEid)
         \/ /\ UNCHANGED exch
            /\ Answered(t, FALSE, IF Gateway = "Mock" THEN "Expired" ELSE "Failed", NoEid)
  /\ UNCHANGED <<up, clock, seq, store, pc, held, want, todo, news>>

Kill(e) ==
  exch' = [k \in DOMAIN exch |->
             IF exch[k].eid = e /\ exch[k].st = "live"
             THEN [exch[k] EXCEPT !.st = "cancelled"] ELSE exch[k]]

(* cancel_order: the mock always succeeds; Polymarket's answer is failed   *)
(* when the request or its answer is lost or the exchange refuses.         *)
GatewayCancel(t) ==
  /\ Reachable /\ pc[t] = "cancel" /\ answer[t] = NoAnswer
  /\ \/ Kill(held[t].eid) /\ Answered(t, TRUE, "Cancelled", held[t].eid)
     \/ /\ Gateway = "Polymarket" /\ Answered(t, FALSE, "Failed", NoEid)
        /\ Kill(held[t].eid) \/ UNCHANGED exch
  /\ UNCHANGED <<up, clock, seq, store, pc, held, want, todo, news>>

(* get_order: the mock knows the orders of its list, and expires others;   *)
(* Polymarket accepts whatever status an HTTP success carries.             *)
GatewayQuery(t) ==
  /\ Reachable /\ pc[t] \in {"sync", "query"} /\ answer[t] = NoAnswer
  /\ LET e == held[t].eid
         known == \E k \in DOMAIN exch : exch[k].eid = e /\ exch[k].st = "live"
     IN  \/ /\ Gateway = "Polymarket" \/ known
            /\ Answered(t, TRUE, "Accepted", e)
         \/ /\ Gateway = "Mock" /\ ~known
            /\ Answered(t, FALSE, "Expired", NoEid)
         \/ Gateway = "Polymarket" /\ Answered(t, FALSE, "Failed", NoEid)
  /\ UNCHANGED <<up, clock, seq, store, exch, pc, held, want, todo, news>>

(* The exchange matches an order; the OMS is not told.                     *)
ExchangeFill(k) ==
  /\ Gateway = "Polymarket" /\ exch[k].st = "live"
  /\ exch' = [exch EXCEPT ![k].st = "filled"]
  /\ UNCHANGED <<up, clock, seq, store, pc, held, want, todo, answer, news>>

--------------------------------------------------------------------------------
(* The process.                                                            *)

Crash ==
  /\ up /\ MayDie
  /\ up' = FALSE
  /\ UNCHANGED <<clock, seq, store, pc, held, want, todo, answer, exch, news>>

(* A start: CsvRepository::load_into_memory finds the saved rows, OMS_SEQ  *)
(* counts from zero, the mock's list is empty.  On the same day the ids    *)
(* that were given are given again.                                        *)
Boot ==
  /\ ~up
  /\ up' = TRUE
  /\ boots' = boots + 1
  /\ today' \in {today, today + 1}
  /\ seq' = 0
  /\ pc' = [t \in Tasks |-> "idle"]
  /\ held' = [t \in Tasks |-> NoOrder]
  /\ want' = [t \in Tasks |-> NoClient]
  /\ todo' = [t \in Tasks |-> {}]
  /\ answer' = [t \in Tasks |-> NoAnswer]
  /\ news' = [c \in Clients |-> <<>>]
  /\ exch' = IF Gateway = "Mock"
             THEN [k \in DOMAIN exch |-> [exch[k] EXCEPT !.st = "cancelled"]]
             ELSE exch
  /\ UNCHANGED store

Init ==
  /\ up = TRUE /\ boots = 1 /\ today = 1 /\ seq = 0
  /\ saved = <<>>
  /\ clientIndex = [c \in Clients |-> NoId]
  /\ audit = {} /\ mixed = FALSE
  /\ pc = [t \in Tasks |-> "idle"]
  /\ held = [t \in Tasks |-> NoOrder]
  /\ want = [t \in Tasks |-> NoClient]
  /\ todo = [t \in Tasks |-> {}]
  /\ answer = [t \in Tasks |-> NoAnswer]
  /\ exch = <<>>
  /\ news = [c \in Clients |-> <<>>]

Call(t) ==
  \/ \E c \in Clients : CreateOrder(t, c) \/ ReplaceOrder(t, c)
  \/ \E i \in DOMAIN saved : GetOrder(t, i)
  \/ DropHandle(t) \/ ValidateOrder(t) \/ SubmitOrder(t) \/ CancelOrder(t)
  \/ SyncOrder(t) \/ StartRecovery(t)

Resume(t) ==
  \/ SubmitAnswered(t) \/ CancelAnswered(t) \/ SyncAnswered(t)
  \/ CreateReplacement(t) \/ SubmitReplacement(t)
  \/ RecoverNext(t) \/ RecoveryAnswered(t) \/ RecoveryDone(t)

GatewayReply(t) == GatewaySubmit(t) \/ GatewayCancel(t) \/ GatewayQuery(t)

Next ==
  \/ \E t \in Tasks : Call(t) \/ Resume(t) \/ GatewayReply(t)
  \/ \E k \in DOMAIN exch : ExchangeFill(k)
  \/ Crash \/ Boot

Spec == Init /\ [][Next]_vars

(* Every call in progress goes on: the executor resumes a task whose       *)
(* answer is there, and every gateway call ends, by an answer or by the    *)
(* transport's timeout.  Nothing is assumed of callers or of crashes.      *)
Fairness == \A t \in Tasks : WF_vars(Resume(t)) /\ WF_vars(GatewayReply(t))

FairSpec == Spec /\ Fairness

--------------------------------------------------------------------------------
(* Properties.                                                             *)

(* The types of the state: orders in the repository are filed under their  *)
(* own id.                                                                 *)
TypeOK ==
  /\ up \in BOOLEAN /\ boots \in Nat /\ today \in Nat /\ seq \in Nat
  /\ DOMAIN saved \subseteq OrderIds
  /\ saved \in [DOMAIN saved -> Orders]
  /\ \A i \in DOMAIN saved : saved[i].id = i
  /\ clientIndex \in [Clients -> DOMAIN saved \cup {NoId}]
  /\ audit \subseteq Rows /\ mixed \in BOOLEAN
  /\ pc \in [Tasks -> PCs]
  /\ held \in [Tasks -> Orders \cup {NoOrder}]
  /\ want \in [Tasks -> Clients \cup {NoClient}]
  /\ todo \in [Tasks -> SUBSET Orders]
  /\ answer \in [Tasks -> Answers \cup {NoAnswer}]
  /\ exch \in Seq(ExchOrders)
  /\ news \in [Clients -> Seq(OrderStatuses)]

(* The order a client order id stands for in the repository.               *)
OrderOf(c) == saved[clientIndex[c]]
Known(c) == clientIndex[c] # NoId

BeforeSend == {"Created", "Validated", "PendingSubmit"}

(* However calls, crashes and restarts interleave, the exchange receives   *)
(* at most one order for a client order id: the idempotency of             *)
(* create_order together with the save of Submitted before the call.       *)
AtMostOnceSubmission ==
  \A j, k \in DOMAIN exch : exch[j].client = exch[k].client => j = k

SentAreSaved ==
  \A k \in DOMAIN exch :
    /\ Known(exch[k].client)
    /\ OrderOf(exch[k].client).client = exch[k].client
    /\ OrderOf(exch[k].client).status \notin BeforeSend

(* No order reaches the exchange that the repository would not remember,   *)
(* after a restart, as submitted, until another client's order is saved    *)
(* under its id.                                                           *)
PersistBeforeSend == ~mixed => SentAreSaved

(* Looking an order up by its client order id finds that client's order.   *)
FindsOwnOrder == \A c \in Clients : Known(c) => OrderOf(c).client = c

(* An order saved as Cancelled is not live at the exchange.                *)
CancelledIsDead ==
  \A k \in DOMAIN exch :
    /\ exch[k].st = "live" /\ Known(exch[k].client)
    => OrderOf(exch[k].client).status # "Cancelled"

(* Subscribers hear of at most one end of an order, and only of an order   *)
(* that the repository has as ended.                                       *)
OneEndAnnounced ==
  \A c \in Clients :
    LET ends == {k \in DOMAIN news[c] : IsTerminal(news[c][k])}
    IN  /\ Cardinality(ends) <= 1
        /\ up /\ ends # {} => Known(c) /\ IsTerminal(OrderOf(c).status)

(* A status that only the lifecycle sets came with its row in the status   *)
(* change file, wherever the process died between the two files (sync_order*)
(* and recover, which write no rows, set none of these: get_order answers  *)
(* Accepted, Expired or Failed).                                           *)
LifecycleStatuses ==
  {"Validated", "Submitted", "PartiallyFilled", "Filled", "Cancelled"}

AuditCovers ==
  \A i \in DOMAIN saved :
    saved[i].status \in LifecycleStatuses
    => \E r \in audit : /\ r.id = i /\ r.version = saved[i].version
                       /\ r.to = saved[i].status

(* A terminal order in the repository never changes again, except when the *)
(* step files another client's order under its id.                         *)
TerminalIsFinal ==
  [][~mixed' => \A i \in DOMAIN saved :
                  IsTerminal(saved[i].status) => saved'[i] = saved[i]]_vars

(* A saved order is replaced by a later version only, with the same        *)
(* exception.                                                              *)
VersionsGrow ==
  [][~mixed' => \A i \in DOMAIN saved :
                  saved'[i] # saved[i] => saved'[i].version > saved[i].version]_vars

(* Every call returns to its caller unless the process dies first.         *)
CallsReturn == \A t \in Tasks : pc[t] # "idle" ~> (pc[t] = "idle" \/ ~up)

(* The inductive invariant behind the guarantees above, for callers that   *)
(* keep one handle per client order id, while no order id is given twice.  *)

(* A handle, or a snapshot a recovery works on, is what the repository has.*)
HandlesCurrent ==
  \A t \in Tasks :
    /\ held[t] # NoOrder => /\ held[t].id \in DOMAIN saved
                           /\ saved[held[t].id] = held[t]
    /\ \A o \in todo[t] : o.id \in DOMAIN saved /\ saved[o.id] = o

HandlesDisjoint ==
  \A t, u \in Tasks : t # u => InUse(t) \cap InUse(u) = {}

TodoApart ==
  \A t \in Tasks :
    /\ pc[t] \notin {"recover", "query"} => todo[t] = {}
    /\ \A o \in todo[t] : held[t] # NoOrder => held[t].client # o.client

(* The client index is exactly the inverse of the orders' client ids.      *)
IndexExact ==
  /\ \A i \in DOMAIN saved : clientIndex[saved[i].client] = i
  /\ \A c \in Clients : Known(c) => OrderOf(c).client = c

CallsHold ==
  \A t \in Tasks :
    /\ pc[t] \in Waiting \cup {"resubmit"} => held[t] # NoOrder
    /\ pc[t] = "recover" => held[t] = NoOrder
    /\ up /\ pc[t] = "create" => want[t] # NoClient

(* A submission that has not been answered has not arrived.                *)
Undelivered ==
  \A t \in Tasks :
    /\ pc[t] = "submit" => held[t].status = "Submitted"
    /\ pc[t] = "submit" /\ answer[t] = NoAnswer
       => \A k \in DOMAIN exch : exch[k].client # held[t].client
    /\ pc[t] = "cancel" => IsActive(held[t].status)

IInv ==
  /\ TypeOK
  /\ HandlesCurrent /\ HandlesDisjoint /\ TodoApart
  /\ IndexExact /\ CallsHold /\ Undelivered
  /\ SentAreSaved /\ AtMostOnceSubmission

StatusOf(c) == IF Known(c) THEN OrderOf(c).status ELSE "None"
Received(c) == Cardinality({k \in DOMAIN exch : exch[k].client = c})

Promise == INSTANCE OrderPromise WITH
  st <- [c \in Clients |-> StatusOf(c)],
  sent <- [c \in Clients |-> Received(c)]

(* The OMS implements OrderPromise, step by step, until an order is saved  *)
(* over another client's.                                                  *)
KeepsPromise ==
  Promise!PromiseInit /\ [][mixed' \/ Promise!PromiseNext]_(Promise!pvars)
================================================================================
