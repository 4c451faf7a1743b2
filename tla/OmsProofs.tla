------------------------------- MODULE OmsProofs -------------------------------
(***************************************************************************)
(* Theorems about Oms for every number of callers, client order ids and    *)
(* starts.                                                                 *)
(***************************************************************************)
EXTENDS Oms, SequenceTheorems, FiniteSetTheorems, TLAPS

(* What a step is assumed to respect: callers keep one handle per client   *)
(* order id, and no order is saved over another client order id's.         *)
Disciplined == Exclusive /\ ~mixed'

(* A transition of an order is an order, and its row is a row.             *)
LEMMA AdvanceType ==
  ASSUME NEW o \in Orders, NEW s \in OrderStatuses
  PROVE  /\ Advance(o, s) \in Orders
         /\ Advance(o, s).id = o.id
         /\ Advance(o, s).client = o.client
         /\ Advance(o, s).eid = o.eid
         /\ Advance(o, s).status = s
         /\ Advance(o, s).version = o.version + 1
         /\ ChangeRow(o, s) \in Rows
<1>1. o.version + 1 \in Nat
  BY DEF Orders
<1>2. Advance(o, s) = [o EXCEPT !.status = s, !.version = o.version + 1]
  BY DEF Advance, Orders
<1>3. Advance(o, s) \in Orders
  BY <1>1, <1>2 DEF Orders
<1>4. /\ Advance(o, s).id = o.id
      /\ Advance(o, s).client = o.client
      /\ Advance(o, s).eid = o.eid
      /\ Advance(o, s).status = s
      /\ Advance(o, s).version = o.version + 1
  BY <1>2 DEF Orders
<1>5. ChangeRow(o, s) \in Rows
  <2>1. /\ Advance(o, s).status = s
        /\ Advance(o, s).version \in Nat
        /\ Advance(o, s).id \in OrderIds
    BY <1>3, <1>4 DEF Orders
  <2> QED
    BY <2>1 DEF ChangeRow, Rows
<1> QED
  BY <1>3, <1>4, <1>5

(* The statuses the actions name are statuses, and so is what a gateway's  *)
(* status means.                                                           *)
LEMMA StatusType ==
  /\ {"Created", "Validated", "PendingSubmit", "Submitted", "Accepted",
      "PartiallyFilled", "Filled", "Cancelled", "Rejected", "Expired"}
        \subseteq OrderStatuses
  /\ \A s \in {"Accepted", "PartiallyFilled", "Filled", "Cancelled", "Failed",
              "Expired"} : FromExecution(s) \in OrderStatuses
  BY DEF OrderStatuses, Terminal, FromExecution

(* A waiting call has a handle, a recovery between two queries has none.   *)
Handled ==
  \A t \in Tasks :
    /\ pc[t] \in Waiting \cup {"resubmit"} => held[t] # NoOrder
    /\ pc[t] = "recover" => held[t] = NoOrder

(* The variables Persist and Finish write.                                 *)
WrittenOK ==
  /\ up \in BOOLEAN
  /\ DOMAIN saved \subseteq OrderIds
  /\ saved \in [DOMAIN saved -> Orders]
  /\ \A i \in DOMAIN saved : saved[i].id = i
  /\ clientIndex \in [Clients -> DOMAIN saved \cup {NoId}]
  /\ audit \subseteq Rows /\ mixed \in BOOLEAN
  /\ pc \in [Tasks -> PCs]
  /\ held \in [Tasks -> Orders \cup {NoOrder}]
  /\ answer \in [Tasks -> Answers \cup {NoAnswer}]
  /\ news \in [Clients -> Seq(OrderStatuses)]

(* A segment moves its own task, and only if the process survives it.      *)
Moves(t, next) ==
  /\ \A u \in Tasks \ {t} : pc'[u] = pc[u]
  /\ up' => up /\ pc'[t] = next

(* Where a segment may leave a task with a given handle.                   *)
Leaves(next, keep) ==
  /\ next \in PCs
  /\ keep \in Orders \cup {NoOrder}
  /\ next \in Waiting \cup {"resubmit"} => keep # NoOrder
  /\ next = "recover" => keep = NoOrder

LEMMA PersistType ==
  ASSUME TypeOK, Handled, up, NEW t \in Tasks, NEW rows \in Seq(Rows),
         NEW o \in Orders, NEW told \in Seq(OrderStatuses), NEW next, NEW keep,
         Leaves(next, keep), Persist(t, rows, o, told, next, keep)
  PROVE  WrittenOK' /\ Handled' /\ Moves(t, next)
<1>1. o.id \in OrderIds /\ o.client \in Clients
  BY DEF Orders
<1>2. \A i \in DOMAIN rows : rows[i] \in Rows
  OBVIOUS
<1>3. CASE /\ audit' = audit \cup {rows[i] : i \in DOMAIN rows}
           /\ Save(o)
           /\ news' = [news EXCEPT ![o.client] = @ \o told]
           /\ held' = [held EXCEPT ![t] = keep]
           /\ pc' = [pc EXCEPT ![t] = next]
           /\ answer' = [answer EXCEPT ![t] = NoAnswer]
           /\ UNCHANGED up
  <2>1. /\ DOMAIN saved' = DOMAIN saved \cup {o.id}
        /\ saved' \in [DOMAIN saved' -> Orders]
        /\ \A i \in DOMAIN saved' : saved'[i].id = i
    BY <1>1, <1>3 DEF Save, TypeOK
  <2>2. clientIndex' \in [Clients -> DOMAIN saved' \cup {NoId}]
    BY <1>1, <1>3, <2>1 DEF Save, TypeOK
  <2>3. news' \in [Clients -> Seq(OrderStatuses)]
    BY <1>1, <1>3 DEF TypeOK
  <2>4. audit' \subseteq Rows
    BY <1>2, <1>3 DEF TypeOK
  <2>5. /\ pc' \in [Tasks -> PCs]
        /\ held' \in [Tasks -> Orders \cup {NoOrder}]
        /\ answer' \in [Tasks -> Answers \cup {NoAnswer}]
    BY <1>3 DEF TypeOK, Leaves
  <2>6. Handled' /\ Moves(t, next)
    BY <1>3 DEF TypeOK, Leaves, Handled, Moves
  <2>7. mixed' \in BOOLEAN
    BY <1>3 DEF Save
  <2> QED
    BY <1>1, <1>3, <2>1, <2>2, <2>3, <2>4, <2>5, <2>6, <2>7 DEF TypeOK, WrittenOK
<1>4. CASE /\ up' = FALSE
           /\ \E k \in 0 .. Len(rows) : audit' = audit \cup {rows[i] : i \in 1 .. k}
           /\ UNCHANGED <<saved, clientIndex, mixed, news, held, pc, answer>>
  <2>1. audit' \subseteq Rows
    <3>1. PICK k \in 0 .. Len(rows) : audit' = audit \cup {rows[i] : i \in 1 .. k}
      BY <1>4
    <3>2. 1 .. k \subseteq DOMAIN rows
      OBVIOUS
    <3> QED
      BY <1>2, <3>1, <3>2 DEF TypeOK
  <2>2. Handled' /\ Moves(t, next)
    BY <1>4 DEF Handled, Moves
  <2> QED
    BY <1>4, <2>1, <2>2 DEF TypeOK, WrittenOK
<1> QED
  BY <1>3, <1>4 DEF Persist

LEMMA FinishType ==
  ASSUME TypeOK, Handled, up, NEW t \in Tasks, NEW next, NEW keep,
         Leaves(next, keep), Finish(t, next, keep)
  PROVE  WrittenOK' /\ Handled' /\ Moves(t, next)
<1>1. WrittenOK'
  BY DEF Finish, TypeOK, WrittenOK, store, Leaves
<1>2. Handled' /\ Moves(t, next)
  BY DEF Finish, TypeOK, Handled, Moves, Leaves
<1> QED
  BY <1>1, <1>2

LEMMA OpenOrderType ==
  ASSUME TypeOK, Handled, up, NEW t \in Tasks, NEW c \in Clients,
         NEW next \in PCs \ {"recover"}, OpenOrder(t, c, next)
  PROVE  WrittenOK' /\ Handled' /\ Moves(t, next) /\ seq' \in Nat
<1>1. CASE /\ clientIndex[c] # NoId
           /\ Finish(t, next, saved[clientIndex[c]])
           /\ UNCHANGED seq
  <2>1. saved[clientIndex[c]] \in Orders
    BY <1>1 DEF TypeOK
  <2>2. Leaves(next, saved[clientIndex[c]])
    BY <2>1, NoValues DEF Leaves
  <2> QED
    BY <1>1, <2>2, FinishType DEF TypeOK
<1>2. CASE /\ seq' = seq + 1
           /\ Persist(t, <<>>, NewOrder(<<today, seq + 1>>, c), <<>>, next,
                      NewOrder(<<today, seq + 1>>, c))
  <2> DEFINE n == NewOrder(<<today, seq + 1>>, c)
  <2>1. n \in Orders
    BY StatusType DEF TypeOK, NewOrder, Orders, OrderIds
  <2>2. Leaves(next, n)
    BY <2>1, NoValues DEF Leaves
  <2>3. <<>> \in Seq(Rows) /\ <<>> \in Seq(OrderStatuses)
    OBVIOUS
  <2> HIDE DEF n
  <2>4. WrittenOK' /\ Handled' /\ Moves(t, next)
    BY <1>2, <2>1, <2>2, <2>3, PersistType DEF n
  <2> QED
    BY <1>2, <2>4 DEF TypeOK
<1> QED
  BY <1>1, <1>2 DEF OpenOrder

LEMMA BeginSubmitType ==
  ASSUME TypeOK, Handled, up, NEW t \in Tasks, held[t] # NoOrder, BeginSubmit(t)
  PROVE  /\ WrittenOK' /\ Handled'
         /\ \E next \in {"submit", "idle"} : Moves(t, next)
<1> DEFINE o == held[t]
           jump == o.status \in {"Created", "Validated"}
           p == IF jump THEN Advance(o, "PendingSubmit") ELSE o
           n == Advance(p, "Submitted")
           rows == (IF jump THEN <<ChangeRow(o, "PendingSubmit")>> ELSE <<>>)
                   \o <<ChangeRow(p, "Submitted")>>
<1>1. o \in Orders /\ p \in Orders
  BY AdvanceType, StatusType DEF TypeOK
<1>2. n \in Orders /\ ChangeRow(p, "Submitted") \in Rows
  BY <1>1, AdvanceType, StatusType
<1>3. ChangeRow(o, "PendingSubmit") \in Rows
  BY <1>1, AdvanceType, StatusType
<1>4. rows \in Seq(Rows)
  BY <1>2, <1>3
<1>5. \/ Persist(t, rows, n, <<>>, "submit", n)
      \/ Finish(t, "idle", o)
  BY DEF BeginSubmit
<1>6. Leaves("submit", n) /\ Leaves("idle", o)
  BY <1>1, <1>2, NoValues DEF Leaves, PCs, Waiting
<1>7. <<>> \in Seq(OrderStatuses)
  OBVIOUS
<1> HIDE DEF o, rows, p, n
<1> QED
  BY <1>1, <1>2, <1>4, <1>5, <1>6, <1>7, PersistType, FinishType

LEMMA CancelType ==
  ASSUME TypeOK, Handled, up, NEW t \in Tasks, held[t] # NoOrder,
         NEW replacing \in BOOLEAN, EndCancel(t, replacing)
  PROVE  /\ WrittenOK' /\ Handled'
         /\ Moves(t, IF replacing THEN "create" ELSE "idle")
<1> DEFINE o == held[t]
           n == Advance(o, "Cancelled")
           next == IF replacing THEN "create" ELSE "idle"
<1>1. o \in Orders
  BY DEF TypeOK
<1>2. n \in Orders /\ ChangeRow(o, "Cancelled") \in Rows
  BY <1>1, AdvanceType, StatusType
<1>3. Leaves(next, n)
  BY <1>2, NoValues DEF Leaves, PCs, Waiting
<1>4. <<ChangeRow(o, "Cancelled")>> \in Seq(Rows) /\ <<"Cancelled">> \in Seq(OrderStatuses)
  BY <1>2, StatusType
<1>5. Persist(t, <<ChangeRow(o, "Cancelled")>>, n, <<"Cancelled">>, next, n)
  BY DEF EndCancel
<1> HIDE DEF o, n, next
<1>6. WrittenOK' /\ Handled' /\ Moves(t, next)
  BY <1>2, <1>3, <1>4, <1>5, PersistType
<1> QED
  BY <1>6 DEF next

LEMMA BeginCancelType ==
  ASSUME TypeOK, Handled, up, NEW t \in Tasks, held[t] # NoOrder,
         NEW replacing \in BOOLEAN, BeginCancel(t, replacing)
  PROVE  /\ WrittenOK' /\ Handled'
         /\ \E next \in {"cancel"} \cup {IF replacing THEN "create" ELSE "idle"} :
               Moves(t, next)
<1>1. CASE held[t].eid # NoEid /\ Finish(t, "cancel", held[t])
  <2>1. Leaves("cancel", held[t])
    BY DEF TypeOK, Leaves, PCs, Waiting
  <2> QED
    BY <1>1, <2>1, FinishType
<1>2. CASE EndCancel(t, replacing)
  BY <1>2, CancelType
<1> QED
  BY <1>1, <1>2 DEF BeginCancel

LEMMA ReconcileType ==
  ASSUME TypeOK, Handled, up, NEW t \in Tasks, held[t] # NoOrder,
         answer[t] # NoAnswer, NEW next, NEW same, NEW n, NEW keep, NEW told,
         n = Advance(held[t], answer[t].status),
         told \in OrderStatuses,
         n \in Orders => Leaves(next, same) /\ Leaves(next, keep),
         \/ Persist(t, <<>>, n, <<told>>, next, keep)
         \/ Finish(t, next, same)
  PROVE  WrittenOK' /\ Handled' /\ Moves(t, next)
<1>1. held[t] \in Orders /\ answer[t].status \in OrderStatuses
  BY DEF TypeOK, Answers
<1>2. n \in Orders
  BY <1>1, AdvanceType
<1>3. <<>> \in Seq(Rows) /\ <<told>> \in Seq(OrderStatuses)
  OBVIOUS
<1> QED
  BY <1>2, <1>3, PersistType, FinishType

LEMMA EventType ==
  \A s \in OrderStatuses : /\ SyncEvent(s) \in OrderStatuses
                           /\ RecoveryEvent(s) \in OrderStatuses
                           /\ \A ok \in BOOLEAN : SubmitEvent(ok, s) \in OrderStatuses
BY StatusType DEF SyncEvent, RecoveryEvent, SubmitEvent

(* The rest of the type invariant, and of CallsHold.                       *)
OthersOK ==
  /\ boots \in Nat /\ today \in Nat /\ seq \in Nat
  /\ want \in [Tasks -> Clients \cup {NoClient}]
  /\ todo \in [Tasks -> SUBSET Orders]
  /\ exch \in Seq(ExchOrders)
Wanted == \A t \in Tasks : up /\ pc[t] = "create" => want[t] # NoClient

LEMMA TypeParts ==
  /\ TypeOK <=> WrittenOK /\ OthersOK
  /\ CallsHold <=> Handled /\ Wanted
BY DEF TypeOK, WrittenOK, OthersOK, CallsHold, Handled, Wanted

(* The calls keep the types.                                               *)
LEMMA CallType ==
  ASSUME TypeOK, CallsHold, NEW t \in Tasks, Call(t)
  PROVE  TypeOK' /\ CallsHold'
<1> USE TypeParts
<1> SUFFICES WrittenOK' /\ OthersOK' /\ Handled' /\ Wanted'
  BY DEF TypeOK, WrittenOK, OthersOK, CallsHold, Handled, Wanted
<1>0. pc[t] = "idle" /\ up
  BY DEF Call, CreateOrder, ReplaceOrder, GetOrder, DropHandle, ValidateOrder,
         SubmitOrder, CancelOrder, SyncOrder, StartRecovery, Idle
<1>1. ASSUME NEW c \in Clients, CreateOrder(t, c)
      PROVE  WrittenOK' /\ OthersOK' /\ Handled' /\ Wanted'
  <2>1. WrittenOK' /\ Handled' /\ Moves(t, "idle") /\ seq' \in Nat
    BY <1>0, <1>1, OpenOrderType DEF CreateOrder, PCs, Waiting
  <2> QED
    BY <1>1, <2>1 DEF CreateOrder, OthersOK, Wanted, Moves, clock
<1>2. ASSUME NEW c \in Clients, ReplaceOrder(t, c)
      PROVE  WrittenOK' /\ OthersOK' /\ Handled' /\ Wanted'
  <2>1. WrittenOK' /\ Handled' /\ \E next \in {"cancel", "create"} : Moves(t, next)
    <3>1. CASE BeginCancel(t, TRUE)
      BY <1>0, <1>2, <3>1, BeginCancelType DEF ReplaceOrder
    <3>2. CASE Finish(t, "create", held[t])
      <4>1. Leaves("create", held[t])
        BY <1>2 DEF ReplaceOrder, Leaves, OthersOK, WrittenOK, PCs, Waiting
      <4> QED
        BY <1>0, <3>2, <4>1, FinishType
    <3> QED
      BY <1>2, <3>1, <3>2 DEF ReplaceOrder
  <2>2. OthersOK' /\ want'[t] = c /\ \A u \in Tasks \ {t} : want'[u] = want[u]
    BY <1>2 DEF ReplaceOrder, OthersOK, clock
  <2>3. c # NoClient
    BY NoValues
  <2> QED
    BY <2>1, <2>2, <2>3 DEF Wanted, Moves
<1>3. ASSUME NEW i \in DOMAIN saved, GetOrder(t, i)
      PROVE  WrittenOK' /\ OthersOK' /\ Handled' /\ Wanted'
  <2>1. saved[i] \in Orders /\ saved[i] # NoOrder
    BY NoValues DEF WrittenOK
  <2> QED
    BY <1>0, <1>3, <2>1 DEF GetOrder, WrittenOK, OthersOK, Handled, Wanted, clock, store, Waiting
<1>4. CASE DropHandle(t)
  BY <1>0, <1>4 DEF DropHandle, WrittenOK, OthersOK, Handled, Wanted, clock, store, Waiting
<1>5. CASE ValidateOrder(t)
  <2> DEFINE o == held[t]
  <2>1. PICK passed \in BOOLEAN :
          LET to == IF passed THEN "Validated" ELSE "Rejected" IN
          Persist(t, <<ChangeRow(o, to)>>, Advance(o, to),
                  IF passed THEN <<>> ELSE <<"Rejected">>, "idle", Advance(o, to))
    BY <1>5 DEF ValidateOrder
  <2> DEFINE to == IF passed THEN "Validated" ELSE "Rejected"
             told == IF passed THEN <<>> ELSE <<"Rejected">>
  <2>2. to \in OrderStatuses /\ told \in Seq(OrderStatuses) /\ o \in Orders
    BY <1>5, StatusType DEF ValidateOrder, WrittenOK
  <2>3. Persist(t, <<ChangeRow(o, to)>>, Advance(o, to), told, "idle", Advance(o, to))
    BY <2>1
  <2> HIDE DEF o, to, told
  <2>4. <<ChangeRow(o, to)>> \in Seq(Rows) /\ Advance(o, to) \in Orders
    BY <2>2, AdvanceType
  <2>5. Leaves("idle", Advance(o, to))
    BY <2>4 DEF Leaves, PCs, Waiting
  <2>6. WrittenOK' /\ Handled' /\ Moves(t, "idle")
    BY <1>0, <2>2, <2>3, <2>4, <2>5, PersistType
  <2> QED
    BY <1>5, <2>6 DEF ValidateOrder, OthersOK, Wanted, Moves, clock
<1>6. CASE SubmitOrder(t)
  <2>1. WrittenOK' /\ Handled' /\ \E next \in {"submit", "idle"} : Moves(t, next)
    BY <1>0, <1>6, BeginSubmitType DEF SubmitOrder
  <2> QED
    BY <1>6, <2>1 DEF SubmitOrder, OthersOK, Wanted, Moves, clock
<1>7. CASE CancelOrder(t)
  <2>1. WrittenOK' /\ Handled' /\ \E next \in {"cancel", "idle"} : Moves(t, next)
    BY <1>0, <1>7, BeginCancelType DEF CancelOrder
  <2> QED
    BY <1>7, <2>1 DEF CancelOrder, OthersOK, Wanted, Moves, clock
<1>8. CASE SyncOrder(t)
  <2>1. Leaves("sync", held[t])
    BY <1>8 DEF SyncOrder, Leaves, WrittenOK, PCs, Waiting
  <2>2. WrittenOK' /\ Handled' /\ Moves(t, "sync")
    BY <1>0, <1>8, <2>1, FinishType DEF SyncOrder
  <2> QED
    BY <1>8, <2>2 DEF SyncOrder, OthersOK, Wanted, Moves, clock
<1>9. CASE StartRecovery(t)
  <2>1. Leaves("recover", NoOrder)
    BY DEF Leaves, PCs, Waiting
  <2>2. WrittenOK' /\ Handled' /\ Moves(t, "recover")
    BY <1>0, <1>9, <2>1, FinishType DEF StartRecovery
  <2>3. {saved[i] : i \in DOMAIN saved} \subseteq Orders
    BY DEF WrittenOK
  <2>4. todo' \in [Tasks -> SUBSET Orders]
    BY <1>9, <2>3 DEF StartRecovery, OthersOK
  <2> QED
    BY <1>9, <2>2, <2>4 DEF StartRecovery, OthersOK, Wanted, Moves, clock
<1> QED
  BY <1>1, <1>2, <1>3, <1>4, <1>5, <1>6, <1>7, <1>8, <1>9 DEF Call

(* What follows an await keeps the types.                                  *)
LEMMA ResumeType ==
  ASSUME TypeOK, CallsHold, NEW t \in Tasks, Resume(t)
  PROVE  TypeOK' /\ CallsHold'
<1> USE TypeParts
<1> SUFFICES WrittenOK' /\ OthersOK' /\ Handled' /\ Wanted'
  BY DEF TypeOK, WrittenOK, OthersOK, CallsHold, Handled, Wanted
<1>0. up
  BY DEF Resume, SubmitAnswered, CancelAnswered, SyncAnswered, CreateReplacement,
         SubmitReplacement, RecoverNext, RecoveryAnswered, RecoveryDone
<1>1. CASE SubmitAnswered(t)
  <2> DEFINE r  == answer[t]
             to == IF r.ok THEN r.status
                   ELSE IF r.status = "Expired" THEN "Expired" ELSE "Rejected"
             o  == IF r.ok /\ r.eid # NoEid THEN [held[t] EXCEPT !.eid = r.eid]
                   ELSE held[t]
             n  == Advance(o, to)
  <2>1. held[t] \in Orders /\ r \in Answers
    BY <1>1 DEF SubmitAnswered, WrittenOK, Handled, Waiting
  <2>2. o \in Orders
    BY <2>1 DEF Orders, Answers
  <2>3. to \in OrderStatuses /\ r.ok \in BOOLEAN
    BY <2>1, StatusType DEF Answers
  <2>4. Persist(t, <<ChangeRow(o, to)>>, n, <<SubmitEvent(r.ok, to)>>, "idle", n)
    BY <1>1 DEF SubmitAnswered
  <2> HIDE DEF r, to, o
  <2>5. n \in Orders /\ <<ChangeRow(o, to)>> \in Seq(Rows)
    BY <2>2, <2>3, AdvanceType
  <2>6. <<SubmitEvent(r.ok, to)>> \in Seq(OrderStatuses)
    BY <2>3, EventType
  <2> HIDE DEF n
  <2>7. Leaves("idle", n)
    BY <2>5 DEF Leaves, PCs, Waiting
  <2>8. WrittenOK' /\ Handled' /\ Moves(t, "idle")
    BY <1>0, <2>4, <2>5, <2>6, <2>7, PersistType
  <2> QED
    BY <1>1, <2>8 DEF SubmitAnswered, OthersOK, Wanted, Moves, clock
<1>2. CASE CancelAnswered(t)
  <2> DEFINE replacing == want[t] # NoClient
  <2>1. held[t] # NoOrder
    BY <1>2 DEF CancelAnswered, Handled, Waiting
  <2>2. WrittenOK' /\ Handled' /\ Moves(t, IF replacing THEN "create" ELSE "idle")
    BY <1>0, <1>2, <2>1, CancelType DEF CancelAnswered
  <2> QED
    BY <1>2, <2>2 DEF CancelAnswered, OthersOK, Wanted, Moves, clock
<1>3. CASE SyncAnswered(t)
  <2> DEFINE n == Advance(held[t], answer[t].status)
             told == SyncEvent(answer[t].status)
  <2>1. /\ held[t] \in Orders /\ held[t] # NoOrder
        /\ answer[t] # NoAnswer /\ answer[t].status \in OrderStatuses
    BY <1>3, NoValues DEF SyncAnswered, Handled, Waiting, WrittenOK, Answers
  <2>2. told \in OrderStatuses
    BY <2>1, EventType
  <2>3. \/ Persist(t, <<>>, n, <<told>>, "idle", n)
        \/ Finish(t, "idle", held[t])
    BY <1>3 DEF SyncAnswered, Reconcile
  <2>4. n \in Orders => Leaves("idle", held[t]) /\ Leaves("idle", n)
    BY <2>1 DEF Leaves, PCs, Waiting
  <2> HIDE DEF n, told
  <2>5. n = Advance(held[t], answer[t].status)
    BY DEF n
  <2>6. WrittenOK' /\ Handled' /\ Moves(t, "idle")
    BY <1>0, <2>1, <2>2, <2>3, <2>4, <2>5, ReconcileType
  <2> QED
    BY <1>3, <2>6 DEF SyncAnswered, OthersOK, Wanted, Moves, clock
<1>4. CASE CreateReplacement(t)
  <2>1. want[t] \in Clients
    BY <1>0, <1>4 DEF CreateReplacement, Wanted, OthersOK
  <2>2. WrittenOK' /\ Handled' /\ Moves(t, "resubmit") /\ seq' \in Nat
    BY <1>0, <1>4, <2>1, OpenOrderType DEF CreateReplacement, PCs, Waiting
  <2> QED
    BY <1>4, <2>2 DEF CreateReplacement, OthersOK, Wanted, Moves, clock
<1>5. CASE SubmitReplacement(t)
  <2>1. held[t] # NoOrder
    BY <1>5 DEF SubmitReplacement, Handled
  <2>2. WrittenOK' /\ Handled' /\ \E next \in {"submit", "idle"} : Moves(t, next)
    BY <1>0, <1>5, <2>1, BeginSubmitType DEF SubmitReplacement
  <2> QED
    BY <1>5, <2>2 DEF SubmitReplacement, OthersOK, Wanted, Moves, clock
<1>6. CASE RecoverNext(t)
  <2>1. PICK o \in todo[t] : /\ todo' = [todo EXCEPT ![t] = @ \ {o}]
                             /\ Finish(t, "query", o)
    BY <1>6 DEF RecoverNext
  <2>2. o \in Orders /\ o # NoOrder
    BY NoValues DEF OthersOK
  <2>3. Leaves("query", o)
    BY <2>2 DEF Leaves, PCs, Waiting
  <2>4. WrittenOK' /\ Handled' /\ Moves(t, "query")
    BY <1>0, <2>1, <2>3, FinishType
  <2> QED
    BY <1>6, <2>1, <2>4 DEF RecoverNext, OthersOK, Wanted, Moves, clock
<1>7. CASE RecoveryAnswered(t)
  <2> DEFINE n == Advance(held[t], answer[t].status)
             told == RecoveryEvent(answer[t].status)
  <2>1. /\ held[t] # NoOrder
        /\ answer[t] # NoAnswer /\ answer[t].status \in OrderStatuses
    BY <1>7, NoValues DEF RecoveryAnswered, Handled, Waiting, WrittenOK, Answers
  <2>2. told \in OrderStatuses
    BY <2>1, EventType
  <2>3. \/ Persist(t, <<>>, n, <<told>>, "recover", NoOrder)
        \/ Finish(t, "recover", NoOrder)
    BY <1>7 DEF RecoveryAnswered, Reconcile
  <2>4. Leaves("recover", NoOrder)
    BY DEF Leaves, PCs, Waiting
  <2> HIDE DEF n, told
  <2>5. n = Advance(held[t], answer[t].status)
    BY DEF n
  <2>6. WrittenOK' /\ Handled' /\ Moves(t, "recover")
    BY <1>0, <2>1, <2>2, <2>3, <2>4, <2>5, ReconcileType
  <2> QED
    BY <1>7, <2>6 DEF RecoveryAnswered, OthersOK, Wanted, Moves, clock
<1>8. CASE RecoveryDone(t)
  <2>1. Leaves("idle", NoOrder)
    BY DEF Leaves, PCs, Waiting
  <2>2. WrittenOK' /\ Handled' /\ Moves(t, "idle")
    BY <1>0, <1>8, <2>1, FinishType DEF RecoveryDone
  <2> QED
    BY <1>8, <2>2 DEF RecoveryDone, OthersOK, Wanted, Moves, clock
<1> QED
  BY <1>1, <1>2, <1>3, <1>4, <1>5, <1>6, <1>7, <1>8 DEF Resume

(* An answer of the gateway is an answer, and leaves the task where it is. *)
LEMMA AnsweredType ==
  ASSUME TypeOK, NEW t \in Tasks, NEW ok \in BOOLEAN, NEW s, NEW e \in Eids \cup {NoEid},
         s \in {"Accepted", "PartiallyFilled", "Filled", "Cancelled", "Failed", "Expired"},
         Answered(t, ok, s, e)
  PROVE  /\ answer' \in [Tasks -> Answers \cup {NoAnswer}]
         /\ answer'[t] # NoAnswer
         /\ answer'[t] = [ok |-> ok, status |-> FromExecution(s), eid |-> e]
         /\ \A u \in Tasks \ {t} : answer'[u] = answer[u]
<1> DEFINE a == [ok |-> ok, status |-> FromExecution(s), eid |-> e]
<1>1. a \in Answers
  BY StatusType DEF Answers
<1>2. answer' = [answer EXCEPT ![t] = a]
  BY DEF Answered
<1> HIDE DEF a
<1>3. a # NoAnswer
  BY <1>1, NoValues
<1>4. answer \in [Tasks -> Answers \cup {NoAnswer}]
  BY DEF TypeOK
<1>5. /\ answer' \in [Tasks -> Answers \cup {NoAnswer}]
      /\ answer'[t] = a
      /\ \A u \in Tasks \ {t} : answer'[u] = answer[u]
  BY <1>1, <1>2, <1>4
<1> QED
  BY <1>3, <1>5 DEF a

LEMMA KillType ==
  ASSUME TypeOK, NEW e, Kill(e)
  PROVE  /\ exch' \in Seq(ExchOrders)
         /\ DOMAIN exch' = DOMAIN exch
         /\ \A k \in DOMAIN exch : exch'[k].client = exch[k].client
<1>1. exch \in Seq(ExchOrders)
  BY DEF TypeOK
<1>2. \A k \in DOMAIN exch : exch[k] \in ExchOrders
  BY <1>1
<1>3. \A k \in DOMAIN exch : exch'[k] \in ExchOrders /\ exch'[k].client = exch[k].client
  BY <1>2 DEF Kill, ExchOrders
<1>4. exch' = [k \in 1 .. Len(exch) |-> exch'[k]]
  BY <1>1 DEF Kill
<1> QED
  BY <1>1, <1>3, <1>4

(* What a gateway's reply leaves alone.                                    *)
ReplyFrame == UNCHANGED <<up, clock, seq, store, pc, held, want, todo, news>>

(* One reply: the exchange's orders keep their places and clients, and a   *)
(* submission may append the client order id of its task.                  *)
LEMMA ReplyEffect ==
  ASSUME TypeOK, CallsHold, NEW t \in Tasks, GatewayReply(t)
  PROVE  /\ ReplyFrame
         /\ pc[t] \in Waiting /\ answer[t] = NoAnswer
         /\ answer' \in [Tasks -> Answers \cup {NoAnswer}]
         /\ answer'[t] # NoAnswer
         /\ \A u \in Tasks \ {t} : answer'[u] = answer[u]
         /\ exch' \in Seq(ExchOrders)
         /\ \/ /\ DOMAIN exch' = DOMAIN exch
               /\ \A k \in DOMAIN exch : exch'[k].client = exch[k].client
            \/ /\ pc[t] = "submit"
               /\ \E x \in ExchOrders : exch' = Append(exch, x) /\ x.client = held[t].client
<1> USE TypeParts
<1>1. CASE GatewaySubmit(t)
  <2> DEFINE c == held[t].client
             e == NewEid(c)
             x == [eid |-> e, client |-> c, st |-> "live"]
  <2>1. c \in Clients /\ exch \in Seq(ExchOrders)
    BY <1>1 DEF GatewaySubmit, Handled, Waiting, WrittenOK, OthersOK, Orders
  <2>2. e \in Eids
    BY <2>1 DEF NewEid, Eids
  <2>3. x \in ExchOrders /\ x.client = c
    BY <2>1, <2>2 DEF ExchOrders
  <2>4. CASE /\ exch' = Append(exch, x)
             /\ \/ \E s \in {"Filled", "PartiallyFilled"} : Answered(t, TRUE, s, e)
                \/ Answered(t, TRUE, "Accepted", e)
                \/ Answered(t, FALSE, "Failed", NoEid)
    <3> HIDE DEF e, x
    <3>1. exch' \in Seq(ExchOrders)
      BY <2>1, <2>3, <2>4
    <3>2. /\ answer' \in [Tasks -> Answers \cup {NoAnswer}]
          /\ answer'[t] # NoAnswer
          /\ \A u \in Tasks \ {t} : answer'[u] = answer[u]
      BY <2>2, <2>4, AnsweredType
    <3> QED
      BY <1>1, <2>3, <2>4, <3>1, <3>2 DEF GatewaySubmit, ReplyFrame, Waiting
  <2>5. CASE /\ UNCHANGED exch
             /\ Answered(t, FALSE, IF Gateway = "Mock" THEN "Expired" ELSE "Failed", NoEid)
    <3> HIDE DEF e, x
    <3>1. /\ answer' \in [Tasks -> Answers \cup {NoAnswer}]
          /\ answer'[t] # NoAnswer
          /\ \A u \in Tasks \ {t} : answer'[u] = answer[u]
      BY <2>5, AnsweredType
    <3> QED
      BY <1>1, <2>1, <2>5, <3>1 DEF GatewaySubmit, ReplyFrame, Waiting
  <2> QED
    BY <1>1, <2>4, <2>5 DEF GatewaySubmit
<1>2. CASE GatewayCancel(t)
  <2> DEFINE e == held[t].eid
  <2>1. e \in Eids \cup {NoEid} /\ exch \in Seq(ExchOrders)
    BY <1>2 DEF GatewayCancel, Handled, Waiting, WrittenOK, OthersOK, Orders
  <2>2. /\ \/ Answered(t, TRUE, "Cancelled", e)
           \/ Answered(t, FALSE, "Failed", NoEid)
        /\ Kill(e) \/ UNCHANGED exch
    BY <1>2 DEF GatewayCancel
  <2> HIDE DEF e
  <2>3. /\ answer' \in [Tasks -> Answers \cup {NoAnswer}]
        /\ answer'[t] # NoAnswer
        /\ \A u \in Tasks \ {t} : answer'[u] = answer[u]
    BY <2>1, <2>2, AnsweredType
  <2>4. /\ exch' \in Seq(ExchOrders)
        /\ DOMAIN exch' = DOMAIN exch
        /\ \A k \in DOMAIN exch : exch'[k].client = exch[k].client
    BY <2>1, <2>2, KillType
  <2> QED
    BY <1>2, <2>3, <2>4 DEF GatewayCancel, ReplyFrame, Waiting
<1>3. CASE GatewayQuery(t)
  <2> DEFINE e == held[t].eid
  <2>1. e \in Eids \cup {NoEid} /\ exch \in Seq(ExchOrders)
    BY <1>3 DEF GatewayQuery, Handled, Waiting, WrittenOK, OthersOK, Orders
  <2>2. \/ Answered(t, TRUE, "Accepted", e)
        \/ Answered(t, FALSE, "Expired", NoEid)
        \/ Answered(t, FALSE, "Failed", NoEid)
    BY <1>3 DEF GatewayQuery
  <2> HIDE DEF e
  <2>3. /\ answer' \in [Tasks -> Answers \cup {NoAnswer}]
        /\ answer'[t] # NoAnswer
        /\ \A u \in Tasks \ {t} : answer'[u] = answer[u]
    BY <2>1, <2>2, AnsweredType
  <2> QED
    BY <1>3, <2>1, <2>3 DEF GatewayQuery, ReplyFrame, Waiting
<1> QED
  BY <1>1, <1>2, <1>3 DEF GatewayReply

LEMMA FillEffect ==
  ASSUME TypeOK, NEW k \in DOMAIN exch, ExchangeFill(k)
  PROVE  /\ exch' \in Seq(ExchOrders)
         /\ DOMAIN exch' = DOMAIN exch
         /\ \A j \in DOMAIN exch : exch'[j].client = exch[j].client
<1>1. exch \in Seq(ExchOrders) /\ \A j \in DOMAIN exch : exch[j] \in ExchOrders
  BY DEF TypeOK
<1>2. exch' = [exch EXCEPT ![k] = [exch[k] EXCEPT !.st = "filled"]]
  BY DEF ExchangeFill
<1>3. [exch[k] EXCEPT !.st = "filled"] \in ExchOrders
  BY <1>1 DEF ExchOrders
<1>4. \A j \in DOMAIN exch : exch'[j].client = exch[j].client
  BY <1>1, <1>2 DEF ExchOrders
<1>5. exch' \in Seq(ExchOrders) /\ DOMAIN exch' = DOMAIN exch
  BY <1>1, <1>2, <1>3
<1> QED
  BY <1>4, <1>5

LEMMA BootEffect ==
  ASSUME TypeOK, Boot
  PROVE  /\ exch' \in Seq(ExchOrders)
         /\ DOMAIN exch' = DOMAIN exch
         /\ \A k \in DOMAIN exch : exch'[k].client = exch[k].client
<1>1. exch \in Seq(ExchOrders) /\ \A k \in DOMAIN exch : exch[k] \in ExchOrders
  BY DEF TypeOK
<1>2. CASE exch' = [k \in DOMAIN exch |-> [exch[k] EXCEPT !.st = "cancelled"]]
  <2>1. \A k \in DOMAIN exch : exch'[k] \in ExchOrders /\ exch'[k].client = exch[k].client
    BY <1>1, <1>2 DEF ExchOrders
  <2>2. exch' = [k \in 1 .. Len(exch) |-> exch'[k]]
    BY <1>1, <1>2
  <2> QED
    BY <1>1, <2>1, <2>2
<1> QED
  BY <1>1, <1>2 DEF Boot

(* Every step keeps the types.                                             *)
LEMMA TypeStep ==
  ASSUME TypeOK, CallsHold, [Next]_vars
  PROVE  TypeOK' /\ CallsHold'
<1>1. ASSUME NEW t \in Tasks, Call(t) \/ Resume(t)
      PROVE  TypeOK' /\ CallsHold'
  BY <1>1, CallType, ResumeType
<1>2. ASSUME NEW t \in Tasks, GatewayReply(t)
      PROVE  TypeOK' /\ CallsHold'
  BY <1>2, ReplyEffect DEF ReplyFrame, TypeOK, CallsHold, clock, store
<1>3. ASSUME NEW k \in DOMAIN exch, ExchangeFill(k)
      PROVE  TypeOK' /\ CallsHold'
  BY <1>3, FillEffect DEF ExchangeFill, TypeOK, CallsHold, clock, store
<1>4. CASE Crash
  BY <1>4 DEF Crash, TypeOK, CallsHold, clock, store
<1>5. CASE Boot
  <2>1. today' \in Nat /\ boots' \in Nat
    BY <1>5 DEF Boot, TypeOK
  <2>2. pc' \in [Tasks -> PCs]
    BY <1>5 DEF Boot, PCs
  <2>3. news' \in [Clients -> Seq(OrderStatuses)]
    BY <1>5 DEF Boot
  <2>4. TypeOK'
    BY <1>5, <2>1, <2>2, <2>3, BootEffect DEF Boot, TypeOK, store
  <2> QED
    BY <1>5, <2>4 DEF Boot, CallsHold, Waiting
<1>6. CASE UNCHANGED vars
  BY <1>6 DEF vars, TypeOK, CallsHold, clock, store
<1> QED
  BY <1>1, <1>2, <1>3, <1>4, <1>5, <1>6 DEF Next

LEMMA TypeInit ==
  ASSUME Init
  PROVE  TypeOK /\ CallsHold
<1>1. /\ saved \in [DOMAIN saved -> Orders] /\ DOMAIN saved = {}
      /\ exch \in Seq(ExchOrders)
      /\ news \in [Clients -> Seq(OrderStatuses)]
  BY DEF Init
<1> QED
  BY <1>1 DEF Init, TypeOK, CallsHold, PCs, Waiting

(* Type correctness: whatever callers, crashes and the gateway do, orders  *)
(* are filed under their own id, the index leads to orders, and a task     *)
(* that waits for an answer holds an order (csv.rs:179, lifecycle.rs:298). *)
THEOREM TypeCorrect == Spec => [](TypeOK /\ CallsHold)
<1>1. Init => TypeOK /\ CallsHold
  BY TypeInit
<1>2. TypeOK /\ CallsHold /\ [Next]_vars => (TypeOK /\ CallsHold)'
  BY TypeStep
<1> QED
  BY <1>1, <1>2, PTL DEF Spec

--------------------------------------------------------------------------------
(* The safety invariant, for disciplined callers.                          *)

(* What IInv says of one task.                                             *)
TaskOK(t) ==
  /\ held[t] # NoOrder => held[t].id \in DOMAIN saved /\ saved[held[t].id] = held[t]
  /\ \A o \in todo[t] : o.id \in DOMAIN saved /\ saved[o.id] = o
  /\ pc[t] \notin {"recover", "query"} => todo[t] = {}
  /\ \A o \in todo[t] : held[t] # NoOrder => held[t].client # o.client
  /\ pc[t] = "submit" => held[t].status = "Submitted"
  /\ pc[t] = "submit" /\ answer[t] = NoAnswer
     => \A k \in DOMAIN exch : exch[k].client # held[t].client
  /\ pc[t] = "cancel" => IsActive(held[t].status)

LEMMA InvParts ==
  IInv <=> /\ TypeOK /\ CallsHold
           /\ \A t \in Tasks : TaskOK(t)
           /\ HandlesDisjoint /\ IndexExact
           /\ SentAreSaved /\ AtMostOnceSubmission
BY DEF IInv, TaskOK, HandlesCurrent, TodoApart, Undelivered

(* No transition leads back before the submission or out of an end.        *)
LEMMA ForwardOnly ==
  \A s, u : ValidTransition(s, u)
            => /\ ~IsTerminal(s)
               /\ u \in BeforeSend => s \in BeforeSend
               /\ u = "Submitted" => s = "PendingSubmit"
               /\ u \in Promise!Later(s)
<1>1. \A s, u : <<s, u>> \in Transitions => u \in OrderStatuses
  BY DEF Transitions, OrderStatuses, Terminal
<1>2. \A s, u : ValidTransition(s, u) => u \in Promise!Later(s)
  BY <1>1 DEF ValidTransition, Transitions, OrderStatuses, Terminal, Promise!Later,
              Promise!OneHop, Promise!Transitions, Promise!OrderStatuses, Promise!Terminal
<1> QED
  BY <1>2 DEF ValidTransition, Transitions, BeforeSend

(* Every order that has not ended may be cancelled, and one that has not   *)
(* been sent is at most two transitions from Submitted.                    *)
LEMMA WithinReach ==
  /\ \A s \in OrderStatuses : IsActive(s) => "Cancelled" \in Promise!Later(s)
  /\ \A s \in BeforeSend : "Submitted" \in Promise!Later(s)
BY DEF IsActive, IsTerminal, BeforeSend, OrderStatuses, Terminal, Promise!Later,
       Promise!OneHop, Promise!Transitions, Promise!OrderStatuses, Promise!Terminal

(* What a segment of a task may do to the repository: nothing, a new state *)
(* of the order it holds, or a new order; and to the news.                 *)
StoreKept == UNCHANGED <<saved, clientIndex, news>> /\ seq' \in {seq, seq + 1}

(* Orders that have ended stay, others move to a later version.            *)
SavedMoves ==
  \A i \in DOMAIN saved :
    \/ saved'[i] = saved[i]
    \/ /\ saved'[i].version > saved[i].version
       /\ ~IsTerminal(saved[i].status)

(* What the abstract order of each client order id may do in one step.     *)
PromiseStep == [Promise!PromiseNext]_(Promise!pvars)

(* One abstract order moves, or appears, or is delivered.                  *)
LEMMA MoveStep ==
  ASSUME NEW c \in Clients, UNCHANGED exch,
         StatusOf(c) \in OrderStatuses, StatusOf(c)' \in Promise!Later(StatusOf(c)),
         \A d \in Clients \ {c} : StatusOf(d)' = StatusOf(d)
  PROVE  PromiseStep
<1>1. \A d \in Clients : Received(d)' = Received(d)
  BY DEF Received
<1>2. Promise!Move(c)
  BY <1>1 DEF Promise!Move, Promise!OrderStatuses, Promise!Terminal, OrderStatuses, Terminal
<1> QED
  BY <1>2 DEF PromiseStep, Promise!PromiseNext

LEMMA AppearStep ==
  ASSUME NEW c \in Clients, UNCHANGED exch,
         StatusOf(c) = "None", StatusOf(c)' = "Created",
         \A d \in Clients \ {c} : StatusOf(d)' = StatusOf(d)
  PROVE  PromiseStep
<1>1. \A d \in Clients : Received(d)' = Received(d)
  BY DEF Received
<1>2. Promise!Open(c)
  BY <1>1 DEF Promise!Open
<1> QED
  BY <1>2 DEF PromiseStep, Promise!PromiseNext

LEMMA DeliverStep ==
  ASSUME NEW c \in Clients, StatusOf(c) = "Submitted",
         \A d \in Clients : StatusOf(d)' = StatusOf(d),
         Received(c) = 0, Received(c)' = 1,
         \A d \in Clients \ {c} : Received(d)' = Received(d)
  PROVE  PromiseStep
<1>1. Promise!Deliver(c)
  BY DEF Promise!Deliver
<1> QED
  BY <1>1 DEF PromiseStep, Promise!PromiseNext

LEMMA StillStep ==
  ASSUME UNCHANGED <<saved, clientIndex>>, DOMAIN exch' = DOMAIN exch,
         \A k \in DOMAIN exch : exch'[k].client = exch[k].client
  PROVE  PromiseStep
<1>1. \A c \in Clients : StatusOf(c)' = StatusOf(c)
  BY DEF StatusOf, Known, OrderOf
<1>2. \A c \in Clients : Received(c)' = Received(c)
  <2>1. \A c \in Clients : {k \in DOMAIN exch' : exch'[k].client = c}
                          = {k \in DOMAIN exch : exch[k].client = c}
    OBVIOUS
  <2> QED
    BY <2>1 DEF Received
<1> QED
  BY <1>1, <1>2 DEF PromiseStep, Promise!pvars

(* Every end that was announced is an order's that the repository has as   *)
(* ended, and it was announced once.                                       *)
EndsKnown ==
  \A c \in Clients : \A j \in DOMAIN news[c] :
    IsTerminal(news[c][j])
    => /\ Known(c) /\ IsTerminal(OrderOf(c).status)
       /\ \A k \in DOMAIN news[c] : IsTerminal(news[c][k]) => k = j
EndsStep == EndsKnown => EndsKnown'

(* What is announced of a saved order: nothing, or one event, an end only  *)
(* if the order has ended.                                                 *)
Announces(told, o) ==
  \/ told = <<>>
  \/ \E e \in OrderStatuses : told = <<e>> /\ (IsTerminal(e) => IsTerminal(o.status))

(* An order that had not ended is announced of for the first time.         *)
LEMMA AnnounceStep ==
  ASSUME TypeOK, NEW o, NEW told, Announces(told, o), o.client \in Clients,
         news' = [news EXCEPT ![o.client] = @ \o told],
         Known(o.client) => ~IsTerminal(OrderOf(o.client).status),
         Known(o.client)', OrderOf(o.client)' = o,
         \A d \in Clients \ {o.client} : StatusOf(d)' = StatusOf(d),
         \A d \in Clients \ {o.client} : Known(d)' = Known(d)
  PROVE  EndsStep
<1> SUFFICES ASSUME EndsKnown PROVE EndsKnown'
  BY DEF EndsStep
<1> DEFINE c == o.client
<1>1. news[c] \in Seq(OrderStatuses) /\ told \in Seq(OrderStatuses) /\ Len(told) <= 1
  <2>1. news[c] \in Seq(OrderStatuses)
    BY DEF TypeOK
  <2>2. CASE told = <<>>
    BY <2>1, <2>2
  <2>3. ASSUME NEW e \in OrderStatuses, told = <<e>>
        PROVE  told \in Seq(OrderStatuses) /\ Len(told) <= 1
    BY <2>3
  <2> QED
    BY <2>1, <2>2, <2>3 DEF Announces
<1>2. \A j \in DOMAIN told : j = 1 /\ (IsTerminal(told[j]) => IsTerminal(o.status))
  BY DEF Announces
<1>3. \A j \in DOMAIN news[c] : ~IsTerminal(news[c][j])
  BY DEF EndsKnown
<1>4. /\ news'[c] = news[c] \o told
      /\ \A d \in Clients \ {c} : news'[d] = news[d]
  BY DEF TypeOK
<1>5. \A j \in DOMAIN news'[c] :
        IsTerminal(news'[c][j]) => j = Len(news[c]) + 1 /\ IsTerminal(o.status)
  <2> HIDE DEF c
  <2>1. /\ Len(news'[c]) = Len(news[c]) + Len(told)
        /\ news'[c] \in Seq(OrderStatuses)
        /\ \A j \in 1 .. Len(news[c]) + Len(told) :
              news'[c][j] = IF j <= Len(news[c]) THEN news[c][j] ELSE told[j - Len(news[c])]
    BY <1>1, <1>4, ConcatProperties
  <2>2. DOMAIN news'[c] = 1 .. Len(news[c]) + Len(told)
    BY <2>1
  <2> QED
    BY <1>1, <1>2, <1>3, <2>1, <2>2
<1>6. \A d \in Clients \ {c} : Known(d) => (OrderOf(d).status)' = OrderOf(d).status
  BY DEF StatusOf
<1> QED
  BY <1>4, <1>5, <1>6 DEF EndsKnown

StoreUpdated(t, o) ==
  /\ held[t] # NoOrder /\ o \in Orders
  /\ o.version > held[t].version /\ ~IsTerminal(held[t].status)
  /\ o.id = held[t].id /\ o.client = held[t].client
  /\ o.status \in BeforeSend => held[t].status \in BeforeSend
  /\ o.status \in Promise!Later(held[t].status)
  /\ \E told : /\ Announces(told, o)
               /\ news' = [news EXCEPT ![o.client] = @ \o told]
  /\ Save(o) /\ UNCHANGED seq

StoreGrown(o) ==
  /\ o \in Orders /\ o.id = <<today, seq + 1>> /\ seq' = seq + 1
  /\ clientIndex[o.client] = NoId /\ o.status = "Created"
  /\ news' = [news EXCEPT ![o.client] = @ \o <<>>]
  /\ Save(o)

(* A saved handle replaces its own order and no other.                     *)
LEMMA UpdateEffect ==
  ASSUME IInv, NEW t \in Tasks, NEW o, StoreUpdated(t, o)
  PROVE  /\ DOMAIN saved' = DOMAIN saved /\ clientIndex' = clientIndex
         /\ o.id \in DOMAIN saved /\ saved'[o.id] = o /\ o.client \in InUse(t)
         /\ saved[o.id] = held[t]
         /\ clientIndex[o.client] = o.id
         /\ \A i \in DOMAIN saved : i # o.id => saved'[i] = saved[i]
<1>1. TaskOK(t) /\ TypeOK /\ IndexExact
  BY InvParts
<1>2. o.id \in DOMAIN saved /\ saved[o.id] = held[t] /\ o.client \in Clients
  BY <1>1 DEF TaskOK, StoreUpdated, Orders
<1>3. clientIndex[o.client] = o.id
  BY <1>1, <1>2 DEF IndexExact, StoreUpdated
<1>4. DOMAIN saved' = DOMAIN saved
  BY <1>2 DEF StoreUpdated, Save
<1>5. \A i \in DOMAIN saved : saved'[i] = IF i = o.id THEN o ELSE saved[i]
  BY <1>2 DEF StoreUpdated, Save
<1>6. clientIndex' = clientIndex
  BY <1>1, <1>2, <1>3 DEF StoreUpdated, Save, TypeOK
<1>7. o.client \in InUse(t)
  BY <1>2 DEF StoreUpdated, InUse
<1> QED
  BY <1>2, <1>3, <1>4, <1>5, <1>6, <1>7

(* A new order has a new id, and its client order id had no order.         *)
LEMMA GrowEffect ==
  ASSUME IInv, ~mixed', NEW o, StoreGrown(o)
  PROVE  /\ o.id \notin DOMAIN saved /\ o.client \in Clients /\ o.id \in OrderIds
         /\ DOMAIN saved' = DOMAIN saved \cup {o.id}
         /\ saved'[o.id] = o
         /\ \A i \in DOMAIN saved : saved'[i] = saved[i] /\ saved[i].client # o.client
         /\ clientIndex'[o.client] = o.id
         /\ \A c \in Clients : c # o.client => clientIndex'[c] = clientIndex[c]
<1>1. TypeOK /\ IndexExact
  BY InvParts
<1>2. o.client \in Clients /\ o.id \in OrderIds
  BY DEF StoreGrown, Orders
<1>3. \A i \in DOMAIN saved : saved[i].client # o.client
  BY <1>1, NoValues DEF IndexExact, StoreGrown, TypeOK
<1>4. o.id \notin DOMAIN saved
  BY <1>3 DEF StoreGrown, Save
<1>5. /\ DOMAIN saved' = DOMAIN saved \cup {o.id}
      /\ \A i \in DOMAIN saved \cup {o.id} : saved'[i] = IF i = o.id THEN o ELSE saved[i]
  BY DEF StoreGrown, Save
<1>6. /\ clientIndex'[o.client] = o.id
      /\ \A c \in Clients : c # o.client => clientIndex'[c] = clientIndex[c]
  BY <1>1, <1>2 DEF StoreGrown, Save, TypeOK
<1> QED
  BY <1>2, <1>3, <1>4, <1>5, <1>6

(* What the other tasks do in a step of task t: nothing.                   *)
OthersStill(t) ==
  \A u \in Tasks \ {t} :
    /\ pc'[u] = pc[u] /\ held'[u] = held[u] /\ want'[u] = want[u]
    /\ todo'[u] = todo[u] /\ answer'[u] = answer[u]

(* The heart of the argument: a segment that respects MayUse, and leaves   *)
(* its own task in order, keeps the invariant.                             *)
LEMMA SegmentStep ==
  ASSUME IInv, Disciplined, TypeOK', CallsHold', NEW t \in Tasks,
         OthersStill(t), UNCHANGED <<clock, exch>>, TaskOK(t)',
         \A c \in InUse(t)' : c \in InUse(t) \/ MayUse(t, c),
         StoreKept \/ (\E o : StoreUpdated(t, o)) \/ (\E o : StoreGrown(o))
  PROVE  IInv' /\ SavedMoves /\ PromiseStep /\ EndsStep
<1>1. /\ TypeOK /\ CallsHold /\ \A u \in Tasks : TaskOK(u)
      /\ HandlesDisjoint /\ IndexExact
      /\ SentAreSaved /\ AtMostOnceSubmission
  BY InvParts
<1>2. HandlesDisjoint'
  <2>1. \A u \in Tasks \ {t} : InUse(u)' = InUse(u)
    BY DEF OthersStill, InUse
  <2>2. \A u \in Tasks \ {t} : InUse(t)' \cap InUse(u)' = {}
    BY <1>1, <2>1 DEF HandlesDisjoint, MayUse, Disciplined
  <2> QED
    BY <1>1, <2>1, <2>2 DEF HandlesDisjoint
<1>3. AtMostOnceSubmission'
  BY <1>1 DEF AtMostOnceSubmission
<1>4. \A k \in DOMAIN exch : exch[k].client \in Clients
  <2>1. exch \in Seq(ExchOrders)
    BY <1>1 DEF TypeOK
  <2>2. \A k \in DOMAIN exch : exch[k] \in ExchOrders
    BY <2>1
  <2> QED
    BY <2>2 DEF ExchOrders
<1>5. CASE StoreKept
  <2>1. \A u \in Tasks \ {t} : TaskOK(u)'
    BY <1>1, <1>5 DEF StoreKept, OthersStill, TaskOK
  <2>2. IndexExact' /\ SentAreSaved'
    BY <1>1, <1>5 DEF StoreKept, IndexExact, SentAreSaved, Known, OrderOf
  <2>4. SavedMoves
    BY <1>5 DEF StoreKept, SavedMoves
  <2>5. PromiseStep /\ EndsStep
    BY <1>5, StillStep DEF StoreKept, EndsStep, EndsKnown, Known, OrderOf
  <2> QED
    BY <1>1, <1>2, <1>3, <2>1, <2>2, <2>4, <2>5 DEF IInv, TaskOK, HandlesCurrent, TodoApart, Undelivered
<1>6. ASSUME NEW o, StoreUpdated(t, o)
      PROVE  IInv' /\ SavedMoves /\ PromiseStep /\ EndsStep
  <2>1. /\ DOMAIN saved' = DOMAIN saved /\ clientIndex' = clientIndex
        /\ o.id \in DOMAIN saved /\ saved'[o.id] = o /\ o.client \in InUse(t)
        /\ saved[o.id] = held[t]
        /\ clientIndex[o.client] = o.id
        /\ \A i \in DOMAIN saved : i # o.id => saved'[i] = saved[i]
    BY <1>6, UpdateEffect
  <2>2. ASSUME NEW u \in Tasks \ {t}
        PROVE  TaskOK(u)'
    <3>1. o.client \notin InUse(u)
      BY <1>1, <2>1 DEF HandlesDisjoint
    <3>2. TaskOK(u)
      BY <1>1
    <3>3. o.client \in Clients
      BY <1>6 DEF StoreUpdated, Orders
    <3>4. saved[o.id].client = o.client
      BY <1>6, <2>1 DEF StoreUpdated
    <3>5. held[u] # NoOrder => held[u].id # o.id
      BY <3>1, <3>2, <3>3, <3>4 DEF InUse, TaskOK
    <3>6. \A x \in todo[u] : x.id # o.id
      BY <3>1, <3>2, <3>3, <3>4 DEF InUse, TaskOK
    <3> QED
      BY <2>1, <3>2, <3>5, <3>6 DEF OthersStill, TaskOK
  <2>3. \A i \in DOMAIN saved : saved'[i].client = saved[i].client
    BY <1>6, <2>1 DEF StoreUpdated
  <2>4. IndexExact'
    <3>1. \A c \in Clients : Known(c) => clientIndex[c] \in DOMAIN saved
      BY <1>1 DEF TypeOK, Known
    <3> QED
      BY <1>1, <2>1, <2>3, <3>1 DEF IndexExact, Known, OrderOf
  <2>6. SentAreSaved'
    <3>1. \A i \in DOMAIN saved : saved[i].status \notin BeforeSend
                                  => saved'[i].status \notin BeforeSend
      BY <1>6, <2>1 DEF StoreUpdated
    <3>2. \A c \in Clients : Known(c) => clientIndex[c] \in DOMAIN saved
      BY <1>1 DEF TypeOK, Known
    <3> QED
      BY <1>1, <1>4, <2>1, <2>3, <3>1, <3>2 DEF SentAreSaved, Known, OrderOf
  <2>7. SavedMoves
    BY <1>6, <2>1 DEF StoreUpdated, SavedMoves
  <2>8. PromiseStep /\ EndsStep
    <3>1. o.client \in Clients /\ o.id \in OrderIds /\ held[t].status \in OrderStatuses
      BY <1>1, <1>6 DEF StoreUpdated, Orders, TypeOK
    <3>2. StatusOf(o.client) = held[t].status /\ StatusOf(o.client)' = o.status
      BY <2>1, <3>1, NoValues DEF StatusOf, Known, OrderOf
    <3>3. \A d \in Clients \ {o.client} : Known(d) => /\ clientIndex[d] # o.id
                                                    /\ clientIndex[d] \in DOMAIN saved
      BY <1>1, <1>6, <2>1 DEF IndexExact, Known, OrderOf, TypeOK, StoreUpdated
    <3>4. \A d \in Clients \ {o.client} : StatusOf(d)' = StatusOf(d)
      BY <2>1, <3>3 DEF StatusOf, Known, OrderOf
    <3>5. PromiseStep
      BY <1>6, <3>1, <3>2, <3>4, MoveStep DEF StoreUpdated
    <3>6. PICK told : /\ Announces(told, o)
                      /\ news' = [news EXCEPT ![o.client] = @ \o told]
      BY <1>6 DEF StoreUpdated
    <3>7. /\ OrderOf(o.client) = held[t] /\ OrderOf(o.client)' = o
          /\ \A d \in Clients : Known(d)' = Known(d)
          /\ Known(o.client)
      BY <2>1, <3>1, NoValues DEF Known, OrderOf
    <3>8. EndsStep
      BY <1>1, <1>6, <3>1, <3>4, <3>6, <3>7, AnnounceStep DEF StoreUpdated
    <3> QED
      BY <3>5, <3>8
  <2> QED
    BY <1>1, <1>2, <1>3, <2>2, <2>4, <2>6, <2>7, <2>8 DEF IInv, TaskOK, HandlesCurrent, TodoApart, Undelivered
<1>7. ASSUME NEW o, StoreGrown(o)
      PROVE  IInv' /\ SavedMoves /\ PromiseStep /\ EndsStep
  <2>1. /\ o.id \notin DOMAIN saved /\ o.client \in Clients /\ o.id \in OrderIds
        /\ DOMAIN saved' = DOMAIN saved \cup {o.id}
        /\ saved'[o.id] = o
        /\ \A i \in DOMAIN saved : saved'[i] = saved[i] /\ saved[i].client # o.client
        /\ clientIndex'[o.client] = o.id
        /\ \A c \in Clients : c # o.client => clientIndex'[c] = clientIndex[c]
    BY <1>7, GrowEffect DEF Disciplined
  <2>2. \A u \in Tasks \ {t} : TaskOK(u)'
    BY <1>1, <2>1 DEF OthersStill, TaskOK
  <2>3. \A c \in Clients : Known(c) => clientIndex[c] \in DOMAIN saved
    BY <1>1 DEF TypeOK, Known
  <2>4. IndexExact'
    <3>1. \A i \in DOMAIN saved' : clientIndex'[saved'[i].client] = i
      BY <1>1, <2>1 DEF IndexExact, TypeOK, Orders
    <3>2. \A c \in Clients : Known(c)' => OrderOf(c)'.client = c
      BY <1>1, <2>1, <2>3 DEF IndexExact, Known, OrderOf
    <3> QED
      BY <3>1, <3>2 DEF IndexExact
  <2>6. SentAreSaved'
    <3>1. \A k \in DOMAIN exch : exch[k].client # o.client
      BY <1>1, <1>7 DEF SentAreSaved, StoreGrown, Known
    <3> QED
      BY <1>1, <1>4, <2>1, <2>3, <3>1 DEF SentAreSaved, Known, OrderOf
  <2>7. SavedMoves
    BY <2>1 DEF SavedMoves
  <2>8. PromiseStep /\ EndsStep
    <3>1. StatusOf(o.client) = "None" /\ StatusOf(o.client)' = "Created"
      BY <1>7, <2>1, NoValues DEF StoreGrown, StatusOf, Known, OrderOf
    <3>2. \A d \in Clients \ {o.client} : StatusOf(d)' = StatusOf(d)
      BY <2>1, <2>3 DEF StatusOf, Known, OrderOf
    <3>3. /\ ~Known(o.client) /\ Known(o.client)' /\ OrderOf(o.client)' = o
          /\ \A d \in Clients \ {o.client} : Known(d)' = Known(d)
          /\ news' = [news EXCEPT ![o.client] = @ \o <<>>]
      BY <1>7, <2>1, NoValues DEF StoreGrown, Known, OrderOf
    <3>4. Announces(<<>>, o)
      BY DEF Announces
    <3>5. EndsStep
      BY <1>1, <2>1, <3>2, <3>3, <3>4, AnnounceStep
    <3> QED
      BY <2>1, <3>1, <3>2, <3>5, AppearStep
  <2> QED
    BY <1>1, <1>2, <1>3, <2>2, <2>4, <2>6, <2>7, <2>8 DEF IInv, TaskOK, HandlesCurrent, TodoApart, Undelivered
<1> QED
  BY <1>5, <1>6, <1>7

(* A segment that ends in Persist with a new state of the task's order.    *)
LEMMA PersistStep ==
  ASSUME IInv, Disciplined, TypeOK', CallsHold', NEW t \in Tasks,
         NEW rows, NEW o \in Orders, NEW told, NEW next, NEW keep,
         Persist(t, rows, o, told, next, keep),
         held[t] # NoOrder, o.id = held[t].id, o.client = held[t].client,
         o.version > held[t].version, ~IsTerminal(held[t].status),
         o.status \in BeforeSend => held[t].status \in BeforeSend,
         o.status \in Promise!Later(held[t].status), Announces(told, o),
         keep \in {o, NoOrder},
         next \notin {"recover", "query"} => todo[t] = {},
         next # "cancel",
         next = "submit" => /\ keep = o /\ o.status = "Submitted"
                            /\ held[t].status \in BeforeSend,
         UNCHANGED <<clock, seq, todo, exch>>,
         \A u \in Tasks \ {t} : want'[u] = want[u],
         want'[t] \in Clients => want'[t] = want[t] \/ MayUse(t, want'[t])
  PROVE  IInv' /\ SavedMoves /\ PromiseStep /\ EndsStep
<1>1. TypeOK /\ TaskOK(t) /\ IndexExact /\ SentAreSaved
  BY InvParts
<1>2. CASE /\ Save(o)
           /\ news' = [news EXCEPT ![o.client] = @ \o told]
           /\ held' = [held EXCEPT ![t] = keep]
           /\ pc' = [pc EXCEPT ![t] = next]
           /\ answer' = [answer EXCEPT ![t] = NoAnswer]
  <2>1. StoreUpdated(t, o)
    BY <1>2 DEF StoreUpdated
  <2>2. /\ DOMAIN saved' = DOMAIN saved /\ clientIndex' = clientIndex
        /\ o.id \in DOMAIN saved /\ saved'[o.id] = o /\ o.client \in InUse(t)
        /\ saved[o.id] = held[t]
        /\ clientIndex[o.client] = o.id
        /\ \A i \in DOMAIN saved : i # o.id => saved'[i] = saved[i]
    BY <2>1, UpdateEffect
  <2>3. OthersStill(t) /\ held'[t] = keep /\ pc'[t] = next
    BY <1>1, <1>2 DEF OthersStill, TypeOK
  <2>4. \A x \in todo[t] : x.client # o.client
    BY <1>1 DEF TaskOK
  <2>5. \A x \in todo[t] : x.id # o.id
    BY <1>1, <2>2, <2>4 DEF TaskOK
  <2>6. next = "submit" => \A k \in DOMAIN exch : exch[k].client # o.client
    BY <1>1, <2>2 DEF SentAreSaved, OrderOf
  <2>7. TaskOK(t)'
    BY <1>1, <2>2, <2>3, <2>4, <2>5, <2>6 DEF TaskOK
  <2>8. \A c \in InUse(t)' : c \in InUse(t) \/ MayUse(t, c)
    BY <2>2, <2>3 DEF InUse
  <2> QED
    BY <2>1, <2>3, <2>7, <2>8, SegmentStep
<1>3. CASE UNCHANGED <<saved, clientIndex, news, held, pc, answer>>
  <2>1. StoreKept /\ OthersStill(t)
    BY <1>3 DEF StoreKept, OthersStill
  <2>2. TaskOK(t)'
    BY <1>1, <1>3 DEF TaskOK
  <2>3. \A c \in InUse(t)' : c \in InUse(t) \/ MayUse(t, c)
    BY <1>3 DEF InUse
  <2> QED
    BY <2>1, <2>2, <2>3, SegmentStep
<1> QED
  BY <1>2, <1>3 DEF Persist

(* A segment that ends in Finish with the handle the task had, or with     *)
(* none.                                                                   *)
LEMMA FinishStep ==
  ASSUME IInv, Disciplined, TypeOK', CallsHold', NEW t \in Tasks, NEW next, NEW keep,
         Finish(t, next, keep),
         keep \in {held[t], NoOrder},
         next \notin {"recover", "query"} => todo[t] = {},
         next # "submit",
         next = "cancel" => keep = held[t] /\ IsActive(held[t].status),
         UNCHANGED <<clock, seq, todo, exch>>,
         \A u \in Tasks \ {t} : want'[u] = want[u],
         want'[t] \in Clients => want'[t] = want[t] \/ MayUse(t, want'[t])
  PROVE  IInv' /\ SavedMoves /\ PromiseStep /\ EndsStep
<1>1. TypeOK /\ TaskOK(t)
  BY InvParts
<1>2. OthersStill(t) /\ held'[t] = keep /\ pc'[t] = next /\ StoreKept
  BY <1>1 DEF Finish, OthersStill, StoreKept, TypeOK, store
<1>3. TaskOK(t)'
  BY <1>1, <1>2 DEF TaskOK, StoreKept
<1>4. \A c \in InUse(t)' : c \in InUse(t) \/ MayUse(t, c)
  BY <1>2 DEF InUse
<1> QED
  BY <1>2, <1>3, <1>4, SegmentStep

LEMMA OpenOrderStep ==
  ASSUME IInv, Disciplined, TypeOK', CallsHold', NEW t \in Tasks, NEW c \in Clients,
         NEW next \in {"idle", "resubmit"}, OpenOrder(t, c, next),
         pc[t] \notin {"recover", "query", "submit", "cancel"},
         c \in InUse(t) \/ MayUse(t, c),
         UNCHANGED <<clock, todo, exch>>,
         \A u \in Tasks \ {t} : want'[u] = want[u],
         want'[t] \in {want[t], NoClient}
  PROVE  IInv' /\ SavedMoves /\ PromiseStep /\ EndsStep
<1>1. TypeOK /\ TaskOK(t) /\ IndexExact /\ todo[t] = {}
  BY InvParts DEF TaskOK
<1>2. c # NoClient
  BY NoValues
<1>3. CASE /\ clientIndex[c] # NoId
           /\ Finish(t, next, saved[clientIndex[c]])
           /\ UNCHANGED seq
  <2>1. /\ clientIndex[c] \in DOMAIN saved
        /\ saved[clientIndex[c]].client = c
        /\ saved[clientIndex[c]].id = clientIndex[c]
    BY <1>1, <1>3 DEF TypeOK, IndexExact, Known, OrderOf
  <2>2. OthersStill(t) /\ held'[t] = saved[clientIndex[c]] /\ pc'[t] = next /\ StoreKept
    BY <1>1, <1>3 DEF Finish, OthersStill, StoreKept, TypeOK, store
  <2>3. TaskOK(t)'
    BY <1>1, <2>1, <2>2 DEF TaskOK, StoreKept
  <2>4. \A d \in InUse(t)' : d \in InUse(t) \/ MayUse(t, d)
    BY <1>1, <2>1, <2>2, NoValues DEF InUse
  <2> QED
    BY <2>2, <2>3, <2>4, SegmentStep
<1>4. CASE /\ clientIndex[c] = NoId
           /\ seq' = seq + 1
           /\ Persist(t, <<>>, NewOrder(<<today, seq + 1>>, c), <<>>, next,
                      NewOrder(<<today, seq + 1>>, c))
  <2> DEFINE o == NewOrder(<<today, seq + 1>>, c)
  <2>1. /\ o \in Orders /\ o.id = <<today, seq + 1>> /\ o.client = c
        /\ o.status = "Created"
    BY <1>1, StatusType DEF TypeOK, NewOrder, Orders, OrderIds
  <2> HIDE DEF o
  <2>2. CASE /\ Save(o)
             /\ news' = [news EXCEPT ![o.client] = @ \o <<>>]
             /\ held' = [held EXCEPT ![t] = o]
             /\ pc' = [pc EXCEPT ![t] = next]
             /\ answer' = [answer EXCEPT ![t] = NoAnswer]
    <3>1. StoreGrown(o)
      BY <1>4, <2>1, <2>2 DEF StoreGrown
    <3>2. DOMAIN saved' = DOMAIN saved \cup {o.id} /\ saved'[o.id] = o
      BY <3>1, GrowEffect DEF Disciplined
    <3>3. OthersStill(t) /\ held'[t] = o /\ pc'[t] = next
      BY <1>1, <2>2 DEF OthersStill, TypeOK
    <3>4. TaskOK(t)'
      BY <1>1, <3>2, <3>3 DEF TaskOK
    <3>5. \A d \in InUse(t)' : d \in InUse(t) \/ MayUse(t, d)
      BY <1>1, <2>1, <3>3, NoValues DEF InUse
    <3> QED
      BY <3>1, <3>3, <3>4, <3>5, SegmentStep
  <2>3. CASE /\ up' = FALSE
             /\ UNCHANGED <<saved, clientIndex, news, held, pc, answer>>
    (* The process died: an order id was drawn and never saved.            *)
    <3>1. OthersStill(t) /\ TaskOK(t)'
      BY <1>1, <2>3 DEF OthersStill, TaskOK
    <3>2. \A d \in InUse(t)' : d \in InUse(t) \/ MayUse(t, d)
      BY <1>1, <2>3, NoValues DEF InUse
    <3>3. StoreKept
      BY <1>4, <2>3 DEF StoreKept
    <3> QED
      BY <3>1, <3>2, <3>3, SegmentStep
  <2> QED
    BY <1>4, <2>2, <2>3 DEF Persist, o
<1> QED
  BY <1>3, <1>4 DEF OpenOrder

LEMMA BeginSubmitStep ==
  ASSUME IInv, Disciplined, TypeOK', CallsHold', NEW t \in Tasks,
         held[t] # NoOrder, pc[t] \in {"idle", "resubmit"}, BeginSubmit(t),
         UNCHANGED <<clock, seq, want, todo, exch>>
  PROVE  IInv' /\ SavedMoves /\ PromiseStep /\ EndsStep
<1> DEFINE o == held[t]
           jump == o.status \in {"Created", "Validated"}
           p == IF jump THEN Advance(o, "PendingSubmit") ELSE o
           n == Advance(p, "Submitted")
           rows == (IF jump THEN <<ChangeRow(o, "PendingSubmit")>> ELSE <<>>)
                   \o <<ChangeRow(p, "Submitted")>>
<1>1. TypeOK /\ TaskOK(t) /\ todo[t] = {} /\ o \in Orders
  BY InvParts DEF TypeOK, TaskOK
<1>2. /\ p \in Orders /\ p.id = o.id /\ p.client = o.client
      /\ o.version \in Nat /\ p.version \in {o.version, o.version + 1}
  BY <1>1, AdvanceType, StatusType DEF Orders
<1>3. /\ n \in Orders /\ n.id = o.id /\ n.client = o.client /\ n.status = "Submitted"
      /\ n.version > o.version
  <2> HIDE DEF o, p
  <2>1. /\ n \in Orders /\ n.id = p.id /\ n.client = p.client
        /\ n.status = "Submitted" /\ n.version = p.version + 1
    BY <1>2, AdvanceType, StatusType
  <2> HIDE DEF n
  <2> QED
    BY <1>2, <2>1
<1>4. ASSUME Persist(t, rows, n, <<>>, "submit", n), ValidTransition(p.status, "Submitted")
      PROVE  IInv' /\ SavedMoves /\ PromiseStep /\ EndsStep
  <2>1. p.status = "PendingSubmit"
    BY <1>4, ForwardOnly
  <2>2. /\ o.status \in BeforeSend /\ ~IsTerminal(o.status)
        /\ n.status \in Promise!Later(o.status)
    <3>1. o.status \in BeforeSend /\ ~IsTerminal(o.status)
      BY <2>1 DEF BeforeSend, IsTerminal, Terminal
    <3> HIDE DEF o, n, p
    <3> QED
      BY <1>3, <3>1, WithinReach
  <2>4. Announces(<<>>, n)
    BY DEF Announces
  <2> HIDE DEF o, p, n, rows
  <2>3. o = held[t]
    BY DEF o
  <2> QED
    BY <1>1, <1>3, <1>4, <2>2, <2>3, <2>4, PersistStep
<1>5. ASSUME Finish(t, "idle", o)
      PROVE  IInv' /\ SavedMoves /\ PromiseStep /\ EndsStep
  BY <1>1, <1>5, FinishStep
<1> QED
  BY <1>4, <1>5 DEF BeginSubmit

LEMMA CancelStep ==
  ASSUME IInv, Disciplined, TypeOK', CallsHold', NEW t \in Tasks, held[t] # NoOrder,
         NEW replacing, EndCancel(t, replacing), todo[t] = {},
         IsActive(held[t].status),
         UNCHANGED <<clock, seq, todo, exch>>,
         \A u \in Tasks \ {t} : want'[u] = want[u],
         want'[t] \in Clients => want'[t] = want[t] \/ MayUse(t, want'[t])
  PROVE  IInv' /\ SavedMoves /\ PromiseStep /\ EndsStep
<1> DEFINE n == Advance(held[t], "Cancelled")
           rows == <<ChangeRow(held[t], "Cancelled")>>
           next == IF replacing THEN "create" ELSE "idle"
<1>1. held[t] \in Orders
  BY InvParts DEF TypeOK
<1>2. /\ n \in Orders /\ n.id = held[t].id /\ n.client = held[t].client
      /\ n.status = "Cancelled" /\ n.version > held[t].version
  BY <1>1, AdvanceType, StatusType DEF Orders
<1>3. Persist(t, rows, n, <<"Cancelled">>, next, n)
  BY DEF EndCancel
<1>4. next \notin {"recover", "query", "submit", "cancel"} /\ n.status \notin BeforeSend
      /\ ~IsTerminal(held[t].status)
  BY <1>2 DEF BeforeSend, IsActive
<1>5. Announces(<<"Cancelled">>, n)
  BY <1>2, StatusType DEF Announces, IsTerminal, Terminal
<1>6. n.status \in Promise!Later(held[t].status)
  <2>1. held[t].status \in OrderStatuses
    BY <1>1 DEF Orders
  <2> HIDE DEF n
  <2> QED
    BY <1>2, <2>1, WithinReach
<1> HIDE DEF n, rows, next
<1> QED
  BY <1>2, <1>3, <1>4, <1>5, <1>6, PersistStep

LEMMA BeginCancelStep ==
  ASSUME IInv, Disciplined, TypeOK', CallsHold', NEW t \in Tasks, held[t] # NoOrder,
         NEW replacing, BeginCancel(t, replacing), todo[t] = {},
         UNCHANGED <<clock, seq, todo, exch>>,
         \A u \in Tasks \ {t} : want'[u] = want[u],
         want'[t] \in Clients => want'[t] = want[t] \/ MayUse(t, want'[t])
  PROVE  IInv' /\ SavedMoves /\ PromiseStep /\ EndsStep
<1>1. CASE IsActive(held[t].status) /\ Finish(t, "cancel", held[t])
  BY <1>1, FinishStep
<1>2. CASE IsActive(held[t].status) /\ EndCancel(t, replacing)
  BY <1>2, CancelStep
<1> QED
  BY <1>1, <1>2 DEF BeginCancel

(* sync_order and the recovery announce an end only of an ended order.     *)
LEMMA QueryAnnounces ==
  ASSUME TypeOK, NEW t \in Tasks, held[t] # NoOrder, answer[t] # NoAnswer,
         NEW n, n = Advance(held[t], answer[t].status)
  PROVE  /\ Announces(<<SyncEvent(answer[t].status)>>, n)
         /\ Announces(<<RecoveryEvent(answer[t].status)>>, n)
<1>1. held[t] \in Orders /\ answer[t].status \in OrderStatuses
  <2>1. answer[t] \in Answers
    BY DEF TypeOK
  <2> QED
    BY <2>1 DEF TypeOK, Answers
<1>2. n.status = answer[t].status
  BY <1>1, AdvanceType
<1>3. \A s \in OrderStatuses : /\ IsTerminal(SyncEvent(s)) => IsTerminal(s)
                               /\ IsTerminal(RecoveryEvent(s)) => IsTerminal(s)
  BY DEF SyncEvent, RecoveryEvent, IsTerminal, Terminal
<1>4. /\ SyncEvent(answer[t].status) \in OrderStatuses
      /\ RecoveryEvent(answer[t].status) \in OrderStatuses
  BY <1>1, EventType
<1> QED
  BY <1>1, <1>2, <1>3, <1>4 DEF Announces

LEMMA ReconcileStep ==
  ASSUME IInv, Disciplined, TypeOK', CallsHold', NEW t \in Tasks, held[t] # NoOrder,
         answer[t] # NoAnswer, NEW n, NEW told, NEW next, NEW same, NEW keep,
         n = Advance(held[t], answer[t].status), Announces(told, n),
         \/ /\ ValidTransition(held[t].status, answer[t].status)
            /\ Persist(t, <<>>, n, told, next, keep)
         \/ Finish(t, next, same),
         same \in {held[t], NoOrder}, keep \in {n, NoOrder},
         next \in {"idle", "recover"},
         next = "idle" => todo[t] = {},
         UNCHANGED <<clock, seq, want, todo, exch>>
  PROVE  IInv' /\ SavedMoves /\ PromiseStep /\ EndsStep
<1>1. held[t] \in Orders /\ answer[t].status \in OrderStatuses
  <2>1. TypeOK
    BY InvParts
  <2>2. answer[t] \in Answers
    BY <2>1 DEF TypeOK
  <2> QED
    BY <2>1, <2>2 DEF TypeOK, Answers
<1>2. n \in Orders /\ n.id = held[t].id /\ n.client = held[t].client
      /\ n.status = answer[t].status /\ n.version > held[t].version
  BY <1>1, AdvanceType DEF Orders
<1>3. ASSUME ValidTransition(held[t].status, answer[t].status),
             Persist(t, <<>>, n, told, next, keep)
      PROVE  IInv' /\ SavedMoves /\ PromiseStep /\ EndsStep
  <2>1. /\ n.status \in BeforeSend => held[t].status \in BeforeSend
        /\ ~IsTerminal(held[t].status)
        /\ n.status \in Promise!Later(held[t].status)
    BY <1>2, <1>3, ForwardOnly
  <2> QED
    BY <1>2, <1>3, <2>1, PersistStep
<1>4. ASSUME Finish(t, next, same)
      PROVE  IInv' /\ SavedMoves /\ PromiseStep /\ EndsStep
  BY <1>4, FinishStep
<1> QED
  BY <1>3, <1>4

LEMMA CallStep ==
  ASSUME IInv, Disciplined, TypeOK', CallsHold', NEW t \in Tasks, Call(t)
  PROVE  IInv' /\ SavedMoves /\ PromiseStep /\ EndsStep
<1>1. TypeOK /\ TaskOK(t) /\ IndexExact
  BY InvParts
<1>2. pc[t] = "idle" /\ todo[t] = {}
  BY <1>1 DEF Call, CreateOrder, ReplaceOrder, GetOrder, DropHandle, ValidateOrder,
              SubmitOrder, CancelOrder, SyncOrder, StartRecovery, Idle, TaskOK
<1>3. ASSUME NEW c \in Clients, CreateOrder(t, c)
      PROVE  IInv' /\ SavedMoves /\ PromiseStep /\ EndsStep
  BY <1>2, <1>3, OpenOrderStep DEF CreateOrder
<1>4. ASSUME NEW c \in Clients, ReplaceOrder(t, c)
      PROVE  IInv' /\ SavedMoves /\ PromiseStep /\ EndsStep
  <2>1. /\ held[t] # NoOrder /\ MayUse(t, c)
        /\ want'[t] = c /\ \A u \in Tasks \ {t} : want'[u] = want[u]
        /\ UNCHANGED <<clock, seq, todo, exch>>
    BY <1>1, <1>4 DEF ReplaceOrder, TypeOK
  <2>2. CASE BeginCancel(t, TRUE)
    BY <1>2, <2>1, <2>2, BeginCancelStep
  <2>3. CASE Finish(t, "create", held[t])
    BY <1>2, <2>1, <2>3, FinishStep
  <2> QED
    BY <1>4, <2>2, <2>3 DEF ReplaceOrder
<1>5. ASSUME NEW i \in DOMAIN saved, GetOrder(t, i)
      PROVE  IInv' /\ SavedMoves /\ PromiseStep /\ EndsStep
  <2>1. saved[i] \in Orders /\ saved[i].id = i
    BY <1>1 DEF TypeOK
  <2>2. OthersStill(t) /\ held'[t] = saved[i] /\ pc'[t] = "idle" /\ StoreKept
    BY <1>1, <1>2, <1>5 DEF GetOrder, OthersStill, StoreKept, TypeOK, store
  <2>3. TaskOK(t)'
    BY <1>1, <1>2, <1>5, <2>1, <2>2 DEF TaskOK, GetOrder, StoreKept
  <2>4. \A c \in InUse(t)' : c \in InUse(t) \/ MayUse(t, c)
    BY <1>2, <1>5, <2>2 DEF GetOrder, InUse
  <2> QED
    BY <1>5, <2>2, <2>3, <2>4, SegmentStep DEF GetOrder
<1>6. CASE DropHandle(t)
  <2>1. OthersStill(t) /\ held'[t] = NoOrder /\ pc'[t] = "idle" /\ StoreKept
    BY <1>1, <1>2, <1>6 DEF DropHandle, OthersStill, StoreKept, TypeOK, store
  <2>2. TaskOK(t)'
    BY <1>1, <1>2, <1>6, <2>1 DEF TaskOK, DropHandle, StoreKept
  <2>3. \A c \in InUse(t)' : c \in InUse(t) \/ MayUse(t, c)
    BY <1>6, <2>1 DEF DropHandle, InUse
  <2> QED
    BY <1>6, <2>1, <2>2, <2>3, SegmentStep DEF DropHandle
<1>7. CASE ValidateOrder(t)
  <2> DEFINE o == held[t]
  <2>1. PICK passed \in BOOLEAN :
          LET to == IF passed THEN "Validated" ELSE "Rejected" IN
          /\ ValidTransition(o.status, to)
          /\ Persist(t, <<ChangeRow(o, to)>>, Advance(o, to),
                     IF passed THEN <<>> ELSE <<"Rejected">>, "idle", Advance(o, to))
    BY <1>7 DEF ValidateOrder
  <2> DEFINE to == IF passed THEN "Validated" ELSE "Rejected"
             told == IF passed THEN <<>> ELSE <<"Rejected">>
             rows == <<ChangeRow(o, to)>>
             n == Advance(o, to)
  <2>2. Persist(t, rows, n, told, "idle", n) /\ ValidTransition(o.status, to)
    BY <2>1
  <2>3. o \in Orders /\ to \in OrderStatuses
    BY <1>1, <1>7, StatusType DEF ValidateOrder, TypeOK
  <2>4. /\ n \in Orders /\ n.id = o.id /\ n.client = o.client /\ n.status = to
        /\ n.version > o.version
    BY <2>3, AdvanceType DEF Orders
  <2>5. /\ n.status \in BeforeSend => o.status \in BeforeSend
        /\ ~IsTerminal(o.status)
        /\ n.status \in Promise!Later(o.status)
    BY <2>2, <2>4, ForwardOnly
  <2>6. Announces(told, n)
    BY <2>4, StatusType DEF Announces
  <2> HIDE DEF n, rows, to, told
  <2> QED
    BY <1>2, <1>7, <2>2, <2>4, <2>5, <2>6, PersistStep DEF ValidateOrder
<1>8. CASE SubmitOrder(t)
  BY <1>2, <1>8, BeginSubmitStep DEF SubmitOrder
<1>9. CASE CancelOrder(t)
  BY <1>2, <1>9, BeginCancelStep DEF CancelOrder
<1>10. CASE SyncOrder(t)
  BY <1>2, <1>10, FinishStep DEF SyncOrder
<1>11. CASE StartRecovery(t)
  <2> DEFINE found == {o \in {saved[i] : i \in DOMAIN saved} : IsActive(o.status) /\ o.eid # NoEid}
  <2>1. /\ OthersStill(t) /\ held'[t] = NoOrder /\ pc'[t] = "recover"
        /\ StoreKept /\ todo'[t] = found
    BY <1>1, <1>11 DEF StartRecovery, Finish, OthersStill, StoreKept, TypeOK, store
  <2>2. \A o \in found : o.id \in DOMAIN saved /\ saved[o.id] = o /\ MayUse(t, o.client)
    <3>1. \A i \in DOMAIN saved : saved[i].id = i
      BY <1>1 DEF TypeOK
    <3>2. \A i \in DOMAIN saved : IsActive(saved[i].status) => MayUse(t, saved[i].client)
      BY <1>11 DEF StartRecovery
    <3> QED
      BY <3>1, <3>2
  <2>3. TaskOK(t)'
    <3> HIDE DEF found
    <3> QED
      BY <2>1, <2>2 DEF TaskOK, StoreKept
  <2>4. \A c \in InUse(t)' : c \in InUse(t) \/ MayUse(t, c)
    <3> HIDE DEF found
    <3> QED
      BY <1>11, <2>1, <2>2 DEF InUse, StartRecovery
  <2> QED
    BY <1>11, <2>1, <2>3, <2>4, SegmentStep DEF StartRecovery
<1> QED
  BY <1>3, <1>4, <1>5, <1>6, <1>7, <1>8, <1>9, <1>10, <1>11 DEF Call

LEMMA ResumeStep ==
  ASSUME IInv, Disciplined, TypeOK', CallsHold', NEW t \in Tasks, Resume(t)
  PROVE  IInv' /\ SavedMoves /\ PromiseStep /\ EndsStep
<1>1. TypeOK /\ TaskOK(t) /\ CallsHold /\ up
  BY InvParts DEF Resume, SubmitAnswered, CancelAnswered, SyncAnswered, CreateReplacement,
                  SubmitReplacement, RecoverNext, RecoveryAnswered, RecoveryDone
<1>2. CASE SubmitAnswered(t)
  <2> DEFINE r  == answer[t]
             to == IF r.ok THEN r.status
                   ELSE IF r.status = "Expired" THEN "Expired" ELSE "Rejected"
             o  == IF r.ok /\ r.eid # NoEid THEN [held[t] EXCEPT !.eid = r.eid]
                   ELSE held[t]
             n  == Advance(o, to)
             rows == <<ChangeRow(o, to)>>
             told == <<SubmitEvent(r.ok, to)>>
  <2>1. held[t] \in Orders /\ r \in Answers /\ held[t] # NoOrder /\ todo[t] = {}
    BY <1>1, <1>2 DEF SubmitAnswered, TypeOK, TaskOK, CallsHold, Waiting
  <2>2. /\ o \in Orders /\ o.id = held[t].id /\ o.client = held[t].client
        /\ o.status = held[t].status /\ o.version = held[t].version
    BY <2>1 DEF Orders, Answers
  <2>3. to \in OrderStatuses
    BY <2>1, StatusType DEF Answers
  <2>4. Persist(t, rows, n, told, "idle", n) /\ ValidTransition(o.status, to)
    BY <1>2 DEF SubmitAnswered
  <2> HIDE DEF r, to, o, rows, told
  <2>5. /\ n \in Orders /\ n.id = held[t].id /\ n.client = held[t].client
        /\ n.status = to /\ n.version > held[t].version
    BY <2>2, <2>3, AdvanceType DEF Orders
  <2>6. /\ to \in BeforeSend => held[t].status \in BeforeSend
        /\ ~IsTerminal(held[t].status)
        /\ to \in Promise!Later(held[t].status)
    BY <2>2, <2>4, ForwardOnly
  <2>7. Announces(told, n)
    <3>1. SubmitEvent(r.ok, to) \in OrderStatuses
      BY <2>1, <2>3, EventType DEF Answers
    <3>2. IsTerminal(SubmitEvent(r.ok, to)) => IsTerminal(to)
      BY DEF SubmitEvent, to, IsTerminal, Terminal
    <3> HIDE DEF n
    <3> QED
      BY <2>5, <3>1, <3>2 DEF Announces, told
  <2> HIDE DEF n
  <2> QED
    BY <1>2, <2>1, <2>4, <2>5, <2>6, <2>7, PersistStep DEF SubmitAnswered
<1>3. CASE CancelAnswered(t)
  BY <1>1, <1>3, CancelStep DEF CancelAnswered, TaskOK, CallsHold, Waiting
<1>4. CASE SyncAnswered(t)
  <2> DEFINE n == Advance(held[t], answer[t].status)
             told == <<SyncEvent(answer[t].status)>>
  <2>1. /\ held[t] # NoOrder /\ answer[t] # NoAnswer /\ todo[t] = {}
        /\ UNCHANGED <<clock, seq, want, todo, exch>>
    BY <1>1, <1>4 DEF SyncAnswered, TaskOK, CallsHold, Waiting
  <2>2. \/ /\ ValidTransition(held[t].status, answer[t].status)
           /\ Persist(t, <<>>, n, told, "idle", n)
        \/ Finish(t, "idle", held[t])
    BY <1>4 DEF SyncAnswered, Reconcile
  <2> HIDE DEF n, told
  <2>3. n = Advance(held[t], answer[t].status)
    BY DEF n
  <2>4. Announces(told, n)
    BY <1>1, <2>1, <2>3, QueryAnnounces DEF told
  <2> QED
    BY <2>1, <2>2, <2>3, <2>4, ReconcileStep
<1>5. CASE CreateReplacement(t)
  <2>1. /\ want[t] \in Clients /\ want[t] \in InUse(t)
        /\ \A u \in Tasks \ {t} : want'[u] = want[u]
        /\ want'[t] = NoClient
    BY <1>1, <1>5 DEF CreateReplacement, CallsHold, TypeOK, InUse
  <2> QED
    BY <1>5, <2>1, OpenOrderStep DEF CreateReplacement
<1>6. CASE SubmitReplacement(t)
  BY <1>1, <1>6, BeginSubmitStep DEF SubmitReplacement, CallsHold
<1>7. CASE RecoverNext(t)
  <2>1. PICK o \in todo[t] : /\ todo' = [todo EXCEPT ![t] = @ \ {o}]
                             /\ Finish(t, "query", o)
    BY <1>7 DEF RecoverNext
  <2>2. o \in Orders /\ o.id \in DOMAIN saved /\ saved[o.id] = o /\ o.client \in InUse(t)
    BY <1>1 DEF TypeOK, TaskOK, InUse, Orders
  <2>3. /\ OthersStill(t) /\ held'[t] = o /\ pc'[t] = "query" /\ StoreKept
        /\ todo'[t] = todo[t] \ {o} /\ want' = want
    BY <1>1, <1>7, <2>1 DEF RecoverNext, Finish, OthersStill, StoreKept, TypeOK, store
  <2>4. \A x \in todo[t] : x.client = o.client => x = o
    <3>1. IndexExact
      BY InvParts
    <3>2. \A x \in todo[t] : x.id \in DOMAIN saved /\ saved[x.id] = x
      BY <1>1 DEF TaskOK
    <3> QED
      BY <2>2, <3>1, <3>2 DEF IndexExact
  <2>5. TaskOK(t)'
    BY <1>1, <2>2, <2>3, <2>4 DEF TaskOK, StoreKept
  <2>6. \A c \in InUse(t)' : c \in InUse(t) \/ MayUse(t, c)
    BY <2>2, <2>3 DEF InUse
  <2> QED
    BY <1>7, <2>3, <2>5, <2>6, SegmentStep DEF RecoverNext
<1>8. CASE RecoveryAnswered(t)
  <2> DEFINE n == Advance(held[t], answer[t].status)
             told == <<RecoveryEvent(answer[t].status)>>
  <2>1. /\ held[t] # NoOrder /\ answer[t] # NoAnswer
        /\ UNCHANGED <<clock, seq, want, todo, exch>>
    BY <1>1, <1>8 DEF RecoveryAnswered, CallsHold, Waiting
  <2>2. \/ /\ ValidTransition(held[t].status, answer[t].status)
           /\ Persist(t, <<>>, n, told, "recover", NoOrder)
        \/ Finish(t, "recover", NoOrder)
    BY <1>8 DEF RecoveryAnswered, Reconcile
  <2> HIDE DEF n, told
  <2>3. n = Advance(held[t], answer[t].status)
    BY DEF n
  <2>4. Announces(told, n)
    BY <1>1, <2>1, <2>3, QueryAnnounces DEF told
  <2> QED
    BY <2>1, <2>2, <2>3, <2>4, ReconcileStep
<1>9. CASE RecoveryDone(t)
  BY <1>9, FinishStep DEF RecoveryDone
<1> QED
  BY <1>2, <1>3, <1>4, <1>5, <1>6, <1>7, <1>8, <1>9 DEF Resume

(* Steps of the exchange that keep every order's place and client.         *)
LEMMA ExchangeStep ==
  ASSUME IInv, TypeOK', CallsHold',
         UNCHANGED <<clock, seq, saved, clientIndex, news, pc, held, want, todo>>,
         \A u \in Tasks : answer'[u] = answer[u] \/ answer'[u] # NoAnswer,
         DOMAIN exch' = DOMAIN exch,
         \A k \in DOMAIN exch : exch'[k].client = exch[k].client
  PROVE  IInv' /\ SavedMoves /\ PromiseStep /\ EndsStep
<1>1. /\ \A u \in Tasks : TaskOK(u)
      /\ HandlesDisjoint /\ IndexExact
      /\ SentAreSaved /\ AtMostOnceSubmission
  BY InvParts
<1>2. \A u \in Tasks : TaskOK(u)'
  BY <1>1 DEF TaskOK
<1>3. HandlesDisjoint' /\ IndexExact'
  BY <1>1 DEF HandlesDisjoint, InUse, IndexExact, Known, OrderOf, clock
<1>4. SentAreSaved' /\ AtMostOnceSubmission'
  BY <1>1 DEF SentAreSaved, AtMostOnceSubmission, Known, OrderOf
<1>5. PromiseStep /\ EndsStep
  BY StillStep DEF EndsStep, EndsKnown, Known, OrderOf
<1> QED
  BY <1>2, <1>3, <1>4, <1>5 DEF SavedMoves, IInv, TaskOK, HandlesCurrent, TodoApart, Undelivered

(* An order arrives at the exchange: its submission was saved, and none    *)
(* for its client order id had arrived.                                    *)
LEMMA ArrivalStep ==
  ASSUME IInv, TypeOK', CallsHold', NEW t \in Tasks, pc[t] = "submit",
         answer[t] = NoAnswer, answer'[t] # NoAnswer,
         \A u \in Tasks \ {t} : answer'[u] = answer[u],
         UNCHANGED <<clock, seq, saved, clientIndex, news, pc, held, want, todo>>,
         NEW x \in ExchOrders, exch' = Append(exch, x), x.client = held[t].client
  PROVE  IInv' /\ SavedMoves /\ PromiseStep /\ EndsStep
<1>1. /\ \A u \in Tasks : TaskOK(u)
      /\ TypeOK /\ CallsHold /\ HandlesDisjoint /\ IndexExact
      /\ SentAreSaved /\ AtMostOnceSubmission
  BY InvParts
<1>2. /\ held[t] # NoOrder /\ held[t] \in Orders /\ x.client \in Clients
      /\ held[t].status = "Submitted"
      /\ held[t].id \in DOMAIN saved /\ saved[held[t].id] = held[t]
      /\ \A k \in DOMAIN exch : exch[k].client # x.client
  BY <1>1 DEF TaskOK, CallsHold, Waiting, TypeOK, Orders
<1>3. exch \in Seq(ExchOrders)
  BY <1>1 DEF TypeOK
<1>4. /\ DOMAIN exch' = DOMAIN exch \cup {Len(exch) + 1}
      /\ \A k \in DOMAIN exch : exch'[k] = exch[k]
      /\ exch'[Len(exch) + 1] = x
  BY <1>3
<1>5. ASSUME NEW u \in Tasks
      PROVE  TaskOK(u)'
  <2>1. TaskOK(u)
    BY <1>1
  <2>2. CASE u = t
    BY <2>1, <2>2 DEF TaskOK
  <2>3. CASE u # t
    <3>1. pc[u] = "submit" => held[u].client # x.client
      <4>1. pc[u] = "submit" => held[u] # NoOrder /\ held[u].client \in Clients
        BY <1>1 DEF CallsHold, Waiting, TypeOK, Orders
      <4> QED
        BY <1>1, <1>2, <2>3, <4>1 DEF HandlesDisjoint, InUse
    <3> QED
      BY <1>4, <2>1, <2>3, <3>1 DEF TaskOK
  <2> QED
    BY <2>2, <2>3
<1>6. HandlesDisjoint' /\ IndexExact'
  BY <1>1 DEF HandlesDisjoint, InUse, IndexExact, Known, OrderOf, clock
<1>7. SentAreSaved'
  <2>1. clientIndex[x.client] = held[t].id /\ held[t].id \in OrderIds
    BY <1>1, <1>2 DEF IndexExact, Orders
  <2>2. Known(x.client) /\ OrderOf(x.client) = held[t]
    BY <1>2, <2>1, NoValues DEF Known, OrderOf
  <2> QED
    BY <1>1, <1>2, <1>4, <2>2 DEF SentAreSaved, Known, OrderOf, BeforeSend
<1>8. AtMostOnceSubmission'
  BY <1>1, <1>2, <1>4 DEF AtMostOnceSubmission
<1>9. EndsStep
  BY DEF EndsStep, EndsKnown, Known, OrderOf
<1>10. PromiseStep
  <2> DEFINE c == x.client
             m == Len(exch) + 1
  <2>1. StatusOf(c) = "Submitted"
    <3>1. clientIndex[c] = held[t].id /\ held[t].id \in OrderIds
      BY <1>1, <1>2 DEF IndexExact, Orders
    <3> QED
      BY <1>2, <3>1, NoValues DEF StatusOf, Known, OrderOf
  <2>2. \A d \in Clients : StatusOf(d)' = StatusOf(d)
    BY DEF StatusOf, Known, OrderOf
  <2>3. \A d \in Clients \ {c} : {k \in DOMAIN exch' : exch'[k].client = d}
                               = {k \in DOMAIN exch : exch[k].client = d}
    BY <1>4
  <2>4. {k \in DOMAIN exch : exch[k].client = c} = {}
    BY <1>2
  <2>5. {k \in DOMAIN exch' : exch'[k].client = c} = {m}
    BY <1>2, <1>4
  <2>6. Received(c) = 0 /\ Received(c)' = 1
    BY <2>4, <2>5, FS_EmptySet, FS_Singleton DEF Received
  <2>7. \A d \in Clients \ {c} : Received(d)' = Received(d)
    BY <2>3 DEF Received
  <2> HIDE DEF c
  <2> QED
    BY <1>2, <2>1, <2>2, <2>6, <2>7, DeliverStep DEF c
<1> QED
  BY <1>5, <1>6, <1>7, <1>8, <1>9, <1>10 DEF SavedMoves, IInv, TaskOK, HandlesCurrent, TodoApart, Undelivered

LEMMA BootStep ==
  ASSUME IInv, Disciplined, TypeOK', CallsHold', Boot
  PROVE  IInv' /\ SavedMoves /\ PromiseStep /\ EndsStep
<1>1. /\ TypeOK /\ IndexExact /\ SentAreSaved /\ AtMostOnceSubmission
  BY InvParts
<1>2. /\ \A t \in Tasks : /\ pc'[t] = "idle" /\ held'[t] = NoOrder
                           /\ want'[t] = NoClient /\ todo'[t] = {}
      /\ UNCHANGED <<saved, clientIndex>>
  BY DEF Boot, store
<1>3. \A t \in Tasks : TaskOK(t)' /\ InUse(t)' = {}
  BY <1>2, NoValues DEF TaskOK, InUse
<1>4. HandlesDisjoint'
  BY <1>3 DEF HandlesDisjoint
<1>6. IndexExact' /\ SentAreSaved' /\ AtMostOnceSubmission'
  BY <1>1, <1>2, BootEffect
     DEF IndexExact, SentAreSaved, AtMostOnceSubmission, Known, OrderOf
<1>7. PromiseStep
  BY <1>1, <1>2, BootEffect, StillStep
<1>8. EndsStep
  BY DEF Boot, EndsStep, EndsKnown
<1> QED
  BY <1>2, <1>3, <1>4, <1>6, <1>7, <1>8 DEF SavedMoves, IInv, TaskOK, HandlesCurrent, TodoApart, Undelivered

LEMMA InvStep ==
  ASSUME IInv, Disciplined, [Next]_vars
  PROVE  IInv' /\ SavedMoves /\ PromiseStep /\ EndsStep
<1>1. TypeOK /\ CallsHold /\ TypeOK' /\ CallsHold'
  BY InvParts, TypeStep
<1>2. ASSUME NEW t \in Tasks, Call(t) \/ Resume(t)
      PROVE  IInv' /\ SavedMoves /\ PromiseStep /\ EndsStep
  BY <1>1, <1>2, CallStep, ResumeStep
<1>3. ASSUME NEW t \in Tasks, GatewayReply(t)
      PROVE  IInv' /\ SavedMoves /\ PromiseStep /\ EndsStep
  <2>1. /\ UNCHANGED <<clock, seq, saved, clientIndex, news, pc, held, want, todo>>
        /\ answer[t] = NoAnswer /\ answer'[t] # NoAnswer
        /\ \A u \in Tasks \ {t} : answer'[u] = answer[u]
    BY <1>1, <1>3, ReplyEffect DEF ReplyFrame, store
  <2>2. \/ /\ DOMAIN exch' = DOMAIN exch
           /\ \A k \in DOMAIN exch : exch'[k].client = exch[k].client
        \/ /\ pc[t] = "submit"
           /\ \E x \in ExchOrders : exch' = Append(exch, x) /\ x.client = held[t].client
    BY <1>1, <1>3, ReplyEffect
  <2> QED
    BY <1>1, <2>1, <2>2, ExchangeStep, ArrivalStep
<1>4. ASSUME NEW k \in DOMAIN exch, ExchangeFill(k)
      PROVE  IInv' /\ SavedMoves /\ PromiseStep /\ EndsStep
  BY <1>1, <1>4, FillEffect, ExchangeStep DEF ExchangeFill, store
<1>5. CASE Crash \/ UNCHANGED vars
  BY <1>1, <1>5, ExchangeStep DEF Crash, vars, store, clock
<1>6. CASE Boot
  BY <1>1, <1>6, BootStep
<1> QED
  BY <1>2, <1>3, <1>4, <1>5, <1>6 DEF Next

LEMMA InvInit ==
  ASSUME Init
  PROVE  IInv
<1>1. TypeOK /\ CallsHold
  BY TypeInit
<1>2. \A t \in Tasks : TaskOK(t) /\ InUse(t) = {}
  BY NoValues DEF Init, TaskOK, InUse
<1>3. IndexExact /\ SentAreSaved /\ AtMostOnceSubmission
  BY DEF Init, IndexExact, SentAreSaved, AtMostOnceSubmission, Known
<1> QED
  BY <1>1, <1>2, <1>3, InvParts DEF HandlesDisjoint

(* That two orders were saved under one id is never forgotten.             *)
LEMMA SegmentMixes ==
  ASSUME NEW t, mixed
  PROVE  /\ \A next, keep : Finish(t, next, keep) => mixed'
         /\ \A rows, o, told, next, keep : Persist(t, rows, o, told, next, keep) => mixed'
         /\ \A c, next : OpenOrder(t, c, next) => mixed'
         /\ BeginSubmit(t) => mixed'
         /\ \A replacing : BeginCancel(t, replacing) \/ EndCancel(t, replacing) => mixed'
<1>1. \A next, keep : Finish(t, next, keep) => mixed'
  BY DEF Finish, store
<1>2. ASSUME NEW rows, NEW o, NEW told, NEW next, NEW keep,
             Persist(t, rows, o, told, next, keep)
      PROVE  mixed'
  BY <1>2 DEF Persist, Save
<1>3. ASSUME NEW c, NEW next, OpenOrder(t, c, next) PROVE mixed'
  BY <1>1, <1>2, <1>3 DEF OpenOrder
<1>4. BeginSubmit(t) => mixed'
  BY <1>1, <1>2 DEF BeginSubmit
<1>5. ASSUME NEW replacing, BeginCancel(t, replacing) \/ EndCancel(t, replacing)
      PROVE  mixed'
  BY <1>1, <1>2, <1>5 DEF BeginCancel, EndCancel
<1> QED
  BY <1>1, <1>2, <1>3, <1>4, <1>5

LEMMA MixedStays ==
  ASSUME [Next]_vars, mixed
  PROVE  mixed'
<1>1. ASSUME NEW t \in Tasks, Call(t)
      PROVE  mixed'
  <2>1. CASE \E c \in Clients : CreateOrder(t, c) \/ ReplaceOrder(t, c)
    BY <2>1, SegmentMixes DEF CreateOrder, ReplaceOrder
  <2>2. CASE \/ \E i \in DOMAIN saved : GetOrder(t, i)
             \/ DropHandle(t)
    BY <2>2 DEF GetOrder, DropHandle, store
  <2>3. CASE ValidateOrder(t)
    BY <2>3, SegmentMixes DEF ValidateOrder
  <2>4. CASE SubmitOrder(t) \/ CancelOrder(t) \/ SyncOrder(t) \/ StartRecovery(t)
    BY <2>4, SegmentMixes DEF SubmitOrder, CancelOrder, SyncOrder, StartRecovery
  <2> QED
    BY <1>1, <2>1, <2>2, <2>3, <2>4 DEF Call
<1>2. ASSUME NEW t \in Tasks, Resume(t)
      PROVE  mixed'
  <2>1. CASE SubmitAnswered(t)
    BY <2>1, SegmentMixes DEF SubmitAnswered
  <2>2. CASE CancelAnswered(t) \/ CreateReplacement(t) \/ SubmitReplacement(t)
    BY <2>2, SegmentMixes DEF CancelAnswered, CreateReplacement, SubmitReplacement
  <2>3. CASE SyncAnswered(t) \/ RecoveryAnswered(t)
    BY <2>3, SegmentMixes DEF SyncAnswered, RecoveryAnswered, Reconcile
  <2>4. CASE RecoverNext(t) \/ RecoveryDone(t)
    BY <2>4, SegmentMixes DEF RecoverNext, RecoveryDone
  <2> QED
    BY <1>2, <2>1, <2>2, <2>3, <2>4 DEF Resume
<1>3. ASSUME NEW t \in Tasks, GatewayReply(t)
      PROVE  mixed'
  BY <1>3 DEF GatewayReply, GatewaySubmit, GatewayCancel, GatewayQuery, store
<1>4. CASE \/ \E k \in DOMAIN exch : ExchangeFill(k)
           \/ Crash \/ Boot \/ UNCHANGED vars
  BY <1>4 DEF ExchangeFill, Crash, Boot, vars, store
<1> QED
  BY <1>1, <1>2, <1>3, <1>4 DEF Next

(* The invariant as it holds of every behaviour, restarts on the same day  *)
(* included.                                                               *)
Sound == ~mixed => IInv

LEMMA SoundStep ==
  ASSUME Exclusive
  PROVE  /\ Sound /\ [Next]_vars => Sound'
         /\ Sound /\ [Next]_vars
            => mixed' \/ (IInv /\ IInv' /\ SavedMoves /\ PromiseStep /\ EndsStep)
BY MixedStays, InvStep DEF Sound, Disciplined

(* For callers that keep one handle per client order id, any number of     *)
(* them, of orders, crashes, lost answers and restarts on the same or on   *)
(* later days: the invariant of Oms holds until an order is saved over     *)
(* another client order id's.                                              *)
THEOREM Invariance == ASSUME Exclusive PROVE Spec => [](~mixed => IInv)
<1>1. Init => Sound
  BY InvInit DEF Sound
<1>2. Sound /\ [Next]_vars => Sound'
  BY SoundStep
<1>3. Spec => []Sound
  BY <1>1, <1>2, PTL DEF Spec
<1> QED
  BY <1>3 DEF Sound

(* The exchange receives at most one order for a client order id, for      *)
(* callers that keep one handle of it and as long as no order id has been  *)
(* given twice (lifecycle.rs:269 create_order, lifecycle.rs:298            *)
(* submit_order).                                                          *)
THEOREM SubmissionIsAtMostOnce ==
  ASSUME Exclusive PROVE Spec => [](~mixed => AtMostOnceSubmission)
<1>1. (~mixed => IInv) => (~mixed => AtMostOnceSubmission)
  BY DEF IInv
<1> QED
  BY <1>1, Invariance, PTL

(* What the exchange received, the repository has as submitted, across     *)
(* crashes and restarts on any day, until an order id given again          *)
(* overwrites another client's order (order.rs:339).                       *)
THEOREM SavedBeforeSent == ASSUME Exclusive PROVE Spec => []PersistBeforeSend
<1>1. (~mixed => IInv) => PersistBeforeSend
  BY DEF IInv, PersistBeforeSend
<1> QED
  BY <1>1, Invariance, PTL

(* The OMS implements OrderPromise: seen through its repository and what   *)
(* the exchange received, each client order id's order appears, moves      *)
(* along the transition table and is delivered at most once, while it is   *)
(* Submitted (lifecycle.rs:298), for callers that keep one handle of it,   *)
(* in every step up to the first that saves an order over another client's.*)
THEOREM PromiseKept == ASSUME Exclusive PROVE Spec => KeepsPromise
<1>1. Init => Promise!PromiseInit
  <2> SUFFICES ASSUME Init PROVE Promise!PromiseInit
    OBVIOUS
  <2>1. \A c \in Clients : StatusOf(c) = "None"
    BY DEF Init, StatusOf, Known
  <2>2. \A c \in Clients : {k \in DOMAIN exch : exch[k].client = c} = {}
    BY DEF Init
  <2>3. \A c \in Clients : Received(c) = 0
    BY <2>2, FS_EmptySet DEF Received
  <2> QED
    BY <2>1, <2>3 DEF Promise!PromiseInit
<1>2. Sound /\ [Next]_vars => mixed' \/ PromiseStep
  BY SoundStep
<1>3. Sound /\ [Next]_vars => [mixed' \/ Promise!PromiseNext]_(Promise!pvars)
  BY <1>2 DEF PromiseStep
<1>4. Spec => []Sound
  BY Invariance DEF Sound
<1> QED
  BY <1>1, <1>3, <1>4, PTL DEF Spec, KeepsPromise

(* Subscribers hear of at most one end of an order, and only once the      *)
(* repository has it as ended (lifecycle.rs:453, recovery.rs:264), for     *)
(* callers that keep one handle per client order id and as long as no      *)
(* order id has been given twice.                                          *)
THEOREM EndsAnnouncedOnce ==
  ASSUME Exclusive PROVE Spec => [](~mixed => OneEndAnnounced)
<1> DEFINE Told == ~mixed => EndsKnown
<1>1. Init => Told
  BY DEF Init, EndsKnown
<1>2. Sound /\ Told /\ [Next]_vars => Told'
  BY SoundStep, MixedStays DEF EndsStep
<1>3. EndsKnown => OneEndAnnounced
  <2> SUFFICES ASSUME EndsKnown, NEW c \in Clients
               PROVE  LET ends == {k \in DOMAIN news[c] : IsTerminal(news[c][k])}
                      IN  /\ Cardinality(ends) <= 1
                          /\ up /\ ends # {} => Known(c) /\ IsTerminal(OrderOf(c).status)
    BY DEF OneEndAnnounced
  <2> DEFINE ends == {k \in DOMAIN news[c] : IsTerminal(news[c][k])}
  <2>1. ends = {} \/ \E k : ends = {k}
    BY DEF EndsKnown
  <2>2. Cardinality(ends) <= 1
    <3> HIDE DEF ends
    <3>1. CASE ends = {}
      BY <3>1, FS_EmptySet
    <3>2. CASE \E k : ends = {k}
      <4>1. PICK k : ends = {k}
        BY <3>2
      <4>2. Cardinality({k}) = 1
        BY FS_Singleton
      <4> QED
        BY <4>1, <4>2
    <3> QED
      BY <2>1, <3>1, <3>2
  <2>3. ends # {} => Known(c) /\ IsTerminal(OrderOf(c).status)
    BY DEF EndsKnown
  <2> QED
    BY <2>2, <2>3
<1>4. Told => (~mixed => OneEndAnnounced)
  BY <1>3
<1>5. Spec => []Sound
  BY Invariance DEF Sound
<1> HIDE DEF Told
<1> QED
  BY <1>1, <1>2, <1>4, <1>5, PTL DEF Spec

(* An order that has ended is not changed in the repository (order.rs:109, *)
(* state_machine.rs:204) by callers that keep one handle per client order  *)
(* id, except by an order of another client saved under its id.            *)
THEOREM EndedOrdersStay == ASSUME Exclusive PROVE Spec => TerminalIsFinal
<1>1. Sound /\ [Next]_vars
      => [~mixed' => \A i \in DOMAIN saved :
                       IsTerminal(saved[i].status) => saved'[i] = saved[i]]_vars
  BY SoundStep DEF SavedMoves
<1>2. Spec => []Sound
  BY Invariance DEF Sound
<1> QED
  BY <1>1, <1>2, PTL DEF Spec, TerminalIsFinal

(* A save that changes an order leaves a later version of it in the        *)
(* repository (order.rs:373, csv.rs:173), for callers that keep one handle *)
(* per client order id, unless it is another client's order under its id.  *)
THEOREM SavesAreLater == ASSUME Exclusive PROVE Spec => VersionsGrow
<1>1. Sound /\ [Next]_vars
      => [~mixed' => \A i \in DOMAIN saved :
                       saved'[i] # saved[i] => saved'[i].version > saved[i].version]_vars
  BY SoundStep DEF SavedMoves
<1>2. Spec => []Sound
  BY Invariance DEF Sound
<1> QED
  BY <1>1, <1>2, PTL DEF Spec, VersionsGrow
--------------------------------------------------------------------------------
(* The status change file covers the repository, whatever the callers do.  *)

(* What a query answers is never a status of the lifecycle.                *)
QueryAnswers ==
  \A t \in Tasks :
    pc[t] \in {"sync", "query"} /\ answer[t] # NoAnswer
    => answer[t].status \notin LifecycleStatuses

Audited == AuditCovers /\ QueryAnswers

(* A task keeps its answer only by staying where it is.                    *)
AnswersUsed ==
  \A u \in Tasks :
    answer'[u] = NoAnswer \/ (pc'[u] = pc[u] /\ answer'[u] = answer[u])

(* The row of a transition is among the rows a segment writes.             *)
RowIn(rows, o) ==
  \E i \in DOMAIN rows :
    rows[i].id = o.id /\ rows[i].version = o.version /\ rows[i].to = o.status

LEMMA UsedAnswers ==
  ASSUME QueryAnswers, AnswersUsed
  PROVE  QueryAnswers'
BY DEF QueryAnswers, AnswersUsed

LEMMA RowOfChange ==
  ASSUME NEW o \in Orders, NEW s \in OrderStatuses
  PROVE  RowIn(<<ChangeRow(o, s)>>, Advance(o, s))
<1> DEFINE n == Advance(o, s)
           c == ChangeRow(o, s)
<1>1. c.id = n.id /\ c.version = n.version /\ c.to = n.status
  BY AdvanceType DEF ChangeRow
<1> HIDE DEF n, c
<1>2. 1 \in DOMAIN <<c>> /\ <<c>>[1] = c
  OBVIOUS
<1>3. RowIn(<<c>>, n)
  BY <1>1, <1>2 DEF RowIn
<1> QED
  BY <1>3 DEF n, c

LEMMA PersistAudit ==
  ASSUME TypeOK, Audited, NEW t \in Tasks, NEW rows, NEW o \in Orders, NEW told, NEW next,
         NEW keep, Persist(t, rows, o, told, next, keep),
         o.status \in LifecycleStatuses => RowIn(rows, o)
  PROVE  Audited'
<1>1. CASE /\ audit' = audit \cup {rows[i] : i \in DOMAIN rows}
           /\ Save(o)
           /\ pc' = [pc EXCEPT ![t] = next]
           /\ answer' = [answer EXCEPT ![t] = NoAnswer]
  <2>1. /\ DOMAIN saved' = DOMAIN saved \cup {o.id}
        /\ \A i \in DOMAIN saved' : saved'[i] = IF i = o.id THEN o ELSE saved[i]
    BY <1>1 DEF Save
  <2>2. o.status \in LifecycleStatuses
        => \E r \in audit' : r.id = o.id /\ r.version = o.version /\ r.to = o.status
    BY <1>1 DEF RowIn
  <2>3. AuditCovers'
    BY <1>1, <2>1, <2>2 DEF Audited, AuditCovers
  <2>4. AnswersUsed
    BY <1>1 DEF AnswersUsed, TypeOK
  <2> QED
    BY <2>3, <2>4, UsedAnswers DEF Audited
<1>2. CASE audit \subseteq audit' /\ UNCHANGED <<saved, pc, answer>>
  BY <1>2 DEF Audited, AuditCovers, QueryAnswers
<1> QED
  BY <1>1, <1>2 DEF Persist

LEMMA FinishAudit ==
  ASSUME TypeOK, Audited, NEW t \in Tasks, NEW next, NEW keep, Finish(t, next, keep)
  PROVE  Audited'
<1>1. AuditCovers'
  BY DEF Finish, store, Audited, AuditCovers
<1>2. AnswersUsed
  BY DEF Finish, AnswersUsed, TypeOK
<1> QED
  BY <1>1, <1>2, UsedAnswers DEF Audited

LEMMA OpenOrderAudit ==
  ASSUME TypeOK, Audited, NEW t \in Tasks, NEW c \in Clients, NEW next, OpenOrder(t, c, next)
  PROVE  Audited'
<1> DEFINE o == NewOrder(<<today, seq + 1>>, c)
<1>1. o \in Orders /\ o.status \notin LifecycleStatuses
  BY StatusType DEF TypeOK, NewOrder, Orders, OrderIds, LifecycleStatuses
<1> HIDE DEF o
<1>2. (\E keep : Finish(t, next, keep)) \/ Persist(t, <<>>, o, <<>>, next, o)
  BY DEF OpenOrder, o
<1> QED
  BY <1>1, <1>2, PersistAudit, FinishAudit

LEMMA BeginSubmitAudit ==
  ASSUME TypeOK, Audited, NEW t \in Tasks, held[t] # NoOrder, BeginSubmit(t)
  PROVE  Audited'
<1> DEFINE o == held[t]
           jump == o.status \in {"Created", "Validated"}
           p == IF jump THEN Advance(o, "PendingSubmit") ELSE o
           n == Advance(p, "Submitted")
           rows == (IF jump THEN <<ChangeRow(o, "PendingSubmit")>> ELSE <<>>)
                   \o <<ChangeRow(p, "Submitted")>>
<1>1. o \in Orders /\ p \in Orders
  BY AdvanceType, StatusType DEF TypeOK
<1>2. n \in Orders
  BY <1>1, AdvanceType, StatusType
<1>3. RowIn(rows, n)
  <2> DEFINE c == ChangeRow(p, "Submitted")
             d == ChangeRow(o, "PendingSubmit")
  <2> HIDE DEF o, p, d
  <2>1. RowIn(<<c>>, n)
    BY <1>1, RowOfChange, StatusType
  <2> HIDE DEF c, n
  <2>2. c \in Rows /\ d \in Rows
    BY <1>1, AdvanceType, StatusType DEF c, d
  <2>3. <<>> \o <<c>> = <<c>>
    BY <2>2, ConcatEmptySeq
  <2>4. RowIn(<<d>> \o <<c>>, n)
    <3> DEFINE e == <<d>> \o <<c>>
    <3>1. /\ <<d>> \in Seq(Rows) /\ Len(<<d>>) = 1
          /\ <<c>> \in Seq(Rows) /\ Len(<<c>>) = 1 /\ <<c>>[1] = c
      BY <2>2
    <3>2. e \in Seq(Rows) /\ Len(e) = 2 /\ e[2] = c
      BY <3>1, ConcatProperties
    <3> HIDE DEF e
    <3>3. 2 \in DOMAIN e
      BY <3>2
    <3>4. c.id = n.id /\ c.version = n.version /\ c.to = n.status
      BY <1>1, AdvanceType, StatusType DEF c, n, ChangeRow
    <3> QED
      BY <3>2, <3>3, <3>4 DEF RowIn, e
  <2>5. rows = (IF jump THEN <<d>> ELSE <<>>) \o <<c>>
    BY DEF c, d
  <2> QED
    BY <2>1, <2>3, <2>4, <2>5
<1>4. Persist(t, rows, n, <<>>, "submit", n) \/ Finish(t, "idle", o)
  BY DEF BeginSubmit
<1> HIDE DEF o, rows, p, n
<1> QED
  BY <1>2, <1>3, <1>4, PersistAudit, FinishAudit

LEMMA CancelAudit ==
  ASSUME TypeOK, Audited, NEW t \in Tasks, held[t] # NoOrder, NEW replacing,
         EndCancel(t, replacing)
  PROVE  Audited'
<1>1. held[t] \in Orders
  BY DEF TypeOK
<1>2. /\ Advance(held[t], "Cancelled") \in Orders
      /\ RowIn(<<ChangeRow(held[t], "Cancelled")>>, Advance(held[t], "Cancelled"))
  BY <1>1, StatusType, AdvanceType, RowOfChange
<1> QED
  BY <1>2, PersistAudit DEF EndCancel

LEMMA BeginCancelAudit ==
  ASSUME TypeOK, Audited, NEW t \in Tasks, held[t] # NoOrder, NEW replacing,
         BeginCancel(t, replacing)
  PROVE  Audited'
BY CancelAudit, FinishAudit DEF BeginCancel

(* A query's answer writes no row, and sets no status that needs one.      *)
LEMMA ReconcileAudit ==
  ASSUME TypeOK, Audited, NEW t \in Tasks, held[t] # NoOrder, answer[t] # NoAnswer,
         pc[t] \in {"sync", "query"}, NEW n, NEW told, NEW next, NEW same, NEW keep,
         n = Advance(held[t], answer[t].status),
         Persist(t, <<>>, n, told, next, keep) \/ Finish(t, next, same)
  PROVE  Audited'
<1>1. held[t] \in Orders /\ answer[t].status \in OrderStatuses
  <2>1. answer[t] \in Answers
    BY DEF TypeOK
  <2> QED
    BY <2>1 DEF TypeOK, Answers
<1>2. n \in Orders /\ n.status = answer[t].status
  BY <1>1, AdvanceType
<1>3. n.status \notin LifecycleStatuses
  BY <1>2 DEF Audited, QueryAnswers
<1> QED
  BY <1>2, <1>3, PersistAudit, FinishAudit

LEMMA CallAudit ==
  ASSUME TypeOK, Audited, NEW t \in Tasks, Call(t)
  PROVE  Audited'
<1>1. ASSUME NEW c \in Clients, CreateOrder(t, c)
      PROVE  Audited'
  BY <1>1, OpenOrderAudit DEF CreateOrder
<1>2. ASSUME NEW c \in Clients, ReplaceOrder(t, c)
      PROVE  Audited'
  BY <1>2, BeginCancelAudit, FinishAudit DEF ReplaceOrder
<1>3. ASSUME NEW i \in DOMAIN saved, GetOrder(t, i)
      PROVE  Audited'
  BY <1>3 DEF GetOrder, store, Audited, AuditCovers, QueryAnswers
<1>4. CASE DropHandle(t)
  BY <1>4 DEF DropHandle, store, Audited, AuditCovers, QueryAnswers
<1>5. CASE ValidateOrder(t)
  <2> DEFINE o == held[t]
  <2>1. PICK passed \in BOOLEAN :
          LET to == IF passed THEN "Validated" ELSE "Rejected" IN
          Persist(t, <<ChangeRow(o, to)>>, Advance(o, to),
                  IF passed THEN <<>> ELSE <<"Rejected">>, "idle", Advance(o, to))
    BY <1>5 DEF ValidateOrder
  <2> DEFINE to == IF passed THEN "Validated" ELSE "Rejected"
             told == IF passed THEN <<>> ELSE <<"Rejected">>
             rows == <<ChangeRow(o, to)>>
             n == Advance(o, to)
  <2>2. o \in Orders /\ to \in OrderStatuses
    BY <1>5, StatusType DEF ValidateOrder, TypeOK
  <2>3. n \in Orders /\ RowIn(rows, n)
    <3> HIDE DEF to, o
    <3> QED
      BY <2>2, AdvanceType, RowOfChange
  <2>4. Persist(t, rows, n, told, "idle", n)
    BY <2>1
  <2> HIDE DEF n, rows, to, told
  <2> QED
    BY <2>3, <2>4, PersistAudit
<1>6. CASE SubmitOrder(t)
  BY <1>6, BeginSubmitAudit DEF SubmitOrder
<1>7. CASE CancelOrder(t)
  BY <1>7, BeginCancelAudit DEF CancelOrder
<1>8. CASE SyncOrder(t)
  BY <1>8, FinishAudit DEF SyncOrder
<1>9. CASE StartRecovery(t)
  BY <1>9, FinishAudit DEF StartRecovery
<1> QED
  BY <1>1, <1>2, <1>3, <1>4, <1>5, <1>6, <1>7, <1>8, <1>9 DEF Call

LEMMA ResumeAudit ==
  ASSUME TypeOK, CallsHold, Audited, NEW t \in Tasks, Resume(t)
  PROVE  Audited'
<1>1. CASE SubmitAnswered(t)
  <2> DEFINE r  == answer[t]
             to == IF r.ok THEN r.status
                   ELSE IF r.status = "Expired" THEN "Expired" ELSE "Rejected"
             o  == IF r.ok /\ r.eid # NoEid THEN [held[t] EXCEPT !.eid = r.eid]
                   ELSE held[t]
             n  == Advance(o, to)
             rows == <<ChangeRow(o, to)>>
             told == <<SubmitEvent(r.ok, to)>>
  <2>1. held[t] \in Orders /\ r \in Answers
    BY <1>1 DEF SubmitAnswered, TypeOK, CallsHold, Waiting
  <2>2. o \in Orders
    BY <2>1 DEF Orders, Answers
  <2>3. to \in OrderStatuses
    BY <2>1, StatusType DEF Answers
  <2>4. Persist(t, rows, n, told, "idle", n)
    BY <1>1 DEF SubmitAnswered
  <2> HIDE DEF r, to, o
  <2>5. n \in Orders /\ RowIn(rows, n)
    BY <2>2, <2>3, AdvanceType, RowOfChange
  <2> HIDE DEF n, rows, told
  <2> QED
    BY <2>4, <2>5, PersistAudit
<1>2. CASE CancelAnswered(t)
  BY <1>2, CancelAudit DEF CancelAnswered, CallsHold, Waiting
<1>3. CASE SyncAnswered(t)
  <2> DEFINE n == Advance(held[t], answer[t].status)
  <2>1. held[t] # NoOrder /\ answer[t] # NoAnswer /\ pc[t] = "sync"
    BY <1>3 DEF SyncAnswered, CallsHold, Waiting
  <2>2. \/ Persist(t, <<>>, n, <<SyncEvent(answer[t].status)>>, "idle", n)
        \/ Finish(t, "idle", held[t])
    BY <1>3 DEF SyncAnswered, Reconcile
  <2> HIDE DEF n
  <2>3. n = Advance(held[t], answer[t].status)
    BY DEF n
  <2> QED
    BY <2>1, <2>2, <2>3, ReconcileAudit
<1>4. CASE CreateReplacement(t)
  <2>1. want[t] \in Clients
    BY <1>4 DEF CreateReplacement, CallsHold, TypeOK
  <2> QED
    BY <1>4, <2>1, OpenOrderAudit DEF CreateReplacement
<1>5. CASE SubmitReplacement(t)
  BY <1>5, BeginSubmitAudit DEF SubmitReplacement, CallsHold
<1>6. CASE RecoverNext(t)
  BY <1>6, FinishAudit DEF RecoverNext
<1>7. CASE RecoveryAnswered(t)
  <2> DEFINE n == Advance(held[t], answer[t].status)
  <2>1. held[t] # NoOrder /\ answer[t] # NoAnswer /\ pc[t] = "query"
    BY <1>7 DEF RecoveryAnswered, CallsHold, Waiting
  <2>2. \/ Persist(t, <<>>, n, <<RecoveryEvent(answer[t].status)>>, "recover", NoOrder)
        \/ Finish(t, "recover", NoOrder)
    BY <1>7 DEF RecoveryAnswered, Reconcile
  <2> HIDE DEF n
  <2>3. n = Advance(held[t], answer[t].status)
    BY DEF n
  <2> QED
    BY <2>1, <2>2, <2>3, ReconcileAudit
<1>8. CASE RecoveryDone(t)
  BY <1>8, FinishAudit DEF RecoveryDone
<1> QED
  BY <1>1, <1>2, <1>3, <1>4, <1>5, <1>6, <1>7, <1>8 DEF Resume

(* A query is answered Accepted, Expired or Failed, which the OMS takes    *)
(* for Rejected.                                                           *)
LEMMA ReplyAudit ==
  ASSUME TypeOK, CallsHold, Audited, NEW t \in Tasks, GatewayReply(t)
  PROVE  Audited'
<1>1. ReplyFrame /\ \A u \in Tasks \ {t} : answer'[u] = answer[u]
  BY ReplyEffect
<1>2. AuditCovers'
  BY <1>1 DEF ReplyFrame, store, Audited, AuditCovers
<1>3. pc[t] \in {"sync", "query"} => answer'[t].status \notin LifecycleStatuses
  <2> SUFFICES ASSUME pc[t] \in {"sync", "query"}
               PROVE  answer'[t].status \notin LifecycleStatuses
    OBVIOUS
  <2>1. GatewayQuery(t)
    BY DEF GatewayReply, GatewaySubmit, GatewayCancel
  <2>2. held[t].eid \in Eids \cup {NoEid}
    BY DEF CallsHold, Waiting, TypeOK, Orders
  <2> DEFINE e == held[t].eid
  <2>3. \/ Answered(t, TRUE, "Accepted", e)
        \/ Answered(t, FALSE, "Expired", NoEid)
        \/ Answered(t, FALSE, "Failed", NoEid)
    BY <2>1 DEF GatewayQuery
  <2> HIDE DEF e
  <2>4. \E s \in {"Accepted", "Expired", "Failed"} : answer'[t].status = FromExecution(s)
    <3>1. answer'[t].status \in {FromExecution("Accepted"), FromExecution("Expired"),
                                FromExecution("Failed")}
      BY <2>3 DEF Answered, TypeOK
    <3> QED
      BY <3>1
  <2> QED
    BY <2>4 DEF FromExecution, LifecycleStatuses
<1>4. QueryAnswers'
  BY <1>1, <1>3 DEF Audited, QueryAnswers, ReplyFrame
<1> QED
  BY <1>2, <1>4 DEF Audited

(* For any callers, gateway and crashes, with no discipline assumed: an    *)
(* order saved in a status only the lifecycle sets has the row of its last *)
(* transition in the status change file (lifecycle.rs:432, csv.rs:272).    *)
THEOREM SavesAreAudited == Spec => []AuditCovers
<1>1. Init => TypeOK /\ CallsHold /\ Audited
  <2>1. Init => TypeOK /\ CallsHold
    BY TypeInit
  <2>2. Init => Audited
    <3>1. Init => DOMAIN saved = {} /\ \A t \in Tasks : answer[t] = NoAnswer
      BY DEF Init
    <3> QED
      BY <3>1 DEF Audited, AuditCovers, QueryAnswers
  <2> QED
    BY <2>1, <2>2
<1>2. TypeOK /\ CallsHold /\ Audited /\ [Next]_vars => (TypeOK /\ CallsHold /\ Audited)'
  <2> SUFFICES ASSUME TypeOK, CallsHold, Audited, [Next]_vars
               PROVE  Audited'
    BY TypeStep
  <2>1. ASSUME NEW t \in Tasks, Call(t) \/ Resume(t) \/ GatewayReply(t)
        PROVE  Audited'
    BY <2>1, CallAudit, ResumeAudit, ReplyAudit
  <2>2. CASE Crash \/ UNCHANGED vars \/ \E k \in DOMAIN exch : ExchangeFill(k)
    BY <2>2 DEF Crash, vars, ExchangeFill, store, Audited, AuditCovers, QueryAnswers
  <2>3. CASE Boot
    BY <2>3 DEF Boot, store, Audited, AuditCovers, QueryAnswers
  <2> QED
    BY <2>1, <2>2, <2>3 DEF Next
<1>3. Audited => AuditCovers
  BY DEF Audited
<1> QED
  BY <1>1, <1>2, <1>3, PTL DEF Spec

--------------------------------------------------------------------------------
(* With the mock gateway a cancellation cannot fail, and the repository    *)
(* knows of every live order by its exchange id.                           *)

MockEid(c) == <<"MOCK", c>>

Live(c) == \E k \in DOMAIN exch : exch[k].client = c /\ exch[k].st = "live"

(* The task's submission was taken and the task has not yet saved it.      *)
Unsaved(t, c) ==
  /\ pc[t] = "submit" /\ answer[t] # NoAnswer /\ held[t].client = c
  /\ answer[t].ok /\ answer[t].eid = MockEid(c)

MockNames == \A k \in DOMAIN exch : exch[k].eid = MockEid(exch[k].client)

LiveKnown ==
  up => \A c \in Clients :
          Live(c) => OrderOf(c).eid = MockEid(c) \/ \E t \in Tasks : Unsaved(t, c)

CancelsKill ==
  up => \A t \in Tasks :
          pc[t] = "cancel" /\ answer[t] # NoAnswer => ~Live(held[t].client)

MockAnswers ==
  \A t \in Tasks :
    pc[t] \in {"submit", "sync", "query"} /\ answer[t] # NoAnswer
    => /\ answer[t].status # "Cancelled"
       /\ pc[t] = "submit" /\ answer[t].ok => answer[t].eid = MockEid(held[t].client)

MockKnows ==
  /\ MockNames /\ LiveKnown /\ CancelsKill /\ MockAnswers /\ CancelledIsDead

(* A live order of the task's handle is known by the handle or the answer. *)
LEMMA HandleKnows ==
  ASSUME IInv, MockKnows, up, NEW t \in Tasks, held[t] # NoOrder, Live(held[t].client)
  PROVE  held[t].eid = MockEid(held[t].client) \/ Unsaved(t, held[t].client)
<1> DEFINE c == held[t].client
<1>1. TypeOK /\ TaskOK(t) /\ HandlesDisjoint /\ IndexExact
  BY InvParts
<1>2. c \in Clients /\ OrderOf(c) = held[t]
  BY <1>1 DEF TypeOK, Orders, TaskOK, IndexExact, OrderOf
<1>3. \A u \in Tasks : Unsaved(u, c) => u = t
  <2> SUFFICES ASSUME NEW u \in Tasks, Unsaved(u, c), u # t
               PROVE  FALSE
    OBVIOUS
  <2>1. held[u] # NoOrder
    BY InvParts DEF Unsaved, CallsHold, Waiting
  <2> QED
    BY <1>1, <1>2, <2>1 DEF HandlesDisjoint, InUse, Unsaved
<1> QED
  BY <1>2, <1>3 DEF MockKnows, LiveKnown

LEMMA MockPersist ==
  ASSUME IInv, MockKnows, up, NEW t \in Tasks, held[t] # NoOrder,
         NEW rows, NEW o \in Orders, NEW told, NEW next, NEW keep,
         Persist(t, rows, o, told, next, keep), UNCHANGED exch,
         o.id = held[t].id, o.client = held[t].client,
         Live(o.client) => o.eid = MockEid(o.client) /\ o.status # "Cancelled"
  PROVE  MockKnows'
<1>1. TypeOK /\ TaskOK(t) /\ IndexExact /\ SentAreSaved
  BY InvParts
<1>2. CASE /\ Save(o)
           /\ held' = [held EXCEPT ![t] = keep]
           /\ pc' = [pc EXCEPT ![t] = next]
           /\ answer' = [answer EXCEPT ![t] = NoAnswer]
           /\ UNCHANGED up
  <2>1. /\ o.client \in Clients /\ o.id \in DOMAIN saved
        /\ clientIndex[o.client] = o.id
    BY <1>1 DEF Orders, TaskOK, IndexExact
  <2>2. clientIndex' = clientIndex /\ DOMAIN saved' = DOMAIN saved
    BY <1>1, <1>2, <2>1 DEF Save, TypeOK
  <2>3. \A i \in DOMAIN saved : saved'[i] = IF i = o.id THEN o ELSE saved[i]
    BY <1>2, <2>1 DEF Save
  <2>4. /\ OrderOf(o.client)' = o
        /\ \A c \in Clients \ {o.client} : Known(c) => OrderOf(c)' = OrderOf(c)
    <3>1. saved[o.id].client = o.client
      BY <1>1 DEF TaskOK
    <3>2. \A c \in Clients \ {o.client} : Known(c) => /\ clientIndex[c] \in DOMAIN saved
                                                    /\ clientIndex[c] # o.id
      BY <1>1, <3>1 DEF OrderOf, Known, TypeOK, IndexExact
    <3> QED
      BY <2>1, <2>2, <2>3, <3>2 DEF OrderOf
  <2>5. /\ answer'[t] = NoAnswer
        /\ \A u \in Tasks \ {t} : pc'[u] = pc[u] /\ held'[u] = held[u] /\ answer'[u] = answer[u]
    BY <1>1, <1>2 DEF TypeOK
  <2>6. \A c \in Clients : /\ Live(c)' <=> Live(c)
                           /\ Live(c) => Known(c)
    BY <1>1 DEF Live, SentAreSaved
  <2>7. \A c \in Clients \ {o.client} : \A u \in Tasks : Unsaved(u, c) => Unsaved(u, c)'
    BY <2>5 DEF Unsaved
  <2>8. LiveKnown'
    BY <1>2, <2>4, <2>6, <2>7 DEF MockKnows, LiveKnown
  <2>9. CancelsKill'
    BY <1>2, <2>5 DEF MockKnows, CancelsKill, Live
  <2>10. MockAnswers'
    BY <2>5 DEF MockKnows, MockAnswers
  <2>11. \A k \in DOMAIN exch : exch[k] \in ExchOrders
    BY <1>1 DEF TypeOK
  <2>12. CancelledIsDead'
    <3> SUFFICES ASSUME NEW k \in DOMAIN exch, exch[k].st = "live", Known(exch[k].client)'
                 PROVE  (OrderOf(exch[k].client).status # "Cancelled")'
      BY DEF CancelledIsDead
    <3> DEFINE c == exch[k].client
    <3>1. c \in Clients /\ Live(c) /\ Known(c)
      BY <2>2, <2>11 DEF Live, Known, ExchOrders
    <3>2. CASE c = o.client
      BY <2>4, <3>1, <3>2
    <3>3. CASE c # o.client
      BY <2>4, <3>1, <3>3 DEF MockKnows, CancelledIsDead
    <3> QED
      BY <3>2, <3>3
  <2> QED
    BY <2>8, <2>9, <2>10, <2>12 DEF MockKnows, MockNames
<1>3. CASE up' = FALSE /\ UNCHANGED <<saved, clientIndex, held, pc, answer>>
  BY <1>3 DEF MockKnows, MockNames, LiveKnown, CancelsKill, MockAnswers,
              CancelledIsDead, Known, OrderOf
<1> QED
  BY <1>2, <1>3 DEF Persist

(* A segment that saves nothing, of a task that is not submitting.         *)
LEMMA MockKept ==
  ASSUME MockKnows, NEW t \in Tasks, pc[t] # "submit",
         UNCHANGED <<saved, clientIndex, exch>>, up' => up,
         \A u \in Tasks \ {t} : pc'[u] = pc[u] /\ held'[u] = held[u] /\ answer'[u] = answer[u],
         answer'[t] = NoAnswer \/ pc'[t] = "idle"
  PROVE  MockKnows'
<1>1. \A c \in Clients : /\ Live(c)' <=> Live(c)
                         /\ OrderOf(c)' = OrderOf(c)
                         /\ \A u \in Tasks : Unsaved(u, c) => Unsaved(u, c)'
  BY DEF Live, OrderOf, Unsaved
<1>2. LiveKnown'
  BY <1>1 DEF MockKnows, LiveKnown
<1>3. CancelsKill'
  BY DEF MockKnows, CancelsKill, Live
<1>4. MockAnswers'
  BY DEF MockKnows, MockAnswers
<1> QED
  BY <1>2, <1>3, <1>4 DEF MockKnows, MockNames, CancelledIsDead, Known, OrderOf

LEMMA MockFinish ==
  ASSUME TypeOK, MockKnows, NEW t \in Tasks, pc[t] # "submit", NEW next, NEW keep,
         Finish(t, next, keep), UNCHANGED exch
  PROVE  MockKnows'
<1>1. /\ UNCHANGED <<saved, clientIndex, exch>> /\ (up' => up)
      /\ answer'[t] = NoAnswer
      /\ \A u \in Tasks \ {t} : pc'[u] = pc[u] /\ held'[u] = held[u] /\ answer'[u] = answer[u]
  BY DEF Finish, store, TypeOK
<1> QED
  BY <1>1, MockKept

LEMMA MockOpen ==
  ASSUME IInv, ~mixed', MockKnows, up, NEW t \in Tasks, pc[t] # "submit", NEW c \in Clients,
         NEW next, OpenOrder(t, c, next), UNCHANGED <<today, exch>>
  PROVE  MockKnows'
<1>1. TypeOK /\ IndexExact /\ SentAreSaved
  BY InvParts
<1> DEFINE o == NewOrder(<<today, seq + 1>>, c)
<1>2. /\ o \in Orders /\ o.id = <<today, seq + 1>> /\ o.client = c /\ o.status = "Created"
  BY <1>1, StatusType DEF TypeOK, NewOrder, Orders, OrderIds
<1> HIDE DEF o
<1>3. CASE \E keep : Finish(t, next, keep)
  BY <1>1, <1>3, MockFinish
<1>4. CASE /\ clientIndex[c] = NoId /\ Save(o)
           /\ held' = [held EXCEPT ![t] = o]
           /\ pc' = [pc EXCEPT ![t] = next]
           /\ answer' = [answer EXCEPT ![t] = NoAnswer]
           /\ UNCHANGED up
  <2>1. ~Live(c) /\ \A d \in Clients : Live(d) => Known(d)
    BY <1>1, <1>4 DEF Live, SentAreSaved, Known
  <2>2. \A d \in Clients \ {c} : Known(d) => /\ clientIndex[d] \in DOMAIN saved
                                             /\ clientIndex[d] # o.id
    <3>1. \A i \in DOMAIN saved : saved[i].client # c
      BY <1>1, <1>4, NoValues DEF IndexExact, TypeOK
    <3>2. o.id \notin DOMAIN saved
      BY <1>2, <1>4, <3>1 DEF Save
    <3> QED
      BY <1>1, <3>2 DEF Known, TypeOK
  <2>3. \A d \in Clients \ {c} : clientIndex'[d] = clientIndex[d]
    BY <1>1, <1>2, <1>4 DEF Save, TypeOK
  <2>4. \A d \in Clients \ {c} : Known(d) => OrderOf(d)' = OrderOf(d)
    BY <1>4, <2>2, <2>3 DEF Save, OrderOf
  <2>5. /\ answer'[t] = NoAnswer
        /\ \A u \in Tasks \ {t} : pc'[u] = pc[u] /\ held'[u] = held[u] /\ answer'[u] = answer[u]
    BY <1>1, <1>4 DEF TypeOK
  <2>6. \A d \in Clients : /\ Live(d)' <=> Live(d)
                           /\ \A u \in Tasks : Unsaved(u, d) => Unsaved(u, d)'
    BY <2>5 DEF Live, Unsaved
  <2>7. LiveKnown'
    BY <1>4, <2>1, <2>4, <2>6 DEF MockKnows, LiveKnown
  <2>8. CancelsKill'
    BY <1>4, <2>5 DEF MockKnows, CancelsKill, Live
  <2>9. MockAnswers'
    BY <2>5 DEF MockKnows, MockAnswers
  <2>10. CancelledIsDead'
    <3> SUFFICES ASSUME NEW k \in DOMAIN exch, exch[k].st = "live"
                 PROVE  (OrderOf(exch[k].client).status # "Cancelled")'
      BY DEF CancelledIsDead
    <3>1. exch[k].client \in Clients \ {c} /\ Known(exch[k].client)
      <4>1. exch[k] \in ExchOrders
        BY <1>1 DEF TypeOK
      <4> QED
        BY <2>1, <4>1 DEF Live, ExchOrders
    <3> QED
      BY <2>4, <3>1 DEF MockKnows, CancelledIsDead
  <2> QED
    BY <2>7, <2>8, <2>9, <2>10 DEF MockKnows, MockNames
<1>5. CASE up' = FALSE /\ UNCHANGED <<saved, clientIndex, held, pc, answer>>
  BY <1>5 DEF MockKnows, MockNames, LiveKnown, CancelsKill, MockAnswers,
              CancelledIsDead, Known, OrderOf
<1> QED
  BY <1>3, <1>4, <1>5 DEF OpenOrder, Persist, o

(* A cancellation is saved once no order of the handle is live.            *)
LEMMA MockCancel ==
  ASSUME IInv, MockKnows, up, NEW t \in Tasks, held[t] # NoOrder, NEW replacing,
         EndCancel(t, replacing), UNCHANGED exch, ~Live(held[t].client)
  PROVE  MockKnows'
<1> DEFINE n == Advance(held[t], "Cancelled")
<1>1. held[t] \in Orders
  BY InvParts DEF TypeOK
<1>2. n \in Orders /\ n.id = held[t].id /\ n.client = held[t].client
  BY <1>1, AdvanceType, StatusType
<1>3. \E rows, told, next : Persist(t, rows, n, told, next, n)
  BY DEF EndCancel
<1> HIDE DEF n
<1> QED
  BY <1>2, <1>3, MockPersist

LEMMA MockBeginCancel ==
  ASSUME IInv, MockKnows, up, NEW t \in Tasks, held[t] # NoOrder, pc[t] # "submit",
         NEW replacing, BeginCancel(t, replacing), UNCHANGED exch
  PROVE  MockKnows'
<1>1. TypeOK
  BY InvParts
<1>2. CASE Finish(t, "cancel", held[t])
  BY <1>1, <1>2, MockFinish
<1>3. CASE held[t].eid = NoEid /\ EndCancel(t, replacing)
  <2>1. held[t].client \in Clients
    BY <1>1 DEF TypeOK, Orders
  <2>2. MockEid(held[t].client) \in Eids
    BY <2>1 DEF MockEid, Eids
  <2>3. ~Live(held[t].client)
    BY <1>3, <2>2, HandleKnows, NoValues DEF Unsaved
  <2> QED
    BY <1>3, <2>3, MockCancel
<1> QED
  BY <1>2, <1>3 DEF BeginCancel

(* A transition that leaves the exchange id alone.                         *)
LEMMA MockAdvance ==
  ASSUME IInv, MockKnows, up, NEW t \in Tasks, held[t] # NoOrder, pc[t] # "submit",
         NEW s \in OrderStatuses \ {"Cancelled"}, NEW rows, NEW told, NEW next, NEW keep,
         Persist(t, rows, Advance(held[t], s), told, next, keep), UNCHANGED exch
  PROVE  MockKnows'
<1> DEFINE n == Advance(held[t], s)
<1>1. held[t] \in Orders
  BY InvParts DEF TypeOK
<1>2. n \in Orders /\ n.id = held[t].id /\ n.client = held[t].client /\ n.eid = held[t].eid
      /\ n.status = s
  BY <1>1, AdvanceType
<1> HIDE DEF n
<1>3. Persist(t, rows, n, told, next, keep)
  BY DEF n
<1>4. Live(n.client) => n.eid = MockEid(n.client) /\ n.status # "Cancelled"
  BY <1>2, HandleKnows DEF Unsaved
<1> QED
  BY <1>2, <1>3, <1>4, MockPersist

LEMMA MockBeginSubmit ==
  ASSUME IInv, MockKnows, up, NEW t \in Tasks, held[t] # NoOrder, pc[t] # "submit",
         BeginSubmit(t), UNCHANGED exch
  PROVE  MockKnows'
<1> DEFINE o == held[t]
           jump == o.status \in {"Created", "Validated"}
           p == IF jump THEN Advance(o, "PendingSubmit") ELSE o
           n == Advance(p, "Submitted")
<1>1. TypeOK /\ o \in Orders
  BY InvParts DEF TypeOK
<1>2. p \in Orders /\ p.id = o.id /\ p.client = o.client /\ p.eid = o.eid
  BY <1>1, AdvanceType, StatusType
<1>3. n \in Orders /\ n.id = o.id /\ n.client = o.client /\ n.eid = o.eid
      /\ n.status = "Submitted"
  <2> HIDE DEF o, p
  <2> QED
    BY <1>2, AdvanceType, StatusType
<1>4. (\E rows, told : Persist(t, rows, n, told, "submit", n)) \/ Finish(t, "idle", o)
  BY DEF BeginSubmit
<1> HIDE DEF p, n
<1>5. Live(n.client) => n.eid = MockEid(n.client) /\ n.status # "Cancelled"
  BY <1>3, HandleKnows DEF Unsaved
<1> QED
  BY <1>1, <1>3, <1>4, <1>5, MockPersist, MockFinish

LEMMA MockCall ==
  ASSUME IInv, ~mixed', MockKnows, NEW t \in Tasks, Call(t)
  PROVE  MockKnows'
<1>1. TypeOK
  BY InvParts
<1>2. up /\ pc[t] = "idle"
  BY DEF Call, CreateOrder, ReplaceOrder, GetOrder, DropHandle, ValidateOrder,
         SubmitOrder, CancelOrder, SyncOrder, StartRecovery, Idle
<1>3. ASSUME NEW c \in Clients, CreateOrder(t, c)
      PROVE  MockKnows'
  BY <1>2, <1>3, MockOpen DEF CreateOrder, clock
<1>4. ASSUME NEW c \in Clients, ReplaceOrder(t, c)
      PROVE  MockKnows'
  BY <1>1, <1>2, <1>4, MockBeginCancel, MockFinish DEF ReplaceOrder
<1>5. ASSUME NEW i \in DOMAIN saved, GetOrder(t, i)
      PROVE  MockKnows'
  BY <1>1, <1>2, <1>5, MockKept DEF GetOrder, store, TypeOK
<1>6. CASE DropHandle(t)
  BY <1>1, <1>2, <1>6, MockKept DEF DropHandle, store, TypeOK
<1>7. CASE ValidateOrder(t)
  <2>1. \E s \in {"Validated", "Rejected"} : \E rows, told :
          Persist(t, rows, Advance(held[t], s), told, "idle", Advance(held[t], s))
    BY <1>7 DEF ValidateOrder
  <2> QED
    BY <1>2, <1>7, <2>1, StatusType, MockAdvance DEF ValidateOrder
<1>8. CASE SubmitOrder(t)
  BY <1>2, <1>8, MockBeginSubmit DEF SubmitOrder
<1>9. CASE CancelOrder(t)
  BY <1>2, <1>9, MockBeginCancel DEF CancelOrder
<1>10. CASE SyncOrder(t)
  BY <1>1, <1>2, <1>10, MockFinish DEF SyncOrder
<1>11. CASE StartRecovery(t)
  BY <1>1, <1>2, <1>11, MockFinish DEF StartRecovery
<1> QED
  BY <1>3, <1>4, <1>5, <1>6, <1>7, <1>8, <1>9, <1>10, <1>11 DEF Call

LEMMA MockReconcile ==
  ASSUME IInv, MockKnows, up, NEW t \in Tasks, held[t] # NoOrder, answer[t] # NoAnswer,
         pc[t] \in {"sync", "query"}, NEW told, NEW next, NEW same, NEW keep,
         \/ Persist(t, <<>>, Advance(held[t], answer[t].status), told, next, keep)
         \/ Finish(t, next, same),
         UNCHANGED exch
  PROVE  MockKnows'
<1>1. TypeOK
  BY InvParts
<1>2. answer[t].status \in OrderStatuses \ {"Cancelled"}
  <2>1. answer[t] \in Answers
    BY <1>1 DEF TypeOK
  <2> QED
    BY <2>1 DEF Answers, MockKnows, MockAnswers
<1> QED
  BY <1>1, <1>2, MockAdvance, MockFinish

LEMMA MockResume ==
  ASSUME IInv, ~mixed', MockKnows, NEW t \in Tasks, Resume(t)
  PROVE  MockKnows'
<1>1. TypeOK /\ CallsHold /\ up
  BY InvParts DEF Resume, SubmitAnswered, CancelAnswered, SyncAnswered, CreateReplacement,
                  SubmitReplacement, RecoverNext, RecoveryAnswered, RecoveryDone
<1>2. CASE SubmitAnswered(t)
  <2> DEFINE r  == answer[t]
             to == IF r.ok THEN r.status
                   ELSE IF r.status = "Expired" THEN "Expired" ELSE "Rejected"
             o  == IF r.ok /\ r.eid # NoEid THEN [held[t] EXCEPT !.eid = r.eid]
                   ELSE held[t]
             n  == Advance(o, to)
  <2>1. held[t] \in Orders /\ r \in Answers /\ held[t] # NoOrder
    BY <1>1, <1>2 DEF SubmitAnswered, TypeOK, CallsHold, Waiting
  <2>2. /\ o \in Orders /\ o.id = held[t].id /\ o.client = held[t].client
        /\ o.eid = IF r.ok /\ r.eid # NoEid THEN r.eid ELSE held[t].eid
    BY <2>1 DEF Orders, Answers
  <2>3. to \in OrderStatuses
    BY <2>1, StatusType DEF Answers
  <2>4. to # "Cancelled"
    BY <1>2 DEF SubmitAnswered, MockKnows, MockAnswers
  <2>5. \E rows, told : Persist(t, rows, n, told, "idle", n)
    BY <1>2 DEF SubmitAnswered
  <2>6. Live(held[t].client) => o.eid = MockEid(held[t].client)
    <3> SUFFICES ASSUME Live(held[t].client) PROVE o.eid = MockEid(held[t].client)
      OBVIOUS
    <3>1. held[t].client \in Clients
      BY <2>1 DEF Orders
    <3>2. MockEid(held[t].client) # NoEid
      BY <3>1, NoValues DEF MockEid, Eids
    <3>3. held[t].eid = MockEid(held[t].client) \/ Unsaved(t, held[t].client)
      BY <1>1, <2>1, HandleKnows
    <3>4. r.ok /\ r.eid # NoEid => r.eid = MockEid(held[t].client)
      BY <1>2 DEF SubmitAnswered, MockKnows, MockAnswers
    <3> QED
      BY <2>2, <3>2, <3>3, <3>4 DEF Unsaved
  <2> HIDE DEF r, to, o
  <2>7. /\ n \in Orders /\ n.id = held[t].id /\ n.client = held[t].client
        /\ n.eid = o.eid /\ n.status = to
    BY <2>2, <2>3, AdvanceType
  <2> HIDE DEF n
  <2> QED
    BY <1>1, <1>2, <2>1, <2>4, <2>5, <2>6, <2>7, MockPersist DEF SubmitAnswered
<1>3. CASE CancelAnswered(t)
  <2>1. held[t] # NoOrder /\ ~Live(held[t].client)
    BY <1>1, <1>3 DEF CancelAnswered, CallsHold, Waiting, MockKnows, CancelsKill
  <2> QED
    BY <1>1, <1>3, <2>1, MockCancel DEF CancelAnswered
<1>4. CASE SyncAnswered(t)
  <2>1. \/ Persist(t, <<>>, Advance(held[t], answer[t].status),
                   <<SyncEvent(answer[t].status)>>, "idle",
                   Advance(held[t], answer[t].status))
        \/ Finish(t, "idle", held[t])
    BY <1>4 DEF SyncAnswered, Reconcile
  <2> QED
    BY <1>1, <1>4, <2>1, MockReconcile DEF SyncAnswered, CallsHold, Waiting
<1>5. CASE CreateReplacement(t)
  <2>1. want[t] \in Clients
    BY <1>1, <1>5 DEF CreateReplacement, CallsHold, TypeOK
  <2> QED
    BY <1>1, <1>5, <2>1, MockOpen DEF CreateReplacement, clock
<1>6. CASE SubmitReplacement(t)
  BY <1>1, <1>6, MockBeginSubmit DEF SubmitReplacement, CallsHold
<1>7. CASE RecoverNext(t)
  BY <1>1, <1>7, MockFinish DEF RecoverNext
<1>8. CASE RecoveryAnswered(t)
  <2>1. \/ Persist(t, <<>>, Advance(held[t], answer[t].status),
                   <<RecoveryEvent(answer[t].status)>>, "recover", NoOrder)
        \/ Finish(t, "recover", NoOrder)
    BY <1>8 DEF RecoveryAnswered, Reconcile
  <2> QED
    BY <1>1, <1>8, <2>1, MockReconcile DEF RecoveryAnswered, CallsHold, Waiting
<1>9. CASE RecoveryDone(t)
  BY <1>1, <1>9, MockFinish DEF RecoveryDone
<1> QED
  BY <1>2, <1>3, <1>4, <1>5, <1>6, <1>7, <1>8, <1>9 DEF Resume

(* The mock's replies: a submission it takes is live and answered with its *)
(* id, a cancellation leaves no live order of the handle.                  *)
LEMMA MockReply ==
  ASSUME IInv, IInv', MockKnows, Gateway = "Mock", NEW t \in Tasks, GatewayReply(t)
  PROVE  MockKnows'
<1>1. /\ TypeOK /\ CallsHold /\ TaskOK(t) /\ HandlesDisjoint /\ IndexExact /\ SentAreSaved
      /\ ReplyFrame /\ answer[t] = NoAnswer /\ up
      /\ \A u \in Tasks \ {t} : answer'[u] = answer[u]
  BY InvParts, ReplyEffect DEF GatewayReply, GatewaySubmit, GatewayCancel, GatewayQuery, Reachable
<1>2. /\ held[t] # NoOrder /\ held[t] \in Orders /\ held[t].client \in Clients
      /\ held[t].eid \in Eids \cup {NoEid}
      /\ Known(held[t].client) /\ OrderOf(held[t].client) = held[t]
  <2>1. held[t] # NoOrder /\ held[t] \in Orders
    BY <1>1, ReplyEffect DEF CallsHold, TypeOK
  <2>2. clientIndex[held[t].client] = held[t].id /\ held[t].id \in OrderIds
    BY <1>1, <2>1 DEF TaskOK, IndexExact, Orders
  <2> QED
    BY <1>1, <2>1, <2>2, NoValues DEF Orders, TaskOK, Known, OrderOf
<1>3. /\ UNCHANGED <<saved, clientIndex, up, pc, held>>
      /\ \A c \in Clients : OrderOf(c)' = OrderOf(c)
      /\ \A u \in Tasks, c \in Clients : Unsaved(u, c) => Unsaved(u, c)'
  BY <1>1 DEF ReplyFrame, store, OrderOf, Unsaved
<1> DEFINE c == held[t].client
           x == [eid |-> MockEid(c), client |-> c, st |-> "live"]
<1>4. exch \in Seq(ExchOrders) /\ \A k \in DOMAIN exch : exch[k] \in ExchOrders
  BY <1>1 DEF TypeOK
<1>5. CASE GatewaySubmit(t)
  <2>1. \/ /\ exch' = Append(exch, x)
           /\ answer'[t].ok /\ answer'[t].eid = MockEid(c) /\ answer'[t] # NoAnswer
        \/ UNCHANGED exch /\ ~answer'[t].ok
    <3>1. CASE /\ exch' = Append(exch, x)
               /\ \E s \in {"Filled", "PartiallyFilled"} : Answered(t, TRUE, s, MockEid(c))
      <4>1. answer'[t].ok /\ answer'[t].eid = MockEid(c)
        BY <1>1, <3>1 DEF Answered, TypeOK
      <4> QED
        BY <1>1, <1>5, <3>1, <4>1, ReplyEffect
    <3>2. CASE UNCHANGED exch /\ Answered(t, FALSE, "Expired", NoEid)
      <4>1. answer'[t].ok = FALSE
        BY <1>1, <3>2 DEF Answered, TypeOK
      <4> QED
        BY <3>2, <4>1
    <3> QED
      BY <1>5, <3>1, <3>2 DEF GatewaySubmit, NewEid, MockEid
  <2>2. answer'[t].status # "Cancelled"
    BY <1>1, <1>5 DEF GatewaySubmit, Answered, TypeOK, FromExecution
  <2>3. pc[t] = "submit" /\ held[t].status = "Submitted"
    BY <1>1, <1>5 DEF GatewaySubmit, TaskOK
  <2>4. MockAnswers'
    BY <1>1, <1>3, <2>1, <2>2 DEF MockKnows, MockAnswers
  <2>5. CASE UNCHANGED exch
    BY <1>1, <1>3, <2>3, <2>4, <2>5 DEF MockKnows, MockNames, LiveKnown, CancelsKill,
                                     CancelledIsDead, Live, Known, OrderOf
  <2>6. CASE /\ exch' = Append(exch, x)
             /\ answer'[t].ok /\ answer'[t].eid = MockEid(c) /\ answer'[t] # NoAnswer
    <3>1. /\ DOMAIN exch' = DOMAIN exch \cup {Len(exch) + 1}
          /\ \A k \in DOMAIN exch : exch'[k] = exch[k]
          /\ exch'[Len(exch) + 1] = x
      BY <1>4, <2>6
    <3>2. \A d \in Clients : Live(d)' => Live(d) \/ d = c
      BY <3>1 DEF Live
    <3>3. Unsaved(t, c)'
      BY <1>3, <2>3, <2>6 DEF Unsaved
    <3>4. LiveKnown'
      BY <1>2, <1>3, <3>2, <3>3 DEF MockKnows, LiveKnown
    <3>5. \A u \in Tasks : pc[u] = "cancel" => held[u].client # c /\ held[u].client \in Clients
      <4>1. \A u \in Tasks : pc[u] = "cancel" => u # t /\ held[u] # NoOrder
                                                /\ held[u].client \in Clients
        BY <1>1, <2>3 DEF CallsHold, Waiting, TypeOK, Orders
      <4> QED
        BY <1>1, <1>2, <4>1 DEF HandlesDisjoint, InUse
    <3>6. CancelsKill'
      BY <1>1, <1>3, <3>2, <3>5 DEF MockKnows, CancelsKill
    <3>7. MockNames' /\ CancelledIsDead'
      BY <1>2, <1>3, <2>3, <3>1 DEF MockKnows, MockNames, CancelledIsDead, Known, OrderOf
    <3> QED
      BY <2>4, <3>4, <3>6, <3>7 DEF MockKnows
  <2> QED
    BY <2>1, <2>5, <2>6
<1>6. CASE GatewayCancel(t)
  <2>1. Kill(held[t].eid) /\ pc[t] = "cancel"
    BY <1>6 DEF GatewayCancel
  <2>2. /\ DOMAIN exch' = DOMAIN exch
        /\ \A k \in DOMAIN exch :
             /\ exch'[k].client = exch[k].client /\ exch'[k].eid = exch[k].eid
             /\ exch'[k].st = "live" => exch[k].st = "live" /\ exch[k].eid # held[t].eid
    BY <1>4, <2>1 DEF Kill, ExchOrders
  <2>3. \A d \in Clients : Live(d)' => Live(d)
    BY <2>2 DEF Live
  <2>4. \A k \in DOMAIN exch : ~(exch'[k].client = c /\ exch'[k].st = "live")
    <3> SUFFICES ASSUME NEW k \in DOMAIN exch, exch'[k].client = c, exch'[k].st = "live"
                 PROVE  FALSE
      OBVIOUS
    <3>1. exch[k].client = c /\ exch[k].st = "live" /\ exch[k].eid # held[t].eid
      BY <2>2
    <3>2. Live(held[t].client)
      BY <3>1 DEF Live
    <3>3. held[t].eid = MockEid(c)
      BY <1>1, <1>2, <2>1, <3>2, HandleKnows DEF Unsaved
    <3> QED
      BY <3>1, <3>3 DEF MockKnows, MockNames
  <2>5. \A u \in Tasks : pc[u] = "cancel" => held[u].client \in Clients
    BY <1>1 DEF CallsHold, Waiting, TypeOK, Orders
  <2>6. CancelsKill'
    <3> SUFFICES ASSUME NEW u \in Tasks, pc[u] = "cancel", answer'[u] # NoAnswer
                 PROVE  ~Live(held[u].client)'
      BY <1>3 DEF CancelsKill
    <3>1. CASE u = t
      BY <1>3, <2>2, <2>4, <3>1 DEF Live
    <3>2. CASE u # t
      BY <1>1, <1>3, <2>2, <3>2 DEF MockKnows, CancelsKill, Live
    <3> QED
      BY <3>1, <3>2
  <2>7. LiveKnown' /\ MockAnswers'
    BY <1>1, <1>3, <2>1, <2>3 DEF MockKnows, LiveKnown, MockAnswers
  <2>8. MockNames' /\ CancelledIsDead'
    BY <1>3, <2>2 DEF MockKnows, MockNames, CancelledIsDead, Known, OrderOf
  <2> QED
    BY <2>6, <2>7, <2>8 DEF MockKnows
<1>7. CASE GatewayQuery(t)
  <2>1. UNCHANGED exch /\ pc[t] \in {"sync", "query"}
    BY <1>7 DEF GatewayQuery
  <2>2. answer'[t].status # "Cancelled"
    BY <1>1, <1>7 DEF GatewayQuery, Answered, TypeOK, FromExecution
  <2>3. MockAnswers'
    BY <1>1, <1>3, <2>1, <2>2 DEF MockKnows, MockAnswers
  <2> QED
    BY <1>1, <1>3, <2>1, <2>3 DEF MockKnows, MockNames, LiveKnown, CancelsKill,
                                 CancelledIsDead, Live, Known, OrderOf
<1> QED
  BY <1>5, <1>6, <1>7 DEF GatewayReply

(* What the repository knows of a mock exchange, at every step.            *)
MockSound == ~mixed => MockKnows

LEMMA MockInvariance ==
  ASSUME Exclusive, Gateway = "Mock" PROVE Spec => []MockSound
<1>1. Init => MockSound
  BY DEF Init, MockSound, MockKnows, MockNames, LiveKnown, CancelsKill, MockAnswers,
         CancelledIsDead, Live
<1>2. Sound /\ MockSound /\ [Next]_vars => MockSound'
  <2> SUFFICES ASSUME IInv, IInv', ~mixed', MockKnows, [Next]_vars
               PROVE  MockKnows'
    BY SoundStep, MixedStays DEF MockSound
  <2>1. ASSUME NEW t \in Tasks, Call(t) \/ Resume(t) \/ GatewayReply(t)
        PROVE  MockKnows'
    BY <2>1, MockCall, MockResume, MockReply
  <2>2. \A k \in DOMAIN exch : ~ExchangeFill(k)
    BY DEF ExchangeFill
  <2>3. CASE Crash \/ UNCHANGED vars
    BY <2>3 DEF Crash, vars, store, MockKnows, MockNames, LiveKnown, CancelsKill, MockAnswers,
                CancelledIsDead, Live, Unsaved, Known, OrderOf
  <2>4. CASE Boot
    <3>1. \A k \in DOMAIN exch : exch[k] \in ExchOrders
      BY InvParts DEF TypeOK
    <3>2. /\ DOMAIN exch' = DOMAIN exch
          /\ \A k \in DOMAIN exch : /\ exch'[k].st = "cancelled"
                                    /\ exch'[k].client = exch[k].client
                                    /\ exch'[k].eid = exch[k].eid
      BY <2>4, <3>1 DEF Boot, ExchOrders
    <3>3. \A t \in Tasks : pc'[t] = "idle"
      BY <2>4 DEF Boot
    <3> QED
      BY <3>2, <3>3 DEF MockKnows, MockNames, LiveKnown, CancelsKill, MockAnswers,
                        CancelledIsDead, Live
  <2> QED
    BY <2>1, <2>2, <2>3, <2>4 DEF Next
<1>3. Spec => []Sound
  BY Invariance DEF Sound
<1> QED
  BY <1>1, <1>2, <1>3, PTL DEF Spec

(* An order the repository has as cancelled is not live at the exchange,   *)
(* with the mock gateway, whose cancellations never fail (lifecycle.rs:336,*)
(* gateway mock.rs:305), as long as no order id has been given twice.      *)
(* Callers keep one handle per client order id: a second, stale handle     *)
(* that is still Created could be cancelled locally after the first was    *)
(* sent.                                                                   *)
THEOREM CancelledOrdersAreDead ==
  ASSUME Exclusive, Gateway = "Mock" PROVE Spec => [](~mixed => CancelledIsDead)
<1>1. MockSound => (~mixed => CancelledIsDead)
  BY DEF MockSound, MockKnows
<1> QED
  BY <1>1, MockInvariance, PTL

(* When a recovery ends, an order live at the exchange is known locally by *)
(* its exchange id, or a task that was just answered is about to save it.  *)
RecoveryMissesNone ==
  [][~mixed' => \A t \in Tasks :
       RecoveryDone(t)
       => \A k \in DOMAIN exch :
            exch[k].st = "live"
            => \/ OrderOf(exch[k].client).eid # NoEid
               \/ \E u \in Tasks : Unsaved(u, exch[k].client)]_vars

(* With the mock gateway a recovery (recovery.rs: run) that overlaps other *)
(* calls leaves no live order unknown, except one whose submitter was      *)
(* answered and has not saved it yet: the mock's exchange ends with the    *)
(* process, so no crash separates a submission from its save.  Callers     *)
(* keep one handle per client order id, and no order id has been given     *)
(* twice.                                                                  *)
THEOREM MockRecoveryMissesNone ==
  ASSUME Exclusive, Gateway = "Mock" PROVE Spec => RecoveryMissesNone
<1>1. Sound /\ MockSound /\ [Next]_vars
      => [~mixed' => \A t \in Tasks :
            RecoveryDone(t)
            => \A k \in DOMAIN exch :
                 exch[k].st = "live"
                 => \/ OrderOf(exch[k].client).eid # NoEid
                    \/ \E u \in Tasks : Unsaved(u, exch[k].client)]_vars
  <2> SUFFICES ASSUME IInv, MockKnows, NEW t \in Tasks, RecoveryDone(t),
                      NEW k \in DOMAIN exch, exch[k].st = "live",
                      \A u \in Tasks : ~Unsaved(u, exch[k].client)
               PROVE  OrderOf(exch[k].client).eid # NoEid
    BY MixedStays DEF Sound, MockSound
  <2> DEFINE c == exch[k].client
  <2>1. c \in Clients /\ up /\ Live(c)
    <3>1. exch[k] \in ExchOrders
      BY InvParts DEF TypeOK
    <3> QED
      BY <3>1 DEF ExchOrders, RecoveryDone, Live
  <2>2. OrderOf(c).eid = MockEid(c)
    BY <2>1 DEF MockKnows, LiveKnown
  <2>3. MockEid(c) \in Eids
    BY <2>1 DEF MockEid, Eids
  <2> QED
    BY <2>2, <2>3, NoValues
<1>2. Spec => []Sound
  BY Invariance DEF Sound
<1> QED
  BY <1>1, <1>2, MockInvariance, PTL DEF Spec, RecoveryMissesNone
================================================================================
