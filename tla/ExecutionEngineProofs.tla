------------------------ MODULE ExecutionEngineProofs ------------------------
(***************************************************************************)
(* The engine's invariants hold for any number of questions, any prices,   *)
(* slippage, limits and configurations.  The invariant adds to the         *)
(* properties what a scan relies on: a sale on its way is whole and in     *)
(* time, a purchase's batches make up what is left of it, and a sale that  *)
(* has lapsed is no longer pending.                                        *)
(***************************************************************************)
EXTENDS ExecutionEngine, SumTheorems

(* What is left in a list of at most three batches.                        *)
Rest(b) ==
  (IF Len(b) >= 1 THEN b[1] ELSE 0) + (IF Len(b) >= 2 THEN b[2] ELSE 0)
    + (IF Len(b) >= 3 THEN b[3] ELSE 0)

(* A sale on its way: nothing sold of it, and early enough to be filled.   *)
WholeSale(o) ==
  /\ o.filled = 0 /\ o.paid = 0 /\ ~ o.liquidityFail
  /\ o.batches = <<o.quantity>>
  /\ o.wait + o.alive <= params.maxDelay

FittingPurchase(o) ==
  /\ o.target = NoPosition
  /\ Len(o.batches) <= 3
  /\ o.filled + Rest(o.batches) = o.quantity

SalesAreWhole ==
  \A i \in DOMAIN pending : pending[i].side = "Sell" => WholeSale(pending[i])

PurchasesFit ==
  \A i \in DOMAIN pending : pending[i].side = "Buy" => FittingPurchase(pending[i])

LapsedAreGone == \A i \in DOMAIN overwritten : i \notin DOMAIN pending

IInv ==
  /\ TypeOK /\ SalesAreWhole /\ PurchasesFit /\ LapsedAreGone
  /\ EndsInTime /\ EndedAsReported /\ SalesKeepPositions
  /\ StatsAddUp /\ ReservedIsPending /\ MoneyIsConserved

--------------------------------------------------------------------------------
(* Sets of ids *)

LEMMA IdsAreFinite ==
  ASSUME NEW n \in Nat, NEW S \in SUBSET (1 .. n)
  PROVE  IsFiniteSet(S)
<1>1. IsFiniteSet(1 .. n)
  BY FS_Interval
<1> QED
  BY <1>1, FS_Subset

LEMMA GreatestId ==
  ASSUME NEW n \in Nat, NEW S \in SUBSET (1 .. n), S # {}
  PROVE  /\ Max(S) \in S
         /\ \A x \in S : x <= Max(S)
<1> DEFINE B == { n - x : x \in S }
<1>1. B \in SUBSET Nat /\ B # {}
  <2>1. \A x \in S : n - x \in Nat
    OBVIOUS
  <2>2. PICK x : x \in S
    OBVIOUS
  <2>3. n - x \in B
    BY <2>2
  <2> QED
    BY <2>1, <2>3
<1>2. PICK b \in B : \A c \in B : b <= c
  BY <1>1, LeastNatural
<1>3. PICK m \in S : b = n - m
  BY <1>2
<1>4. \A x \in S : m >= x
  <2> TAKE x \in S
  <2>1. n - x \in B
    OBVIOUS
  <2>2. n - m <= n - x
    BY <1>2, <1>3, <2>1
  <2>3. m \in Nat /\ x \in Nat
    OBVIOUS
  <2> QED
    BY ONLY <2>2, <2>3, n \in Nat
<1>5. Max(S) \in S /\ \A x \in S : Max(S) >= x
  BY <1>4 DEF Max
<1> QED
  BY <1>5

--------------------------------------------------------------------------------
(* What a scan does to an order *)

LEMMA OrderTypes ==
  ASSUME NEW o \in Orders
  PROVE  /\ o.question \in Questions /\ o.side \in {"Buy", "Sell"} /\ o.status \in Live
         /\ o.quantity \in Nat /\ o.price \in Nat /\ o.filled \in Nat /\ o.paid \in Int
         /\ o.wait \in Nat /\ o.batches \in Seq(Nat) /\ o.alive \in Nat
         /\ o.liquidityFail \in BOOLEAN /\ o.target \in Positions
  BY DEF Orders

LEMMA BatchTypes ==
  ASSUME NEW o \in Orders, NEW slip \in Slips
  PROVE  /\ Batch(o) \in Nat /\ Waited(o) \in Nat
         /\ FillPrice(o, slip) \in Int /\ Proceeds(o, slip) \in Int
         /\ Unfilled(o) \in Int /\ Released(o) \in Int /\ Unlocked(o) \in Int
         /\ Slippage(o, slip) \in Nat /\ CashIn(o, slip) \in Int
<1>o. /\ o.quantity \in Nat /\ o.price \in Nat /\ o.filled \in Nat
      /\ o.wait \in Nat /\ o.batches \in Seq(Nat)
  BY OrderTypes
<1>s. slip \in Nat
  BY EngineParameters
<1>1. Batch(o) \in Nat
  <2>1. o.batches # << >> => Head(o.batches) \in Nat
    BY <1>o
  <2> QED
    BY <2>1 DEF Batch
<1>2. Waited(o) \in Nat
  BY <1>o DEF Waited
<1>3. FillPrice(o, slip) \in Int
  BY <1>o, <1>s DEF FillPrice
<1>4. Proceeds(o, slip) \in Int
  BY <1>1, <1>3 DEF Proceeds
<1>5. Unfilled(o) \in Int
  BY <1>o, <1>1 DEF Unfilled
<1>6. Released(o) \in Int
  BY <1>o, <1>5 DEF Released
<1>7. Unlocked(o) \in Int
  BY <1>o, <1>1, <1>6 DEF Unlocked
<1>8. Slippage(o, slip) \in Nat
  BY <1>s, <1>1 DEF Slippage
<1>9. CashIn(o, slip) \in Int
  BY <1>4, <1>6, <1>8 DEF CashIn
<1> QED
  BY <1>1, <1>2, <1>3, <1>4, <1>5, <1>6, <1>7, <1>8, <1>9

(* The ways a scan leaves an order: filled, out of time, or waiting.       *)
LEMMA Outcomes ==
  ASSUME NEW o \in Orders, NEW q, q = o.filled + Batch(o)
  PROVE  /\ StatusAfter(o) \in {"Filled", "Expired", "Cancelled", "Pending", "PartiallyFilled"}
         /\ StatusAfter(o) = "Filled" <=> q >= o.quantity
         /\ StatusAfter(o) = "Expired" <=> q < o.quantity /\ TimedOut(o) /\ q = 0
         /\ StatusAfter(o) = "Cancelled" <=> q < o.quantity /\ TimedOut(o) /\ q # 0
         /\ StatusAfter(o) \in Live => q < o.quantity /\ ~ TimedOut(o)
<1>1. o.quantity \in Nat /\ o.filled \in Nat /\ Batch(o) \in Nat
  <2>1. o.batches # << >> => Head(o.batches) \in Nat
    BY OrderTypes
  <2> QED
    BY <2>1, OrderTypes DEF Batch
<1> QED
  BY <1>1 DEF StatusAfter, Live

LEMMA OrdersWithNewFields ==
  ASSUME NEW o \in Orders, NEW alive \in Nat, NEW wait \in Nat, NEW batches \in Seq(Nat),
         NEW filled \in Nat, NEW paid \in Int, NEW status \in Live
  PROVE  [o EXCEPT !.alive = alive, !.wait = wait, !.batches = batches, !.filled = filled,
                   !.paid = paid, !.status = status] \in Orders
<1>1. \A r \in Orders, v \in Nat : [r EXCEPT !.alive = v] \in Orders
  BY DEF Orders
<1>2. \A r \in Orders, v \in Nat : [r EXCEPT !.wait = v] \in Orders
  BY DEF Orders
<1>3. \A r \in Orders, v \in Seq(Nat) : [r EXCEPT !.batches = v] \in Orders
  BY DEF Orders
<1>4. \A r \in Orders, v \in Nat : [r EXCEPT !.filled = v] \in Orders
  BY DEF Orders
<1>5. \A r \in Orders, v \in Int : [r EXCEPT !.paid = v] \in Orders
  BY DEF Orders
<1>6. \A r \in Orders, v \in Live : [r EXCEPT !.status = v] \in Orders
  BY DEF Orders
<1> QED
  BY <1>1, <1>2, <1>3, <1>4, <1>5, <1>6

LEMMA TailOfNaturals ==
  ASSUME NEW s \in Seq(Nat), s # << >>
  PROVE  Tail(s) \in Seq(Nat)
  OBVIOUS

LEMMA AfterIsAnOrder ==
  ASSUME NEW o \in Orders, NEW slip \in Slips
  PROVE  /\ StatusAfter(o) \in Live => After(o, slip) \in Orders
         /\ After(o, slip).question = o.question /\ After(o, slip).side = o.side
         /\ After(o, slip).quantity = o.quantity /\ After(o, slip).price = o.price
         /\ After(o, slip).filled = o.filled + Batch(o)
         /\ After(o, slip).paid = o.paid + Proceeds(o, slip)
         /\ After(o, slip).wait = Waited(o)
         /\ After(o, slip).batches = (IF Batch(o) > 0 THEN Tail(o.batches) ELSE o.batches)
         /\ After(o, slip).alive = o.alive + 1
         /\ After(o, slip).liquidityFail = o.liquidityFail
         /\ After(o, slip).target = o.target
<1> DEFINE b == IF Batch(o) > 0 THEN Tail(o.batches) ELSE o.batches
           f == o.filled + Batch(o)
           p == o.paid + Proceeds(o, slip)
           a == [o EXCEPT !.alive = o.alive + 1, !.wait = Waited(o), !.batches = b,
                          !.filled = f, !.paid = p, !.status = StatusAfter(o)]
<1>1. After(o, slip) = a
  BY DEF After, Proceeds
<1>2. b \in Seq(Nat)
  <2>1. Batch(o) > 0 => o.batches # << >>
    BY DEF Batch
  <2>2. o.batches \in Seq(Nat)
    BY OrderTypes
  <2>3. o.batches # << >> => Tail(o.batches) \in Seq(Nat)
    BY ONLY <2>2, TailOfNaturals
  <2> QED
    BY <2>1, <2>2, <2>3
<1>3. f \in Nat /\ p \in Int /\ o.alive + 1 \in Nat /\ Waited(o) \in Nat
  <2>1. o.filled \in Nat /\ o.paid \in Int /\ o.alive \in Nat
    BY OrderTypes
  <2>2. Batch(o) \in Nat /\ Waited(o) \in Nat /\ Proceeds(o, slip) \in Int
    BY BatchTypes
  <2> QED
    BY ONLY <2>1, <2>2
<1> HIDE DEF b, f, p
<1>4. StatusAfter(o) \in Live => a \in Orders
  BY <1>2, <1>3, OrdersWithNewFields
<1>5. /\ a.question = o.question /\ a.side = o.side /\ a.quantity = o.quantity
      /\ a.price = o.price /\ a.filled = f /\ a.paid = p /\ a.wait = Waited(o)
      /\ a.batches = b /\ a.alive = o.alive + 1 /\ a.liquidityFail = o.liquidityFail
      /\ a.target = o.target
  BY DEF Orders
<1> HIDE DEF a
<1> QED
  BY <1>1, <1>4, <1>5 DEF b, f, p

(* A sale in a scan is filled whole or is left alone.                      *)
LEMMA ScanOfSale ==
  ASSUME NEW o \in Orders, NEW slip \in Slips, params \in Params,
         o.side = "Sell", WholeSale(o)
  PROVE  \/ /\ StatusAfter(o) = "Filled" /\ Batch(o) = o.quantity
         \/ /\ StatusAfter(o) \in {"Pending", "Expired"}
            /\ Batch(o) = 0 /\ 0 < o.wait /\ Waited(o) = o.wait - 1
            /\ StatusAfter(o) = "Expired" => params.maxWait <= params.maxDelay
            /\ WholeSale(After(o, slip))
<1>o. /\ o.quantity \in Nat /\ o.wait \in Nat /\ o.alive \in Nat /\ o.filled = 0
      /\ o.batches # << >> /\ Head(o.batches) = o.quantity /\ ~ o.liquidityFail
      /\ o.batches = <<o.quantity>> /\ o.paid = 0 /\ o.wait + o.alive <= params.maxDelay
  BY OrderTypes DEF WholeSale
<1>p. params.maxWait \in Nat /\ params.maxDelay \in Nat
  BY EngineParameters
<1>1. CASE o.wait = 0
  <2>1. Batch(o) = o.quantity
    BY <1>1, <1>o DEF Batch
  <2>2. StatusAfter(o) = "Filled"
    BY <2>1, <1>o DEF StatusAfter
  <2> QED
    BY <2>1, <2>2
<1>2. CASE 0 < o.wait
  <2>1. Batch(o) = 0 /\ Waited(o) = o.wait - 1
    BY <1>2, <1>o DEF Batch, Waited
  <2>2. CASE o.quantity = 0
    BY <2>1, <2>2, <1>o DEF StatusAfter
  <2>3. CASE o.quantity # 0
    <3>1. /\ StatusAfter(o) \in {"Pending", "Expired"}
          /\ StatusAfter(o) = "Expired" => o.alive + 1 >= params.maxWait
      BY <2>1, <2>3, <1>o DEF StatusAfter, TimedOut
    <3>2. StatusAfter(o) = "Expired" => params.maxWait <= params.maxDelay
      BY <3>1, <1>2, <1>o, <1>p
    <3>3. /\ After(o, slip).filled = 0 /\ After(o, slip).paid = o.paid + Proceeds(o, slip)
          /\ After(o, slip).wait = o.wait - 1 /\ After(o, slip).alive = o.alive + 1
          /\ After(o, slip).batches = o.batches /\ After(o, slip).quantity = o.quantity
          /\ ~ After(o, slip).liquidityFail
      BY <2>1, <1>o, AfterIsAnOrder
    <3>4. Proceeds(o, slip) = 0
      <4>1. FillPrice(o, slip) \in Int
        BY BatchTypes
      <4> QED
        BY <4>1, <2>1 DEF Proceeds
    <3>5. WholeSale(After(o, slip))
      BY <3>3, <3>4, <1>o, <1>p DEF WholeSale
    <3> QED
      BY <2>1, <1>2, <3>1, <3>2, <3>5
  <2> QED
    BY <2>2, <2>3
<1> QED
  BY <1>o, <1>1, <1>2

LEMMA RestOfTail ==
  ASSUME NEW b \in Seq(Nat), Len(b) <= 3, b # << >>
  PROVE  /\ Tail(b) \in Seq(Nat) /\ Len(Tail(b)) <= 3
         /\ Head(b) \in Nat /\ Rest(Tail(b)) \in Nat
         /\ Rest(b) = Head(b) + Rest(Tail(b))
<1>1. /\ Len(b) \in 1 .. 3 /\ Head(b) = b[1] /\ Len(Tail(b)) = Len(b) - 1
      /\ Tail(b) \in Seq(Nat) /\ b[1] \in Nat
  <2>1. Len(b) \in Nat /\ Len(b) # 0
    OBVIOUS
  <2>2. Head(b) = b[1] /\ Tail(b) \in Seq(Nat) /\ Len(Tail(b)) = Len(b) - 1
    OBVIOUS
  <2>3. b[1] \in Nat
    BY <2>1
  <2> QED
    BY <2>1, <2>2, <2>3
<1>2. Len(b) >= 2 => Tail(b)[1] = b[2] /\ b[2] \in Nat
  OBVIOUS
<1>3. Len(b) >= 3 => Tail(b)[2] = b[3] /\ b[3] \in Nat
  OBVIOUS
<1> QED
  BY <1>1, <1>2, <1>3 DEF Rest

(* A purchase in a scan never buys more than it lacks.                     *)
LEMMA ScanOfPurchase ==
  ASSUME NEW o \in Orders, NEW slip \in Slips, o.side = "Buy", FittingPurchase(o)
  PROVE  /\ o.filled + Batch(o) <= o.quantity
         /\ FittingPurchase(After(o, slip))
<1>o. /\ o.quantity \in Nat /\ o.filled \in Nat /\ o.batches \in Seq(Nat) /\ Batch(o) \in Nat
      /\ o.target = NoPosition /\ Len(o.batches) <= 3
      /\ o.filled + Rest(o.batches) = o.quantity
  BY OrderTypes, BatchTypes DEF FittingPurchase
<1>a. /\ After(o, slip).target = o.target /\ After(o, slip).quantity = o.quantity
      /\ After(o, slip).filled = o.filled + Batch(o)
      /\ After(o, slip).batches = (IF Batch(o) > 0 THEN Tail(o.batches) ELSE o.batches)
  BY AfterIsAnOrder
<1>1. CASE Batch(o) = 0
  <2>1. Rest(o.batches) \in Nat
    <3>1. Len(o.batches) \in Nat
      BY <1>o
    <3>2. \A i \in 1 .. Len(o.batches) : o.batches[i] \in Nat
      BY <1>o
    <3> QED
      BY <3>1, <3>2 DEF Rest
  <2> QED
    BY <2>1, <1>1, <1>o, <1>a DEF FittingPurchase
<1>2. CASE Batch(o) > 0
  <2>1. o.batches # << >> /\ Batch(o) = Head(o.batches)
    BY <1>2 DEF Batch
  <2>2. /\ Len(Tail(o.batches)) <= 3 /\ Rest(Tail(o.batches)) \in Nat
        /\ Rest(o.batches) = Batch(o) + Rest(Tail(o.batches))
    BY <2>1, <1>o, RestOfTail
  <2> QED
    BY <2>2, <1>2, <1>o, <1>a DEF FittingPurchase
<1> QED
  BY <1>o, <1>1, <1>2

--------------------------------------------------------------------------------
(* What submitting adds *)

LEMMA SchedulesMakeUp ==
  ASSUME NEW n \in Nat, NEW b \in PartialSchedules(n)
  PROVE  b \in Seq(Nat) /\ Len(b) <= 3 /\ Rest(b) = n
<1>1. CASE b = <<n>>
  BY <1>1 DEF Rest
<1>2. ASSUME NEW a \in 1 .. (n - 1), b = <<a, n - a>>
      PROVE  b \in Seq(Nat) /\ Len(b) <= 3 /\ Rest(b) = n
  <2>1. a \in Nat /\ n - a \in Nat
    OBVIOUS
  <2> QED
    BY <1>2, <2>1 DEF Rest
<1>3. ASSUME NEW a \in 1 .. n, NEW c \in 1 .. n, a + c < n, b = <<a, c, n - a - c>>
      PROVE  b \in Seq(Nat) /\ Len(b) <= 3 /\ Rest(b) = n
  <2>1. a \in Nat /\ c \in Nat /\ n - a - c \in Nat
    BY <1>3
  <2> QED
    BY <1>3, <2>1 DEF Rest
<1> QED
  BY <1>1, <1>2, <1>3 DEF PartialSchedules

LEMMA NewOrderIsAnOrder ==
  ASSUME NEW q \in Questions, NEW side \in {"Buy", "Sell"}, NEW n \in Nat, NEW p \in Nat,
         NEW delay \in Nat, NEW b \in Seq(Nat), NEW fail \in BOOLEAN, NEW target \in Positions
  PROVE  NewOrder(q, side, n, p, delay, b, fail, target) \in Orders
  BY DEF NewOrder, Orders, Live

LEMMA EnqueueAdds ==
  ASSUME TypeOK, counter < MaxOrders, NEW o \in Orders, Enqueue(o)
  PROVE  /\ counter' = counter + 1 /\ counter' \in 0 .. MaxOrders
         /\ counter' \notin DOMAIN pending /\ counter' \in 1 .. counter'
         /\ DOMAIN pending' = DOMAIN pending \cup {counter'}
         /\ DOMAIN pending' \subseteq 1 .. counter'
         /\ pending' \in [DOMAIN pending' -> Orders]
         /\ pending'[counter'] = o
         /\ \A i \in DOMAIN pending : pending'[i] = pending[i]
<1>c. counter \in Nat /\ MaxOrders \in Nat /\ counter + 1 \in Nat
  BY EngineParameters DEF TypeOK
<1>1. /\ counter' = counter + 1 /\ counter' \in 0 .. MaxOrders
      /\ counter' \in 1 .. counter'
  BY <1>c DEF Enqueue
<1>d. DOMAIN pending \subseteq 1 .. counter
  BY DEF TypeOK
<1>2. counter' \notin DOMAIN pending
  BY <1>1, <1>c, <1>d
<1>3. pending' = [i \in DOMAIN pending \cup {counter'} |-> IF i = counter' THEN o ELSE pending[i]]
  BY DEF Enqueue
<1>4. DOMAIN pending' = DOMAIN pending \cup {counter'}
  BY <1>3
<1>5. DOMAIN pending' \subseteq 1 .. counter'
  BY <1>4, <1>1, <1>c, <1>d
<1>6. \A i \in DOMAIN pending : pending'[i] = pending[i]
  BY <1>2, <1>3
<1>7. pending'[counter'] = o
  BY <1>3
<1>8. pending' \in [DOMAIN pending' -> Orders]
  <2>1. \A i \in DOMAIN pending : pending[i] \in Orders
    BY DEF TypeOK
  <2> QED
    BY <2>1, <1>3
<1> QED
  BY <1>1, <1>2, <1>4, <1>5, <1>6, <1>7, <1>8

(* Ids stay below a larger counter.                                        *)
LEMMA TypesWithMoreIds ==
  ASSUME TypeOK, counter' = counter + 1
  PROVE  /\ terminal \subseteq [id : 1 .. counter', status : Gone, quantity : Nat, filled : Nat]
         /\ DOMAIN pending \subseteq 1 .. counter'
         /\ DOMAIN overwritten \subseteq 1 .. counter'
         /\ counter' \notin DOMAIN overwritten
<1>1. counter \in Nat
  BY EngineParameters DEF TypeOK
<1>2. 1 .. counter \subseteq 1 .. counter' /\ counter' \notin 1 .. counter
  BY <1>1
<1>3. terminal \subseteq [id : 1 .. counter, status : Gone, quantity : Nat, filled : Nat]
  BY DEF TypeOK
<1>4. [id : 1 .. counter, status : Gone, quantity : Nat, filled : Nat]
        \subseteq [id : 1 .. counter', status : Gone, quantity : Nat, filled : Nat]
  BY <1>2
<1>5. terminal \subseteq [id : 1 .. counter', status : Gone, quantity : Nat, filled : Nat]
  BY ONLY <1>3, <1>4
<1>6. DOMAIN pending \subseteq 1 .. counter /\ DOMAIN overwritten \subseteq 1 .. counter
  BY DEF TypeOK
<1>7. /\ DOMAIN pending \subseteq 1 .. counter' /\ DOMAIN overwritten \subseteq 1 .. counter'
      /\ counter' \notin DOMAIN overwritten
  BY ONLY <1>2, <1>6
<1> QED
  BY ONLY <1>5, <1>7

(* Sums over the pending orders, with a new one among them.                *)
LEMMA SumsWithNewOrder ==
  ASSUME TypeOK, counter < MaxOrders, NEW o \in Orders, Enqueue(o)
  PROVE  /\ CostIn(OnSale') = CostIn(OnSale) + o.target.cost
         /\ CostIn(OnSale) \in Int
         /\ SumFunction([i \in DOMAIN pending' |-> Reserve(pending'[i])])
              = SumFunction([i \in DOMAIN pending |-> Reserve(pending[i])]) + Reserve(o)
<1> DEFINE P == DOMAIN pending
           f == [i \in P |-> pending[i].target.cost]
           g == [i \in P \cup {counter'} |-> pending'[i].target.cost]
           r == [i \in P |-> Reserve(pending[i])]
           s == [i \in P \cup {counter'} |-> Reserve(pending'[i])]
<1>1. /\ counter' \notin P /\ DOMAIN pending' = P \cup {counter'} /\ pending'[counter'] = o
      /\ \A i \in P : pending'[i] = pending[i]
  BY EnqueueAdds
<1>2. IsFiniteSet(P)
  BY IdsAreFinite, EngineParameters DEF TypeOK
<1>3. \A i \in P : pending[i] \in Orders
  BY DEF TypeOK
<1>4. \A x \in Orders : x.target.cost \in Int /\ Reserve(x) \in Int
  BY DEF Orders, Positions, Reserve
<1>5. /\ \A i \in P : f[i] \in Int /\ g[i] = f[i]
      /\ \A i \in P : r[i] \in Int /\ s[i] = r[i]
      /\ g[counter'] = o.target.cost /\ g[counter'] \in Int
      /\ s[counter'] = Reserve(o) /\ s[counter'] \in Int
  BY <1>1, <1>3, <1>4
<1>6. CostIn(OnSale) = SumFunctionOnSet(f, P)
  BY DEF CostIn, OnSale, SumFunction
<1>7. CostIn(OnSale') = SumFunctionOnSet(g, P \cup {counter'})
  BY <1>1 DEF CostIn, OnSale, SumFunction
<1>8. /\ SumFunction(r) = SumFunctionOnSet(r, P)
      /\ SumFunction(s) = SumFunctionOnSet(s, P \cup {counter'})
  BY DEF SumFunction
<1> HIDE DEF f, g, r, s, P
<1>n. counter' \notin P
  BY <1>1
<1>9. SumFunctionOnSet(g, P \cup {counter'}) = SumFunctionOnSet(f, P) + g[counter']
  <2>1. (\A y \in P : f[y] \in Int /\ g[y] = f[y]) /\ g[counter'] \in Int
    BY <1>5
  <2> QED
    BY ONLY <1>2, <1>n, <2>1, SumWithNew
<1>10. SumFunctionOnSet(s, P \cup {counter'}) = SumFunctionOnSet(r, P) + s[counter']
  <2>1. (\A y \in P : r[y] \in Int /\ s[y] = r[y]) /\ s[counter'] \in Int
    BY <1>5
  <2> QED
    BY ONLY <1>2, <1>n, <2>1, SumWithNew
<1>11. SumFunctionOnSet(f, P) \in Int
  BY <1>2, <1>5, SumIsInt
<1>12. SumFunction(s) = SumFunction(r) + Reserve(o)
  BY <1>5, <1>8, <1>10
<1> QED
  BY <1>1, <1>5, <1>6, <1>7, <1>9, <1>11, <1>12 DEF r, s, P

StatsType == [{"total", "filled", "cancelled", "expired", "rejected"} -> Nat]

LEMMA EnqueueCounts ==
  ASSUME TypeOK, StatsAddUp, counter < MaxOrders, NEW o \in Orders, Enqueue(o)
  PROVE  stats' \in StatsType /\ StatsAddUp'
<1>1. counter' \notin DOMAIN pending /\ DOMAIN pending' = DOMAIN pending \cup {counter'}
  BY EnqueueAdds
<1>2. IsFiniteSet(DOMAIN pending)
  BY IdsAreFinite, EngineParameters DEF TypeOK
<1>3. /\ Cardinality(DOMAIN pending) \in Nat
      /\ Cardinality(DOMAIN pending') = Cardinality(DOMAIN pending) + 1
  BY <1>1, <1>2, FS_CardinalityType, FS_AddElement
<1>4. stats \in StatsType
  BY DEF TypeOK, StatsType
<1>5. /\ stats' \in StatsType
      /\ stats'.total = stats.total + 1 /\ stats'.filled = stats.filled
      /\ stats'.cancelled = stats.cancelled /\ stats'.expired = stats.expired
      /\ stats'.rejected = stats.rejected
  BY <1>4 DEF Enqueue, StatsType
<1>6. StatsAddUp'
  BY <1>3, <1>4, <1>5 DEF StatsAddUp, StatsType
<1> QED
  BY <1>5, <1>6

(* What every submission leaves as it is, and what the invariant says of   *)
(* the new order.                                                          *)
LEMMA SubmissionKeeps ==
  ASSUME IInv, counter < MaxOrders, NEW o \in Orders, Enqueue(o),
         o.alive = 0,
         o.side = "Sell" => WholeSale(o),
         o.side = "Buy" => FittingPurchase(o),
         UNCHANGED <<params, terminal, overwritten>>
  PROVE  /\ SalesAreWhole' /\ PurchasesFit' /\ LapsedAreGone'
         /\ EndsInTime' /\ EndedAsReported' /\ SalesKeepPositions' /\ StatsAddUp'
         /\ params' \in Params /\ counter' \in 0 .. MaxOrders
         /\ DOMAIN pending' \subseteq 1 .. counter'
         /\ pending' \in [DOMAIN pending' -> Orders]
         /\ (terminal \subseteq [id : 1 .. counter, status : Gone, quantity : Nat, filled : Nat])'
         /\ stats' \in StatsType
         /\ (overwritten \in [DOMAIN overwritten -> Positions])'
         /\ (DOMAIN overwritten \subseteq 1 .. counter)'
<1> USE DEF IInv
<1>1. /\ counter' = counter + 1 /\ counter' \in 0 .. MaxOrders
      /\ DOMAIN pending' = DOMAIN pending \cup {counter'}
      /\ DOMAIN pending' \subseteq 1 .. counter'
      /\ pending' \in [DOMAIN pending' -> Orders]
      /\ pending'[counter'] = o
      /\ \A i \in DOMAIN pending : pending'[i] = pending[i]
  BY EnqueueAdds
<1>2. /\ terminal \subseteq [id : 1 .. counter', status : Gone, quantity : Nat, filled : Nat]
      /\ DOMAIN overwritten \subseteq 1 .. counter'
      /\ counter' \notin DOMAIN overwritten
  BY <1>1, TypesWithMoreIds
<1>3. stats' \in StatsType /\ StatsAddUp'
  BY EnqueueCounts
<1>4. SalesAreWhole'
  BY <1>1 DEF SalesAreWhole, WholeSale
<1>5. PurchasesFit'
  BY <1>1 DEF PurchasesFit, FittingPurchase
<1>6. LapsedAreGone'
  BY <1>1, <1>2 DEF LapsedAreGone
<1>7. EndsInTime'
  BY <1>1 DEF EndsInTime
<1>8. EndedAsReported' /\ SalesKeepPositions'
  BY DEF EndedAsReported, SalesKeepPositions
<1>9. params' \in Params /\ (overwritten \in [DOMAIN overwritten -> Positions])'
  BY DEF TypeOK
<1> QED
  BY <1>1, <1>2, <1>3, <1>4, <1>5, <1>6, <1>7, <1>8, <1>9

LEMMA MoneyTypes ==
  ASSUME TypeOK
  PROVE  /\ available \in Int /\ pendingCash \in Int /\ realized \in Int
         /\ Capital \in Int /\ OrderNotional \in Nat
         /\ CostIn(open) \in Int /\ CostIn(overwritten) \in Int
         /\ \A q \in Questions : open[q] \in Positions
<1>1. /\ available \in Int /\ pendingCash \in Int /\ realized \in Int
      /\ Capital \in Int /\ OrderNotional \in Nat
      /\ \A q \in Questions : open[q] \in Positions
      /\ DOMAIN open = Questions
  BY EngineParameters DEF TypeOK
<1>2. CostIn(open) \in Int
  <2> DEFINE f == [q \in Questions |-> open[q].cost]
  <2>1. CostIn(open) = SumFunctionOnSet(f, Questions)
    BY <1>1 DEF CostIn, SumFunction
  <2>2. \A q \in Questions : f[q] \in Int
    BY <1>1 DEF Positions
  <2> HIDE DEF f
  <2> QED
    BY <2>1, <2>2, FinitelyMany, SumIsInt
<1>3. CostIn(overwritten) \in Int
  <2> DEFINE D == DOMAIN overwritten
             f == [i \in D |-> overwritten[i].cost]
  <2>1. CostIn(overwritten) = SumFunctionOnSet(f, D)
    BY DEF CostIn, SumFunction
  <2>2. \A i \in D : f[i] \in Int
    BY DEF Positions, TypeOK
  <2>3. IsFiniteSet(D)
    BY IdsAreFinite, EngineParameters DEF TypeOK
  <2> HIDE DEF f, D
  <2> QED
    BY <2>1, <2>2, <2>3, SumIsInt
<1> QED
  BY <1>1, <1>2, <1>3

LEMMA BuyStep ==
  ASSUME IInv, NEW q \in Questions, NEW p \in Prices, SubmitBuy(q, p)
  PROVE  IInv'
<1> USE DEF IInv
<1> DEFINE n == OrderNotional \div p
<1>p. p \in Nat \ {0} /\ n \in Nat /\ p * n = OrderNotional
  <2>1. p \in Nat \ {0} /\ OrderNotional \in Nat
    BY EngineParameters DEF SubmitBuy, Unacceptable
  <2>2. n \in Nat
    BY <2>1
  <2>3. n * p = OrderNotional
    BY <2>1, WholeShares
  <2> QED
    BY <2>1, <2>2, <2>3
<1>1. PICK delay \in 0 .. params.maxDelay, fail \in BOOLEAN, batches \in PartialSchedules(n) :
        Enqueue(NewOrder(q, "Buy", n, p, delay, batches, fail, NoPosition))
  BY DEF SubmitBuy
<1> DEFINE o == NewOrder(q, "Buy", n, p, delay, batches, fail, NoPosition)
<1>b. batches \in Seq(Nat) /\ Len(batches) <= 3 /\ Rest(batches) = n
  BY <1>p, SchedulesMakeUp
<1>t. NoPosition \in Positions /\ NoPosition.cost = 0
  BY DEF NoPosition, Positions
<1>2. o \in Orders
  BY <1>p, <1>b, <1>t, NewOrderIsAnOrder
<1>3. /\ o.side = "Buy" /\ o.alive = 0 /\ o.target = NoPosition /\ o.filled = 0
      /\ o.batches = batches /\ o.quantity = n /\ o.price = p
  BY DEF NewOrder
<1>e. Enqueue(o)
  BY <1>1
<1> HIDE DEF o, n
<1>4. FittingPurchase(o) /\ Reserve(o) = OrderNotional
  BY <1>p, <1>b, <1>3 DEF FittingPurchase, Reserve
<1>5. /\ counter < MaxOrders /\ UNCHANGED <<params, terminal, overwritten>>
      /\ available' = available - OrderNotional /\ pendingCash' = pendingCash + OrderNotional
      /\ UNCHANGED <<open, realized>>
  BY DEF SubmitBuy
<1>6. /\ SalesAreWhole' /\ PurchasesFit' /\ LapsedAreGone'
      /\ EndsInTime' /\ EndedAsReported' /\ SalesKeepPositions' /\ StatsAddUp'
      /\ params' \in Params /\ counter' \in 0 .. MaxOrders
      /\ DOMAIN pending' \subseteq 1 .. counter'
      /\ pending' \in [DOMAIN pending' -> Orders]
      /\ (terminal \subseteq [id : 1 .. counter, status : Gone, quantity : Nat, filled : Nat])'
      /\ stats' \in StatsType
      /\ (overwritten \in [DOMAIN overwritten -> Positions])'
      /\ (DOMAIN overwritten \subseteq 1 .. counter)'
  BY <1>2, <1>3, <1>e, <1>4, <1>5, SubmissionKeeps
<1>m. /\ available \in Int /\ pendingCash \in Int /\ realized \in Int /\ OrderNotional \in Nat
      /\ Capital \in Int /\ CostIn(open) \in Int /\ CostIn(overwritten) \in Int
  BY MoneyTypes
<1>7. TypeOK'
  <2>1. open' \in [Questions -> Positions]
    BY <1>5 DEF TypeOK
  <2>2. {realized', available', pendingCash'} \subseteq Int
    BY <1>5, <1>m
  <2> QED
    BY <1>6, <2>1, <2>2 DEF TypeOK, StatsType
<1>8. /\ CostIn(OnSale') = CostIn(OnSale) + o.target.cost
      /\ CostIn(OnSale) \in Int
      /\ SumFunction([i \in DOMAIN pending' |-> Reserve(pending'[i])])
           = SumFunction([i \in DOMAIN pending |-> Reserve(pending[i])]) + Reserve(o)
  BY <1>2, <1>e, <1>5, SumsWithNewOrder
<1>9. MoneyIsConserved'
  <2>1. CostIn(OnSale') = CostIn(OnSale)
    BY <1>8, <1>3, <1>t
  <2>2. available + pendingCash + CostIn(open) + CostIn(OnSale) + CostIn(overwritten)
          = Capital + realized
    BY DEF MoneyIsConserved
  <2>3. available' + pendingCash' + CostIn(open) + CostIn(OnSale') + CostIn(overwritten)
          = Capital + realized
    BY <1>5, <1>m, <1>8, <2>1, <2>2
  <2>4. CostIn(open)' = CostIn(open) /\ CostIn(overwritten)' = CostIn(overwritten)
    BY <1>5 DEF CostIn
  <2> QED
    BY <1>5, <2>3, <2>4 DEF MoneyIsConserved
<1>10. ReservedIsPending'
  BY <1>4, <1>5, <1>8 DEF ReservedIsPending
<1> QED
  BY <1>6, <1>7, <1>9, <1>10

LEMMA SellStep ==
  ASSUME IInv, NEW q \in Questions, NEW p \in Prices, SubmitSell(q, p)
  PROVE  IInv'
<1> USE DEF IInv
<1> DEFINE n == open[q].quantity
<1>1. PICK delay \in 0 .. params.maxDelay, batches \in SaleSchedules(n) :
        Enqueue(NewOrder(q, "Sell", n, p, delay, batches, FALSE, open[q]))
  BY DEF SubmitSell
<1> DEFINE o == NewOrder(q, "Sell", n, p, delay, batches, FALSE, open[q])
<1>q. open[q] \in Positions /\ n \in Nat /\ p \in Nat
  BY EngineParameters, MoneyTypes DEF Positions
<1>d. params.maxDelay \in Nat /\ delay \in Nat /\ delay <= params.maxDelay
  BY EngineParameters DEF TypeOK
<1>b. batches = <<n>> /\ batches \in Seq(Nat)
  <2>1. batches = <<n>>
    BY DEF SaleSchedules
  <2>2. n \in Nat
    BY <1>q
  <2> HIDE DEF n
  <2> QED
    BY ONLY <2>1, <2>2
<1>2. o \in Orders
  BY <1>q, <1>d, <1>b, NewOrderIsAnOrder
<1>3. /\ o.side = "Sell" /\ o.alive = 0 /\ o.target = open[q] /\ o.filled = 0 /\ o.paid = 0
      /\ o.batches = batches /\ o.quantity = n /\ o.wait = delay /\ o.liquidityFail = FALSE
  BY DEF NewOrder
<1>e. Enqueue(o)
  BY <1>1
<1> HIDE DEF o, n
<1>4. WholeSale(o) /\ Reserve(o) = 0
  BY <1>d, <1>b, <1>3 DEF WholeSale, Reserve
<1>5. /\ counter < MaxOrders /\ UNCHANGED <<params, terminal, overwritten>>
      /\ UNCHANGED <<available, pendingCash, realized>>
      /\ open' = [open EXCEPT ![q] = NoPosition]
  BY DEF SubmitSell
<1>6. /\ SalesAreWhole' /\ PurchasesFit' /\ LapsedAreGone'
      /\ EndsInTime' /\ EndedAsReported' /\ SalesKeepPositions' /\ StatsAddUp'
      /\ params' \in Params /\ counter' \in 0 .. MaxOrders
      /\ DOMAIN pending' \subseteq 1 .. counter'
      /\ pending' \in [DOMAIN pending' -> Orders]
      /\ (terminal \subseteq [id : 1 .. counter, status : Gone, quantity : Nat, filled : Nat])'
      /\ stats' \in StatsType
      /\ (overwritten \in [DOMAIN overwritten -> Positions])'
      /\ (DOMAIN overwritten \subseteq 1 .. counter)'
  BY <1>2, <1>3, <1>e, <1>4, <1>5, SubmissionKeeps
<1>m. /\ available \in Int /\ pendingCash \in Int /\ realized \in Int /\ Capital \in Int
      /\ CostIn(open) \in Int /\ CostIn(overwritten) \in Int
      /\ open \in [Questions -> Positions]
  BY MoneyTypes DEF TypeOK
<1>t. NoPosition \in Positions /\ NoPosition.cost = 0 /\ open[q].cost \in Int
  BY <1>q DEF NoPosition, Positions
<1>o. open' \in [Questions -> Positions]
  BY <1>5, <1>m, <1>t
<1>7. TypeOK'
  <2>2. {realized', available', pendingCash'} \subseteq Int
    BY <1>5, <1>m
  <2> QED
    BY <1>6, <1>o, <2>2 DEF TypeOK, StatsType
<1>8. /\ CostIn(OnSale') = CostIn(OnSale) + o.target.cost
      /\ CostIn(OnSale) \in Int
      /\ SumFunction([i \in DOMAIN pending' |-> Reserve(pending'[i])])
           = SumFunction([i \in DOMAIN pending |-> Reserve(pending[i])]) + Reserve(o)
  BY <1>2, <1>e, <1>5, SumsWithNewOrder
<1>9. CostIn(open') = CostIn(open) - open[q].cost
  <2> DEFINE f == [x \in Questions |-> open[x].cost]
             g == [x \in Questions |-> open'[x].cost]
  <2>1. CostIn(open) = SumFunctionOnSet(f, Questions)
    BY <1>m DEF CostIn, SumFunction
  <2>2. CostIn(open') = SumFunctionOnSet(g, Questions)
    BY <1>o DEF CostIn, SumFunction
  <2>3. \A y \in Questions : f[y] \in Int /\ g[y] \in Int
    BY <1>m, <1>o DEF Positions
  <2>4. \A y \in Questions \ {q} : g[y] = f[y]
    BY <1>5, <1>m
  <2>5. f[q] = open[q].cost /\ g[q] = 0
    BY <1>5, <1>m, <1>t
  <2> HIDE DEF f, g
  <2>6. SumFunctionOnSet(g, Questions) = SumFunctionOnSet(f, Questions) - f[q] + g[q]
    BY ONLY <2>3, <2>4, FinitelyMany, q \in Questions, SumWithChange
  <2> QED
    BY <1>m, <1>t, <2>1, <2>2, <2>5, <2>6
<1>10. MoneyIsConserved'
  <2>1. CostIn(OnSale') = CostIn(OnSale) + open[q].cost
    BY <1>8, <1>3
  <2>2. available + pendingCash + CostIn(open) + CostIn(OnSale) + CostIn(overwritten)
          = Capital + realized
    BY DEF MoneyIsConserved
  <2>3. available + pendingCash + CostIn(open') + CostIn(OnSale') + CostIn(overwritten)
          = Capital + realized
    BY <1>m, <1>t, <1>8, <1>9, <2>1, <2>2
  <2>4. CostIn(overwritten)' = CostIn(overwritten)
    BY <1>5 DEF CostIn
  <2> QED
    BY <1>5, <2>3, <2>4 DEF MoneyIsConserved
<1>11. ReservedIsPending'
  <2>1. pendingCash' = pendingCash /\ pendingCash \in Int
    BY <1>5, <1>m
  <2> QED
    BY <1>4, <1>8, <2>1 DEF ReservedIsPending
<1> QED
  BY <1>6, <1>7, <1>10, <1>11

LEMMA RefusedCounts ==
  ASSUME NEW s \in StatsType
  PROVE  /\ Refused(s) \in StatsType
         /\ Refused(s).total = s.total + 1 /\ Refused(s).rejected = s.rejected + 1
         /\ Refused(s).filled = s.filled /\ Refused(s).cancelled = s.cancelled
         /\ Refused(s).expired = s.expired
<1> DEFINE S == {"total", "filled", "cancelled", "expired", "rejected"}
           r == [x \in S |-> IF x \in {"total", "rejected"} THEN s[x] + 1 ELSE s[x]]
<1>1. s \in [S -> Nat]
  BY DEF StatsType
<1>2. Refused(s) = r
  <2>1. DOMAIN Refused(s) = S
    BY <1>1 DEF Refused
  <2>2. \A x \in S : Refused(s)[x] = r[x]
    BY <1>1 DEF Refused
  <2>3. Refused(s) = [x \in DOMAIN Refused(s) |-> Refused(s)[x]]
    BY DEF Refused
  <2> QED
    BY <2>1, <2>2, <2>3
<1>3. r \in StatsType
  BY <1>1 DEF StatsType
<1> QED
  BY <1>2, <1>3

LEMMA RejectStep ==
  ASSUME IInv, counter < MaxOrders, Reject
  PROVE  IInv'
<1> USE DEF IInv
<1> DEFINE o == [id |-> counter', status |-> "Rejected", quantity |-> 0, filled |-> 0]
<1>1. /\ counter' = counter + 1 /\ terminal' = terminal \cup {o} /\ stats' = Refused(stats)
      /\ UNCHANGED <<params, pending, open, realized, available, pendingCash, overwritten>>
  BY DEF Reject
<1>2. /\ terminal \subseteq [id : 1 .. counter', status : Gone, quantity : Nat, filled : Nat]
      /\ DOMAIN pending \subseteq 1 .. counter'
      /\ DOMAIN overwritten \subseteq 1 .. counter'
  BY <1>1, TypesWithMoreIds
<1>3. counter' \in 0 .. MaxOrders /\ counter' \in 1 .. counter'
  BY <1>1, EngineParameters DEF TypeOK
<1>s. stats \in StatsType
  BY DEF TypeOK, StatsType
<1>4. /\ stats \in StatsType /\ stats' \in StatsType
      /\ stats'.total = stats.total + 1 /\ stats'.rejected = stats.rejected + 1
      /\ stats'.filled = stats.filled /\ stats'.cancelled = stats.cancelled
      /\ stats'.expired = stats.expired
  BY ONLY <1>1, <1>s, RefusedCounts
<1>5. TypeOK'
  <2>1. terminal' \subseteq [id : 1 .. counter', status : Gone, quantity : Nat, filled : Nat]
    BY <1>1, <1>2, <1>3 DEF Gone
  <2> QED
    BY <1>1, <1>2, <1>3, <1>4, <2>1 DEF TypeOK, StatsType
<1>6. StatsAddUp'
  <2>1. Cardinality(DOMAIN pending) \in Nat
    BY IdsAreFinite, FS_CardinalityType, EngineParameters DEF TypeOK
  <2> QED
    BY <2>1, <1>1, <1>4 DEF StatsAddUp, StatsType
<1>7. EndedAsReported'
  BY <1>1 DEF EndedAsReported
<1>8. /\ SalesAreWhole' /\ PurchasesFit' /\ LapsedAreGone' /\ EndsInTime' /\ SalesKeepPositions'
  BY <1>1 DEF SalesAreWhole, WholeSale, PurchasesFit, LapsedAreGone, EndsInTime,
              SalesKeepPositions
<1>9. MoneyIsConserved' /\ ReservedIsPending'
  BY <1>1 DEF MoneyIsConserved, ReservedIsPending, CostIn, OnSale
<1> QED
  BY <1>5, <1>6, <1>7, <1>8, <1>9

LEMMA QuietStep ==
  ASSUME IInv, terminal' = {} \/ UNCHANGED terminal,
         UNCHANGED <<params, counter, pending, open, realized, available, pendingCash, stats,
                     overwritten>>
  PROVE  IInv'
<1> USE DEF IInv
<1>1. TypeOK'
  BY DEF TypeOK
<1>2. /\ SalesAreWhole' /\ PurchasesFit' /\ LapsedAreGone' /\ EndsInTime' /\ SalesKeepPositions'
  BY DEF SalesAreWhole, WholeSale, PurchasesFit, LapsedAreGone, EndsInTime, SalesKeepPositions
<1>3. EndedAsReported'
  BY DEF EndedAsReported
<1>4. MoneyIsConserved' /\ ReservedIsPending' /\ StatsAddUp'
  BY DEF MoneyIsConserved, ReservedIsPending, StatsAddUp, CostIn, OnSale
<1> QED
  BY <1>1, <1>2, <1>3, <1>4

(* An engine that has just started: all its capital, no orders, and a      *)
(* number to go on from.                                                   *)
JustStarted ==
  /\ params \in Params
  /\ counter \in 0 .. MaxOrders
  /\ pending = << >> /\ terminal = {} /\ overwritten = << >>
  /\ open = [q \in Questions |-> NoPosition]
  /\ realized = 0 /\ available = Capital /\ pendingCash = 0
  /\ stats = [total |-> 0, filled |-> 0, cancelled |-> 0, expired |-> 0, rejected |-> 0]

LEMMA StartHolds == JustStarted => IInv
<1> SUFFICES ASSUME JustStarted PROVE IInv
  OBVIOUS
<1>1. /\ DOMAIN pending = {} /\ DOMAIN overwritten = {}
      /\ pending \in [{} -> Orders] /\ overwritten \in [{} -> Positions]
  BY DEF JustStarted
<1>2. NoPosition \in Positions /\ NoPosition.cost = 0
  BY DEF NoPosition, Positions
<1>3. TypeOK
  <2>1. stats \in [{"total", "filled", "cancelled", "expired", "rejected"} -> Nat]
    BY DEF JustStarted
  <2>2. open \in [Questions -> Positions]
    BY <1>2 DEF JustStarted
  <2>3. counter \in 0 .. MaxOrders /\ Capital \in Int
    BY EngineParameters DEF JustStarted
  <2> QED
    BY <1>1, <2>1, <2>2, <2>3 DEF JustStarted, TypeOK
<1>4. SalesAreWhole /\ PurchasesFit /\ LapsedAreGone /\ EndsInTime /\ SalesKeepPositions
  BY <1>1 DEF SalesAreWhole, PurchasesFit, LapsedAreGone, EndsInTime, SalesKeepPositions
<1>5. EndedAsReported
  BY DEF JustStarted, EndedAsReported
<1>6. StatsAddUp
  <2>1. Cardinality(DOMAIN pending) = 0
    BY <1>1, FS_EmptySet
  <2> QED
    BY <2>1 DEF JustStarted, StatsAddUp
<1>7. ReservedIsPending
  <2> DEFINE f == [i \in DOMAIN pending |-> Reserve(pending[i])]
  <2>1. SumFunction(f) = SumFunctionOnSet(f, {})
    BY <1>1 DEF SumFunction
  <2> HIDE DEF f
  <2>2. SumFunctionOnSet(f, {}) = 0
    BY SumOfNone
  <2> QED
    BY <2>1, <2>2 DEF f, JustStarted, ReservedIsPending
<1>8. MoneyIsConserved
  <2> DEFINE f == [x \in DOMAIN open |-> open[x].cost]
             g == [x \in DOMAIN overwritten |-> overwritten[x].cost]
             h == [x \in DOMAIN OnSale |-> OnSale[x].cost]
  <2>1. DOMAIN open = Questions /\ DOMAIN OnSale = {}
    BY <1>1 DEF JustStarted, OnSale
  <2>2. \A q \in Questions : f[q] = 0
    BY <1>2 DEF JustStarted
  <2>3. /\ CostIn(open) = SumFunctionOnSet(f, Questions)
        /\ CostIn(overwritten) = SumFunctionOnSet(g, {})
        /\ CostIn(OnSale) = SumFunctionOnSet(h, {})
    BY <2>1, <1>1 DEF CostIn, SumFunction
  <2> HIDE DEF f, g, h
  <2>4. /\ SumFunctionOnSet(f, Questions) = 0
        /\ SumFunctionOnSet(g, {}) = 0 /\ SumFunctionOnSet(h, {}) = 0
    BY <2>2, FinitelyMany, SumOfZeros, SumOfNone
  <2>5. Capital \in Nat
    BY EngineParameters
  <2> QED
    BY <2>3, <2>4, <2>5 DEF JustStarted, MoneyIsConserved
<1> QED
  BY <1>3, <1>4, <1>5, <1>6, <1>7, <1>8 DEF IInv

LEMMA InitHolds == Init => IInv
<1>1. Init => JustStarted
  BY EngineParameters DEF Init, JustStarted
<1> QED
  BY <1>1, StartHolds

--------------------------------------------------------------------------------
(* What a question holds in the course of a scan *)

Before(q, k) == { i \in DOMAIN pending : pending[i].question = q /\ i < k }

(* The position to which the purchases among these ids are added, and the  *)
(* purchases that are: those after the last sale that lapses.              *)
BaseOf(q, ids) ==
  IF Lapsing(ids) = {} THEN open[q] ELSE pending[Max(Lapsing(ids))].target

AddedOf(ids) == { i \in Buys(ids) : \A j \in Lapsing(ids) : j < i }

BatchOf == [i \in DOMAIN pending |-> Batch(pending[i])]

ProceedsOf(slip) == [i \in DOMAIN pending |-> Proceeds(pending[i], slip[i])]

LEMMA LapsingIs ==
  ASSUME NEW ids, NEW i
  PROVE  i \in Lapsing(ids) <=> /\ i \in ids /\ pending[i].side = "Sell"
                                /\ StatusAfter(pending[i]) \in {"Expired", "Cancelled"}
  BY DEF Lapsing, Ending, Sells

LEMMA ScanTypes ==
  ASSUME TypeOK, NEW slip \in [DOMAIN pending -> Slips]
  PROVE  /\ IsFiniteSet(DOMAIN pending) /\ DOMAIN pending \in SUBSET (1 .. counter)
         /\ counter \in Nat
         /\ \A i \in DOMAIN pending :
              /\ pending[i] \in Orders /\ slip[i] \in Slips
              /\ BatchOf[i] \in Nat /\ BatchOf[i] = Batch(pending[i])
              /\ ProceedsOf(slip)[i] \in Int
              /\ ProceedsOf(slip)[i] = Proceeds(pending[i], slip[i])
              /\ pending[i].question \in Questions /\ pending[i].side \in {"Buy", "Sell"}
              /\ pending[i].target \in Positions
<1>1. counter \in Nat /\ DOMAIN pending \in SUBSET (1 .. counter)
  BY EngineParameters DEF TypeOK
<1>2. IsFiniteSet(DOMAIN pending)
  BY <1>1, IdsAreFinite
<1>3. \A i \in DOMAIN pending : pending[i] \in Orders /\ slip[i] \in Slips
  BY DEF TypeOK
<1>4. \A i \in DOMAIN pending :
        BatchOf[i] = Batch(pending[i]) /\ ProceedsOf(slip)[i] = Proceeds(pending[i], slip[i])
  BY DEF BatchOf, ProceedsOf
<1>5. \A i \in DOMAIN pending :
        Batch(pending[i]) \in Nat /\ Proceeds(pending[i], slip[i]) \in Int
  BY <1>3, BatchTypes
<1>6. \A i \in DOMAIN pending :
        /\ pending[i].question \in Questions /\ pending[i].side \in {"Buy", "Sell"}
        /\ pending[i].target \in Positions
  BY <1>3, OrderTypes
<1> QED
  BY <1>1, <1>2, <1>3, <1>4, <1>5, <1>6

LEMMA HeldIs ==
  ASSUME TypeOK, NEW slip \in [DOMAIN pending -> Slips], NEW q \in Questions, NEW k \in Nat,
         NEW B, B = Before(q, k)
  PROVE  /\ BaseOf(q, B) \in Positions
         /\ SumFunctionOnSet(BatchOf, AddedOf(B)) \in Nat
         /\ SumFunctionOnSet(ProceedsOf(slip), AddedOf(B)) \in Int
         /\ Held(q, k, slip) \in Positions
         /\ Held(q, k, slip).cost
              = BaseOf(q, B).cost + SumFunctionOnSet(ProceedsOf(slip), AddedOf(B))
<1>b. B \in SUBSET DOMAIN pending
  BY DEF Before
<1>1. BaseOf(q, B) \in Positions
  <2>1. Lapsing(B) \in SUBSET B
    BY LapsingIs
  <2>2. CASE Lapsing(B) = {}
    BY <2>2, MoneyTypes DEF BaseOf
  <2>3. CASE Lapsing(B) # {}
    <3>1. Lapsing(B) \in SUBSET (1 .. counter) /\ counter \in Nat
      BY <1>b, <2>1, ScanTypes
    <3>2. Max(Lapsing(B)) \in Lapsing(B)
      BY <2>3, <3>1, GreatestId
    <3>3. Max(Lapsing(B)) \in DOMAIN pending
      BY <1>b, <2>1, <3>2
    <3> QED
      BY <2>3, <3>3, ScanTypes DEF BaseOf
  <2> QED
    BY <2>2, <2>3
<1> DEFINE A == AddedOf(B)
           f == [i \in A |-> Batch(pending[i])]
           g == [i \in A |-> Proceeds(pending[i], slip[i])]
<1>2. A \in SUBSET DOMAIN pending
  BY <1>b DEF AddedOf, Buys
<1>3. IsFiniteSet(A)
  BY <1>2, ScanTypes, FS_Subset
<1>4. \A i \in A : /\ BatchOf[i] \in Nat /\ BatchOf[i] \in Int /\ BatchOf[i] = f[i]
                   /\ ProceedsOf(slip)[i] \in Int /\ ProceedsOf(slip)[i] = g[i]
  BY <1>2, ScanTypes
<1>5. Held(q, k, slip) = [quantity |-> BaseOf(q, B).quantity + SumFunctionOnSet(f, A),
                          cost |-> BaseOf(q, B).cost + SumFunctionOnSet(g, A)]
  BY DEF Held, Before, BaseOf, AddedOf, SumFunction
<1> HIDE DEF f, g, A
<1>6. /\ SumFunctionOnSet(BatchOf, A) = SumFunctionOnSet(f, A)
      /\ SumFunctionOnSet(ProceedsOf(slip), A) = SumFunctionOnSet(g, A)
  <2>1. (\A i \in A : BatchOf[i] \in Int /\ BatchOf[i] = f[i])
    BY <1>4
  <2>2. (\A i \in A : ProceedsOf(slip)[i] \in Int /\ ProceedsOf(slip)[i] = g[i])
    BY <1>4
  <2>3. SumFunctionOnSet(BatchOf, A) = SumFunctionOnSet(f, A)
    BY ONLY <1>3, <2>1, SumEquals
  <2>4. SumFunctionOnSet(ProceedsOf(slip), A) = SumFunctionOnSet(g, A)
    BY ONLY <1>3, <2>2, SumEquals
  <2> QED
    BY <2>3, <2>4
<1>7. SumFunctionOnSet(BatchOf, A) \in Nat
  <2>1. \A i \in A : BatchOf[i] \in Nat
    BY <1>4
  <2> QED
    BY ONLY <1>3, <2>1, SumIsNat
<1>8. SumFunctionOnSet(ProceedsOf(slip), A) \in Int
  <2>1. \A i \in A : ProceedsOf(slip)[i] \in Int
    BY <1>4
  <2> QED
    BY ONLY <1>3, <2>1, SumIsInt
<1>9. Held(q, k, slip) \in Positions
  BY <1>1, <1>5, <1>6, <1>7, <1>8 DEF Positions
<1> QED
  BY <1>1, <1>5, <1>6, <1>7, <1>8, <1>9 DEF A

(* What order i adds to the cost of what its question holds.               *)
Weight(i, slip) ==
  IF pending[i].side = "Buy" THEN Proceeds(pending[i], slip[i])
  ELSE IF i \in Lapsing(DOMAIN pending)
       THEN pending[i].target.cost - Held(pending[i].question, i, slip).cost
       ELSE 0

LEMMA HeldStep ==
  ASSUME TypeOK, NEW slip \in [DOMAIN pending -> Slips], NEW q \in Questions, NEW k \in Nat
  PROVE  Held(q, k + 1, slip).cost
           = IF k \in DOMAIN pending /\ pending[k].question = q
             THEN Held(q, k, slip).cost + Weight(k, slip)
             ELSE Held(q, k, slip).cost
<1> DEFINE ids == DOMAIN pending
<1>1. PICK B, C : B = Before(q, k) /\ C = Before(q, k + 1)
  OBVIOUS
<1> DEFINE Sum(T) == SumFunctionOnSet(ProceedsOf(slip), T)
<1>2. /\ Held(q, k, slip).cost = BaseOf(q, B).cost + Sum(AddedOf(B))
      /\ BaseOf(q, B) \in Positions /\ Sum(AddedOf(B)) \in Int
      /\ Held(q, k, slip) \in Positions
  BY <1>1, HeldIs
<1>3. /\ Held(q, k + 1, slip).cost = BaseOf(q, C).cost + Sum(AddedOf(C))
      /\ BaseOf(q, C) \in Positions /\ Sum(AddedOf(C)) \in Int
  <2>1. k + 1 \in Nat
    OBVIOUS
  <2> QED
    BY <2>1, <1>1, HeldIs
<1>n. ids \in SUBSET Nat /\ IsFiniteSet(ids)
  BY ScanTypes
<1>s. B \in SUBSET ids /\ \A i \in B : i < k /\ i \in Nat
  BY <1>1, <1>n DEF Before
<1>4. CASE ~ (k \in ids /\ pending[k].question = q)
  <2>1. C = B
    BY <1>1, <1>4, <1>n DEF Before
  <2> QED
    BY <2>1, <1>2, <1>3, <1>4
<1>5. CASE k \in ids /\ pending[k].question = q
  <2>1. C = B \cup {k} /\ k \notin B
    BY <1>1, <1>5, <1>n DEF Before
  <2>2. pending[k].side \in {"Buy", "Sell"}
    BY <1>5, ScanTypes
  <2>3. CASE pending[k].side = "Buy"
    <3>1. Lapsing(C) = Lapsing(B)
      <4>1. \A i : i \in Lapsing(C) <=> i \in Lapsing(B)
        BY <2>1, <2>3, LapsingIs
      <4> QED
        BY <4>1
    <3>2. \A j \in Lapsing(B) : j < k
      BY <1>s, LapsingIs
    <3>3. AddedOf(C) = AddedOf(B) \cup {k}
      BY <2>1, <2>3, <3>1, <3>2 DEF AddedOf, Buys
    <3>4. AddedOf(B) \in SUBSET ids /\ k \in ids \ AddedOf(B)
      BY <1>s, <1>5, <2>1 DEF AddedOf, Buys
    <3>5. Sum(AddedOf(B) \cup {k}) = Sum(AddedOf(B)) + ProceedsOf(slip)[k]
      <4>1. (\A i \in AddedOf(B) : ProceedsOf(slip)[i] \in Int) /\ ProceedsOf(slip)[k] \in Int
        BY <1>5, <3>4, ScanTypes
      <4>2. IsFiniteSet(AddedOf(B)) /\ k \notin AddedOf(B)
        BY <1>n, <3>4, FS_Subset
      <4> QED
        BY ONLY <4>1, <4>2, SumWithNew
    <3>6. ProceedsOf(slip)[k] = Weight(k, slip) /\ ProceedsOf(slip)[k] \in Int
      BY <1>5, <2>3, ScanTypes DEF Weight
    <3>7. BaseOf(q, C) = BaseOf(q, B) /\ BaseOf(q, B).cost \in Int
      BY <3>1, <1>2 DEF BaseOf, Positions
    <3>8. Sum(AddedOf(C)) = Sum(AddedOf(B)) + ProceedsOf(slip)[k]
      BY ONLY <3>3, <3>5
    <3> HIDE DEF Sum
    <3>9. Held(q, k + 1, slip).cost = Held(q, k, slip).cost + Weight(k, slip)
      BY <1>2, <1>3, <3>6, <3>7, <3>8
    <3> QED
      BY <1>5, <3>9
  <2>4. CASE pending[k].side = "Sell" /\ k \in Lapsing(ids)
    <3>1. Lapsing(C) = Lapsing(B) \cup {k}
      BY <2>1, <2>4, LapsingIs
    <3>2. Lapsing(C) \in SUBSET (1 .. counter) /\ counter \in Nat /\ Lapsing(C) # {}
      BY <3>1, <1>s, <1>5, <2>1, LapsingIs, ScanTypes
    <3>3. Max(Lapsing(C)) = k
      <4>1. Max(Lapsing(C)) \in Lapsing(C) /\ \A x \in Lapsing(C) : x <= Max(Lapsing(C))
        BY <3>2, GreatestId
      <4>2. \A j \in Lapsing(B) : j < k /\ j \in Nat
        BY <1>s, LapsingIs
      <4> QED
        BY <3>1, <4>1, <4>2
    <3>4. BaseOf(q, C) = pending[k].target
      BY <3>2, <3>3 DEF BaseOf
    <3>5. AddedOf(C) = {}
      <4>1. \A i \in C : ~ (k < i)
        BY <2>1, <1>s
      <4> QED
        BY <3>1, <4>1 DEF AddedOf, Buys
    <3>6. Sum(AddedOf(C)) = 0
      BY <3>5, SumOfNone
    <3>7. Weight(k, slip) = pending[k].target.cost - Held(q, k, slip).cost
      BY <1>5, <2>4 DEF Weight
    <3>8. pending[k].target.cost \in Int /\ Held(q, k, slip).cost \in Int
      BY <1>2, <1>5, ScanTypes DEF Positions
    <3> HIDE DEF Sum
    <3>9. Held(q, k + 1, slip).cost = Held(q, k, slip).cost + Weight(k, slip)
      BY <1>3, <3>4, <3>6, <3>7, <3>8
    <3> QED
      BY <1>5, <3>9
  <2>5. CASE pending[k].side = "Sell" /\ k \notin Lapsing(ids)
    <3>1. Lapsing(C) = Lapsing(B)
      <4>1. \A i : i \in Lapsing(C) <=> i \in Lapsing(B)
        BY <2>1, <2>5, <1>5, LapsingIs
      <4> QED
        BY <4>1
    <3>2. AddedOf(C) = AddedOf(B)
      BY <2>1, <2>5, <3>1 DEF AddedOf, Buys
    <3>3. BaseOf(q, C) = BaseOf(q, B)
      BY <3>1 DEF BaseOf
    <3>4. Weight(k, slip) = 0 /\ Held(q, k, slip).cost \in Int
      BY <2>5, <1>2 DEF Weight, Positions
    <3>5. Held(q, k + 1, slip).cost = Held(q, k, slip).cost
      BY <1>2, <1>3, <3>2, <3>3
    <3> QED
      BY <1>5, <3>4, <3>5
  <2> QED
    BY <2>2, <2>3, <2>4, <2>5
<1> QED
  BY <1>4, <1>5

HeldCosts(k, slip) == [q \in Questions |-> Held(q, k, slip).cost]

Weights(slip) == [i \in DOMAIN pending |-> Weight(i, slip)]

IdsBelow(k) == { i \in DOMAIN pending : i < k }

LEMMA WeightTypes ==
  ASSUME TypeOK, NEW slip \in [DOMAIN pending -> Slips]
  PROVE  \A i \in DOMAIN pending : Weights(slip)[i] = Weight(i, slip) /\ Weight(i, slip) \in Int
<1> TAKE i \in DOMAIN pending
<1>1. /\ i \in Nat /\ pending[i].question \in Questions /\ pending[i].target.cost \in Int
      /\ Proceeds(pending[i], slip[i]) \in Int
  BY ScanTypes DEF Positions
<1>2. Held(pending[i].question, i, slip) \in Positions
  BY <1>1, HeldIs
<1>3. Weight(i, slip) \in Int
  BY <1>1, <1>2 DEF Weight, Positions
<1> QED
  BY <1>3 DEF Weights

(* The cost of what all the questions hold, before order n's turn.         *)
LEMMA HeldTelescopes ==
  ASSUME TypeOK, NEW slip \in [DOMAIN pending -> Slips]
  PROVE  \A n \in Nat : SumFunctionOnSet(HeldCosts(n, slip), Questions)
                          = CostIn(open) + SumFunctionOnSet(Weights(slip), IdsBelow(n))
<1> DEFINE Total(n) == SumFunctionOnSet(HeldCosts(n, slip), Questions)
           Added(n) == SumFunctionOnSet(Weights(slip), IdsBelow(n))
           G == { n \in Nat : Total(n) = CostIn(open) + Added(n) }
           ids == DOMAIN pending
<1>n. ids \in SUBSET Nat /\ IsFiniteSet(ids)
  BY ScanTypes
<1>w. \A i \in ids : Weights(slip)[i] = Weight(i, slip) /\ Weight(i, slip) \in Int
  BY WeightTypes
<1>h. \A n \in Nat, q \in Questions :
        HeldCosts(n, slip)[q] = Held(q, n, slip).cost /\ HeldCosts(n, slip)[q] \in Int
  <2> TAKE n \in Nat, q \in Questions
  <2>1. Held(q, n, slip) \in Positions
    BY HeldIs
  <2> QED
    BY <2>1 DEF HeldCosts, Positions
<1>b. \A n \in Nat : IsFiniteSet(IdsBelow(n)) /\ IdsBelow(n) \in SUBSET ids
  BY <1>n, FS_Subset DEF IdsBelow
<1>t. \A n \in Nat : Total(n) \in Int /\ Added(n) \in Int
  <2> TAKE n \in Nat
  <2>1. \A q \in Questions : HeldCosts(n, slip)[q] \in Int
    BY <1>h
  <2>2. \A i \in IdsBelow(n) : Weights(slip)[i] \in Int
    BY <1>b, <1>w
  <2>3. Total(n) \in Int
    BY ONLY <2>1, FinitelyMany, SumIsInt
  <2>4. Added(n) \in Int
    BY ONLY <2>2, <1>b, SumIsInt
  <2> QED
    BY <2>3, <2>4
<1>c. CostIn(open) \in Int
  BY MoneyTypes
<1>1. 0 \in G
  <2>1. IdsBelow(0) = {}
    BY <1>n DEF IdsBelow
  <2>2. Added(0) = 0
    BY <2>1, SumOfNone
  <2>3. ASSUME NEW q \in Questions PROVE HeldCosts(0, slip)[q] = open[q].cost
    <3>1. Before(q, 0) = {}
      BY <1>n DEF Before
    <3>2. Lapsing({}) = {} /\ AddedOf({}) = {}
      BY LapsingIs DEF AddedOf, Buys
    <3>3. Held(q, 0, slip).cost
            = BaseOf(q, {}).cost + SumFunctionOnSet(ProceedsOf(slip), AddedOf({}))
      BY <3>1, HeldIs
    <3>4. SumFunctionOnSet(ProceedsOf(slip), AddedOf({})) = 0
      BY <3>2, SumOfNone
    <3>5. BaseOf(q, {}) = open[q] /\ open[q].cost \in Int
      BY <3>2, MoneyTypes DEF BaseOf, Positions
    <3> QED
      BY <1>h, <3>3, <3>4, <3>5
  <2>4. Total(0) = CostIn(open)
    <3> DEFINE f == [x \in Questions |-> open[x].cost]
    <3>1. CostIn(open) = SumFunctionOnSet(f, Questions)
      BY DEF CostIn, SumFunction, TypeOK
    <3>2. \A q \in Questions : HeldCosts(0, slip)[q] \in Int /\ HeldCosts(0, slip)[q] = f[q]
      BY <1>h, <2>3
    <3> HIDE DEF f
    <3> QED
      BY ONLY <3>1, <3>2, FinitelyMany, SumEquals
  <2> QED
    BY <2>2, <2>4, <1>c
<1>2. ASSUME NEW n \in G PROVE n + 1 \in G
  <2>n. n \in Nat /\ n + 1 \in Nat /\ Total(n) = CostIn(open) + Added(n)
    OBVIOUS
  <2> HIDE DEF Total, Added, G
  <2>1. CASE n \notin ids
    <3>1. IdsBelow(n + 1) = IdsBelow(n)
      BY <2>1, <2>n, <1>n DEF IdsBelow
    <3>2. \A q \in Questions : HeldCosts(n, slip)[q] \in Int
                               /\ HeldCosts(n, slip)[q] = HeldCosts(n + 1, slip)[q]
      BY <1>h, <2>1, <2>n, HeldStep
    <3>3. Total(n) = Total(n + 1)
      BY ONLY <3>2, FinitelyMany, SumEquals DEF Total
    <3>4. Added(n + 1) = Added(n)
      BY <3>1 DEF Added
    <3> QED
      BY <2>n, <3>3, <3>4 DEF G
  <2>2. CASE n \in ids
    <3>1. IdsBelow(n + 1) = IdsBelow(n) \cup {n} /\ n \notin IdsBelow(n)
      BY <2>2, <2>n, <1>n DEF IdsBelow
    <3>2. Added(n + 1) = Added(n) + Weight(n, slip)
      <4>1. (\A i \in IdsBelow(n) : Weights(slip)[i] \in Int) /\ Weights(slip)[n] \in Int
        BY <1>b, <1>w, <2>2, <2>n
      <4>2. IsFiniteSet(IdsBelow(n)) /\ n \notin IdsBelow(n)
        BY <1>b, <3>1, <2>n
      <4>3. SumFunctionOnSet(Weights(slip), IdsBelow(n) \cup {n})
              = SumFunctionOnSet(Weights(slip), IdsBelow(n)) + Weights(slip)[n]
        BY ONLY <4>1, <4>2, SumWithNew
      <4> QED
        BY <4>3, <3>1, <1>w, <2>2 DEF Added
    <3> DEFINE f == HeldCosts(n, slip)
               g == HeldCosts(n + 1, slip)
    <3>3. PICK q \in Questions : q = pending[n].question
      BY <2>2, ScanTypes
    <3>4. \A x \in Questions : f[x] \in Int /\ g[x] \in Int
      BY <1>h, <2>n
    <3>5. \A x \in Questions \ {q} : g[x] = f[x]
      BY <1>h, <2>n, <3>3, HeldStep
    <3>6. g[q] = f[q] + Weight(n, slip)
      BY <1>h, <2>2, <2>n, <3>3, HeldStep
    <3>7. Total(n) = SumFunctionOnSet(f, Questions) /\ Total(n + 1) = SumFunctionOnSet(g, Questions)
      BY DEF Total
    <3> HIDE DEF f, g
    <3>8. SumFunctionOnSet(g, Questions) = SumFunctionOnSet(f, Questions) - f[q] + g[q]
      BY ONLY <3>4, <3>5, FinitelyMany, q \in Questions, SumWithChange
    <3>9. Total(n + 1) = Total(n) + Weight(n, slip)
      BY <3>4, <3>6, <3>7, <3>8, <1>t, <1>w, <2>2, <2>n
    <3>10. Total(n + 1) = CostIn(open) + Added(n + 1)
      BY <3>2, <3>9, <2>n, <1>t, <1>w, <1>c, <2>2
    <3> QED
      BY <2>n, <3>10 DEF G
  <2> QED
    BY <2>1, <2>2
<1>3. G = Nat
  <2> HIDE DEF G
  <2>1. G \in SUBSET Nat
    BY DEF G
  <2> QED
    BY <1>1, <1>2, <2>1, InductionOnNat
<1> QED
  BY <1>3

--------------------------------------------------------------------------------
(* One order in a scan: money *)

Scanned(o) ==
  /\ o \in Orders
  /\ o.side = "Sell" => WholeSale(o)
  /\ o.side = "Buy" => FittingPurchase(o)

(* A purchase pays what it gets; its lock shrinks to what it still needs.  *)
LEMMA MoneyOfPurchase ==
  ASSUME NEW o, Scanned(o), NEW slip \in Slips, params \in Params, o.side = "Buy"
  PROVE  /\ CashIn(o, slip) - Unlocked(o) = - Proceeds(o, slip)
         /\ Profit(o, slip) = 0
         /\ o.target.cost = 0
         /\ Unlocked(o) \in Int /\ CashIn(o, slip) \in Int
         /\ StatusAfter(o) \in Live => Unlocked(o) + Reserve(After(o, slip)) = Reserve(o)
         /\ StatusAfter(o) \notin Live => Unlocked(o) = Reserve(o)
<1> DEFINE b == Batch(o)
<1>1. /\ o \in Orders /\ o.quantity \in Nat /\ o.price \in Nat /\ o.filled \in Nat
      /\ b \in Nat /\ slip \in Nat /\ Released(o) \in Int /\ Proceeds(o, slip) \in Int
      /\ Unlocked(o) \in Int /\ CashIn(o, slip) \in Int
  BY OrderTypes, BatchTypes, EngineParameters DEF Scanned
<1>2. o.filled + b <= o.quantity
  BY ScanOfPurchase DEF Scanned
<1>3. Proceeds(o, slip) = o.price * b + b * slip
  <2>1. Proceeds(o, slip) = b * (o.price + slip)
    BY DEF Proceeds, FillPrice
  <2> HIDE DEF b
  <2> QED
    BY <1>1, <2>1
<1>4. Unlocked(o) = o.price * b + Released(o)
  BY DEF Unlocked
<1>5. CashIn(o, slip) = Released(o) - b * slip
  BY DEF CashIn, Slippage
<1>6. CashIn(o, slip) - Unlocked(o) = - Proceeds(o, slip)
  <2>1. b * slip \in Int /\ o.price * b \in Int
    BY <1>1
  <2> HIDE DEF b
  <2> QED
    BY <2>1, <1>1, <1>3, <1>4, <1>5
<1>7. Profit(o, slip) = 0 /\ o.target.cost = 0
  BY DEF Profit, Scanned, FittingPurchase, NoPosition
<1>8. Reserve(o) = o.price * (o.quantity - o.filled)
  BY DEF Reserve
<1>9. Reserve(After(o, slip)) = o.price * (o.quantity - o.filled - b)
  <2>1. /\ After(o, slip).side = "Buy" /\ After(o, slip).price = o.price
        /\ After(o, slip).quantity = o.quantity /\ After(o, slip).filled = o.filled + b
    BY <1>1, AfterIsAnOrder
  <2>2. Reserve(After(o, slip)) = o.price * (o.quantity - (o.filled + b))
    BY <2>1 DEF Reserve
  <2>3. o.quantity - (o.filled + b) = o.quantity - o.filled - b
    BY <1>1
  <2> QED
    BY <2>2, <2>3
<1>10. o.price * (o.quantity - o.filled)
         = o.price * b + o.price * (o.quantity - o.filled - b)
  <2> HIDE DEF b
  <2> QED
    BY <1>1
<1>11. StatusAfter(o) \in Live => Unlocked(o) + Reserve(After(o, slip)) = Reserve(o)
  <2>1. StatusAfter(o) \in Live => Released(o) = 0
    BY DEF Released, Live
  <2>2. o.price * b \in Int /\ o.price * (o.quantity - o.filled - b) \in Int
    BY <1>1
  <2> HIDE DEF b
  <2> QED
    BY <2>1, <2>2, <1>4, <1>8, <1>9, <1>10
<1>12. StatusAfter(o) \notin Live => Unlocked(o) = Reserve(o)
  <2>1. CASE StatusAfter(o) = "Filled"
    <3>1. o.quantity - o.filled - b = 0
      BY <2>1, <1>1, <1>2, Outcomes
    <3>2. Released(o) = 0
      BY <2>1 DEF Released
    <3>3. o.quantity - o.filled = b
      BY <3>1, <1>1
    <3>4. Unlocked(o) = o.price * b
      <4>1. o.price * b \in Int
        BY <1>1
      <4> QED
        BY <4>1, <3>2, <1>4
    <3> QED
      BY <3>3, <3>4, <1>8
  <2>2. CASE StatusAfter(o) \in {"Expired", "Cancelled"}
    BY <2>2, <1>4, <1>8, <1>10 DEF Released, Unfilled
  <2> QED
    BY <2>1, <2>2, <1>1, Outcomes DEF Live
<1> QED
  BY <1>1, <1>6, <1>7, <1>11, <1>12

(* A sale locks nothing; filled, it earns what it sells, less what was     *)
(* paid for the position.                                                  *)
LEMMA MoneyOfSale ==
  ASSUME NEW o, Scanned(o), NEW slip \in Slips, params \in Params, o.side = "Sell"
  PROVE  /\ Unlocked(o) = 0 /\ Reserve(o) = 0 /\ Reserve(After(o, slip)) = 0
         /\ CashIn(o, slip) \in Int
         /\ StatusAfter(o) \in {"Filled", "Pending", "Expired"}
         /\ StatusAfter(o) = "Filled" => Profit(o, slip) = CashIn(o, slip) - o.target.cost
         /\ StatusAfter(o) # "Filled" => Profit(o, slip) = 0 /\ CashIn(o, slip) = 0
<1>1. /\ o \in Orders /\ WholeSale(o) /\ o.paid = 0
      /\ Batch(o) \in Nat /\ Proceeds(o, slip) \in Int /\ FillPrice(o, slip) \in Int
  BY BatchTypes DEF Scanned, WholeSale
<1>2. Unlocked(o) = 0 /\ Reserve(o) = 0 /\ CashIn(o, slip) = Proceeds(o, slip)
  BY DEF Unlocked, Reserve, CashIn
<1>3. After(o, slip).side = "Sell" /\ After(o, slip).paid = o.paid + Proceeds(o, slip)
  BY <1>1, AfterIsAnOrder
<1>4. \/ StatusAfter(o) = "Filled"
      \/ StatusAfter(o) \in {"Pending", "Expired"} /\ Batch(o) = 0
  BY <1>1, ScanOfSale
<1>5. StatusAfter(o) = "Filled" => Profit(o, slip) = CashIn(o, slip) - o.target.cost
  BY <1>1, <1>2, <1>3 DEF Profit
<1>6. StatusAfter(o) # "Filled" => Profit(o, slip) = 0 /\ Proceeds(o, slip) = 0
  BY <1>1, <1>4 DEF Profit, Proceeds
<1>7. Reserve(After(o, slip)) = 0
  BY <1>3 DEF Reserve
<1> QED
  BY <1>1, <1>2, <1>4, <1>5, <1>6, <1>7

--------------------------------------------------------------------------------
(* A scan *)

LEMMA AllScanned ==
  ASSUME IInv
  PROVE  \A i \in DOMAIN pending : Scanned(pending[i])
  BY DEF IInv, Scanned, TypeOK, SalesAreWhole, PurchasesFit

LEMMA StayingIs ==
  ASSUME NEW slip, Scan(slip)
  PROVE  /\ Staying \in SUBSET DOMAIN pending /\ DOMAIN pending' = Staying
         /\ \A i \in Staying : /\ pending'[i] = After(pending[i], slip[i])
                               /\ StatusAfter(pending[i]) \in Live
         /\ \A i \in DOMAIN pending \ Staying : StatusAfter(pending[i]) \notin Live
  BY DEF Staying, Scan

(* The money still locked is what the orders that stay still need.         *)
LEMMA ReservedInScan ==
  ASSUME IInv, NEW slip \in [DOMAIN pending -> Slips], Scan(slip)
  PROVE  ReservedIsPending' /\ pendingCash' \in Int
<1> DEFINE ids == DOMAIN pending
           u == [i \in ids |-> Unlocked(pending[i])]
           r == [i \in ids |-> Reserve(pending[i])]
           s == [i \in ids |-> IF i \in Staying THEN Reserve(After(pending[i], slip[i])) ELSE 0]
           n == [i \in Staying |-> Reserve(pending'[i])]
<1>t. TypeOK /\ params \in Params /\ ReservedIsPending
  BY DEF IInv, TypeOK
<1>f. IsFiniteSet(ids) /\ \A i \in ids : slip[i] \in Slips /\ pending[i] \in Orders
  BY <1>t, ScanTypes
<1>1. Staying \in SUBSET ids /\ DOMAIN pending' = Staying
  BY StayingIs
<1>2. ASSUME NEW i \in ids
      PROVE  /\ u[i] \in Int /\ s[i] \in Int /\ r[i] = u[i] + s[i]
             /\ i \in Staying => n[i] \in Int /\ s[i] = n[i]
             /\ i \notin Staying => s[i] = 0
  <2> DEFINE o == pending[i]
  <2>1. Scanned(o) /\ slip[i] \in Slips /\ o \in Orders
    BY AllScanned, <1>f
  <2>2. /\ i \in Staying => n[i] = Reserve(After(o, slip[i])) /\ StatusAfter(o) \in Live
        /\ i \notin Staying => StatusAfter(o) \notin Live
    BY StayingIs
  <2>3. u[i] = Unlocked(o) /\ r[i] = Reserve(o)
        /\ s[i] = IF i \in Staying THEN Reserve(After(o, slip[i])) ELSE 0
    OBVIOUS
  <2>4. \A x \in Orders : Reserve(x) \in Int
    BY DEF Orders, Reserve
  <2>5. StatusAfter(o) \in Live => After(o, slip[i]) \in Orders
    BY <2>1, AfterIsAnOrder
  <2>6. o.side \in {"Buy", "Sell"}
    BY <2>1, OrderTypes
  <2>7. CASE o.side = "Buy"
    <3>1. /\ Unlocked(o) \in Int
          /\ StatusAfter(o) \in Live => Unlocked(o) + Reserve(After(o, slip[i])) = Reserve(o)
          /\ StatusAfter(o) \notin Live => Unlocked(o) = Reserve(o)
      BY <2>1, <2>7, <1>t, MoneyOfPurchase
    <3> HIDE DEF o, u, r, s, n
    <3> QED
      BY <3>1, <2>1, <2>2, <2>3, <2>4, <2>5
  <2>8. CASE o.side = "Sell"
    <3>1. Unlocked(o) = 0 /\ Reserve(o) = 0 /\ Reserve(After(o, slip[i])) = 0
      BY <2>1, <2>8, <1>t, MoneyOfSale
    <3> HIDE DEF o, u, r, s, n
    <3> QED
      BY <3>1, <2>2, <2>3
  <2> QED
    BY <2>6, <2>7, <2>8
<1>3. pendingCash' = pendingCash - SumFunctionOnSet(u, ids)
  BY DEF Scan, SumFunction
<1>4. pendingCash = SumFunctionOnSet(r, ids)
  BY <1>t DEF ReservedIsPending, SumFunction
<1>5. SumFunction([i \in DOMAIN pending' |-> Reserve(pending'[i])]) = SumFunctionOnSet(n, Staying)
  BY <1>1 DEF SumFunction
<1> HIDE DEF u, r, s, n, ids
<1>6. SumFunctionOnSet(r, ids) = SumFunctionOnSet(u, ids) + SumFunctionOnSet(s, ids)
  <2>1. \A i \in ids : u[i] \in Int /\ s[i] \in Int /\ r[i] = u[i] + s[i]
    BY <1>2
  <2> QED
    BY ONLY <2>1, <1>f, SumOfSums
<1>7. SumFunctionOnSet(s, ids) = SumFunctionOnSet(n, Staying)
  <2>1. (\A i \in Staying : n[i] \in Int /\ s[i] = n[i]) /\ (\A i \in ids \ Staying : s[i] = 0)
    BY <1>1, <1>2
  <2> QED
    BY ONLY <2>1, <1>f, <1>1, SumOverPart
<1>8. SumFunctionOnSet(u, ids) \in Int /\ SumFunctionOnSet(s, ids) \in Int
  <2>1. (\A i \in ids : u[i] \in Int) /\ (\A i \in ids : s[i] \in Int)
    BY <1>2
  <2> QED
    BY ONLY <2>1, <1>f, SumIsInt
<1>9. pendingCash' = SumFunctionOnSet(s, ids) /\ pendingCash' \in Int
  BY <1>3, <1>4, <1>6, <1>8
<1> QED
  BY <1>5, <1>7, <1>9 DEF ReservedIsPending

HeldCost(i, slip) == Held(pending[i].question, i, slip).cost

(* What one order moves between cash, profit, positions and sales adds up. *)
LEMMA OrderConservesMoney ==
  ASSUME IInv, NEW slip \in [DOMAIN pending -> Slips], Scan(slip), NEW i \in DOMAIN pending,
         NEW o, o = pending[i]
  PROVE  /\ CashIn(o, slip[i]) \in Int /\ Unlocked(o) \in Int /\ Profit(o, slip[i]) \in Int
         /\ o.target.cost \in Int /\ HeldCost(i, slip) \in Int /\ Weight(i, slip) \in Int
         /\ CashIn(o, slip[i]) + Weight(i, slip)
              + (IF i \in Staying THEN o.target.cost ELSE 0)
              + (IF i \in Lapsing(DOMAIN pending) THEN HeldCost(i, slip) ELSE 0)
            = Unlocked(o) + Profit(o, slip[i]) + o.target.cost
<1>t. TypeOK /\ params \in Params
  BY DEF IInv, TypeOK
<1>1. /\ Scanned(o) /\ slip[i] \in Slips /\ o \in Orders /\ o.side \in {"Buy", "Sell"}
      /\ o.target.cost \in Int /\ i \in Nat /\ o.question \in Questions
  BY <1>t, AllScanned, ScanTypes DEF Positions
<1>2. HeldCost(i, slip) \in Int
  <2>1. Held(o.question, i, slip) \in Positions
    BY <1>1, <1>t, HeldIs
  <2> QED
    BY <2>1 DEF HeldCost, Positions
<1>3. Weight(i, slip) \in Int
  BY <1>t, WeightTypes
<1>s. i \in Staying <=> StatusAfter(o) \in Live
  BY StayingIs
<1>l. i \in Lapsing(DOMAIN pending)
        <=> o.side = "Sell" /\ StatusAfter(o) \in {"Expired", "Cancelled"}
  BY LapsingIs
<1>p. Proceeds(o, slip[i]) \in Int
  BY <1>1, BatchTypes
<1>4. CASE o.side = "Buy"
  <2>1. /\ CashIn(o, slip[i]) - Unlocked(o) = - Proceeds(o, slip[i])
        /\ Profit(o, slip[i]) = 0 /\ o.target.cost = 0
        /\ Unlocked(o) \in Int /\ CashIn(o, slip[i]) \in Int
    BY <1>1, <1>4, <1>t, MoneyOfPurchase
  <2>2. Weight(i, slip) = Proceeds(o, slip[i])
    BY <1>4 DEF Weight
  <2>3. i \notin Lapsing(DOMAIN pending)
    BY <1>4, <1>l
  <2> QED
    BY <1>1, <1>2, <1>3, <1>p, <2>1, <2>2, <2>3
<1>5. CASE o.side = "Sell"
  <2>1. /\ Unlocked(o) = 0 /\ CashIn(o, slip[i]) \in Int
        /\ StatusAfter(o) \in {"Filled", "Pending", "Expired"}
        /\ StatusAfter(o) = "Filled" => Profit(o, slip[i]) = CashIn(o, slip[i]) - o.target.cost
        /\ StatusAfter(o) # "Filled" => Profit(o, slip[i]) = 0 /\ CashIn(o, slip[i]) = 0
    BY <1>1, <1>5, <1>t, MoneyOfSale
  <2>2. Weight(i, slip) = IF i \in Lapsing(DOMAIN pending)
                          THEN o.target.cost - HeldCost(i, slip) ELSE 0
    BY <1>5 DEF Weight, HeldCost
  <2>3. CASE StatusAfter(o) = "Filled"
    <3>1. i \notin Staying /\ i \notin Lapsing(DOMAIN pending)
      BY <2>3, <1>s, <1>l DEF Live
    <3> QED
      BY <3>1, <2>1, <2>2, <2>3, <1>1, <1>2, <1>3
  <2>4. CASE StatusAfter(o) = "Pending"
    <3>1. i \in Staying /\ i \notin Lapsing(DOMAIN pending)
      BY <2>4, <1>s, <1>l DEF Live
    <3> QED
      BY <3>1, <2>1, <2>2, <2>4, <1>1, <1>2, <1>3
  <2>5. CASE StatusAfter(o) = "Expired"
    <3>1. i \notin Staying /\ i \in Lapsing(DOMAIN pending)
      BY <2>5, <1>5, <1>s, <1>l DEF Live
    <3> QED
      BY <3>1, <2>1, <2>2, <2>5, <1>1, <1>2, <1>3
  <2> QED
    BY <2>1, <2>3, <2>4, <2>5
<1> QED
  BY <1>1, <1>4, <1>5

(* The positions after a scan cost what they did, and what the orders add. *)
LEMMA OpenInScan ==
  ASSUME TypeOK, NEW slip \in [DOMAIN pending -> Slips], Scan(slip)
  PROVE  CostIn(open') = CostIn(open) + SumFunctionOnSet(Weights(slip), DOMAIN pending)
<1>c. counter \in Nat /\ counter + 1 \in Nat
  BY ScanTypes
<1>1. IdsBelow(counter + 1) = DOMAIN pending
  <2>1. \A i \in DOMAIN pending : i < counter + 1
    <3>1. DOMAIN pending \subseteq 1 .. counter
      BY DEF TypeOK
    <3> QED
      BY <3>1, <1>c
  <2> QED
    BY <2>1 DEF IdsBelow
<1>2. SumFunctionOnSet(HeldCosts(counter + 1, slip), Questions)
        = CostIn(open) + SumFunctionOnSet(Weights(slip), DOMAIN pending)
  BY <1>c, <1>1, HeldTelescopes
<1>3. CostIn(open') = SumFunctionOnSet(HeldCosts(counter + 1, slip), Questions)
  <2>1. open' = [q \in Questions |-> Held(q, counter + 1, slip)]
    BY DEF Scan
  <2>2. [x \in DOMAIN open' |-> open'[x].cost] = HeldCosts(counter + 1, slip)
    BY <2>1 DEF HeldCosts
  <2>3. DOMAIN [x \in DOMAIN open' |-> open'[x].cost] = Questions
    BY <2>1
  <2> QED
    BY <2>2, <2>3 DEF CostIn, SumFunction
<1> QED
  BY <1>2, <1>3

(* The overwritten positions cost what they did, and what was held when    *)
(* the sales that lapse were put back.                                     *)
LEMMA OverwrittenInScan ==
  ASSUME IInv, NEW slip \in [DOMAIN pending -> Slips], Scan(slip),
         NEW L, L = Lapsing(DOMAIN pending), NEW h, h = [i \in L |-> HeldCost(i, slip)]
  PROVE  /\ CostIn(overwritten') = CostIn(overwritten) + SumFunctionOnSet(h, L)
         /\ IsFiniteSet(L) /\ L \in SUBSET DOMAIN pending
         /\ \A i \in L : Held(pending[i].question, i, slip) \in Positions /\ h[i] \in Int
<1>t. TypeOK /\ LapsedAreGone
  BY DEF IInv
<1>1. L \in SUBSET DOMAIN pending /\ IsFiniteSet(L)
  <2>1. L \in SUBSET DOMAIN pending
    BY LapsingIs
  <2> QED
    BY <2>1, <1>t, ScanTypes, FS_Subset
<1>2. \A i \in L : Held(pending[i].question, i, slip) \in Positions /\ h[i] \in Int
  <2> TAKE i \in L
  <2>1. i \in DOMAIN pending /\ i \in Nat /\ pending[i].question \in Questions
    BY <1>1, <1>t, ScanTypes
  <2>2. Held(pending[i].question, i, slip) \in Positions
    BY <1>t, <2>1, HeldIs
  <2> QED
    BY <2>2 DEF HeldCost, Positions
<1> DEFINE D == DOMAIN overwritten
           f == [i \in D |-> overwritten[i].cost]
           g == [i \in D \cup L |-> overwritten'[i].cost]
<1>3. overwritten' = [i \in D \cup L |-> IF i \in L THEN Held(pending[i].question, i, slip)
                                         ELSE overwritten[i]]
  BY DEF Scan
<1>4. IsFiniteSet(D)
  BY <1>t, IdsAreFinite, EngineParameters DEF TypeOK
<1>5. D \cap L = {}
  BY <1>1, <1>t DEF LapsedAreGone
<1>6. /\ \A i \in D : f[i] \in Int /\ f[i] = g[i]
      /\ \A i \in L : h[i] \in Int /\ h[i] = g[i]
  <2>1. \A i \in D : f[i] \in Int /\ f[i] = g[i]
    BY <1>3, <1>5, <1>t DEF TypeOK, Positions
  <2>2. \A i \in L : h[i] = g[i]
    BY <1>3 DEF HeldCost
  <2> QED
    BY <2>1, <2>2, <1>2
<1>7. CostIn(overwritten) = SumFunctionOnSet(f, D)
  BY DEF CostIn, SumFunction
<1>8. CostIn(overwritten') = SumFunctionOnSet(g, D \cup L)
  BY <1>3 DEF CostIn, SumFunction
<1> HIDE DEF D, f, g
<1>9. SumFunctionOnSet(g, D \cup L) = SumFunctionOnSet(g, D) + SumFunctionOnSet(g, L)
  <2>1. PICK S : S = D \cup L
    OBVIOUS
  <2>2. IsFiniteSet(S) /\ D \in SUBSET S /\ S \ D = L
    BY <2>1, <1>1, <1>4, <1>5, FS_Union
  <2>3. \A i \in S : g[i] \in Int
    BY <2>1, <1>6
  <2>4. SumFunctionOnSet(g, S) = SumFunctionOnSet(g, D) + SumFunctionOnSet(g, S \ D)
    BY ONLY <2>2, <2>3, SumOfUnion
  <2> QED
    BY <2>1, <2>2, <2>4
<1>10. /\ SumFunctionOnSet(f, D) = SumFunctionOnSet(g, D)
       /\ SumFunctionOnSet(h, L) = SumFunctionOnSet(g, L)
  <2>1. SumFunctionOnSet(f, D) = SumFunctionOnSet(g, D)
    BY ONLY <1>4, <1>6, SumEquals
  <2>2. SumFunctionOnSet(h, L) = SumFunctionOnSet(g, L)
    BY ONLY <1>1, <1>6, SumEquals
  <2> QED
    BY <2>1, <2>2
<1> QED
  BY <1>1, <1>2, <1>7, <1>8, <1>9, <1>10

LEMMA MoneyInScan ==
  ASSUME IInv, NEW slip \in [DOMAIN pending -> Slips], Scan(slip)
  PROVE  MoneyIsConserved' /\ available' \in Int /\ realized' \in Int
<1> DEFINE ids == DOMAIN pending
           L == Lapsing(ids)
           a == [i \in ids |-> CashIn(pending[i], slip[i])]
           w == Weights(slip)
           t == [i \in ids |-> IF i \in Staying THEN pending[i].target.cost ELSE 0]
           v == [i \in ids |-> IF i \in L THEN HeldCost(i, slip) ELSE 0]
           u == [i \in ids |-> Unlocked(pending[i])]
           p == [i \in ids |-> Profit(pending[i], slip[i])]
           c == [i \in ids |-> pending[i].target.cost]
           s == [i \in Staying |-> pending'[i].target.cost]
           h == [i \in L |-> HeldCost(i, slip)]
           Sum(f, S) == SumFunctionOnSet(f, S)
<1>t. TypeOK /\ MoneyIsConserved /\ IsFiniteSet(ids)
  BY ScanTypes DEF IInv
<1>s. Staying \in SUBSET ids /\ DOMAIN pending' = Staying
  BY StayingIs
<1>1. ASSUME NEW i \in ids
      PROVE  /\ a[i] \in Int /\ w[i] \in Int /\ t[i] \in Int /\ v[i] \in Int
             /\ u[i] \in Int /\ p[i] \in Int /\ c[i] \in Int
             /\ a[i] + w[i] + t[i] + v[i] = u[i] + p[i] + c[i]
  <2> DEFINE o == pending[i]
  <2>1. /\ CashIn(o, slip[i]) \in Int /\ Unlocked(o) \in Int /\ Profit(o, slip[i]) \in Int
        /\ o.target.cost \in Int /\ HeldCost(i, slip) \in Int /\ Weight(i, slip) \in Int
        /\ CashIn(o, slip[i]) + Weight(i, slip)
              + (IF i \in Staying THEN o.target.cost ELSE 0)
              + (IF i \in L THEN HeldCost(i, slip) ELSE 0)
            = Unlocked(o) + Profit(o, slip[i]) + o.target.cost
    BY OrderConservesMoney
  <2>2. /\ a[i] = CashIn(o, slip[i]) /\ u[i] = Unlocked(o) /\ p[i] = Profit(o, slip[i])
        /\ c[i] = o.target.cost /\ w[i] = Weight(i, slip)
        /\ t[i] = (IF i \in Staying THEN o.target.cost ELSE 0)
        /\ v[i] = (IF i \in L THEN HeldCost(i, slip) ELSE 0)
    BY DEF Weights
  <2> HIDE DEF a, w, t, v, u, p, c, o, L, ids
  <2> QED
    BY ONLY <2>1, <2>2
<1>2. /\ \A i \in Staying : s[i] \in Int /\ t[i] = s[i]
      /\ \A i \in ids \ Staying : t[i] = 0
  <2>1. ASSUME NEW i \in Staying PROVE s[i] \in Int /\ t[i] = s[i]
    <3>1. i \in ids /\ pending'[i] = After(pending[i], slip[i])
      BY StayingIs
    <3>2. pending[i] \in Orders /\ slip[i] \in Slips /\ pending[i].target.cost \in Int
      BY <1>t, <3>1, ScanTypes DEF Positions
    <3>3. pending'[i].target = pending[i].target
      BY <3>1, <3>2, AfterIsAnOrder
    <3> QED
      BY <3>1, <3>2, <3>3
  <2> QED
    BY <2>1
<1>3. /\ CostIn(overwritten') = CostIn(overwritten) + Sum(h, L)
      /\ L \in SUBSET ids
      /\ \A i \in L : h[i] \in Int
  <2>1. PICK M, k : M = L /\ k = h
    OBVIOUS
  <2>2. /\ CostIn(overwritten') = CostIn(overwritten) + SumFunctionOnSet(k, M)
        /\ M \in SUBSET DOMAIN pending
        /\ \A i \in M : k[i] \in Int
    BY <2>1, OverwrittenInScan
  <2> QED
    BY <2>1, <2>2
<1>4. /\ \A i \in L : h[i] \in Int /\ v[i] = h[i]
      /\ \A i \in ids \ L : v[i] = 0
  BY <1>3
<1>5. CostIn(open') = CostIn(open) + Sum(w, ids)
  BY <1>t, OpenInScan
<1>6. CostIn(OnSale) = Sum(c, ids)
  BY DEF CostIn, OnSale, SumFunction
<1>7. CostIn(OnSale') = Sum(s, Staying)
  BY <1>s DEF CostIn, OnSale, SumFunction
<1>8. /\ available' = available + Sum(a, ids)
      /\ pendingCash' = pendingCash - Sum(u, ids)
      /\ realized' = realized + Sum(p, ids)
  BY DEF Scan, SumFunction
<1>m. /\ available \in Int /\ pendingCash \in Int /\ realized \in Int
      /\ Capital \in Int /\ CostIn(open) \in Int /\ CostIn(overwritten) \in Int
  BY <1>t, MoneyTypes
<1> HIDE DEF a, w, t, v, u, p, c, s, h, L, ids
<1>9. Sum(t, ids) = Sum(s, Staying)
  BY ONLY <1>2, <1>s, <1>t, SumOverPart
<1>10. Sum(v, ids) = Sum(h, L)
  BY ONLY <1>4, <1>3, <1>t, SumOverPart
<1>11. Sum(a, ids) + Sum(w, ids) + Sum(t, ids) + Sum(v, ids)
         = Sum(u, ids) + Sum(p, ids) + Sum(c, ids)
  <2>1. /\ \A i \in ids : a[i] \in Int /\ w[i] \in Int /\ t[i] \in Int /\ v[i] \in Int
        /\ \A i \in ids : u[i] \in Int /\ p[i] \in Int /\ c[i] \in Int
        /\ \A i \in ids : a[i] + w[i] + t[i] + v[i] = u[i] + p[i] + c[i]
    BY <1>1
  <2> QED
    BY ONLY <2>1, <1>t, SumsBalance
<1>12. /\ Sum(a, ids) \in Int /\ Sum(w, ids) \in Int /\ Sum(t, ids) \in Int /\ Sum(v, ids) \in Int
       /\ Sum(u, ids) \in Int /\ Sum(p, ids) \in Int /\ Sum(c, ids) \in Int
  <2>1. \A f : (\A i \in ids : f[i] \in Int) => Sum(f, ids) \in Int
    BY <1>t, SumIsInt
  <2> HIDE DEF Sum
  <2> QED
    BY <1>1, <2>1
<1> HIDE DEF Sum
<1>13. available + pendingCash + CostIn(open) + Sum(c, ids) + CostIn(overwritten)
         = Capital + realized
  BY <1>t, <1>6 DEF MoneyIsConserved
<1>14. available' + pendingCash' + CostIn(open') + CostIn(OnSale') + CostIn(overwritten')
         = Capital + realized'
  BY ONLY <1>3, <1>5, <1>7, <1>8, <1>9, <1>10, <1>11, <1>12, <1>13, <1>m
<1>15. MoneyIsConserved'
  BY <1>14 DEF MoneyIsConserved
<1> QED
  BY <1>8, <1>12, <1>m, <1>15

LEMMA CountedCounts ==
  ASSUME TypeOK
  PROVE  /\ Counted(stats) \in StatsType
         /\ Counted(stats).total = stats.total /\ Counted(stats).rejected = stats.rejected
         /\ Counted(stats).filled = stats.filled + Cardinality(Ending(DOMAIN pending, "Filled"))
         /\ Counted(stats).cancelled
              = stats.cancelled + Cardinality(Ending(DOMAIN pending, "Cancelled"))
         /\ Counted(stats).expired
              = stats.expired + Cardinality(Ending(DOMAIN pending, "Expired"))
<1> DEFINE S == {"total", "filled", "cancelled", "expired", "rejected"}
           n(s) == Cardinality(Ending(DOMAIN pending, s))
           r == [x \in S |-> IF x = "filled" THEN stats[x] + n("Filled")
                             ELSE IF x = "cancelled" THEN stats[x] + n("Cancelled")
                             ELSE IF x = "expired" THEN stats[x] + n("Expired")
                             ELSE stats[x]]
<1>1. stats \in [S -> Nat]
  BY DEF TypeOK
<1>2. n("Filled") \in Nat /\ n("Cancelled") \in Nat /\ n("Expired") \in Nat
  <2>1. IsFiniteSet(DOMAIN pending)
    BY IdsAreFinite, EngineParameters DEF TypeOK
  <2>2. \A s : Ending(DOMAIN pending, s) \in SUBSET DOMAIN pending
    BY DEF Ending
  <2> QED
    BY <2>1, <2>2, FS_Subset, FS_CardinalityType
<1> HIDE DEF n
<1>3. Counted(stats) = r
  <2>1. Counted(stats) = [stats EXCEPT !.filled = stats.filled + n("Filled"),
                                       !.cancelled = stats.cancelled + n("Cancelled"),
                                       !.expired = stats.expired + n("Expired")]
    BY DEF Counted, n
  <2>2. DOMAIN Counted(stats) = S
    BY <1>1, <2>1
  <2>3. \A x \in S : Counted(stats)[x] = r[x]
    BY <1>1, <2>1
  <2>4. Counted(stats) = [x \in DOMAIN Counted(stats) |-> Counted(stats)[x]]
    BY <2>1
  <2> QED
    BY <2>2, <2>3, <2>4
<1>4. r \in StatsType
  BY <1>1, <1>2 DEF StatsType
<1> QED
  BY <1>3, <1>4 DEF n

LEMMA SizeOfTwo ==
  ASSUME NEW S, NEW T, IsFiniteSet(S), IsFiniteSet(T), S \cap T = {}
  PROVE  /\ IsFiniteSet(S \cup T)
         /\ Cardinality(S \cup T) = Cardinality(S) + Cardinality(T)
<1>1. /\ IsFiniteSet(S \cup T)
      /\ Cardinality(S \cup T) = Cardinality(S) + Cardinality(T) - Cardinality(S \cap T)
  BY FS_Union
<1>2. Cardinality(S \cap T) = 0
  BY FS_EmptySet
<1>3. Cardinality(S) \in Nat /\ Cardinality(T) \in Nat
  BY FS_CardinalityType
<1> QED
  BY ONLY <1>1, <1>2, <1>3

(* Every order of a scan stays or ends in one of three ways.               *)
LEMMA CountsInScan ==
  ASSUME IInv, NEW slip \in [DOMAIN pending -> Slips], Scan(slip)
  PROVE  StatsAddUp' /\ stats' \in StatsType
<1> DEFINE ids == DOMAIN pending
           F == Ending(ids, "Filled")
           C == Ending(ids, "Cancelled")
           E == Ending(ids, "Expired")
<1>t. TypeOK /\ StatsAddUp /\ IsFiniteSet(ids)
  BY ScanTypes DEF IInv
<1>1. ids = F \cup C \cup E \cup Staying
  <2>1. \A i \in ids :
          StatusAfter(pending[i]) \in {"Filled", "Expired", "Cancelled", "Pending", "PartiallyFilled"}
    BY <1>t, ScanTypes, Outcomes
  <2> QED
    BY <2>1 DEF Ending, Staying, Live
<1>2. /\ F \cap C = {} /\ (F \cup C) \cap E = {} /\ (F \cup C \cup E) \cap Staying = {}
      /\ F \in SUBSET ids /\ C \in SUBSET ids /\ E \in SUBSET ids /\ Staying \in SUBSET ids
  BY DEF Ending, Staying, Live
<1> HIDE DEF F, C, E
<1>3. IsFiniteSet(F) /\ IsFiniteSet(C) /\ IsFiniteSet(E) /\ IsFiniteSet(Staying)
  BY <1>t, <1>2, FS_Subset
<1>4. /\ Cardinality(F) \in Nat /\ Cardinality(C) \in Nat /\ Cardinality(E) \in Nat
      /\ Cardinality(Staying) \in Nat
  BY <1>3, FS_CardinalityType
<1>5. IsFiniteSet(F \cup C) /\ Cardinality(F \cup C) = Cardinality(F) + Cardinality(C)
  BY ONLY <1>2, <1>3, SizeOfTwo
<1>6. /\ IsFiniteSet(F \cup C \cup E)
      /\ Cardinality(F \cup C \cup E) = Cardinality(F \cup C) + Cardinality(E)
  BY ONLY <1>2, <1>3, <1>5, SizeOfTwo
<1>n. Cardinality(ids) = Cardinality(F \cup C \cup E) + Cardinality(Staying)
  <2>1. PICK S : S = F \cup C \cup E
    OBVIOUS
  <2>2. Cardinality(S \cup Staying) = Cardinality(S) + Cardinality(Staying)
    BY ONLY <1>2, <1>3, <1>6, <2>1, SizeOfTwo
  <2> QED
    BY ONLY <1>1, <2>1, <2>2
<1>7. Cardinality(ids)
        = Cardinality(F) + Cardinality(C) + Cardinality(E) + Cardinality(Staying)
  BY ONLY <1>4, <1>5, <1>6, <1>n
<1>8. /\ stats' \in StatsType
      /\ stats'.total = stats.total /\ stats'.rejected = stats.rejected
      /\ stats'.filled = stats.filled + Cardinality(F)
      /\ stats'.cancelled = stats.cancelled + Cardinality(C)
      /\ stats'.expired = stats.expired + Cardinality(E)
  BY <1>t, CountedCounts DEF Scan, F, C, E
<1>9. DOMAIN pending' = Staying
  BY StayingIs
<1>s. /\ stats.total \in Nat /\ stats.filled \in Nat /\ stats.cancelled \in Nat
      /\ stats.expired \in Nat /\ stats.rejected \in Nat
  BY <1>t DEF TypeOK
<1>10. stats.total = Cardinality(ids)
                       + stats.filled + stats.cancelled + stats.expired + stats.rejected
  BY <1>t DEF StatsAddUp
<1>11. stats'.total = Cardinality(Staying)
                       + stats'.filled + stats'.cancelled + stats'.expired + stats'.rejected
  BY ONLY <1>4, <1>7, <1>8, <1>s, <1>10
<1> QED
  BY <1>8, <1>9, <1>11 DEF StatsAddUp

(* How orders end, and what the others keep.                               *)
LEMMA OrdersInScan ==
  ASSUME IInv, NEW slip \in [DOMAIN pending -> Slips], Scan(slip)
  PROVE  /\ SalesAreWhole' /\ PurchasesFit' /\ EndsInTime' /\ EndedAsReported'
         /\ pending' \in [DOMAIN pending' -> Orders]
         /\ terminal' \subseteq [id : 1 .. counter, status : Gone, quantity : Nat, filled : Nat]
<1>t. TypeOK /\ params \in Params /\ params' = params
  BY DEF IInv, TypeOK, Scan
<1>p. params.maxWait \in Nat
  BY <1>t, EngineParameters
<1>o. \A i \in DOMAIN pending :
        /\ Scanned(pending[i]) /\ pending[i] \in Orders /\ slip[i] \in Slips
        /\ pending[i].side \in {"Buy", "Sell"}
  BY <1>t, AllScanned, ScanTypes
<1>1. ASSUME NEW i \in DOMAIN pending'
      PROVE  /\ pending'[i] \in Orders
             /\ (pending[i].side = "Sell" => WholeSale(pending[i]))'
             /\ (pending[i].side = "Buy" => FittingPurchase(pending[i]))'
             /\ (pending[i].alive < params.maxWait)'
  <2> DEFINE o == pending[i]
             n == After(o, slip[i])
  <2>1. /\ i \in DOMAIN pending /\ pending'[i] = n /\ StatusAfter(o) \in Live
    BY StayingIs
  <2>2. /\ Scanned(o) /\ o \in Orders /\ slip[i] \in Slips /\ o.side \in {"Buy", "Sell"}
    BY <1>o, <2>1
  <2>3. n \in Orders /\ n.side = o.side /\ n.alive = o.alive + 1 /\ o.alive \in Nat
    BY <2>1, <2>2, AfterIsAnOrder, OrderTypes
  <2>4. ~ TimedOut(o)
    BY <2>1, <2>2, Outcomes
  <2>5. n.alive < params.maxWait
    BY <2>3, <2>4, <1>p DEF TimedOut
  <2>6. n.side = "Sell" => WholeSale(n)
    BY <2>1, <2>2, <2>3, <1>t, ScanOfSale DEF Scanned, Live
  <2>7. n.side = "Buy" => FittingPurchase(n)
    BY <2>2, <2>3, ScanOfPurchase DEF Scanned
  <2> HIDE DEF n
  <2> QED
    BY <2>1, <2>3, <2>5, <2>6, <2>7, <1>t DEF WholeSale
<1>2. SalesAreWhole' /\ PurchasesFit' /\ EndsInTime'
  BY <1>1 DEF SalesAreWhole, PurchasesFit, EndsInTime, WholeSale, FittingPurchase
<1>3. pending' \in [DOMAIN pending' -> Orders]
  <2>1. pending' = [i \in DOMAIN pending' |-> pending'[i]]
    BY StayingIs DEF Scan
  <2> QED
    BY <2>1, <1>1
<1>4. ASSUME NEW i \in DOMAIN pending \ Staying
      PROVE  /\ Ended(i) \in [id : 1 .. counter, status : Gone, quantity : Nat, filled : Nat]
             /\ Ended(i).status = "Filled" => Ended(i).filled = Ended(i).quantity
             /\ Ended(i).status = "Cancelled"
                  => 0 < Ended(i).filled /\ Ended(i).filled < Ended(i).quantity
             /\ Ended(i).status = "Expired" => Ended(i).filled = 0 /\ Ended(i).quantity > 0
             /\ Ended(i).status # "Rejected"
  <2> DEFINE o == pending[i]
             b == o.filled + Batch(o)
  <2>1. /\ Scanned(o) /\ o \in Orders /\ slip[i] \in Slips /\ o.side \in {"Buy", "Sell"}
        /\ i \in 1 .. counter
    BY <1>o, <1>t DEF TypeOK
  <2>2. b \in Nat /\ o.quantity \in Nat
    BY <2>1, OrderTypes, BatchTypes
  <2>3. StatusAfter(o) \notin Live
    BY StayingIs
  <2>4. b <= o.quantity
    <3>1. CASE o.side = "Buy"
      BY <2>1, <3>1, ScanOfPurchase DEF Scanned
    <3>2. CASE o.side = "Sell"
      <4>1. o.filled = 0 /\ Batch(o) \in {0, o.quantity}
        BY <2>1, <3>2, <1>t, ScanOfSale DEF Scanned, WholeSale
      <4> QED
        BY <4>1, <2>2
    <3> QED
      BY <2>1, <3>1, <3>2
  <2>5. /\ StatusAfter(o) \in {"Filled", "Expired", "Cancelled", "Pending", "PartiallyFilled"}
        /\ StatusAfter(o) = "Filled" <=> b >= o.quantity
        /\ StatusAfter(o) = "Expired" <=> b < o.quantity /\ TimedOut(o) /\ b = 0
        /\ StatusAfter(o) = "Cancelled" <=> b < o.quantity /\ TimedOut(o) /\ b # 0
    BY <2>1, Outcomes
  <2>6. Ended(i) = [id |-> i, status |-> StatusAfter(o), quantity |-> o.quantity, filled |-> b]
    BY DEF Ended
  <2> HIDE DEF b, o
  <2> QED
    BY <2>1, <2>2, <2>3, <2>4, <2>5, <2>6 DEF Gone, Live
<1>5. terminal' = terminal \cup { Ended(i) : i \in DOMAIN pending \ Staying }
  BY DEF Scan
<1>6. EndedAsReported'
  <2>1. ASSUME NEW o \in terminal'
        PROVE  /\ o.status = "Filled"    => o.filled = o.quantity
               /\ o.status = "Cancelled" => 0 < o.filled /\ o.filled < o.quantity
               /\ o.status = "Expired"   => o.filled = 0 /\ o.quantity > 0
               /\ o.status = "Rejected"  => o.filled = 0
    <3>1. CASE o \in terminal
      BY <3>1 DEF IInv, EndedAsReported
    <3>2. ASSUME NEW i \in DOMAIN pending \ Staying, o = Ended(i)
          PROVE  /\ o.status = "Filled"    => o.filled = o.quantity
                 /\ o.status = "Cancelled" => 0 < o.filled /\ o.filled < o.quantity
                 /\ o.status = "Expired"   => o.filled = 0 /\ o.quantity > 0
                 /\ o.status = "Rejected"  => o.filled = 0
      BY <1>4, <3>2
    <3> QED
      BY <3>1, <3>2, <1>5
  <2> QED
    BY <2>1 DEF EndedAsReported
<1>7. terminal' \subseteq [id : 1 .. counter, status : Gone, quantity : Nat, filled : Nat]
  BY <1>t, <1>4, <1>5 DEF TypeOK
<1> QED
  BY <1>2, <1>3, <1>6, <1>7

LEMMA PositionsInScan ==
  ASSUME IInv, NEW slip \in [DOMAIN pending -> Slips], Scan(slip)
  PROVE  /\ LapsedAreGone' /\ SalesKeepPositions'
         /\ open' \in [Questions -> Positions]
         /\ overwritten' \in [DOMAIN overwritten' -> Positions]
         /\ DOMAIN overwritten' \subseteq 1 .. counter
<1> DEFINE ids == DOMAIN pending
           D == DOMAIN overwritten
<1>1. PICK L : L = Lapsing(ids)
  OBVIOUS
<1>t. /\ TypeOK /\ LapsedAreGone /\ SalesKeepPositions /\ params \in Params
      /\ params' = params /\ ids \subseteq 1 .. counter /\ D \subseteq 1 .. counter
      /\ overwritten \in [D -> Positions]
  BY DEF IInv, TypeOK, Scan
<1>2. overwritten' = [i \in D \cup L |-> IF i \in L THEN Held(pending[i].question, i, slip)
                                         ELSE overwritten[i]]
  BY <1>1 DEF Scan
<1>3. /\ L \in SUBSET ids
      /\ \A i \in L : Held(pending[i].question, i, slip) \in Positions
  <2>1. PICK h : h = [i \in L |-> HeldCost(i, slip)]
    OBVIOUS
  <2> QED
    BY <1>1, <2>1, OverwrittenInScan
<1>4. LapsedAreGone'
  <2>1. Staying \in SUBSET ids /\ DOMAIN pending' = Staying
    BY StayingIs
  <2>2. \A i \in L : i \notin Staying
    BY <1>1, LapsingIs DEF Staying, Live
  <2>3. \A i \in D : i \notin Staying
    BY <1>t, <2>1 DEF LapsedAreGone
  <2> QED
    BY <1>2, <2>1, <2>2, <2>3 DEF LapsedAreGone
<1>5. open' \in [Questions -> Positions]
  <2>1. \A q \in Questions : Held(q, counter + 1, slip) \in Positions
    <3>1. counter + 1 \in Nat
      BY <1>t, ScanTypes
    <3> QED
      BY <1>t, <3>1, HeldIs
  <2> QED
    BY <2>1 DEF Scan
<1>6. /\ overwritten' \in [DOMAIN overwritten' -> Positions]
      /\ DOMAIN overwritten' \subseteq 1 .. counter
  BY <1>2, <1>3, <1>t
<1>7. SalesKeepPositions'
  <2>1. SUFFICES ASSUME params.maxDelay < params.maxWait
                 PROVE  \A i \in DOMAIN overwritten' : overwritten'[i] = NoPosition
    BY <1>t DEF SalesKeepPositions
  <2>p. params.maxDelay \in Nat /\ params.maxWait \in Nat
    BY <1>t, EngineParameters
  <2>2. ASSUME NEW i \in L PROVE FALSE
    <3>1. /\ i \in ids /\ pending[i].side = "Sell"
          /\ StatusAfter(pending[i]) \in {"Expired", "Cancelled"}
      BY <1>1, LapsingIs
    <3>2. /\ Scanned(pending[i]) /\ pending[i] \in Orders /\ slip[i] \in Slips
      BY <3>1, <1>t, AllScanned, ScanTypes
    <3>3. params.maxWait <= params.maxDelay
      BY <3>1, <3>2, <1>t, ScanOfSale DEF Scanned
    <3> QED
      BY <3>3, <2>1, <2>p
  <2>3. \A i \in D : overwritten[i] = NoPosition
    BY <1>t, <2>1 DEF SalesKeepPositions
  <2> QED
    BY <1>2, <2>2, <2>3
<1> QED
  BY <1>4, <1>5, <1>6, <1>7

LEMMA TickStep ==
  ASSUME IInv, Tick
  PROVE  IInv'
<1>1. PICK slip \in [DOMAIN pending -> Slips] : Scan(slip)
  BY DEF Tick
<1>2. ReservedIsPending' /\ pendingCash' \in Int
  BY <1>1, ReservedInScan
<1>3. MoneyIsConserved' /\ available' \in Int /\ realized' \in Int
  BY <1>1, MoneyInScan
<1>4. StatsAddUp' /\ stats' \in StatsType
  BY <1>1, CountsInScan
<1>5. /\ SalesAreWhole' /\ PurchasesFit' /\ EndsInTime' /\ EndedAsReported'
      /\ pending' \in [DOMAIN pending' -> Orders]
      /\ terminal' \subseteq [id : 1 .. counter, status : Gone, quantity : Nat, filled : Nat]
  BY <1>1, OrdersInScan
<1>6. /\ LapsedAreGone' /\ SalesKeepPositions'
      /\ open' \in [Questions -> Positions]
      /\ overwritten' \in [DOMAIN overwritten' -> Positions]
      /\ DOMAIN overwritten' \subseteq 1 .. counter
  BY <1>1, PositionsInScan
<1>7. /\ params' = params /\ counter' = counter /\ DOMAIN pending' \subseteq DOMAIN pending
  BY <1>1, StayingIs DEF Scan
<1>8. /\ params \in Params /\ counter \in 0 .. MaxOrders /\ DOMAIN pending \subseteq 1 .. counter
  BY DEF IInv, TypeOK
<1>9. TypeOK'
  BY <1>2, <1>3, <1>4, <1>5, <1>6, <1>7, <1>8 DEF TypeOK, StatsType
<1> QED
  BY <1>2, <1>3, <1>4, <1>5, <1>6, <1>9 DEF IInv

--------------------------------------------------------------------------------
(* The theorems *)

(* Every step keeps the invariant.                                         *)
LEMMA StepHolds == IInv /\ [Next]_vars => IInv'
<1> SUFFICES ASSUME IInv, [Next]_vars PROVE IInv'
  OBVIOUS
<1>1. ASSUME NEW q \in Questions, NEW p \in Prices, SubmitBuy(q, p) PROVE IInv'
  BY <1>1, BuyStep
<1>2. ASSUME NEW p \in Prices, RejectBuy(p) PROVE IInv'
  BY <1>2, RejectStep DEF RejectBuy
<1>3. ASSUME NEW q \in Questions, NEW p \in Prices, SubmitSell(q, p) PROVE IInv'
  BY <1>3, SellStep
<1>4. ASSUME NEW q \in Questions, NEW p \in Prices, RejectSell(q, p) PROVE IInv'
  BY <1>4, RejectStep DEF RejectSell
<1>5. CASE Tick
  BY <1>5, TickStep
<1>6. CASE DrainTerminal
  BY <1>6, QuietStep DEF DrainTerminal
<1>7. CASE UNCHANGED vars
  BY <1>7, QuietStep DEF vars
<1> QED
  BY <1>1, <1>2, <1>3, <1>4, <1>5, <1>6, <1>7 DEF Next

(* The invariant, from which the properties follow.                        *)
THEOREM InvariantHolds == Spec => []IInv
<1> QED
  BY InitHolds, StepHolds, PTL DEF Spec

--------------------------------------------------------------------------------
(* What follows *)

(* Every variable keeps its type, in every behaviour of the engine.        *)
THEOREM TypesHold == Spec => []TypeOK
<1>1. IInv => TypeOK
  BY DEF IInv
<1> QED
  BY <1>1, InvariantHolds, PTL

(* Cash, locked cash and the cost of all positions are the capital and     *)
(* the realized profit, whatever fills, slips, lapses and is put back.     *)
THEOREM MoneyHolds == Spec => []MoneyIsConserved
<1>1. IInv => MoneyIsConserved
  BY DEF IInv
<1> QED
  BY <1>1, InvariantHolds, PTL

(* The cash locked is what the pending purchases may still need.           *)
THEOREM ReservesHold == Spec => []ReservedIsPending
<1>1. IInv => ReservedIsPending
  BY DEF IInv
<1> QED
  BY <1>1, InvariantHolds, PTL

(* No order outlives the configured number of scans.                       *)
THEOREM OrdersEndInTime == Spec => []EndsInTime
<1>1. IInv => EndsInTime
  BY DEF IInv
<1> QED
  BY <1>1, InvariantHolds, PTL

(* The status an order ends with tells what was bought or sold of it.      *)
THEOREM EndsAreReported == Spec => []EndedAsReported
<1>1. IInv => EndedAsReported
  BY DEF IInv
<1> QED
  BY <1>1, InvariantHolds, PTL

(* With the delay below the wait no sale that is put back overwrites a     *)
(* position.                                                               *)
THEOREM SalesAreSafe == Spec => []SalesKeepPositions
<1>1. IInv => SalesKeepPositions
  BY DEF IInv
<1> QED
  BY <1>1, InvariantHolds, PTL

(* Every order of the total is pending or counted once by the way it       *)
(* ended.                                                                  *)
THEOREM CountsHold == Spec => []StatsAddUp
<1>1. IInv => StatsAddUp
  BY DEF IInv
<1> QED
  BY <1>1, InvariantHolds, PTL

--------------------------------------------------------------------------------
(* Where the numbers of the orders are *)

(* An order ends once: no two ended orders have one id, and none of them   *)
(* is pending.                                                             *)
EndsOnce ==
  /\ \A o, p \in terminal : o.id = p.id => o = p
  /\ \A o \in terminal : o.id \notin DOMAIN pending

(* The orders that have a number and were not drained.                     *)
Undrained == Cardinality(terminal) + Cardinality(DOMAIN pending)

Told == IsFiniteSet(terminal) /\ EndsOnce

LEMMA UndrainedIs ==
  ASSUME IInv, Told
  PROVE  /\ IsFiniteSet(DOMAIN pending) /\ Cardinality(DOMAIN pending) \in Nat
         /\ Cardinality(terminal) \in Nat /\ Undrained \in Nat /\ counter \in Nat
         /\ \A o \in terminal : o.id \in 1 .. counter
<1>1. counter \in Nat /\ DOMAIN pending \in SUBSET (1 .. counter)
  BY EngineParameters DEF IInv, TypeOK
<1>2. IsFiniteSet(DOMAIN pending)
  BY <1>1, IdsAreFinite
<1>3. Cardinality(DOMAIN pending) \in Nat /\ Cardinality(terminal) \in Nat
  BY <1>2, FS_CardinalityType DEF Told
<1>4. \A o \in terminal : o.id \in 1 .. counter
  BY DEF IInv, TypeOK
<1> QED
  BY <1>1, <1>2, <1>3, <1>4 DEF Undrained

LEMMA ToldWithNewOrder ==
  ASSUME IInv, Told, NEW o, Enqueue(o), UNCHANGED terminal
  PROVE  Told' /\ Undrained' = Undrained + 1 /\ counter' = counter + 1
<1>1. /\ counter' = counter + 1 /\ counter' \notin DOMAIN pending
      /\ DOMAIN pending' = DOMAIN pending \cup {counter'}
  BY EngineParameters DEF IInv, TypeOK, Enqueue
<1>2. Cardinality(DOMAIN pending') = Cardinality(DOMAIN pending) + 1
  BY <1>1, UndrainedIs, FS_AddElement
<1>3. \A t \in terminal : t.id # counter'
  BY <1>1, UndrainedIs
<1>4. Told'
  BY <1>1, <1>3 DEF Told, EndsOnce
<1> QED
  BY <1>1, <1>2, <1>4, UndrainedIs DEF Undrained

LEMMA ToldWithRefused ==
  ASSUME IInv, Told, Reject
  PROVE  Told' /\ Undrained' = Undrained + 1 /\ counter' = counter + 1
<1> DEFINE o == [id |-> counter', status |-> "Rejected", quantity |-> 0, filled |-> 0]
<1>1. counter' = counter + 1 /\ terminal' = terminal \cup {o} /\ pending' = pending
  BY DEF Reject
<1>2. o.id = counter' /\ o.id \notin DOMAIN pending
  BY <1>1, EngineParameters DEF IInv, TypeOK
<1>3. \A t \in terminal : t.id # o.id
  BY <1>1, <1>2, UndrainedIs
<1> HIDE DEF o
<1>4. IsFiniteSet(terminal') /\ Cardinality(terminal') = Cardinality(terminal) + 1
  BY <1>1, <1>3, FS_AddElement DEF Told
<1>5. EndsOnce'
  BY <1>1, <1>2, <1>3 DEF Told, EndsOnce
<1> QED
  BY <1>1, <1>4, <1>5, UndrainedIs DEF Told, Undrained

(* A scan moves the orders that end from the pending ones to the ended.    *)
LEMMA ToldInScan ==
  ASSUME IInv, Told, Tick
  PROVE  Told' /\ Undrained' = Undrained /\ counter' = counter
<1>1. PICK slip \in [DOMAIN pending -> Slips] : Scan(slip)
  BY DEF Tick
<1> DEFINE ids  == DOMAIN pending
           gone == ids \ Staying
           rows == { Ended(i) : i \in gone }
           f    == [i \in gone |-> Ended(i)]
<1>2. /\ counter' = counter /\ terminal' = terminal \cup rows
      /\ DOMAIN pending' = Staying /\ Staying \in SUBSET ids
  BY <1>1, StayingIs DEF Scan
<1>3. IsFiniteSet(ids) /\ IsFiniteSet(Staying) /\ IsFiniteSet(gone)
  BY <1>2, UndrainedIs, FS_Subset
<1>4. \A i \in gone : Ended(i).id = i
  BY DEF Ended
<1>5. f \in Bijection(gone, rows)
  <2>1. f \in [gone -> rows] /\ DOMAIN f = gone /\ \A r \in rows : \E i \in gone : f[i] = r
    OBVIOUS
  <2>2. \A i, j \in gone : f[i] = f[j] => i = j
    BY <1>4
  <2> HIDE DEF f, gone, rows
  <2> QED
    BY <2>1, <2>2 DEF Bijection, Injection, Surjection, IsInjective
<1>6. IsFiniteSet(rows) /\ Cardinality(rows) = Cardinality(gone)
  BY <1>3, <1>5, FS_Bijection DEF ExistsBijection
<1>7. \A r \in rows : r.id \in gone
  BY <1>4
<1>8. \A o, r \in rows : o.id = r.id => o = r
  BY <1>4
<1> HIDE DEF f, rows
<1>9. terminal \cap rows = {}
  BY <1>7 DEF Told, EndsOnce
<1>10. /\ IsFiniteSet(terminal')
       /\ Cardinality(terminal') = Cardinality(terminal) + Cardinality(rows)
  BY <1>2, <1>6, <1>9, SizeOfTwo DEF Told
<1>11. Cardinality(ids) = Cardinality(gone) + Cardinality(Staying)
  <2>1. gone \cup Staying = ids /\ gone \cap Staying = {}
    BY <1>2
  <2> HIDE DEF gone
  <2> QED
    BY <2>1, <1>3, SizeOfTwo
<1>12. EndsOnce'
  BY <1>2, <1>7, <1>8 DEF Told, EndsOnce
<1>13. Cardinality(gone) \in Nat /\ Cardinality(Staying) \in Nat
  BY <1>3, FS_CardinalityType
<1> HIDE DEF ids, gone
<1>14. Undrained' = Undrained
  BY <1>2, <1>6, <1>10, <1>11, <1>13, UndrainedIs DEF Undrained, ids
<1> QED
  BY <1>2, <1>10, <1>12, <1>14 DEF Told

(* What the engine does of itself; its caller drains the ended orders.     *)
Works ==
  \/ \E q \in Questions, p \in Prices : SubmitBuy(q, p)
  \/ \E p \in Prices : RejectBuy(p)
  \/ \E q \in Questions, p \in Prices : SubmitSell(q, p)
  \/ \E q \in Questions, p \in Prices : RejectSell(q, p)
  \/ Tick

(* Every number handed out is of an order that is pending, ended or        *)
(* drained.                                                                *)
LEMMA ToldAtWork ==
  ASSUME IInv, Told, Works
  PROVE  /\ Told' /\ counter' \in Nat /\ Undrained' \in Nat
         /\ counter' - counter = Undrained' - Undrained
<1>n. Undrained \in Nat /\ counter \in Nat
  BY UndrainedIs
<1>1. ASSUME NEW q \in Questions, NEW p \in Prices, SubmitBuy(q, p)
      PROVE  Told' /\ Undrained' = Undrained + 1 /\ counter' = counter + 1
  <2>1. PICK o : Enqueue(o)
    BY <1>1 DEF SubmitBuy
  <2> QED
    BY <1>1, <2>1, ToldWithNewOrder DEF SubmitBuy
<1>2. ASSUME NEW q \in Questions, NEW p \in Prices, SubmitSell(q, p)
      PROVE  Told' /\ Undrained' = Undrained + 1 /\ counter' = counter + 1
  <2>1. PICK o : Enqueue(o)
    BY <1>2 DEF SubmitSell
  <2> QED
    BY <1>2, <2>1, ToldWithNewOrder DEF SubmitSell
<1>3. ASSUME Reject PROVE Told' /\ Undrained' = Undrained + 1 /\ counter' = counter + 1
  BY <1>3, ToldWithRefused
<1>4. CASE Tick
  BY <1>4, <1>n, ToldInScan
<1> QED
  BY <1>n, <1>1, <1>2, <1>3, <1>4 DEF Works, RejectBuy, RejectSell

LEMMA ToldDrained ==
  ASSUME IInv, Told, DrainTerminal
  PROVE  /\ Told' /\ counter' = counter /\ Undrained' \in Nat
         /\ Undrained = Undrained' + Cardinality(terminal)
<1>1. terminal' = {} /\ pending' = pending /\ counter' = counter
  BY DEF DrainTerminal
<1>2. IsFiniteSet(terminal') /\ Cardinality(terminal') = 0
  BY <1>1, FS_EmptySet
<1>3. Told'
  BY <1>1, <1>2 DEF Told, EndsOnce
<1> QED
  BY <1>1, <1>2, <1>3, UndrainedIs DEF Undrained

LEMMA ToldAtStart ==
  ASSUME JustStarted
  PROVE  Told /\ Undrained = 0
<1>1. terminal = {} /\ DOMAIN pending = {}
  BY DEF JustStarted
<1>2. IsFiniteSet(terminal) /\ Cardinality(terminal) = 0 /\ Cardinality(DOMAIN pending) = 0
  BY <1>1, FS_EmptySet
<1> QED
  BY <1>1, <1>2 DEF Told, EndsOnce, Undrained

(* An order ends once, and its row goes to the file once.                  *)
THEOREM OrdersEndOnce == Spec => []EndsOnce
<1>1. Init => Told
  BY ToldAtStart, EngineParameters DEF Init, JustStarted
<1>2. IInv /\ Told /\ [Next]_vars => Told'
  <2>1. UNCHANGED vars /\ Told => Told'
    BY DEF vars, Told, EndsOnce
  <2>2. Next => Works \/ DrainTerminal
    BY DEF Next, Works
  <2> QED
    BY <2>1, <2>2, ToldAtWork, ToldDrained
<1>3. Told => EndsOnce
  BY DEF Told
<1> QED
  BY <1>1, <1>2, <1>3, InvariantHolds, PTL DEF Spec
================================================================================
