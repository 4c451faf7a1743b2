--------------------------- MODULE ExecutionEngine ---------------------------
(***************************************************************************)
(* The execution simulator: orders wait a random number of scans, fill in  *)
(* batches and are expired or cancelled when they have waited too long,    *)
(* while money and positions move between the engine's books.              *)
(*                                                                         *)
(* Money and shares are whole numbers: a price is in ticks, slippage is a  *)
(* number of ticks per share, a batch a number of shares.  Orders get      *)
(* their ids in the order of the pending list, so the list is a function   *)
(* from ids to orders and a tick visits them by increasing id.             *)
(***************************************************************************)
EXTENDS Integers, Sequences, FiniteSetsExt, Functions

CONSTANTS
  Questions,
  Prices,            \* prices callers submit; 0 stands for an illegal one
  Slips,             \* slippage of a batch, in ticks per share
  Capital, OrderNotional, MaxPendingOrders,
  Params,            \* the waits and delays a configuration may hold
  MaxOrders          \* bound: orders submitted

ASSUME EngineParameters ==
  /\ Prices \subseteq Nat /\ Slips \subseteq Nat
  /\ {Capital, OrderNotional, MaxPendingOrders, MaxOrders} \subseteq Nat
  /\ Params \subseteq [maxWait : Nat, maxDelay : Nat]

(* An order's notional buys a whole number of shares.                      *)
ASSUME WholeShares ==
  /\ OrderNotional > 0
  /\ \A p \in Prices \ {0} : (OrderNotional \div p) * p = OrderNotional

ASSUME FinitelyMany == IsFiniteSet(Questions)

VARIABLES
  params,        \* max_wait_scans and max_fill_delay
  counter,       \* the last order id
  pending,       \* id -> order
  terminal,      \* ended orders not yet drained
  open,          \* open_positions; a question without one has NoPosition
  realized,      \* realized profit of closed_positions
  available, pendingCash,
  stats,
  overwritten    \* history: sale that lapsed -> the position it was put in the place of

vars == <<params, counter, pending, terminal, open, realized, available, pendingCash,
          stats, overwritten>>

Positions  == [quantity : Nat, cost : Int]
NoPosition == [quantity |-> 0, cost |-> 0]

Live == {"Pending", "PartiallyFilled"}
Gone == {"Filled", "Cancelled", "Expired", "Rejected"}

Orders == [question : Questions, side : {"Buy", "Sell"}, quantity : Nat, price : Nat,
           filled : Nat, paid : Int, status : Live,
           wait : Nat, batches : Seq(Nat), alive : Nat, liquidityFail : BOOLEAN,
           target : Positions]

Buys(ids)  == { i \in ids : pending[i].side = "Buy" }
Sells(ids) == { i \in ids : pending[i].side = "Sell" }

--------------------------------------------------------------------------------
(* Submitting *)

Init ==
  /\ params \in Params
  /\ counter = 0
  /\ pending = << >>
  /\ terminal = {}
  /\ open = [q \in Questions |-> NoPosition]
  /\ realized = 0
  /\ available = Capital
  /\ pendingCash = 0
  /\ stats = [total |-> 0, filled |-> 0, cancelled |-> 0, expired |-> 0, rejected |-> 0]
  /\ overwritten = << >>

(* One to three batches that make up n shares.                             *)
PartialSchedules(n) ==
  { <<n>> }
    \cup { <<a, n - a>> : a \in 1 .. (n - 1) }
    \cup { <<ab[1], ab[2], n - ab[1] - ab[2]>> :
              ab \in { x \in (1 .. n) \X (1 .. n) : x[1] + x[2] < n } }

(* Mutant: a sale is filled in batches as a purchase is.                   *)
SaleSchedules_Batched(n) == PartialSchedules(n)

(* A sale is filled at once.                                               *)
SaleSchedules(n) == { <<n>> }

(* A new order, with what the fill engine draws for it.                    *)
NewOrder(q, side, n, p, delay, batches, fail, target) ==
  [question |-> q, side |-> side, quantity |-> n, price |-> p, filled |-> 0, paid |-> 0,
   status |-> "Pending", wait |-> delay, batches |-> batches, alive |-> 0,
   liquidityFail |-> fail, target |-> target]

Enqueue(o) ==
  /\ counter' = counter + 1
  /\ pending' = [i \in DOMAIN pending \cup {counter'} |-> IF i = counter' THEN o ELSE pending[i]]
  /\ stats' = [stats EXCEPT !.total = @ + 1]

Unacceptable(p) == p = 0 \/ Cardinality(DOMAIN pending) >= MaxPendingOrders

(* Mutant: a refused order is counted as refused only.                     *)
Refused_NotInTotal(s) == [s EXCEPT !.rejected = @ + 1]

Refused(s) == [s EXCEPT !.total = @ + 1, !.rejected = @ + 1]

Reject ==
  /\ counter' = counter + 1
  /\ terminal' = terminal \cup
                   {[id |-> counter', status |-> "Rejected", quantity |-> 0, filled |-> 0]}
  /\ stats' = Refused(stats)
  /\ UNCHANGED <<params, pending, open, realized, available, pendingCash, overwritten>>

SubmitBuy(q, p) ==
  /\ counter < MaxOrders
  /\ ~ Unacceptable(p)
  /\ available >= OrderNotional
  /\ \E delay \in 0 .. params.maxDelay, fail \in BOOLEAN,
        batches \in PartialSchedules(OrderNotional \div p) :
       Enqueue(NewOrder(q, "Buy", OrderNotional \div p, p, delay, batches, fail, NoPosition))
  /\ available' = available - OrderNotional
  /\ pendingCash' = pendingCash + OrderNotional
  /\ UNCHANGED <<params, terminal, open, realized, overwritten>>

(* The position leaves the open ones with the order that sells it.         *)
SubmitSell(q, p) ==
  /\ counter < MaxOrders
  /\ ~ Unacceptable(p)
  /\ open[q] # NoPosition
  /\ \E delay \in 0 .. params.maxDelay, batches \in SaleSchedules(open[q].quantity) :
       Enqueue(NewOrder(q, "Sell", open[q].quantity, p, delay, batches, FALSE, open[q]))
  /\ open' = [open EXCEPT ![q] = NoPosition]
  /\ UNCHANGED <<params, terminal, realized, available, pendingCash, overwritten>>

RejectBuy(p) ==
  /\ counter < MaxOrders
  /\ Unacceptable(p) \/ available < OrderNotional
  /\ Reject

RejectSell(q, p) ==
  /\ counter < MaxOrders
  /\ Unacceptable(p) \/ open[q] = NoPosition
  /\ Reject

--------------------------------------------------------------------------------
(* One scan: what happens to an order *)

(* The shares an order is filled by in this scan.                          *)
Batch(o) ==
  IF o.liquidityFail \/ o.wait > 0 \/ o.batches = << >> THEN 0 ELSE Head(o.batches)

(* Mutant: the wait is counted down without looking whether it is over.    *)
Waited_Always(o) == IF o.liquidityFail THEN o.wait ELSE o.wait - 1

Waited(o) == IF o.liquidityFail \/ o.wait = 0 THEN o.wait ELSE o.wait - 1

(* Mutant: one scan more than the configured wait.                         *)
TimedOut_Late(o) == o.alive + 1 > params.maxWait

TimedOut(o) == o.alive + 1 >= params.maxWait

(* Mutant: every order out of time is expired, filled in part or not.      *)
StatusAfter_Expires(o) ==
  IF o.filled + Batch(o) >= o.quantity THEN "Filled"
  ELSE IF TimedOut(o) THEN "Expired"
  ELSE IF o.filled + Batch(o) = 0 THEN "Pending" ELSE "PartiallyFilled"

StatusAfter(o) ==
  IF o.filled + Batch(o) >= o.quantity THEN "Filled"
  ELSE IF TimedOut(o) THEN (IF o.filled + Batch(o) = 0 THEN "Expired" ELSE "Cancelled")
  ELSE IF o.filled + Batch(o) = 0 THEN "Pending" ELSE "PartiallyFilled"

FillPrice(o, slip) == IF o.side = "Buy" THEN o.price + slip ELSE o.price - slip

After(o, slip) ==
  [o EXCEPT !.alive   = @ + 1,
            !.wait    = Waited(o),
            !.batches = IF Batch(o) > 0 THEN Tail(@) ELSE @,
            !.filled  = @ + Batch(o),
            !.paid    = @ + Batch(o) * FillPrice(o, slip),
            !.status  = StatusAfter(o)]

Ending(ids, status) == { i \in ids : StatusAfter(pending[i]) = status }

(* Sales that end without having been filled: their position is put back.  *)
Lapsing(ids) == Ending(Sells(ids), "Expired") \cup Ending(Sells(ids), "Cancelled")

Staying == { i \in DOMAIN pending : StatusAfter(pending[i]) \in Live }

--------------------------------------------------------------------------------
(* One scan: what happens to money and positions *)

(* Mutant: the lock of the whole order is released.                        *)
Unfilled_Whole(o) == o.quantity

(* The shares whose lock is released when an order ends without them.      *)
Unfilled(o) == o.quantity - o.filled - Batch(o)

Released(o) == IF StatusAfter(o) \in {"Expired", "Cancelled"} THEN o.price * Unfilled(o) ELSE 0

Unlocked(o) == IF o.side = "Buy" THEN o.price * Batch(o) + Released(o) ELSE 0

(* Mutant: slippage makes the position dearer and costs nothing.           *)
Slippage_Free(o, slip) == 0

(* What a purchase pays beyond the money locked for it.                    *)
Slippage(o, slip) == Batch(o) * slip

Proceeds(o, slip) == Batch(o) * FillPrice(o, slip)

CashIn(o, slip) ==
  IF o.side = "Buy" THEN Released(o) - Slippage(o, slip) ELSE Proceeds(o, slip)

Profit(o, slip) ==
  IF o.side = "Sell" /\ StatusAfter(o) = "Filled" THEN After(o, slip).paid - o.target.cost ELSE 0

(* The position in q just before order k's turn: the last position a       *)
(* lapsing sale put back, or the open one, and the batches bought since.   *)
Held(q, k, slip) ==
  LET before == { i \in DOMAIN pending : pending[i].question = q /\ i < k }
      back   == Lapsing(before)
      base   == IF back = {} THEN open[q] ELSE pending[Max(back)].target
      bought == { i \in Buys(before) : \A j \in back : j < i }
  IN  [quantity |-> base.quantity + SumFunction([i \in bought |-> Batch(pending[i])]),
       cost     |-> base.cost + SumFunction([i \in bought |-> Proceeds(pending[i], slip[i])])]

Counted(s) ==
  [s EXCEPT !.filled    = @ + Cardinality(Ending(DOMAIN pending, "Filled")),
            !.cancelled = @ + Cardinality(Ending(DOMAIN pending, "Cancelled")),
            !.expired   = @ + Cardinality(Ending(DOMAIN pending, "Expired"))]

Ended(i) ==
  [id |-> i, status |-> StatusAfter(pending[i]), quantity |-> pending[i].quantity,
   filled |-> pending[i].filled + Batch(pending[i])]

Scan(slip) ==
  LET ids == DOMAIN pending
  IN  /\ pending' = [i \in Staying |-> After(pending[i], slip[i])]
      /\ terminal' = terminal \cup { Ended(i) : i \in ids \ Staying }
      /\ pendingCash' = pendingCash - SumFunction([i \in ids |-> Unlocked(pending[i])])
      /\ available' = available + SumFunction([i \in ids |-> CashIn(pending[i], slip[i])])
      /\ realized' = realized + SumFunction([i \in ids |-> Profit(pending[i], slip[i])])
      /\ open' = [q \in Questions |-> Held(q, counter + 1, slip)]
      /\ overwritten' = [i \in DOMAIN overwritten \cup Lapsing(ids) |->
                           IF i \in Lapsing(ids) THEN Held(pending[i].question, i, slip)
                           ELSE overwritten[i]]
      /\ stats' = Counted(stats)
      /\ UNCHANGED <<params, counter>>

Tick == \E slip \in [DOMAIN pending -> Slips] : Scan(slip)

(* The driver writes the ended orders to its CSV file after a scan.        *)
DrainTerminal ==
  /\ terminal # {}
  /\ terminal' = {}
  /\ UNCHANGED <<params, counter, pending, open, realized, available, pendingCash, stats, overwritten>>

Next ==
  \/ \E q \in Questions, p \in Prices : SubmitBuy(q, p)
  \/ \E p \in Prices : RejectBuy(p)
  \/ \E q \in Questions, p \in Prices : SubmitSell(q, p)
  \/ \E q \in Questions, p \in Prices : RejectSell(q, p)
  \/ Tick
  \/ DrainTerminal

Spec == Init /\ [][Next]_vars

--------------------------------------------------------------------------------
(* Properties *)

(* Every variable has its type.                                            *)
TypeOK ==
  /\ params \in Params
  /\ counter \in 0 .. MaxOrders
  /\ DOMAIN pending \subseteq 1 .. counter
  /\ pending \in [DOMAIN pending -> Orders]
  /\ terminal \subseteq [id : 1 .. counter, status : Gone, quantity : Nat, filled : Nat]
  /\ open \in [Questions -> Positions]
  /\ {realized, available, pendingCash} \subseteq Int
  /\ stats \in [{"total", "filled", "cancelled", "expired", "rejected"} -> Nat]
  /\ overwritten \in [DOMAIN overwritten -> Positions] /\ DOMAIN overwritten \subseteq 1 .. counter

CostIn(positions) == SumFunction([x \in DOMAIN positions |-> positions[x].cost])

OnSale == [i \in DOMAIN pending |-> pending[i].target]

(* The engine's README: available cash, locked cash and the cost of the    *)
(* positions make up the capital and the realized profit -- the positions  *)
(* on sale and the overwritten ones counted in, at every moment, whatever  *)
(* fills, slips, lapses and is put back.                                   *)
MoneyIsConserved ==
  available + pendingCash + CostIn(open) + CostIn(OnSale) + CostIn(overwritten) = Capital + realized

Reserve(o) == IF o.side = "Buy" THEN o.price * (o.quantity - o.filled) ELSE 0

(* The cash locked is what the pending purchases may still need: nothing   *)
(* stays locked when they have ended, nothing is released twice.           *)
ReservedIsPending == pendingCash = SumFunction([i \in DOMAIN pending |-> Reserve(pending[i])])

(* No order outlives the configured number of scans, in whatever order     *)
(* its delay, its batches and its failure to find liquidity come.          *)
EndsInTime ==
  \A i \in DOMAIN pending : pending[i].alive = 0 \/ pending[i].alive < params.maxWait

(* The status an order ends with tells what was bought or sold of it.      *)
EndedAsReported ==
  \A o \in terminal :
    /\ o.status = "Filled"    => o.filled = o.quantity
    /\ o.status = "Cancelled" => 0 < o.filled /\ o.filled < o.quantity
    /\ o.status = "Expired"   => o.filled = 0 /\ o.quantity > 0
    /\ o.status = "Rejected"  => o.filled = 0

(* submit_sell fills at once and never fails "so that no position is       *)
(* orphaned": a sale that comes back never overwrites what was bought      *)
(* meanwhile, provided the delay is below the wait.                        *)
SalesKeepPositions ==
  params.maxDelay < params.maxWait => \A i \in DOMAIN overwritten : overwritten[i] = NoPosition

(* Every order counted in the total is pending or counted once by the way  *)
(* it ended.                                                               *)
StatsAddUp ==
  stats.total = Cardinality(DOMAIN pending)
                  + stats.filled + stats.cancelled + stats.expired + stats.rejected

================================================================================
