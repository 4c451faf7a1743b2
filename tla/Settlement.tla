------------------------------ MODULE Settlement ------------------------------
(***************************************************************************)
(* The settlement engine: every fill goes through process_fill, which      *)
(* validates it, updates the position, the balance, the realized profit    *)
(* and the ledger one after the other, without a rollback, and returns.    *)
(*                                                                         *)
(* Money is counted in ticks.  A book is a market and a direction; the     *)
(* code keeps one position for it, whatever the account.  Fills carry no   *)
(* trade id here: process_fill does not look whether it has seen one.      *)
(***************************************************************************)
EXTENDS Integers, Sequences, FiniteSetsExt

CONSTANTS
  Accounts, DefaultAccount, Books,
  Prices, Quantities,         \* what fills carry, out of range values included
  MaxPrice, MaxQuantity,      \* the validator's limits
  Capital,                    \* what an account starts with
  MakerRate, TakerRate,       \* per cent of the notional, all its parts together
  MinFee, MaxFee, Tolerance,  \* the fee's limits (0: no limit); the validator's cent
  MaxFills                    \* bound: fills processed

ASSUME SettlementParameters ==
  /\ DefaultAccount \in Accounts /\ IsFiniteSet(Accounts) /\ IsFiniteSet(Books)
  /\ Prices \subseteq Nat /\ Quantities \subseteq Nat
  /\ {MaxPrice, MaxQuantity, Capital, MakerRate, TakerRate, MinFee, MaxFee, Tolerance, MaxFills} \subseteq Nat

VARIABLES
  opened,     \* the accounts BalanceManager knows
  balances,   \* BalanceManager.balances
  positions,  \* PositionManager.positions; quantity 0 is a book without one
  closed,     \* realized profit of closed_positions
  realized,   \* PnLEngine.accumulated_realized_pnl
  ledger,     \* Ledger.entries
  stored,     \* the entries save_ledger_entry was called with, as places in the ledger
  results     \* statuses of the settlements saved

vars == <<opened, balances, positions, closed, realized, ledger, stored, results>>

Fills == [account : Accounts, book : Books, buy : BOOLEAN,
          price : Prices, quantity : Quantities, taker : BOOLEAN]

Notional(e) == e.price * e.quantity

RawFee(e) == (Notional(e) * (IF e.taker THEN TakerRate ELSE MakerRate)) \div 100

(* FeeEngine::calculate: the parts add up to RawFee, the total is clamped. *)
Fee(e) ==
  LET raised == IF MinFee > 0 /\ RawFee(e) < MinFee THEN MinFee ELSE RawFee(e)
  IN  IF MaxFee > 0 /\ raised > MaxFee THEN MaxFee ELSE raised

--------------------------------------------------------------------------------
(* Balances *)

NewBalance(x) == [available |-> x, frozen |-> 0]

(* Mutant: without the frozen money.                                       *)
Cash_AvailableOnly(b) == b.available

Cash(b) == b.available + b.frozen

Least(x, y) == IF x < y THEN x ELSE y

Freeze(b, x) ==
  LET moved == Least(x, b.available)
  IN  [available |-> b.available - moved, frozen |-> b.frozen + moved]

Debit(b, x) ==
  LET fromFrozen == Least(x, b.frozen)
  IN  [available |-> b.available - Least(x - fromFrozen, b.available),
       frozen    |-> b.frozen - fromFrozen]

Credit(b, x) == [b EXCEPT !.available = @ + x]

(* Mutant: without its floor at zero.                                      *)
ChargeFee_NoFloor(b, fee) == [b EXCEPT !.available = @ - fee]

ChargeFee(b, fee) == [b EXCEPT !.available = IF @ > fee THEN @ - fee ELSE 0]

(* Mutant: only the cost is taken from the frozen money.                   *)
Paid_CostOnly(b, cost, fee) == ChargeFee(Debit(b, cost), fee)

(* debit_fill takes the fee with the cost and then once more.              *)
Paid(b, cost, fee) == ChargeFee(Debit(b, cost + fee), fee)

Received(b, proceeds, fee) ==
  CASE proceeds > fee -> Credit(b, proceeds - fee)
    [] proceeds < fee -> ChargeFee(b, fee - proceeds)
    [] OTHER          -> b

--------------------------------------------------------------------------------
(* Positions *)

NoPosition == [quantity |-> 0, cost |-> 0, realized |-> 0]

AddFill(p, e) ==
  [quantity |-> p.quantity + e.quantity, cost |-> p.cost + Notional(e), realized |-> p.realized]

(* The cost of n of the position's shares at its average price.            *)
CostOf(p, n) == (p.cost * n) \div p.quantity

Gain(p, e) ==
  LET n == Least(e.quantity, p.quantity) IN n * e.price - CostOf(p, n)

(* Mutant: a sale's profit replaces that of the sales before it.           *)
Reduce_Replaces(p, e) ==
  LET n == Least(e.quantity, p.quantity)
  IN  [quantity |-> p.quantity - n, cost |-> p.cost - CostOf(p, n), realized |-> Gain(p, e)]

Reduce(p, e) ==
  LET n == Least(e.quantity, p.quantity)
  IN  [quantity |-> p.quantity - n, cost |-> p.cost - CostOf(p, n),
       realized |-> p.realized + Gain(p, e)]

--------------------------------------------------------------------------------
(* The ledger *)

(* A fill's entry is a debit, of a sale too; its fee is a second entry.    *)
Entries(e, before, after) ==
  LET entry(kind, amount, end) ==
        [account |-> e.account, kind |-> kind, amount |-> - amount, before |-> before, after |-> end]
  IN  IF Fee(e) > 0
      THEN << entry("Fill", Notional(e), after), entry("Fee", Fee(e), after - Fee(e)) >>
      ELSE << entry("Fill", Notional(e), after) >>

(* Mutant: only the last entry is stored: a fill with a fee has two.       *)
Recent_One(entries) == { i \in 1 .. Len(entries) : i > Len(entries) - 1 }

(* The places of the last entries, which are stored after every fill.      *)
Recent(entries) == { i \in 1 .. Len(entries) : i > Len(entries) - 2 }

Record(e, before, after) ==
  /\ ledger' = ledger \o Entries(e, before, after)
  /\ stored' = stored \cup Recent(ledger')

--------------------------------------------------------------------------------
(* Validation *)

Affordable(e) == Cash(balances[e.account]) >= Notional(e) + Fee(e)

(* Mutant: a sale is not compared with the quantity held.                  *)
Covered_Any(e) == 0 < positions[e.book].quantity

Covered(e) == 0 < positions[e.book].quantity /\ e.quantity <= positions[e.book].quantity

FeeAddsUp(e) == Fee(e) - RawFee(e) \in - Tolerance .. Tolerance

Valid(e) ==
  /\ 0 < e.price /\ e.price <= MaxPrice
  /\ 0 < e.quantity /\ e.quantity <= MaxQuantity
  /\ e.account \in opened
  /\ FeeAddsUp(e)
  /\ IF e.buy THEN Affordable(e) ELSE Covered(e)

--------------------------------------------------------------------------------
Init ==
  /\ opened = {DefaultAccount}
  /\ balances = [a \in Accounts |-> NewBalance(IF a = DefaultAccount THEN Capital ELSE 0)]
  /\ positions = [k \in Books |-> NoPosition]
  /\ closed = 0 /\ realized = 0
  /\ ledger = << >> /\ stored = {} /\ results = << >>

(* BalanceManager::init_account; callers do it once for an account.        *)
OpenAccount(a) ==
  /\ a \notin opened
  /\ opened' = opened \cup {a}
  /\ balances' = [balances EXCEPT ![a] = NewBalance(Capital)]
  /\ UNCHANGED <<positions, closed, realized, ledger, stored, results>>

Conclude(status) ==
  /\ Len(results) < MaxFills
  /\ results' = Append(results, status)

Reject(e) ==
  /\ ~ Valid(e)
  /\ Conclude("ValidationFailed")
  /\ UNCHANGED <<opened, balances, positions, closed, realized, ledger, stored>>

OpenOrAdd(e) == positions' = [positions EXCEPT ![e.book] = AddFill(@, e)]

(* A position sold out moves to the closed ones and its book is empty.     *)
CloseOrReduce(e) ==
  LET left == Reduce(positions[e.book], e)
  IN  /\ positions' = [positions EXCEPT ![e.book] = IF left.quantity = 0 THEN NoPosition ELSE left]
      /\ closed' = closed + (IF left.quantity = 0 THEN left.realized ELSE 0)

RecordRealized(e) == realized' = realized + Gain(positions[e.book], e)

(* The position first; then the money is frozen, taken and recorded, or is *)
(* missing, which ends the settlement there.                               *)
SettleBuy(e) ==
  LET old   == balances[e.account]
      total == Notional(e) + Fee(e)
      new   == Paid(Freeze(old, total), Notional(e), Fee(e))
  IN  /\ e.buy /\ Valid(e)
      /\ OpenOrAdd(e)
      /\ IF old.available < total
         THEN /\ Conclude("BalanceFailed")
              /\ UNCHANGED <<balances, ledger, stored>>
         ELSE /\ balances' = [balances EXCEPT ![e.account] = new]
              /\ Record(e, Cash(Freeze(old, total)), Cash(new))
              /\ Conclude("Success")
      /\ UNCHANGED <<opened, closed, realized>>

SettleSell(e) ==
  LET new == Received(balances[e.account], Notional(e), Fee(e))
  IN  /\ ~ e.buy /\ Valid(e)
      /\ CloseOrReduce(e)
      /\ RecordRealized(e)
      /\ balances' = [balances EXCEPT ![e.account] = new]
      /\ Record(e, Cash(balances[e.account]), Cash(new))
      /\ Conclude("Success")
      /\ UNCHANGED opened

Next ==
  \/ \E a \in Accounts : OpenAccount(a)
  \/ \E e \in Fills : Reject(e) \/ SettleBuy(e) \/ SettleSell(e)

Spec == Init /\ [][Next]_vars

--------------------------------------------------------------------------------
Balance == [available : Nat, frozen : Nat]

Position == [quantity : Nat, cost : Int, realized : Int]

Entry == [account : Accounts, kind : {"Fill", "Fee"}, amount : Int, before : Int, after : Int]

(* The types of the state; balances are never negative.                    *)
TypeOK ==
  /\ opened \subseteq Accounts
  /\ balances \in [Accounts -> Balance]
  /\ positions \in [Books -> Position]
  /\ closed \in Int /\ realized \in Int
  /\ ledger \in Seq(Entry) /\ stored \subseteq Nat
  /\ results \in Seq({"Success", "ValidationFailed", "BalanceFailed"})

FeesRecorded ==
  SumFunction([i \in DOMAIN ledger |-> IF ledger[i].kind = "Fee" THEN - ledger[i].amount ELSE 0])

(* A fee's entry follows that of its fill; both are debits.                *)
NoFeeExceedsItsFill ==
  \A i \in 2 .. Len(ledger) : ledger[i].kind = "Fee" => ledger[i - 1].amount <= ledger[i].amount

InCash == SumFunction([a \in Accounts |-> Cash(balances[a])])

Invested == SumFunction([k \in Books |-> positions[k].cost])

(* What the accounts started with and the trades gained is in cash and in  *)
(* open positions, but for the fees: no order of fills of any accounts     *)
(* makes or loses money between the balances and the positions.  A buyer   *)
(* pays the recorded fee up to twice; less than was recorded is paid only  *)
(* where a sale brings less than its fee and the account is empty.         *)
MoneyIsConserved ==
  LET spent == Cardinality(opened) * Capital + realized - InCash - Invested
  IN  /\ spent \in 0 .. 2 * FeesRecorded
      /\ NoFeeExceedsItsFill => spent >= FeesRecorded

(* The accumulated profit is that of the open and the closed positions.    *)
ProfitIsThePositions ==
  realized = closed + SumFunction([k \in Books |-> positions[k].realized])

(* A fill that passes validation is settled to its end: validation counts  *)
(* frozen money that freezing cannot use, and a fill that failed between   *)
(* them would leave a position nobody paid for.                            *)
NoFillHalfSettled == \A i \in 1 .. Len(results) : results[i] # "BalanceFailed"

FillsOf(a) == { i \in 1 .. Len(ledger) : ledger[i].kind = "Fill" /\ ledger[i].account = a }

(* The fills of an account in the ledger continue one another: each starts *)
(* from the balance the one before it left, the last left what there is.   *)
LedgerContinues ==
  \A a \in Accounts : \A i \in FillsOf(a) :
    /\ (\A j \in FillsOf(a) : j <= i) => ledger[i].after = Cash(balances[a])
    /\ \A j \in FillsOf(a) :
         i < j /\ (\A k \in FillsOf(a) : k <= i \/ j <= k) => ledger[j].before = ledger[i].after

(* Every ledger entry has reached the repository when a fill is done.      *)
LedgerIsStored == 1 .. Len(ledger) \subseteq stored

====================
