-------------------------- MODULE SettlementProofs --------------------------
(***************************************************************************)
(* What holds of the settlement engine for any accounts, books, prices,    *)
(* quantities, fee rule and capital.                                       *)
(***************************************************************************)
EXTENDS Settlement, SumTheorems

(* Between fills nothing is frozen, an account in the ledger is known, and *)
(* every entry is stored.                                                  *)
IInv ==
  /\ TypeOK
  /\ \A a \in Accounts : balances[a].frozen = 0
  /\ \A i \in 1 .. Len(ledger) : ledger[i].account \in opened
  /\ NoFillHalfSettled
  /\ LedgerIsStored
  /\ LedgerContinues

--------------------------------------------------------------------------------
(* Amounts *)

LEMMA FillTypes ==
  ASSUME NEW e \in Fills
  PROVE  /\ e.account \in Accounts /\ e.book \in Books
         /\ e.price \in Nat /\ e.quantity \in Nat
BY SettlementParameters DEF Fills

LEMMA NotionalType == ASSUME NEW e \in Fills PROVE Notional(e) \in Nat
BY FillTypes DEF Notional

LEMMA FeeType == ASSUME NEW e \in Fills PROVE Fee(e) \in Nat
<1>1. \A n, r \in Nat : (n * r) \div 100 \in Nat
  OBVIOUS
<1>2. RawFee(e) \in Nat
  BY <1>1, NotionalType, SettlementParameters DEF RawFee
<1> QED
  BY <1>2, SettlementParameters DEF Fee

--------------------------------------------------------------------------------
(* Balances *)

(* Freezing moves money of an account without changing what it holds.      *)
LEMMA FreezeKeepsCash ==
  ASSUME NEW b \in Balance, NEW x \in Nat
  PROVE  Freeze(b, x) \in Balance /\ Cash(Freeze(b, x)) = Cash(b)
BY DEF Freeze, Cash, Least, Balance

(* What was frozen for a fill is used up by paying for it.                 *)
LEMMA PaidThaws ==
  ASSUME NEW b \in Balance, b.frozen = 0, NEW cost \in Nat, NEW fee \in Nat,
         b.available >= cost + fee
  PROVE  /\ Paid(Freeze(b, cost + fee), cost, fee) \in Balance
         /\ Paid(Freeze(b, cost + fee), cost, fee).frozen = 0
<1> DEFINE f == Freeze(b, cost + fee)
           d == Debit(f, cost + fee)
<1>1. f = [available |-> b.available - (cost + fee), frozen |-> cost + fee]
  BY DEF Freeze, Least, Balance
<1>2. /\ d \in Balance /\ d.frozen = 0
  BY <1>1 DEF Debit, Least, Balance
<1> HIDE DEF d
<1>3. ChargeFee(d, fee) \in Balance /\ ChargeFee(d, fee).frozen = 0
  BY <1>2 DEF ChargeFee, Balance
<1> QED
  BY <1>3 DEF Paid, d

LEMMA ReceivedStaysThawed ==
  ASSUME NEW b \in Balance, NEW proceeds \in Nat, NEW fee \in Nat
  PROVE  /\ Received(b, proceeds, fee) \in Balance
         /\ Received(b, proceeds, fee).frozen = b.frozen
<1>1. CASE proceeds > fee
  BY <1>1 DEF Received, Credit, Balance
<1>2. CASE proceeds < fee
  BY <1>2 DEF Received, ChargeFee, Balance
<1>3. CASE proceeds = fee
  BY <1>3 DEF Received, Balance
<1> QED
  BY <1>1, <1>2, <1>3

--------------------------------------------------------------------------------
(* Positions *)

LEMMA ReduceType ==
  ASSUME NEW p \in Position, NEW e \in Fills, p.quantity > 0
  PROVE  Reduce(p, e) \in Position /\ Gain(p, e) \in Int
<1> DEFINE n == Least(e.quantity, p.quantity)
<1>1. n \in Nat /\ n <= p.quantity
  BY FillTypes DEF Least, Position
<1>2. \A c \in Int : \A m, q \in Nat : q > 0 => (c * m) \div q \in Int
  OBVIOUS
<1>3. CostOf(p, n) \in Int
  BY <1>1, <1>2 DEF CostOf, Position
<1>4. n * e.price \in Int
  BY <1>1, FillTypes
<1>5. Gain(p, e) \in Int
  BY <1>3, <1>4 DEF Gain
<1> HIDE DEF n
<1>6. p.quantity - n \in Nat
  BY <1>1 DEF Position
<1>7. p.cost - CostOf(p, n) \in Int /\ p.realized + Gain(p, e) \in Int
  BY <1>3, <1>5 DEF Position
<1> QED
  BY <1>5, <1>6, <1>7 DEF Reduce, Position, n

LEMMA AddFillType ==
  ASSUME NEW p \in Position, NEW e \in Fills
  PROVE  AddFill(p, e) \in Position
BY FillTypes, NotionalType DEF AddFill, Position

--------------------------------------------------------------------------------
(* The ledger *)

(* A settled fill appends its entry, and one for its fee if it has any.    *)
LEMMA EntriesType ==
  ASSUME NEW e \in Fills, NEW before \in Int, NEW after \in Int
  PROVE  LET es == Entries(e, before, after)
         IN  /\ es \in Seq(Entry)
             /\ Len(es) \in 1 .. 2
             /\ \A i \in 1 .. Len(es) : es[i].account = e.account
             /\ es[1].kind = "Fill" /\ es[1].before = before /\ es[1].after = after
             /\ Len(es) = 2 => es[2].kind = "Fee"
<1> DEFINE fill == [account |-> e.account, kind |-> "Fill", amount |-> - Notional(e),
                    before |-> before, after |-> after]
           fee  == [account |-> e.account, kind |-> "Fee", amount |-> - Fee(e),
                    before |-> before, after |-> after - Fee(e)]
<1>1. fill \in Entry /\ fee \in Entry
  BY FillTypes, NotionalType, FeeType DEF Entry
<1>2. Entries(e, before, after) = IF Fee(e) > 0 THEN <<fill, fee>> ELSE <<fill>>
  BY DEF Entries
<1>3. /\ fill.kind = "Fill" /\ fill.before = before /\ fill.after = after /\ fill.account = e.account
      /\ fee.kind = "Fee" /\ fee.account = e.account
  OBVIOUS
<1> HIDE DEF fill, fee
<1>4. CASE Fee(e) > 0
  BY <1>1, <1>2, <1>3, <1>4
<1>5. CASE ~ (Fee(e) > 0)
  BY <1>1, <1>2, <1>3, <1>5
<1> QED
  BY <1>4, <1>5

(* Recording a fill of an account whose balance changes with it keeps what *)
(* IInv says of the ledger.                                                *)
LEMMA RecordStep ==
  ASSUME TypeOK, LedgerIsStored, LedgerContinues,
         \A i \in 1 .. Len(ledger) : ledger[i].account \in opened,
         NEW e \in Fills, e.account \in opened,
         NEW new \in Balance,
         balances' = [balances EXCEPT ![e.account] = new],
         opened' = opened,
         Record(e, Cash(balances[e.account]), Cash(new))
  PROVE  /\ ledger' \in Seq(Entry) /\ stored' \subseteq Nat
         /\ LedgerIsStored' /\ LedgerContinues'
         /\ \A i \in 1 .. Len(ledger') : ledger'[i].account \in opened'
<1> DEFINE before == Cash(balances[e.account])
           after  == Cash(new)
           es     == Entries(e, before, after)
           n      == Len(ledger)
<1>1. before \in Int /\ after \in Int
  BY FillTypes DEF TypeOK, Cash, Balance
<1>2. /\ es \in Seq(Entry)
      /\ Len(es) \in 1 .. 2
      /\ \A i \in 1 .. Len(es) : es[i].account = e.account
      /\ es[1].kind = "Fill" /\ es[1].before = before /\ es[1].after = after
      /\ Len(es) = 2 => es[2].kind = "Fee"
  BY <1>1, EntriesType
<1>3. ledger \in Seq(Entry) /\ n \in Nat
  BY DEF TypeOK
<1>4. ledger' = ledger \o es /\ stored' = stored \cup Recent(ledger')
  BY DEF Record
<1> HIDE DEF es, before, after
<1>5. /\ ledger' \in Seq(Entry) /\ Len(ledger') = n + Len(es)
      /\ \A i \in 1 .. n : ledger'[i] = ledger[i]
      /\ ledger'[n + 1] = es[1]
      /\ Len(es) = 2 => ledger'[n + 2] = es[2]
  BY <1>2, <1>3, <1>4
<1>6. \A i \in 1 .. Len(ledger') : i \in 1 .. n \/ i = n + 1 \/ (i = n + 2 /\ Len(es) = 2)
  <2> DEFINE m == Len(es)  l == Len(ledger')
  <2>1. m \in 1 .. 2 /\ l = n + m /\ n \in Nat
    BY <1>2, <1>3, <1>5
  <2> HIDE DEF m, l, n
  <2>2. \A i \in 1 .. l : i \in 1 .. n \/ i = n + 1 \/ (i = n + 2 /\ m = 2)
    BY <2>1
  <2> QED
    BY <2>2 DEF m, l, n
<1>7. stored' \subseteq Nat /\ LedgerIsStored'
  <2> DEFINE l == Len(ledger')
  <2>1. l \in Nat /\ l - 2 <= n /\ n \in Nat
    <3> DEFINE m == Len(es)
    <3>1. m \in 1 .. 2 /\ l = n + m /\ n \in Nat
      BY <1>2, <1>3, <1>5
    <3> HIDE DEF m, l, n
    <3> QED
      BY <3>1
  <2>2. stored' = stored \cup { i \in 1 .. l : i > l - 2 }
    BY <1>4 DEF Recent
  <2>3. stored \subseteq Nat /\ 1 .. n \subseteq stored
    BY DEF TypeOK, LedgerIsStored
  <2> HIDE DEF l, n
  <2>4. ASSUME NEW i \in 1 .. l PROVE i \in stored'
    <3>1. i \in 1 .. n \/ i > l - 2
      BY <2>1
    <3> QED
      BY <3>1, <2>2, <2>3
  <2>5. stored' \subseteq Nat
    <3>1. 1 .. l \subseteq Nat
      BY <2>1
    <3> QED
      BY <3>1, <2>2, <2>3
  <2> QED
    BY <2>4, <2>5 DEF LedgerIsStored, l
<1>8. \A i \in 1 .. Len(ledger') : ledger'[i].account \in opened'
  BY <1>2, <1>5, <1>6
<1>9. \A a \in Accounts :
        FillsOf(a)' = FillsOf(a) \cup (IF a = e.account THEN {n + 1} ELSE {})
  <2> SUFFICES ASSUME NEW a \in Accounts, NEW i \in Int
               PROVE  i \in FillsOf(a)' <=> i \in FillsOf(a) \/ (a = e.account /\ i = n + 1)
    BY DEF FillsOf
  <2>1. CASE i \in 1 .. n
    BY <2>1, <1>2, <1>3, <1>5 DEF FillsOf
  <2>2. CASE i = n + 1
    BY <2>2, <1>2, <1>3, <1>5 DEF FillsOf
  <2>3. CASE i = n + 2
    BY <2>3, <1>2, <1>3, <1>5 DEF FillsOf
  <2> QED
    BY <2>1, <2>2, <2>3, <1>3, <1>6 DEF FillsOf
<1>10. LedgerContinues'
  <2> SUFFICES ASSUME NEW a \in Accounts, NEW i \in FillsOf(a)'
               PROVE  /\ (\A j \in FillsOf(a)' : j <= i) => ledger'[i].after = Cash(balances'[a])
                      /\ \A j \in FillsOf(a)' :
                           i < j /\ (\A k \in FillsOf(a)' : k <= i \/ j <= k)
                           => ledger'[j].before = ledger'[i].after
    BY DEF LedgerContinues
  <2>1. \A j \in FillsOf(a) : j \in 1 .. n /\ ledger'[j] = ledger[j]
    BY <1>5 DEF FillsOf
  <2>2. CASE a # e.account
    <3>1. FillsOf(a)' = FillsOf(a) /\ balances'[a] = balances[a]
      BY <2>2, <1>9 DEF TypeOK
    <3> QED
      BY <3>1, <2>1 DEF LedgerContinues
  <2>3. CASE a = e.account
    <3>1. FillsOf(a)' = FillsOf(a) \cup {n + 1} /\ balances'[a] = new
      BY <2>3, <1>9 DEF TypeOK
    <3>2. /\ ledger'[n + 1].before = Cash(balances[a])
          /\ ledger'[n + 1].after = Cash(balances'[a])
      BY <2>3, <3>1, <1>2, <1>5 DEF before, after
    <3>3. CASE i = n + 1
      BY <3>1, <3>2, <3>3, <2>1, <1>3
    <3>4. CASE i \in FillsOf(a)
      <4>1. i \in 1 .. n /\ ~ (n + 1 <= i)
        BY <3>4, <2>1, <1>3
      <4>2. ASSUME NEW j \in FillsOf(a)', i < j, \A k \in FillsOf(a)' : k <= i \/ j <= k
            PROVE  ledger'[j].before = ledger'[i].after
        <5>1. CASE j \in FillsOf(a)
          BY <5>1, <4>2, <3>1, <3>4, <2>1 DEF LedgerContinues
        <5>2. CASE j = n + 1
          <6>1. \A k \in FillsOf(a) : k <= i
            BY <5>2, <4>2, <3>1, <2>1, <1>3
          <6>2. ledger[i].after = Cash(balances[a])
            BY <6>1, <3>4 DEF LedgerContinues
          <6> QED
            BY <6>2, <5>2, <3>2, <3>4, <2>1
        <5> QED
          BY <5>1, <5>2, <3>1
      <4> QED
        BY <4>1, <4>2, <3>1
    <3> QED
      BY <3>1, <3>3, <3>4
  <2> QED
    BY <2>2, <2>3
<1> QED
  BY <1>5, <1>7, <1>8, <1>10

--------------------------------------------------------------------------------
(* The steps *)

LEMMA InitIInv == Init => IInv
<1> SUFFICES ASSUME Init PROVE IInv
  OBVIOUS
<1> USE SettlementParameters DEF Init
<1>1. TypeOK
  BY DEF TypeOK, NewBalance, NoPosition, Balance, Position
<1>2. \A a \in Accounts : balances[a].frozen = 0
  BY DEF NewBalance
<1>3. NoFillHalfSettled /\ LedgerIsStored /\ LedgerContinues
  BY DEF NoFillHalfSettled, LedgerIsStored, LedgerContinues, FillsOf
<1> QED
  BY <1>1, <1>2, <1>3 DEF IInv

(* A new account has no fills in the ledger that its balance should        *)
(* continue.                                                               *)
LEMMA OpenStep == ASSUME IInv, NEW a \in Accounts, OpenAccount(a) PROVE IInv'
<1> USE SettlementParameters DEF IInv, OpenAccount
<1>1. NewBalance(Capital) \in Balance /\ NewBalance(Capital).frozen = 0
  BY DEF NewBalance, Balance
<1>2. TypeOK'
  BY <1>1 DEF TypeOK
<1>3. \A c \in Accounts : balances'[c].frozen = 0
  BY <1>1 DEF TypeOK
<1>4. \A i \in 1 .. Len(ledger') : ledger'[i].account \in opened'
  OBVIOUS
<1>5. NoFillHalfSettled' /\ LedgerIsStored'
  BY DEF NoFillHalfSettled, LedgerIsStored
<1>6. LedgerContinues'
  <2>1. \A c \in Accounts : FillsOf(c)' = FillsOf(c) /\ (c # a => balances'[c] = balances[c])
    BY DEF FillsOf, TypeOK
  <2>2. FillsOf(a) = {}
    BY DEF FillsOf
  <2> QED
    BY <2>1, <2>2 DEF LedgerContinues
<1> QED
  BY <1>2, <1>3, <1>4, <1>5, <1>6

(* A settlement that is concluded as status keeps what IInv says of the    *)
(* results, unless it failed half way.                                     *)
LEMMA ConcludeStep ==
  ASSUME IInv, NEW status \in {"Success", "ValidationFailed"}, Conclude(status)
  PROVE  /\ results' \in Seq({"Success", "ValidationFailed", "BalanceFailed"})
         /\ NoFillHalfSettled'
<1>1. results \in Seq({"Success", "ValidationFailed", "BalanceFailed"})
  BY DEF IInv, TypeOK
<1>2. results' = Append(results, status)
  BY DEF Conclude
<1>3. /\ Len(results') = Len(results) + 1
      /\ \A i \in 1 .. Len(results) : results'[i] = results[i]
      /\ results'[Len(results) + 1] = status
  BY <1>1, <1>2
<1> QED
  BY <1>1, <1>2, <1>3 DEF IInv, NoFillHalfSettled

LEMMA RejectStep == ASSUME IInv, NEW e \in Fills, Reject(e) PROVE IInv'
<1>1. /\ results' \in Seq({"Success", "ValidationFailed", "BalanceFailed"})
      /\ NoFillHalfSettled'
  BY ConcludeStep DEF Reject
<1>2. UNCHANGED <<opened, balances, positions, closed, realized, ledger, stored>>
  BY DEF Reject
<1> QED
  BY <1>1, <1>2 DEF IInv, TypeOK, LedgerIsStored, LedgerContinues, FillsOf

(* Since nothing is frozen, a valid buy can be paid from what is available.*)
LEMMA BuyStep == ASSUME IInv, NEW e \in Fills, SettleBuy(e) PROVE IInv'
<1> DEFINE old   == balances[e.account]
           total == Notional(e) + Fee(e)
           new   == Paid(Freeze(old, total), Notional(e), Fee(e))
<1>1. /\ e.account \in Accounts /\ e.account \in opened /\ e.book \in Books
      /\ Notional(e) \in Nat /\ Fee(e) \in Nat /\ total \in Nat
      /\ old \in Balance /\ old.frozen = 0
  BY FillTypes, NotionalType, FeeType DEF IInv, TypeOK, SettleBuy, Valid
<1>2. old.available >= total
  <2>1. Cash(old) >= total
    BY DEF SettleBuy, Valid, Affordable
  <2> QED
    BY <2>1, <1>1 DEF Cash, Balance
<1>3. new \in Balance /\ new.frozen = 0
  BY <1>1, <1>2, PaidThaws
<1>4. ~ (old.available < total)
  BY <1>1, <1>2 DEF Balance
<1>5. /\ balances' = [balances EXCEPT ![e.account] = new]
      /\ Record(e, Cash(Freeze(old, total)), Cash(new))
      /\ Conclude("Success")
      /\ positions' = [positions EXCEPT ![e.book] = AddFill(@, e)]
      /\ UNCHANGED <<opened, closed, realized>>
  BY <1>4 DEF SettleBuy, OpenOrAdd
<1>6. Cash(Freeze(old, total)) = Cash(old)
  BY <1>1, FreezeKeepsCash
<1> HIDE DEF new, total
<1>7. /\ ledger' \in Seq(Entry) /\ stored' \subseteq Nat
      /\ LedgerIsStored' /\ LedgerContinues'
      /\ \A i \in 1 .. Len(ledger') : ledger'[i].account \in opened'
  BY <1>1, <1>3, <1>5, <1>6, RecordStep DEF IInv
<1>8. /\ results' \in Seq({"Success", "ValidationFailed", "BalanceFailed"})
      /\ NoFillHalfSettled'
  BY <1>5, ConcludeStep
<1>9. positions' \in [Books -> Position]
  BY <1>5, <1>1, AddFillType DEF IInv, TypeOK
<1>10. balances' \in [Accounts -> Balance] /\ \A a \in Accounts : balances'[a].frozen = 0
  BY <1>1, <1>3, <1>5 DEF IInv, TypeOK
<1> QED
  BY <1>5, <1>7, <1>8, <1>9, <1>10 DEF IInv, TypeOK

LEMMA SellStep == ASSUME IInv, NEW e \in Fills, SettleSell(e) PROVE IInv'
<1> DEFINE old  == balances[e.account]
           p    == positions[e.book]
           left == Reduce(p, e)
           new  == Received(old, Notional(e), Fee(e))
<1>1. /\ e.account \in Accounts /\ e.account \in opened /\ e.book \in Books
      /\ Notional(e) \in Nat /\ Fee(e) \in Nat
      /\ old \in Balance /\ old.frozen = 0
      /\ p \in Position /\ p.quantity > 0
  BY FillTypes, NotionalType, FeeType DEF IInv, TypeOK, SettleSell, Valid, Covered, Position
<1>2. left \in Position /\ Gain(p, e) \in Int
  BY <1>1, ReduceType
<1>3. new \in Balance /\ new.frozen = 0
  BY <1>1, ReceivedStaysThawed
<1>4. /\ balances' = [balances EXCEPT ![e.account] = new]
      /\ Record(e, Cash(old), Cash(new))
      /\ Conclude("Success")
      /\ positions' = [positions EXCEPT ![e.book] = IF left.quantity = 0 THEN NoPosition ELSE left]
      /\ closed' = closed + (IF left.quantity = 0 THEN left.realized ELSE 0)
      /\ realized' = realized + Gain(p, e)
      /\ opened' = opened
  BY DEF SettleSell, CloseOrReduce, RecordRealized
<1> HIDE DEF new, left
<1>5. /\ ledger' \in Seq(Entry) /\ stored' \subseteq Nat
      /\ LedgerIsStored' /\ LedgerContinues'
      /\ \A i \in 1 .. Len(ledger') : ledger'[i].account \in opened'
  BY <1>1, <1>3, <1>4, RecordStep DEF IInv
<1>6. /\ results' \in Seq({"Success", "ValidationFailed", "BalanceFailed"})
      /\ NoFillHalfSettled'
  BY <1>4, ConcludeStep
<1>7. positions' \in [Books -> Position]
  <2>1. NoPosition \in Position
    BY DEF NoPosition, Position
  <2> QED
    BY <2>1, <1>2, <1>4 DEF IInv, TypeOK
<1>8. closed' \in Int /\ realized' \in Int
  BY <1>2, <1>4 DEF IInv, TypeOK, Position
<1>9. balances' \in [Accounts -> Balance] /\ \A a \in Accounts : balances'[a].frozen = 0
  BY <1>1, <1>3, <1>4 DEF IInv, TypeOK
<1> QED
  BY <1>4, <1>5, <1>6, <1>7, <1>8, <1>9 DEF IInv, TypeOK

LEMMA NextIInv == IInv /\ [Next]_vars => IInv'
<1> SUFFICES ASSUME IInv, [Next]_vars PROVE IInv'
  OBVIOUS
<1>1. CASE \E a \in Accounts : OpenAccount(a)
  BY <1>1, OpenStep
<1>2. CASE \E e \in Fills : Reject(e)
  BY <1>2, RejectStep
<1>3. CASE \E e \in Fills : SettleBuy(e)
  BY <1>3, BuyStep
<1>4. CASE \E e \in Fills : SettleSell(e)
  BY <1>4, SellStep
<1>5. CASE UNCHANGED vars
  BY <1>5 DEF vars, IInv, TypeOK, NoFillHalfSettled, LedgerIsStored, LedgerContinues, FillsOf
<1> QED
  BY <1>1, <1>2, <1>3, <1>4, <1>5 DEF Next

(* The inductive invariant holds of every behaviour.                       *)
THEOREM SettlementInvariance == Spec => []IInv
BY InitIInv, NextIInv, PTL DEF Spec

--------------------------------------------------------------------------------
(* For any fee rule and any fills, the state is well typed and no balance  *)
(* becomes negative.                                                       *)
THEOREM SettlementTypes == Spec => []TypeOK
<1>1. IInv => TypeOK
  BY DEF IInv
<1> QED
  BY <1>1, SettlementInvariance, PTL

(* No fill that passed validation fails at the balance, after its position *)
(* was changed (engine.rs:285).                                            *)
THEOREM BuysAreFinished == Spec => []NoFillHalfSettled
<1>1. IInv => NoFillHalfSettled
  BY DEF IInv
<1> QED
  BY <1>1, SettlementInvariance, PTL

(* The ledger's fills of an account continue one another and end in its    *)
(* balance (engine.rs:377).                                                *)
THEOREM LedgerFollowsBalance == Spec => []LedgerContinues
<1>1. IInv => LedgerContinues
  BY DEF IInv
<1> QED
  BY <1>1, SettlementInvariance, PTL

(* Storing the last two entries after each fill misses none (engine.rs:409).*)
THEOREM NoEntryMissed == Spec => []LedgerIsStored
<1>1. IInv => LedgerIsStored
  BY DEF IInv
<1> QED
  BY <1>1, SettlementInvariance, PTL
--------------------------------------------------------------------------------
(* Money: what IInv lacks for the two laws over sums *)

(* An account that is not known yet has nothing.                           *)
Laws ==
  /\ \A a \in Accounts \ opened : Cash(balances[a]) = 0
  /\ MoneyIsConserved
  /\ ProfitIsThePositions

(* A sum changes by what one of its members changes.                       *)
LEMMA SumChanged ==
  ASSUME NEW S, IsFiniteSet(S), NEW f \in [S -> Int], NEW x \in S, NEW v \in Int
  PROVE  /\ SumFunction(f) \in Int
         /\ SumFunction([f EXCEPT ![x] = v]) = SumFunction(f) - f[x] + v
<1> DEFINE g == [f EXCEPT ![x] = v]
<1>1. DOMAIN f = S /\ DOMAIN g = S
  OBVIOUS
<1>2. /\ \A y \in S : f[y] \in Int /\ g[y] \in Int
      /\ \A y \in S \ {x} : g[y] = f[y]
      /\ g[x] = v
  OBVIOUS
<1> HIDE DEF g
<1>3. SumFunctionOnSet(g, S) = SumFunctionOnSet(f, S) - f[x] + g[x]
  BY ONLY <1>2, IsFiniteSet(S), x \in S, SumWithChange
<1>4. SumFunctionOnSet(f, S) \in Int
  BY <1>2, SumIsInt
<1>5. SumFunction(f) = SumFunctionOnSet(f, S) /\ SumFunction(g) = SumFunctionOnSet(g, S)
  BY <1>1 DEF SumFunction
<1> QED
  BY <1>2, <1>3, <1>4, <1>5 DEF g

(* Cash follows the balance of one account, the cost and the profit of the *)
(* positions follow one book.                                              *)
LEMMA CashChanged ==
  ASSUME TypeOK, NEW a \in Accounts, NEW new \in Balance,
         balances' = [balances EXCEPT ![a] = new]
  PROVE  InCash \in Int /\ InCash' = InCash - Cash(balances[a]) + Cash(new)
<1> DEFINE f == [c \in Accounts |-> Cash(balances[c])]
           g == [c \in Accounts |-> Cash(balances'[c])]
<1>1. \A b \in Balance : Cash(b) \in Int
  BY DEF Cash, Balance
<1>2. f \in [Accounts -> Int] /\ Cash(new) \in Int /\ f[a] = Cash(balances[a])
  BY <1>1 DEF TypeOK
<1>3. g = [f EXCEPT ![a] = Cash(new)]
  BY DEF TypeOK
<1>4. InCash = SumFunction(f) /\ InCash' = SumFunction(g)
  BY DEF InCash
<1>5. IsFiniteSet(Accounts)
  BY SettlementParameters
<1> HIDE DEF f, g
<1>6. /\ SumFunction(f) \in Int
      /\ SumFunction([f EXCEPT ![a] = Cash(new)]) = SumFunction(f) - f[a] + Cash(new)
  BY ONLY <1>2, <1>5, a \in Accounts, SumChanged
<1> QED
  BY <1>2, <1>3, <1>4, <1>6

LEMMA BooksChanged ==
  ASSUME TypeOK, NEW k \in Books, NEW new \in Position,
         positions' = [positions EXCEPT ![k] = new]
  PROVE  LET gains == SumFunction([b \in Books |-> positions[b].realized])
         IN  /\ Invested \in Int /\ Invested' = Invested - positions[k].cost + new.cost
             /\ gains \in Int /\ gains' = gains - positions[k].realized + new.realized
<1> DEFINE f == [b \in Books |-> positions[b].cost]
           g == [b \in Books |-> positions'[b].cost]
           r == [b \in Books |-> positions[b].realized]
           s == [b \in Books |-> positions'[b].realized]
<1>1. \A p \in Position : p.cost \in Int /\ p.realized \in Int
  BY DEF Position
<1>2. /\ f \in [Books -> Int] /\ f[k] = positions[k].cost /\ new.cost \in Int
      /\ r \in [Books -> Int] /\ r[k] = positions[k].realized /\ new.realized \in Int
  BY <1>1 DEF TypeOK
<1>3. g = [f EXCEPT ![k] = new.cost] /\ s = [r EXCEPT ![k] = new.realized]
  BY DEF TypeOK
<1>4. Invested = SumFunction(f) /\ Invested' = SumFunction(g)
  BY DEF Invested
<1>5. IsFiniteSet(Books)
  BY SettlementParameters
<1> HIDE DEF f, g, r, s
<1>6. /\ SumFunction(f) \in Int
      /\ SumFunction([f EXCEPT ![k] = new.cost]) = SumFunction(f) - f[k] + new.cost
  BY ONLY <1>2, <1>5, k \in Books, SumChanged
<1>7. /\ SumFunction(r) \in Int
      /\ SumFunction([r EXCEPT ![k] = new.realized]) = SumFunction(r) - r[k] + new.realized
  BY ONLY <1>2, <1>5, k \in Books, SumChanged
<1>8. Invested \in Int /\ Invested' = Invested - positions[k].cost + new.cost
  BY <1>2, <1>3, <1>4, <1>6
<1>9. SumFunction(r) \in Int /\ SumFunction(s) = SumFunction(r) - positions[k].realized + new.realized
  BY <1>2, <1>3, <1>7
<1> QED
  BY <1>8, <1>9 DEF r, s

LEMMA InvestedType == ASSUME TypeOK PROVE Invested \in Int
<1> DEFINE f == [k \in Books |-> positions[k].cost]
<1>1. \A k \in Books : f[k] \in Int
  BY DEF TypeOK, Position
<1>2. IsFiniteSet(Books) /\ DOMAIN f = Books
  BY SettlementParameters
<1> HIDE DEF f
<1> QED
  BY <1>1, <1>2, SumIsInt DEF Invested, SumFunction, f

FeePart(x) == IF x.kind = "Fee" THEN - x.amount ELSE 0

FeesOf(l) == SumFunction([i \in DOMAIN l |-> FeePart(l[i])])

(* An entry adds its fee to those on record.                               *)
LEMMA FeesOfAppended ==
  ASSUME NEW l \in Seq(Entry), NEW x \in Entry
  PROVE  FeesOf(l) \in Int /\ FeesOf(Append(l, x)) = FeesOf(l) + FeePart(x)
<1> DEFINE n == Len(l)
           S == 1 .. n
           T == S \cup {n + 1}
           m == Append(l, x)
           f == [i \in DOMAIN l |-> FeePart(l[i])]
           g == [i \in DOMAIN m |-> FeePart(m[i])]
<1>1. n \in Nat /\ DOMAIN l = S /\ \A i \in S : l[i] \in Entry
  OBVIOUS
<1>2. /\ DOMAIN m = T /\ m[n + 1] = x
      /\ \A i \in S : m[i] = l[i]
  BY <1>1
<1>3. \A y \in Entry : FeePart(y) \in Int
  BY DEF FeePart, Entry
<1>4. IsFiniteSet(S) /\ n + 1 \notin S
  BY <1>1, FS_Interval
<1>5. /\ \A i \in S : f[i] \in Int /\ g[i] = f[i]
      /\ g[n + 1] = FeePart(x) /\ FeePart(x) \in Int
      /\ DOMAIN f = S /\ DOMAIN g = T
  BY <1>1, <1>2, <1>3
<1>6. FeesOf(l) = SumFunction(f) /\ FeesOf(m) = SumFunction(g)
  BY DEF FeesOf
<1> HIDE DEF f, g, S, m, n
<1>7. SumFunctionOnSet(g, S \cup {n + 1}) = SumFunctionOnSet(f, S) + g[n + 1]
  BY ONLY <1>4, <1>5, SumWithNew
<1>8. SumFunctionOnSet(f, S) \in Int
  BY ONLY <1>4, <1>5, SumIsInt
<1>9. SumFunction(f) = SumFunctionOnSet(f, S) /\ SumFunction(g) = SumFunctionOnSet(g, T)
  BY <1>5 DEF SumFunction
<1> QED
  BY <1>5, <1>6, <1>7, <1>8, <1>9 DEF m

(* The fees on record grow by the fee of the fill.                         *)
LEMMA FeesChanged ==
  ASSUME TypeOK, NEW e \in Fills, NEW before \in Int, NEW after \in Int, Record(e, before, after)
  PROVE  /\ FeesRecorded \in Int /\ FeesRecorded' = FeesRecorded + Fee(e)
         /\ NoFeeExceedsItsFill' => NoFeeExceedsItsFill /\ Fee(e) <= Notional(e)
<1> DEFINE n == Len(ledger)
           fill == [account |-> e.account, kind |-> "Fill", amount |-> - Notional(e),
                    before |-> before, after |-> after]
           fee  == [account |-> e.account, kind |-> "Fee", amount |-> - Fee(e),
                    before |-> before, after |-> after - Fee(e)]
           with == Append(ledger, fill)
<1>1. ledger \in Seq(Entry) /\ n \in Nat
  BY DEF TypeOK
<1>2. /\ Fee(e) \in Nat /\ Notional(e) \in Nat
      /\ fill.kind = "Fill" /\ fill.amount = - Notional(e)
      /\ fee.kind = "Fee" /\ fee.amount = - Fee(e)
      /\ fill \in Entry /\ fee \in Entry
  BY FillTypes, NotionalType, FeeType DEF Entry
<1>3. ledger' = ledger \o (IF Fee(e) > 0 THEN <<fill, fee>> ELSE <<fill>>)
  BY DEF Record, Entries
<1>4. FeePart(fill) = 0 /\ FeePart(fee) = Fee(e)
  BY <1>2 DEF FeePart
<1> HIDE DEF fill, fee
<1>5. with \in Seq(Entry) /\ ledger' = IF Fee(e) > 0 THEN Append(with, fee) ELSE with
  BY <1>1, <1>2, <1>3
<1>6. FeesRecorded = FeesOf(ledger) /\ FeesRecorded' = FeesOf(ledger')
  BY DEF FeesRecorded, FeesOf, FeePart
<1>7. FeesOf(ledger) \in Int /\ FeesOf(with) = FeesOf(ledger)
  BY <1>1, <1>2, <1>4, FeesOfAppended
<1>8. FeesOf(Append(with, fee)) = FeesOf(with) + Fee(e)
  <2> HIDE DEF with
  <2> QED
    BY <1>2, <1>4, <1>5, FeesOfAppended
<1>9. FeesRecorded \in Int /\ FeesRecorded' = FeesRecorded + Fee(e)
  BY <1>2, <1>5, <1>6, <1>7, <1>8
<1>10. /\ Len(ledger') >= n /\ Len(ledger') \in Nat
       /\ \A i \in 1 .. n : ledger'[i] = ledger[i]
  BY <1>1, <1>2, <1>5
<1>11. NoFeeExceedsItsFill' => NoFeeExceedsItsFill
  BY <1>1, <1>10 DEF NoFeeExceedsItsFill
<1>12. ASSUME NoFeeExceedsItsFill', Fee(e) > 0 PROVE Fee(e) <= Notional(e)
  <2>1. /\ ledger'[n + 1] = fill /\ ledger'[n + 2] = fee
        /\ Len(ledger') = n + 2
    BY <1>1, <1>2, <1>5, <1>12
  <2>2. n + 2 \in 2 .. Len(ledger') /\ (n + 2) - 1 = n + 1
    BY <1>1, <2>1
  <2>3. ledger'[n + 1].amount <= ledger'[n + 2].amount
    BY <1>2, <1>12, <2>1, <2>2 DEF NoFeeExceedsItsFill
  <2> QED
    BY <1>2, <2>1, <2>3
<1> QED
  BY <1>2, <1>9, <1>11, <1>12

(* What a fill does to the cash of its account: a buy is charged its fee   *)
(* up to twice, a sale pays its fee as far as there is money.              *)
LEMMA PaidAmount ==
  ASSUME NEW b \in Balance, b.frozen = 0, NEW cost \in Nat, NEW fee \in Nat,
         b.available >= cost + fee
  PROVE  Cash(b) - cost - Cash(Paid(Freeze(b, cost + fee), cost, fee)) \in fee .. 2 * fee
<1> DEFINE f == Freeze(b, cost + fee)
           d == Debit(f, cost + fee)
<1>1. f = [available |-> b.available - (cost + fee), frozen |-> cost + fee]
  BY DEF Freeze, Least, Balance
<1>2. /\ d \in Balance /\ d.frozen = 0
      /\ d.available = b.available - (cost + fee)
  BY <1>1 DEF Debit, Least, Balance
<1>3. Cash(b) = b.available
  BY DEF Cash, Balance
<1> HIDE DEF d
<1>4. /\ Cash(ChargeFee(d, fee)) = IF d.available > fee THEN d.available - fee ELSE 0
      /\ d.available \in Nat
  BY <1>2 DEF ChargeFee, Cash, Balance
<1> QED
  BY <1>2, <1>3, <1>4 DEF Paid, d, Balance

LEMMA ReceivedAmount ==
  ASSUME NEW b \in Balance, b.frozen = 0, NEW proceeds \in Nat, NEW fee \in Nat
  PROVE  LET kept == Cash(b) + proceeds - Cash(Received(b, proceeds, fee))
         IN  kept \in 0 .. fee /\ (fee <= proceeds => kept = fee)
<1>b. b.available \in Nat /\ Cash(b) = b.available
  BY DEF Cash, Balance
<1>1. CASE proceeds > fee
  <2>1. Cash(Received(b, proceeds, fee)) = b.available + (proceeds - fee)
    BY <1>1 DEF Received, Credit, Cash, Balance
  <2> QED
    BY <1>1, <1>b, <2>1
<1>2. CASE proceeds < fee
  <2>1. Received(b, proceeds, fee) = ChargeFee(b, fee - proceeds)
    BY <1>2 DEF Received
  <2>2. Cash(ChargeFee(b, fee - proceeds))
          = IF b.available > fee - proceeds THEN b.available - (fee - proceeds) ELSE 0
    BY DEF ChargeFee, Cash, Balance
  <2> QED
    BY <1>2, <1>b, <2>1, <2>2
<1>3. CASE proceeds = fee
  <2>1. Received(b, proceeds, fee) = b
    BY <1>3 DEF Received
  <2> QED
    BY <1>3, <1>b, <2>1
<1> QED
  BY <1>1, <1>2, <1>3

(* A covered sale takes its share of the cost out of the position and      *)
(* gains the difference; what is sold out leaves no cost behind.           *)
LEMMA ReducedAmounts ==
  ASSUME NEW p \in Position, NEW e \in Fills, p.quantity > 0, e.quantity <= p.quantity
  PROVE  LET left == Reduce(p, e)
         IN  /\ Gain(p, e) = Notional(e) - (p.cost - left.cost)
             /\ left.realized = p.realized + Gain(p, e)
             /\ left.quantity = 0 => left.cost = 0
<1>1. e.quantity \in Nat /\ e.price \in Nat /\ p.quantity \in Nat /\ p.cost \in Int
  BY FillTypes DEF Position
<1>2. Least(e.quantity, p.quantity) = e.quantity
  BY <1>1 DEF Least
<1>3. \A c \in Int : \A m, q \in Nat : q > 0 => (c * m) \div q \in Int
  OBVIOUS
<1>4. CostOf(p, e.quantity) \in Int
  BY <1>1, <1>3 DEF CostOf
<1>5. /\ Reduce(p, e).quantity = p.quantity - e.quantity
      /\ Reduce(p, e).cost = p.cost - CostOf(p, e.quantity)
      /\ Reduce(p, e).realized = p.realized + Gain(p, e)
  BY <1>2 DEF Reduce
<1>6. Gain(p, e) = Notional(e) - CostOf(p, e.quantity)
  BY <1>1, <1>2 DEF Gain, Notional
<1>7. e.quantity = p.quantity => CostOf(p, e.quantity) = p.cost
  <2>1. \A c \in Int : \A q \in Nat : q > 0 => (c * q) \div q = c
    OBVIOUS
  <2> QED
    BY <1>1, <2>1 DEF CostOf
<1>8. Notional(e) \in Nat
  BY NotionalType
<1> QED
  BY <1>1, <1>4, <1>5, <1>6, <1>7, <1>8

--------------------------------------------------------------------------------

Spent == Cardinality(opened) * Capital + realized - InCash - Invested

(* Money stays conserved where what is spent besides grows with the fees.  *)
LEMMA SpentGrows ==
  ASSUME MoneyIsConserved, Spent \in Int, FeesRecorded \in Int,
         NEW fee \in Nat, NEW d \in 0 .. 2 * fee,
         Spent' = Spent + d, FeesRecorded' = FeesRecorded + fee,
         NoFeeExceedsItsFill' => NoFeeExceedsItsFill /\ d >= fee
  PROVE  MoneyIsConserved'
<1>1. /\ Spent \in 0 .. 2 * FeesRecorded
      /\ NoFeeExceedsItsFill => Spent >= FeesRecorded
  BY DEF MoneyIsConserved, Spent
<1>2. /\ Spent' \in 0 .. 2 * FeesRecorded'
      /\ NoFeeExceedsItsFill' => Spent' >= FeesRecorded'
  BY <1>1
<1> QED
  BY <1>2 DEF MoneyIsConserved, Spent

LEMMA Accounted ==
  ASSUME TypeOK
  PROVE  /\ IsFiniteSet(opened) /\ Cardinality(opened) \in Nat
         /\ Capital \in Nat /\ Cardinality(opened) * Capital \in Nat
<1>1. IsFiniteSet(opened)
  BY SettlementParameters, FS_Subset DEF TypeOK
<1>2. Cardinality(opened) \in Nat /\ Capital \in Nat
  BY <1>1, SettlementParameters, FS_CardinalityType
<1>3. \A c, k \in Nat : c * k \in Nat
  OBVIOUS
<1> QED
  BY <1>1, <1>2, <1>3

LEMMA LawsInit == Init => Laws
<1> SUFFICES ASSUME Init PROVE Laws
  OBVIOUS
<1>p. /\ IsFiniteSet(Accounts) /\ IsFiniteSet(Books) /\ DefaultAccount \in Accounts
      /\ Capital \in Nat
  BY SettlementParameters
<1> DEFINE none == [a \in Accounts |-> 0]
           cash == [a \in Accounts |-> Cash(balances[a])]
           cost == [k \in Books |-> positions[k].cost]
           gain == [k \in Books |-> positions[k].realized]
<1>1. \A a \in Accounts : Cash(balances[a]) = IF a = DefaultAccount THEN Capital ELSE 0
  BY <1>p DEF Init, NewBalance, Cash
<1>2. /\ cash = [none EXCEPT ![DefaultAccount] = Capital]
      /\ none \in [Accounts -> Int] /\ none[DefaultAccount] = 0
  BY <1>1, <1>p
<1>3. /\ \A k \in Books : cost[k] = 0 /\ gain[k] = 0
      /\ \A a \in Accounts : none[a] = 0
      /\ DOMAIN cost = Books /\ DOMAIN gain = Books /\ DOMAIN none = Accounts
  BY DEF Init, NoPosition
<1> HIDE DEF none, cash, cost, gain
<1>4. SumFunction(none) = 0 /\ SumFunction(cost) = 0 /\ SumFunction(gain) = 0
  BY <1>p, <1>3, SumOfZeros DEF SumFunction
<1>5. SumFunction(cash) = Capital
  <2>1. SumFunction([none EXCEPT ![DefaultAccount] = Capital])
          = SumFunction(none) - none[DefaultAccount] + Capital
    <3>1. Capital \in Int
      BY <1>p
    <3> QED
      BY ONLY <1>p, <1>2, <3>1, SumChanged
  <2> QED
    BY <1>p, <1>2, <1>4, <2>1
<1>6. FeesRecorded = 0
  <2>1. DOMAIN ledger = {}
    BY DEF Init
  <2> QED
    BY <2>1, SumOfNone DEF FeesRecorded, SumFunction
<1>7. Cardinality(opened) * Capital = Capital
  <2>1. Cardinality(opened) = 1
    BY FS_Singleton DEF Init
  <2> QED
    BY <1>p, <2>1
<1>8. MoneyIsConserved
  <2>1. InCash = Capital /\ Invested = 0 /\ realized = 0
    BY <1>4, <1>5 DEF InCash, Invested, cash, cost, Init
  <2> QED
    BY <1>p, <1>6, <1>7, <2>1 DEF MoneyIsConserved
<1>9. ProfitIsThePositions
  BY <1>4 DEF ProfitIsThePositions, gain, Init
<1>10. \A a \in Accounts \ opened : Cash(balances[a]) = 0
  BY <1>1 DEF Init
<1> QED
  BY <1>8, <1>9, <1>10 DEF Laws

(* What is between the funds and the books does not notice a new account.  *)
LEMMA LawsOpen == ASSUME IInv, Laws, NEW a \in Accounts, OpenAccount(a) PROVE Laws'
<1>t. TypeOK
  BY DEF IInv
<1>1. /\ a \notin opened /\ opened' = opened \cup {a}
      /\ balances' = [balances EXCEPT ![a] = NewBalance(Capital)]
      /\ UNCHANGED <<positions, closed, realized, ledger>>
  BY DEF OpenAccount
<1>2. NewBalance(Capital) \in Balance /\ Cash(NewBalance(Capital)) = Capital /\ Capital \in Nat
  BY SettlementParameters DEF NewBalance, Balance, Cash
<1>3. Cash(balances[a]) = 0
  BY <1>1 DEF Laws
<1>4. InCash \in Int /\ InCash' = InCash - Cash(balances[a]) + Cash(NewBalance(Capital))
  BY <1>t, <1>1, <1>2, CashChanged
<1>5. Cardinality(opened') * Capital = Cardinality(opened) * Capital + Capital
  <2>1. IsFiniteSet(opened) /\ Cardinality(opened) \in Nat
    BY <1>t, Accounted
  <2>2. Cardinality(opened') = Cardinality(opened) + 1
    BY <1>1, <2>1, FS_AddElement
  <2>3. \A c, k \in Nat : (c + 1) * k = c * k + k
    OBVIOUS
  <2> QED
    BY <1>2, <2>1, <2>2, <2>3
<1>6. Invested' = Invested /\ FeesRecorded' = FeesRecorded
  BY <1>1 DEF Invested, FeesRecorded
<1>7. /\ Cardinality(opened) * Capital \in Int
      /\ Cardinality(opened') * Capital + realized' - InCash' - Invested'
           = Cardinality(opened) * Capital + realized - InCash - Invested
  <2>1. Cardinality(opened) * Capital \in Nat
    BY <1>t, Accounted
  <2>2. realized \in Int /\ realized' = realized
    BY <1>t, <1>1 DEF TypeOK
  <2>3. Invested \in Int
    BY <1>t, InvestedType
  <2> QED
    BY <1>2, <1>3, <1>4, <1>5, <1>6, <2>1, <2>2, <2>3
<1>8. MoneyIsConserved'
  BY <1>1, <1>6, <1>7 DEF Laws, MoneyIsConserved, NoFeeExceedsItsFill
<1>9. ProfitIsThePositions'
  BY <1>1 DEF Laws, ProfitIsThePositions
<1>10. \A c \in Accounts \ opened' : Cash(balances'[c]) = 0
  BY <1>t, <1>1 DEF Laws, TypeOK
<1> QED
  BY <1>8, <1>9, <1>10 DEF Laws

LEMMA LawsReject == ASSUME Laws, NEW e \in Fills, Reject(e) PROVE Laws'
  BY DEF Laws, Reject, MoneyIsConserved, ProfitIsThePositions, NoFeeExceedsItsFill, FeesRecorded,
         InCash, Invested

LEMMA LawsBuy == ASSUME IInv, Laws, NEW e \in Fills, SettleBuy(e) PROVE Laws'
<1> DEFINE old   == balances[e.account]
           fee   == Fee(e)
           cost  == Notional(e)
           new   == Paid(Freeze(old, cost + fee), cost, fee)
           p     == positions[e.book]
           d     == Cash(old) - cost - Cash(new)
<1>t. TypeOK
  BY DEF IInv
<1>1. /\ e.account \in Accounts /\ e.account \in opened /\ e.book \in Books
      /\ cost \in Nat /\ fee \in Nat /\ cost + fee \in Nat
      /\ old \in Balance /\ old.frozen = 0
      /\ p \in Position
  BY FillTypes, NotionalType, FeeType DEF IInv, TypeOK, SettleBuy, Valid
<1>2. old.available >= cost + fee
  <2>1. Cash(old) >= cost + fee
    BY DEF SettleBuy, Valid, Affordable
  <2> QED
    BY <2>1, <1>1 DEF Cash, Balance
<1>3. new \in Balance /\ d \in fee .. 2 * fee
  BY <1>1, <1>2, PaidThaws, PaidAmount
<1>4. ~ (old.available < cost + fee)
  BY <1>1, <1>2 DEF Balance
<1>5. /\ balances' = [balances EXCEPT ![e.account] = new]
      /\ Record(e, Cash(Freeze(old, cost + fee)), Cash(new))
      /\ positions' = [positions EXCEPT ![e.book] = AddFill(p, e)]
      /\ UNCHANGED <<opened, closed, realized>>
  BY <1>4 DEF SettleBuy, OpenOrAdd
<1>6. /\ AddFill(p, e) \in Position
      /\ AddFill(p, e).cost = p.cost + cost /\ AddFill(p, e).realized = p.realized
  BY <1>1, AddFillType DEF AddFill
<1>7. Cash(Freeze(old, cost + fee)) \in Int /\ Cash(old) \in Int /\ Cash(new) \in Int
  <2>1. \A b \in Balance : Cash(b) \in Int
    BY DEF Cash, Balance
  <2>2. Freeze(old, cost + fee) \in Balance
    BY <1>1, FreezeKeepsCash
  <2> QED
    BY <1>1, <1>3, <2>1, <2>2
<1> HIDE DEF new, p, old, cost, fee
<1>8. InCash \in Int /\ InCash' = InCash - Cash(old) + Cash(new)
  BY <1>t, <1>1, <1>3, <1>5, CashChanged DEF old
<1>9. /\ Invested \in Int /\ Invested' = Invested + cost
      /\ ProfitIsThePositions => ProfitIsThePositions'
  <2>1. p.cost \in Int /\ p.realized \in Int
    BY <1>1 DEF Position
  <2>2. /\ Invested \in Int /\ Invested' = Invested - p.cost + (p.cost + cost)
        /\ LET gains == SumFunction([b \in Books |-> positions[b].realized])
           IN  gains \in Int /\ gains' = gains - p.realized + p.realized
    BY <1>t, <1>1, <1>5, <1>6, BooksChanged DEF p
  <2> QED
    BY <1>1, <1>5, <2>1, <2>2 DEF ProfitIsThePositions
<1>10. /\ FeesRecorded \in Int /\ FeesRecorded' = FeesRecorded + fee
       /\ NoFeeExceedsItsFill' => NoFeeExceedsItsFill
  BY <1>t, <1>5, <1>7, FeesChanged DEF fee
<1>11. Spent \in Int /\ Spent' = Spent + d
  <2>1. Cardinality(opened) * Capital \in Int /\ realized \in Int
    BY <1>t, Accounted DEF TypeOK
  <2>2. opened' = opened /\ realized' = realized
    BY <1>5
  <2> QED
    BY <1>1, <1>7, <1>8, <1>9, <2>1, <2>2 DEF Spent
<1>12. MoneyIsConserved'
  <2>1. d \in 0 .. 2 * fee /\ d >= fee
    BY <1>1, <1>3
  <2> HIDE DEF d
  <2> QED
    BY <1>1, <1>10, <1>11, <2>1, SpentGrows DEF Laws
<1>13. \A a \in Accounts \ opened' : Cash(balances'[a]) = 0
  BY <1>t, <1>1, <1>5 DEF Laws, TypeOK
<1> QED
  BY <1>9, <1>12, <1>13 DEF Laws

LEMMA LawsSell == ASSUME IInv, Laws, NEW e \in Fills, SettleSell(e) PROVE Laws'
<1> DEFINE old  == balances[e.account]
           fee  == Fee(e)
           cost == Notional(e)
           p    == positions[e.book]
           left == Reduce(p, e)
           rest == IF left.quantity = 0 THEN NoPosition ELSE left
           new  == Received(old, cost, fee)
           d    == Cash(old) + cost - Cash(new)
<1>t. TypeOK
  BY DEF IInv
<1>1. /\ e.account \in Accounts /\ e.account \in opened /\ e.book \in Books
      /\ cost \in Nat /\ fee \in Nat
      /\ old \in Balance /\ old.frozen = 0
      /\ p \in Position /\ p.quantity > 0 /\ e.quantity <= p.quantity
  BY FillTypes, NotionalType, FeeType DEF IInv, TypeOK, SettleSell, Valid, Covered, Position
<1>2. left \in Position /\ Gain(p, e) \in Int
  BY <1>1, ReduceType
<1>3. /\ Gain(p, e) = cost - (p.cost - left.cost)
      /\ left.realized = p.realized + Gain(p, e)
      /\ left.quantity = 0 => left.cost = 0
  BY <1>1, ReducedAmounts
<1>4. new \in Balance /\ d \in 0 .. fee /\ (fee <= cost => d = fee)
  BY <1>1, ReceivedStaysThawed, ReceivedAmount
<1>5. /\ balances' = [balances EXCEPT ![e.account] = new]
      /\ Record(e, Cash(old), Cash(new))
      /\ positions' = [positions EXCEPT ![e.book] = rest]
      /\ closed' = closed + (IF left.quantity = 0 THEN left.realized ELSE 0)
      /\ realized' = realized + Gain(p, e)
      /\ opened' = opened
  BY DEF SettleSell, CloseOrReduce, RecordRealized
<1>6. Cash(old) \in Int /\ Cash(new) \in Int
  BY <1>1, <1>4 DEF Cash, Balance
<1> HIDE DEF new, left, p, old, cost, fee
<1>7. /\ rest \in Position /\ rest.cost = left.cost
      /\ rest.realized = IF left.quantity = 0 THEN 0 ELSE left.realized
  BY <1>2, <1>3 DEF NoPosition, Position
<1> HIDE DEF rest
<1>8. InCash \in Int /\ InCash' = InCash - Cash(old) + Cash(new)
  BY <1>t, <1>1, <1>4, <1>5, CashChanged DEF old
<1>9. p.cost \in Int /\ p.realized \in Int /\ left.cost \in Int /\ left.realized \in Int
  BY <1>1, <1>2 DEF Position
<1>10. /\ Invested \in Int /\ Invested' = Invested - p.cost + rest.cost
       /\ LET gains == SumFunction([b \in Books |-> positions[b].realized])
          IN  gains \in Int /\ gains' = gains - p.realized + rest.realized
  BY <1>t, <1>1, <1>5, <1>7, BooksChanged DEF p
<1>11. ProfitIsThePositions'
  <2> DEFINE gains == SumFunction([b \in Books |-> positions[b].realized])
  <2>1. realized = closed + gains /\ gains \in Int
    BY <1>10 DEF Laws, ProfitIsThePositions
  <2>2. gains' = gains - p.realized + rest.realized
    BY <1>10
  <2>3. closed \in Int /\ realized \in Int
    BY <1>t DEF TypeOK
  <2> HIDE DEF gains
  <2>4. realized' = closed' + gains'
    BY <1>2, <1>3, <1>5, <1>7, <1>9, <2>1, <2>2, <2>3
  <2> QED
    BY <2>4 DEF ProfitIsThePositions, gains
<1>12. /\ FeesRecorded \in Int /\ FeesRecorded' = FeesRecorded + fee
       /\ NoFeeExceedsItsFill' => NoFeeExceedsItsFill /\ fee <= cost
  BY <1>t, <1>5, <1>6, FeesChanged DEF fee, cost
<1>13. Spent \in Int /\ Spent' = Spent + d
  <2>1. Cardinality(opened) * Capital \in Int /\ realized \in Int
    BY <1>t, Accounted DEF TypeOK
  <2>2. opened' = opened /\ realized' = realized + Gain(p, e)
    BY <1>5
  <2>3. Invested' = Invested - p.cost + left.cost
    BY <1>7, <1>10
  <2> QED
    BY <1>1, <1>2, <1>3, <1>6, <1>8, <1>9, <1>10, <2>1, <2>2, <2>3 DEF Spent
<1>14. MoneyIsConserved'
  <2>1. d \in 0 .. 2 * fee /\ (fee <= cost => d >= fee)
    BY <1>1, <1>4
  <2> HIDE DEF d
  <2> QED
    BY <1>1, <1>12, <1>13, <2>1, SpentGrows DEF Laws
<1>15. \A a \in Accounts \ opened' : Cash(balances'[a]) = 0
  BY <1>t, <1>1, <1>5 DEF Laws, TypeOK
<1> QED
  BY <1>11, <1>14, <1>15 DEF Laws

LEMMA LawsNext == IInv /\ Laws /\ [Next]_vars => Laws'
<1> SUFFICES ASSUME IInv, Laws, [Next]_vars PROVE Laws'
  OBVIOUS
<1>1. CASE \E a \in Accounts : OpenAccount(a)
  BY <1>1, LawsOpen
<1>2. CASE \E e \in Fills : Reject(e)
  BY <1>2, LawsReject
<1>3. CASE \E e \in Fills : SettleBuy(e)
  BY <1>3, LawsBuy
<1>4. CASE \E e \in Fills : SettleSell(e)
  BY <1>4, LawsSell
<1>5. CASE UNCHANGED vars
  BY <1>5 DEF vars, Laws, MoneyIsConserved, ProfitIsThePositions, NoFeeExceedsItsFill, FeesRecorded,
              InCash, Invested
<1> QED
  BY <1>1, <1>2, <1>3, <1>4, <1>5 DEF Next

LEMMA LawsHold == Spec => []Laws
BY LawsInit, LawsNext, SettlementInvariance, PTL DEF Spec

(* For any accounts, books, fills and fee rule: what the accounts started  *)
(* with and the trades gained is in cash and in positions, but for the     *)
(* fees, whichever account sells what another one bought (engine.rs:171).  *)
THEOREM MoneyConserved == Spec => []MoneyIsConserved
<1>1. Laws => MoneyIsConserved
  BY DEF Laws
<1> QED
  BY <1>1, LawsHold, PTL

(* The accumulated profit is that of the positions, open and closed        *)
(* (pnl.rs:98, types.rs:309).                                              *)
THEOREM ProfitAccounted == Spec => []ProfitIsThePositions
<1>1. Laws => ProfitIsThePositions
  BY DEF Laws
<1> QED
  BY <1>1, LawsHold, PTL
================================================================================
