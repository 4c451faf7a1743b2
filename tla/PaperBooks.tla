----------------------------- MODULE PaperBooks -----------------------------
(***************************************************************************)
(* The books of the paper trading engine: the portfolio's money and        *)
(* positions, the risk manager's checks, and the questions the engine      *)
(* lists beside the portfolio's positions.                                 *)
(*                                                                         *)
(* An operator takes the books before a call and returns those after it.   *)
(* Money and shares are whole numbers, prices are in ticks.  The list of   *)
(* positions is a function from the number of the order that opened one:   *)
(* the list is in that order.                                              *)
(***************************************************************************)
EXTENDS Integers, FiniteSetsExt, Functions

CONSTANTS
  PaperCapital,      \* initial_capital
  PositionSize,      \* what a position costs
  MaxPositions,
  MaxLoss            \* max_daily_loss

ASSUME PaperParameters == {PaperCapital, PositionSize, MaxPositions, MaxLoss} \subseteq Nat

(* Mutant: the numbers of a run start at one.                              *)
NewBooks_FromOne(base) ==
  [cash |-> PaperCapital, locked |-> 0, realized |-> 0, held |-> << >>, questions |-> {},
   daily |-> 0, value |-> PaperCapital, counter |-> 0]

NewBooks(base) ==
  [cash |-> PaperCapital, locked |-> 0, realized |-> 0, held |-> << >>, questions |-> {},
   daily |-> 0, value |-> PaperCapital, counter |-> base]

CostBasis(pos) == pos.quantity * pos.price

Unrealized(pos) == pos.quantity * (pos.mark - pos.price)

(* The positions in a question; calls work on the first.                   *)
In(held, q) == { i \in DOMAIN held : held[i].question = q }

RiskRefuses(b, p) ==
  \/ p = 0
  \/ Cardinality(b.questions) >= MaxPositions
  \/ b.cash < PositionSize
  \/ -b.daily > MaxLoss

NewPosition(q, p) == [question |-> q, price |-> p, quantity |-> PositionSize \div p, mark |-> p]

Opened(b, q, p) ==
  LET pos == NewPosition(q, p)
      id  == b.counter + 1
  IN  [b EXCEPT !.counter   = id,
                !.cash      = @ - CostBasis(pos),
                !.locked    = @ + CostBasis(pos),
                !.held      = [i \in DOMAIN @ \cup {id} |-> IF i = id THEN pos ELSE @[i]],
                !.questions = @ \cup {q}]

Marked(b, q, p) ==
  IF In(b.held, q) = {} THEN b ELSE [b EXCEPT !.held[Min(In(b.held, q))].mark = p]

Revalued(b) ==
  [b EXCEPT !.value = b.cash + b.locked + SumFunction([i \in DOMAIN b.held |-> Unrealized(b.held[i])])]

CanClose(b, q) == q \in b.questions /\ In(b.held, q) # {}

(* Mutant: the lock is released for what the position sold for.            *)
Freed_Proceeds(pos, p) == pos.quantity * p

Freed(pos, p) == CostBasis(pos)

Closed(b, q, p) ==
  LET id     == Min(In(b.held, q))
      pos    == b.held[id]
      profit == pos.quantity * (p - pos.price)
  IN  [b EXCEPT !.counter   = @ + 1,
                !.cash      = @ + pos.quantity * p,
                !.locked    = @ - Freed(pos, p),
                !.realized  = @ + profit,
                !.daily     = @ + profit,
                !.held      = [i \in DOMAIN @ \ {id} |-> @[i]],
                !.questions = @ \ {q}]

(* Mutant: the question of a sold position stays listed.                   *)
AfterClose_StillListed(b, q, p) ==
  IF CanClose(b, q) THEN [Closed(b, q, p) EXCEPT !.questions = b.questions] ELSE b

(* The question is dropped before the position is looked for.              *)
AfterClose(b, q, p) ==
  IF CanClose(b, q) THEN Closed(b, q, p) ELSE [b EXCEPT !.questions = @ \ {q}]

(* A row of paper_portfolio.csv.                                           *)
Figures(b) == [cash |-> b.cash, locked |-> b.locked, value |-> b.value,
               open |-> Cardinality(DOMAIN b.held)]

================================================================================
