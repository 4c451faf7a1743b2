------------------------------ MODULE ScanLoop ------------------------------
(***************************************************************************)
(* The scanner's loop: one scan fetches the markets, tells the tracker and *)
(* the strategy what it found, closes what it no longer finds, lets the    *)
(* execution simulator go on and appends what happened to the CSV files.   *)
(* The strategy trades every opportunity three times over: as a shadow     *)
(* trade, on paper, and through the execution simulator.                   *)
(*                                                                         *)
(* The memory of all of them is lost when the program stops; the files     *)
(* stay, and the next run numbers its orders from their row counts.        *)
(***************************************************************************)
EXTENDS PaperBooks, SequencesExt

CONSTANTS
  Questions, Prices,
  QueueSize,         \* capacity of the opportunity engine's queue
  MaxAge,            \* max_opportunity_age_secs, in scans; 0: no limit
  Slips, Capital, OrderNotional, MaxPendingOrders, Params,   \* ExecutionEngine's
  MaxOrders,         \* bound: numbers of execution orders
  MaxBoots           \* bound: starts of the program

ASSUME LoopParameters ==
  /\ {QueueSize, MaxAge, MaxBoots} \subseteq Nat /\ QueueSize > 0
  /\ Prices \subseteq Nat /\ IsFiniteSet(Questions)

(* What ExecutionEngine assumes of its parameters.                         *)
ASSUME SimulatorParameters ==
  /\ {Capital, OrderNotional, MaxPendingOrders, MaxOrders} \subseteq Nat
  /\ Slips \subseteq Nat /\ Params \subseteq [maxWait : Nat, maxDelay : Nat]
  /\ OrderNotional > 0
  /\ \A p \in Prices \ {0} : (OrderNotional \div p) * p = OrderNotional

VARIABLES
  phase,         \* where the loop is
  tracker,       \* tracked question -> its age and last price
  todo,          \* found in this scan and not looked at yet: question -> price
  seen,          \* found in this scan
  finishing,     \* ended in this scan and not closed yet: question -> last price
  trades,        \* the shadow engine
  paper,         \* the paper engine's books
  events,        \* rows to be written at the end of the scan
  saved,         \* last_saved_hash, and the last row of paper_portfolio.csv
  files,         \* rows of the CSV files
  boots,
  bootRows,      \* history: rows of paper_orders.csv at the start of this run
  killed,        \* history: whether a run was ever killed in the middle of a scan
  audited        \* history: rows of paper_orders.csv an audit has counted in this scan

VARIABLES params, counter, pending, terminal, open, realized, available, pendingCash, stats,
          overwritten

Exec == INSTANCE ExecutionEngine

scanVars == <<tracker, todo, seen, finishing>>
bookVars == <<trades, paper, events>>
fileVars == <<saved, files>>
runVars  == <<boots, bootRows, killed>>
execVars == <<params, counter, pending, terminal, open, realized, available, pendingCash,
              stats, overwritten>>
vars == <<phase, scanVars, bookVars, fileVars, runVars, audited, execVars>>

NoAudit == -1

Idle == "idle"

(* Mutant: a closed position is written before the order that closed it.   *)
Steps_PositionsFirst ==
  <<"detected", "lifecycles", "trades", "positions", "closes", "opens", "portfolio", "orders">>

Steps == <<"detected", "lifecycles", "trades", "closes", "positions", "opens", "portfolio", "orders">>

Phases == {Idle, "observe", "close"} \cup Range(Steps)

NoEvents == [detected |-> 0, lifecycles |-> 0, trades |-> << >>, closes |-> << >>, opens |-> << >>]

NoRows == [detected |-> 0, lifecycles |-> 0, trades |-> << >>, orders |-> << >>, positions |-> 0,
           execution |-> 0]

Init ==
  /\ phase = Idle
  /\ tracker = << >> /\ todo = << >> /\ seen = {} /\ finishing = << >>
  /\ trades = [open |-> << >>, counter |-> 0, total |-> 0]
  /\ paper = NewBooks(0)
  /\ events = NoEvents
  /\ saved = << >>
  /\ files = NoRows
  /\ boots = 1 /\ bootRows = 0 /\ killed = FALSE
  /\ audited = NoAudit
  /\ Exec!Init

--------------------------------------------------------------------------------
(* Finding opportunities *)

Tracked == DOMAIN tracker

Put(f, q, v) == [x \in DOMAIN f \cup {q} |-> IF x = q THEN v ELSE f[x]]
Drop(f, q)   == [x \in DOMAIN f \ {q} |-> f[x]]

(* What the engine reports of markets below the threshold, some of which   *)
(* score well: as many of the latter as the queue holds, and without any   *)
(* of them the driver falls back to all markets below the threshold.       *)
Reports(good, poor) ==
  IF good = {} THEN {poor} ELSE { r \in SUBSET good : Cardinality(r) = Min({QueueSize, Cardinality(good)}) }

(* A scan needs an order to close what is tracked, two for what is new.    *)
Room(report) ==
  counter + Cardinality(Tracked) + 2 * Cardinality(report \ Tracked) <= MaxOrders

Aged == [q \in Tracked |-> [tracker[q] EXCEPT !.age = Min({@ + 1, MaxAge + 1})]]

(* The scanner does not know of an audit: what one has counted is history, *)
(* and the counts of an audit that a scan overtakes are not judged.        *)
Fetch ==
  /\ phase = Idle
  /\ \E good \in SUBSET Questions : \E poor \in SUBSET (Questions \ good) :
       \E report \in Reports(good, poor) : \E price \in [report -> Prices] :
         /\ Room(report)
         /\ todo' = price
         /\ seen' = report
  /\ tracker' = Aged
  /\ phase' = "observe"
  /\ audited' = NoAudit
  /\ UNCHANGED <<finishing, bookVars, fileVars, runVars, execVars>>

(* The request fails or brings no markets: the round is skipped.           *)
LostRound ==
  /\ phase = Idle
  /\ tracker' = Aged
  /\ UNCHANGED <<phase, todo, seen, finishing, bookVars, fileVars, runVars, audited, execVars>>

--------------------------------------------------------------------------------
(* The strategy's hooks *)

Row(id, q, side) == [id |-> id, question |-> q, side |-> side]

(* Mutant: a trade takes the number of the last one.                       *)
Traded_SameNumber(q) ==
  IF q \in DOMAIN trades.open THEN trades ELSE [trades EXCEPT !.open = Put(@, q, trades.counter)]

Traded(q) ==
  IF q \in DOMAIN trades.open THEN trades
  ELSE [trades EXCEPT !.counter = @ + 1, !.open = Put(@, q, trades.counter + 1)]

(* A new opportunity is tracked, recorded and bought three times.          *)
ObserveNew(q) ==
  LET p == todo[q]
      refused == RiskRefuses(paper, p)
  IN  /\ phase = "observe" /\ q \in DOMAIN todo \ Tracked
      /\ tracker' = Put(tracker, q, [age |-> 0, price |-> p])
      /\ todo' = Drop(todo, q)
      /\ trades' = Traded(q)
      /\ paper' = IF refused THEN paper ELSE Opened(paper, q, p)
      /\ events' = [events EXCEPT !.detected = @ + 1,
                                  !.opens = IF refused THEN @ ELSE Append(@, Row(paper'.counter, q, "Buy"))]
      /\ Exec!SubmitBuy(q, p) \/ Exec!RejectBuy(p)
      /\ UNCHANGED <<phase, seen, finishing, fileVars, runVars, audited>>

ObserveKnown(q) ==
  /\ phase = "observe" /\ q \in DOMAIN todo \cap Tracked
  /\ tracker' = [tracker EXCEPT ![q].price = todo[q]]
  /\ todo' = Drop(todo, q)
  /\ paper' = Marked(paper, q, todo[q])
  /\ UNCHANGED <<phase, seen, finishing, trades, events, fileVars, runVars, audited, execVars>>

(* What was not found again has ended, and what is too old has to.         *)
Ended == { q \in Tracked : q \notin seen \/ (MaxAge > 0 /\ tracker[q].age > MaxAge) }

Reap ==
  /\ phase = "observe" /\ DOMAIN todo = {}
  /\ finishing' = [q \in Ended |-> tracker[q].price]
  /\ tracker' = [q \in Tracked \ Ended |-> tracker[q]]
  /\ events' = [events EXCEPT !.lifecycles = Cardinality(Ended)]
  /\ seen' = {}
  /\ phase' = "close"
  /\ UNCHANGED <<todo, trades, paper, fileVars, runVars, audited, execVars>>

OnClose(q) ==
  LET p == finishing[q]
      wasOpen == q \in DOMAIN trades.open
  IN  /\ phase = "close" /\ q \in DOMAIN finishing
      /\ finishing' = Drop(finishing, q)
      /\ trades' = IF wasOpen THEN [trades EXCEPT !.open = Drop(@, q), !.total = @ + 1] ELSE trades
      /\ paper' = AfterClose(paper, q, p)
      /\ events' = [events EXCEPT
                      !.trades = IF wasOpen THEN Append(@, trades.open[q]) ELSE @,
                      !.closes = IF CanClose(paper, q) THEN Append(@, Row(paper'.counter, q, "Sell")) ELSE @]
      /\ Exec!SubmitSell(q, p) \/ Exec!RejectSell(q, p)
      /\ UNCHANGED <<phase, tracker, todo, seen, fileVars, runVars, audited>>

OnScan ==
  /\ phase = "close" /\ DOMAIN finishing = {}
  /\ paper' = Revalued(paper)
  /\ Exec!Tick
  /\ phase' = Steps[1]
  /\ UNCHANGED <<tracker, todo, seen, finishing, trades, events, fileVars, runVars, audited>>

--------------------------------------------------------------------------------
(* Writing the files, one after the other *)

NextStep == Steps[SelectInSeq(Steps, LAMBDA s : s = phase) + 1]

(* Mutant: the sales are written twice, with the purchases once more.      *)
Written_Twice ==
  CASE phase = "detected"   -> [files EXCEPT !.detected = @ + events.detected]
    [] phase = "lifecycles" -> [files EXCEPT !.lifecycles = @ + events.lifecycles]
    [] phase = "trades"     -> [files EXCEPT !.trades = @ \o events.trades]
    [] phase = "closes"     -> [files EXCEPT !.orders = @ \o events.closes]
    [] phase = "positions"  -> [files EXCEPT !.positions = @ + Len(events.closes)]
    [] phase = "opens"      -> [files EXCEPT !.orders = @ \o events.closes \o events.opens]

Written ==
  CASE phase = "detected"   -> [files EXCEPT !.detected = @ + events.detected]
    [] phase = "lifecycles" -> [files EXCEPT !.lifecycles = @ + events.lifecycles]
    [] phase = "trades"     -> [files EXCEPT !.trades = @ \o events.trades]
    [] phase = "closes"     -> [files EXCEPT !.orders = @ \o events.closes]
    [] phase = "positions"  -> [files EXCEPT !.positions = @ + Len(events.closes)]
    [] phase = "opens"      -> [files EXCEPT !.orders = @ \o events.opens]

AppendRows ==
  /\ phase \in {"detected", "lifecycles", "trades", "closes", "positions", "opens"}
  /\ files' = Written
  /\ phase' = NextStep
  /\ UNCHANGED <<scanVars, bookVars, saved, runVars, audited, execVars>>

(* A row only if the figures differ from those of the last one.            *)
SavePortfolio ==
  /\ phase = "portfolio"
  /\ saved' = Figures(paper)
  /\ phase' = NextStep
  /\ UNCHANGED <<scanVars, bookVars, files, runVars, audited, execVars>>

AppendOrders ==
  /\ phase = "orders"
  /\ files' = [files EXCEPT !.execution = @ + Cardinality(terminal)]
  /\ IF terminal = {} THEN UNCHANGED execVars ELSE Exec!DrainTerminal
  /\ events' = NoEvents
  /\ phase' = Idle
  /\ UNCHANGED <<scanVars, trades, paper, saved, runVars, audited>>

--------------------------------------------------------------------------------
(* Stopping and starting again, and the audit *)

(* The next run has the configuration and the files, and nothing else.     *)
Restart ==
  /\ boots < MaxBoots
  /\ boots' = boots + 1
  /\ bootRows' = Len(files.orders)
  /\ phase' = Idle
  /\ tracker' = << >> /\ todo' = << >> /\ seen' = {} /\ finishing' = << >>
  /\ trades' = [open |-> << >>, counter |-> Len(files.trades), total |-> Len(files.trades)]
  /\ paper' = NewBooks(Len(files.orders))
  /\ events' = NoEvents
  /\ saved' = << >>
  /\ counter' = files.execution
  /\ pending' = << >> /\ terminal' = {} /\ overwritten' = << >>
  /\ open' = [q \in Questions |-> Exec!NoPosition]
  /\ realized' = 0 /\ available' = Capital /\ pendingCash' = 0
  /\ stats' = [s \in DOMAIN stats |-> 0]
  /\ UNCHANGED <<files, audited, params>>

(* Ctrl+C is answered between scans and while a request is under way, when *)
(* the scan has changed nothing yet.                                       *)
Stop == phase = Idle /\ Restart /\ UNCHANGED killed

Kill == phase # Idle /\ Restart /\ killed' = TRUE

(* The audit command, a program of its own, counts the rows of one file    *)
(* after the other while the scanner may be writing them: first the orders *)
(* and, when it ends, the closed positions.                                *)
Audit ==
  /\ phase \in Range(Steps)
  /\ audited = NoAudit /\ audited' = Len(files.orders)
  /\ UNCHANGED <<phase, scanVars, bookVars, fileVars, runVars, execVars>>

AuditEnds ==
  /\ audited # NoAudit /\ audited' = NoAudit
  /\ UNCHANGED <<phase, scanVars, bookVars, fileVars, runVars, execVars>>

Step ==
  \/ \E q \in Questions : ObserveNew(q) \/ ObserveKnown(q) \/ OnClose(q)
  \/ Reap
  \/ OnScan
  \/ AppendRows
  \/ SavePortfolio
  \/ AppendOrders

Next == Fetch \/ LostRound \/ Step \/ Stop \/ Kill \/ Audit \/ AuditEnds

Spec == Init /\ [][Next]_vars

--------------------------------------------------------------------------------
(* Properties *)

Rows == [id : Nat, question : Questions, side : {"Buy", "Sell"}]

(* Types of what the properties below read.  The simulator's variables     *)
(* have ExecutionEngine's type invariant.                                  *)
TypeOK ==
  /\ phase \in Phases
  /\ tracker \in [Tracked -> [age : 0 .. MaxAge + 1, price : Prices]]
  /\ Tracked \cup DOMAIN todo \cup DOMAIN finishing \cup DOMAIN trades.open \subseteq Questions
  /\ todo \in [DOMAIN todo -> Prices] /\ finishing \in [DOMAIN finishing -> Prices]
  /\ trades.open \in [DOMAIN trades.open -> 1 .. trades.counter]
  /\ paper.questions \subseteq Questions
  /\ \A i \in DOMAIN paper.held : i \in 1 .. paper.counter /\ paper.held[i].question \in Questions
  /\ events.opens \in Seq(Rows) /\ events.closes \in Seq(Rows) /\ files.orders \in Seq(Rows)
  /\ files.trades \in Seq(Nat)
  /\ audited \in Nat \cup {NoAudit}

(* What the strategy opens for an opportunity and closes with it: there is *)
(* a shadow trade for every opportunity that is tracked or being closed    *)
(* and for no other, the engine's list of questions is the portfolio's,    *)
(* and no question is held twice or without its opportunity.               *)
BooksFollowTracker ==
  /\ DOMAIN trades.open = Tracked \cup DOMAIN finishing
  /\ paper.questions = { paper.held[i].question : i \in DOMAIN paper.held }
  /\ paper.questions \subseteq Tracked \cup DOMAIN finishing
  /\ \A i, j \in DOMAIN paper.held : paper.held[i].question = paper.held[j].question => i = j

(* Portfolio's invariant: cash, locked cash and the realized profit always *)
(* make up the initial capital; what is locked is what the positions cost, *)
(* and the risk checks keep the cash from going below zero.                *)
PaperMoney ==
  /\ paper.cash + paper.locked = PaperCapital + paper.realized
  /\ paper.locked = SumFunction([i \in DOMAIN paper.held |-> CostBasis(paper.held[i])])
  /\ paper.cash >= 0
  /\ paper.daily = paper.realized

Of(side) == { i \in DOMAIN files.orders : files.orders[i].side = side }

RowsOf(q, side) == { i \in (bootRows + 1) .. Len(files.orders) :
                       files.orders[i].question = q /\ files.orders[i].side = side }

(* Between scans the files tell what is in memory: the orders a run wrote  *)
(* replay to the positions it holds, every sale has its closed position,   *)
(* the statistics of the shadow trades survive restarts, and the last row  *)
(* of the portfolio has its figures -- unless the program was killed while *)
(* it was writing.                                                         *)
FilesFollowBooks ==
  phase = Idle /\ ~ killed =>
    /\ \A q \in Questions :
         Cardinality(RowsOf(q, "Buy")) - Cardinality(RowsOf(q, "Sell"))
           = IF q \in paper.questions THEN 1 ELSE 0
    /\ files.positions = Cardinality(Of("Sell"))
    /\ trades.total = Len(files.trades)
    /\ saved # << >> => saved = Figures(paper)

(* "Recovered from the row count to avoid duplicates": no two rows of      *)
(* paper_orders.csv have one number, over any number of runs, unless one   *)
(* was killed while it was writing.                                        *)
PaperNumbersUnique ==
  ~ killed => \A i, j \in DOMAIN files.orders : files.orders[i].id = files.orders[j].id => i = j

(* No file runs ahead of the one its rows follow from, wherever a run was  *)
(* killed: a shadow trade has its ended opportunity, that one was found,   *)
(* a closed position has its sale and a sale its purchase.  So the audit,  *)
(* which counts the files one after the other while they are being written *)
(* and calls more closed positions than paper orders an inconsistency of   *)
(* the data, finds none if it counts both before the next scan begins; one *)
(* that is overtaken by scans may.  And the simulator, which numbers its   *)
(* orders from its rows, has as many rows as numbers that are of no order  *)
(* in memory: the orders a stop loses are those whose numbers come again.  *)
NoFileRunsAhead ==
  /\ Len(files.trades) <= files.lifecycles /\ files.lifecycles <= files.detected
  /\ files.positions <= Cardinality(Of("Sell")) /\ Cardinality(Of("Sell")) <= Cardinality(Of("Buy"))
  /\ audited # NoAudit => files.positions <= audited
  /\ files.execution + Cardinality(terminal) + Cardinality(DOMAIN pending) = counter

(* "At the end of an opportunity ... execution submits the sale", which is *)
(* made to fill at once so that no position is orphaned.                   *)
NoOrphans ==
  phase = Idle => \A q \in Questions :
    open[q] # Exec!NoPosition => q \in Tracked \/ \E i \in DOMAIN pending : pending[i].question = q

================================================================================
