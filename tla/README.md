# Verification of the trading workspace

TLA+ models of the concurrent and failure-prone parts of the Rust workspace
(`crates/`, `apps/`, `contracts/`), TLC configurations that check them on small
instances, and TLAPS proofs that hold for every value of the constants.

Read the modules in this order: `OrderStates`, `OrderPromise`, `Oms`, `OmsProofs`;
`CircuitBreaker`, `BreakerCallers`, `BreakerProofs`, `RetryExecutor`, `RetryProofs`;
`Settlement`, `SettlementProofs`; `ExecutionEngine`, `SumTheorems`,
`ExecutionEngineProofs`; `PaperBooks`, `ScanLoop`, `ScanLoopProofs`;
`RateLimiter`, `RateLimiterProofs`; `ExecutionPipeline`. The `MC` modules only give the constants values.

## 1. The system

The workspace is a prediction-market trading stack. A scanner and an
opportunity engine find trades; risk sizes them; the execution pipeline builds
orders; the OMS carries every order through its life; a gateway adapter talks to
the exchange; settlement and the PMS turn fills into balances and positions. What
runs every day is the scan loop: it tracks opportunities, trades each of them as a
shadow trade, on paper and through the execution simulator, and appends what happened to
CSV files that an audit compares.

| Part | State it keeps | Operations | Talks to | What is hard |
|---|---|---|---|---|
| **OMS** (`crates/oms`) | repository (memory + CSV files), client-id index, status change file, `OMS_SEQ` | create, validate, submit, cancel, replace, get, sync, recover | gateway (awaits), event bus | handles are clones judged after awaits; crashes between two file appends; lost answers; restarts that reset the id counter |
| **Gateway adapters** (`crates/gateway/src/{mock,polymarket}`) | the mock's order list; metrics | submit, cancel, replace, get order | exchange | an answer can be lost after the request took effect; a refused cancel |
| **Retry, breaker, rate limits** (`crates/gateway/src/{retry,ratelimit}`, `crates/infrastructure/src/scheduler`) | breaker state, failure count, probes passed, opened_at; backoff attempt; tokens and last refill | allow, record, execute, acquire | transport | results that arrive in another breaker state; refills racing consumption |
| **Settlement** (`crates/settlement`) | balance, positions, ledger, fees, P&L, CSV repository | process_fill, freeze, settle market | OMS fills | five stages without rollback; the same fill twice; restart |
| **Execution engine** (`crates/execution/src/{engine,fill,state}.rs`) | pending orders, open positions, free and locked cash, statistics | submit buy, submit sell, tick | strategy, scanner's driver | batches, delays, missing liquidity and the timeout race; locks released in pieces; a sale that comes back |
| **Execution pipeline** (`crates/execution/src/{pipeline,queue,scheduler}.rs`) | priority queue, retry buffer, ended orders, client ids, token bucket | submit, enqueue, dequeue, pause, handle a gateway result, retry, acquire | risk, gateway | an order that is in no list while it is sent; a full or paused queue; tokens at their limits |
| **Scan loop** (`crates/scanner/src/driver.rs`, `crates/strategy`, `crates/tracker`) | tracked opportunities, what the last portfolio row was | fetch, observe, reap, the strategy's hooks, appending files, stop | everything below | hooks change four books for one opportunity; a stop or a kill between any two files |
| **Shadow and paper trading** (`crates/{shadow,paper,portfolio}`) | open trades, positions, cash, locked cash, order numbers | open, mark, close, revalue, risk checks, reload from files | scan loop | two lists of one position; numbers that come from a row count |
| **Storage and audit** (`crates/{storage,audit}`) | rows of CSV files | append, count, compare counts | scan loop; a second process | files counted while they are written |
| **PMS** (`crates/pms`) | accounts, positions, valuations | apply fill, mark | OMS events, settlement | two position books of one trade |
| **Risk** (`crates/risk`) | limits, exposure | evaluate a context | execution | boundary values of limits |
| **Opportunity** (`crates/opportunity`) | lifecycle, priority queue | score, rank, expire | scan loop | what is reported when nothing scores well |
| **Auth** (`crates/auth`) | credentials, sessions, refresh tasks | login, refresh, sign | gateway | refresh racing expiry |
| **Trading session** (`crates/trading`) | connection state, heartbeat times, recovery attempts | connect, beat, recover | gateway | timeouts racing late beats |
| **Infrastructure** (`crates/infrastructure`) | components and their states, subscriptions, cache entries | start, stop, publish, get/put | everything | start order, partial start, expiry |
| **Arbitrage** (`crates/arbitrage`, `contracts`) | execution records; on-chain balances | search, quote, execute | chain | stale quotes; partial execution |
| **Wallet, market framework, scanner, order book, models, tests, CLIs** | lookup tables and snapshots | read-only or pure | | little: no shared mutable trading state |

`PROJECT.json` lists every part with its files and says which are modelled.

What must be true of each part, in one line:

* OMS: one client order id, at most one order at the exchange; nothing sent that
  a restart would not remember; an ended order stays ended; a client order id leads to
  its own order.
* Breaker: no request while it is open; closed again only by a probe; a caller
  is given its retries.
* Rate limiter: no more grants than the bucket's rate allows.
* Settlement: cash, positions and ledger tell one story, whatever stage failed.
* Execution engine: money is conserved by whatever an order does; no order outlives
  its wait; a sale that comes back overwrites nothing.
* Scan loop: the books of one opportunity open and close together; no number is used
  twice, over restarts; no file runs ahead of the one its rows follow from, so that an
  audit within one scan finds nothing wrong.
* Paper trading: cash, locked cash and profit tell one story; the cash stays positive.
* Execution pipeline: every counted order is in exactly one place; a refused one is
  tried again up to the limit; no more sent than the bucket grants.
* Auth: no request signed with an expired session; one refresh at a time.
* Infrastructure: nothing starts before what it depends on.

## 2. Plan

1. **OMS** (done): `OrderStates` (the status table), `OrderPromise`
   (what an order service promises), `Oms` (the detailed service, shown to
   implement the promise), `OmsProofs`.
2. **Gateway resilience** (done): `CircuitBreaker` (operators), `BreakerCallers`
   (concurrent callers of the breaker) and `RetryExecutor`, each with proofs;
   `RateLimiter`, the token buckets with one step per atomic access, and
   `RateLimiterProofs`.
3. **Settlement** (done): `Settlement` and `SettlementProofs`. Left: an abstract
   specification "one fill, one entry in every book", and the CSV files.
4. **Execution** (done): `ExecutionEngine` and `ExecutionEngineProofs`;
   `ExecutionPipeline` with its queue.
5. **Scan loop** (done): `PaperBooks` (the paper engine and its portfolio as
   operators), `ScanLoop` (the loop, tracker, shadow engine, strategy and files, composed
   with `ExecutionEngine`), `ScanLoopProofs`, which also carries the simulator's
   theorems into the loop.
6. **Trading session / auth refresh / infrastructure lifecycle**, one module each.
7. **Arbitrage executor contract** as one atomic transaction against the Rust
   side that decides to send it.
8. Composition of OMS and settlement over the event bus.

Each module keeps its parameters as `CONSTANTS` with named assumptions, one
action per operation, and no `RECURSIVE` operator, so that it can be proved about.
Theorems worth proving, in order: the OMS invariant, the breaker's invariant, the
retry budget, the settlement's ledger, the engine's conservation of money and the scan
loop's books, numbers and files (done), the refinement `KeepsPromise`, the simulator's promises inside the loop, and
what keeps the token bucket within its rate (done). Left: the abstract settlement above, and
what `ExecutionPipeline` does keep (each order in one place, the queue within its limit).

## 3. The OMS model

### State and actions

| Model | Code |
|---|---|
| `saved`, `clientIndex` | the maps of `CsvRepository` and the files they are loaded from (`csv.rs`); the last row of an order wins |
| `audit` | rows of `oms_status_changes.csv` |
| `held[t]` | the `&mut Order` a caller works on: a clone of what the repository held |
| `pc[t]`, `answer[t]` | where a caller is suspended: the awaits of gateway calls |
| `want[t]`, `todo[t]` | locals of `replace_order` and `Recovery::run` that live across awaits |
| `today`, `seq` | the two parts of an order id (`order.rs:339`, `OMS_SEQ`) |
| `exch` | the exchange's orders in order of arrival (external) |
| `news` | what was announced on the event bus, per client order id |

One action is what runs between two awaits; every action that changes an order
ends in `Persist`: the rows of its transitions, then the order row, or the death
of the process after any number of the former and before the latter. `Crash` is
the death of the process anywhere else, `Boot` loads the files, resets
`OMS_SEQ` and forgets every handle. Gateway calls are three steps: the caller
suspends, the gateway acts and answers (or acts and the answer is lost, or does
not act), the caller resumes. With the live adapter the request outlives the
process: it may still arrive while the process is down.

Abstracted: prices and quantities (a fill is "some" or "all"), the validator's
rules (may pass or fail), event payloads and metrics. The two statuses of a fill
keep the state machine's branches. Left out: `delete` and the matcher.

### Runs

| Run | Instance | What it shows |
|---|---|---|
| `OmsLive` | 1 caller, 2 client ids, live adapter, 2 starts on one day or on two | at-most-once submission and the status change file, whatever the restart does; persisted before sent and the implementation of `OrderPromise`, until an order is saved over another client's |
| `OmsCalls` | 2 callers, 2 client ids, mock, no crash, fairness | ended orders stay ended, are announced once, cancelled orders are dead at the gateway, saves only go forward, every call returns |
| `OmsStaleSend` (violation) | 2 callers with two handles of one order | the idempotency the documentation promises does not cover two handles: both are sent |
| `OmsSameDay` (violation) | 1 caller, 2 client ids, a crash and a restart on the same day | the second client's order gets the id of the first one's, is saved in its place, and the first client order id leads to it |

Bounds. One caller suffices for the crash run since the hazards there are between
a caller, the files and the exchange; two client ids are the least that let one
order's id or index entry be confused with another's. Two starts are the least
that have something on disk to come back to. Two callers are the least that
interleave, and `replace_order` of one meets `recover` of the other in
`OmsCalls`. `MaxBoots` bounds the starts; nothing else is bounded.

`Exclusive` is an assumption on the callers, with a value in every cfg: they keep at
most one handle per client order id. `OmsStaleSend` shows what happens without it. It also
keeps a recovery's copies apart from the orders of other callers, so that an old copy
put back over a newer one is not judged (the model without `Exclusive` does it).

Restarts are not assumed to be on a later day: `Boot` chooses, in every run. After a
restart on the same day the first order gets the first id of that day again, which
`OmsSameDay` shows. From then on the repository has lost an order, and nothing that compares an order
with its past can hold: the history variable `mixed` says that an order was saved over
another client's, and `PersistBeforeSend`, `TerminalIsFinal`, `VersionsGrow` and `KeepsPromise`
promise something until then. `AtMostOnceSubmission`, `AuditCovers`, `CancelledIsDead` and
`OneEndAnnounced` are checked without that condition; `OmsLive` crosses it (one caller), while in
`OmsCalls` nothing restarts. Midnight within a run is left out: `OMS_SEQ` goes on counting and ids stay apart.

Fairness (`FairSpec`): weak fairness of every caller's continuation (the executor
resumes a task whose answer is there) and of every gateway call (the transport
has a timeout, so a call ends in an answer or in a failure). Nothing is assumed of
callers, crashes or restarts.

### Disagreements met

Shown by a run: the two violation runs above. Met while reading, not run:
recovery skips orders without an exchange id and counts them as synced
(`recovery.rs:189`), so that an order sent just before a crash stays live and unknown over
the live adapter, where `recovery.rs:9` promises that OMS and gateway agree after a
restart;
the repository's `version` is called an optimistic lock but `save` compares
nothing; a local cancel of an order that was already sent leaves it live
(`lifecycle.rs:360`); a failed status query during recovery may reject the order
(`recovery.rs:248`); recovery and sync write no status change rows although
`docs/oms/order-lifecycle.md:256` says every change is recorded; an expired order
is announced as rejected; an order that is only `Created` may be submitted without
validation; a status change row's `from` equals its `to` (`order.rs:398` runs
after the assignment).

## 4. The gateway's breaker and retries

`CircuitBreaker` holds the breaker of `retry.rs` as a record and its methods as
operators; the age of the open state stands for `opened_at`. Two machines use it.

`BreakerCallers` is `RetryMiddleware`: the breaker behind a mutex, and
`allow_request`, `record_success`, `record_failure` as separate calls, so that any
number of requests are on their way while others change the breaker. `sent` are the
requests on their way; `healthy` and `doubtful` say that the remote service has
recovered and which requests were sent before that. `quiet`, `streak` and `probes`
are history: what the properties compare the breaker's fields with.

`RetryExecutor` is `execute`: check the breaker, run, on failure count and sleep,
or give up. It borrows the executor, so operations follow one another, and the
backoff's counter and the breaker outlive each of them.

| Run | Instance | What it shows |
|---|---|---|
| `Breaker` | 3 callers, threshold 2, timeout 2, one counted probe | nothing goes out for a timeout after a trip; late failures do not extend it; it opens exactly on a streak; at most `HalfOpenMax + 1` probes; it closes for good once the service is well |
| `Retry` | default limits (5 failures, 3 retries, 3 probes), shorter timeout | runs are bounded; an operation after a success or a reset gets all its retries; `execute` returns |

Three callers are the least with a late result from before a trip, a probe and a
request refused meanwhile. Time is a counter that stops at the timeout or delay it
is compared with; `OneMore` counts runs up to one more than there should be.
Fairness: time passes, requests end (transport timeout), and for the closing
property callers keep asking; a breaker nobody asks never leaves `Open`.

Met while reading, not run: an operation after an exhausted one is given up on after
one run, since the attempt counter is only reset by a success (`retry.rs:375`), which is
why `FreshGetsRetries` speaks of operations after a success; a success of a request from before the trip closes a
half-open breaker although its probe is still out
(`docs/gateway/gateway-state-machine.md` says a test request closes it);
`half_open_max` admits one more than it says, since the request that makes the
breaker half open is not counted; the copy of the breaker in
`infrastructure/src/scheduler/breaker.rs` lets late failures extend the open period;
the retry middleware only logs errors and retries nothing.

## 5. The settlement model

| Model | Code |
|---|---|
| `opened`, `balances` | `BalanceManager.balances` |
| `positions`, `closed` | `PositionManager`; of the closed positions only their profit |
| `realized` | `PnLEngine.accumulated_realized_pnl` |
| `ledger`, `stored` | `Ledger.entries`, and which of them went to the repository |
| `results` | the statuses `save_settlement` was called with |

One action is one call of `process_fill` (it takes `&mut self`): `Reject`,
`SettleBuy` or `SettleSell`; `OpenAccount` is `init_account`. A buy whose money
cannot be frozen ends with its position changed, as in the code; the model
keeps that branch and the run shows that it is not taken. Money is in ticks and
`f64` rounding becomes the integer division in `CostOf`; fees are per cent rounded
down, clamped as in the code.

| Run | Instance | What it shows |
|---|---|---|
| `Settle` | 3 fills, 2 accounts, 2 books, legal and illegal prices and quantities, a fee with a floor and a cap | money is conserved between balances and positions up to the fees, the accumulated profit is that of the positions, no valid fill stops half way, the ledger follows the balances and is stored whole |

Three fills are the least in which one account sells what another bought after a
third fill moved the average price; `MaxFills` is the only bound, and the run
stops there. One purchase can use up the 21 ticks of an account, and a sale at one tick
brings less than the least fee: both floors of `ChargeFee` are reached.

Met while reading, not run: a sale's ledger entry says that money went out
(`engine.rs:377`), where `docs/settlement/ledger.md:22` says it came in; a buy pays its fee twice (`balance.rs:144`), which is why
`MoneyIsConserved` allows twice the recorded fees; a sale that brings less than its fee, of an
account without money, pays less than the ledger says (`types.rs:433`), which is why it asks for
the recorded fees only where no fee exceeds its fill; the fee's own entry subtracts the fee
once more from a balance that has already paid it (`engine.rs:394`); a fee that is
clamped by more than a cent fails validation (`validator.rs:272`); without fees the
entry of the fill before is stored again (`engine.rs:409`; `stored` is a set, so `LedgerIsStored` says
that no entry is missed and not that none is stored twice); `PnLEngine::calculate` adds
the accumulated profit to the positions', which `ProfitIsThePositions` shows to be the
same money; `append_csv` truncates the file it appends to (`repository.rs:184`); a
fill that is reported twice is settled twice.

## 6. The execution engine model

| Model | Code |
|---|---|
| `pending` | `pending_orders`, a function from ids to orders: ids grow with the list, so a scan visits them by increasing id |
| `terminal` | `terminal_records`, what the driver drains |
| `open` | `open_positions`; a question without one has `NoPosition` |
| `available`, `pendingCash`, `realized` | the engine's cash, the cash locked for purchases, the profits of `closed_positions` |
| `wait`, `batches`, `liquidityFail` of an order | what `FillEngine` draws: any delay up to the configured one, one to three batches, liquidity or none |
| `stats` | `ExecutionStats` |
| `overwritten` | history: the position a lapsed sale was put in the place of |

One action is one call: `SubmitBuy`, `RejectBuy`, `SubmitSell`, `RejectSell`, `Tick`,
`DrainTerminal`. `Tick` is a whole scan over all pending orders. What happens to one
order (`Batch`, `StatusAfter`, `After`) depends on that order only; `Held` is what the
orders before it have left in a question, so that `Scan` needs no recursion. Prices,
cash and shares are whole numbers and slippage a number of ticks per share:
rounding of `f64` is left out, and the order notional is assumed to buy whole
shares (`WholeShares`). Averages, console events and the CSV rows are left out.

| Run | Instance | What it shows |
|---|---|---|
| `Engine` | 4 orders, 2 questions, a legal and an illegal price, with and without slippage, the delay below and at the wait | cash, locked cash and positions are conserved up to the realized profit; what is locked is what purchases may still need; orders end in time and as reported; sales keep their positions when the delay is below the wait; the statistics add up |

Four orders are the least in which a position is bought, put up for sale, bought
again in two batches and the sale comes back while another question trades.
`MaxOrders` is the only bound. A price of two ticks and orders of two shares give
purchases in one batch and in two; the capital pays for two purchases and leaves a
tick, so that both a refusal for lack of cash and a negative balance occur.

Met while reading, not run: `crates/execution/README.md:24` states the cash invariant
as `available + pending + sum(open.cost) == initial + sum(realized)`, which is off by
every position that is on sale (`MoneyIsConserved` counts them in); nothing checks
that `max_fill_delay` is below `max_wait_scans` (`config.toml:45`), and otherwise a sale
may lapse and overwrite what was bought meanwhile, although the comment of `submit_sell`
(`engine.rs:516`) says that sales orphan no position; slippage may take the cash
below zero (`engine.rs:663`); order ids start again from the number of rows
written, so the id of an order that was pending at the stop is used twice
(`records.rs:65`). What the engine and the strategy do together is in `ScanLoop`.

## 7. The scan loop model

`PaperBooks` holds the paper engine and its portfolio as a record and their calls as
operators; `ScanLoop` is the loop of `driver.rs` with the tracker, the shadow engine and the
files, and has an instance of `ExecutionEngine` as the simulator the strategy trades through.

| Model | Code |
|---|---|
| `phase` | where `scan_once` is: `observe` and `close` are its loops, then one phase per file |
| `tracker`, `todo`, `seen`, `finishing` | `OpportunityTracker`'s map and the locals of `scan_once` |
| `trades` | `ShadowEngine`: open trades with their numbers, the number of the last, the count of closed ones |
| `paper` | `PaperTradingEngine` and its `Portfolio`; `questions` is the engine's own list beside the portfolio's positions |
| `events` | `ScanEvents`: rows the hooks leave for the end of the scan |
| `saved` | `last_saved_hash`, and with it the last row of `paper_portfolio.csv` |
| `files` | the CSV files: rows where a property reads them, counts otherwise |
| `Fetch`, `LostRound` | `driver.rs:255-379`: the markets, what the engine's queue keeps of them, and a round without any |
| `ObserveNew`, `ObserveKnown`, `Reap`, `OnClose`, `OnScan` | the strategy's hooks with every call they make |
| `AppendRows`, `SavePortfolio`, `AppendOrders` | `driver.rs:497-594`, one file each |
| `Stop`, `Kill` | Ctrl+C between scans; the end of the process anywhere else. Both start the next run from the files |
| `Audit`, `AuditEnds` | the audit command counting one file after the other while the scanner writes |

A hook changes all the books of one opportunity in one call, and nothing else runs in
between: it is one action, and its choice (a purchase the simulator takes or refuses) is
`Exec!SubmitBuy \/ Exec!RejectBuy`. Every file is a step of its own, since the process may
end between two of them and another process may read them. Markets are questions; which of
them are below the threshold, and which of those score well, is any choice. Prices are
whole and at most one price per question and scan is seen.

| Run | Instance | What it shows |
|---|---|---|
| `ScanLoop` | 2 questions, 2 prices, 2 starts, 4 orders, stops and kills, an audit | shadow trades, paper positions and the tracker stand for the same opportunities; the paper money adds up and stays positive; between scans the files replay to the books; no order number is used twice over restarts; no file runs ahead of the one its rows follow from, so an audit that counts before the next scan begins finds no inconsistency; and every number the simulator gave is of a row, of an ended order that waits for its row, or of a pending order |
| `ScanOrphans` (violation) | the same at one price, with executions that may be delayed by a scan | the opportunity ends while its purchase waits: the sale is refused for lack of a position, the purchase fills in the tick of that scan, and nobody sells the position |

The price and the lot of `ScanOrphans` make every purchase one batch, so that this is the only
way to an orphan in it. With several batches there is a second one, without any delay: the sale
is accepted for the batch already filled and the next batch fills afterwards.

Bounds. Two questions are the least in which one opportunity ends while another begins.
The capital on paper is less than two positions, so that purchases are refused for lack of
cash as well as for a loss above the limit (`MaxLoss` is one); a queue of one makes the engine leave
out an opportunity that is still there, and an age of one ends an opportunity that is
found again in the same scan. `MaxOrders` bounds the simulator's numbers (`Room` asks
for it before a scan begins, so that no hook is cut short) and `MaxBoots` the starts.

Assumed: appending one batch of rows is one step (one `write` of a small buffer, `storage`
serializes the batch first). The scanner does not wait for the audit, in the code or in the model:
`audited` is history, what an audit has counted in the current scan, and `NoFileRunsAhead` judges
the audit that counts both of its files before the next scan begins. One that counts the orders, is
overtaken by a scan that buys and one that sells, and then counts the closed positions may find more of
them than orders, and report an inconsistency that is none. Left out: failed writes, which the driver reports and goes on from; the
market snapshots and metrics; the header upgrade of old files; profits and durations of
shadow trades. Two markets with the same question share an entry of the tracker and of
the portfolio in the code; in the model a question has one price a scan. There is no
fairness and no liveness property: the source of markets may stay empty for ever.

Met while reading, not run: the audit's comment says that detected opportunities are at least
the paper orders (`auditor.rs:138`), but each opportunity has a purchase and a sale in that file;
`AuditStats::scan_rounds` and the counts of ended execution orders are never set, so that
rules 5 and 6 never judge anything; nothing calls `reset_day`, so that the loss of a whole run is
compared with the limit for a day (`risk.rs:98`); a shadow trade that was open at
the stop had a number that is given again, since only closed trades have a row
(`shadow/src/lib.rs:309`); a round without markets returns before the tracker and the simulator are
told, so that nothing ends or fills while the source is down (`driver.rs:323`).

## 8. The rate limiter model

`RateLimiter` is `TokenBucket::acquire` with one step per access to an atomic or to the
clock, two buckets asked one after the other, and the adapter that sleeps as long as it was told
and then sends (`polymarket/mod.rs:397`). `tokens` and `lastRefill` are the two atomics,
`call[t]` a thread's locals; `granted` counts what was handed out. The accesses are taken in program
order: `Relaxed` allows more, but what goes wrong goes wrong already so.

| Run | Instance | What it shows |
|---|---|---|
| `RateLimit` (violation) | 2 threads, 2 buckets, time up to 2 | two threads refill a bucket at the same time and one interval is paid out twice: more is granted than the rate allows |

`MaxTime` is the only bound, and the run stops there. That the code promises nothing about its
rates to several threads is what the run shows; how much it does promise is proved instead
(`RateLimiterProofs`): a bucket keeps its limit as long as no two threads are in the middle of
its `acquire` at once, and so always with one thread.

## 9. The execution pipeline model

| Model | Code |
|---|---|
| `orders` | every order submitted, by number: client id, status, priority, retries |
| `queue`, `buffer`, `paused` | `ExecutionQueue`: waiting orders, the retry buffer, `pause` |
| `sending` | dequeued and not yet reported to `handle_gateway_result` |
| `done`, `clientIds`, `totals` | `all_orders`, `existing_client_ids`, the statistics |

One action is one call. `Submit` is `ExecutionPipeline::submit` with its three ends: not
valid, queued, and refused by a full or paused queue. `Dequeue` takes the retry
buffer first, then the queue in order of priority (a stable sort). The validator's rules judge
the caller's context, so that passing them is any choice; fills and amounts are left out.

| Run | Instance | What it shows |
|---|---|---|
| `Pipeline` (violation) | 3 orders, 2 client ids, 2 priorities, a queue of 2, one retry | an order the gateway did not take fails without a retry, since the queue looks for it among the waiting ones, which it left before it was sent |

`MaxOrders` is the only bound; three orders fill a queue of two. Met while reading, not run:
an order the queue refuses is dropped although `pipeline.rs:198` says it is marked Rejected;
`existing_client_ids` is written and never read, so that no client id is refused as a duplicate;
the queue's `retry` of an order without retries left drops it; `scheduler.rs` is
connected to nothing.

## 10. Proofs

`OmsProofs` proves, for any set of callers and client order ids, either adapter,
any number of starts and any crash and loss of answers:

* `TypeCorrect`: `TypeOK /\ CallsHold`, without any assumption on callers.
* `Invariance`: `IInv` under `Exclusive`, as long as no order was saved over another client's
  (`~mixed`): same-day restarts are among the behaviours, and the invariant holds up to the
  first id that is given twice.
* from `IInv`, under the same two conditions: `SubmissionIsAtMostOnce`, `SavedBeforeSent`, the
  action properties `EndedOrdersStay` and `SavesAreLater`, and the refinement `PromiseKept`
  (`Oms` implements `OrderPromise` up to that step), and the next four but `SavesAreAudited`.
* `EndsAnnouncedOnce`, with `EndsKnown`: every announced end is of an order the
  repository has as ended, so an order that has not ended has none announced.
* `SavesAreAudited`, without any assumption on callers or restarts: a query's answer is never a
  status that needs a row (`QueryAnswers`).
* `CancelledOrdersAreDead`, for the mock gateway: every live order is known by its
  exchange id to the repository or to the answer of the task that submits it (`LiveKnown`).
  `Exclusive` matters: a stale `Created` handle is cancelled locally after another caller sent the order.
* `MockRecoveryMissesNone`, from the same invariant: with the mock gateway a recovery ends with
  no live order unknown but one whose submitter was just answered, when a recovery runs
  beside a submission.

Why `IInv` is needed: at-most-once submission is not inductive. That a second
submission cannot start rests on the caller's copy being what the repository has
(`HandlesCurrent`), on no other caller having a copy (`HandlesDisjoint`,
`TodoApart`), on the index being the inverse of the orders (`IndexExact`, which
an id given twice would break: the step that saves such an order sets `mixed`), on an unanswered submission
not having arrived (`Undelivered`), and on no transition leading back before the
submission (`ForwardOnly`). `SegmentStep` proves that any step that replaces one
caller's order by itself or by a later one keeps `IInv`, moves at most one abstract order
(`PromiseStep`) and announces at most one event of it (`EndsStep`); each action's lemma then
only shows that it is such a step. `Disciplined` is `Exclusive` and a step that does not
mix (`~mixed'`); `mixed` never becomes false again (`MixedStays`), so that `SoundStep` carries
`~mixed => IInv` through every step.

`BreakerProofs` (any callers, thresholds, timeouts): the invariant ties the breaker's
fields to the history (`quiet` is what is left of the timeout, the failure count is
the streak, the counted probes are all but one), and every property of `Breaker` but
the liveness one follows. `RetryProofs`: while an operation runs, the backoff has
counted at least the retries made, and exactly those if it began fresh; hence
`AttemptsBounded` and `FreshGetsRetries`. `RetryTypes` needs that a delay is never longer than
the longest: the recursive function `Doubled` is shown to exist and to obey its recursion
(`DoubledIsRecursion`) and to give naturals, by induction over a set of naturals; and the facts about the breaker come from an instance of `BreakerProofs`.

`RateLimiterProofs` (any threads, rates and windows): a bucket has what it was given and what its
elapsed time earned. Between refills it has no more than it earned until `lastRefill`
(`Funded`); a thread inside has read the clock no earlier, what it read there is still so, and
after `StoreTokens` the level is what is earned by the time about to be stored (`Honest`). Two
refills rounded down pay no more than one over both intervals (`QuotientsAdd`), so rounding
never adds up. `ApartKeepsRate` supposes `[]Alone`, that no two threads are between
reading the clock and taking from one bucket; `OneThreadKeepsRate` needs no such
hypothesis. The parameters' conditions are hypotheses of the theorems (`Parameters`), which the
instance of `RateLimit` meets. Nothing in the code establishes `Alone` for several threads: the
theorem says what a lock around `acquire` would buy.

`SettlementProofs` (any accounts, books, fills, capital and fee rule): nothing stays
frozen between fills, so what validation finds affordable can be frozen
(`BuysAreFinished`); freezing keeps an account's sum, so entries continue one another
(`LedgerFollowsBalance`); at most two entries a fill, so storing the last two misses
none (`NoEntryMissed`). `MoneyConserved` and `ProfitAccounted` are about sums over accounts, books
and ledger entries: each step changes one member of each sum (`CashChanged`, `BooksChanged`,
`FeesChanged`), and what a buy or a sale does to it balances but for its fee
(`PaidAmount`, `ReceivedAmount`, `ReducedAmounts`). `Laws` adds that an account nobody opened has nothing.

`SumTheorems`: the sum of a function over a finite set, for every set. Induction over the
subsets of a set is stated about sets of subsets (`InductionOnSubsets`), so that it
takes no operator, and the fold that defines `SumFunction` is shown to be the only
function that obeys its recursion. From this: a sum does not depend on the order, sums
add up over disjoint parts, and change with one element as expected.

`ExecutionEngineProofs` (any questions, prices, slips, limits, waits and delays): `IInv` is
the properties with three more facts. `PurchasesFit`: the batches of a purchase make up
what it still needs, so it never buys more than is locked for it. `SalesAreWhole`: a sale
has its one batch and nothing sold, so it ends filled or gives the whole position back,
and with the delay below the wait it never lapses. `LapsedAreGone`: an overwriting
sale is no longer pending, so none is counted twice. `OrdersEndOnce`: an order ends once, and
ended orders, pending ones and those already drained make up the numbers given. The hard step is `Tick`, which
scans all orders at once: `HeldTelescopes`, an induction over order ids, says that
the positions at the end of the scan hold those at its start, what was bought and what was put
back, less what was overwritten; `OrderConservesMoney` says that one order's cash, lock,
cost and profit balance; `SumsBalance` adds them up.

`ScanLoopProofs` (any questions, prices, capital, limits, queue, age, number
of runs, stops and kills anywhere). `Sound` says of the paper books what `PaperMoney`
does and that the engine's list names the positions, each once; each call of the
portfolio is shown to keep it. `ScanInvariance` adds `Follows`: besides
`BooksFollowTracker`, that what is tracked and what is being closed are disjoint, without
which a question could be bought again before it is closed; and `PhaseOK`, by which
nothing is left to observe or close in other phases. `NumbersAreUnique` needs to know of rows that
are not written yet: `Numbered` says that the rows of the file, then the sales and the purchases
this scan still has to write, have different numbers up to the counter, and that
between scans an unkilled run has as many rows as numbers, so that the next one goes on from there.

`FilesStayBehind` and `FilesTellTheBooks` count rows. `StepMoves` says that every step of the
loop produces a row in memory (`BuyStep`, `SaleStep`, `ReapStep`), moves the rows of one kind
into their file (`WriteStep`), forgets what was not written (`RestartStep`) or moves none
(`Quiet`). Over these six, `Lags` keeps the files with what is left to write, with the tracked
and with the closing, in the order in which one row follows from the other; `Replay`
keeps purchases less sales of a run, written or not, equal to what it holds. The files are
written sales first, so `Sales` needs more: what was sold and what is held, without
what was bought in this scan, has its purchase in the file already. That is so because nothing is
bought and sold in one scan (`FreshOK`): what is new is in the scan's report and too young to be
closed for its age. `AuditedOK` is the part about the audit, which counts the orders before
the positions, within one scan.

`SimulatorKeepsPromises` and `LoopRunsSimulator` put the simulator into the loop.
`ExecutionEngineProofs` proves its steps for any variables of these names, so `ScanLoopProofs` takes
an instance of it; the prover sees two copies of each operator, the loop's `Exec!Op` and the
proofs' `Engine!Op`, and `SameActions` and `SamePromises` show them equal by expansion. `LoopDrives` says
that every step of the loop is a step of the simulator, leaves it alone, or is a start
(`Starts`: fresh books, the counter from the row count). A start is no initial state of the
simulator by itself, which begins at zero, so its proofs are about `JustStarted`,
which says nothing of the counter. `EngineOK` is the invariant: the simulator's, and that
rows written, ended orders not drained and pending ones make up the numbers given (the
last conjunct of `NoFileRunsAhead`); a start keeps that since it takes the
counter from the rows, which is also why numbers of orders lost with a kill are given again.

Assumed: `NoValues` (the null values are not among the values), `Parameters` of `Oms`,
`RetryLimits`, the breaker's and settlement's parameter assumptions (finitely many accounts and books), the engine's
`EngineParameters`, `WholeShares` and `FinitelyMany` (a finite set of questions), and the scan
loop's `LoopParameters`, `PaperParameters` and `SimulatorParameters` (the engine's own, on the
loop's constants), which TLC evaluates on every run of those modules.

Only model-checked: `CallsReturn`, `ClosesForGood` and `ExecuteReturns` (liveness, out of the
prover's reach). Every other property of a passing run is proved. The findings are
counterexamples and need no proof; about `ExecutionPipeline` nothing is proved.

## 11. Not modelled

Everything `PROJECT.json` lists as `not_modelled`, with its reason. In short: pure
computations over prices (order book, DEX search), I/O (transports, signers,
reports), counters and formatting, test clients, and the parts the plan has for
later.
