# A TLA+ model of the wall trading engine

wall is a C++ trading engine for crypto markets: market data comes in,
strategies emit signals, a risk engine approves them, a local matching engine
(or a live exchange) executes them, and orders, fills, positions and balances
are stored.  Transaction commands arrive through Kafka.  This directory models
the parts where the order of steps decides whether the program is right: the
order book, the matching engine and the runtime around it with portfolio, risk,
strategies and storage; the tracking of live orders; the ingestion of
transactions with its recovery; the file-backed repositories; the application
with its event loop and event log; the simulated exchange and the market data
feed.  What is left out is in section 5.

Paths are relative to the repository.  `PROJECT.json` maps every definition to
the lines it models, and lists the hazards, the runs, the mutants and the
theorems.

## 1. Inventory

### The parts, their state and their operations

| part | code | state | operations |
| --- | --- | --- | --- |
| order book | `execution/order_book` | two price maps of deques, id index, count, arrival counter | `add_order`, `cancel_order`, `apply_fill`, best-order queries |
| matching engine | `execution/matching_engine` | books by instrument, order records, order and fill counters | `submit`, `process_market_event`, `cancel`, `restore_open_order` |
| simulated execution engine | `execution/simulated_execution_engine` | open orders | `submit`, `complete_open_order`, `cancel_open_order`, `restore_open_order` |
| live execution tracker | `execution/live_execution_tracker` | local orders, processed report ids, fill counter | `register_order`, `restore_order`, `apply_report`, `reconcile` |
| live execution adapter | `exchange/exchange_execution_adapter` | order counter, a tracker | `submit`, `cancel`, `apply_exchange_report` |
| transaction ingestor | `ingestion/transaction_ingestor` | none of its own | `process_next` |
| Kafka consumer | `infrastructure/kafka_transaction_consumer` | assignment, positions | `poll`, `commit`, `seek` |
| repositories, cache | `infrastructure/postgres_repositories`, `redis_cache`, `storage/storage_interfaces` | durable rows, cached values | saves, upserts, lookups |
| recovery service | `app/recovery_service` | none of its own | `recover`, `restore_runtime`, `resume_kafka` |
| simulation runtime | `app/simulation_runtime` | the market state, strategies, engine and portfolio it owns, counters | `on_event`, `handle_execution_result`, `persist_new_order`, the `restore_*` calls |
| portfolio | `portfolio/portfolio_service` | positions, balances, mark prices | `apply_fill`, `set_mark_price`, `restore_position`, `restore_balance` |
| risk engine | `risk/risk_engine` | none (limits are configuration) | `evaluate` |
| market state | `market_data/market_state_store` | last state by instrument | `apply`, `is_stale`, `restore_snapshot` |
| strategies | `strategy/*` | latched signals, paused flags, statistics | `on_event`, `pause_strategy`, `resume_strategy` |
| engine controller | `app/engine_controller`, `core/event_dispatcher` | event queue, sources, timers, subscribers | `poll_sources_once`, `enqueue_due_timers`, `drain`, `run_once`, `publish` |
| market data feed | `exchange/live_market_data_feed`, `market_data/feed_health_tracker` | reconnect attempts; connection, subscription and last message | `start`, `handle_disconnect`; `on_connect`, `on_message`, `on_disconnect`, `status` |
| execution router | `exchange/exchange_router` | adapters by name | `register_adapter`, `submit`, `cancel` |
| replay log | `storage/replay_service` | the lines of a file | `reset_log`, `append_event`, `replay` |
| application | `app/application` | what it wires together, the mode it runs in | `run` |
| health status | `monitoring/health_status` | a status per component | `set_status`, `overall_status` |
| the rest | configuration, logging, metrics, market data router, backtest, tools | | parsing, formatting, loops over the above |

### How they interact

One thread calls everything.  The controller polls the sources, queues their
events and publishes them; the runtime receives an event, updates the market
state, calls the matching engine, writes the result to storage and portfolio,
sets the mark price, asks the strategies for order requests, passes those through
risk and submits the approved ones to the matching engine.  The matching engine calls an order book for each
instrument and copies every change of the book into its own order records.  The
live adapter delegates every exchange report to the tracker.  The ingestor
polls a message, writes storage and cache, publishes the command and commits
the offset.  After a restart the recovery service reads storage, warms the
cache, rebuilds the runtime and seeks the Kafka client.

The application gives its runtime no repositories: a run recovers positions and
balances, handles one cycle of events, and saves positions and balances once at
the end.  Only tests run a runtime that stores as it goes; that is the
configuration `Runtime` models, because it is the one the recovery service is
made for.

### What is hard

Concurrency inside the process plays no role.  What is hard to test is

* agreement of redundant state over long call sequences (levels, index, count
  and record of one order; two separate tests against a tolerance);
* loops whose end depends on what the book accepts;
* execution reports that arrive late, repeatedly, out of order or not at all,
  with or without ids and timestamps, across a restart;
* death of the process between two effects of `process_next`, and where the
  recovery then resumes;
* identifiers and counters that start again in every process;
* a result that is stored in several writes, one after the other;
* files that are rewritten on every save and may be cut anywhere;
* a text format that rounds numbers and cannot hold every row;
* late messages that make a dead feed look alive.

### What makes each part correct

* Order book: index, count and levels agree; the best order is first by price
  and then by arrival.
* Matching engine: the records are what the books hold, no book is crossed, no
  quantity appears or disappears, limits are honoured, the caller is told of
  every order it gets fills for, terminal orders stay, and every call returns.
* Live tracking: fills add up to what the exchange said, no late report rolls
  an order back, and the local order ends as the exchange's does.
* Ingestion: only handled messages are committed, none is skipped, a committed
  command is not published again, and every message is handled in the end.
* Runtime and recovery: what is stored agrees with what happened, a restart
  continues with it under fresh identifiers, positions and balances are two
  sides of the same fills, positions stay within their limit, and no order is
  approved on a made-up price.
* File-backed repositories: a reload gives what was saved; a cut rewrite costs
  its tail and nothing else, and the next process can start.
* Event loop: every event reaches every handler, once and in order; the event
  log replays what was handled.
* Application: what a process finds is what earlier ones saved, none undoes what
  an earlier one saved, and the program starts without the infrastructure.
* Simulated exchange: the fills of an order add up to what it reports, and a
  closed order stays closed.
* Feed: one that gave up is shown as such.

## 2. Modules

```
RestingOrders ──── PriceTimeBook           (abstract book)
     │                   ▲ refines
     ├──────────── OrderBook ──── MCOrderBook, OrderBookProofs
     └──────────── MatchingEngine ──── MCMatchingEngine, MatchingEngineProofs
                                       (with SumTheorems, and used by RuntimeProofs)
LiveExecutionTracker ── LiveExecution ── LiveExecutionProofs
TransactionIngestion ── MCTransactionIngestion, TransactionIngestionProofs

Portfolio ─┬─ MarketData ── Strategies ─┐
           └─ DurableStores ────────────┼─ Runtime ── MCRuntime, RuntimeProofs
           RestingOrders, MatchingEngine (INSTANCE) ─┘

                    Repository             (abstract repository)
                         ▲ refines
TsvTables ─┬─ FileRepository ── MCFileRepository
           └─ ReplayLog ───────┐
              EngineController ┴─ Application ── MCApplication, ApplicationProofs
Exchange ── MCExchange, ExchangeProofs
```

**RestingOrders** has the operators of a book seen as a set of resting orders:
`BestOrders`, `IsRequestCompatible`, `WithOrder`, `AcceptsFill`, `WithFill`.
Prices and quantities are `double`s in the code; here they are natural numbers
in one unit, and `Tolerance` is `kQuantityTolerance` in that unit.  Rounding of
floating point numbers is left out.  What the comparisons with the tolerance
decide is kept, so the quantities in the runs lie at, just above and well above
it.

**OrderBook** is `order_book.cpp` with its data structures: `levels` for the
two maps of deques, `order_index`, `order_count`, `next_seq`.  Its actions are
the three operations that change the book, refusals included.  **PriceTimeBook**
is what it promises: one set of resting orders and the Boolean of the last
call.  The refinement mapping sends the maps to the set of all orders in them.

**MatchingEngine** is `matching_engine.cpp` over the set view of the books, so
that it can be proved about.  `submit` and `process_market_event` contain
loops; each iteration is a step, `pc` says which operation runs, and no other
operation starts before it returns.  `Submit`, `Match` and `FinishSubmit` are
`submit`; `ProcessMarketEvent`, `TakeFromLevel`, `NextLevel`,
`AppendOrderUpdate` and `FinishEvent` are `process_market_event`; `Cancel` is
`cancel`.  `orders` are the records, `result` is the `ExecutionResult` being
built, and `external` is a history variable.  Ids are numbers; the code sorts
the touched ids as strings, which agrees while they have equally many digits.
The engine starts empty; `restore_open_order` is part of `Restart` in `Runtime`.

**LiveExecutionTracker** has the tracker's decisions (`ShouldIgnoreAsStale`,
`ShouldApplyStatus`, `FillDelta`, `Apply`).  **LiveExecution** puts the adapter
around it, an exchange on the other side, and a network that keeps every report
ever sent: a report may be delivered at any time, any number of times or never.
A report may lack an id, a timestamp or both (0 stands for a missing one), and
two reports may carry the same timestamp.  `Restart` replaces the tracker by a
new one into which `restore_order` puts the orders that are not terminal.  The
exchange is external: it moves an order along its life, takes no fill back and
sends one report for each change.  Prices, fees, client ids and reasons are left
out.

**TransactionIngestion** is `process_next` with one action for each effect,
the Kafka consumer, the durable records, the cache and `recover` with
`resume_kafka`.  `Crash` may fall between any two effects; an exception that
leaves `process_next` is one.
Kafka is external: partitions are fixed logs, the broker keeps the committed
offset, a new client gets every partition at that offset, and
`rd_kafka_assign` replaces the assignment.  The consumer group has one member,
so no rebalance happens.  No code in the repository calls `save_checkpoint`,
so checkpoints are the ones `recover` derives from the processed records.

**Runtime** is `simulation_runtime.cpp`.  `phase` says where `on_event` stands:
market state and cache, the engine, the row of a new order, the order updates,
the fills, the positions, the balances, the mark price, the strategies, and then
the engine once more for each approved request.  Every durable write is an
action, and `Restart` may happen before any of them.  It models a new process
and the whole recovery: exchange snapshots or made-up ones into the cache, open
orders into the engine in any order, positions, balances and marks into the
portfolio; order and fill ids, latches and pauses start anew.  The engine is an
instance of `MatchingEngine`, whose loop iterations are steps of `Runtime`.  The
modules it extends are operators on values: **Portfolio** (positions with
averaging, reduction and reversal, in exact fractions `<<n, d>>`, so that the
books can be compared to the last unit), **MarketData** (the market state store
and the checks of the risk engine), **Strategies** (the two strategies and the
coordinator, whose loop over the slots is one step of `Runtime` per slot; a
plugin slot stands for any other implementation of `IStrategy`, which may return
a request, nothing, or throw), and **DurableStores** (the
statements of the repositories; `Backend` chooses between PostgreSQL, which drops
a fill row whose id it has, and the repositories that append).

**TsvTables** is the text format of the file-backed repositories.  A value is
the sequence of pieces that tabs separate in it, amounts count 10^-7, and each
column is written exactly, with six decimals or with six digits, as its `flush`
writes it.  **FileRepository** adds the saves, the rewrite of the file, the cut
of a rewrite at any line, at a field or in the digits of the last number, and
the load of the next process.  A behaviour is about one of the eight files.
**Repository** is what they promise.  The mapping sends `durable` to what a load
would find.

**ReplayLog** is the event log in the same format, with book levels and the
older market line of 17 fields.  **EngineController** is `run_once` over timers,
sources, queue and handlers, a step for each of them; the clock is read once,
before the loop over the timers.  **Application** puts both into the life of a
process: reset of the log, native infrastructure or fallback, recovery, cycles
with the three handlers, the saves of positions and balances row by row in the
order of a hash map, and a kill anywhere, also inside `append_event` and inside
the rewrite of a local file: the rows from the one being written on are then
lost, or what is left of that row ends in a sign and cannot be loaded.  The
runtime appears there by what the application sees of it (`Outcome`): an event
may approve, reject and fill; a fill is one unit of the position and the base
balance of the instrument that the configuration names first, and of the quote
balance.  `store` has the rows of each mode, since the two modes use different
stores.

**Exchange** has two halves that share no state, and a behaviour exercises one
of them: the execution router over simulated execution engines with their
settings (partial fills are halves), where a request about an order that is not
open is answered by a `rejected` update with the id of that order, and the feed controller with the health
tracker, a session that may fail to reconnect, and messages that reach the
tracker late.  Session, clock and the callers of both are external: nothing in
the repository drives them but tests.

Definitions whose comment starts with "Mutant" are deliberately wrong variants
of the definition below them; no specification uses them.  Substituting one must
violate the property that `PROJECT.json` pairs it with.

## 3. Runs

| run | instance | result |
| --- | --- | --- |
| `order_book` | 3 ids, prices 0, 10, 20, quantities 0, 2, 5, tolerance 1, 3 successful adds; 28 thousand states | pass |
| `matching` | 3 orders, 2 instruments, 16 requests, 3 market events; 1.1 million states | pass |
| `live_execution` | 1 order of quantity 2, 4 reports, 1 restart; 1.5 million states | pass |
| `live_execution_expiry` | the same, 5 reports, an order may expire while its cancellation is pending | violation |
| `ingestion` | partitions of 4 and 2 messages (valid, invalid, malformed), 3 crashes; 22 thousand states | pass |
| `runtime` | 1 instrument, 2 strategies and a plugin, 3 events or commands, 2 restarts; 1.2 million states | pass |
| `runtime_ids` | the same, 1 restart | violation |
| `runtime_limit` | the same, no restart | violation |
| `files` | 8 tables, 2 ids, 2 saves; 44 thousand states | pass |
| `files_intents` | the same, intents without a price | violation |
| `application` | 2 sources, 2 timers, 2 cycles, 3 processes, 2 modes, 1 instrument, 2 fills; 709 thousand states | pass |
| `exchange` | 3 orders, 3 settings, 2 restarts, 1 refused request; 2 reconnects, 2 late messages; 546 thousand states | pass |

### What the passing runs show

`order_book`: `BookConsistent` (levels, index and count in step, no empty level
left), `BestIsPriceTimeFirst`, and `ImplementsPriceTimeBook` (refinement).

`matching`: `RecordsMatchBooks` (what rests is what is open, with the unfilled
quantity), `NoCrossedBook`, `FillsHonorLimits`, `FilledOrdersReported` (the
result carries the last state of every order it has fills for), `Conservation`
(bought and sold quantities differ by what came from the feed, up to one
tolerance per order), `TerminalIsFinal` and `CallsReturn`.

`live_execution`: `FillsAddUp` (no fill doubled or dropped), `AgreesOnceTold`
(once the terminal report has arrived the tracker agrees with the exchange for
good) and `NeverRollsBack`.

`ingestion`: `CommittedAfterHandling`, `NothingSkipped`,
`CommittedNotRepublished`, `CacheAgrees` and `Progress`.

`runtime`: `StoredPortfolioCurrent` (outside `handle_execution_result` the
stored positions and balances are the portfolio's, also after a recovery from a
cut write); `DoubleEntry` (base balances are the net positions, the quote
balance is realized profit less cost of what is held, through reversals and
restarts, unless a restart fell between the two tables); `StoredOrdersNotAhead`
and `FillsBehindOrders` (the stored order lags behind the engine and never runs
ahead; the stored fills lag behind the stored order); `RecoveredBooksMatch`
(the books and the records that `restore_open_order` rebuilt agree with each
other, through all that follows; not that they are those of the stopped engine);
and `ExposureBounded` (no position exceeds the sum of the approved requests).
Four of them exempt histories in which an order id was handed out twice
(`FreshIds`), which is the second finding; what the position limit does not do is
the third.  Where the tables lag behind the engine and what a crash costs is in
section 5.

`files`: `ImplementsRepository` (refinement of `Repository`: every row that was
saved is found again), `NoFurtherDrift` (a value that was rounded once is written
as it is by every later save), `CheckpointNeverAhead` (a cut checkpoint is never
too high) and `CutFileStillLoads` (only positions and balances, whose last
number may be negative, can stop the next start).  All intents of this run have a
price and no reason holds a tab; the run `files_intents` is about the first.

`application`: `FifoDelivery`, `ReplayMatchesHandled`, `EventsReachEveryHandler`
and `CompletedRunsAddUp`: every row of either mode is the sum of the fills of the
processes that saved that row, wherever processes were killed and modes changed.
Rows that a cut rewrite lost count from nothing.

`exchange`: `FillsMatchReports`, `ClosedStaysClosed` (both exempt ids that a
second order got) and `DeadFeedShows`.  A refusal carries the id of an order,
the status `rejected` and filled quantity 0, also when the order was filled
before.  The two properties do not take it for a report of the order; a caller
that does, loses the order's state.

### Why the bounds are enough

Order book: three orders can share a level or lie on two levels of a side, and
one can go from the front, the middle or the back; an id can be used again;
quantity 2 is the smallest that rests, 5 allows a partial fill that leaves 3.
Prices and quantities of 0 reach the refusals.

Matching: with three orders a taker meets two makers at one price or at two, or
one residual meets the next.  Quantities 3, 4 and 6 leave remainders of 1 (the
tolerance), 2 and 3; quantity 1 is within the tolerance.  The events have two
levels, several orders for one level and several levels for one order, a
level within the tolerance of a limit price, and one that reaches both sides'
loops.  The second instrument shows that books are separate.

Live execution: four reports carry an acknowledgement, a partial fill, the
acceptance of a cancellation and the end, or two fills with an end; more orders
only multiply the states, since the tracker treats orders independently but for
the report ids, which are unique.  `MaxReports` and `MaxRestarts` stop the
growth of an otherwise unbounded history.

Ingestion: the first partition has a valid, a rejected, a malformed and again a
valid message, so that the derived checkpoint and the committed offset differ;
the second adds a partition to choose from.  Three crashes allow a crash in the
recovery of a crash, twice.

Runtime: three events are enough for a position that is opened by one order and
reversed by another, for a maker that `submit` fills and a restart makes rest
again, and for an event that is older than the last; two restarts allow one in
the process that was recovered.  `StaleAfter` and the clock let a price become
stale between an event and a request.  The request of the plugin without a price
is the one that needs a reference price; the averages that recovery can make up
differ from every trade price of feed and snapshots.  The properties also hold with
`Backend = "memory"`.

Files: two saves give a file of two rows that is cut in either, or a row that is
replaced.  The amounts are one that every column keeps and one with nine
digits, which the columns of six digits or six decimals round; offsets of one and two
digits; profits of either sign, of which the negative one can be cut after its
sign and the positive one is rounded up to a new digit.

Application: two cycles allow a timer that is due after the first; three
processes allow fallback between two native runs, or two kills.  The one
instrument gives a file of one position and one of two balances, which is cut at
either; two fills allow a process to add to what an earlier one saved.

Exchange: three orders allow one from before a restart, one that gets its id
and one more; the settings are no partial fill, half, and a ratio that is
clamped to everything.  One refusal may come before or after any report of any
order (`MaxRefusals` stops an otherwise unbounded history).  Two reconnects and two late messages allow a message
from before each disconnect.

Deadlock is checked for the book and the engine, which always accept a call.
The other systems stop: the exchange has no more to say, every message has been
handled, the bound on events, saves or processes is reached, a file repository
could not start, or the clock has reached its bound.

### Fairness

`MatchingEngine!FairSpec` has weak fairness of `Step`, the iterations of an
operation that has been called; they run in the caller's thread and nothing
preempts them.  Calls themselves are not fair.  `TransactionIngestion!FairSpec`
has weak fairness of the process's own steps: its caller keeps calling
`process_next`, as the loop of the ingestion benchmark does, and a dead process
is started again.  Crashes are bounded and not fair.  `Progress` exempts a
partition that a recovery took from the client (see section 5).
`Application!Spec` has weak fairness of `Thread`, the steps inside `run_once`: a
loop of one thread that nothing blocks.  Starting, saving, crashes and the clock
are not fair.  `Exchange!Spec` has weak fairness of the clock and of handing a
received message to the tracker; the feed itself is not fair.

### Findings

* **A pending cancellation that expires never ends.**  `should_apply_status`
  (`live_execution_tracker.cpp:183`) lets an order in `pending_cancel` become
  `canceled`, `filled` or `partially_filled`.  A report of `expired` or
  `rejected` is dropped, and the order stays open in the tracker and in storage,
  against "Transitions must be driven by exchange responses and guarded against
  duplicate or out-of-order messages"
  (`design/crypto_trading_engine_design.md:451`).  Run `live_execution_expiry`.
  The passing run assumes an exchange that does not expire such an order.
* **Order ids are used again after a restart.**  `next_order_id_`
  (`matching_engine.cpp:18`) starts at 1 in every process and
  `restore_open_order` does not move it.  The first submit after a restart gets
  an id the order table has: `persist_new_order` writes no row, the updates of
  the new order go to the old row, and a restored order with that id may still
  rest in the book, against "Generate unique client order IDs"
  (`design/crypto_trading_engine_design.md:91`).  Run `runtime_ids`.
* **The position limit does not limit positions.**  `evaluate`
  (`risk_engine.cpp:17`) compares `max_position_quantity` with the request and
  never reads the position, against "Enforce max position size per instrument"
  (`design/crypto_trading_engine_design.md:82`).  Run `runtime_limit`.
* **Intents without a price are lost.**  The line of such an intent ends in an
  empty field, which `split_tsv` does not see, and `load` skips it
  (`postgres_repositories.cpp:652`), against "Returns all persisted order intents"
  (`include/storage/storage_interfaces.hpp:148`).  Run `files_intents`.  A report
  whose reason holds a tab is lost in the same way.

## 4. Proofs

TLAPS checks the theorems below for every value of the constants.  A run shows
the same property on its instance first (but for the `TypeOK` of `LiveExecution`,
which is proved only), and the parts of the inductive
invariants were found by asking which step could break the property.

| module | theorem | what it states |
| --- | --- | --- |
| `MatchingEngineProofs` | `TypeCorrect`, `RecordsMatchBooksHolds`, `NoCrossedBookHolds`, `FillsHonorLimitsHolds`, `FilledOrdersReportedHolds`, `ConservationHolds` | the invariants of these names |
| | `TerminalIsFinalHolds` | no step changes or forgets a terminal order |
| `OrderBookProofs` | `TypeCorrectness`, `BookAlwaysConsistent`, `BestAlwaysFirst` | `TypeOK`, `BookConsistent`, `BestIsPriceTimeFirst` |
| | `BookImplementsPriceTimeBook` | the refinement of `PriceTimeBook` |
| `LiveExecutionProofs` | `TypeCorrectness`, `FillsAlwaysAddUp` | `TypeOK`, `FillsAddUp` |
| | `OrdersNeverRollBack` | the action property `NeverRollsBack` |
| | `AgreementOnceTold` | `AgreesOnceTold`, if the exchange expires no order with a pending cancellation |
| `TransactionIngestionProofs` | `TypeCorrectness`, `CommitsFollowHandling`, `NothingEverSkipped`, `CacheAlwaysAgrees` | `TypeOK`, `CommittedAfterHandling`, `NothingSkipped`, `CacheAgrees` |
| | `NeverRepublished` | the action property `CommittedNotRepublished`, if the log repeats no transaction id |
| `RuntimeProofs` | `RuntimeTypeCorrect`, `StoredPortfolioIsCurrent` | `TypeOK`, `StoredPortfolioCurrent` |
| | `StoredOrdersAreNotAhead`, `RecoveredBooksMatchHolds`, `StoredFillsAreBehindOrders`, `ExposureIsBounded` | `StoredOrdersNotAhead`, `RecoveredBooksMatch`, `FillsBehindOrders`, `ExposureBounded` |
| | `BaseBalancesArePositions` | `BaseEntry`, the base side of `DoubleEntry`, if every instrument has a base asset of its own |
| `ApplicationProofs` | `DeliveryIsFifo`, `SavedFillsAddUp` | `FifoDelivery`, `CompletedRunsAddUp` |
| `ExchangeProofs` | `FillsAlwaysMatchReports`, `ClosedOrdersStayClosed` | `FillsMatchReports`, `ClosedStaysClosed` |

### Assumptions

The named assumptions of the modules give the types of the constants: a
tolerance that is a natural number, requests and events with the fields of the
C++ structures, a log that is a sequence for each partition, settings that are
numbers.  Nothing is assumed of the values: zero prices and quantities, market
orders, empty level lists and malformed messages are included, and the bounds of
the runs (`MaxOrders`, `MaxCrashes`, ...) are any numbers.  Three assumptions say
more.  `ClockAssumption` (`Runtime`): the clock, which counts milliseconds since
1970, starts past the staleness threshold.  `ExchangeAssumption`: quantities are
even, since the partial fills of the model are halves.
`ApplicationAssumption`: sources deliver market and transaction events, never
timers.

Three theorems have a hypothesis of their own, and each is necessary.  Without
`~ExpiresWhileCanceling` agreement is false, which is the first finding.
Without `UniqueIds` a repeated transaction id moves its record and a committed
command can be published again.  Without `DistinctAssets` two instruments share
a balance, which then is the sum of two positions.

### The arguments

*Sums.*  `Conservation`, `FillsBehindOrders` and `ExposureBounded` add quantities
up over sets of any size.  The library's sum is a fold that takes its set apart at
elements picked by `CHOOSE`.  `SumTheorems` frees it of that choice: the fold's
recursive function exists and is unique on every finite set, so any element may
be taken out first (`SumRemove`), and from there how a sum changes, compares and
splits.  The induction theorems of the library take a predicate as a parameter,
which no installed prover can instantiate; `SubsetInduction` takes the *set* of the
subsets a statement holds of instead, and is proved from the least element that a
well-founded ordering gives every nonempty set.

*Matching engine.*  `IInv == TypeOK /\ Consistent /\ NoCrossedBook`, with
`Consistent == Typed /\ RecordsMatchBooks /\ SubmitInProgress`.  `Typed` is
`TypeOK` without the claim that ids are consecutive: it is what an engine that was
recovered still satisfies, and the lemmas about steps assume no more than
`Consistent`, so that `RuntimeProofs` can use them after a restart.  None of the
parts is inductive alone.  The residual of a submit
may rest without crossing the book because the loop ended with the best order of
the other side out of reach, which rests on the book accepting every fill the
loop offers, which rests on every resting quantity exceeding the tolerance (in
`RecordsMatchBooks`).  That the record of a maker becomes terminal exactly when
the book drops it needs both to have the same unfilled quantity before the fill.
`SubmitInProgress` is the loop invariant.  For `FilledOrdersReported` the
invariant `ReportInv` adds that a submit with fills has come down from its
quantity by more than the tolerance, so that its status changes and is reported,
and that a market event reports only after its last fill.

`Conservation` is up to one tolerance per order, because a record is rounded up
when its order completes, and in that form it is not inductive.  `LedgerInv` is an
exact equation instead, about the *executed* quantities: there is a function `t`,
for each order at most a tolerance below its record and below it only if the order
is filled, such that what `t` says was bought less what it says was sold is what the
feed took, less what the running `submit` has traded and not yet recorded.  Each
trade moves two terms of the equation by the same quantity (`NetMoves`), and
`LedgerConserves` compares the sum over `t` with the sum over the records.

The section on results and their caller proves what the runtime needs of a call,
and the engine's own invariants do not say: updates never take back what an earlier
update or row says (`StepAscends`), no update and no row is ahead of its record
(`Behind`, `StepBehind`), and whatever the caller has booked of its orders before,
the fills of a result are covered by the updates it comes with (`Accounted`,
`StepAccounted`).

*Order book.*  The invariant says that an order is in the index exactly when it
stands in the deque of its side and price (`Placed`, `Indexed`), that a deque is
in arrival order and never empty (`Arrival`, `Alive`), and that the count is the
size of the index.  `RemoveAtFacts` is the lemma that erasing keeps a deque in
order.  The refinement maps the levels to the set of all their orders.

*Live execution.*  The invariant says what every report still under way may
claim: no more than the exchange has filled, and a terminal status only if the
exchange ended so; a processed report has been heard.  Report ids are unique, so
a duplicate changes nothing.  Agreement needs the time order as well: a terminal
report is the latest of its order, so the check for stale reports never drops
it, and an order reported as `pending_cancel` ends canceled or is filled further.

*Ingestion.*  The message in hand is the last one polled (`InHand`), everything
before a processed record or a checkpoint is settled, and the cache lags the
records by that message at most (`CacheFollows`).  That no command is published
twice needs the converse as well: what lies below a committed offset, and what
lies before a processed record, is itself processed under its own id.  The
highest offset of a set, from which a checkpoint is derived, exists by the
least-number principle (`WFMin` of the library).

*Runtime.*  `PortfolioInv` follows the loops over positions and balances: what is
no longer in `unsaved` is stored.  `DataInv` types what `on_event` works on.
`LedgerInv` has the balance of both sides in memory and in the tables, except
while a result is stored.

The other five theorems need the engine.  `EP` is an instance of
`MatchingEngineProofs` with the runtime's variables; a few bridge lemmas say that
the steps of `Engine` are those of `EP`, and the engine's lemmas are then cited as
`EP!StepAccounted` and so on.  Three invariants build on each other:

* `RowsInv`: every order of the engine has a row, except the one whose submit has
  not yet been persisted, and a result speaks of orders of the engine only.  After a
  restart both follow from the engine being rebuilt from the rows.
* `BehindInv`: while ids are fresh, the engine is `Consistent` and every row, and
  every update not yet stored, is behind its record.  A restart makes records out of
  rows, so it starts a new engine in which the two are equal; that it satisfies
  `Consistent` again is `RestartBehind`.
* `ExposureInv`: there is a booking `h`, a quantity for every row, with
  stored fills <= `h` <= filled quantity of the row <= its quantity for each order,
  every position <= the sum of `h`, and the quantities of all rows <= what was
  approved.  `h` cannot be read off the tables: a restart loses positions that were
  not yet stored, and PostgreSQL drops a fill whose id it has, so both tables may
  say less than was booked.  The quantifier in the invariant keeps it.  While a
  result is handled `Storing` and `Booking` say how much of it the rows already
  cover: updates are stored before fills, so when the loop over the fills begins
  the rows cover all of them, and each fill moves its quantity from what is covered
  to what is booked.

*Application.*  `StoreInv` goes row by row: a row of the portfolio is what the
store has counted for it and what the fills of this process add, until the row
is saved; then the store has both.  A save, or a rewrite that is cut, thus leaves
every row with what was counted for it, and the rows that are lost with nothing.
`DeliveryInv` splits the queue's history into what a handler has seen, the event
it may still have to see and the queue, and compares the timers in it with the
timers marked as emitted, by cardinality.

*Exchange.*  The last report of an open order, that is its last update that is no
refusal, is `partially_filled` with the quantity it holds, and no report before
the last one of an order closes it.

### What the proofs changed in the model

`CASE` with guards that overlap chooses any of the true ones, for TLC the first;
the proofs did not go through until the guards were made exclusive, as the
`if`/`else` of the code are.  The loops over timers and strategies became steps,
one per iteration, which is closer to the code and needs no induction.
`StoredOrdersNotAhead` used to say that a terminal row has the filled quantity of
its record; the proof showed that this holds without tolerance only.  `submit`
reports the quantity its order traded (`matching_engine.cpp:119`) but rounds the
record up to the request (line 113), so the row may be up to one tolerance below, and
the property now says so.

### Only model-checked

* `CallsReturn`, `Progress`, `EventsReachEveryHandler`, `DeadFeedShows`: liveness
  under fairness is beyond the prover.
* `QuoteEntry`, the quote side of `DoubleEntry`: it compares sums of fractions in
  lowest terms, and the provers have no theory of the greatest common divisor that
  `Frac` divides by.
* `ReplayMatchesHandled`, `NoFurtherDrift`, `CheckpointNeverAhead`,
  `CutFileStillLoads` and `ImplementsRepository`: they rest on what `FlattenSeq` and `SetToSortSeq` make of
  texts and tables of any length.  Subsets of a finite set can be induced over
  (`SubsetInduction`), these recursive definitions over sequences cannot.

## 5. Assumptions and what is left out

* After a restart `LiveExecution` submits no order: the adapter would number
  its orders from 1 again (listed under hazards).  The application does not yet
  call the tracker's `restore_order`; the model calls it for every order that is
  not terminal, as the recovery of the runtime does for the matching engine.
* In `LiveExecution` storage has what the tracker has at every restart: nothing
  in the repository stores the results of the live adapter.
* `process_next` is driven by tests and benchmarks; the application does not
  start it.  The model takes the caller to be a loop.
* Records are keyed by transaction id, as in the Postgres repositories.  The
  logs of the runs repeat no id: a repeated id moves its record to the newer
  offset, and `CommittedNotRepublished` is not claimed then.
* Parsing of payloads is reduced to whether it succeeds, validation to whether
  it passes.  Prices and quantities are whole numbers but where rounding is the
  question (`Portfolio`, `TsvTables`).
* The price of a request is missing (0 in the model) or positive: a request that
  carries a price of 0, which `resolve_reference_price` would take as it is, is
  outside the inputs.  The strategies of the repository never make one.
* `Runtime` has one quote asset and no fees, as the matching engine reports
  none.  The six decimals with which a `double` enters an SQL statement are left
  out; those of the file format are modelled.
* `Application` polls its sources once per cycle and calls `run_once` up to
  `Cycles` times, once in the program.
* A row of a local file that was cut inside its last number, the unrealized
  profit or the available balance, is read with the right quantity; `Application`
  counts quantities only.  Instruments have base assets of their own there.
* Latencies, metrics, log lines and the roll-up of the health statuses are left
  out: nothing reads them to decide.

Not modelled: the configuration loader, the transaction publisher, the Kafka
producer and the command line tools are parsing, formatting and calls of
libraries without a state of their own.  The market data router and the
normalisation of exchange payloads are a lookup and field copies.
`EngineController::enqueue` is called by tests only.  Connecting to PostgreSQL
and Redis, and the SQL of tables that no part writes to (intents, execution
reports), are left out; their file-backed counterparts are modelled.

### Weaknesses of the code that the models contain

The models follow the code in what is listed here, and TLC reaches it; no run
states the opposite as a property.  Where one of them limits what a property can
say, the comment of the property says so.

* Recovery consumes one partition only.  `seek`
  (`kafka_transaction_consumer.cpp:240`) assigns the one partition it seeks, and
  `resume_kafka` calls it for one checkpoint after another, so that with several
  partitions the last stays assigned, against "Resume Kafka consumption from the
  intended committed position after recovery"
  (`design/implementation_plan_by_phase.md:220`).  `Progress` exempts the others.
* A survived exception loses its message.  `process_next` rethrows a storage
  failure (`transaction_ingestor.cpp:16`) after the consumer has moved on.  Were it
  caught, the next commit of the partition would cover the failed message.  The
  model takes the exception to end the process, as it does when nobody catches it.
* A filled resting order is stored as open.  `submit` (`matching_engine.cpp:82`)
  returns no update of the orders it matched, so their rows stay unfilled, and a
  restart makes them rest again in full and trade a quantity once more.
  `StoredOrdersNotAhead` allows the lag.
* Fills after a restart are not stored.  Fill ids start at 1 again
  (`matching_engine.cpp:85`) and PostgreSQL keeps the row it has.
  `FillsBehindOrders` allows missing fills.
* A stop between two writes loses a fill of the position.  Fills, positions and
  balances are separate statements (`simulation_runtime.cpp:105`) and recovery does
  not compare them.
* A made-up price is traded on.  Without exchange snapshots `recover`
  (`recovery_service.cpp:59`) makes the average entry price the last trade price,
  with timestamp 0.  The next event with a book and no trade makes that state
  fresh, and a request without a price is approved against the average.
* A kill in a rewrite undoes earlier runs.  Every `save_position` and
  `save_balance` of the local repositories truncates the file
  (`postgres_repositories.cpp:797`, 876), and `run` calls them row by row.
  `CompletedRunsAddUp` counts lost rows from nothing.
* One damaged line keeps the fallback from starting.  `stod` throws in the
  constructor (`postgres_repositories.cpp:780`), in the catch block of `run`.
* A cut line of the event log may be taken for one of the older format, with its
  fields misread (`replay_service.cpp:181`).  `ReplayMatchesHandled` compares the
  kind and the id of that line only.

## 6. Plan

1. *Done*: book, matching engine, live tracking, ingestion, runtime with
   recovery, file-backed repositories, application with event loop and event
   log, exchange and feed; the theorems of section 4.
2. Open: the quote side of `DoubleEntry` over fractions that are compared by cross
   multiplication and not in lowest terms; proofs about the file format, once the
   texts of `TsvTables` have a definition without folds over sequences.
