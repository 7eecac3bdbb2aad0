------------------------------ MODULE Runtime ------------------------------
(***************************************************************************)
(* The simulation runtime (simulation_runtime.cpp): on_event takes one     *)
(* event through the market state store, the matching engine, the          *)
(* portfolio, the strategies and the risk engine, and writes orders,       *)
(* fills, positions, balances and market snapshots to the repositories it  *)
(* was given.  Each durable write is a step of its own, and the process    *)
(* may stop before any of them; the recovery service then restores a new   *)
(* process from what was written.  The engine is MatchingEngine.           *)
(*                                                                         *)
(* phase says where on_event stands:                                       *)
(*   idle -> execution -> updates -> fills -> positions -> balances        *)
(*        -> strategies -> requests -> idle,                               *)
(* with execution to balances once more for every approved request.        *)
(***************************************************************************)
EXTENDS Strategies, DurableStores, RestingOrders, Functions, FiniteSetsExt

CONSTANTS Instruments, NoInstrument, MaxOrders,   \* see MatchingEngine
          Feed,             \* market events that may arrive
          Snapshots,        \* snapshots the exchange may give recovery
          MaxEvents,        \* bound on events and control commands of all processes
          MaxRestarts,      \* bound on restarts
          FirstNow, MaxNow  \* the clock at the start and its bound

\* The clock counts milliseconds of the epoch, the threshold is in seconds.
ASSUME ClockAssumption ==
  /\ StaleAfter \in Nat /\ FirstNow \in Nat /\ MaxNow \in Nat
  /\ StaleAfter < FirstNow /\ FirstNow <= MaxNow

Request == [instrument: Instruments, side: Sides, type: {"limit", "market"}, price: Nat,
            quantity: Nat]
Levels == Seq([price: Nat, quantity: Nat])
BuiltIn == [kind: {"threshold", "spread"}, instrument: Instruments, side: Sides, trigger: Nat,
            quantity: Nat]

ASSUME InputAssumption ==
  /\ Feed \subseteq [kind: {"market"}, instrument: Instruments, price: Nat, quantity: Nat,
                     bid: Nat, ask: Nat, bid_levels: Levels, ask_levels: Levels,
                     timestamp: Nat]
  /\ Snapshots \subseteq SUBSET [instrument: Instruments, bid: Nat, ask: Nat, trade: Nat,
                                 timestamp: Nat]
  /\ PluginRequests \subseteq Request
  /\ StrategySlots \in Seq(BuiltIn \cup [kind: {"plugin"}])
  /\ MaxOrders \in Nat /\ MaxOrderQuantity \in Nat /\ MaxPositionQuantity \in Nat

VARIABLES books, next_seq, orders, next_order_id, next_fill_id, result, pc,
          incoming, remaining, instrument, levels, touched, external

Engine == INSTANCE MatchingEngine WITH Requests <- PluginRequests, MarketEvents <- Feed

VARIABLES phase,            \* where on_event stands
          event,            \* the event being handled
          pending,          \* requests of the strategies not yet looked at
          serving,          \* <<request>> while it is executed, else <<>>
          k,                \* index of the loops over updates, fills and strategies
          unsaved,          \* keys left of the loops over positions and balances
          market,           \* states_ of the market state store
          portfolio,        \* the portfolio service
          slots,            \* the strategy coordinator
          trading_paused,   \* RuntimeOperationalControls
          now,              \* the clock
          db_orders, db_fills, db_positions, db_balances,   \* repositories
          cache,            \* market state cache
          received,         \* history: events and commands so far, for the bound
          restarts,         \* history: restarts so far
          issued,           \* history: order ids in the order of their submits
          approved,         \* history: approved quantity
          torn              \* history: a restart hit the portfolio writes

engineVars == <<books, next_seq, orders, next_order_id, next_fill_id, result, pc,
                incoming, remaining, instrument, levels, touched, external>>
workVars == <<event, pending, serving, k, unsaved>>
dbVars == <<db_orders, db_fills, db_positions, db_balances>>
envVars == <<slots, trading_paused, now>>
historyVars == <<received, restarts, issued, approved, torn>>
vars == <<engineVars, phase, workVars, market, portfolio, envVars, dbVars, cache, historyVars>>

NoEvent == [kind |-> "none"]

Init ==
  /\ Engine!Init
  /\ phase = "idle" /\ event = NoEvent /\ pending = <<>> /\ serving = <<>>
  /\ k = 1 /\ unsaved = {}
  /\ market = <<>> /\ portfolio = EmptyPortfolio /\ slots = FreshSlots
  /\ trading_paused = FALSE /\ now = FirstNow
  /\ db_orders = <<>> /\ db_fills = <<>> /\ db_positions = <<>> /\ db_balances = <<>>
  /\ cache = <<>>
  /\ received = 0 /\ restarts = 0 /\ issued = <<>> /\ approved = 0 /\ torn = FALSE

----------------------------------------------------------------------------
(* on_event                                                                *)

\* persist_market_snapshot: what the event carries, whatever its timestamp
SnapshotOf(e) ==
  [best_bid |-> BestOf(e.bid_levels, e.bid), best_ask |-> BestOf(e.ask_levels, e.ask),
   last_trade |-> Whole(e.price), timestamp |-> e.timestamp]

\* A market event: the store and the cache, then the engine is called.
OnMarketEvent(e) ==
  /\ phase = "idle"
  /\ received < MaxEvents
  /\ e.timestamp <= now
  /\ market' = Set(market, e.instrument, Apply(At(market, e.instrument, NoState), e))
  /\ cache' = UpsertSnapshot(cache, e.instrument, SnapshotOf(e))
  /\ Engine!ProcessMarketEvent(e)
  /\ phase' = "execution"
  /\ event' = e
  /\ received' = received + 1
  /\ UNCHANGED <<pending, serving, k, unsaved, portfolio, envVars, dbVars,
                 restarts, issued, approved, torn>>

\* A transaction command or a timer: only the strategies see it.
OnOtherEvent(kind) ==
  /\ phase = "idle"
  /\ received < MaxEvents
  /\ phase' = "strategies"
  /\ event' = [kind |-> kind]
  /\ k' = 1
  /\ received' = received + 1
  /\ UNCHANGED <<engineVars, pending, serving, unsaved, market, portfolio, envVars,
                 dbVars, cache, restarts, issued, approved, torn>>

EngineStep ==
  /\ phase = "execution"
  /\ Engine!Step
  /\ UNCHANGED <<phase, workVars, market, portfolio, envVars, dbVars, cache, historyVars>>

\* Mutant: a row is written only for an order that traded at once.
IsTradedOrder == serving # <<>> /\ result.fills # <<>>

\* The result is of a submit, and the table has no row of its order id.
IsNewOrder == serving # <<>> /\ result.order_id \notin DOMAIN db_orders

\* The engine has returned; persist_new_order writes the row of a new order.
PersistNewOrder ==
  /\ phase = "execution"
  /\ pc = "idle"
  /\ db_orders' = IF IsNewOrder THEN SaveOrder(db_orders, result.order_id, serving[1])
                                ELSE db_orders
  /\ phase' = "updates"
  /\ k' = 1
  /\ UNCHANGED <<engineVars, event, pending, serving, unsaved, market, portfolio, envVars,
                 db_fills, db_positions, db_balances, cache, historyVars>>

----------------------------------------------------------------------------
(* handle_execution_result                                                 *)

SaveUpdate ==
  /\ phase = "updates"
  /\ k \in DOMAIN result.updates
  /\ db_orders' = SaveOrderUpdate(db_orders, result.updates[k])
  /\ k' = k + 1
  /\ UNCHANGED <<engineVars, phase, event, pending, serving, unsaved, market, portfolio,
                 envVars, db_fills, db_positions, db_balances, cache, historyVars>>

\* The instrument of the fills being handled.
FillInstrument == IF serving = <<>> THEN event.instrument ELSE serving[1].instrument

\* Mutant: the fills are applied before the order updates are stored.
UpdatesNeverFirst == phase = "updates"

UpdatesDone == phase = "updates" /\ k > Len(result.updates)

ToFills ==
  /\ UpdatesDone
  /\ phase' = "fills"
  /\ k' = 1
  /\ UNCHANGED <<engineVars, event, pending, serving, unsaved, market, portfolio, envVars,
                 dbVars, cache, historyVars>>

\* One fill: its row, then the portfolio.
HandleFill ==
  /\ phase = "fills"
  /\ k \in DOMAIN result.fills
  /\ db_fills' = AppendFill(db_fills, result.fills[k])
  /\ portfolio' = ApplyFill(portfolio, FillInstrument, result.fills[k])
  /\ k' = k + 1
  /\ UNCHANGED <<engineVars, phase, event, pending, serving, unsaved, market, envVars,
                 db_orders, db_positions, db_balances, cache, historyVars>>

ToPositions ==
  /\ phase = "fills"
  /\ k > Len(result.fills)
  /\ phase' = "positions"
  /\ unsaved' = DOMAIN portfolio.positions
  /\ UNCHANGED <<engineVars, event, pending, serving, k, market, portfolio, envVars,
                 dbVars, cache, historyVars>>

\* The maps are unordered, so the rows are written in any order.
StorePosition(i) ==
  /\ phase = "positions"
  /\ i \in unsaved
  /\ db_positions' = SavePosition(db_positions, i, portfolio.positions[i])
  /\ unsaved' = unsaved \ {i}
  /\ UNCHANGED <<engineVars, phase, event, pending, serving, k, market, portfolio, envVars,
                 db_orders, db_fills, db_balances, cache, historyVars>>

\* Mutant: only one of the balances is written.
OneBalance == IF portfolio.balances = <<>> THEN {} ELSE {Quote}

BalancesToSave == DOMAIN portfolio.balances

ToBalances ==
  /\ phase = "positions"
  /\ unsaved = {}
  /\ phase' = "balances"
  /\ unsaved' = BalancesToSave
  /\ UNCHANGED <<engineVars, event, pending, serving, k, market, portfolio, envVars,
                 dbVars, cache, historyVars>>

StoreBalance(asset) ==
  /\ phase = "balances"
  /\ asset \in unsaved
  /\ db_balances' = SaveBalance(db_balances, asset, portfolio.balances[asset])
  /\ unsaved' = unsaved \ {asset}
  /\ UNCHANGED <<engineVars, phase, event, pending, serving, k, market, portfolio, envVars,
                 db_orders, db_fills, db_positions, cache, historyVars>>

\* After a market event the mark price is set, after a request the loop goes on.
HandledResult ==
  /\ phase = "balances"
  /\ unsaved = {}
  /\ portfolio' = IF serving = <<>> /\ event.price > 0
                  THEN SetMarkPrice(portfolio, event.instrument, Whole(event.price))
                  ELSE portfolio
  /\ phase' = IF serving = <<>> THEN "strategies" ELSE "requests"
  /\ serving' = <<>>
  /\ k' = 1
  /\ UNCHANGED <<engineVars, event, pending, unsaved, market, envVars, dbVars, cache,
                 historyVars>>

----------------------------------------------------------------------------
(* Strategies and requests                                                 *)

\* One strategy of the coordinator's loop.
RunStrategy ==
  /\ phase = "strategies"
  /\ k \in Slots
  /\ IF Active(slots, k)
     THEN \E reply \in Replies(slots, k, event, market) :
            /\ pending' = pending \o reply.requests
            /\ slots' = SlotAfter(slots, k, event, market, reply)
     ELSE UNCHANGED <<pending, slots>>
  /\ k' = k + 1
  /\ UNCHANGED <<engineVars, phase, event, serving, unsaved, market, portfolio,
                 trading_paused, now, dbVars, cache, historyVars>>

ToRequests ==
  /\ phase = "strategies"
  /\ k > Len(StrategySlots)
  /\ phase' = "requests"
  /\ UNCHANGED <<engineVars, workVars, market, portfolio, envVars, dbVars, cache, historyVars>>

\* The request is dropped: trading is paused, or the risk engine refuses it.
DropRequest ==
  /\ phase = "requests"
  /\ pending # <<>>
  /\ trading_paused \/ ~Approved(market, Head(pending), now)
  /\ pending' = Tail(pending)
  /\ UNCHANGED <<engineVars, phase, event, serving, k, unsaved, market, portfolio, envVars,
                 dbVars, cache, historyVars>>

SubmitRequest ==
  /\ phase = "requests"
  /\ pending # <<>>
  /\ ~trading_paused
  /\ Approved(market, Head(pending), now)
  /\ Engine!Submit(Head(pending))
  /\ pending' = Tail(pending)
  /\ serving' = <<Head(pending)>>
  /\ phase' = "execution"
  /\ issued' = Append(issued, next_order_id)
  /\ approved' = approved + Head(pending).quantity
  /\ UNCHANGED <<event, k, unsaved, market, portfolio, envVars, dbVars, cache, received,
                 restarts, torn>>

FinishEvent ==
  /\ phase = "requests"
  /\ pending = <<>>
  /\ phase' = "idle"
  /\ event' = NoEvent
  /\ UNCHANGED <<engineVars, pending, serving, k, unsaved, market, portfolio, envVars,
                 dbVars, cache, historyVars>>

----------------------------------------------------------------------------
(* The surroundings.  The clock and the pause flag are read only where     *)
(* requests are looked at, so they change only there and between events.   *)

AtRead == phase \in {"idle", "requests"}

Tick ==
  /\ AtRead
  /\ now < MaxNow
  /\ now' = now + 1
  /\ UNCHANGED <<engineVars, phase, workVars, market, portfolio, slots, trading_paused,
                 dbVars, cache, historyVars>>

\* pause_trading and resume_trading (a call that changes nothing is left out)
SetTradingPaused(value) ==
  /\ AtRead
  /\ received < MaxEvents
  /\ trading_paused # value
  /\ trading_paused' = value
  /\ received' = received + 1
  /\ UNCHANGED <<engineVars, phase, workVars, market, portfolio, slots, now, dbVars, cache,
                 restarts, issued, approved, torn>>

\* pause_strategy and resume_strategy, likewise
SetStrategyPaused(s, value) ==
  /\ phase = "idle"
  /\ received < MaxEvents
  /\ slots.paused[s] # value
  /\ slots' = WithPaused(slots, s, value)
  /\ received' = received + 1
  /\ UNCHANGED <<engineVars, phase, workVars, market, portfolio, trading_paused, now,
                 dbVars, cache, restarts, issued, approved, torn>>

----------------------------------------------------------------------------
(* Restart and recovery                                                    *)

\* What the engine's restore_open_order and the book's add_order accept.
Restorable(row) ==
  /\ row.type = "limit"
  /\ row.price > 0
  /\ row.quantity > 0
  /\ row.filled + Tolerance < row.quantity

Restored == {id \in OpenOrders(db_orders) : Restorable(db_orders[id])}

\* Mutant: the restored order has forgotten what it had filled.
RestoredUnfilled(row) ==
  [instrument |-> row.instrument, side |-> row.side, price |-> row.price,
   quantity |-> row.quantity, filled |-> 0, status |-> "acknowledged"]

RestoredRecord(row) ==
  [instrument |-> row.instrument, side |-> row.side, price |-> row.price,
   quantity |-> row.quantity, filled |-> row.filled,
   status |-> IF row.filled > 0 THEN "partially_filled" ELSE "acknowledged"]

\* RecoveryService::recover: the exchange's snapshots replace the cached ones;
\* without any, each position leaves one made of its average price.
RecoveredCache(snapshots) ==
  LET given(i) == CHOOSE s \in snapshots : s.instrument = i
      average(i) == db_positions[i].average
      state(bid, ask, trade, timestamp) ==
        [best_bid |-> bid, best_ask |-> ask, last_trade |-> trade, timestamp |-> timestamp]
      fresh == IF snapshots # {}
               THEN [i \in {s.instrument : s \in snapshots} |->
                       state(given(i).bid, given(i).ask, Whole(given(i).trade),
                             given(i).timestamp)]
               ELSE [i \in DOMAIN db_positions |->
                       state(0, 0, IF average(i)[1] > 0 THEN average(i) ELSE Zero, 0)]
  IN  [i \in DOMAIN cache \cup DOMAIN fresh |->
         IF i \in DOMAIN fresh THEN fresh[i] ELSE cache[i]]

\* restore_position, restore_balance and the marks of restore_market_snapshot
RecoveredPortfolio(states) ==
  LET marked == {i \in DOMAIN states : states[i].last_trade # Zero}
  IN  [positions |-> [i \in DOMAIN db_positions |->
                        IF i \in marked
                        THEN UpdateUnrealized(db_positions[i], states[i].last_trade)
                        ELSE db_positions[i]],
       marks     |-> [i \in marked |-> states[i].last_trade],
       balances  |-> db_balances]

(***************************************************************************)
(* The process stops wherever it is and a new one recovers.  The open      *)
(* orders come in no particular order, so they may queue in any.  Ids and  *)
(* latches start anew.                                                     *)
(***************************************************************************)
Restart(snapshots) ==
  LET states == [i \in DOMAIN db_positions \cap DOMAIN RecoveredCache(snapshots) |->
                   RecoveredCache(snapshots)[i]]
  IN  /\ restarts < MaxRestarts
      /\ restarts' = restarts + 1
      /\ torn' = (torn \/ phase \in {"positions", "balances"})
      /\ cache' = RecoveredCache(snapshots)
      /\ market' = states
      /\ portfolio' = RecoveredPortfolio(states)
      /\ \E rank \in Injection(Restored, 1..Cardinality(Restored)) :
           books' = [i \in Instruments |->
             {[id |-> id, side |-> db_orders[id].side, price |-> db_orders[id].price,
               remaining |-> db_orders[id].quantity - db_orders[id].filled,
               seq |-> rank[id]] : id \in {x \in Restored : db_orders[x].instrument = i}}]
      /\ next_seq' = [i \in Instruments |-> Cardinality(Restored) + 1]
      /\ orders' = [id \in Restored |-> RestoredRecord(db_orders[id])]
      /\ next_order_id' = 1 /\ next_fill_id' = 1
      /\ result' = [order_id |-> 0, updates |-> <<>>, fills |-> <<>>]
      /\ pc' = "idle" /\ incoming' = 0 /\ remaining' = 0
      /\ instrument' = NoInstrument /\ levels' = <<>> /\ touched' = {}
      /\ phase' = "idle" /\ event' = NoEvent /\ pending' = <<>> /\ serving' = <<>>
      /\ k' = 1 /\ unsaved' = {}
      /\ slots' = FreshSlots /\ trading_paused' = FALSE
      /\ UNCHANGED <<external, now, dbVars, received, issued, approved>>

----------------------------------------------------------------------------
\* The steps on_event takes once an event has arrived.
Work ==
  \/ EngineStep
  \/ PersistNewOrder
  \/ SaveUpdate
  \/ ToFills
  \/ HandleFill
  \/ ToPositions
  \/ \E i \in Instruments : StorePosition(i)
  \/ ToBalances
  \/ \E asset \in Range(Base) \cup {Quote} : StoreBalance(asset)
  \/ HandledResult
  \/ RunStrategy
  \/ ToRequests
  \/ DropRequest
  \/ SubmitRequest
  \/ FinishEvent

Next ==
  \/ Work
  \/ \E e \in Feed : OnMarketEvent(e)
  \/ \E kind \in {"reset_strategy", "other"} : OnOtherEvent(kind)
  \/ Tick
  \/ \E value \in BOOLEAN : SetTradingPaused(value)
  \/ \E s \in Slots, value \in BOOLEAN : SetStrategyPaused(s, value)
  \/ \E snapshots \in Snapshots : Restart(snapshots)

Spec == Init /\ [][Next]_vars

----------------------------------------------------------------------------
StoredOrder == [instrument: Instruments, side: Sides, type: {"limit", "market"},
                price: Nat, quantity: Nat, filled: Nat, status: Engine!OrderStatus]

(***************************************************************************)
(* Type correctness of what on_event keeps between its steps and of the    *)
(* tables: in particular save_order_update never meets an unknown order    *)
(* and makes a row without instrument and quantity.                        *)
(***************************************************************************)
TypeOK ==
  /\ phase \in {"idle", "execution", "updates", "fills", "positions", "balances",
                "strategies", "requests"}
  /\ Len(serving) <= 1
  /\ DOMAIN market \subseteq Instruments
  /\ DOMAIN orders \subseteq Engine!OrderIds
  /\ db_orders \in [DOMAIN db_orders -> StoredOrder]
  /\ phase \in {"idle", "requests", "strategies"} => pc = "idle" /\ serving = <<>>

\* Everything of a position that fills determine.
Entry(positions) ==
  [i \in DOMAIN positions |-> [net |-> positions[i].net, average |-> positions[i].average,
                               realized |-> positions[i].realized]]

(***************************************************************************)
(* Whenever on_event is not inside handle_execution_result the stored      *)
(* positions and balances are those of the portfolio, also in a process    *)
(* recovered from a write that was cut short.  (The unrealized profit is   *)
(* left out: set_mark_price runs after the positions have been saved.)     *)
(***************************************************************************)
StoredPortfolioCurrent ==
  phase \in {"idle", "strategies", "requests"} =>
    /\ Entry(db_positions) = Entry(portfolio.positions)
    /\ db_balances = portfolio.balances

\* Sum of a fraction-valued function over a set of instruments.
FracSum(f(_), S) == FoldSet(LAMBDA i, sum : Plus(f(i), sum), Zero, S)

\* Every order id handed out so far was a new one.
FreshIds == IsInjective(issued)

\* The base balance of every instrument held is its net position.
BaseEntry ==
  ~torn => \A i \in DOMAIN portfolio.positions :
             portfolio.positions[i].net = At(portfolio.balances, Base[i], 0)

\* The quote balance is the realized profit less the cost of what is held.
QuoteEntry ==
  ~torn =>
    LET book(i) == Minus(portfolio.positions[i].realized,
                         Scale(portfolio.positions[i].net, portfolio.positions[i].average))
    IN  Whole(At(portfolio.balances, Quote, 0)) = FracSum(book, DOMAIN portfolio.positions)

(***************************************************************************)
(* Double-entry: however fills extend, reduce, close and reverse           *)
(* positions, in this process or in the ones it was recovered from, the    *)
(* base balance is the net position and the quote balance is the realized  *)
(* profit less the cost of what is held.  Only a process stopped between   *)
(* storing a position and its balances can leave the two sides apart.      *)
(***************************************************************************)
DoubleEntry == BaseEntry /\ QuoteEntry

(***************************************************************************)
(* The order table never runs ahead of the engine: between events the      *)
(* stored filled quantity of an order is at most the engine's, and an      *)
(* order stored as terminal is terminal in the engine, with the same       *)
(* quantity up to the tolerance a record is rounded by.  It may lag behind:*)
(* an order filled by submit's matching loop as the resting party gets     *)
(* neither an update nor a fill, so a restart makes it rest again with     *)
(* what the table says.  Ids must not have been handed out twice.          *)
(***************************************************************************)
StoredOrdersNotAhead ==
  phase = "idle" /\ FreshIds =>
    \A id \in DOMAIN orders :
      /\ id \in DOMAIN db_orders
      /\ db_orders[id].filled <= orders[id].filled
      /\ Engine!IsTerminal(db_orders[id].status)
           => /\ orders[id].status = db_orders[id].status
              /\ db_orders[id].filled \in (orders[id].filled - Tolerance)..orders[id].filled

(***************************************************************************)
(* After restore_open_order has rebuilt the books and the records, each by *)
(* code of its own, from the order table, and through the trading that     *)
(* follows, the two agree: what rests is what is open by the record, with  *)
(* exactly the unfilled quantity.  Neither need be what the stopped engine *)
(* had: an order filled as the resting party rests again in full, because  *)
(* its row was not updated.  Ids must not have been handed out twice.      *)
(***************************************************************************)
RecoveredBooksMatch == FreshIds => Engine!RecordsMatchBooks

FilledByRows(id) ==
  SumFunctionOnSet([n \in DOMAIN db_fills |-> db_fills[n].quantity],
                   {n \in DOMAIN db_fills : db_fills[n].order_id = id})

(***************************************************************************)
(* At every moment, also with a restart between any two writes, the stored *)
(* fills of an order add up to no more than its stored filled quantity,    *)
(* because handle_execution_result writes the updates of a result before   *)
(* its fills.  The other direction does not hold: a stop in between, or a  *)
(* fill id that is in the table already, leaves the fills short.  Ids of   *)
(* orders must not have been handed out twice.                             *)
(***************************************************************************)
FillsBehindOrders ==
  FreshIds =>
    \A n \in DOMAIN db_fills :
      LET id == db_fills[n].order_id
      IN  id \in DOMAIN db_orders /\ FilledByRows(id) <= db_orders[id].filled

(***************************************************************************)
(* A position is at most the quantity of all approved requests: although a *)
(* request may be matched with own orders, with several levels of the feed *)
(* and again after a restart, it never moves the portfolio by more than it *)
(* was approved for.  Ids must not have been handed out twice.             *)
(***************************************************************************)
ExposureBounded ==
  FreshIds =>
    \A i \in DOMAIN portfolio.positions : Abs(portfolio.positions[i].net) <= approved

(***************************************************************************)
(* No position exceeds max_position_quantity ("Enforce max position size   *)
(* per instrument", crypto_trading_engine_design.md).  RiskEngine::evaluate*)
(* compares the limit with the quantity of one request and never sees the  *)
(* position.                                                               *)
(***************************************************************************)
PositionWithinLimit ==
  \A i \in DOMAIN portfolio.positions :
    Abs(portfolio.positions[i].net) <= MaxPositionQuantity

(***************************************************************************)
(* The engine never hands out an order id again ("Generate unique client   *)
(* order IDs", crypto_trading_engine_design.md): ids key the order table,  *)
(* and the row of an earlier order would take the updates of a new one.    *)
(***************************************************************************)
OrderIdsUnique == FreshIds
=============================================================================
