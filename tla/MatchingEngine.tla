--------------------------- MODULE MatchingEngine ---------------------------
(***************************************************************************)
(* The deterministic local matching engine (matching_engine.cpp): order    *)
(* records, one book of resting orders per instrument, and the operations  *)
(* submit, process_market_event and cancel of an engine that starts empty. *)
(*                                                                         *)
(* submit and process_market_event contain loops.  Each iteration is a     *)
(* step here, pc says which loop is running, and no other operation is     *)
(* enabled until it has ended: the engine is called by one thread.  That   *)
(* keeps every loop invariant a state predicate.                           *)
(***************************************************************************)
EXTENDS RestingOrders, Sequences, FiniteSets, Functions

CONSTANTS Instruments,      \* instrument ids
          NoInstrument,     \* the value of instrument between market events
          Requests,         \* requests a caller may submit, price 0 = none
          MarketEvents,     \* events of the feed
          MaxOrders         \* bound on orders submitted to one engine

Request == [instrument: Instruments, side: Sides, type: {"limit", "market"},
            price: Nat, quantity: Nat]
Level == [price: Nat, quantity: Nat]

\* What the engine reads of an event; an event may carry more.
IsMarketEvent(event) ==
  /\ event.instrument \in Instruments
  /\ event.ask_levels \in Seq(Level)
  /\ event.bid_levels \in Seq(Level)

ASSUME InputAssumption ==
  /\ Requests \subseteq Request
  /\ \A event \in MarketEvents : IsMarketEvent(event)
  /\ MaxOrders \in Nat

VARIABLES books,            \* books_: instrument -> its resting orders
          next_seq,         \* next_sequence_number_ of each book
          orders,           \* orders_: id -> order record
          next_order_id,    \* next_order_id_ (match-order-N)
          next_fill_id,     \* next_fill_id_ (match-fill-N)
          result,           \* the ExecutionResult being built or last returned
          pc,               \* which operation is running
          incoming,         \* submit: id of the order being matched
          remaining,        \* submit: remaining_quantity
          instrument,       \* process_market_event: the event's instrument
          levels,           \* process_market_event: levels still to be taken
          touched,          \* process_market_event: touched_orders
          external          \* history: quantity taken from the feed, by resting side

bookVars == <<books, next_seq>>
submitVars == <<incoming, remaining>>
eventVars == <<instrument, levels, touched>>
vars == <<books, next_seq, orders, next_order_id, next_fill_id, result, pc,
          incoming, remaining, instrument, levels, touched, external>>

OrderIds == Nat \ {0}

OpenStatus == {"acknowledged", "partially_filled"}
TerminalStatus == {"filled", "canceled", "rejected", "expired"}
OrderStatus == {"created", "pending_submit", "pending_cancel"}
                 \cup OpenStatus \cup TerminalStatus

OrderRecord == [instrument: Instruments, side: Sides, price: Nat,
                quantity: Nat, filled: Nat, status: OrderStatus]

OrderUpdate == [order_id: OrderIds, status: OrderStatus, filled: Nat]
Fill == [fill_id: Nat, order_id: OrderIds, side: Sides, price: Nat, quantity: Nat]

\* is_terminal
IsTerminal(status) == status \in TerminalStatus

\* orders_[id] = record
Put(id, record) ==
  [x \in DOMAIN orders \cup {id} |-> IF x = id THEN record ELSE orders[x]]

MakeUpdate(id, status, filled) ==
  [order_id |-> id, status |-> status, filled |-> filled]

MakeFill(id, side, price, quantity) ==
  [fill_id |-> next_fill_id, order_id |-> id, side |-> side,
   price |-> price, quantity |-> quantity]

NewResult(id, updates) == [order_id |-> id, updates |-> updates, fills |-> <<>>]

Init ==
  /\ books = [i \in Instruments |-> {}]
  /\ next_seq = [i \in Instruments |-> 1]
  /\ orders = <<>>
  /\ next_order_id = 1
  /\ next_fill_id = 1
  /\ result = NewResult(0, <<>>)
  /\ pc = "idle"
  /\ incoming = 0
  /\ remaining = 0
  /\ instrument = NoInstrument
  /\ levels = <<>>
  /\ touched = {}
  /\ external = [side \in Sides |-> 0]

----------------------------------------------------------------------------
(* submit                                                                  *)

\* Market orders, and limit orders without a positive price and quantity.
IsRefused(request) ==
  \/ request.type = "market"
  \/ request.price = 0
  \/ request.quantity = 0

NewRecord(request, status) ==
  [instrument |-> request.instrument, side |-> request.side,
   price |-> request.price, quantity |-> request.quantity,
   filled |-> 0, status |-> status]

\* Mutant: the id of a refused request is handed out again.
SubmitReusesId(request) ==
  LET status == IF IsRefused(request) THEN "rejected" ELSE "acknowledged"
  IN  /\ pc = "idle"
      /\ next_order_id <= MaxOrders
      /\ orders' = Put(next_order_id, NewRecord(request, status))
      /\ result' = NewResult(next_order_id, <<MakeUpdate(next_order_id, status, 0)>>)
      /\ IF IsRefused(request)
         THEN UNCHANGED <<next_order_id, pc, submitVars>>
         ELSE /\ next_order_id' = next_order_id + 1
              /\ pc' = "matching"
              /\ incoming' = next_order_id
              /\ remaining' = request.quantity
      /\ UNCHANGED <<bookVars, next_fill_id, eventVars, external>>

\* The call up to its matching loop, or up to the early return of a refusal.
Submit(request) ==
  LET status == IF IsRefused(request) THEN "rejected" ELSE "acknowledged"
  IN  /\ pc = "idle"
      /\ next_order_id <= MaxOrders
      /\ next_order_id' = next_order_id + 1
      /\ orders' = Put(next_order_id, NewRecord(request, status))
      /\ result' = NewResult(next_order_id, <<MakeUpdate(next_order_id, status, 0)>>)
      /\ IF IsRefused(request)
         THEN UNCHANGED <<pc, submitVars>>
         ELSE /\ pc' = "matching"
              /\ incoming' = next_order_id
              /\ remaining' = request.quantity
      /\ UNCHANGED <<bookVars, next_fill_id, eventVars, external>>

\* Mutant: the comparison of limit prices is strict.
CrossesStrictly(order, resting) ==
  IF order.side = "buy" THEN order.price > resting.price
                        ELSE order.price < resting.price

Crosses(order, resting) ==
  IF order.side = "buy" THEN order.price >= resting.price
                        ELSE order.price <= resting.price

\* Mutant: the status is not brought up to date with the filled quantity.
FilledRecordKeepsStatus(order, executed) ==
  LET sum   == Smaller(order.quantity, order.filled + executed)
      total == IF order.quantity - sum <= Tolerance THEN order.quantity ELSE sum
  IN  [order EXCEPT !.filled = total]

\* The record of an order after apply_fill_to_order took executed from it.
FilledRecord(order, executed) ==
  LET sum   == Smaller(order.quantity, order.filled + executed)
      total == IF order.quantity - sum <= Tolerance THEN order.quantity ELSE sum
  IN  [order EXCEPT !.filled = total,
                    !.status = IF order.quantity - total <= Tolerance
                               THEN "filled" ELSE "partially_filled"]

\* apply_fill_to_order
ApplyFillToOrder(id, executed) ==
  IF id \in DOMAIN orders /\ executed > Tolerance
  THEN orders' = [orders EXCEPT ![id] = FilledRecord(@, executed)]
  ELSE UNCHANGED orders

\* The fill of one resting order: the book, its record and the fill list.
Execute(i, r, executed, fill) ==
  /\ books' = [books EXCEPT ![i] = WithFill(@, r, executed)]
  /\ ApplyFillToOrder(r.id, executed)
  /\ result' = [result EXCEPT !.fills = Append(@, fill)]
  /\ next_fill_id' = next_fill_id + 1

\* One iteration of the matching loop.
Match ==
  /\ pc = "matching"
  /\ remaining > Tolerance
  /\ LET order == orders[incoming]
         book  == books[order.instrument]
     IN  \E r \in BestOrders(book, Opposite(order.side)) :
           LET executed == Smaller(remaining, r.remaining)
           IN  /\ Crosses(order, r)
               /\ AcceptsFill(r, executed)
               /\ Execute(order.instrument, r, executed,
                          MakeFill(incoming, order.side, r.price, executed))
               /\ remaining' = Less(remaining, executed)
  /\ UNCHANGED <<next_seq, next_order_id, pc, incoming, eventVars, external>>

\* Why the loop ends: nothing is left, nothing rests on the other side, or
\* the best order there does not cross or refuses the fill.
MatchingDone(order, book) ==
  \/ remaining <= Tolerance
  \/ \A r \in book : r.side # Opposite(order.side)
  \/ \E r \in BestOrders(book, Opposite(order.side)) :
       \/ ~Crosses(order, r)
       \/ ~AcceptsFill(r, Smaller(remaining, r.remaining))

\* Mutant: the residual rests with the whole requested quantity.
RestResidualInFull(order, filled) ==
  /\ books' = [books EXCEPT ![order.instrument] =
       WithOrder(@, incoming, order.side, order.price, order.quantity, 0,
                 next_seq[order.instrument])]
  /\ next_seq' = [next_seq EXCEPT ![order.instrument] = @ + 1]

\* book.add_order for what the loop left
RestResidual(order, filled) ==
  /\ books' = [books EXCEPT ![order.instrument] =
       WithOrder(@, incoming, order.side, order.price, order.quantity, filled,
                 next_seq[order.instrument])]
  /\ next_seq' = [next_seq EXCEPT ![order.instrument] = @ + 1]

\* The record after the loop: filled, partially filled or still acknowledged.
FinalRecord(order, filled) ==
  IF order.quantity - filled <= Tolerance
  THEN [order EXCEPT !.filled = order.quantity, !.status = "filled"]
  ELSE [order EXCEPT !.filled = filled,
                     !.status = IF filled > Tolerance THEN "partially_filled" ELSE @]

\* The two branches at the end of submit that report the order once more.
Concluded(order, filled) ==
  order.quantity - filled <= Tolerance \/ filled > Tolerance

\* The call from the end of its loop to its return.
FinishSubmit ==
  /\ pc = "matching"
  /\ LET order  == orders[incoming]
         book   == books[order.instrument]
         filled == Less(order.quantity, remaining)
         rests  == remaining > Tolerance
         final  == IF rests /\ ~IsRequestCompatible(book, incoming, order.price,
                                                    order.quantity, filled)
                   THEN [order EXCEPT !.filled = filled, !.status = "rejected"]
                   ELSE FinalRecord(order, filled)
     IN  /\ MatchingDone(order, book)
         /\ IF rests /\ final.status # "rejected"
            THEN RestResidual(order, filled)
            ELSE UNCHANGED bookVars
         /\ orders' = [orders EXCEPT ![incoming] = final]
         /\ result' = IF final.status = "rejected" \/ Concluded(order, filled)
                      THEN [result EXCEPT !.updates =
                              Append(@, MakeUpdate(incoming, final.status, filled))]
                      ELSE result
  /\ pc' = "idle"
  /\ incoming' = 0
  /\ remaining' = 0
  /\ UNCHANGED <<next_order_id, next_fill_id, eventVars, external>>

----------------------------------------------------------------------------
(* process_market_event                                                    *)

\* Levels of the event with the side of the resting orders they can take.
AgainstSide(side, list) ==
  [i \in 1..Len(list) |-> [side |-> side, price |-> list[i].price,
                           quantity |-> list[i].quantity]]

\* The call up to its loops: the ask levels against resting buys, then the
\* bid levels against resting sells.
ProcessMarketEvent(event) ==
  /\ pc = "idle"
  /\ pc' = "event"
  /\ instrument' = event.instrument
  /\ levels' = AgainstSide("buy", event.ask_levels) \o AgainstSide("sell", event.bid_levels)
  /\ touched' = {}
  /\ result' = NewResult(0, <<>>)
  /\ UNCHANGED <<bookVars, orders, next_order_id, next_fill_id, submitVars, external>>

\* Mutant: a resting order trades at any level price.
ReachesAlways(r, level) == level.price > 0

\* The resting order's limit reaches the level, within the tolerance.
Reaches(r, level) ==
  IF r.side = "buy" THEN r.price + Tolerance >= level.price
                    ELSE r.price <= level.price + Tolerance

\* Mutant: only the first filled order of an event is remembered.
TouchFirst(id) == IF touched = {} THEN {id} ELSE touched

\* touched_orders.push_back(id), as a set: the code drops duplicates later.
Touch(id) == touched \cup {id}

\* One iteration of the inner loop.
TakeFromLevel ==
  /\ pc = "event"
  /\ levels # <<>>
  /\ Head(levels).quantity > Tolerance
  /\ \E r \in BestOrders(books[instrument], Head(levels).side) :
       LET executed == Smaller(Head(levels).quantity, r.remaining)
       IN  /\ Reaches(r, Head(levels))
           /\ AcceptsFill(r, executed)
           /\ Execute(instrument, r, executed,
                      MakeFill(r.id, r.side, Head(levels).price, executed))
           /\ touched' = Touch(r.id)
           /\ levels' = [levels EXCEPT ![1].quantity = Less(@, executed)]
           /\ external' = [external EXCEPT ![r.side] = @ + executed]
  /\ UNCHANGED <<next_seq, next_order_id, pc, submitVars, instrument>>

\* Mutant: the inner loop does not stop at an order out of reach.
LevelDoneUnlessOutOfReach(level, book) ==
  \/ level.quantity <= Tolerance
  \/ \A r \in book : r.side # level.side
  \/ \E r \in BestOrders(book, level.side) :
       ~AcceptsFill(r, Smaller(level.quantity, r.remaining))

\* Why the inner loop ends: the level is used up, nothing rests on the side,
\* or the best order does not reach the level or refuses the fill.
LevelDone(level, book) ==
  \/ level.quantity <= Tolerance
  \/ \A r \in book : r.side # level.side
  \/ \E r \in BestOrders(book, level.side) :
       \/ ~Reaches(r, level)
       \/ ~AcceptsFill(r, Smaller(level.quantity, r.remaining))

\* The inner loop ends and the outer loop moves to the next level.
NextLevel ==
  /\ pc = "event"
  /\ levels # <<>>
  /\ LevelDone(Head(levels), books[instrument])
  /\ levels' = Tail(levels)
  /\ UNCHANGED <<bookVars, orders, next_order_id, next_fill_id, result, pc,
                 submitVars, instrument, touched, external>>

\* One update per touched order, in the order of the ids; the code sorts them
\* as strings, which is the same order while they have equally many digits.
AppendOrderUpdate ==
  /\ pc = "event"
  /\ levels = <<>>
  /\ \E id \in touched :
       /\ \A other \in touched : id <= other
       /\ touched' = touched \ {id}
       /\ result' = IF id \in DOMAIN orders
                    THEN [result EXCEPT !.updates =
                            Append(@, MakeUpdate(id, orders[id].status, orders[id].filled))]
                    ELSE result
  /\ UNCHANGED <<bookVars, orders, next_order_id, next_fill_id, pc, submitVars,
                 instrument, levels, external>>

FinishEvent ==
  /\ pc = "event"
  /\ levels = <<>>
  /\ touched = {}
  /\ pc' = "idle"
  /\ instrument' = NoInstrument
  /\ UNCHANGED <<bookVars, orders, next_order_id, next_fill_id, result, submitVars,
                 levels, touched, external>>

----------------------------------------------------------------------------
(* cancel                                                                  *)

\* Mutant: the status check of a cancellation is missing.
CancelableAlways(id) == id \in DOMAIN orders

\* The order is known, not terminal, and resting in its instrument's book.
Cancelable(id) ==
  /\ id \in DOMAIN orders
  /\ ~IsTerminal(orders[id].status)
  /\ \E r \in books[orders[id].instrument] : r.id = id

Cancel(id) ==
  LET filled == IF id \in DOMAIN orders THEN orders[id].filled ELSE 0
  IN  /\ pc = "idle"
      /\ IF Cancelable(id)
         THEN /\ books' = [books EXCEPT ![orders[id].instrument] =
                             {r \in @ : r.id # id}]
              /\ orders' = [orders EXCEPT ![id].status = "canceled"]
              /\ result' = NewResult(id, <<MakeUpdate(id, "pending_cancel", filled),
                                           MakeUpdate(id, "canceled", filled)>>)
         ELSE /\ result' = NewResult(id, <<MakeUpdate(id, "rejected", filled)>>)
              /\ UNCHANGED <<books, orders>>
      /\ UNCHANGED <<next_seq, next_order_id, next_fill_id, pc, submitVars,
                     eventVars, external>>

----------------------------------------------------------------------------
\* The steps of an operation that has been called.
Step ==
  \/ Match
  \/ FinishSubmit
  \/ TakeFromLevel
  \/ NextLevel
  \/ AppendOrderUpdate
  \/ FinishEvent

Next ==
  \/ \E request \in Requests : Submit(request)
  \/ \E event \in MarketEvents : ProcessMarketEvent(event)
  \/ \E id \in 1..MaxOrders : Cancel(id)
  \/ Step

Spec == Init /\ [][Next]_vars

\* An operation that has been called runs to its return: nothing preempts it.
FairSpec == Spec /\ WF_vars(Step)

----------------------------------------------------------------------------
\* The types of the engine's state and of the locals of the running operation.
Typed ==
  /\ books \in [Instruments -> SUBSET RestingOrder(OrderIds)]
  /\ next_seq \in [Instruments -> Nat]
  /\ next_order_id \in OrderIds
  /\ DOMAIN orders \subseteq OrderIds
  /\ orders \in [DOMAIN orders -> OrderRecord]
  /\ next_fill_id \in Nat
  /\ result \in [order_id: Nat, updates: Seq(OrderUpdate), fills: Seq(Fill)]
  /\ pc \in {"idle", "matching", "event"}
  /\ incoming \in IF pc = "matching" THEN DOMAIN orders ELSE {0}
  /\ remaining \in Nat
  /\ pc = "event" => instrument \in Instruments
  /\ levels \in Seq([side: Sides, price: Nat, quantity: Nat])
  /\ touched \subseteq OrderIds
  /\ external \in [Sides -> Nat]

(***************************************************************************)
(* Type correctness, and the ids handed out by submit so far are the keys  *)
(* of orders_: an engine that started empty forgets no order and meets no  *)
(* id twice.                                                               *)
(***************************************************************************)
TypeOK ==
  /\ Typed
  /\ DOMAIN orders = 1..(next_order_id - 1)

\* A resting order and the record of the same order.
Agrees(i, r) ==
  /\ r.id \in DOMAIN orders
  /\ orders[r.id].instrument = i
  /\ orders[r.id].side = r.side
  /\ orders[r.id].price = r.price
  /\ orders[r.id].quantity = orders[r.id].filled + r.remaining
  /\ orders[r.id].status \in OpenStatus
  /\ r.remaining > Tolerance

(***************************************************************************)
(* The records and the books tell the same story after any sequence of     *)
(* submits, partial fills from two directions, and cancellations: what     *)
(* rests is exactly what is open, with the same side and price and exactly *)
(* the unfilled quantity, and no id rests twice.  submit updates the maker *)
(* through apply_fill_to_order while the book drops it on its own          *)
(* tolerance test; the two must never disagree on when an order is done.   *)
(***************************************************************************)
RecordsMatchBooks ==
  /\ \A i \in Instruments : \A r \in books[i] : Agrees(i, r)
  /\ \A i \in Instruments : \A r, o \in books[i] : r.id = o.id => r = o
  /\ \A id \in DOMAIN orders :
       orders[id].status \in OpenStatus
         => \/ id = incoming
            \/ \E r \in books[orders[id].instrument] : r.id = id

(***************************************************************************)
(* The loop invariant of submit: the order being matched does not rest     *)
(* yet, its record is as it was acknowledged, and what its fills took and  *)
(* what remains add up to the request.                                     *)
(***************************************************************************)
SubmitInProgress ==
  pc = "matching" =>
    /\ orders[incoming].status = "acknowledged"
    /\ orders[incoming].filled = 0
    /\ orders[incoming].price > 0
    /\ orders[incoming].quantity > 0
    /\ remaining <= orders[incoming].quantity
    /\ \A i \in Instruments : \A r \in books[i] : r.id # incoming

(***************************************************************************)
(* No book is ever crossed: whatever can trade inside one book has traded  *)
(* before submit rests the residual, so each bid lies below each ask.      *)
(***************************************************************************)
NoCrossedBook ==
  \A i \in Instruments : \A b, a \in books[i] :
    b.side = "buy" /\ a.side = "sell" => b.price < a.price

\* A step that forgets no order and changes no terminal one.
KeepsTerminal ==
  \A id \in DOMAIN orders :
    /\ id \in DOMAIN orders'
    /\ IsTerminal(orders[id].status) => orders'[id] = orders[id]

(***************************************************************************)
(* An order that is filled, canceled or rejected stays as it is: no later  *)
(* match, market event, or repeated cancel changes its record.             *)
(***************************************************************************)
TerminalIsFinal == [][KeepsTerminal]_vars

\* A fill is for a known order and within the tolerance of its limit price.
HonorsLimit(records, fill) ==
  /\ fill.order_id \in DOMAIN records
  /\ fill.quantity > Tolerance
  /\ fill.side = records[fill.order_id].side
  /\ IF fill.side = "buy"
     THEN fill.price <= records[fill.order_id].price + Tolerance
     ELSE fill.price + Tolerance >= records[fill.order_id].price

(***************************************************************************)
(* A fill never costs its order more than its limit price allows (less for *)
(* a sell): a taker trades at the resting price, a resting order at the    *)
(* level price of the feed, which may exceed the limit by the tolerance    *)
(* only.                                                                   *)
(***************************************************************************)
FillsHonorLimits ==
  \A k \in DOMAIN result.fills : HonorsLimit(orders, result.fills[k])

(***************************************************************************)
(* A returned result that carries fills of an order ends its updates of    *)
(* that order with the status and filled quantity of its record: the       *)
(* caller persists these updates and never reads the record.               *)
(***************************************************************************)
FilledOrdersReported ==
  pc = "idle" =>
    \A k \in DOMAIN result.fills :
      LET id   == result.fills[k].order_id
          mine == {n \in DOMAIN result.updates : result.updates[n].order_id = id}
      IN  \E n \in mine :
            /\ \A m \in mine : m <= n
            /\ result.updates[n].status = orders[id].status
            /\ result.updates[n].filled \in
                 (orders[id].filled - Tolerance)..orders[id].filled

\* The filled quantity of all orders of one side.
FilledOn(side) ==
  SumFunctionOnSet([id \in DOMAIN orders |-> orders[id].filled],
                   {id \in DOMAIN orders : orders[id].side = side})

(***************************************************************************)
(* Nothing is created or lost by matching: apart from what the feed took   *)
(* or gave, the quantity bought by all orders of submit's matching loop    *)
(* equals the quantity sold, up to one tolerance per order (a record is    *)
(* rounded up when its order completes).                                   *)
(***************************************************************************)
Conservation ==
  pc = "idle" =>
    LET bought == FilledOn("buy") - external["buy"]
        sold   == FilledOn("sell") - external["sell"]
        slack  == Tolerance * Cardinality(DOMAIN orders)
    IN  bought - sold \in (-slack)..slack

(***************************************************************************)
(* Once called, submit and process_market_event return: every iteration of *)
(* their loops takes something away.                                       *)
(***************************************************************************)
CallsReturn == (pc # "idle") ~> (pc = "idle")
=============================================================================
