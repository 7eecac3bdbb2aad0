------------------------ MODULE MatchingEngineProofs ------------------------
(***************************************************************************)
(* Proofs about the matching engine for every tolerance, every set of      *)
(* instruments, requests and market events, and every number of orders.    *)
(***************************************************************************)
EXTENDS MatchingEngine, SumTheorems, SequenceTheorems

WorkLevel == [side: Sides, price: Nat, quantity: Nat]

(***************************************************************************)
(* Changing the quantity of the first level of the work list of            *)
(* process_market_event leaves a list of levels.                           *)
(***************************************************************************)
LEMMA LevelUpdateType ==
  ASSUME NEW list \in Seq(WorkLevel), list # <<>>, NEW q \in Nat
  PROVE  [list EXCEPT ![1].quantity = q] \in Seq(WorkLevel)
<1>1. Len(list) \in Nat /\ Len(list) # 0
  BY EmptySeq, LenProperties
<1>4. 1 \in 1..Len(list) /\ list[1] \in WorkLevel
  BY <1>1, ElementOfSeq
<1>2. [list[1] EXCEPT !.quantity = q] \in WorkLevel
  BY <1>4 DEF WorkLevel
<1>3. [list EXCEPT ![1] = [list[1] EXCEPT !.quantity = q]] \in Seq(WorkLevel)
  BY <1>4, <1>2, ExceptSeq
<1> QED BY <1>3

(***************************************************************************)
(* The operators of RestingOrders stay within their types.                 *)
(***************************************************************************)
LEMMA LessType ==
  ASSUME NEW a \in Nat, NEW b \in Nat
  PROVE  Less(a, b) \in Nat /\ Less(a, b) <= a /\ (b <= a => Less(a, b) = a - b)
BY DEF Less

\* The smaller of two quantities is a quantity and exceeds neither.
LEMMA SmallerType ==
  ASSUME NEW a \in Nat, NEW b \in Nat
  PROVE  Smaller(a, b) \in Nat /\ Smaller(a, b) <= a /\ Smaller(a, b) <= b
BY DEF Smaller

\* A book that took a fill is a set of resting orders.
LEMMA WithFillType ==
  ASSUME NEW book \in SUBSET RestingOrder(OrderIds), NEW r \in book,
         NEW executed \in Nat
  PROVE  WithFill(book, r, executed) \in SUBSET RestingOrder(OrderIds)
<1>1. r \in RestingOrder(OrderIds) /\ r.remaining \in Nat
  BY DEF RestingOrder
<1>2. Less(r.remaining, executed) \in Nat
  BY <1>1, LessType
<1>3. [r EXCEPT !.remaining = Less(r.remaining, executed)] \in RestingOrder(OrderIds)
  BY <1>1, <1>2 DEF RestingOrder
<1> QED BY <1>1, <1>2, <1>3 DEF WithFill

\* apply_fill_to_order leaves an order record.
LEMMA FilledRecordType ==
  ASSUME NEW order \in OrderRecord, NEW executed \in Nat
  PROVE  /\ FilledRecord(order, executed) \in OrderRecord
         /\ FilledRecord(order, executed).instrument = order.instrument
         /\ FilledRecord(order, executed).side = order.side
         /\ FilledRecord(order, executed).price = order.price
         /\ FilledRecord(order, executed).quantity = order.quantity
<1> DEFINE sum == Smaller(order.quantity, order.filled + executed)
           total == IF order.quantity - sum <= Tolerance THEN order.quantity ELSE sum
<1>1. order.quantity \in Nat /\ order.filled \in Nat
  BY DEF OrderRecord
<1>4. sum \in Nat
  BY <1>1 DEF Smaller
<1>2. total \in Nat
  BY <1>1, <1>4
<1>3. FilledRecord(order, executed) =
        [order EXCEPT !.filled = total,
                      !.status = IF order.quantity - total <= Tolerance
                                 THEN "filled" ELSE "partially_filled"]
  BY DEF FilledRecord
<1> HIDE DEF total
<1> QED BY <1>2, <1>3 DEF OrderRecord, OrderStatus, OpenStatus, TerminalStatus

(***************************************************************************)
(* The work list built from an event consists of levels.                   *)
(***************************************************************************)
LEMMA AgainstSideType ==
  ASSUME NEW side \in Sides, NEW list \in Seq(Level)
  PROVE  AgainstSide(side, list) \in Seq(WorkLevel)
<1>1. Len(list) \in Nat /\ \A i \in 1..Len(list) : list[i] \in Level
  BY LenProperties, ElementOfSeq
<1>2. AgainstSide(side, list) \in [1..Len(list) -> WorkLevel]
  BY <1>1 DEF AgainstSide, Level, WorkLevel
<1> QED BY <1>1, <1>2, SeqDef

----------------------------------------------------------------------------
(* Type correctness.                                                       *)

\* Appending a fill leaves an ExecutionResult.
LEMMA ResultFillType ==
  ASSUME Typed, NEW fill \in Fill
  PROVE  [result EXCEPT !.fills = Append(@, fill)]
           \in [order_id: Nat, updates: Seq(OrderUpdate), fills: Seq(Fill)]
<1>1. result.fills \in Seq(Fill)
  BY DEF Typed
<1>2. Append(result.fills, fill) \in Seq(Fill)
  BY <1>1, AppendProperties
<1> QED BY <1>2 DEF Typed

\* Appending an update leaves an ExecutionResult.
LEMMA ResultUpdateType ==
  ASSUME Typed, NEW update \in OrderUpdate
  PROVE  [result EXCEPT !.updates = Append(@, update)]
           \in [order_id: Nat, updates: Seq(OrderUpdate), fills: Seq(Fill)]
<1>1. result.updates \in Seq(OrderUpdate)
  BY DEF Typed
<1>2. Append(result.updates, update) \in Seq(OrderUpdate)
  BY <1>1, AppendProperties
<1> QED BY <1>2 DEF Typed

\* What Execute, the fill of one resting order, preserves of the types.
LEMMA ExecuteType ==
  ASSUME Typed, NEW i \in Instruments, NEW r \in books[i],
         NEW executed \in Nat, NEW fill \in Fill,
         Execute(i, r, executed, fill)
  PROVE  /\ books' \in [Instruments -> SUBSET RestingOrder(OrderIds)]
         /\ DOMAIN orders' = DOMAIN orders
         /\ orders' \in [DOMAIN orders -> OrderRecord]
         /\ result' \in [order_id: Nat, updates: Seq(OrderUpdate), fills: Seq(Fill)]
         /\ next_fill_id' \in Nat
<1>1. books' \in [Instruments -> SUBSET RestingOrder(OrderIds)]
  <2>1. WithFill(books[i], r, executed) \in SUBSET RestingOrder(OrderIds)
    BY WithFillType DEF Typed
  <2> QED BY <2>1 DEF Typed, Execute
<1>2. orders' \in [DOMAIN orders -> OrderRecord]
  <2>1. orders \in [DOMAIN orders -> OrderRecord]
    BY DEF Typed
  <2>2. CASE r.id \in DOMAIN orders /\ executed > Tolerance
    <3>1. orders' = [orders EXCEPT ![r.id] = FilledRecord(orders[r.id], executed)]
      BY <2>2 DEF Execute, ApplyFillToOrder
    <3>2. FilledRecord(orders[r.id], executed) \in OrderRecord
      BY <2>1, <2>2, FilledRecordType
    <3> QED BY <2>1, <3>1, <3>2
  <2>3. CASE ~(r.id \in DOMAIN orders /\ executed > Tolerance)
    BY <2>1, <2>3 DEF Execute, ApplyFillToOrder
  <2> QED BY <2>2, <2>3
<1>3. result' \in [order_id: Nat, updates: Seq(OrderUpdate), fills: Seq(Fill)]
  BY ResultFillType DEF Execute
<1>4. next_fill_id' \in Nat
  BY DEF Typed, Execute
<1> QED BY <1>1, <1>2, <1>3, <1>4

\* A new engine is type-correct.
LEMMA InitType == Init => Typed
<1> SUFFICES ASSUME Init PROVE Typed
  OBVIOUS
<1>1. DOMAIN orders \subseteq OrderIds /\ orders \in [DOMAIN orders -> OrderRecord]
  BY DEF Init
<1>2. result \in [order_id: Nat, updates: Seq(OrderUpdate), fills: Seq(Fill)]
  BY EmptySeq DEF Init, NewResult
<1>3. levels \in Seq([side: Sides, price: Nat, quantity: Nat])
  BY EmptySeq DEF Init
<1> QED BY <1>1, <1>2, <1>3 DEF Init, Typed, OrderIds

\* submit up to its loop, or its refusal, preserves the types.
LEMMA SubmitType ==
  ASSUME Typed, NEW request \in Request, Submit(request)
  PROVE  /\ Typed'
         /\ DOMAIN orders' = DOMAIN orders \cup {next_order_id}
         /\ next_order_id' = next_order_id + 1
<1>1. ASSUME NEW status \in OrderStatus
      PROVE  NewRecord(request, status) \in OrderRecord
  BY DEF NewRecord, OrderRecord, Request
<1>2. ASSUME NEW status \in OrderStatus
      PROVE  NewResult(next_order_id, <<MakeUpdate(next_order_id, status, 0)>>)
               \in [order_id: Nat, updates: Seq(OrderUpdate), fills: Seq(Fill)]
  BY EmptySeq DEF Typed, NewResult, MakeUpdate, OrderUpdate, OrderIds
<1>3. "rejected" \in OrderStatus /\ "acknowledged" \in OrderStatus
  BY DEF OrderStatus, OpenStatus, TerminalStatus
<1>4. PICK record \in OrderRecord : orders' = Put(next_order_id, record)
  BY <1>1, <1>3 DEF Submit
<1>5. /\ result' \in [order_id: Nat, updates: Seq(OrderUpdate), fills: Seq(Fill)]
      /\ next_order_id' = next_order_id + 1 /\ next_order_id \in OrderIds
  BY <1>2, <1>3 DEF Submit, Typed
<1>6. /\ DOMAIN orders' = DOMAIN orders \cup {next_order_id}
      /\ orders' \in [DOMAIN orders' -> OrderRecord]
      /\ DOMAIN orders' \subseteq OrderIds
  BY <1>4, <1>5 DEF Typed, Put
<1>7. incoming' \in IF pc' = "matching" THEN DOMAIN orders' ELSE {0}
  BY <1>5, <1>6 DEF Submit, Typed, submitVars
<1>8. remaining' \in Nat /\ pc' \in {"idle", "matching", "event"}
  BY DEF Submit, Typed, submitVars, Request
<1>9. next_order_id' \in OrderIds
  BY <1>5 DEF OrderIds
<1> QED BY <1>5, <1>6, <1>7, <1>8, <1>9
        DEF Submit, Typed, bookVars, eventVars, submitVars

\* One iteration of the matching loop preserves the types.
LEMMA MatchType ==
  ASSUME Typed, Match
  PROVE  Typed'
<1> DEFINE order == orders[incoming]
<1>1. /\ incoming \in DOMAIN orders /\ incoming \in OrderIds
      /\ order \in OrderRecord /\ order.instrument \in Instruments
      /\ order.side \in Sides /\ remaining \in Nat
  BY DEF Match, Typed, OrderRecord, OrderIds
<1>2. PICK r \in books[order.instrument] :
        LET executed == Smaller(remaining, r.remaining)
        IN  /\ Execute(order.instrument, r, executed,
                       MakeFill(incoming, order.side, r.price, executed))
            /\ remaining' = Less(remaining, executed)
  BY DEF Match, BestOrders
<1>3. r.remaining \in Nat /\ r.price \in Nat
  BY <1>1 DEF Typed, RestingOrder
<1> DEFINE executed == Smaller(remaining, r.remaining)
           fill == MakeFill(incoming, order.side, r.price, executed)
<1>4. executed \in Nat /\ Less(remaining, executed) \in Nat
  BY <1>1, <1>3 DEF Smaller, Less
<1>5. fill \in Fill
  BY <1>1, <1>3, <1>4 DEF MakeFill, Fill, Typed
<1>6. Execute(order.instrument, r, executed, fill) /\ remaining' = Less(remaining, executed)
  BY <1>2
<1> HIDE DEF executed, fill, order
<1>7. /\ books' \in [Instruments -> SUBSET RestingOrder(OrderIds)]
      /\ DOMAIN orders' = DOMAIN orders
      /\ orders' \in [DOMAIN orders -> OrderRecord]
      /\ result' \in [order_id: Nat, updates: Seq(OrderUpdate), fills: Seq(Fill)]
      /\ next_fill_id' \in Nat
  BY <1>1, <1>2, <1>4, <1>5, <1>6, ExecuteType
<1> QED BY <1>4, <1>6, <1>7 DEF Match, Typed, eventVars

\* An order that its own loop has not touched is reported once more exactly
\* when its status changes.
LEMMA ConcludedWhenChanged ==
  ASSUME NEW order \in OrderRecord, order.status = "acknowledged", NEW filled \in Nat
  PROVE  /\ FinalRecord(order, filled).status # "rejected"
         /\ Concluded(order, filled) <=> FinalRecord(order, filled).status # order.status
  BY ToleranceAssumption DEF OrderRecord, FinalRecord, Concluded

\* The end of submit preserves the types.
LEMMA FinishSubmitType ==
  ASSUME Typed, FinishSubmit
  PROVE  Typed'
<1> DEFINE order == orders[incoming]
           book == books[order.instrument]
           filled == Less(order.quantity, remaining)
           rests == remaining > Tolerance
           final == IF rests /\ ~IsRequestCompatible(book, incoming, order.price,
                                                     order.quantity, filled)
                    THEN [order EXCEPT !.filled = filled, !.status = "rejected"]
                    ELSE FinalRecord(order, filled)
<1>1. /\ incoming \in DOMAIN orders /\ incoming \in OrderIds
      /\ order \in OrderRecord /\ order.instrument \in Instruments
      /\ order.side \in Sides /\ order.price \in Nat /\ order.quantity \in Nat
      /\ order.status \in OrderStatus /\ remaining \in Nat
  BY DEF FinishSubmit, Typed, OrderRecord, OrderIds
<1>2. filled \in Nat
  BY <1>1 DEF Less
<1>3. final \in OrderRecord /\ final.status \in OrderStatus
  BY <1>1, <1>2
     DEF FinalRecord, OrderRecord, OrderStatus, OpenStatus, TerminalStatus
<1>4. MakeUpdate(incoming, final.status, filled) \in OrderUpdate
  BY <1>1, <1>2, <1>3 DEF MakeUpdate, OrderUpdate
<1>5. /\ IF rests /\ final.status # "rejected"
         THEN RestResidual(order, filled)
         ELSE UNCHANGED bookVars
      /\ orders' = [orders EXCEPT ![incoming] = final]
      /\ result' = IF final.status = "rejected" \/ Concluded(order, filled)
                   THEN [result EXCEPT !.updates =
                           Append(@, MakeUpdate(incoming, final.status, filled))]
                   ELSE result
  BY DEF FinishSubmit
<1> HIDE DEF final, filled, rests, book
<1>6. orders' \in [DOMAIN orders -> OrderRecord]
  BY <1>3, <1>5 DEF Typed
<1>7. result' \in [order_id: Nat, updates: Seq(OrderUpdate), fills: Seq(Fill)]
  BY <1>4, <1>5, ResultUpdateType DEF Typed
<1>8. /\ books' \in [Instruments -> SUBSET RestingOrder(OrderIds)]
      /\ next_seq' \in [Instruments -> Nat]
  <2>1. CASE rests /\ final.status # "rejected"
    <3>1. [id |-> incoming, side |-> order.side, price |-> order.price,
           remaining |-> Less(order.quantity, filled),
           seq |-> next_seq[order.instrument]] \in RestingOrder(OrderIds)
      BY <1>1, <1>2 DEF RestingOrder, Typed, Less
    <3>2. /\ books \in [Instruments -> SUBSET RestingOrder(OrderIds)]
          /\ next_seq \in [Instruments -> Nat]
      BY DEF Typed
    <3>3. RestResidual(order, filled)
      BY <1>5, <2>1
    <3> HIDE DEF order
    <3>4. books' \in [Instruments -> SUBSET RestingOrder(OrderIds)]
      BY <3>1, <3>2, <3>3 DEF RestResidual, WithOrder
    <3>5. next_seq' \in [Instruments -> Nat]
      BY <1>1, <3>2, <3>3 DEF RestResidual
    <3> QED BY <3>4, <3>5
  <2>2. CASE ~(rests /\ final.status # "rejected")
    BY <1>5, <2>2 DEF bookVars, Typed
  <2> QED BY <2>1, <2>2
<1> QED BY <1>6, <1>7, <1>8 DEF FinishSubmit, Typed, eventVars

\* The start of process_market_event preserves the types.
LEMMA ProcessMarketEventType ==
  ASSUME Typed, NEW event, IsMarketEvent(event), ProcessMarketEvent(event)
  PROVE  Typed'
<1>1. /\ event.instrument \in Instruments
      /\ event.ask_levels \in Seq(Level) /\ event.bid_levels \in Seq(Level)
  BY DEF IsMarketEvent
<1>2. /\ AgainstSide("buy", event.ask_levels) \in Seq(WorkLevel)
      /\ AgainstSide("sell", event.bid_levels) \in Seq(WorkLevel)
  BY <1>1, AgainstSideType DEF Sides
<1>3. levels' \in Seq(WorkLevel)
  BY <1>2, ConcatProperties DEF ProcessMarketEvent
<1>4. result' \in [order_id: Nat, updates: Seq(OrderUpdate), fills: Seq(Fill)]
  BY EmptySeq DEF ProcessMarketEvent, NewResult
<1>5. /\ event.instrument \in Instruments
      /\ incoming' \in IF pc' = "matching" THEN DOMAIN orders' ELSE {0}
  BY <1>1 DEF ProcessMarketEvent, Typed, submitVars
<1> QED BY <1>3, <1>4, <1>5 DEF ProcessMarketEvent, Typed, WorkLevel, submitVars, bookVars

\* One fill from a level of the feed preserves the types.
LEMMA TakeFromLevelType ==
  ASSUME Typed, TakeFromLevel
  PROVE  Typed'
<1> DEFINE level == Head(levels)
<1>1. /\ levels \in Seq(WorkLevel) /\ levels # <<>> /\ instrument \in Instruments
      /\ level \in WorkLevel /\ level.price \in Nat /\ level.quantity \in Nat
      /\ levels[1].quantity = level.quantity
  <2>1. levels \in Seq(WorkLevel) /\ levels # <<>> /\ instrument \in Instruments
    BY DEF TakeFromLevel, Typed, WorkLevel
  <2>2. level \in WorkLevel
    BY <2>1, HeadTailProperties
  <2>3. level.price \in Nat /\ level.quantity \in Nat
    BY <2>2 DEF WorkLevel
  <2>4. levels[1] = level
    BY <2>1
  <2> QED BY <2>1, <2>2, <2>3, <2>4
<1>2. PICK r \in books[instrument] :
        LET executed == Smaller(level.quantity, r.remaining)
        IN  /\ Execute(instrument, r, executed,
                       MakeFill(r.id, r.side, level.price, executed))
            /\ touched' = Touch(r.id)
            /\ levels' = [levels EXCEPT ![1].quantity = Less(@, executed)]
            /\ external' = [external EXCEPT ![r.side] = @ + executed]
  BY DEF TakeFromLevel, BestOrders
<1>3. r \in RestingOrder(OrderIds)
  BY <1>1 DEF Typed
<1>4. /\ r.id \in OrderIds /\ r.side \in Sides
      /\ r.remaining \in Nat /\ r.price \in Nat
  BY <1>3 DEF RestingOrder
<1> DEFINE executed == Smaller(level.quantity, r.remaining)
           fill == MakeFill(r.id, r.side, level.price, executed)
<1>5. executed \in Nat /\ Less(level.quantity, executed) \in Nat
  BY <1>1, <1>4 DEF Smaller, Less
<1>6. fill \in Fill
  BY <1>1, <1>4, <1>5 DEF MakeFill, Fill, Typed
<1>7. /\ Execute(instrument, r, executed, fill)
      /\ touched' = Touch(r.id)
      /\ levels' = [levels EXCEPT ![1].quantity = Less(level.quantity, executed)]
      /\ external' = [external EXCEPT ![r.side] = @ + executed]
  BY <1>1, <1>2
<1> HIDE DEF executed, fill, level
<1>8. /\ books' \in [Instruments -> SUBSET RestingOrder(OrderIds)]
      /\ DOMAIN orders' = DOMAIN orders
      /\ orders' \in [DOMAIN orders -> OrderRecord]
      /\ result' \in [order_id: Nat, updates: Seq(OrderUpdate), fills: Seq(Fill)]
      /\ next_fill_id' \in Nat
  BY <1>1, <1>2, <1>5, <1>6, <1>7, ExecuteType
<1>9. levels' \in Seq(WorkLevel)
  BY <1>1, <1>5, <1>7, LevelUpdateType
<1>10. touched' \subseteq OrderIds /\ external' \in [Sides -> Nat]
  BY <1>4, <1>5, <1>7 DEF Typed, Touch
<1>11. incoming' \in IF pc' = "matching" THEN DOMAIN orders' ELSE {0}
  BY DEF TakeFromLevel, Typed, submitVars
<1> QED BY <1>8, <1>9, <1>10, <1>11 DEF TakeFromLevel, Typed, submitVars, WorkLevel

\* Leaving a level of the feed preserves the types.
LEMMA NextLevelType ==
  ASSUME Typed, NextLevel
  PROVE  Typed'
<1>1. levels' \in Seq([side: Sides, price: Nat, quantity: Nat])
  BY HeadTailProperties DEF NextLevel, Typed
<1> QED BY <1>1 DEF NextLevel, Typed, bookVars, submitVars

\* Reporting a touched order preserves the types.
LEMMA AppendOrderUpdateType ==
  ASSUME Typed, AppendOrderUpdate
  PROVE  Typed'
<1>1. PICK id \in touched :
        /\ touched' = touched \ {id}
        /\ result' = IF id \in DOMAIN orders
                     THEN [result EXCEPT !.updates =
                             Append(@, MakeUpdate(id, orders[id].status, orders[id].filled))]
                     ELSE result
  BY DEF AppendOrderUpdate
<1>2. CASE id \in DOMAIN orders
  <2>1. MakeUpdate(id, orders[id].status, orders[id].filled) \in OrderUpdate
    BY <1>2 DEF MakeUpdate, OrderUpdate, OrderRecord, Typed
  <2>2. result' \in [order_id: Nat, updates: Seq(OrderUpdate), fills: Seq(Fill)]
    BY <1>1, <1>2, <2>1, ResultUpdateType
  <2> QED BY <1>1, <2>2 DEF AppendOrderUpdate, Typed, bookVars, submitVars
<1>3. CASE id \notin DOMAIN orders
  BY <1>1, <1>3 DEF AppendOrderUpdate, Typed, bookVars, submitVars
<1> QED BY <1>2, <1>3

\* The return of process_market_event preserves the types.
LEMMA FinishEventType ==
  ASSUME Typed, FinishEvent
  PROVE  Typed'
BY DEF FinishEvent, Typed, bookVars, submitVars

\* cancel preserves the types.
LEMMA CancelType ==
  ASSUME Typed, NEW id \in OrderIds, Cancel(id)
  PROVE  Typed'
<1> DEFINE filled == IF id \in DOMAIN orders THEN orders[id].filled ELSE 0
<1>1. id \in OrderIds /\ filled \in Nat
  BY DEF Typed, OrderRecord
<1>2. ASSUME NEW status \in OrderStatus
      PROVE  MakeUpdate(id, status, filled) \in OrderUpdate
  BY <1>1 DEF MakeUpdate, OrderUpdate
<1>3. {"rejected", "canceled", "pending_cancel"} \subseteq OrderStatus
  BY DEF OrderStatus, TerminalStatus
<1>4. CASE Cancelable(id)
  <2>1. /\ books' = [books EXCEPT ![orders[id].instrument] = {r \in @ : r.id # id}]
        /\ orders' = [orders EXCEPT ![id].status = "canceled"]
        /\ result' = NewResult(id, <<MakeUpdate(id, "pending_cancel", filled),
                                     MakeUpdate(id, "canceled", filled)>>)
    BY <1>4 DEF Cancel
  <2>2. result' \in [order_id: Nat, updates: Seq(OrderUpdate), fills: Seq(Fill)]
    BY <1>1, <1>2, <1>3, <2>1, EmptySeq DEF NewResult, OrderIds
  <2>3. orders' \in [DOMAIN orders -> OrderRecord]
    BY <1>3, <2>1 DEF Typed, OrderRecord
  <2>4. books' \in [Instruments -> SUBSET RestingOrder(OrderIds)]
    BY <2>1 DEF Typed
  <2> QED BY <2>2, <2>3, <2>4 DEF Cancel, Typed, submitVars, eventVars
<1>5. CASE ~Cancelable(id)
  <2>1. /\ result' = NewResult(id, <<MakeUpdate(id, "rejected", filled)>>)
        /\ UNCHANGED <<books, orders>>
    BY <1>5 DEF Cancel
  <2>2. result' \in [order_id: Nat, updates: Seq(OrderUpdate), fills: Seq(Fill)]
    BY <1>1, <1>2, <1>3, <2>1, EmptySeq DEF NewResult, OrderIds
  <2> QED BY <2>1, <2>2 DEF Cancel, Typed, submitVars, eventVars
<1> QED BY <1>4, <1>5

\* Nothing but submit adds an order or takes an id.
LEMMA OnlySubmitAdds ==
  ASSUME Typed, \/ Step
                \/ \E event \in MarketEvents : ProcessMarketEvent(event)
                \/ \E id \in OrderIds : Cancel(id)
                \/ UNCHANGED vars
  PROVE  DOMAIN orders' = DOMAIN orders /\ next_order_id' = next_order_id
<1>1. ASSUME NEW i, NEW r, NEW executed, NEW fill, Execute(i, r, executed, fill)
      PROVE  DOMAIN orders' = DOMAIN orders
  <2>1. \/ orders' = [orders EXCEPT ![r.id] = FilledRecord(@, executed)]
        \/ orders' = orders
    BY <1>1 DEF Execute, ApplyFillToOrder
  <2> QED BY <2>1
<1>2. CASE Match
  BY <1>1, <1>2 DEF Match
<1>3. CASE TakeFromLevel
  BY <1>1, <1>3 DEF TakeFromLevel
<1>4. CASE FinishSubmit
  <2>1. PICK final : orders' = [orders EXCEPT ![incoming] = final]
    BY <1>4 DEF FinishSubmit
  <2> QED BY <1>4, <2>1 DEF FinishSubmit
<1>5. CASE \E id \in OrderIds : Cancel(id)
  BY <1>5 DEF Cancel
<1>6. CASE \/ NextLevel \/ AppendOrderUpdate \/ FinishEvent \/ UNCHANGED vars
           \/ \E event \in MarketEvents : ProcessMarketEvent(event)
  BY <1>6 DEF NextLevel, AppendOrderUpdate, FinishEvent, ProcessMarketEvent, vars
<1> QED BY <1>2, <1>3, <1>4, <1>5, <1>6 DEF Step

\* Every operation and every step keeps the engine well typed.
LEMMA TypeNext == TypeOK /\ [Next]_vars => TypeOK'
<1> SUFFICES ASSUME TypeOK, [Next]_vars PROVE TypeOK'
  OBVIOUS
<1>1. CASE \E request \in Requests : Submit(request)
  <2>1. PICK request \in Request : Submit(request)
    BY <1>1, InputAssumption
  <2>2. /\ Typed' /\ DOMAIN orders' = DOMAIN orders \cup {next_order_id}
        /\ next_order_id' = next_order_id + 1 /\ next_order_id \in OrderIds
    BY <2>1, SubmitType DEF TypeOK, Typed
  <2>3. DOMAIN orders' = 1..(next_order_id' - 1)
    BY <2>2 DEF TypeOK, OrderIds
  <2> QED BY <2>2, <2>3 DEF TypeOK
<1>2. CASE \/ Step
           \/ \E event \in MarketEvents : ProcessMarketEvent(event)
           \/ \E id \in 1..MaxOrders : Cancel(id)
           \/ UNCHANGED vars
  <2>1. \A id \in 1..MaxOrders : id \in OrderIds
    BY InputAssumption DEF OrderIds
  <2>2. Typed'
    <3>1. CASE \E event \in MarketEvents : ProcessMarketEvent(event)
      BY <3>1, ProcessMarketEventType, InputAssumption DEF TypeOK
    <3>2. CASE \E id \in 1..MaxOrders : Cancel(id)
      BY <2>1, <3>2, CancelType DEF TypeOK
    <3>3. CASE Step
      BY <3>3, MatchType, FinishSubmitType, TakeFromLevelType, NextLevelType,
         AppendOrderUpdateType, FinishEventType DEF Step, TypeOK
    <3>4. CASE UNCHANGED vars
      BY <3>4 DEF vars, TypeOK, Typed
    <3> QED BY <1>2, <3>1, <3>2, <3>3, <3>4
  <2>3. DOMAIN orders' = DOMAIN orders /\ next_order_id' = next_order_id
    BY <1>2, <2>1, OnlySubmitAdds DEF TypeOK
  <2> QED BY <2>2, <2>3 DEF TypeOK
<1> QED BY <1>1, <1>2 DEF Next

(***************************************************************************)
(* Every operation and every iteration of its loops keeps the state of the *)
(* matching engine well typed, and the ids handed out are the keys of its  *)
(* order records.                                                          *)
(***************************************************************************)
THEOREM TypeCorrect == Spec => []TypeOK
<1>1. Init => TypeOK
  BY InitType DEF Init, TypeOK
<1> QED BY <1>1, TypeNext, PTL DEF Spec

----------------------------------------------------------------------------
(***************************************************************************)
(* Records and books.  None of the invariants is inductive by itself: that *)
(* submit may rest its residual without crossing the book needs the loop   *)
(* invariant, that a fill is never refused needs every resting quantity to *)
(* exceed the tolerance, and that an order leaves the book exactly when    *)
(* its record becomes terminal needs the two to agree on the quantity.     *)
(***************************************************************************)
Consistent ==
  /\ Typed
  /\ RecordsMatchBooks
  /\ SubmitInProgress

IInv ==
  /\ TypeOK
  /\ Consistent
  /\ NoCrossedBook

\* The record after a fill that does not exceed what is left of the order.
LEMMA FilledRecordValue ==
  ASSUME NEW order \in OrderRecord, NEW left \in Nat, NEW executed \in Nat,
         order.quantity = order.filled + left, executed <= left
  PROVE  /\ left - executed > Tolerance =>
              /\ FilledRecord(order, executed).filled = order.filled + executed
              /\ FilledRecord(order, executed).status = "partially_filled"
         /\ left - executed <= Tolerance =>
              /\ FilledRecord(order, executed).filled = order.quantity
              /\ FilledRecord(order, executed).status = "filled"
<1> DEFINE sum == Smaller(order.quantity, order.filled + executed)
           total == IF order.quantity - sum <= Tolerance THEN order.quantity ELSE sum
<1>1. order.quantity \in Nat /\ order.filled \in Nat
  BY DEF OrderRecord
<1>2. sum = order.filled + executed /\ order.quantity - sum = left - executed
  BY <1>1 DEF Smaller
<1>3. FilledRecord(order, executed) =
        [order EXCEPT !.filled = total,
                      !.status = IF order.quantity - total <= Tolerance
                                 THEN "filled" ELSE "partially_filled"]
  BY DEF FilledRecord
<1>4. /\ FilledRecord(order, executed).filled = total
      /\ FilledRecord(order, executed).status =
           IF order.quantity - total <= Tolerance THEN "filled" ELSE "partially_filled"
  BY <1>3 DEF OrderRecord
<1>5. order.quantity - order.quantity <= Tolerance
  BY <1>1, ToleranceAssumption
<1>6. CASE left - executed > Tolerance
  <2>1. total = order.filled + executed /\ ~(order.quantity - total <= Tolerance)
    BY <1>1, <1>2, <1>6, ToleranceAssumption
  <2> QED BY <1>4, <1>6, <2>1, ToleranceAssumption
<1>7. CASE left - executed <= Tolerance
  <2>1. total = order.quantity
    BY <1>2, <1>7
  <2> QED BY <1>4, <1>5, <1>7, <2>1, ToleranceAssumption
<1> QED BY <1>6, <1>7, ToleranceAssumption

(***************************************************************************)
(* A fill of one resting order keeps records and books in agreement: every *)
(* order of the new book descends from one of the old book with the same   *)
(* id, side and price, and the filled order is gone from the book exactly  *)
(* when its record is filled.                                              *)
(***************************************************************************)
LEMMA ExecuteKeeps ==
  ASSUME Typed, RecordsMatchBooks, NEW i \in Instruments, NEW r \in books[i],
         NEW executed \in Nat, executed > Tolerance, executed <= r.remaining,
         NEW fill, Execute(i, r, executed, fill), incoming' = incoming
  PROVE  /\ RecordsMatchBooks'
         /\ NoCrossedBook => NoCrossedBook'
         /\ DOMAIN orders' = DOMAIN orders
         /\ r.id \in DOMAIN orders
         /\ orders[r.id].status \in OpenStatus
         /\ orders[r.id].side = r.side /\ orders[r.id].price = r.price
         /\ \A id \in DOMAIN orders : /\ orders'[id].side = orders[id].side
                                      /\ orders'[id].price = orders[id].price
                                      /\ id # r.id => orders'[id] = orders[id]
         /\ \A j \in Instruments : \A x \in books'[j] :
              \E y \in books[j] : x.id = y.id /\ x.side = y.side /\ x.price = y.price
<1> DEFINE left == Less(r.remaining, executed)
           new == [r EXCEPT !.remaining = left]
<1>1. /\ r \in RestingOrder(OrderIds) /\ r.remaining \in Nat
      /\ books \in [Instruments -> SUBSET RestingOrder(OrderIds)]
      /\ orders \in [DOMAIN orders -> OrderRecord]
  BY DEF Typed, RestingOrder
<1>2. left \in Nat /\ left = r.remaining - executed
  BY <1>1 DEF Less
<1>3. new.id = r.id /\ new.side = r.side /\ new.price = r.price /\ new.remaining = left
  BY <1>1 DEF RestingOrder
<1>4. Agrees(i, r)
  BY DEF RecordsMatchBooks
<1>5. r.id \in DOMAIN orders /\ orders[r.id] \in OrderRecord
  BY <1>1, <1>4 DEF Agrees
<1>6. orders' = [orders EXCEPT ![r.id] = FilledRecord(orders[r.id], executed)]
  BY <1>5 DEF Execute, ApplyFillToOrder
<1>7. books' = [books EXCEPT ![i] =
        (books[i] \ {r}) \cup (IF left > Tolerance THEN {new} ELSE {})]
  BY DEF Execute, WithFill
<1>8. /\ DOMAIN orders' = DOMAIN orders
      /\ orders'[r.id] = FilledRecord(orders[r.id], executed)
      /\ \A id \in DOMAIN orders : id # r.id => orders'[id] = orders[id]
  BY <1>1, <1>5, <1>6
<1>9. /\ orders'[r.id].instrument = i /\ orders'[r.id].side = r.side
      /\ orders'[r.id].price = r.price
      /\ orders'[r.id].quantity = orders[r.id].quantity
  BY <1>4, <1>5, <1>8, FilledRecordType DEF Agrees
<1>10. /\ left > Tolerance =>
            /\ orders'[r.id].filled = orders[r.id].filled + executed
            /\ orders'[r.id].status = "partially_filled"
       /\ left <= Tolerance => orders'[r.id].status = "filled"
  BY <1>1, <1>2, <1>4, <1>5, <1>8, FilledRecordValue DEF Agrees
<1> HIDE DEF left, new
<1>11. \A j \in Instruments : \A x \in books'[j] :
         \/ x \in books[j] /\ (j = i => x # r)
         \/ j = i /\ left > Tolerance /\ x = new
  BY <1>1, <1>7
<1>12. \A j \in Instruments : \A x \in books'[j] : Agrees(j, x)'
  <2> SUFFICES ASSUME NEW j \in Instruments, NEW x \in books'[j]
               PROVE  Agrees(j, x)'
    OBVIOUS
  <2>1. CASE x \in books[j] /\ (j = i => x # r)
    <3>1. Agrees(j, x)
      BY <2>1 DEF RecordsMatchBooks
    <3>2. x.id # r.id
      BY <1>4, <2>1, <3>1 DEF RecordsMatchBooks, Agrees
    <3> QED BY <1>8, <3>1, <3>2 DEF Agrees
  <2>2. CASE j = i /\ left > Tolerance /\ x = new
    <3>1. orders'[r.id].quantity = orders'[r.id].filled + left
      <4>1. orders[r.id].filled \in Nat
        BY <1>5 DEF OrderRecord
      <4> QED BY <1>1, <1>2, <1>4, <1>9, <1>10, <2>2, <4>1 DEF Agrees
    <3> QED BY <1>3, <1>5, <1>8, <1>9, <1>10, <2>2, <3>1 DEF Agrees, OpenStatus
  <2> QED BY <1>11, <2>1, <2>2
<1>13. \A j \in Instruments : \A x, y \in books'[j] : x.id = y.id => x = y
  BY <1>3, <1>11 DEF RecordsMatchBooks
<1>14. \A id \in DOMAIN orders' :
         orders'[id].status \in OpenStatus
           => \/ id = incoming'
              \/ \E x \in books'[orders'[id].instrument] : x.id = id
  <2> SUFFICES ASSUME NEW id \in DOMAIN orders', orders'[id].status \in OpenStatus,
                      id # incoming'
               PROVE  \E x \in books'[orders'[id].instrument] : x.id = id
    OBVIOUS
  <2>1. CASE id = r.id
    <3>1. left > Tolerance
      BY <1>2, <1>10, <2>1, ToleranceAssumption DEF OpenStatus
    <3>2. new \in books'[i]
      BY <1>1, <1>7, <3>1
    <3> QED BY <1>3, <1>9, <2>1, <3>2
  <2>2. CASE id # r.id
    <3>1. orders'[id] = orders[id] /\ id \in DOMAIN orders
      BY <1>8, <2>2
    <3>2. PICK x \in books[orders[id].instrument] : x.id = id
      BY <3>1 DEF RecordsMatchBooks
    <3>3. orders[id].instrument \in Instruments
      BY <1>1, <3>1 DEF OrderRecord
    <3>4. x \in books'[orders[id].instrument]
      BY <1>1, <1>7, <2>2, <3>2, <3>3
    <3> QED BY <3>1, <3>2, <3>4
  <2> QED BY <2>1, <2>2
<1>15. \A j \in Instruments : \A x \in books'[j] :
         \E y \in books[j] : x.id = y.id /\ x.side = y.side /\ x.price = y.price
  BY <1>3, <1>11
<1>16. NoCrossedBook => NoCrossedBook'
  BY <1>15 DEF NoCrossedBook
<1>17. RecordsMatchBooks'
  BY <1>12, <1>13, <1>14 DEF RecordsMatchBooks
<1> QED BY <1>4, <1>5, <1>8, <1>9, <1>15, <1>16, <1>17 DEF Agrees

\* A new engine satisfies the inductive invariant.
LEMMA InitIInv == Init => IInv
<1> SUFFICES ASSUME Init PROVE IInv
  OBVIOUS
<1>1. TypeOK
  BY InitType DEF Init, TypeOK
<1>2. RecordsMatchBooks /\ SubmitInProgress /\ NoCrossedBook
  BY DEF Init, RecordsMatchBooks, SubmitInProgress, NoCrossedBook
<1> QED BY <1>1, <1>2 DEF IInv, Consistent, TypeOK

\* submit up to its loop preserves the inductive invariant: the new id is fresh.
LEMMA SubmitConsistent ==
  ASSUME Consistent, NEW request \in Request, Submit(request), next_order_id \notin DOMAIN orders
  PROVE  Consistent' /\ (NoCrossedBook => NoCrossedBook')
<1> DEFINE id == next_order_id
           status == IF IsRefused(request) THEN "rejected" ELSE "acknowledged"
<1>1. Typed' /\ Typed
  BY SubmitType DEF Consistent
<1>2. /\ books' = books /\ orders' = Put(id, NewRecord(request, status))
      /\ id \in OrderIds /\ orders \in [DOMAIN orders -> OrderRecord]
      /\ DOMAIN orders \subseteq OrderIds /\ id \notin DOMAIN orders
      /\ pc = "idle" /\ incoming = 0
  BY <1>1 DEF Submit, bookVars, Typed
<1>3. /\ DOMAIN orders' = DOMAIN orders \cup {id} /\ id \notin DOMAIN orders
      /\ orders'[id] = NewRecord(request, status)
      /\ \A x \in DOMAIN orders : orders'[x] = orders[x]
  BY <1>2 DEF Put, OrderIds
<1>4. \A i \in Instruments : \A r \in books[i] : r.id \in DOMAIN orders /\ r.id # id
  BY <1>3 DEF Consistent, RecordsMatchBooks, Agrees
<1>5. RecordsMatchBooks'
  <2>1. \A i \in Instruments : \A r \in books'[i] : Agrees(i, r)'
    BY <1>2, <1>3, <1>4 DEF Consistent, RecordsMatchBooks, Agrees
  <2>2. \A i \in Instruments : \A r, o \in books'[i] : r.id = o.id => r = o
    BY <1>2 DEF Consistent, RecordsMatchBooks
  <2>3. \A x \in DOMAIN orders' :
          orders'[x].status \in OpenStatus
            => \/ x = incoming'
               \/ \E r \in books'[orders'[x].instrument] : r.id = x
    <3> SUFFICES ASSUME NEW x \in DOMAIN orders', orders'[x].status \in OpenStatus
                 PROVE  \/ x = incoming'
                        \/ \E r \in books'[orders'[x].instrument] : r.id = x
      OBVIOUS
    <3>1. CASE x = id
      <4>1. status # "rejected"
        BY <1>3, <3>1 DEF NewRecord, OpenStatus
      <4>2. incoming' = id
        BY <4>1 DEF Submit
      <4> QED BY <3>1, <4>2
    <3>2. CASE x # id
      <4>1. x \in DOMAIN orders /\ orders'[x] = orders[x] /\ x # 0
        BY <1>2, <1>3, <3>2 DEF OrderIds
      <4> QED BY <1>2, <4>1 DEF Consistent, RecordsMatchBooks
    <3> QED BY <3>1, <3>2
  <2> QED BY <2>1, <2>2, <2>3 DEF RecordsMatchBooks
<1>6. SubmitInProgress'
  <2> SUFFICES ASSUME pc' = "matching" PROVE SubmitInProgress'
    BY DEF SubmitInProgress
  <2>1. /\ ~IsRefused(request) /\ incoming' = id /\ remaining' = request.quantity
    BY <1>2 DEF Submit, submitVars
  <2>2. request.price \in Nat /\ request.quantity \in Nat
    BY DEF Request
  <2>3. request.price > 0 /\ request.quantity > 0
    BY <2>1, <2>2 DEF IsRefused
  <2> QED BY <1>2, <1>3, <1>4, <2>1, <2>2, <2>3 DEF SubmitInProgress, NewRecord
<1>7. NoCrossedBook => NoCrossedBook'
  BY <1>2 DEF NoCrossedBook
<1> QED BY <1>1, <1>5, <1>6, <1>7 DEF Consistent

\* An iteration of the matching loop preserves the inductive invariant.
LEMMA MatchConsistent ==
  ASSUME Consistent, Match
  PROVE  Consistent' /\ (NoCrossedBook => NoCrossedBook')
<1> DEFINE order == orders[incoming]
<1>1. Typed' /\ Typed /\ RecordsMatchBooks
  BY MatchType DEF Consistent
<1>2. /\ incoming \in DOMAIN orders
      /\ order.instrument \in Instruments /\ remaining \in Nat /\ remaining > Tolerance
      /\ incoming' = incoming /\ pc = "matching"
  BY <1>1 DEF Match, Typed, OrderRecord
<1>3. PICK r \in books[order.instrument] :
        LET executed == Smaller(remaining, r.remaining)
        IN  /\ AcceptsFill(r, executed)
            /\ Execute(order.instrument, r, executed,
                       MakeFill(incoming, order.side, r.price, executed))
            /\ remaining' = Less(remaining, executed)
  BY DEF Match, BestOrders
<1> DEFINE executed == Smaller(remaining, r.remaining)
<1>4. r.remaining \in Nat
  BY <1>1, <1>2 DEF Typed, RestingOrder
<1>5. /\ executed \in Nat /\ executed <= r.remaining /\ executed > Tolerance
      /\ remaining' \in Nat /\ remaining' <= remaining
  BY <1>2, <1>3, <1>4 DEF Smaller, Less, AcceptsFill
<1>6. Execute(order.instrument, r, executed,
              MakeFill(incoming, order.side, r.price, executed))
  BY <1>3
<1> HIDE DEF executed
<1>7. /\ RecordsMatchBooks'
      /\ NoCrossedBook => NoCrossedBook'
      /\ \A id \in DOMAIN orders : id # r.id => orders'[id] = orders[id]
      /\ \A j \in Instruments : \A x \in books'[j] :
              \E y \in books[j] : x.id = y.id /\ x.side = y.side /\ x.price = y.price
  BY <1>1, <1>2, <1>5, <1>6, ExecuteKeeps
<1>8. SubmitInProgress'
  <2>1. /\ order.status = "acknowledged" /\ order.filled = 0 /\ order.price > 0
        /\ order.quantity > 0 /\ remaining <= order.quantity
        /\ \A i \in Instruments : \A x \in books[i] : x.id # incoming
    BY <1>2 DEF Consistent, SubmitInProgress
  <2>2. r.id # incoming
    BY <1>2, <2>1
  <2>3. orders'[incoming] = order
    BY <1>2, <1>7, <2>2
  <2>4. order.quantity \in Nat
    BY <1>1, <1>2 DEF Typed, OrderRecord
  <2>5. remaining' <= order.quantity
    BY <1>2, <1>5, <2>1, <2>4
  <2> QED BY <1>2, <1>7, <2>1, <2>3, <2>5 DEF SubmitInProgress
<1> QED BY <1>1, <1>7, <1>8 DEF Consistent

\* The end of submit preserves the inductive invariant: what rests has nothing
\* left to cross.
LEMMA FinishSubmitConsistent ==
  ASSUME Consistent, FinishSubmit
  PROVE  Consistent' /\ (NoCrossedBook => NoCrossedBook')
<1> DEFINE order == orders[incoming]
           i == order.instrument
           book == books[i]
           filled == Less(order.quantity, remaining)
           rests == remaining > Tolerance
           new == [id |-> incoming, side |-> order.side, price |-> order.price,
                   remaining |-> Less(order.quantity, filled), seq |-> next_seq[i]]
           final == FinalRecord(order, filled)
<1>1. Typed' /\ Typed /\ RecordsMatchBooks /\ SubmitInProgress
  BY FinishSubmitType DEF Consistent
<1>2. /\ pc = "matching" /\ incoming \in DOMAIN orders
      /\ orders \in [DOMAIN orders -> OrderRecord]
      /\ order \in OrderRecord /\ i \in Instruments /\ order.side \in Sides
      /\ order.price \in Nat /\ order.quantity \in Nat /\ remaining \in Nat
      /\ books \in [Instruments -> SUBSET RestingOrder(OrderIds)]
  BY <1>1 DEF FinishSubmit, Typed, OrderRecord
<1>3. /\ order.status = "acknowledged" /\ order.filled = 0 /\ order.price > 0
      /\ order.quantity > 0 /\ remaining <= order.quantity
      /\ \A j \in Instruments : \A x \in books[j] : x.id # incoming
  BY <1>1, <1>2 DEF SubmitInProgress
<1>4. /\ filled \in Nat /\ filled = order.quantity - remaining
      /\ Less(order.quantity, filled) = remaining
  BY <1>2, <1>3 DEF Less
<1>5. rests => IsRequestCompatible(book, incoming, order.price, order.quantity, filled)
  BY <1>2, <1>3, <1>4, ToleranceAssumption DEF IsRequestCompatible
<1>6. /\ final \in OrderRecord
      /\ final.instrument = i /\ final.side = order.side /\ final.price = order.price
      /\ final.quantity = order.quantity /\ final.status # "rejected"
      /\ rests => final.filled = filled /\ final.status \in OpenStatus
      /\ ~rests => final.status = "filled"
  <2>1. order.quantity - filled = remaining
    BY <1>2, <1>4
  <2>2. CASE rests
    <3>1. final = [order EXCEPT !.filled = filled,
                                !.status = IF filled > Tolerance
                                           THEN "partially_filled" ELSE order.status]
      BY <1>2, <2>1, <2>2, ToleranceAssumption DEF FinalRecord
    <3> QED BY <1>2, <1>3, <1>4, <2>2, <3>1
            DEF OrderRecord, OrderStatus, OpenStatus
  <2>3. CASE ~rests
    <3>1. final = [order EXCEPT !.filled = order.quantity, !.status = "filled"]
      BY <1>2, <2>1, <2>3, ToleranceAssumption DEF FinalRecord
    <3> QED BY <1>2, <2>3, <3>1 DEF OrderRecord, OrderStatus, TerminalStatus
  <2> QED BY <2>2, <2>3
<1>7. /\ MatchingDone(order, book)
      /\ IF rests THEN books' = [books EXCEPT ![i] = book \cup {new}]
                  ELSE books' = books
      /\ orders' = [orders EXCEPT ![incoming] = final]
      /\ pc' = "idle" /\ incoming' = 0
  BY <1>5, <1>6 DEF FinishSubmit, RestResidual, WithOrder, bookVars
<1> HIDE DEF final, filled
<1>8. /\ DOMAIN orders' = DOMAIN orders /\ orders'[incoming] = final
      /\ \A id \in DOMAIN orders : id # incoming => orders'[id] = orders[id]
  BY <1>2, <1>7
<1>9. \A j \in Instruments : \A x \in books'[j] :
        x \in books[j] \/ (j = i /\ rests /\ x = new)
  BY <1>2, <1>7
<1>10. RecordsMatchBooks'
  <2>1. \A j \in Instruments : \A x \in books'[j] : Agrees(j, x)'
    <3> SUFFICES ASSUME NEW j \in Instruments, NEW x \in books'[j] PROVE Agrees(j, x)'
      OBVIOUS
    <3>1. CASE x \in books[j]
      BY <1>1, <1>3, <1>8, <3>1 DEF RecordsMatchBooks, Agrees
    <3>2. CASE j = i /\ rests /\ x = new
      <4>1. /\ x.id = incoming /\ x.side = order.side /\ x.price = order.price
            /\ x.remaining = remaining
        BY <1>4, <3>2
      <4>2. order.quantity = filled + remaining
        BY <1>2, <1>4
      <4> QED BY <1>2, <1>6, <1>8, <3>2, <4>1, <4>2 DEF Agrees
    <3> QED BY <1>9, <3>1, <3>2
  <2>2. \A j \in Instruments : \A x, y \in books'[j] : x.id = y.id => x = y
    BY <1>1, <1>3, <1>9 DEF RecordsMatchBooks
  <2>3. \A id \in DOMAIN orders' :
          orders'[id].status \in OpenStatus
            => \/ id = incoming'
               \/ \E x \in books'[orders'[id].instrument] : x.id = id
    <3> SUFFICES ASSUME NEW id \in DOMAIN orders', orders'[id].status \in OpenStatus
                 PROVE  \E x \in books'[orders'[id].instrument] : x.id = id
      OBVIOUS
    <3>1. CASE id = incoming
      <4>1. rests
        BY <1>6, <1>8, <3>1 DEF OpenStatus
      <4>2. new \in books'[i] /\ new.id = incoming
        BY <1>2, <1>7, <4>1
      <4> QED BY <1>6, <1>8, <3>1, <4>2
    <3>2. CASE id # incoming
      <4>1. orders'[id] = orders[id] /\ id \in DOMAIN orders
        BY <1>8, <3>2
      <4>2. PICK x \in books[orders[id].instrument] : x.id = id
        BY <1>1, <3>2, <4>1 DEF RecordsMatchBooks
      <4>3. orders[id].instrument \in Instruments
        BY <1>2, <4>1 DEF OrderRecord
      <4>4. x \in books'[orders[id].instrument]
        BY <1>2, <1>7, <4>2, <4>3
      <4> QED BY <4>1, <4>2, <4>4
    <3> QED BY <3>1, <3>2
  <2> QED BY <2>1, <2>2, <2>3 DEF RecordsMatchBooks
<1>11. ASSUME rests, NEW x \in book, x.side = Opposite(order.side)
       PROVE  ~Crosses(order, x)
  <2>1. PICK b \in BestOrders(book, Opposite(order.side)) :
          \/ ~Crosses(order, b)
          \/ ~AcceptsFill(b, Smaller(remaining, b.remaining))
    BY <1>2, <1>7, <1>11, ToleranceAssumption DEF MatchingDone
  <2>2. /\ b \in book /\ b.remaining \in Nat /\ b.remaining > Tolerance
        /\ b.price \in Nat /\ x.price \in Nat
    BY <1>1, <1>2, <2>1 DEF BestOrders, RestingOrder, RecordsMatchBooks, Agrees
  <2>3. AcceptsFill(b, Smaller(remaining, b.remaining))
    BY <1>2, <1>11, <2>2, ToleranceAssumption DEF AcceptsFill, Smaller
  <2>4. ~Crosses(order, b) /\ b.side = Opposite(order.side)
    BY <2>1, <2>3 DEF BestOrders
  <2>5. x = b \/ Better(b, x)
    BY <1>11, <2>1 DEF BestOrders
  <2> QED BY <1>2, <1>11, <2>2, <2>4, <2>5 DEF Better, Crosses, Opposite, Sides
<1>12. NoCrossedBook => NoCrossedBook'
  <2> SUFFICES ASSUME NoCrossedBook, NEW j \in Instruments, NEW b \in books'[j], NEW a \in books'[j],
                      b.side = "buy", a.side = "sell"
               PROVE  b.price < a.price
    BY DEF NoCrossedBook
  <2>1. CASE b \in books[j] /\ a \in books[j]
    BY <2>1 DEF NoCrossedBook
  <2>2. CASE j = i /\ rests /\ b = new /\ a \in books[j]
    <3>1. order.side = "buy" /\ b.price = order.price /\ a.price \in Nat
      BY <1>2, <2>2 DEF RestingOrder
    <3> QED BY <1>2, <1>11, <2>2, <3>1 DEF Crosses, Opposite
  <2>3. CASE j = i /\ rests /\ a = new /\ b \in books[j]
    <3>1. order.side = "sell" /\ a.price = order.price /\ b.price \in Nat
      BY <1>2, <2>3 DEF RestingOrder
    <3> QED BY <1>2, <1>11, <2>3, <3>1 DEF Crosses, Opposite
  <2> QED BY <1>9, <2>1, <2>2, <2>3
<1>13. SubmitInProgress'
  BY <1>7 DEF SubmitInProgress
<1> QED BY <1>1, <1>10, <1>12, <1>13 DEF Consistent

\* A fill from the feed preserves the inductive invariant.
LEMMA TakeFromLevelConsistent ==
  ASSUME Consistent, TakeFromLevel
  PROVE  Consistent' /\ (NoCrossedBook => NoCrossedBook')
<1> DEFINE level == Head(levels)
<1>1. Typed' /\ Typed /\ RecordsMatchBooks
  BY TakeFromLevelType DEF Consistent
<1>2. /\ levels \in Seq(WorkLevel) /\ levels # <<>> /\ instrument \in Instruments
      /\ incoming' = incoming /\ pc' = "event"
  BY <1>1 DEF TakeFromLevel, Typed, WorkLevel, submitVars
<1>3. level.quantity \in Nat
  <2>1. level \in WorkLevel
    BY <1>2, HeadTailProperties
  <2> QED BY <2>1 DEF WorkLevel
<1>4. PICK r \in books[instrument] :
        LET executed == Smaller(level.quantity, r.remaining)
        IN  /\ AcceptsFill(r, executed)
            /\ Execute(instrument, r, executed,
                       MakeFill(r.id, r.side, level.price, executed))
  BY DEF TakeFromLevel, BestOrders
<1> DEFINE executed == Smaller(level.quantity, r.remaining)
<1>5. r.remaining \in Nat
  BY <1>1, <1>2 DEF Typed, RestingOrder
<1>6. executed \in Nat /\ executed <= r.remaining /\ executed > Tolerance
  BY <1>3, <1>4, <1>5 DEF Smaller, AcceptsFill
<1>7. Execute(instrument, r, executed, MakeFill(r.id, r.side, level.price, executed))
  BY <1>4
<1> HIDE DEF executed, level
<1>8. RecordsMatchBooks' /\ (NoCrossedBook => NoCrossedBook')
  BY <1>1, <1>2, <1>6, <1>7, ExecuteKeeps
<1> QED BY <1>1, <1>2, <1>8 DEF Consistent, SubmitInProgress

\* Steps that leave books and records alone.
LEMMA OtherStepsConsistent ==
  ASSUME Consistent, \/ \E event : IsMarketEvent(event) /\ ProcessMarketEvent(event)
               \/ NextLevel \/ AppendOrderUpdate \/ FinishEvent
               \/ UNCHANGED vars
  PROVE  Consistent' /\ (NoCrossedBook => NoCrossedBook')
<1>1. Typed'
  BY ProcessMarketEventType, NextLevelType, AppendOrderUpdateType, FinishEventType
     DEF Consistent, vars, Typed
<1>2. /\ books' = books /\ orders' = orders /\ incoming' = incoming
      /\ remaining' = remaining /\ (pc' = "matching" => pc = "matching")
  BY DEF ProcessMarketEvent, NextLevel, AppendOrderUpdate, FinishEvent, vars,
         bookVars, submitVars
<1>3. RecordsMatchBooks' /\ (NoCrossedBook => NoCrossedBook')
  BY <1>2 DEF Consistent, RecordsMatchBooks, Agrees, NoCrossedBook
<1>4. SubmitInProgress'
  BY <1>2 DEF Consistent, SubmitInProgress
<1> QED BY <1>1, <1>3, <1>4 DEF Consistent

\* cancel preserves the inductive invariant: book and record change together.
LEMMA CancelConsistent ==
  ASSUME Consistent, NEW id \in OrderIds, Cancel(id)
  PROVE  Consistent' /\ (NoCrossedBook => NoCrossedBook')
<1>1. Typed' /\ Typed /\ RecordsMatchBooks
  BY CancelType DEF Consistent
<1>2. /\ pc = "idle" /\ pc' = "idle" /\ incoming' = incoming /\ incoming = 0
  BY <1>1 DEF Cancel, submitVars, Typed
<1>3. CASE ~Cancelable(id)
  <2>1. books' = books /\ orders' = orders
    BY <1>3 DEF Cancel
  <2> QED BY <1>1, <1>2, <2>1
          DEF Consistent, RecordsMatchBooks, Agrees, NoCrossedBook, SubmitInProgress
<1>4. CASE Cancelable(id)
  <2> DEFINE i == orders[id].instrument
  <2>1. /\ id \in DOMAIN orders /\ i \in Instruments
        /\ books \in [Instruments -> SUBSET RestingOrder(OrderIds)]
        /\ orders \in [DOMAIN orders -> OrderRecord]
    BY <1>1, <1>4 DEF Cancelable, Typed, OrderRecord
  <2>2. /\ books' = [books EXCEPT ![i] = {r \in books[i] : r.id # id}]
        /\ orders' = [orders EXCEPT ![id].status = "canceled"]
    BY <1>4 DEF Cancel
  <2>3. /\ DOMAIN orders' = DOMAIN orders /\ orders'[id].status = "canceled"
        /\ \A x \in DOMAIN orders : x # id => orders'[x] = orders[x]
    BY <2>1, <2>2 DEF OrderRecord
  <2>4. \A j \in Instruments : \A r \in books'[j] : r \in books[j] /\ r.id # id
    BY <1>1, <2>1, <2>2 DEF RecordsMatchBooks, Agrees
  <2>5. \A j \in Instruments : \A r \in books[j] : r.id # id => r \in books'[j]
    BY <2>1, <2>2
  <2>6. \A j \in Instruments : \A r \in books'[j] : Agrees(j, r)'
    BY <1>1, <2>3, <2>4 DEF RecordsMatchBooks, Agrees
  <2>7. \A x \in DOMAIN orders' :
          orders'[x].status \in OpenStatus
            => \/ x = incoming'
               \/ \E r \in books'[orders'[x].instrument] : r.id = x
    <3> SUFFICES ASSUME NEW x \in DOMAIN orders', orders'[x].status \in OpenStatus
                 PROVE  \E r \in books'[orders'[x].instrument] : r.id = x
      OBVIOUS
    <3>1. x # id /\ x \in DOMAIN orders /\ orders'[x] = orders[x]
      BY <2>3 DEF OpenStatus
    <3>2. x # incoming /\ orders[x].instrument \in Instruments
      BY <1>1, <1>2, <2>1, <3>1 DEF OrderRecord, Typed, OrderIds
    <3>3. PICK r \in books[orders[x].instrument] : r.id = x
      BY <1>1, <3>1, <3>2 DEF RecordsMatchBooks
    <3> QED BY <2>5, <3>1, <3>2, <3>3
  <2>8. RecordsMatchBooks'
    BY <1>1, <2>4, <2>6, <2>7 DEF RecordsMatchBooks
  <2>9. NoCrossedBook => NoCrossedBook'
    BY <2>4 DEF NoCrossedBook
  <2> QED BY <1>1, <1>2, <2>8, <2>9 DEF Consistent, SubmitInProgress
<1> QED BY <1>3, <1>4

\* Every step preserves the inductive invariant.
LEMMA NextIInv == IInv /\ [Next]_vars => IInv'
<1> SUFFICES ASSUME IInv, [Next]_vars PROVE IInv'
  OBVIOUS
<1>1. TypeOK' /\ TypeOK /\ Consistent /\ NoCrossedBook
  BY TypeNext DEF IInv
<1>2. Consistent' /\ (NoCrossedBook => NoCrossedBook')
  <2>1. ASSUME NEW request \in Requests, Submit(request)
        PROVE  Consistent' /\ (NoCrossedBook => NoCrossedBook')
    <3>1. next_order_id \notin DOMAIN orders /\ request \in Request
      BY <1>1, InputAssumption DEF TypeOK, Typed, OrderIds
    <3> QED BY <1>1, <2>1, <3>1, SubmitConsistent
  <2>2. ASSUME NEW id \in 1..MaxOrders, Cancel(id)
        PROVE  Consistent' /\ (NoCrossedBook => NoCrossedBook')
    <3>1. id \in OrderIds
      BY InputAssumption DEF OrderIds
    <3> QED BY <1>1, <2>2, <3>1, CancelConsistent
  <2>3. CASE Match \/ FinishSubmit \/ TakeFromLevel
    BY <1>1, <2>3, MatchConsistent, FinishSubmitConsistent, TakeFromLevelConsistent
  <2>4. CASE \/ \E event \in MarketEvents : ProcessMarketEvent(event)
             \/ NextLevel \/ AppendOrderUpdate \/ FinishEvent
             \/ UNCHANGED vars
    BY <1>1, <2>4, OtherStepsConsistent, InputAssumption
  <2> QED BY <2>1, <2>2, <2>3, <2>4 DEF Next, Step
<1> QED BY <1>1, <1>2 DEF IInv

(***************************************************************************)
(* The inductive invariant of the matching engine holds in every state.    *)
(***************************************************************************)
THEOREM IInvHolds == Spec => []IInv
BY InitIInv, NextIInv, PTL DEF Spec

(***************************************************************************)
(* orders_ and the books never disagree about what is open and how much of *)
(* it is left, whatever mixture of submits, market events and cancels.     *)
(***************************************************************************)
THEOREM RecordsMatchBooksHolds == Spec => []RecordsMatchBooks
<1>1. IInv => RecordsMatchBooks
  BY DEF IInv, Consistent
<1> QED BY IInvHolds, <1>1, PTL

(***************************************************************************)
(* submit never leaves a bid at or above an ask of the same instrument.    *)
(***************************************************************************)
THEOREM NoCrossedBookHolds == Spec => []NoCrossedBook
<1>1. IInv => NoCrossedBook
  BY DEF IInv
<1> QED BY IInvHolds, <1>1, PTL

(***************************************************************************)
(* A filled, canceled or rejected order record never changes again.        *)
(***************************************************************************)
THEOREM TerminalIsFinalHolds == Spec => TerminalIsFinal
<1>1. IInv /\ [Next]_vars => [KeepsTerminal]_vars
  <2> SUFFICES ASSUME IInv, Next PROVE KeepsTerminal
    OBVIOUS
  <2>1. Typed /\ RecordsMatchBooks /\ SubmitInProgress
    BY DEF IInv, Consistent
  <2>2. ASSUME NEW request \in Requests, Submit(request) PROVE KeepsTerminal
    BY <2>1, <2>2 DEF IInv, TypeOK, Submit, Put, KeepsTerminal, Typed, OrderIds
  <2>3. ASSUME NEW id \in 1..MaxOrders, Cancel(id) PROVE KeepsTerminal
    BY <2>1, <2>3 DEF Cancel, Cancelable, KeepsTerminal, Typed, IsTerminal
  <2>4. ASSUME NEW i \in Instruments, NEW r \in books[i], NEW executed, NEW fill,
               Execute(i, r, executed, fill)
        PROVE  KeepsTerminal
    <3>1. r.id \in DOMAIN orders /\ ~IsTerminal(orders[r.id].status)
      BY <2>1, <2>4 DEF RecordsMatchBooks, Agrees, IsTerminal, OpenStatus, TerminalStatus
    <3> QED BY <2>1, <2>4, <3>1 DEF Execute, ApplyFillToOrder, KeepsTerminal, Typed
  <2>5. CASE Match
    <3>1. orders[incoming].instrument \in Instruments
      BY <2>1, <2>5 DEF Match, Typed, OrderRecord
    <3> QED BY <2>4, <2>5, <3>1 DEF Match, BestOrders
  <2>6. CASE TakeFromLevel
    <3>1. instrument \in Instruments
      BY <2>1, <2>6 DEF TakeFromLevel, Typed
    <3> QED BY <2>4, <2>6, <3>1 DEF TakeFromLevel, BestOrders
  <2>7. CASE FinishSubmit
    <3>1. /\ orders[incoming].status = "acknowledged" /\ incoming \in DOMAIN orders
          /\ \E final : orders' = [orders EXCEPT ![incoming] = final]
      BY <2>1, <2>7 DEF FinishSubmit, SubmitInProgress, Typed
    <3> QED BY <2>1, <3>1 DEF KeepsTerminal, IsTerminal, TerminalStatus, Typed
  <2>8. CASE \/ \E event \in MarketEvents : ProcessMarketEvent(event)
             \/ NextLevel \/ AppendOrderUpdate \/ FinishEvent
    BY <2>8 DEF ProcessMarketEvent, NextLevel, AppendOrderUpdate, FinishEvent, KeepsTerminal
  <2> QED BY <2>2, <2>3, <2>5, <2>6, <2>7, <2>8 DEF Next, Step
<1> QED BY IInvHolds, <1>1, PTL DEF Spec, TerminalIsFinal

----------------------------------------------------------------------------
(* Limit prices.                                                           *)

\* Fills after Execute appended one that honours its order's limit.
LEMMA ExecuteFills ==
  ASSUME Typed, RecordsMatchBooks, FillsHonorLimits,
         NEW i \in Instruments, NEW r \in books[i],
         NEW executed \in Nat, executed > Tolerance, executed <= r.remaining,
         NEW fill \in Fill, Execute(i, r, executed, fill), incoming' = incoming,
         HonorsLimit(orders, fill)
  PROVE  FillsHonorLimits'
<1>1. \A id \in DOMAIN orders : /\ id \in DOMAIN orders'
                                /\ orders'[id].side = orders[id].side
                                /\ orders'[id].price = orders[id].price
  BY ExecuteKeeps
<1>2. result.fills \in Seq(Fill)
  BY DEF Typed
<1>3. result'.fills = Append(result.fills, fill)
  BY DEF Execute, Typed
<1>4. \A k \in DOMAIN result'.fills :
        \/ k \in DOMAIN result.fills /\ result'.fills[k] = result.fills[k]
        \/ result'.fills[k] = fill
  BY <1>2, <1>3
<1>5. ASSUME NEW f, HonorsLimit(orders, f)
      PROVE  HonorsLimit(orders', f)
  BY <1>1, <1>5 DEF HonorsLimit
<1>6. \A k \in DOMAIN result'.fills : HonorsLimit(orders', result'.fills[k])
  BY <1>4, <1>5 DEF FillsHonorLimits
<1> QED BY <1>6 DEF FillsHonorLimits

\* The fill of a matching iteration honours the limit of the incoming order.
LEMMA MatchFills ==
  ASSUME Consistent, FillsHonorLimits, Match
  PROVE  FillsHonorLimits'
<1> DEFINE order == orders[incoming]
<1>1. Typed /\ RecordsMatchBooks
  BY DEF Consistent
<1>2. /\ incoming \in DOMAIN orders /\ incoming \in OrderIds /\ order \in OrderRecord
      /\ order.instrument \in Instruments /\ order.side \in Sides /\ order.price \in Nat
      /\ remaining \in Nat /\ incoming' = incoming
  <2>1. /\ incoming \in DOMAIN orders /\ incoming \in OrderIds /\ order \in OrderRecord
        /\ remaining \in Nat /\ incoming' = incoming
    BY <1>1 DEF Match, Typed, OrderIds
  <2> QED BY <2>1 DEF OrderRecord
<1>3. PICK r \in books[order.instrument] :
        LET executed == Smaller(remaining, r.remaining)
        IN  /\ AcceptsFill(r, executed)
            /\ Crosses(order, r)
            /\ Execute(order.instrument, r, executed,
                       MakeFill(incoming, order.side, r.price, executed))
  BY DEF Match, BestOrders
<1> DEFINE executed == Smaller(remaining, r.remaining)
           fill == MakeFill(incoming, order.side, r.price, executed)
<1>4. r.remaining \in Nat /\ r.price \in Nat
  BY <1>1, <1>2 DEF Typed, RestingOrder
<1>5. executed \in Nat /\ executed <= r.remaining /\ executed > Tolerance
  BY <1>2, <1>3, <1>4 DEF Smaller, AcceptsFill
<1>6. Execute(order.instrument, r, executed, fill) /\ Crosses(order, r)
  BY <1>3
<1>7. /\ fill \in Fill /\ fill.order_id = incoming /\ fill.quantity = executed
      /\ fill.side = order.side /\ fill.price = r.price
  BY <1>1, <1>2, <1>4, <1>5 DEF MakeFill, Fill, Typed
<1> HIDE DEF executed, fill
<1>8. HonorsLimit(orders, fill)
  BY <1>2, <1>4, <1>5, <1>6, <1>7, ToleranceAssumption DEF HonorsLimit, Crosses
<1> QED BY <1>1, <1>2, <1>5, <1>6, <1>7, <1>8, ExecuteFills

\* The fill of a market event honours the limit of the resting order.
LEMMA TakeFromLevelFills ==
  ASSUME Consistent, FillsHonorLimits, TakeFromLevel
  PROVE  FillsHonorLimits'
<1> DEFINE level == Head(levels)
<1>1. Typed /\ RecordsMatchBooks
  BY DEF Consistent
<1>2. /\ levels \in Seq(WorkLevel) /\ levels # <<>> /\ instrument \in Instruments
      /\ incoming' = incoming
  BY <1>1 DEF TakeFromLevel, Typed, WorkLevel, submitVars
<1>3. level.quantity \in Nat /\ level.price \in Nat
  <2>1. level \in WorkLevel
    BY <1>2, HeadTailProperties
  <2> QED BY <2>1 DEF WorkLevel
<1>4. PICK r \in books[instrument] :
        LET executed == Smaller(level.quantity, r.remaining)
        IN  /\ AcceptsFill(r, executed)
            /\ Reaches(r, level)
            /\ Execute(instrument, r, executed,
                       MakeFill(r.id, r.side, level.price, executed))
  BY DEF TakeFromLevel, BestOrders
<1> DEFINE executed == Smaller(level.quantity, r.remaining)
           fill == MakeFill(r.id, r.side, level.price, executed)
<1>5. /\ r.remaining \in Nat /\ r.price \in Nat /\ r.id \in OrderIds /\ r.side \in Sides
      /\ r.id \in DOMAIN orders /\ orders[r.id].price = r.price /\ orders[r.id].side = r.side
  BY <1>1, <1>2 DEF Typed, RestingOrder, RecordsMatchBooks, Agrees
<1>6. executed \in Nat /\ executed <= r.remaining /\ executed > Tolerance
  BY <1>3, <1>4, <1>5 DEF Smaller, AcceptsFill
<1>7. Execute(instrument, r, executed, fill) /\ Reaches(r, level)
  BY <1>4
<1>8. /\ fill \in Fill /\ fill.order_id = r.id /\ fill.quantity = executed
      /\ fill.side = r.side /\ fill.price = level.price
  BY <1>1, <1>3, <1>5, <1>6 DEF MakeFill, Fill, Typed
<1> HIDE DEF executed, fill, level
<1>9. HonorsLimit(orders, fill)
  BY <1>3, <1>5, <1>6, <1>7, <1>8, ToleranceAssumption DEF HonorsLimit, Reaches
<1> QED BY <1>1, <1>2, <1>6, <1>7, <1>8, <1>9, ExecuteFills

(***************************************************************************)
(* No fill, of a taker against the book or of a resting order against the  *)
(* feed, is worse than the limit price of its order by more than the       *)
(* tolerance.                                                              *)
(***************************************************************************)
THEOREM FillsHonorLimitsHolds == Spec => []FillsHonorLimits
<1>1. Init => FillsHonorLimits
  BY DEF Init, NewResult, FillsHonorLimits
<1>2. IInv /\ FillsHonorLimits /\ [Next]_vars => FillsHonorLimits'
  <2> SUFFICES ASSUME Consistent, FillsHonorLimits, [Next]_vars PROVE FillsHonorLimits'
    BY DEF IInv
  <2>1. CASE \/ \E request \in Requests : Submit(request)
             \/ \E event \in MarketEvents : ProcessMarketEvent(event)
             \/ \E id \in 1..MaxOrders : Cancel(id)
    <3>1. result'.fills = <<>>
      BY <2>1 DEF Submit, ProcessMarketEvent, Cancel, NewResult
    <3> QED BY <3>1 DEF FillsHonorLimits
  <2>2. CASE Match
    BY <2>2, MatchFills
  <2>3. CASE TakeFromLevel
    BY <2>3, TakeFromLevelFills
  <2>4. CASE FinishSubmit
    <3>1. Typed /\ incoming \in DOMAIN orders /\ orders[incoming] \in OrderRecord
      BY <2>4 DEF FinishSubmit, Typed, Consistent
    <3>2. \A a, b : LET new == [orders[incoming] EXCEPT !.filled = a, !.status = b]
                    IN  /\ new.side = orders[incoming].side
                        /\ new.price = orders[incoming].price
      BY <3>1 DEF OrderRecord
    <3>5. \E a, b : orders' = [orders EXCEPT ![incoming] =
                                 [orders[incoming] EXCEPT !.filled = a, !.status = b]]
      BY <2>4 DEF FinishSubmit, FinalRecord
    <3>3. result'.fills = result.fills
      BY <2>4, <3>1 DEF FinishSubmit, Typed
    <3>4. \A id \in DOMAIN orders : /\ id \in DOMAIN orders'
                                    /\ orders'[id].side = orders[id].side
                                    /\ orders'[id].price = orders[id].price
      BY <3>1, <3>2, <3>5 DEF Typed
    <3> QED BY <3>3, <3>4 DEF FillsHonorLimits, HonorsLimit
  <2>5. CASE NextLevel \/ AppendOrderUpdate \/ FinishEvent \/ UNCHANGED vars
    <3>1. orders' = orders
      BY <2>5 DEF NextLevel, AppendOrderUpdate, FinishEvent, vars
    <3>2. result'.fills = result.fills
      BY <2>5 DEF NextLevel, AppendOrderUpdate, FinishEvent, vars, Consistent, Typed
    <3> QED BY <3>1, <3>2 DEF FillsHonorLimits, HonorsLimit
  <2> QED BY <2>1, <2>2, <2>3, <2>4, <2>5 DEF Next, Step
<1> QED BY IInvHolds, <1>1, <1>2, PTL DEF Spec

----------------------------------------------------------------------------
(* Reports of what was filled.                                             *)

\* The last of the updates of an order has the state of its record.
Reported(updates, records, id) ==
  \E n \in DOMAIN updates :
    /\ updates[n].order_id = id
    /\ \A m \in DOMAIN updates : updates[m].order_id = id => m <= n
    /\ updates[n].status = records[id].status
    /\ updates[n].filled \in (records[id].filled - Tolerance)..records[id].filled

(***************************************************************************)
(* Every filled order has been reported or will be before the operation    *)
(* returns.  A submit that has a fill is left with a quantity whose        *)
(* difference to the request exceeds the tolerance, so its status changes; *)
(* a market event reports only when no level, and so no fill, is left.     *)
(***************************************************************************)
ReportInv ==
  /\ pc = "idle" => \A k \in DOMAIN result.fills :
                      Reported(result.updates, orders, result.fills[k].order_id)
  /\ pc = "matching" =>
       /\ \A k \in DOMAIN result.fills : result.fills[k].order_id = incoming
       /\ result.fills # <<>> => remaining + Tolerance < orders[incoming].quantity
  /\ pc = "event" =>
       /\ touched \subseteq DOMAIN orders
       /\ levels # <<>> => result.updates = <<>>
       /\ \A k \in DOMAIN result.fills :
            \/ result.fills[k].order_id \in touched
            \/ Reported(result.updates, orders, result.fills[k].order_id)

\* An update at the end is the last of its order and leaves those of others.
LEMMA AppendedReport ==
  ASSUME NEW updates \in Seq(OrderUpdate), NEW update \in OrderUpdate, NEW records, NEW id
  PROVE  /\ /\ update.order_id = id
            /\ update.status = records[id].status
            /\ update.filled \in (records[id].filled - Tolerance)..records[id].filled
            => Reported(Append(updates, update), records, id)
         /\ Reported(updates, records, id) /\ update.order_id # id
            => Reported(Append(updates, update), records, id)
<1>1. PICK all : all = Append(updates, update)
  OBVIOUS
<1>2. PICK last \in Nat : last = Len(updates) + 1
  OBVIOUS
<1>3. /\ DOMAIN updates = 1..(last - 1) /\ DOMAIN all = 1..last /\ all[last] = update
      /\ \A n \in DOMAIN updates : all[n] = updates[n]
      /\ last \in DOMAIN all
  BY <1>1, <1>2
<1>4. ASSUME update.order_id = id, update.status = records[id].status,
             update.filled \in (records[id].filled - Tolerance)..records[id].filled
      PROVE  Reported(all, records, id)
  <2>1. \A m \in DOMAIN all : m <= last
    BY <1>3
  <2> QED BY <1>3, <1>4, <2>1 DEF Reported
<1>5. ASSUME Reported(updates, records, id), update.order_id # id
      PROVE  Reported(all, records, id)
  <2>1. PICK n \in DOMAIN updates :
          /\ updates[n].order_id = id
          /\ \A m \in DOMAIN updates : updates[m].order_id = id => m <= n
          /\ updates[n].status = records[id].status
          /\ updates[n].filled \in (records[id].filled - Tolerance)..records[id].filled
    BY <1>5 DEF Reported
  <2>2. n \in DOMAIN all /\ all[n] = updates[n]
    BY <1>3
  <2>3. ASSUME NEW m \in DOMAIN all, all[m].order_id = id PROVE m <= n
    <3>1. m # last
      BY <1>3, <1>5, <2>3
    <3>2. m \in DOMAIN updates
      BY <1>2, <1>3, <3>1
    <3> QED BY <1>3, <2>1, <2>3, <3>2
  <2> QED BY <2>1, <2>2, <2>3 DEF Reported
<1> QED BY <1>1, <1>4, <1>5

\* One more fill in the list.
LEMMA AppendedFill ==
  ASSUME Typed, NEW fill \in Fill, result' = [result EXCEPT !.fills = Append(@, fill)]
  PROVE  /\ result'.updates = result.updates
         /\ \A k \in DOMAIN result'.fills :
              \/ k \in DOMAIN result.fills /\ result'.fills[k] = result.fills[k]
              \/ result'.fills[k] = fill
<1>1. result.fills \in Seq(Fill)
  BY DEF Typed
<1>2. result'.fills = Append(result.fills, fill) /\ result'.updates = result.updates
  BY DEF Typed
<1> QED BY <1>1, <1>2

\* An iteration of the matching loop takes more than the tolerance.
LEMMA MatchReport ==
  ASSUME Consistent, ReportInv, Match
  PROVE  ReportInv'
<1> DEFINE order == orders[incoming]
<1>1. Typed /\ RecordsMatchBooks /\ SubmitInProgress
  BY DEF Consistent
<1>2. /\ incoming \in DOMAIN orders /\ incoming \in OrderIds /\ order \in OrderRecord
      /\ order.instrument \in Instruments /\ order.side \in Sides /\ order.quantity \in Nat
      /\ remaining \in Nat /\ incoming' = incoming /\ pc = "matching" /\ pc' = "matching"
  <2>1. /\ incoming \in DOMAIN orders /\ incoming \in OrderIds /\ order \in OrderRecord
        /\ remaining \in Nat /\ incoming' = incoming /\ pc = "matching" /\ pc' = "matching"
    BY <1>1 DEF Match, Typed, OrderIds
  <2> QED BY <2>1 DEF OrderRecord
<1>3. PICK r \in books[order.instrument] :
        LET executed == Smaller(remaining, r.remaining)
        IN  /\ AcceptsFill(r, executed)
            /\ Execute(order.instrument, r, executed,
                       MakeFill(incoming, order.side, r.price, executed))
            /\ remaining' = Less(remaining, executed)
  BY DEF Match, BestOrders
<1> DEFINE executed == Smaller(remaining, r.remaining)
           fill == MakeFill(incoming, order.side, r.price, executed)
<1>4. r.remaining \in Nat /\ r.price \in Nat
  BY <1>1, <1>2 DEF Typed, RestingOrder
<1>5. /\ executed \in Nat /\ executed <= r.remaining /\ executed > Tolerance
      /\ remaining' = remaining - executed
  BY <1>2, <1>3, <1>4 DEF Smaller, AcceptsFill, Less
<1>6. Execute(order.instrument, r, executed, fill)
  BY <1>3
<1>7. fill \in Fill /\ fill.order_id = incoming
  BY <1>1, <1>2, <1>4, <1>5 DEF MakeFill, Fill, Typed
<1> HIDE DEF executed, fill
<1>8. \A k \in DOMAIN result'.fills : result'.fills[k].order_id = incoming
  <2>1. \A k \in DOMAIN result'.fills :
          \/ k \in DOMAIN result.fills /\ result'.fills[k] = result.fills[k]
          \/ result'.fills[k] = fill
    BY <1>1, <1>6, <1>7, AppendedFill DEF Execute
  <2> QED BY <1>2, <1>7, <2>1 DEF ReportInv
<1>9. orders'[incoming] = order
  <2>1. r.id # incoming
    BY <1>1, <1>2 DEF SubmitInProgress
  <2> QED BY <1>1, <1>2, <1>5, <1>6, <2>1, ExecuteKeeps
<1>10. remaining' + Tolerance < order.quantity
  <2>1. remaining <= order.quantity
    BY <1>1, <1>2 DEF SubmitInProgress
  <2> QED BY <1>2, <1>5, <2>1, ToleranceAssumption
<1> QED BY <1>2, <1>8, <1>9, <1>10 DEF ReportInv

\* The end of a submit that has fills reports the state its order ends in.
LEMMA FinishSubmitReport ==
  ASSUME Consistent, ReportInv, FinishSubmit
  PROVE  ReportInv'
<1> DEFINE order == orders[incoming]
           filled == Less(order.quantity, remaining)
           rests == remaining > Tolerance
           final == FinalRecord(order, filled)
<1>1. Typed /\ SubmitInProgress
  BY DEF Consistent
<1>2. /\ pc = "matching" /\ pc' = "idle" /\ incoming \in DOMAIN orders /\ incoming \in OrderIds
      /\ orders \in [DOMAIN orders -> OrderRecord]
      /\ order \in OrderRecord /\ order.price \in Nat /\ order.quantity \in Nat
      /\ remaining \in Nat /\ result.updates \in Seq(OrderUpdate)
  <2>1. /\ pc = "matching" /\ pc' = "idle" /\ incoming \in DOMAIN orders /\ remaining \in Nat
        /\ orders \in [DOMAIN orders -> OrderRecord]
        /\ result.updates \in Seq(OrderUpdate) /\ next_order_id \in Nat
    BY <1>1 DEF FinishSubmit, Typed, OrderIds
  <2>2. order \in OrderRecord /\ incoming \in OrderIds
    BY <2>1 DEF OrderIds
  <2> QED BY <2>1, <2>2 DEF OrderRecord
<1>3. /\ order.status = "acknowledged" /\ order.price > 0
      /\ order.quantity > 0 /\ remaining <= order.quantity
      /\ \A j \in Instruments : \A x \in books[j] : x.id # incoming
  BY <1>1, <1>2 DEF SubmitInProgress
<1>4. filled \in Nat /\ filled = order.quantity - remaining
  BY <1>2, <1>3 DEF Less
<1>5. rests => IsRequestCompatible(books[order.instrument], incoming, order.price,
                                   order.quantity, filled)
  <2>1. order.instrument \in Instruments
    BY <1>2 DEF OrderRecord
  <2> QED BY <1>2, <1>3, <1>4, <2>1, ToleranceAssumption DEF IsRequestCompatible
<1>6. /\ orders' = [orders EXCEPT ![incoming] = final]
      /\ result' = IF final.status = order.status
                   THEN result
                   ELSE [result EXCEPT !.updates =
                           Append(@, MakeUpdate(incoming, final.status, filled))]
  <2>1. /\ orders' = [orders EXCEPT ![incoming] = final]
        /\ result' = IF final.status = "rejected" \/ Concluded(order, filled)
                     THEN [result EXCEPT !.updates =
                             Append(@, MakeUpdate(incoming, final.status, filled))]
                     ELSE result
    BY <1>5 DEF FinishSubmit
  <2>2. final.status # "rejected" /\ (Concluded(order, filled) <=> final.status # order.status)
    BY <1>2, <1>3, <1>4, ConcludedWhenChanged
  <2> QED BY <2>1, <2>2
<1>7. orders'[incoming] = final
  BY <1>2, <1>6
<1>8. result'.fills = result.fills
  BY <1>1, <1>6 DEF Typed
<1> SUFFICES ASSUME NEW k \in DOMAIN result.fills
             PROVE  Reported(result'.updates, orders', incoming)
  BY <1>2, <1>8 DEF ReportInv
<1>9. remaining + Tolerance < order.quantity
  BY <1>2 DEF ReportInv
<1>10. /\ final.status \in {"filled", "partially_filled"}
       /\ filled \in (final.filled - Tolerance)..final.filled
  <2>1. order.quantity - filled = remaining /\ filled > Tolerance
    BY <1>2, <1>4, <1>9, ToleranceAssumption
  <2>2. CASE rests
    <3>1. final = [order EXCEPT !.filled = filled, !.status = "partially_filled"]
      BY <1>2, <2>1, <2>2, ToleranceAssumption DEF FinalRecord
    <3>2. final.filled = filled /\ final.status = "partially_filled"
      BY <1>2, <3>1 DEF OrderRecord
    <3> QED BY <1>4, <3>2, ToleranceAssumption
  <2>3. CASE ~rests
    <3>1. final = [order EXCEPT !.filled = order.quantity, !.status = "filled"]
      BY <1>2, <2>1, <2>3, ToleranceAssumption DEF FinalRecord
    <3>2. final.filled = order.quantity /\ final.status = "filled"
      BY <1>2, <3>1 DEF OrderRecord
    <3> QED BY <1>2, <1>4, <2>3, <3>2, ToleranceAssumption
  <2> QED BY <2>2, <2>3
<1> HIDE DEF final, filled
<1>11. PICK update : update = MakeUpdate(incoming, final.status, filled)
  OBVIOUS
<1>12. /\ update \in OrderUpdate /\ update.order_id = incoming /\ update.status = final.status
       /\ update.filled = filled
  BY <1>2, <1>4, <1>10, <1>11 DEF MakeUpdate, OrderUpdate, OrderStatus, OpenStatus, TerminalStatus
<1>13. result' = [result EXCEPT !.updates = Append(@, update)]
  BY <1>3, <1>6, <1>10, <1>11
<1>14. result'.updates = Append(result.updates, update)
  BY <1>1, <1>13 DEF Typed
<1>15. Reported(Append(result.updates, update), orders', incoming)
  BY <1>2, <1>7, <1>10, <1>12, AppendedReport
<1> QED BY <1>14, <1>15

\* A fill of a market event is one of an order that is then touched.
LEMMA TakeFromLevelReport ==
  ASSUME Consistent, ReportInv, TakeFromLevel
  PROVE  ReportInv'
<1> DEFINE level == Head(levels)
<1>1. Typed /\ RecordsMatchBooks
  BY DEF Consistent
<1>2. /\ levels \in Seq(WorkLevel) /\ levels # <<>> /\ instrument \in Instruments
      /\ incoming' = incoming /\ pc = "event" /\ pc' = "event"
  BY <1>1 DEF TakeFromLevel, Typed, WorkLevel, submitVars
<1>3. level.quantity \in Nat /\ level.price \in Nat
  <2>1. level \in WorkLevel
    BY <1>2, HeadTailProperties
  <2> QED BY <2>1 DEF WorkLevel
<1>4. PICK r \in books[instrument] :
        LET executed == Smaller(level.quantity, r.remaining)
        IN  /\ AcceptsFill(r, executed)
            /\ Execute(instrument, r, executed,
                       MakeFill(r.id, r.side, level.price, executed))
            /\ touched' = touched \cup {r.id}
  BY DEF TakeFromLevel, BestOrders, Touch
<1> DEFINE executed == Smaller(level.quantity, r.remaining)
           fill == MakeFill(r.id, r.side, level.price, executed)
<1>5. r.remaining \in Nat /\ r.id \in OrderIds /\ r.side \in Sides
  BY <1>1, <1>2 DEF Typed, RestingOrder
<1>6. executed \in Nat /\ executed <= r.remaining /\ executed > Tolerance
  BY <1>3, <1>4, <1>5 DEF Smaller, AcceptsFill
<1>7. Execute(instrument, r, executed, fill) /\ touched' = touched \cup {r.id}
  BY <1>4
<1>8. fill \in Fill /\ fill.order_id = r.id
  BY <1>1, <1>3, <1>5, <1>6 DEF MakeFill, Fill, Typed
<1> HIDE DEF executed, fill, level
<1>9. r.id \in DOMAIN orders /\ DOMAIN orders' = DOMAIN orders
  BY <1>1, <1>2, <1>6, <1>7, ExecuteKeeps
<1>10. result.updates = <<>> /\ touched \subseteq DOMAIN orders
  BY <1>2 DEF ReportInv
<1>11. \A k \in DOMAIN result.fills : result.fills[k].order_id \in touched
  BY <1>2, <1>10 DEF ReportInv, Reported
<1>12. /\ result'.updates = result.updates
       /\ \A k \in DOMAIN result'.fills :
            \/ k \in DOMAIN result.fills /\ result'.fills[k] = result.fills[k]
            \/ result'.fills[k] = fill
  BY <1>1, <1>7, <1>8, AppendedFill DEF Execute
<1>13. \A k \in DOMAIN result'.fills : result'.fills[k].order_id \in touched'
  BY <1>7, <1>8, <1>11, <1>12
<1> QED BY <1>2, <1>7, <1>9, <1>10, <1>12, <1>13 DEF ReportInv

\* The updates at the end of a market event.
LEMMA AppendOrderUpdateReport ==
  ASSUME Consistent, ReportInv, AppendOrderUpdate
  PROVE  ReportInv'
<1>1. Typed /\ pc = "event" /\ pc' = "event" /\ levels = <<>> /\ levels' = <<>>
      /\ orders' = orders
  BY DEF Consistent, AppendOrderUpdate
<1>2. touched \subseteq DOMAIN orders
  BY <1>1 DEF ReportInv
<1>3. PICK id \in touched :
        /\ touched' = touched \ {id}
        /\ result' = [result EXCEPT !.updates =
                        Append(@, MakeUpdate(id, orders[id].status, orders[id].filled))]
  BY <1>2 DEF AppendOrderUpdate
<1>4. PICK update : update = MakeUpdate(id, orders[id].status, orders[id].filled)
  OBVIOUS
<1>5. /\ update \in OrderUpdate /\ update.order_id = id /\ update.status = orders[id].status
      /\ update.filled = orders[id].filled /\ orders[id].filled \in Nat
  <2>1. orders[id] \in OrderRecord /\ id \in OrderIds
    BY <1>1, <1>2 DEF Typed, OrderIds
  <2>2. orders[id].status \in OrderStatus /\ orders[id].filled \in Nat
    BY <2>1 DEF OrderRecord
  <2> QED BY <1>4, <2>1, <2>2 DEF MakeUpdate, OrderUpdate
<1>6. result'.updates = Append(result.updates, update) /\ result'.fills = result.fills
      /\ result.updates \in Seq(OrderUpdate)
  BY <1>1, <1>3, <1>4 DEF Typed
<1>7. update.filled \in (orders[id].filled - Tolerance)..orders[id].filled
  BY <1>5, ToleranceAssumption
<1>8. Reported(result'.updates, orders', id)
  BY <1>1, <1>5, <1>6, <1>7, AppendedReport
<1>9. ASSUME NEW k \in DOMAIN result.fills
      PROVE  \/ result.fills[k].order_id \in touched'
             \/ Reported(result'.updates, orders', result.fills[k].order_id)
  <2>1. PICK x : x = result.fills[k].order_id
    OBVIOUS
  <2>2. CASE x = id
    BY <1>8, <2>1, <2>2
  <2>3. CASE x # id /\ x \in touched
    BY <1>3, <2>1, <2>3
  <2>4. CASE x # id /\ x \notin touched
    <3>1. Reported(result.updates, orders, x)
      BY <1>1, <2>1, <2>4 DEF ReportInv
    <3> QED BY <1>1, <1>5, <1>6, <2>1, <2>4, <3>1, AppendedReport
  <2> QED BY <2>2, <2>3, <2>4
<1> QED BY <1>1, <1>2, <1>3, <1>6, <1>9 DEF ReportInv

(***************************************************************************)
(* Whoever called submit or process_market_event can rely on the updates   *)
(* of the result: for every order with a fill in it the last update has    *)
(* the status of the record and, up to the tolerance, its filled quantity. *)
(***************************************************************************)
THEOREM FilledOrdersReportedHolds == Spec => []FilledOrdersReported
<1>1. Init => ReportInv
  BY DEF Init, NewResult, ReportInv
<1>2. IInv /\ ReportInv /\ [Next]_vars => ReportInv'
  <2> SUFFICES ASSUME Consistent, ReportInv, [Next]_vars PROVE ReportInv'
    BY DEF IInv
  <2>1. CASE \/ \E request \in Requests : Submit(request)
             \/ \E id \in 1..MaxOrders : Cancel(id)
    <3>1. result'.fills = <<>> /\ pc' # "event"
      BY <2>1 DEF Submit, Cancel, NewResult, Consistent, Typed
    <3> QED BY <3>1 DEF ReportInv
  <2>2. CASE \E event \in MarketEvents : ProcessMarketEvent(event)
    <3>1. result'.fills = <<>> /\ result'.updates = <<>> /\ pc' = "event" /\ touched' = {}
      BY <2>2 DEF ProcessMarketEvent, NewResult
    <3> QED BY <3>1 DEF ReportInv
  <2>3. CASE NextLevel
    <3>1. /\ pc = "event" /\ levels # <<>> /\ UNCHANGED <<pc, result, touched, orders>>
      BY <2>3 DEF NextLevel
    <3> QED BY <3>1 DEF ReportInv
  <2>4. CASE FinishEvent
    <3>1. /\ pc = "event" /\ pc' = "idle" /\ touched = {} /\ UNCHANGED <<result, orders>>
      BY <2>4 DEF FinishEvent
    <3> QED BY <3>1 DEF ReportInv
  <2>5. CASE UNCHANGED vars
    BY <2>5 DEF vars, ReportInv
  <2> QED
    BY <2>1, <2>2, <2>3, <2>4, <2>5, MatchReport, FinishSubmitReport, TakeFromLevelReport,
       AppendOrderUpdateReport DEF Next, Step
<1>3. ReportInv => FilledOrdersReported
  BY DEF ReportInv, Reported, FilledOrdersReported
<1> QED BY IInvHolds, <1>1, <1>2, <1>3, PTL DEF Spec

----------------------------------------------------------------------------
(* Conservation of quantity.                                               *)

\* What the fill of one resting order does to its record.
LEMMA ExecuteQuantity ==
  ASSUME Typed, RecordsMatchBooks, NEW i \in Instruments, NEW r \in books[i],
         NEW executed \in Nat, executed > Tolerance, executed <= r.remaining,
         NEW fill, Execute(i, r, executed, fill)
  PROVE  /\ r.id \in DOMAIN orders /\ DOMAIN orders' = DOMAIN orders
         /\ orders[r.id].status \in OpenStatus /\ orders[r.id].side = r.side
         /\ \A id \in DOMAIN orders : id # r.id => orders'[id] = orders[id]
         /\ orders'[r.id].instrument = orders[r.id].instrument
         /\ orders'[r.id].side = orders[r.id].side
         /\ orders'[r.id].price = orders[r.id].price
         /\ orders'[r.id].quantity = orders[r.id].quantity
         /\ orders'[r.id].status \in {"filled", "partially_filled"}
         /\ orders'[r.id].filled \in Nat
         /\ orders'[r.id].filled <= orders[r.id].quantity
         /\ orders'[r.id].filled >= orders[r.id].filled + executed
         /\ orders'[r.id].filled - (orders[r.id].filled + executed) <= Tolerance
         /\ orders'[r.id].status \in OpenStatus
              => orders'[r.id].filled = orders[r.id].filled + executed
<1>1. r.remaining \in Nat /\ orders \in [DOMAIN orders -> OrderRecord]
  BY DEF Typed, RestingOrder
<1>2. Agrees(i, r)
  BY DEF RecordsMatchBooks
<1>3. PICK order \in OrderRecord : r.id \in DOMAIN orders /\ order = orders[r.id]
  BY <1>1, <1>2 DEF Agrees
<1>4. order.quantity \in Nat /\ order.filled \in Nat /\ order.quantity = order.filled + r.remaining
  BY <1>2, <1>3 DEF Agrees, OrderRecord
<1>5. orders' = [orders EXCEPT ![r.id] = FilledRecord(order, executed)]
  BY <1>3 DEF Execute, ApplyFillToOrder
<1>6. PICK new : new = FilledRecord(order, executed)
  OBVIOUS
<1>7. /\ new.instrument = order.instrument /\ new.side = order.side
      /\ new.price = order.price /\ new.quantity = order.quantity
  BY <1>3, <1>6, FilledRecordType
<1>8. /\ r.remaining - executed > Tolerance =>
           new.filled = order.filled + executed /\ new.status = "partially_filled"
      /\ r.remaining - executed <= Tolerance =>
           new.filled = order.quantity /\ new.status = "filled"
  BY <1>1, <1>3, <1>4, <1>6, FilledRecordValue
<1>9. /\ new.status \in {"filled", "partially_filled"} /\ new.filled \in Nat
      /\ new.filled <= order.quantity /\ new.filled >= order.filled + executed
      /\ new.filled - (order.filled + executed) <= Tolerance
      /\ new.status \in OpenStatus => new.filled = order.filled + executed
  <2>1. CASE r.remaining - executed > Tolerance
    BY <1>1, <1>4, <1>8, <2>1, ToleranceAssumption
  <2>2. CASE r.remaining - executed <= Tolerance
    BY <1>1, <1>4, <1>8, <2>2, ToleranceAssumption DEF OpenStatus
  <2> QED BY <1>1, <2>1, <2>2, ToleranceAssumption
<1>10. /\ DOMAIN orders' = DOMAIN orders /\ orders'[r.id] = new
       /\ \A id \in DOMAIN orders : id # r.id => orders'[id] = orders[id]
  BY <1>1, <1>3, <1>5, <1>6
<1> QED BY <1>2, <1>3, <1>7, <1>9, <1>10 DEF Agrees

\* A quantity as the position of its owner sees it.
Directed(side, quantity) == IF side = "buy" THEN quantity ELSE 0 - quantity

\* What the orders have bought less what they have sold, for traded quantities t.
NetOf(records, t) ==
  SumFunctionOnSet([id \in DOMAIN records |-> Directed(records[id].side, t[id])],
                   DOMAIN records)

\* t is what was executed of each order: its record may say up to a tolerance
\* more, once it is complete.
Executed(records, t) ==
  \A id \in DOMAIN records :
    /\ t[id] \in Nat
    /\ t[id] <= records[id].filled
    /\ records[id].filled - t[id] <= Tolerance
    /\ records[id].status \in OpenStatus => t[id] = records[id].filled

\* The matching loop has fills of the incoming order that its record lacks.
InFlight ==
  IF pc = "matching" THEN Directed(orders[incoming].side, orders[incoming].quantity - remaining)
                     ELSE 0

(***************************************************************************)
(* The inductive form of Conservation: an exact equation between what the  *)
(* orders traded, what the running submit has traded and what the feed     *)
(* took, for the executed quantities that the records round up.            *)
(***************************************************************************)
LedgerInv ==
  \E t : Executed(orders, t) /\ NetOf(orders, t) + InFlight = external["buy"] - external["sell"]

\* From before to after order y trades q more, and t becomes u.
OneTrades(before, after, y, q, t, u) ==
  /\ IsFiniteSet(DOMAIN before) /\ DOMAIN after = DOMAIN before /\ y \in DOMAIN before
  /\ q \in Nat
  /\ \A id \in DOMAIN before :
       /\ t[id] \in Nat
       /\ after[id].side = before[id].side
       /\ u[id] = IF id = y THEN t[y] + q ELSE t[id]

\* The net moves by the traded quantity in the direction of the order's side.
LEMMA NetMoves ==
  ASSUME NEW before, NEW after, NEW y, NEW q, NEW t, NEW u, OneTrades(before, after, y, q, t, u)
  PROVE  /\ NetOf(after, u) = NetOf(before, t) + Directed(before[y].side, q)
         /\ NetOf(before, t) \in Int
<1>1. PICK f : f = [id \in DOMAIN before |-> Directed(before[id].side, t[id])]
  OBVIOUS
<1>2. PICK g : g = [id \in DOMAIN before |-> Directed(after[id].side, u[id])]
  OBVIOUS
<1>3. /\ \A id \in DOMAIN before : f[id] \in Int /\ g[id] \in Int
      /\ \A id \in DOMAIN before \ {y} : g[id] = f[id]
      /\ g[y] - f[y] = Directed(before[y].side, q)
  BY <1>1, <1>2 DEF Directed, OneTrades
<1>4. SumFunctionOnSet(g, DOMAIN before) = SumFunctionOnSet(f, DOMAIN before) + (g[y] - f[y])
  BY <1>3, SumChange DEF OneTrades
<1>5. SumFunctionOnSet(f, DOMAIN before) \in Int
  BY <1>3, SumInt DEF OneTrades
<1>6. NetOf(after, u) = SumFunctionOnSet(g, DOMAIN before)
  BY <1>2 DEF NetOf, OneTrades
<1>7. NetOf(before, t) = SumFunctionOnSet(f, DOMAIN before)
  BY <1>1 DEF NetOf
<1> QED BY <1>3, <1>4, <1>5, <1>6, <1>7

\* An engine that started empty has finitely many orders.
LEMMA FiniteOrders ==
  ASSUME TypeOK PROVE IsFiniteSet(DOMAIN orders) /\ next_order_id \notin DOMAIN orders
<1>1. next_order_id \in Nat /\ DOMAIN orders = 1..(next_order_id - 1)
  BY DEF TypeOK, Typed, OrderIds
<1>2. PICK n \in Int : n = next_order_id - 1
  BY <1>1
<1>3. IsFiniteSet(1..n)
  BY FS_Interval
<1> QED BY <1>1, <1>2, <1>3

\* A new order has traded nothing.
LEMMA SubmitLedger ==
  ASSUME TypeOK, LedgerInv, NEW request \in Request, Submit(request)
  PROVE  LedgerInv'
<1>1. PICK id : id = next_order_id
  OBVIOUS
<1>2. /\ pc = "idle" /\ id \in OrderIds /\ id \notin DOMAIN orders
      /\ IsFiniteSet(DOMAIN orders) /\ orders \in [DOMAIN orders -> OrderRecord]
      /\ external' = external
  BY <1>1, FiniteOrders DEF Submit, TypeOK, Typed
<1>3. PICK status : /\ orders' = Put(id, NewRecord(request, status))
                    /\ pc' \in {"idle", "matching"}
                    /\ pc' = "matching" => incoming' = id /\ remaining' = request.quantity
  BY <1>1, <1>2 DEF Submit, submitVars
<1>4. /\ DOMAIN orders' = DOMAIN orders \cup {id}
      /\ orders'[id].side = request.side /\ orders'[id].filled = 0
      /\ orders'[id].quantity = request.quantity
      /\ \A x \in DOMAIN orders : orders'[x] = orders[x]
  BY <1>2, <1>3 DEF Put, NewRecord
<1>5. PICK t : /\ Executed(orders, t)
               /\ NetOf(orders, t) + InFlight = external["buy"] - external["sell"]
  BY DEF LedgerInv
<1>6. PICK u : u = [x \in DOMAIN orders' |-> IF x = id THEN 0 ELSE t[x]]
  OBVIOUS
<1>7. Executed(orders', u)
  BY <1>2, <1>4, <1>5, <1>6, ToleranceAssumption DEF Executed
<1>8. PICK f : f = [x \in DOMAIN orders |-> Directed(orders[x].side, t[x])]
  OBVIOUS
<1>9. PICK g : g = [x \in DOMAIN orders' |-> Directed(orders'[x].side, u[x])]
  OBVIOUS
<1>10. /\ \A x \in DOMAIN orders : f[x] \in Int /\ g[x] = f[x]
       /\ g[id] = 0
  <2>1. ASSUME NEW x \in DOMAIN orders PROVE f[x] \in Int /\ g[x] = f[x]
    <3>1. t[x] \in Nat /\ u[x] = t[x] /\ x \in DOMAIN orders' /\ orders'[x] = orders[x]
      BY <1>2, <1>4, <1>5, <1>6 DEF Executed
    <3> QED BY <1>8, <1>9, <3>1 DEF Directed
  <2>2. g[id] = 0
    <3>1. id \in DOMAIN orders' /\ u[id] = 0
      BY <1>4, <1>6
    <3>2. \A side : Directed(side, 0) = 0
      BY DEF Directed
    <3> QED BY <1>9, <3>1, <3>2
  <2> QED BY <2>1, <2>2
<1>11. /\ SumFunctionOnSet(g, DOMAIN orders) = SumFunctionOnSet(f, DOMAIN orders)
       /\ SumFunctionOnSet(f, DOMAIN orders) \in Int
  BY <1>2, <1>10, SumEqual, SumInt
<1>12. SumFunctionOnSet(g, DOMAIN orders \cup {id}) = g[id] + SumFunctionOnSet(g, DOMAIN orders)
  <2>1. \A x \in DOMAIN orders \cup {id} : g[x] \in Int
    BY <1>10
  <2> QED BY <1>2, <2>1, SumAdd
<1>13. NetOf(orders', u) = NetOf(orders, t) /\ NetOf(orders, t) \in Int
  BY <1>4, <1>8, <1>9, <1>10, <1>11, <1>12 DEF NetOf
<1>14. InFlight = 0 /\ InFlight' = 0
  BY <1>2, <1>3, <1>4 DEF InFlight, Directed, Request
<1> QED BY <1>2, <1>5, <1>7, <1>13, <1>14 DEF LedgerInv

\* Two sides of one trade: the resting order gains what the incoming one lacks.
LEMMA MatchLedger ==
  ASSUME TypeOK, Consistent, LedgerInv, Match
  PROVE  LedgerInv'
<1> DEFINE order == orders[incoming]
<1>1. Typed /\ RecordsMatchBooks /\ SubmitInProgress
  BY DEF Consistent
<1>2. /\ incoming \in DOMAIN orders /\ order \in OrderRecord /\ remaining \in Nat
      /\ incoming' = incoming /\ pc = "matching" /\ pc' = "matching" /\ external' = external
      /\ order.instrument \in Instruments /\ order.side \in Sides /\ order.quantity \in Nat
  <2>1. /\ incoming \in DOMAIN orders /\ order \in OrderRecord /\ remaining \in Nat
        /\ incoming' = incoming /\ pc = "matching" /\ pc' = "matching" /\ external' = external
    BY <1>1 DEF Match, Typed
  <2> QED BY <2>1 DEF OrderRecord
<1>3. PICK r \in books[order.instrument] :
        LET executed == Smaller(remaining, r.remaining)
        IN  /\ r.side = Opposite(order.side)
            /\ AcceptsFill(r, executed)
            /\ Execute(order.instrument, r, executed,
                       MakeFill(incoming, order.side, r.price, executed))
            /\ remaining' = Less(remaining, executed)
  BY DEF Match, BestOrders
<1>4. PICK executed, fill : /\ executed = Smaller(remaining, r.remaining)
                            /\ fill = MakeFill(incoming, order.side, r.price, executed)
  OBVIOUS
<1>5. r.remaining \in Nat
  BY <1>1, <1>2 DEF Typed, RestingOrder
<1>6. /\ executed \in Nat /\ executed <= r.remaining /\ executed > Tolerance
      /\ remaining' = remaining - executed
  BY <1>2, <1>3, <1>4, <1>5 DEF Smaller, AcceptsFill, Less
<1>7. Execute(order.instrument, r, executed, fill)
  BY <1>3, <1>4
<1>8. /\ r.id \in DOMAIN orders /\ DOMAIN orders' = DOMAIN orders
      /\ orders[r.id].status \in OpenStatus /\ orders[r.id].side = r.side
      /\ \A id \in DOMAIN orders : id # r.id => orders'[id] = orders[id]
      /\ orders'[r.id].side = orders[r.id].side
      /\ orders'[r.id].filled \in Nat
      /\ orders'[r.id].filled >= orders[r.id].filled + executed
      /\ orders'[r.id].filled - (orders[r.id].filled + executed) <= Tolerance
      /\ orders'[r.id].status \in OpenStatus
           => orders'[r.id].filled = orders[r.id].filled + executed
  BY <1>1, <1>2, <1>6, <1>7, ExecuteQuantity
<1>9. PICK t : /\ Executed(orders, t)
               /\ NetOf(orders, t) + InFlight = external["buy"] - external["sell"]
  BY DEF LedgerInv
<1>10. PICK u : u = [id \in DOMAIN orders |-> IF id = r.id THEN t[r.id] + executed ELSE t[id]]
  OBVIOUS
<1>11. Executed(orders', u)
  <2>1. t[r.id] = orders[r.id].filled /\ t[r.id] \in Nat
    BY <1>8, <1>9 DEF Executed
  <2>2. ASSUME NEW id \in DOMAIN orders'
        PROVE  /\ u[id] \in Nat /\ u[id] <= orders'[id].filled
               /\ orders'[id].filled - u[id] <= Tolerance
               /\ orders'[id].status \in OpenStatus => u[id] = orders'[id].filled
    <3>1. CASE id = r.id
      BY <1>6, <1>8, <1>10, <2>1, <3>1
    <3>2. CASE id # r.id
      BY <1>8, <1>9, <1>10, <3>2 DEF Executed
    <3> QED BY <3>1, <3>2
  <2> QED BY <2>2 DEF Executed
<1>12. /\ NetOf(orders', u) = NetOf(orders, t) + Directed(r.side, executed)
       /\ NetOf(orders, t) \in Int
  <2>1. IsFiniteSet(DOMAIN orders)
    BY FiniteOrders
  <2>2. /\ \A id \in DOMAIN orders : t[id] \in Nat
        /\ \A id \in DOMAIN orders : orders'[id].side = orders[id].side
    BY <1>8, <1>9 DEF Executed
  <2>3. \A id \in DOMAIN orders : u[id] = IF id = r.id THEN t[r.id] + executed ELSE t[id]
    BY <1>10
  <2>4. OneTrades(orders, orders', r.id, executed, t, u)
    BY <1>6, <1>8, <2>1, <2>2, <2>3 DEF OneTrades
  <2> QED BY <1>8, <2>4, NetMoves
<1>13. InFlight' = InFlight - Directed(r.side, executed) /\ InFlight \in Int
  <2>1. orders'[incoming] = order
    <3>1. r.id # incoming
      BY <1>1, <1>2 DEF SubmitInProgress
    <3> QED BY <1>2, <1>8, <3>1
  <2> QED BY <1>2, <1>3, <1>6, <2>1 DEF InFlight, Directed, Opposite, Sides
<1>14. Directed(r.side, executed) \in Int
  BY <1>6 DEF Directed
<1> QED BY <1>2, <1>9, <1>11, <1>12, <1>13, <1>14 DEF LedgerInv

\* The end of submit moves what was in flight into the record.
LEMMA FinishSubmitLedger ==
  ASSUME TypeOK, Consistent, LedgerInv, FinishSubmit
  PROVE  LedgerInv'
<1> DEFINE order == orders[incoming]
           filled == Less(order.quantity, remaining)
           final == FinalRecord(order, filled)
<1>1. Typed /\ SubmitInProgress
  BY DEF Consistent
<1>2. /\ pc = "matching" /\ pc' = "idle" /\ incoming \in DOMAIN orders
      /\ orders \in [DOMAIN orders -> OrderRecord] /\ order \in OrderRecord
      /\ order.quantity \in Nat /\ remaining \in Nat /\ order.price \in Nat
      /\ order.instrument \in Instruments /\ external' = external
  <2>1. /\ pc = "matching" /\ pc' = "idle" /\ incoming \in DOMAIN orders /\ remaining \in Nat
        /\ orders \in [DOMAIN orders -> OrderRecord] /\ order \in OrderRecord
        /\ external' = external
    BY <1>1 DEF FinishSubmit, Typed
  <2> QED BY <2>1 DEF OrderRecord
<1>3. /\ order.status = "acknowledged" /\ order.filled = 0 /\ order.price > 0
      /\ order.quantity > 0 /\ remaining <= order.quantity
      /\ \A j \in Instruments : \A x \in books[j] : x.id # incoming
  BY <1>1, <1>2 DEF SubmitInProgress
<1>4. filled \in Nat /\ filled = order.quantity - remaining
  BY <1>2, <1>3 DEF Less
<1>5. remaining > Tolerance =>
        IsRequestCompatible(books[order.instrument], incoming, order.price, order.quantity, filled)
  BY <1>2, <1>3, <1>4, ToleranceAssumption DEF IsRequestCompatible
<1>6. orders' = [orders EXCEPT ![incoming] = final]
  BY <1>5 DEF FinishSubmit
<1>7. /\ DOMAIN orders' = DOMAIN orders /\ orders'[incoming] = final
      /\ \A id \in DOMAIN orders : id # incoming => orders'[id] = orders[id]
  BY <1>2, <1>6
<1>8. /\ final.side = order.side /\ final.filled \in Nat /\ filled <= final.filled
      /\ final.filled - filled <= Tolerance
      /\ final.status \in OpenStatus => final.filled = filled
  <2>1. order.quantity - filled = remaining
    BY <1>2, <1>4
  <2>2. CASE remaining > Tolerance
    <3>1. final = [order EXCEPT !.filled = filled,
                                !.status = IF filled > Tolerance
                                           THEN "partially_filled" ELSE order.status]
      BY <1>2, <2>1, <2>2, ToleranceAssumption DEF FinalRecord
    <3>2. final.filled = filled /\ final.side = order.side
      BY <1>2, <3>1 DEF OrderRecord
    <3> QED BY <1>4, <3>2, ToleranceAssumption
  <2>3. CASE ~(remaining > Tolerance)
    <3>1. final = [order EXCEPT !.filled = order.quantity, !.status = "filled"]
      BY <1>2, <2>1, <2>3, ToleranceAssumption DEF FinalRecord
    <3>2. final.filled = order.quantity /\ final.side = order.side /\ final.status = "filled"
      BY <1>2, <3>1 DEF OrderRecord
    <3> QED BY <1>2, <1>3, <1>4, <2>3, <3>2, ToleranceAssumption DEF OpenStatus
  <2> QED BY <2>2, <2>3
<1> HIDE DEF final, filled
<1>9. PICK t : /\ Executed(orders, t)
               /\ NetOf(orders, t) + InFlight = external["buy"] - external["sell"]
  BY DEF LedgerInv
<1>10. t[incoming] = 0
  BY <1>2, <1>3, <1>9 DEF Executed, OpenStatus
<1>11. PICK u : u = [id \in DOMAIN orders |-> IF id = incoming THEN t[incoming] + filled ELSE t[id]]
  OBVIOUS
<1>12. Executed(orders', u)
  <2>1. ASSUME NEW id \in DOMAIN orders'
        PROVE  /\ u[id] \in Nat /\ u[id] <= orders'[id].filled
               /\ orders'[id].filled - u[id] <= Tolerance
               /\ orders'[id].status \in OpenStatus => u[id] = orders'[id].filled
    <3>1. CASE id = incoming
      BY <1>2, <1>4, <1>7, <1>8, <1>10, <1>11, <3>1
    <3>2. CASE id # incoming
      BY <1>7, <1>9, <1>11, <3>2 DEF Executed
    <3> QED BY <3>1, <3>2
  <2> QED BY <2>1 DEF Executed
<1>13. /\ NetOf(orders', u) = NetOf(orders, t) + Directed(order.side, filled)
       /\ NetOf(orders, t) \in Int
  <2>1. IsFiniteSet(DOMAIN orders)
    BY FiniteOrders
  <2>2. /\ \A id \in DOMAIN orders : t[id] \in Nat
        /\ \A id \in DOMAIN orders : orders'[id].side = orders[id].side
    BY <1>2, <1>7, <1>8, <1>9 DEF Executed
  <2>3. \A id \in DOMAIN orders : u[id] = IF id = incoming THEN t[incoming] + filled ELSE t[id]
    BY <1>11
  <2>4. OneTrades(orders, orders', incoming, filled, t, u)
    BY <1>2, <1>4, <1>7, <2>1, <2>2, <2>3 DEF OneTrades
  <2> QED BY <2>4, NetMoves
<1>14. InFlight = Directed(order.side, filled) /\ InFlight' = 0 /\ InFlight \in Int
  BY <1>2, <1>4 DEF InFlight, Directed
<1> QED BY <1>2, <1>9, <1>12, <1>13, <1>14 DEF LedgerInv

\* A fill from the feed.
LEMMA TakeFromLevelLedger ==
  ASSUME TypeOK, Consistent, LedgerInv, TakeFromLevel
  PROVE  LedgerInv'
<1> DEFINE level == Head(levels)
<1>1. Typed /\ RecordsMatchBooks
  BY DEF Consistent
<1>2. /\ levels \in Seq(WorkLevel) /\ levels # <<>> /\ instrument \in Instruments
      /\ pc = "event" /\ pc' = "event" /\ external \in [Sides -> Nat]
  BY <1>1 DEF TakeFromLevel, Typed, WorkLevel
<1>3. level.quantity \in Nat
  <2>1. level \in WorkLevel
    BY <1>2, HeadTailProperties
  <2> QED BY <2>1 DEF WorkLevel
<1>4. PICK r \in books[instrument] :
        LET executed == Smaller(level.quantity, r.remaining)
        IN  /\ AcceptsFill(r, executed)
            /\ Execute(instrument, r, executed,
                       MakeFill(r.id, r.side, level.price, executed))
            /\ external' = [external EXCEPT ![r.side] = @ + executed]
  BY DEF TakeFromLevel, BestOrders
<1>5. PICK executed, fill : /\ executed = Smaller(level.quantity, r.remaining)
                            /\ fill = MakeFill(r.id, r.side, level.price, executed)
  OBVIOUS
<1>6. r.remaining \in Nat /\ r.side \in Sides
  BY <1>1, <1>2 DEF Typed, RestingOrder
<1>7. executed \in Nat /\ executed <= r.remaining /\ executed > Tolerance
  BY <1>3, <1>4, <1>5, <1>6 DEF Smaller, AcceptsFill
<1>8. /\ Execute(instrument, r, executed, fill)
      /\ external' = [external EXCEPT ![r.side] = @ + executed]
  BY <1>4, <1>5
<1>9. /\ r.id \in DOMAIN orders /\ DOMAIN orders' = DOMAIN orders
      /\ orders[r.id].status \in OpenStatus /\ orders[r.id].side = r.side
      /\ \A id \in DOMAIN orders : id # r.id => orders'[id] = orders[id]
      /\ orders'[r.id].side = orders[r.id].side
      /\ orders'[r.id].filled \in Nat
      /\ orders'[r.id].filled >= orders[r.id].filled + executed
      /\ orders'[r.id].filled - (orders[r.id].filled + executed) <= Tolerance
      /\ orders'[r.id].status \in OpenStatus
           => orders'[r.id].filled = orders[r.id].filled + executed
  BY <1>1, <1>2, <1>7, <1>8, ExecuteQuantity
<1>10. PICK t : /\ Executed(orders, t)
                /\ NetOf(orders, t) + InFlight = external["buy"] - external["sell"]
  BY DEF LedgerInv
<1>11. PICK u : u = [id \in DOMAIN orders |-> IF id = r.id THEN t[r.id] + executed ELSE t[id]]
  OBVIOUS
<1>12. Executed(orders', u)
  <2>1. t[r.id] = orders[r.id].filled /\ t[r.id] \in Nat
    BY <1>9, <1>10 DEF Executed
  <2>2. ASSUME NEW id \in DOMAIN orders'
        PROVE  /\ u[id] \in Nat /\ u[id] <= orders'[id].filled
               /\ orders'[id].filled - u[id] <= Tolerance
               /\ orders'[id].status \in OpenStatus => u[id] = orders'[id].filled
    <3>1. CASE id = r.id
      BY <1>7, <1>9, <1>11, <2>1, <3>1
    <3>2. CASE id # r.id
      BY <1>9, <1>10, <1>11, <3>2 DEF Executed
    <3> QED BY <3>1, <3>2
  <2> QED BY <2>2 DEF Executed
<1>13. /\ NetOf(orders', u) = NetOf(orders, t) + Directed(r.side, executed)
       /\ NetOf(orders, t) \in Int
  <2>1. IsFiniteSet(DOMAIN orders)
    BY FiniteOrders
  <2>2. /\ \A id \in DOMAIN orders : t[id] \in Nat
        /\ \A id \in DOMAIN orders : orders'[id].side = orders[id].side
    BY <1>9, <1>10 DEF Executed
  <2>3. \A id \in DOMAIN orders : u[id] = IF id = r.id THEN t[r.id] + executed ELSE t[id]
    BY <1>11
  <2>4. OneTrades(orders, orders', r.id, executed, t, u)
    BY <1>7, <1>9, <2>1, <2>2, <2>3 DEF OneTrades
  <2> QED BY <1>9, <2>4, NetMoves
<1>14. /\ external'["buy"] - external'["sell"]
            = (external["buy"] - external["sell"]) + Directed(r.side, executed)
       /\ external["buy"] - external["sell"] \in Int /\ Directed(r.side, executed) \in Int
  BY <1>2, <1>6, <1>7, <1>8 DEF Sides, Directed
<1>15. InFlight = 0 /\ InFlight' = 0
  BY <1>2 DEF InFlight
<1> QED BY <1>10, <1>12, <1>13, <1>14, <1>15 DEF LedgerInv

\* A step that trades nothing leaves every order's side and filled quantity.
LEMMA NothingTraded ==
  ASSUME LedgerInv, pc # "matching", pc' # "matching", external' = external,
         DOMAIN orders' = DOMAIN orders,
         \A id \in DOMAIN orders :
           /\ orders'[id].side = orders[id].side
           /\ orders'[id].filled = orders[id].filled
           /\ orders'[id].status \in OpenStatus => orders[id].status \in OpenStatus
  PROVE  LedgerInv'
<1>1. PICK t : /\ Executed(orders, t)
               /\ NetOf(orders, t) + InFlight = external["buy"] - external["sell"]
  BY DEF LedgerInv
<1>2. Executed(orders', t)
  BY <1>1 DEF Executed
<1>3. NetOf(orders', t) = NetOf(orders, t)
  <2>1. [id \in DOMAIN orders' |-> Directed(orders'[id].side, t[id])]
          = [id \in DOMAIN orders |-> Directed(orders[id].side, t[id])]
    OBVIOUS
  <2> QED BY <2>1 DEF NetOf
<1>4. InFlight' = InFlight
  BY DEF InFlight
<1> QED BY <1>1, <1>2, <1>3, <1>4 DEF LedgerInv

\* Cancellations and the steps between fills trade nothing.
LEMMA OtherStepsLedger ==
  ASSUME TypeOK, LedgerInv,
         \/ \E id \in OrderIds : Cancel(id)
         \/ \E event : IsMarketEvent(event) /\ ProcessMarketEvent(event)
         \/ NextLevel
         \/ AppendOrderUpdate
         \/ FinishEvent
  PROVE  LedgerInv'
<1>1. CASE \E id \in OrderIds : Cancel(id)
  <2>1. PICK id \in OrderIds : Cancel(id)
    BY <1>1
  <2>2. /\ pc = "idle" /\ pc' = "idle" /\ external' = external
        /\ \/ orders' = orders
           \/ orders' = [orders EXCEPT ![id].status = "canceled"]
    BY <2>1 DEF Cancel
  <2>3. orders \in [DOMAIN orders -> OrderRecord]
    BY DEF TypeOK, Typed
  <2>4. /\ DOMAIN orders' = DOMAIN orders
        /\ \A x \in DOMAIN orders :
             /\ orders'[x].side = orders[x].side
             /\ orders'[x].filled = orders[x].filled
             /\ orders'[x].status \in OpenStatus => orders[x].status \in OpenStatus
    BY <2>2, <2>3 DEF OrderRecord, OpenStatus
  <2> QED BY <2>2, <2>4, NothingTraded
<1>2. CASE ~\E id \in OrderIds : Cancel(id)
  <2>1. /\ pc # "matching" /\ pc' # "matching" /\ orders' = orders /\ external' = external
    BY <1>2 DEF ProcessMarketEvent, NextLevel, AppendOrderUpdate, FinishEvent
  <2> QED BY <2>1, NothingTraded
<1> QED BY <1>1, <1>2

\* The equation holds of an engine that has just started.
LEMMA InitLedger ==
  ASSUME Init PROVE LedgerInv
<1>1. /\ DOMAIN orders = {} /\ pc = "idle" /\ external["buy"] = 0 /\ external["sell"] = 0
  BY DEF Init, Sides
<1>2. Executed(orders, orders)
  BY <1>1 DEF Executed
<1>3. NetOf(orders, orders) = 0
  BY <1>1, SumEmpty DEF NetOf
<1> QED BY <1>1, <1>2, <1>3 DEF LedgerInv, InFlight

\* From the executed quantities to the rounded ones that the records hold.
LEMMA LedgerConserves ==
  ASSUME TypeOK, LedgerInv
  PROVE  Conservation
<1> SUFFICES ASSUME pc = "idle"
             PROVE  (FilledOn("buy") - external["buy"]) - (FilledOn("sell") - external["sell"])
                      \in (-(Tolerance * Cardinality(DOMAIN orders)))
                            ..(Tolerance * Cardinality(DOMAIN orders))
  BY DEF Conservation
<1>1. PICK t : /\ Executed(orders, t)
               /\ NetOf(orders, t) + InFlight = external["buy"] - external["sell"]
  BY DEF LedgerInv
<1>2. PICK D : D = DOMAIN orders
  OBVIOUS
<1>3. /\ IsFiniteSet(D) /\ external \in [Sides -> Nat]
      /\ \A id \in D : orders[id].filled \in Nat /\ orders[id].side \in Sides
  BY <1>2, FiniteOrders DEF TypeOK, Typed, OrderRecord
<1>4. PICK f : f = [id \in D |-> orders[id].filled]
  OBVIOUS
<1>5. PICK B, S : /\ B = {id \in D : orders[id].side = "buy"}
                  /\ S = {id \in D : orders[id].side = "sell"}
  OBVIOUS
<1>6. PICK b : b = [id \in D |-> IF id \in B THEN orders[id].filled ELSE 0]
  OBVIOUS
<1>7. PICK s : s = [id \in D |-> IF id \in S THEN orders[id].filled ELSE 0]
  OBVIOUS
<1>8. PICK net : net = [id \in D |-> Directed(orders[id].side, t[id])]
  OBVIOUS
<1>9. PICK over : over = [id \in D |-> Directed(orders[id].side, orders[id].filled - t[id])]
  OBVIOUS
<1>10. PICK all : all = [id \in D |-> b[id] - s[id]]
  OBVIOUS
<1>11. /\ FilledOn("buy") = SumFunctionOnSet(b, D)
       /\ FilledOn("sell") = SumFunctionOnSet(s, D)
  <2>1. FilledOn("buy") = SumFunctionOnSet(f, B) /\ FilledOn("sell") = SumFunctionOnSet(f, S)
    BY <1>2, <1>4, <1>5 DEF FilledOn
  <2>2. SumFunctionOnSet(b, D) = SumFunctionOnSet(f, B)
    <3>1. /\ B \in SUBSET D /\ \A x \in B : f[x] \in Int /\ b[x] = f[x]
          /\ \A x \in D \ B : b[x] = 0
      BY <1>3, <1>4, <1>5, <1>6
    <3> QED BY <1>3, <3>1, SumRestrict
  <2>3. SumFunctionOnSet(s, D) = SumFunctionOnSet(f, S)
    <3>1. /\ S \in SUBSET D /\ \A x \in S : f[x] \in Int /\ s[x] = f[x]
          /\ \A x \in D \ S : s[x] = 0
      BY <1>3, <1>4, <1>5, <1>7
    <3> QED BY <1>3, <3>1, SumRestrict
  <2> QED BY <2>1, <2>2, <2>3
<1>12. \A id \in D : /\ b[id] \in Int /\ s[id] \in Int /\ b[id] = s[id] + all[id]
                     /\ all[id] \in Int /\ net[id] \in Int /\ over[id] \in Int
                     /\ all[id] = net[id] + over[id]
                     /\ over[id] \in (-Tolerance)..Tolerance
  <2> SUFFICES ASSUME NEW id \in D
               PROVE  /\ b[id] \in Int /\ s[id] \in Int /\ b[id] = s[id] + all[id]
                      /\ all[id] \in Int /\ net[id] \in Int /\ over[id] \in Int
                      /\ all[id] = net[id] + over[id]
                      /\ over[id] \in (-Tolerance)..Tolerance
    OBVIOUS
  <2>1. PICK done \in Nat, x \in Nat : /\ done = orders[id].filled /\ x = t[id]
                                       /\ x <= done /\ done - x <= Tolerance
    BY <1>1, <1>2, <1>3 DEF Executed
  <2>2. CASE orders[id].side = "buy"
    <3>1. b[id] = done /\ s[id] = 0 /\ net[id] = x /\ over[id] = done - x
      BY <1>5, <1>6, <1>7, <1>8, <1>9, <2>1, <2>2 DEF Directed
    <3> QED BY <1>10, <2>1, <3>1, ToleranceAssumption
  <2>3. CASE orders[id].side = "sell"
    <3>1. b[id] = 0 /\ s[id] = done /\ net[id] = 0 - x /\ over[id] = 0 - (done - x)
      BY <1>5, <1>6, <1>7, <1>8, <1>9, <2>1, <2>3 DEF Directed
    <3> QED BY <1>10, <2>1, <3>1, ToleranceAssumption
  <2> QED BY <1>3, <2>2, <2>3 DEF Sides
<1>13. SumFunctionOnSet(b, D) = SumFunctionOnSet(s, D) + SumFunctionOnSet(all, D)
  BY <1>3, <1>12, SumOfSums
<1>14. SumFunctionOnSet(all, D) = SumFunctionOnSet(net, D) + SumFunctionOnSet(over, D)
  BY <1>3, <1>12, SumOfSums
<1>15. /\ SumFunctionOnSet(s, D) \in Int /\ SumFunctionOnSet(net, D) \in Int
       /\ SumFunctionOnSet(over, D) \in Int
  BY <1>3, <1>12, SumInt
<1>16. SumFunctionOnSet(over, D)
         \in (-(Tolerance * Cardinality(D)))..(Tolerance * Cardinality(D))
  BY <1>3, <1>12, SumWithin, ToleranceAssumption
<1>17. SumFunctionOnSet(net, D) = external["buy"] - external["sell"]
  <2>1. InFlight = 0 /\ NetOf(orders, t) = SumFunctionOnSet(net, D)
    BY <1>2, <1>8 DEF InFlight, NetOf
  <2> QED BY <1>1, <1>15, <2>1
<1>18. external["buy"] \in Int /\ external["sell"] \in Int
  BY <1>3 DEF Sides
<1>19. (FilledOn("buy") - external["buy"]) - (FilledOn("sell") - external["sell"])
         = SumFunctionOnSet(over, D)
  BY <1>11, <1>13, <1>14, <1>15, <1>17, <1>18
<1> QED BY <1>2, <1>16, <1>19

(***************************************************************************)
(* Whenever the engine is idle, its orders have bought as much as they     *)
(* have sold, apart from what the feed took and one tolerance per order:   *)
(* no sequence of submits, partial matches, market events and cancels      *)
(* makes submit and apply_fill_to_order credit a quantity twice or lose it.*)
(***************************************************************************)
THEOREM ConservationHolds == Spec => []Conservation
<1>1. Init => LedgerInv
  BY InitLedger
<1>2. IInv /\ LedgerInv /\ [Next]_vars => LedgerInv'
  <2> SUFFICES ASSUME TypeOK, Consistent, LedgerInv, [Next]_vars PROVE LedgerInv'
    BY DEF IInv
  <2>1. CASE \E request \in Requests : Submit(request)
    <3>1. \E request \in Request : Submit(request)
      BY <2>1, InputAssumption
    <3> QED BY <3>1, SubmitLedger
  <2>2. CASE \E event \in MarketEvents : ProcessMarketEvent(event)
    <3>1. \E event : IsMarketEvent(event) /\ ProcessMarketEvent(event)
      BY <2>2, InputAssumption
    <3> QED BY <3>1, OtherStepsLedger
  <2>3. CASE \E id \in 1..MaxOrders : Cancel(id)
    <3>1. \E id \in OrderIds : Cancel(id)
      BY <2>3 DEF OrderIds
    <3> QED BY <3>1, OtherStepsLedger
  <2>4. CASE Step
    BY <2>4, MatchLedger, FinishSubmitLedger, TakeFromLevelLedger, OtherStepsLedger DEF Step
  <2>5. CASE UNCHANGED vars
    BY <2>5 DEF vars, LedgerInv, InFlight
  <2> QED BY <2>1, <2>2, <2>3, <2>4, <2>5 DEF Next
<1>3. IInv /\ LedgerInv => Conservation
  BY LedgerConserves DEF IInv
<1> QED BY IInvHolds, <1>1, <1>2, <1>3, PTL DEF Spec

----------------------------------------------------------------------------
(* Results and their caller.  The runtime stores a row for every order and *)
(* books every fill of a result; these lemmas say what it can rely on.     *)

\* The result of the running call is about known orders.
ResultOfOrders ==
  \A n \in DOMAIN result.updates : result.updates[n].order_id \in DOMAIN orders

\* A step of a call adds no order and reports only on orders there are.
LEMMA StepResult ==
  ASSUME Typed, ResultOfOrders, Step
  PROVE  /\ Typed' /\ ResultOfOrders'
         /\ DOMAIN orders' = DOMAIN orders
         /\ result'.order_id = result.order_id
<1>1. Typed'
  BY MatchType, FinishSubmitType, TakeFromLevelType, NextLevelType, AppendOrderUpdateType,
     FinishEventType DEF Step
<1>2. DOMAIN orders' = DOMAIN orders
  BY OnlySubmitAdds
<1>3. /\ result.updates \in Seq(OrderUpdate)
      /\ result \in [order_id: Nat, updates: Seq(OrderUpdate), fills: Seq(Fill)]
  BY DEF Typed
<1>4. ASSUME NEW fill, result' = [result EXCEPT !.fills = Append(@, fill)]
      PROVE  result'.updates = result.updates /\ result'.order_id = result.order_id
  BY <1>3, <1>4
<1>5. ASSUME NEW id \in DOMAIN orders, NEW status, NEW filled,
             result' = [result EXCEPT !.updates = Append(@, MakeUpdate(id, status, filled))]
      PROVE  result'.order_id = result.order_id /\ ResultOfOrders'
  <2>1. PICK update : update = MakeUpdate(id, status, filled)
    OBVIOUS
  <2>2. /\ result'.updates = Append(result.updates, update) /\ update.order_id = id
        /\ result'.order_id = result.order_id
    BY <1>3, <1>5, <2>1 DEF MakeUpdate
  <2>3. \A n \in DOMAIN result'.updates :
          \/ n \in DOMAIN result.updates /\ result'.updates[n] = result.updates[n]
          \/ result'.updates[n] = update
    BY <1>3, <2>2
  <2> QED BY <1>2, <2>2, <2>3 DEF ResultOfOrders
<1>6. CASE Match
  <2>1. \E fill : result' = [result EXCEPT !.fills = Append(@, fill)]
    BY <1>6 DEF Match, Execute
  <2> QED BY <1>1, <1>2, <1>4, <2>1 DEF ResultOfOrders
<1>7. CASE TakeFromLevel
  <2>1. \E fill : result' = [result EXCEPT !.fills = Append(@, fill)]
    BY <1>7 DEF TakeFromLevel, Execute
  <2> QED BY <1>1, <1>2, <1>4, <2>1 DEF ResultOfOrders
<1>8. CASE FinishSubmit
  <2>1. incoming \in DOMAIN orders
    BY <1>8 DEF FinishSubmit, Typed
  <2>2. \/ result' = result
        \/ \E status, filled : result' = [result EXCEPT !.updates =
                                            Append(@, MakeUpdate(incoming, status, filled))]
    BY <1>8, Zenon DEF FinishSubmit
  <2> QED BY <1>1, <1>2, <1>5, <2>1, <2>2 DEF ResultOfOrders
<1>9. CASE AppendOrderUpdate
  <2>1. \/ result' = result
        \/ \E id \in DOMAIN orders : \E status, filled :
             result' = [result EXCEPT !.updates = Append(@, MakeUpdate(id, status, filled))]
    BY <1>9, Zenon DEF AppendOrderUpdate
  <2> QED BY <1>1, <1>2, <1>5, <2>1 DEF ResultOfOrders
<1>10. CASE NextLevel \/ FinishEvent
  <2>1. result' = result
    BY <1>10 DEF NextLevel, FinishEvent
  <2> QED BY <1>1, <1>2, <2>1 DEF ResultOfOrders
<1> QED BY <1>6, <1>7, <1>8, <1>9, <1>10 DEF Step

\* The sum of the fills of an order from position n on.
FillsFrom(fills, n, id) ==
  SumFunctionOnSet([m \in DOMAIN fills |-> fills[m].quantity],
                   {m \in DOMAIN fills : m >= n /\ fills[m].order_id = id})

\* What one fill contributes to the sum of an order.
Part(fill, id) == IF fill.order_id = id THEN fill.quantity ELSE 0

\* The sum of fills is a quantity.
LEMMA FillsFromNat ==
  ASSUME NEW fills \in Seq(Fill), NEW n \in Nat, NEW id
  PROVE  FillsFrom(fills, n, id) \in Nat
<1>1. PICK f, S : /\ f = [m \in DOMAIN fills |-> fills[m].quantity]
                  /\ S = {m \in DOMAIN fills : m >= n /\ fills[m].order_id = id}
  OBVIOUS
<1>2. IsFiniteSet(DOMAIN fills) /\ \A m \in DOMAIN fills : fills[m] \in Fill
  BY FS_Interval, ElementOfSeq, LenProperties
<1>3. IsFiniteSet(S) /\ \A m \in S : f[m] \in Nat
  BY <1>1, <1>2, FS_Subset DEF Fill
<1> QED BY <1>1, <1>3, SumNat DEF FillsFrom

\* An empty list of fills adds up to nothing.
LEMMA FillsFromEmpty == ASSUME NEW n, NEW id PROVE FillsFrom(<<>>, n, id) = 0
<1>1. {m \in DOMAIN <<>> : m >= n /\ <<>>[m].order_id = id} = {}
  OBVIOUS
<1> QED BY <1>1, SumEmpty DEF FillsFrom

\* One more fill adds its quantity to the sum of its order.
LEMMA FillsFromAppend ==
  ASSUME NEW fills \in Seq(Fill), NEW fill \in Fill, NEW n \in Nat, n <= Len(fills) + 1, NEW id
  PROVE  FillsFrom(Append(fills, fill), n, id) = FillsFrom(fills, n, id) + Part(fill, id)
<1>1. PICK last \in Nat : last = Len(fills) + 1
  BY LenProperties
<1>2. PICK all : last = Len(fills) + 1 /\ all = Append(fills, fill)
  BY <1>1
<1>3. /\ DOMAIN fills = 1..(last - 1) /\ DOMAIN all = 1..last /\ all[last] = fill
      /\ \A m \in DOMAIN fills : all[m] = fills[m]
  BY <1>2
<1>4. PICK f, g : /\ f = [m \in DOMAIN fills |-> fills[m].quantity]
                  /\ g = [m \in DOMAIN all |-> all[m].quantity]
  OBVIOUS
<1>5. PICK S, T : /\ S = {m \in DOMAIN fills : m >= n /\ fills[m].order_id = id}
                  /\ T = {m \in DOMAIN all : m >= n /\ all[m].order_id = id}
  OBVIOUS
<1>6. IsFiniteSet(DOMAIN fills) /\ \A m \in DOMAIN fills : fills[m] \in Fill
  BY FS_Interval, ElementOfSeq, LenProperties
<1>7. IsFiniteSet(S)
  BY <1>5, <1>6, FS_Subset
<1>8. \A m \in S : f[m] \in Int /\ g[m] = f[m]
  BY <1>2, <1>3, <1>4, <1>5, <1>6 DEF Fill
<1>9. SumFunctionOnSet(g, S) = SumFunctionOnSet(f, S) /\ SumFunctionOnSet(f, S) \in Int
  BY <1>7, <1>8, SumEqual, SumInt
<1>10. /\ FillsFrom(fills, n, id) = SumFunctionOnSet(f, S)
       /\ FillsFrom(Append(fills, fill), n, id) = SumFunctionOnSet(g, T)
  BY <1>2, <1>4, <1>5 DEF FillsFrom
<1>11. CASE fill.order_id = id
  <2>1. T = S \cup {last} /\ last \notin S
    BY <1>2, <1>3, <1>5, <1>11
  <2>2. g[last] = fill.quantity /\ fill.quantity \in Int
    BY <1>2, <1>3, <1>4 DEF Fill
  <2>3. \A m \in S \cup {last} : g[m] \in Int
    BY <1>8, <2>2
  <2>4. SumFunctionOnSet(g, S \cup {last}) = g[last] + SumFunctionOnSet(g, S)
    BY <1>7, <2>1, <2>3, SumAdd
  <2> QED BY <1>9, <1>11, <1>10, <2>1, <2>2, <2>4 DEF Part
<1>12. CASE fill.order_id # id
  <2>1. T = S
    BY <1>2, <1>3, <1>5, <1>12
  <2> QED BY <1>9, <1>12, <1>10, <2>1 DEF Part
<1> QED BY <1>11, <1>12

\* Leaving out the first fill takes its quantity from the sum of its order.
LEMMA FillsFromNext ==
  ASSUME NEW fills \in Seq(Fill), NEW n \in DOMAIN fills, NEW id
  PROVE  FillsFrom(fills, n, id) = FillsFrom(fills, n + 1, id) + Part(fills[n], id)
<1>1. PICK f : f = [m \in DOMAIN fills |-> fills[m].quantity]
  OBVIOUS
<1>2. PICK S, T : /\ S = {m \in DOMAIN fills : m >= n /\ fills[m].order_id = id}
                  /\ T = {m \in DOMAIN fills : m >= n + 1 /\ fills[m].order_id = id}
  OBVIOUS
<1>3. /\ IsFiniteSet(DOMAIN fills) /\ \A m \in DOMAIN fills : fills[m] \in Fill
      /\ \A m \in DOMAIN fills : m \in Nat
  <2>1. Len(fills) \in Nat /\ DOMAIN fills = 1..Len(fills)
    BY LenProperties
  <2>2. IsFiniteSet(1..Len(fills))
    BY <2>1, FS_Interval
  <2> QED BY <2>1, <2>2, ElementOfSeq
<1>4. IsFiniteSet(T) /\ \A m \in DOMAIN fills : f[m] \in Int
  BY <1>1, <1>2, <1>3, FS_Subset DEF Fill
<1>5. SumFunctionOnSet(f, T) \in Int
  BY <1>2, <1>4, SumInt
<1>6. /\ FillsFrom(fills, n, id) = SumFunctionOnSet(f, S)
      /\ FillsFrom(fills, n + 1, id) = SumFunctionOnSet(f, T)
  BY <1>1, <1>2 DEF FillsFrom
<1>7. CASE fills[n].order_id = id
  <2>1. S = T \cup {n} /\ n \notin T
    BY <1>2, <1>3, <1>7
  <2>2. \A m \in T \cup {n} : f[m] \in Int
    BY <1>2, <1>4
  <2>3. SumFunctionOnSet(f, T \cup {n}) = f[n] + SumFunctionOnSet(f, T)
    BY <1>4, <2>1, <2>2, SumAdd
  <2>4. f[n] = fills[n].quantity /\ f[n] \in Int
    BY <1>1, <1>4
  <2> QED BY <1>5, <1>7, <1>6, <2>1, <2>3, <2>4 DEF Part
<1>8. CASE fills[n].order_id # id
  <2>1. S = T
    BY <1>2, <1>3, <1>8
  <2> QED BY <1>5, <1>8, <1>6, <2>1 DEF Part
<1> QED BY <1>7, <1>8

\* An order without fills has no sum.
LEMMA FillsFromNone ==
  ASSUME NEW fills, NEW n, NEW id, \A m \in DOMAIN fills : fills[m].order_id # id
  PROVE  FillsFrom(fills, n, id) = 0
<1>1. {m \in DOMAIN fills : m >= n /\ fills[m].order_id = id} = {}
  OBVIOUS
<1> QED BY <1>1, SumEmpty DEF FillsFrom

\* The record of y takes a fill of q, no other record changes.
RecordTakes(y, q) ==
  /\ y \in DOMAIN orders /\ DOMAIN orders' = DOMAIN orders
  /\ \A id \in DOMAIN orders : id # y => orders'[id] = orders[id]
  /\ orders[y].status \in OpenStatus
  /\ orders'[y].instrument = orders[y].instrument /\ orders'[y].side = orders[y].side
  /\ orders'[y].price = orders[y].price /\ orders'[y].quantity = orders[y].quantity
  /\ orders'[y].filled \in Nat
  /\ orders[y].filled + q <= orders'[y].filled
  /\ orders'[y].filled <= orders[y].quantity

\* One iteration of the matching loop, as its caller sees it.
MatchEffect(y, q, fill) ==
  /\ pc = "matching" /\ pc' = "matching" /\ incoming' = incoming /\ incoming \in DOMAIN orders
  /\ RecordTakes(y, q) /\ y # incoming /\ q > Tolerance
  /\ q <= remaining /\ remaining' = remaining - q
  /\ fill.order_id = incoming /\ fill.quantity = q
  /\ result' = [result EXCEPT !.fills = Append(@, fill)]

\* An iteration of the matching loop takes a quantity from one maker and reports it.
LEMMA MatchHasEffect ==
  ASSUME Consistent, Match
  PROVE  \E y \in DOMAIN orders, q \in Nat, fill \in Fill : MatchEffect(y, q, fill)
<1> DEFINE order == orders[incoming]
<1>1. Typed /\ RecordsMatchBooks /\ SubmitInProgress
  BY DEF Consistent
<1>2. /\ incoming \in DOMAIN orders /\ incoming \in OrderIds /\ order \in OrderRecord
      /\ remaining \in Nat /\ incoming' = incoming /\ pc = "matching" /\ pc' = "matching"
      /\ order.instrument \in Instruments /\ order.side \in Sides
  <2>1. /\ incoming \in DOMAIN orders /\ incoming \in OrderIds /\ order \in OrderRecord
        /\ remaining \in Nat /\ incoming' = incoming /\ pc = "matching" /\ pc' = "matching"
    BY <1>1 DEF Match, Typed
  <2> QED BY <2>1 DEF OrderRecord
<1>3. PICK r \in books[order.instrument] :
        LET executed == Smaller(remaining, r.remaining)
        IN  /\ AcceptsFill(r, executed)
            /\ Execute(order.instrument, r, executed,
                       MakeFill(incoming, order.side, r.price, executed))
            /\ remaining' = Less(remaining, executed)
  BY DEF Match, BestOrders
<1>4. PICK q, fill : /\ q = Smaller(remaining, r.remaining)
                     /\ fill = MakeFill(incoming, order.side, r.price, q)
  OBVIOUS
<1>5. r.remaining \in Nat /\ r.price \in Nat
  BY <1>1, <1>2 DEF Typed, RestingOrder
<1>6. /\ q \in Nat /\ q <= r.remaining /\ q <= remaining /\ q > Tolerance
      /\ remaining' = remaining - q
  BY <1>2, <1>3, <1>4, <1>5 DEF Smaller, AcceptsFill, Less
<1>7. Execute(order.instrument, r, q, fill)
  BY <1>3, <1>4
<1>8. fill \in Fill /\ fill.order_id = incoming /\ fill.quantity = q
  BY <1>1, <1>2, <1>4, <1>5, <1>6 DEF MakeFill, Fill, Typed
<1>9. r.id \in DOMAIN orders /\ RecordTakes(r.id, q)
  BY <1>1, <1>2, <1>6, <1>7, ExecuteQuantity DEF RecordTakes
<1>10. r.id # incoming
  BY <1>1, <1>2 DEF SubmitInProgress
<1>11. MatchEffect(r.id, q, fill)
  BY <1>2, <1>6, <1>7, <1>8, <1>9, <1>10 DEF MatchEffect, Execute
<1> QED BY <1>6, <1>8, <1>9, <1>11

\* One fill of a market event, as its caller sees it.
TakeEffect(y, q, fill) ==
  /\ pc = "event" /\ pc' = "event" /\ levels # <<>>
  /\ RecordTakes(y, q) /\ q > Tolerance
  /\ fill.order_id = y /\ fill.quantity = q
  /\ result' = [result EXCEPT !.fills = Append(@, fill)]
  /\ touched' = touched \cup {y}

\* An iteration of the level loop takes a quantity from one resting order and reports it.
LEMMA TakeHasEffect ==
  ASSUME Consistent, TakeFromLevel
  PROVE  \E y \in DOMAIN orders, q \in Nat, fill \in Fill : TakeEffect(y, q, fill)
<1> DEFINE level == Head(levels)
<1>1. Typed /\ RecordsMatchBooks
  BY DEF Consistent
<1>2. /\ levels \in Seq(WorkLevel) /\ levels # <<>> /\ instrument \in Instruments
      /\ pc = "event" /\ pc' = "event"
  BY <1>1 DEF TakeFromLevel, Typed, WorkLevel
<1>3. level.quantity \in Nat /\ level.price \in Nat
  <2>1. level \in WorkLevel
    BY <1>2, HeadTailProperties
  <2> QED BY <2>1 DEF WorkLevel
<1>4. PICK r \in books[instrument] :
        LET executed == Smaller(level.quantity, r.remaining)
        IN  /\ AcceptsFill(r, executed)
            /\ Execute(instrument, r, executed,
                       MakeFill(r.id, r.side, level.price, executed))
            /\ touched' = touched \cup {r.id}
  BY DEF TakeFromLevel, BestOrders, Touch
<1>5. PICK q, fill : /\ q = Smaller(level.quantity, r.remaining)
                     /\ fill = MakeFill(r.id, r.side, level.price, q)
  OBVIOUS
<1>6. r.remaining \in Nat /\ r.id \in OrderIds /\ r.side \in Sides
  BY <1>1, <1>2 DEF Typed, RestingOrder
<1>7. q \in Nat /\ q <= r.remaining /\ q > Tolerance
  BY <1>3, <1>4, <1>5, <1>6 DEF Smaller, AcceptsFill
<1>8. Execute(instrument, r, q, fill) /\ touched' = touched \cup {r.id}
  BY <1>4, <1>5
<1>9. fill \in Fill /\ fill.order_id = r.id /\ fill.quantity = q
  BY <1>1, <1>3, <1>5, <1>6, <1>7 DEF MakeFill, Fill, Typed
<1>10. r.id \in DOMAIN orders /\ RecordTakes(r.id, q)
  BY <1>1, <1>2, <1>7, <1>8, ExecuteQuantity DEF RecordTakes
<1>11. TakeEffect(r.id, q, fill)
  BY <1>2, <1>7, <1>8, <1>9, <1>10 DEF TakeEffect, Execute
<1> QED BY <1>7, <1>9, <1>10, <1>11

\* The end of a submit, as its caller sees it: final is the record of the order,
\* filled what it traded.
FinishEffect(final, filled) ==
  /\ pc = "matching" /\ pc' = "idle" /\ incoming \in DOMAIN orders
  /\ filled = orders[incoming].quantity - remaining
  /\ orders[incoming].status = "acknowledged" /\ orders[incoming].filled = 0
  /\ orders' = [orders EXCEPT ![incoming] = final]
  /\ final.instrument = orders[incoming].instrument /\ final.side = orders[incoming].side
  /\ final.price = orders[incoming].price /\ final.quantity = orders[incoming].quantity
  /\ final.filled \in Nat /\ filled <= final.filled /\ final.filled - filled <= Tolerance
  /\ final.filled <= orders[incoming].quantity
  /\ final.status \in {"acknowledged", "partially_filled", "filled"}
  /\ IF final.status = "acknowledged"
     THEN result' = result /\ filled <= Tolerance
     ELSE result' = [result EXCEPT !.updates =
                       Append(@, MakeUpdate(incoming, final.status, filled))]

\* The end of a submit reports the status of the order unless it is still acknowledged.
LEMMA FinishHasEffect ==
  ASSUME Consistent, FinishSubmit
  PROVE  \E final : \E filled \in Nat : FinishEffect(final, filled)
<1> DEFINE order == orders[incoming]
           filled == Less(order.quantity, remaining)
           final == FinalRecord(order, filled)
<1>1. Typed /\ SubmitInProgress
  BY DEF Consistent
<1>2. /\ pc = "matching" /\ pc' = "idle" /\ incoming \in DOMAIN orders /\ order \in OrderRecord
      /\ order.quantity \in Nat /\ remaining \in Nat /\ order.price \in Nat
      /\ order.instrument \in Instruments
  <2>1. /\ pc = "matching" /\ pc' = "idle" /\ incoming \in DOMAIN orders /\ remaining \in Nat
        /\ order \in OrderRecord
    BY <1>1 DEF FinishSubmit, Typed
  <2> QED BY <2>1 DEF OrderRecord
<1>3. /\ order.status = "acknowledged" /\ order.filled = 0 /\ order.price > 0
      /\ order.quantity > 0 /\ remaining <= order.quantity
      /\ \A j \in Instruments : \A x \in books[j] : x.id # incoming
  BY <1>1, <1>2 DEF SubmitInProgress
<1>4. filled \in Nat /\ filled = order.quantity - remaining
  BY <1>2, <1>3 DEF Less
<1>5. remaining > Tolerance =>
        IsRequestCompatible(books[order.instrument], incoming, order.price, order.quantity, filled)
  BY <1>2, <1>3, <1>4, ToleranceAssumption DEF IsRequestCompatible
<1>6. /\ orders' = [orders EXCEPT ![incoming] = final]
      /\ result' = IF final.status = order.status
                   THEN result
                   ELSE [result EXCEPT !.updates =
                           Append(@, MakeUpdate(incoming, final.status, filled))]
  <2>1. /\ orders' = [orders EXCEPT ![incoming] = final]
        /\ result' = IF final.status = "rejected" \/ Concluded(order, filled)
                     THEN [result EXCEPT !.updates =
                             Append(@, MakeUpdate(incoming, final.status, filled))]
                     ELSE result
    BY <1>5 DEF FinishSubmit
  <2>2. final.status # "rejected" /\ (Concluded(order, filled) <=> final.status # order.status)
    BY <1>2, <1>3, <1>4, ConcludedWhenChanged
  <2> QED BY <2>1, <2>2
<1>7. /\ final.instrument = order.instrument /\ final.side = order.side
      /\ final.price = order.price /\ final.quantity = order.quantity
      /\ final.filled \in Nat /\ filled <= final.filled /\ final.filled - filled <= Tolerance
      /\ final.filled <= order.quantity
      /\ final.status \in {"acknowledged", "partially_filled", "filled"}
      /\ final.status = "acknowledged" => filled <= Tolerance
  <2>1. order.quantity - filled = remaining
    BY <1>2, <1>4
  <2>2. CASE remaining > Tolerance
    <3>1. PICK status : status = IF filled > Tolerance THEN "partially_filled" ELSE order.status
      OBVIOUS
    <3>2. final = [order EXCEPT !.filled = filled, !.status = status]
      BY <1>2, <2>1, <2>2, <3>1, ToleranceAssumption DEF FinalRecord
    <3>3. /\ final.filled = filled /\ final.status = status /\ final.side = order.side
          /\ final.instrument = order.instrument /\ final.price = order.price
          /\ final.quantity = order.quantity
      BY <1>2, <3>2 DEF OrderRecord
    <3>4. status \in {"acknowledged", "partially_filled"}
          /\ (status = "acknowledged" => filled <= Tolerance)
      BY <1>3, <1>4, <3>1, ToleranceAssumption
    <3> QED BY <1>2, <1>3, <1>4, <3>3, <3>4, ToleranceAssumption
  <2>3. CASE ~(remaining > Tolerance)
    <3>1. final = [order EXCEPT !.filled = order.quantity, !.status = "filled"]
      BY <1>2, <2>1, <2>3, ToleranceAssumption DEF FinalRecord
    <3>2. /\ final.filled = order.quantity /\ final.status = "filled"
          /\ final.side = order.side /\ final.instrument = order.instrument
          /\ final.price = order.price /\ final.quantity = order.quantity
      BY <1>2, <3>1 DEF OrderRecord
    <3> QED BY <1>2, <1>3, <1>4, <2>3, <3>2, ToleranceAssumption
  <2> QED BY <2>2, <2>3
<1> HIDE DEF final, filled
<1>8. FinishEffect(final, filled)
  BY <1>2, <1>3, <1>4, <1>6, <1>7 DEF FinishEffect
<1> QED BY <1>4, <1>8

(***************************************************************************)
(* A status and a filled quantity of an order that its record has reached  *)
(* or passed: a terminal one is that of the record, but for the rounding   *)
(* of a completed order.                                                   *)
(***************************************************************************)
Behind(status, filled, order) ==
  /\ filled <= order.filled
  /\ IsTerminal(status) => status = order.status /\ order.filled - filled <= Tolerance

\* What a call may do to a record.
Grown(old, new) ==
  \/ new = old
  \/ /\ ~IsTerminal(old.status)
     /\ new.quantity = old.quantity
     /\ old.filled <= new.filled /\ new.filled <= new.quantity

\* Rows of orders that are behind the records.
Known(rows, records) ==
  \A id \in DOMAIN records :
    /\ records[id].filled <= records[id].quantity
    /\ id \in DOMAIN rows => /\ rows[id].quantity = records[id].quantity
                             /\ Behind(rows[id].status, rows[id].filled, records[id])

\* Updates of a result that are behind the records.
UpdatesBehind(updates, records) ==
  \A n \in DOMAIN updates :
    /\ updates[n].order_id \in DOMAIN records
    /\ Behind(updates[n].status, updates[n].filled, records[updates[n].order_id])

\* Rows with quantities.
AreRows(rows) == \A id \in DOMAIN rows : rows[id].filled \in Nat /\ rows[id].quantity \in Nat

\* What was behind a record stays so.
LEMMA GrownBehind ==
  ASSUME NEW old \in OrderRecord, NEW new \in OrderRecord, Grown(old, new),
         NEW status, NEW filled \in Nat, Behind(status, filled, old)
  PROVE  Behind(status, filled, new)
<1>1. old.filled \in Nat /\ new.filled \in Nat
  BY DEF OrderRecord
<1>2. CASE new = old
  BY <1>2
<1>3. CASE new # old
  <2>1. ~IsTerminal(old.status) /\ old.filled <= new.filled
    BY <1>3 DEF Grown
  <2>2. ~IsTerminal(status)
    BY <2>1 DEF Behind
  <2> QED BY <1>1, <2>1, <2>2 DEF Behind
<1> QED BY <1>2, <1>3

\* Records only grow during a call, and terminal ones stay as they are.
LEMMA StepGrows ==
  ASSUME Consistent, Step
  PROVE  /\ DOMAIN orders' = DOMAIN orders
         /\ \A id \in DOMAIN orders : Grown(orders[id], orders'[id])
<1>1. DOMAIN orders' = DOMAIN orders
  BY OnlySubmitAdds DEF Consistent
<1>2. ASSUME NEW y \in DOMAIN orders, NEW q \in Nat, RecordTakes(y, q)
      PROVE  \A id \in DOMAIN orders : Grown(orders[id], orders'[id])
  <2>1. orders[y].filled \in Nat /\ orders[y].quantity \in Nat
    BY DEF Consistent, Typed, OrderRecord
  <2>2. ~IsTerminal(orders[y].status)
    BY <1>2 DEF RecordTakes, OpenStatus, IsTerminal, TerminalStatus
  <2>3. Grown(orders[y], orders'[y])
    BY <1>2, <2>1, <2>2 DEF RecordTakes, Grown
  <2> QED BY <1>2, <2>3 DEF RecordTakes, Grown
<1>3. CASE Match
  BY <1>1, <1>2, <1>3, MatchHasEffect DEF MatchEffect
<1>4. CASE TakeFromLevel
  BY <1>1, <1>2, <1>4, TakeHasEffect DEF TakeEffect
<1>5. CASE FinishSubmit
  <2>1. PICK final : \E filled \in Nat : FinishEffect(final, filled)
    BY <1>5, FinishHasEffect
  <2>2. PICK filled \in Nat : FinishEffect(final, filled)
    BY <2>1
  <2>3. /\ orders[incoming].status = "acknowledged" /\ orders[incoming].filled = 0
        /\ final.quantity = orders[incoming].quantity /\ final.filled \in Nat
        /\ final.filled <= orders[incoming].quantity /\ incoming \in DOMAIN orders
        /\ orders' = [orders EXCEPT ![incoming] = final]
    BY <2>2 DEF FinishEffect
  <2>4. Grown(orders[incoming], final)
    BY <2>3 DEF Grown, IsTerminal, TerminalStatus
  <2>5. \A id \in DOMAIN orders : orders'[id] = IF id = incoming THEN final ELSE orders[id]
    BY <2>3 DEF Consistent, Typed
  <2> QED BY <1>1, <2>4, <2>5 DEF Grown
<1>6. CASE NextLevel \/ AppendOrderUpdate \/ FinishEvent
  BY <1>6 DEF NextLevel, AppendOrderUpdate, FinishEvent, Grown
<1> QED BY <1>1, <1>3, <1>4, <1>5, <1>6 DEF Step

\* Rows behind the records stay behind them when the records grow.
LEMMA KnownGrows ==
  ASSUME NEW records, NEW new, DOMAIN new = DOMAIN records,
         \A id \in DOMAIN records : /\ records[id] \in OrderRecord /\ new[id] \in OrderRecord
                                    /\ Grown(records[id], new[id]),
         NEW rows, AreRows(rows), Known(rows, records)
  PROVE  Known(rows, new)
<1> SUFFICES ASSUME NEW id \in DOMAIN records
             PROVE  /\ new[id].filled <= new[id].quantity
                    /\ id \in DOMAIN rows =>
                         /\ rows[id].quantity = new[id].quantity
                         /\ Behind(rows[id].status, rows[id].filled, new[id])
  BY DEF Known
<1>1. PICK old, this : old = records[id] /\ this = new[id]
  OBVIOUS
<1>2. old \in OrderRecord /\ this \in OrderRecord /\ Grown(old, this)
  BY <1>1
<1>3. old.filled <= old.quantity
  BY <1>1 DEF Known
<1>4. this.filled <= this.quantity /\ this.quantity = old.quantity
  BY <1>2, <1>3 DEF Grown
<1>5. ASSUME id \in DOMAIN rows
      PROVE  /\ rows[id].quantity = this.quantity
             /\ Behind(rows[id].status, rows[id].filled, this)
  <2>1. rows[id].quantity = old.quantity /\ Behind(rows[id].status, rows[id].filled, old)
    BY <1>1, <1>5 DEF Known
  <2>2. rows[id].filled \in Nat
    BY <1>5 DEF AreRows
  <2> QED BY <1>2, <1>4, <2>1, <2>2, GrownBehind
<1> QED BY <1>1, <1>4, <1>5

\* So do updates.
LEMMA UpdatesGrown ==
  ASSUME NEW records, NEW new, DOMAIN new = DOMAIN records,
         \A id \in DOMAIN records : /\ records[id] \in OrderRecord /\ new[id] \in OrderRecord
                                    /\ Grown(records[id], new[id]),
         NEW updates \in Seq(OrderUpdate), UpdatesBehind(updates, records)
  PROVE  UpdatesBehind(updates, new)
<1> SUFFICES ASSUME NEW n \in DOMAIN updates
             PROVE  /\ updates[n].order_id \in DOMAIN new
                    /\ Behind(updates[n].status, updates[n].filled, new[updates[n].order_id])
  BY DEF UpdatesBehind
<1>1. PICK update : update = updates[n]
  OBVIOUS
<1>2. update \in OrderUpdate
  BY <1>1, ElementOfSeq
<1>3. update.order_id \in DOMAIN records /\ update.filled \in Nat
      /\ Behind(update.status, update.filled, records[update.order_id])
  BY <1>1, <1>2 DEF UpdatesBehind, OrderUpdate
<1>4. Behind(update.status, update.filled, new[update.order_id])
  BY <1>3, GrownBehind
<1> QED BY <1>1, <1>3, <1>4

\* An update a call adds: it says no less than the record did, no more than it does.
Adds(update) ==
  /\ update \in OrderUpdate
  /\ result'.updates = Append(result.updates, update)
  /\ update.order_id \in DOMAIN orders
  /\ orders[update.order_id].filled <= update.filled
  /\ Behind(update.status, update.filled, orders'[update.order_id])

\* A step of a call adds at most one update.
LEMMA StepAdds ==
  ASSUME Consistent, Step
  PROVE  result'.updates = result.updates \/ \E update : Adds(update)
<1>1. /\ Typed /\ result \in [order_id: Nat, updates: Seq(OrderUpdate), fills: Seq(Fill)]
      /\ orders \in [DOMAIN orders -> OrderRecord] /\ DOMAIN orders \subseteq OrderIds
  BY DEF Consistent, Typed
<1>2. CASE Match \/ TakeFromLevel
  <2>1. \E fill : result' = [result EXCEPT !.fills = Append(@, fill)]
    BY <1>2, MatchHasEffect, TakeHasEffect DEF MatchEffect, TakeEffect
  <2> QED BY <1>1, <2>1
<1>3. CASE FinishSubmit
  <2>1. PICK final : \E filled \in Nat : FinishEffect(final, filled)
    BY <1>3, FinishHasEffect
  <2>2. PICK filled \in Nat : FinishEffect(final, filled)
    BY <2>1
  <2>3. CASE final.status = "acknowledged"
    BY <2>2, <2>3 DEF FinishEffect
  <2>4. CASE final.status # "acknowledged"
    <3>1. PICK update : update = MakeUpdate(incoming, final.status, filled)
      OBVIOUS
    <3>2. /\ update.order_id = incoming /\ update.filled = filled
          /\ update.status = final.status
      BY <3>1 DEF MakeUpdate
    <3>3. incoming \in DOMAIN orders /\ result'.updates = Append(result.updates, update)
          /\ orders' = [orders EXCEPT ![incoming] = final]
          /\ final.status \in OrderStatus /\ final.filled \in Nat
          /\ filled <= final.filled /\ final.filled - filled <= Tolerance
          /\ orders[incoming].filled = 0
      BY <1>1, <2>2, <2>4, <3>1 DEF FinishEffect, OrderStatus, OpenStatus, TerminalStatus
    <3>4. update \in OrderUpdate
      BY <1>1, <3>1, <3>3 DEF OrderUpdate, MakeUpdate
    <3>5. orders'[incoming] = final
      BY <1>1, <3>3
    <3>6. Behind(update.status, update.filled, orders'[update.order_id])
      BY <3>2, <3>3, <3>5 DEF Behind
    <3>7. Adds(update)
      BY <3>2, <3>3, <3>4, <3>6 DEF Adds
    <3> QED BY <3>7
  <2> QED BY <2>3, <2>4
<1>4. CASE AppendOrderUpdate
  <2>1. PICK id : result' = IF id \in DOMAIN orders
                    THEN [result EXCEPT !.updates =
                            Append(@, MakeUpdate(id, orders[id].status, orders[id].filled))]
                    ELSE result
    BY <1>4 DEF AppendOrderUpdate
  <2>2. CASE id \notin DOMAIN orders
    BY <2>1, <2>2
  <2>3. CASE id \in DOMAIN orders
    <3>1. PICK update : update = MakeUpdate(id, orders[id].status, orders[id].filled)
      OBVIOUS
    <3>2. /\ update.order_id = id /\ update.filled = orders[id].filled
          /\ update.status = orders[id].status
      BY <3>1 DEF MakeUpdate
    <3>3. result'.updates = Append(result.updates, update) /\ orders' = orders
      BY <1>1, <1>4, <2>1, <2>3, <3>1 DEF AppendOrderUpdate
    <3>4. orders[id].filled \in Nat /\ orders[id].status \in OrderStatus /\ id \in OrderIds
      BY <1>1, <2>3 DEF OrderRecord
    <3>5. update \in OrderUpdate
      BY <3>1, <3>4 DEF OrderUpdate, MakeUpdate
    <3>6. Behind(update.status, update.filled, orders'[update.order_id])
      BY <3>2, <3>3, <3>4, ToleranceAssumption DEF Behind
    <3>7. Adds(update)
      BY <2>3, <3>2, <3>3, <3>4, <3>5, <3>6 DEF Adds
    <3> QED BY <3>7
  <2> QED BY <2>2, <2>3
<1>5. CASE NextLevel \/ FinishEvent
  BY <1>5 DEF NextLevel, FinishEvent
<1> QED BY <1>2, <1>3, <1>4, <1>5 DEF Step

\* A call keeps rows and updates behind the records.
LEMMA StepBehind ==
  ASSUME Consistent, UpdatesBehind(result.updates, orders), Step,
         NEW rows, AreRows(rows), Known(rows, orders)
  PROVE  Known(rows, orders') /\ UpdatesBehind(result'.updates, orders')
<1>1. /\ DOMAIN orders' = DOMAIN orders
      /\ \A id \in DOMAIN orders : Grown(orders[id], orders'[id])
  BY StepGrows
<1>2. Typed /\ Typed'
  BY MatchType, FinishSubmitType, TakeFromLevelType, NextLevelType, AppendOrderUpdateType,
     FinishEventType DEF Step, Consistent
<1>3. \A id \in DOMAIN orders : orders[id] \in OrderRecord /\ orders'[id] \in OrderRecord
  BY <1>1, <1>2 DEF Typed
<1>4. PICK records, new, updates : records = orders /\ new = orders' /\ updates = result.updates
  OBVIOUS
<1>5. updates \in Seq(OrderUpdate)
  BY <1>2, <1>4 DEF Typed
<1>6. Known(rows, orders')
  BY <1>1, <1>3, <1>4, KnownGrows
<1>7. UpdatesBehind(updates, new)
  BY <1>1, <1>3, <1>4, <1>5, UpdatesGrown
<1>8. ASSUME NEW update, Adds(update)
      PROVE  UpdatesBehind(result'.updates, orders')
  <2>1. \A n \in DOMAIN result'.updates :
          \/ n \in DOMAIN updates /\ result'.updates[n] = updates[n]
          \/ result'.updates[n] = update
    BY <1>4, <1>5, <1>8 DEF Adds
  <2>2. update.order_id \in DOMAIN new
        /\ Behind(update.status, update.filled, new[update.order_id])
    BY <1>1, <1>4, <1>8 DEF Adds
  <2> QED BY <1>4, <1>7, <2>1, <2>2 DEF UpdatesBehind
<1> QED BY <1>4, <1>6, <1>7, <1>8, StepAdds

\* A new submit: its first update is behind the new record.
LEMMA SubmitBehind ==
  ASSUME Consistent, NEW request \in Request, Submit(request), next_order_id \notin DOMAIN orders,
         NEW rows, AreRows(rows), Known(rows, orders), next_order_id \notin DOMAIN rows
  PROVE  /\ Known(rows, orders') /\ UpdatesBehind(result'.updates, orders')
         /\ result'.order_id = next_order_id /\ next_order_id \in DOMAIN orders'
         /\ orders'[next_order_id].quantity = request.quantity
<1>1. PICK id, status : /\ id = next_order_id
                        /\ status = IF IsRefused(request) THEN "rejected" ELSE "acknowledged"
  OBVIOUS
<1>2. /\ orders' = Put(id, NewRecord(request, status))
      /\ result' = NewResult(id, <<MakeUpdate(id, status, 0)>>)
  BY <1>1 DEF Submit
<1>3. /\ DOMAIN orders' = DOMAIN orders \cup {id}
      /\ \A x \in DOMAIN orders : orders'[x] = orders[x]
      /\ orders'[id].quantity = request.quantity /\ orders'[id].filled = 0
      /\ orders'[id].status = status
  BY <1>1, <1>2 DEF Put, NewRecord
<1>4. result'.order_id = id /\ result'.updates = <<MakeUpdate(id, status, 0)>>
  BY <1>2 DEF NewResult
<1>5. Behind(status, 0, orders'[id])
  BY <1>3, ToleranceAssumption DEF Behind
<1>6. request.quantity \in Nat
  BY DEF Request
<1>7. Known(rows, orders')
  BY <1>1, <1>3, <1>6 DEF Known
<1>8. UpdatesBehind(result'.updates, orders')
  BY <1>3, <1>4, <1>5 DEF UpdatesBehind, MakeUpdate
<1> QED BY <1>1, <1>3, <1>4, <1>7, <1>8

(***************************************************************************)
(* What the caller books.  h says how much it has booked of each order in  *)
(* earlier results, rows what it has stored; the fills of this result come *)
(* on top of h and must be covered by the updates that come with them.     *)
(***************************************************************************)
Booked(h, id) == IF id \in DOMAIN h THEN h[id] ELSE 0

Total(h, fills, id) == Booked(h, id) + FillsFrom(fills, 1, id)

\* What an order has traded; the record of the order being matched lags behind.
Traded(id) == IF pc = "matching" /\ id = incoming THEN orders[id].quantity - remaining
                                                  ELSE orders[id].filled

\* From position n on, updates never take back what a row or an earlier one says.
UpdatesAscend(rows, updates, from) ==
  \A n \in DOMAIN updates : n >= from =>
    /\ updates[n].order_id \in DOMAIN rows =>
         rows[updates[n].order_id].filled <= updates[n].filled
    /\ \A m \in DOMAIN updates :
         m < n /\ updates[m].order_id = updates[n].order_id
           => updates[m].filled <= updates[n].filled

\* All fills of an order are covered by an update still to be stored or by its row.
Backed(rows, h, updates, fills, from, id) ==
  \/ \E n \in DOMAIN updates : /\ n >= from /\ updates[n].order_id = id
                               /\ Total(h, fills, id) <= updates[n].filled
  \/ id \in DOMAIN rows /\ Total(h, fills, id) <= rows[id].filled

\* An order with fills is backed, or will be when the operation returns.
FillsCovered(rows, h) ==
  \A n \in DOMAIN result.fills :
    LET id == result.fills[n].order_id
    IN  /\ id \in DOMAIN orders
        /\ pc = "idle" => Backed(rows, h, result.updates, result.fills, 1, id)
        /\ pc = "event" => \/ id \in touched
                           \/ Backed(rows, h, result.updates, result.fills, 1, id)
        /\ pc = "matching" => id = incoming /\ orders[id].quantity - remaining > Tolerance

Accounted(rows, h) ==
  /\ UpdatesAscend(rows, result.updates, 1)
  /\ \A id \in DOMAIN orders : Total(h, result.fills, id) <= Traded(id)
  /\ FillsCovered(rows, h)

IsBooking(h) == \A id \in DOMAIN h : h[id] \in Nat

\* Totals are quantities; without fills nothing is added to what was booked.
LEMMA TotalNat ==
  ASSUME NEW h, IsBooking(h), NEW id
  PROVE  /\ Booked(h, id) \in Nat
         /\ \A fills \in Seq(Fill) : Total(h, fills, id) \in Nat
         /\ Total(h, <<>>, id) = Booked(h, id)
<1>1. Booked(h, id) \in Nat
  BY DEF Booked, IsBooking
<1>2. \A fills \in Seq(Fill) : FillsFrom(fills, 1, id) \in Nat
  BY FillsFromNat
<1>3. FillsFrom(<<>>, 1, id) = 0
  BY FillsFromEmpty
<1> QED BY <1>1, <1>2, <1>3 DEF Total

\* One more fill counts for its order.
LEMMA TotalAppend ==
  ASSUME NEW h, IsBooking(h), NEW fills \in Seq(Fill), NEW fill \in Fill, NEW id
  PROVE  Total(h, Append(fills, fill), id) = Total(h, fills, id) + Part(fill, id)
<1>1. Booked(h, id) \in Nat /\ FillsFrom(fills, 1, id) \in Nat /\ Part(fill, id) \in Nat
  BY TotalNat, FillsFromNat DEF Part, Fill
<1>2. FillsFrom(Append(fills, fill), 1, id) = FillsFrom(fills, 1, id) + Part(fill, id)
  <2>1. Len(fills) \in Nat
    BY LenProperties
  <2>2. 1 \in Nat /\ 1 <= Len(fills) + 1
    BY <2>1
  <2> QED BY <2>2, FillsFromAppend
<1> QED BY <1>1, <1>2 DEF Total

\* A new call starts with what was booked before.
LEMMA CallAccounted ==
  ASSUME NEW rows, NEW h, IsBooking(h), Typed,
         \A id \in DOMAIN orders : Booked(h, id) <= orders[id].filled,
         \/ \E event : ProcessMarketEvent(event)
         \/ \E request \in Request : /\ Submit(request) /\ next_order_id \notin DOMAIN orders
                                     /\ next_order_id \notin DOMAIN h
                                     /\ next_order_id \notin DOMAIN rows
  PROVE  Accounted(rows, h)'
<1>1. CASE \E event : ProcessMarketEvent(event)
  <2>1. /\ result' = NewResult(0, <<>>) /\ orders' = orders /\ pc' = "event"
    BY <1>1 DEF ProcessMarketEvent
  <2>2. result'.updates = <<>> /\ result'.fills = <<>>
    BY <2>1 DEF NewResult
  <2>3. \A id : Total(h, <<>>, id) = Booked(h, id)
    BY TotalNat
  <2> QED BY <2>1, <2>2, <2>3 DEF Accounted, UpdatesAscend, FillsCovered, Traded
<1>2. ASSUME NEW request \in Request, Submit(request), next_order_id \notin DOMAIN orders,
             next_order_id \notin DOMAIN h, next_order_id \notin DOMAIN rows
      PROVE  Accounted(rows, h)'
  <2>1. PICK id, status : /\ id = next_order_id
                          /\ status = IF IsRefused(request) THEN "rejected" ELSE "acknowledged"
    OBVIOUS
  <2>2. /\ orders' = Put(id, NewRecord(request, status)) /\ pc = "idle"
        /\ result' = NewResult(id, <<MakeUpdate(id, status, 0)>>)
        /\ \/ pc' = pc
           \/ pc' = "matching" /\ incoming' = id /\ remaining' = request.quantity
    BY <1>2, <2>1 DEF Submit
  <2>3. /\ DOMAIN orders' = DOMAIN orders \cup {id}
        /\ \A x \in DOMAIN orders : x # id /\ orders'[x] = orders[x]
        /\ orders'[id].quantity = request.quantity /\ orders'[id].filled = 0
    BY <1>2, <2>1, <2>2 DEF Put, NewRecord
  <2>4. result'.updates = <<MakeUpdate(id, status, 0)>> /\ result'.fills = <<>>
    BY <2>2 DEF NewResult
  <2>5. UpdatesAscend(rows, result'.updates, 1)
    BY <1>2, <2>1, <2>4 DEF UpdatesAscend, MakeUpdate
  <2>6. \A x : Total(h, <<>>, x) = Booked(h, x)
    BY TotalNat
  <2>7. Booked(h, id) = 0 /\ request.quantity - request.quantity = 0
    BY <1>2, <2>1 DEF Booked, Request
  <2>8. \A x \in DOMAIN orders' : Booked(h, x) <= Traded(x)'
    BY <2>2, <2>3, <2>7 DEF Traded
  <2> QED BY <2>4, <2>5, <2>6, <2>8 DEF Accounted, FillsCovered
<1> QED BY <1>1, <1>2

\* Updates keep ascending, because the rows and the earlier ones are behind the records.
LEMMA StepAscends ==
  ASSUME Consistent, UpdatesBehind(result.updates, orders), Step,
         NEW rows, AreRows(rows), Known(rows, orders), UpdatesAscend(rows, result.updates, 1)
  PROVE  UpdatesAscend(rows, result'.updates, 1)
<1>1. PICK updates, all : updates = result.updates /\ all = result'.updates
  OBVIOUS
<1>2. updates \in Seq(OrderUpdate) /\ \A id \in DOMAIN orders : orders[id].filled \in Nat
  BY <1>1 DEF Consistent, Typed, OrderRecord
<1>3. CASE all = updates
  BY <1>1, <1>3
<1>4. ASSUME NEW update, Adds(update) PROVE UpdatesAscend(rows, all, 1)
  <2>1. PICK last \in Nat : last = Len(updates) + 1
    BY <1>2, LenProperties
  <2>2. /\ DOMAIN updates = 1..(last - 1) /\ DOMAIN all = 1..last /\ all[last] = update
        /\ \A n \in DOMAIN updates : all[n] = updates[n]
    BY <1>1, <1>2, <1>4, <2>1 DEF Adds
  <2>3. PICK id : id = update.order_id
    OBVIOUS
  <2>4. id \in DOMAIN orders /\ orders[id].filled <= update.filled /\ update.filled \in Nat
    BY <1>4, <2>3 DEF Adds, OrderUpdate
  <2>5. id \in DOMAIN rows => rows[id].filled <= update.filled
    <3> SUFFICES ASSUME id \in DOMAIN rows PROVE rows[id].filled <= update.filled
      OBVIOUS
    <3>1. rows[id].filled \in Nat /\ rows[id].filled <= orders[id].filled
      BY <2>4 DEF Known, Behind, AreRows
    <3> QED BY <1>2, <2>4, <3>1
  <2>6. ASSUME NEW m \in DOMAIN updates, updates[m].order_id = id
        PROVE  updates[m].filled <= update.filled
    <3>1. updates[m] \in OrderUpdate
      BY <1>2, ElementOfSeq
    <3>2. updates[m].filled \in Nat /\ updates[m].filled <= orders[id].filled
      BY <1>1, <2>6, <3>1 DEF UpdatesBehind, Behind, OrderUpdate
    <3> QED BY <1>2, <2>4, <3>2
  <2>7. ASSUME NEW n \in DOMAIN all
        PROVE  /\ all[n].order_id \in DOMAIN rows => rows[all[n].order_id].filled <= all[n].filled
               /\ \A m \in DOMAIN all : m < n /\ all[m].order_id = all[n].order_id
                                          => all[m].filled <= all[n].filled
    <3>1. CASE n = last
      BY <2>2, <2>3, <2>5, <2>6, <3>1
    <3>2. CASE n # last
      <4>1. n \in DOMAIN updates /\ all[n] = updates[n] /\ n >= 1 /\ n <= last - 1
        BY <2>2, <3>2
      <4>2. \A m \in DOMAIN all : m < n => m \in DOMAIN updates /\ all[m] = updates[m]
        BY <2>2, <4>1
      <4> QED BY <1>1, <4>1, <4>2 DEF UpdatesAscend
    <3> QED BY <3>1, <3>2
  <2> QED BY <2>7 DEF UpdatesAscend
<1> QED BY <1>1, <1>3, <1>4, StepAdds

\* More updates, or a fill of another order, take nothing from what backs an order.
LEMMA StaysBacked ==
  ASSUME NEW rows, NEW h, NEW updates, NEW fills, NEW all, NEW more, NEW id,
         Backed(rows, h, updates, fills, 1, id),
         \A n \in DOMAIN updates : n \in DOMAIN all /\ all[n] = updates[n],
         Total(h, more, id) = Total(h, fills, id)
  PROVE  Backed(rows, h, all, more, 1, id)
BY DEF Backed

\* A fill of a resting order in a market event.
LEMMA TakeFromLevelAccounted ==
  ASSUME Consistent, NEW rows, NEW h, IsBooking(h), Accounted(rows, h), TakeFromLevel,
         UpdatesAscend(rows, result'.updates, 1)
  PROVE  Accounted(rows, h)'
<1>1. PICK y \in DOMAIN orders : \E q \in Nat, fill \in Fill : TakeEffect(y, q, fill)
  BY TakeHasEffect
<1>2. PICK q \in Nat : \E fill \in Fill : TakeEffect(y, q, fill)
  BY <1>1
<1>3. PICK fill \in Fill : TakeEffect(y, q, fill)
  BY <1>2
<1>4. PICK fills, updates : fills = result.fills /\ updates = result.updates
  OBVIOUS
<1>5. fills \in Seq(Fill) /\ Typed
  BY <1>4 DEF Consistent, Typed
<1>6. /\ result'.fills = Append(fills, fill) /\ result'.updates = updates
      /\ fill.order_id = y /\ fill.quantity = q /\ touched' = touched \cup {y}
      /\ pc = "event" /\ pc' = "event" /\ RecordTakes(y, q)
  BY <1>3, <1>4, <1>5 DEF TakeEffect, Typed
<1>7. \A n \in DOMAIN result'.fills : \/ n \in DOMAIN fills /\ result'.fills[n] = fills[n]
                                      \/ result'.fills[n] = fill
  BY <1>5, <1>6
<1>8. \A id : Total(h, Append(fills, fill), id) = Total(h, fills, id) + Part(fill, id)
  BY <1>5, TotalAppend
<1>9. \A id : Total(h, fills, id) \in Nat
  BY <1>5, TotalNat
<1>10. \A id \in DOMAIN orders : orders[id].filled \in Nat
  BY <1>5 DEF Typed, OrderRecord
<1>11. ASSUME NEW id \in DOMAIN orders' PROVE Total(h, result'.fills, id) <= Traded(id)'
  <2>1. id \in DOMAIN orders /\ Total(h, fills, id) <= orders[id].filled
    BY <1>4, <1>6, <1>11 DEF RecordTakes, Accounted, Traded
  <2>2. CASE id = y
    <3>1. orders[y].filled + q <= orders'[y].filled /\ orders'[y].filled \in Nat
      BY <1>6 DEF RecordTakes
    <3>2. Total(h, result'.fills, id) = Total(h, fills, id) + q
      BY <1>6, <1>8, <2>2 DEF Part
    <3>3. Total(h, result'.fills, id) <= orders'[y].filled
      BY <1>9, <1>10, <2>1, <2>2, <3>1, <3>2
    <3> QED BY <1>6, <2>2, <3>3 DEF Traded
  <2>3. CASE id # y
    <3>1. orders'[id] = orders[id]
      BY <1>6, <2>1, <2>3 DEF RecordTakes
    <3>2. Total(h, result'.fills, id) = Total(h, fills, id)
      BY <1>6, <1>8, <1>9, <2>3 DEF Part
    <3> QED BY <1>6, <2>1, <3>1, <3>2 DEF Traded
  <2> QED BY <2>2, <2>3
<1>12. ASSUME NEW n \in DOMAIN result'.fills, NEW id, id = result'.fills[n].order_id
       PROVE  /\ id \in DOMAIN orders'
              /\ \/ id \in touched'
                 \/ Backed(rows, h, result'.updates, result'.fills, 1, id)
  <2>1. CASE id = y
    BY <1>6, <2>1 DEF RecordTakes
  <2>2. CASE id # y
    <3>1. n \in DOMAIN fills /\ fills[n].order_id = id
      BY <1>6, <1>7, <1>12, <2>2
    <3>2. id \in DOMAIN orders /\ (id \in touched \/ Backed(rows, h, updates, fills, 1, id))
      BY <1>4, <1>6, <3>1 DEF Accounted, FillsCovered
    <3>3. Total(h, result'.fills, id) = Total(h, fills, id)
      BY <1>6, <1>8, <1>9, <2>2 DEF Part
    <3>4. Backed(rows, h, updates, fills, 1, id)
            => Backed(rows, h, result'.updates, result'.fills, 1, id)
      BY <1>6, <3>3 DEF Backed
    <3> QED BY <1>6, <3>2, <3>4 DEF RecordTakes
  <2> QED BY <2>1, <2>2
<1>13. FillsCovered(rows, h)'
  BY <1>6, <1>12 DEF FillsCovered
<1> QED BY <1>11, <1>13 DEF Accounted

\* A fill of the order being matched.
LEMMA MatchAccounted ==
  ASSUME Consistent, NEW rows, NEW h, IsBooking(h), Accounted(rows, h), Match,
         UpdatesAscend(rows, result'.updates, 1)
  PROVE  Accounted(rows, h)'
<1>1. PICK y \in DOMAIN orders : \E q \in Nat, fill \in Fill : MatchEffect(y, q, fill)
  BY MatchHasEffect
<1>2. PICK q \in Nat : \E fill \in Fill : MatchEffect(y, q, fill)
  BY <1>1
<1>3. PICK fill \in Fill : MatchEffect(y, q, fill)
  BY <1>2
<1>4. PICK fills, updates : fills = result.fills /\ updates = result.updates
  OBVIOUS
<1>5. fills \in Seq(Fill) /\ Typed /\ SubmitInProgress
  BY <1>4 DEF Consistent, Typed
<1>6. /\ result'.fills = Append(fills, fill) /\ result'.updates = updates
      /\ fill.order_id = incoming /\ fill.quantity = q /\ incoming' = incoming
      /\ pc = "matching" /\ pc' = "matching" /\ RecordTakes(y, q) /\ y # incoming
      /\ q > Tolerance /\ q <= remaining /\ remaining' = remaining - q
      /\ incoming \in DOMAIN orders
  BY <1>3, <1>4, <1>5 DEF MatchEffect, Typed
<1>7. \A n \in DOMAIN result'.fills : \/ n \in DOMAIN fills /\ result'.fills[n] = fills[n]
                                      \/ result'.fills[n] = fill
  BY <1>5, <1>6
<1>8. \A id : Total(h, Append(fills, fill), id) = Total(h, fills, id) + Part(fill, id)
  BY <1>5, TotalAppend
<1>9. \A id : Total(h, fills, id) \in Nat
  BY <1>5, TotalNat
<1>10. /\ \A id \in DOMAIN orders : orders[id].filled \in Nat
       /\ orders[incoming].quantity \in Nat /\ remaining \in Nat
       /\ remaining <= orders[incoming].quantity /\ orders'[incoming] = orders[incoming]
       /\ DOMAIN orders' = DOMAIN orders
  BY <1>5, <1>6 DEF Typed, OrderRecord, SubmitInProgress, RecordTakes
<1>11. ASSUME NEW id \in DOMAIN orders' PROVE Total(h, result'.fills, id) <= Traded(id)'
  <2>1. id \in DOMAIN orders /\ Total(h, fills, id) <= Traded(id)
    BY <1>4, <1>10, <1>11 DEF Accounted
  <2>2. CASE id = incoming
    <3>1. Total(h, result'.fills, id) = Total(h, fills, id) + q
      BY <1>6, <1>8, <2>2 DEF Part
    <3>2. Traded(id) = orders[incoming].quantity - remaining
          /\ Traded(id)' = orders[incoming].quantity - (remaining - q)
      BY <1>6, <1>10, <2>2 DEF Traded
    <3> QED BY <1>9, <1>10, <2>1, <3>1, <3>2
  <2>3. CASE id # incoming
    <3>1. Total(h, result'.fills, id) = Total(h, fills, id)
      BY <1>6, <1>8, <1>9, <2>3 DEF Part
    <3>2. Traded(id) = orders[id].filled /\ Traded(id)' = orders'[id].filled
      BY <1>6, <2>3 DEF Traded
    <3>3. orders[id].filled <= orders'[id].filled /\ orders'[id].filled \in Nat
      <4>1. CASE id = y
        BY <1>6, <1>10, <2>1, <4>1 DEF RecordTakes
      <4>2. CASE id # y
        <5>1. orders'[id] = orders[id]
          BY <1>6, <2>1, <4>2 DEF RecordTakes
        <5> QED BY <1>10, <2>1, <5>1
      <4> QED BY <4>1, <4>2
    <3> QED BY <1>9, <1>10, <2>1, <3>1, <3>2, <3>3
  <2> QED BY <2>2, <2>3
<1>12. orders'[incoming].quantity - remaining' > Tolerance
  BY <1>6, <1>10, ToleranceAssumption
<1>13. \A n \in DOMAIN result'.fills : result'.fills[n].order_id = incoming
  BY <1>4, <1>6, <1>7 DEF Accounted, FillsCovered
<1>14. FillsCovered(rows, h)'
  BY <1>6, <1>10, <1>12, <1>13 DEF FillsCovered
<1> QED BY <1>11, <1>14 DEF Accounted

\* The end of a submit: if there are fills, an update says how much they are.
LEMMA FinishSubmitAccounted ==
  ASSUME Consistent, NEW rows, NEW h, IsBooking(h), Accounted(rows, h), FinishSubmit,
         UpdatesAscend(rows, result'.updates, 1)
  PROVE  Accounted(rows, h)'
<1>1. PICK final : \E filled \in Nat : FinishEffect(final, filled)
  BY FinishHasEffect
<1>2. PICK filled \in Nat : FinishEffect(final, filled)
  BY <1>1
<1>3. PICK fills, updates : fills = result.fills /\ updates = result.updates
  OBVIOUS
<1>4. fills \in Seq(Fill) /\ updates \in Seq(OrderUpdate) /\ Typed /\ incoming \in DOMAIN orders
  BY <1>2, <1>3 DEF Consistent, Typed, FinishEffect
<1>5. /\ pc = "matching" /\ pc' = "idle" /\ filled = orders[incoming].quantity - remaining
      /\ final.filled \in Nat /\ filled <= final.filled
      /\ orders' = [orders EXCEPT ![incoming] = final]
  BY <1>2 DEF FinishEffect
<1>6. /\ DOMAIN orders' = DOMAIN orders
      /\ \A id \in DOMAIN orders : orders'[id] = IF id = incoming THEN final ELSE orders[id]
  BY <1>4, <1>5 DEF Typed
<1>7. result'.fills = fills
  BY <1>2, <1>3, <1>4 DEF FinishEffect, Typed
<1>8. \A id : Total(h, fills, id) \in Nat
  BY <1>4, TotalNat
<1>9. Total(h, fills, incoming) <= filled
  BY <1>3, <1>4, <1>5 DEF Accounted, Traded
<1>10. ASSUME NEW id \in DOMAIN orders' PROVE Total(h, result'.fills, id) <= Traded(id)'
  <2>1. CASE id = incoming
    <3>1. Traded(id)' = final.filled
      BY <1>4, <1>5, <1>6, <2>1 DEF Traded
    <3> QED BY <1>5, <1>7, <1>8, <1>9, <2>1, <3>1
  <2>2. CASE id # incoming
    <3>1. Traded(id)' = orders[id].filled /\ Traded(id) = orders[id].filled
      BY <1>5, <1>6, <1>10, <2>2 DEF Traded
    <3> QED BY <1>3, <1>6, <1>7, <1>10, <3>1 DEF Accounted
  <2> QED BY <2>1, <2>2
<1>11. ASSUME NEW n \in DOMAIN fills
       PROVE  /\ fills[n].order_id = incoming
              /\ Backed(rows, h, result'.updates, fills, 1, incoming)
  <2>1. fills[n].order_id = incoming /\ filled > Tolerance
    BY <1>3, <1>5 DEF Accounted, FillsCovered
  <2>2. final.status # "acknowledged"
    BY <1>2, <2>1, ToleranceAssumption DEF FinishEffect
  <2>3. PICK update : update = MakeUpdate(incoming, final.status, filled)
    OBVIOUS
  <2>4. update.order_id = incoming /\ update.filled = filled
    BY <2>3 DEF MakeUpdate
  <2>5. result'.updates = Append(updates, update)
    BY <1>2, <1>3, <1>4, <2>2, <2>3 DEF FinishEffect, Typed
  <2>6. PICK last \in Nat : last = Len(updates) + 1
    BY <1>4, LenProperties
  <2>7. last \in DOMAIN result'.updates /\ result'.updates[last] = update /\ last >= 1
    BY <1>4, <2>5, <2>6
  <2> QED BY <1>9, <2>1, <2>4, <2>7 DEF Backed
<1>12. FillsCovered(rows, h)'
  BY <1>4, <1>5, <1>6, <1>7, <1>11 DEF FillsCovered
<1> QED BY <1>10, <1>12 DEF Accounted

\* An update of a touched order covers its fills.
LEMMA AppendOrderUpdateAccounted ==
  ASSUME Consistent, NEW rows, NEW h, IsBooking(h), Accounted(rows, h), AppendOrderUpdate,
         UpdatesAscend(rows, result'.updates, 1)
  PROVE  Accounted(rows, h)'
<1>1. PICK id :
        /\ touched' = touched \ {id}
        /\ result' = IF id \in DOMAIN orders
                     THEN [result EXCEPT !.updates =
                             Append(@, MakeUpdate(id, orders[id].status, orders[id].filled))]
                     ELSE result
  BY DEF AppendOrderUpdate
<1>2. PICK fills, updates : fills = result.fills /\ updates = result.updates
  OBVIOUS
<1>3. fills \in Seq(Fill) /\ updates \in Seq(OrderUpdate) /\ Typed
  BY <1>2 DEF Consistent, Typed
<1>4. pc = "event" /\ pc' = "event" /\ orders' = orders
  BY DEF AppendOrderUpdate
<1>5. result'.fills = fills
  BY <1>1, <1>2, <1>3 DEF Typed
<1>6. \A x \in DOMAIN orders : Total(h, fills, x) <= orders[x].filled
  BY <1>2, <1>4 DEF Accounted, Traded
<1>7. PICK update : update = MakeUpdate(id, orders[id].status, orders[id].filled)
  OBVIOUS
<1>8. update.order_id = id /\ update.filled = orders[id].filled
  BY <1>7 DEF MakeUpdate
<1>9. PICK last \in Nat : last = Len(updates) + 1
  BY <1>3, LenProperties
<1>10. id \in DOMAIN orders => /\ last \in DOMAIN result'.updates /\ last >= 1
                               /\ result'.updates[last] = update
  <2>1. id \in DOMAIN orders => result'.updates = Append(updates, update)
    BY <1>1, <1>2, <1>3, <1>7 DEF Typed
  <2> QED BY <1>3, <1>9, <2>1
<1>11. \A n \in DOMAIN updates : n \in DOMAIN result'.updates /\ result'.updates[n] = updates[n]
  <2>1. result'.updates = updates \/ result'.updates = Append(updates, update)
    BY <1>1, <1>2, <1>3, <1>7 DEF Typed
  <2> QED BY <1>3, <2>1
<1>12. ASSUME NEW n \in DOMAIN fills, NEW x, x = fills[n].order_id
       PROVE  /\ x \in DOMAIN orders
              /\ x \in touched' \/ Backed(rows, h, result'.updates, fills, 1, x)
  <2>1. x \in DOMAIN orders /\ (x \in touched \/ Backed(rows, h, updates, fills, 1, x))
    BY <1>2, <1>4, <1>12 DEF Accounted, FillsCovered
  <2>2. CASE x = id
    <3>1. Backed(rows, h, result'.updates, fills, 1, x)
      BY <1>6, <1>8, <1>10, <2>1, <2>2 DEF Backed
    <3> QED BY <2>1, <3>1
  <2>3. CASE x # id
    <3>1. Backed(rows, h, updates, fills, 1, x) => Backed(rows, h, result'.updates, fills, 1, x)
      BY <1>11, StaysBacked
    <3> QED BY <1>1, <2>1, <2>3, <3>1
  <2> QED BY <2>2, <2>3
<1>13. FillsCovered(rows, h)'
  BY <1>4, <1>5, <1>12 DEF FillsCovered
<1>14. \A x \in DOMAIN orders' : Total(h, result'.fills, x) <= Traded(x)'
  BY <1>4, <1>5, <1>6 DEF Traded
<1> QED BY <1>13, <1>14 DEF Accounted

\* Every step of a call keeps account of the fills.
LEMMA StepAccounted ==
  ASSUME Consistent, UpdatesBehind(result.updates, orders), Step,
         NEW rows, AreRows(rows), Known(rows, orders),
         NEW h, IsBooking(h), Accounted(rows, h)
  PROVE  Accounted(rows, h)'
<1>1. UpdatesAscend(rows, result'.updates, 1)
  BY StepAscends DEF Accounted
<1>2. CASE Match
  BY <1>1, <1>2, MatchAccounted
<1>3. CASE TakeFromLevel
  BY <1>1, <1>3, TakeFromLevelAccounted
<1>4. CASE FinishSubmit
  BY <1>1, <1>4, FinishSubmitAccounted
<1>5. CASE AppendOrderUpdate
  BY <1>1, <1>5, AppendOrderUpdateAccounted
<1>6. CASE NextLevel
  <2>1. /\ orders' = orders /\ result' = result /\ pc' = pc /\ touched' = touched
        /\ incoming' = incoming /\ remaining' = remaining
    BY <1>6 DEF NextLevel, submitVars
  <2>2. FillsCovered(rows, h)'
    BY <2>1 DEF Accounted, FillsCovered
  <2>3. \A id \in DOMAIN orders' : Total(h, result'.fills, id) <= Traded(id)'
    BY <2>1 DEF Accounted, Traded
  <2> QED BY <1>1, <2>2, <2>3 DEF Accounted
<1>7. CASE FinishEvent
  <2>1. /\ orders' = orders /\ result' = result /\ pc = "event" /\ pc' = "idle" /\ touched = {}
    BY <1>7 DEF FinishEvent
  <2>2. FillsCovered(rows, h)'
    BY <2>1 DEF Accounted, FillsCovered
  <2>3. \A id \in DOMAIN orders' : Total(h, result'.fills, id) <= Traded(id)'
    BY <2>1 DEF Accounted, Traded
  <2> QED BY <1>1, <2>2, <2>3 DEF Accounted
<1> QED BY <1>2, <1>3, <1>4, <1>5, <1>6, <1>7 DEF Step

\* Records, books and the call in progress stay consistent through every step of a call.
LEMMA StepConsistent == ASSUME Consistent, Step PROVE Consistent'
BY MatchConsistent, FinishSubmitConsistent, TakeFromLevelConsistent, OtherStepsConsistent DEF Step


=============================================================================
