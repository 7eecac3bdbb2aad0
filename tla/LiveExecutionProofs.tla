------------------------ MODULE LiveExecutionProofs ------------------------
(***************************************************************************)
(* Proofs about the tracking of live orders for every quantity, every      *)
(* number of orders, reports and restarts, and every way the network may   *)
(* delay, repeat, reorder and lose reports.                                *)
(***************************************************************************)
EXTENDS LiveExecution, TLAPS

ExchangeOrder == [status: OrderStatus, filled: 0..Quantity]
Report == [id: 0..MaxReports, order: OrderIds, status: OrderStatus,
           filled: 0..Quantity, time: 0..(MaxReports + 1)]

(***************************************************************************)
(* TypeOK says nothing of the clock and bounds emitted, which takes more   *)
(* than types: Types is TypeOK without that bound and with the clock.      *)
(***************************************************************************)
Types ==
  /\ orders \in [DOMAIN orders -> LocalOrderState]
  /\ DOMAIN orders \subseteq DOMAIN exchange
  /\ processed \subseteq 1..sent
  /\ next_fill_id \in Nat \ {0}
  /\ next_order_id \in 1..(MaxOrders + 1)
  /\ restarts \in Nat
  /\ exchange \in [DOMAIN exchange -> ExchangeOrder]
  /\ DOMAIN exchange \subseteq OrderIds
  /\ restarts = 0 => \A o \in DOMAIN exchange : o < next_order_id
  /\ sent \in 0..MaxReports
  /\ clock \in 1..(sent + 1)
  /\ network \subseteq Report
  /\ heard \in [OrderIds -> 0..Quantity]
  /\ emitted \in [OrderIds -> Nat]
  /\ told \subseteq DOMAIN exchange

(***************************************************************************)
(* What every report in the network says of the exchange: it is about an   *)
(* order of the exchange, reports no more than was filled, is not from the *)
(* future, has an id of its own or none, and a terminal one tells the      *)
(* final state of its order.                                               *)
(***************************************************************************)
ReportsTrue ==
  \A r \in network :
    /\ r.order \in DOMAIN exchange
    /\ r.filled <= exchange[r.order].filled
    /\ r.id <= sent
    /\ r.time <= clock
    /\ IsTerminal(r.status) => /\ exchange[r.order].status = r.status
                               /\ exchange[r.order].filled = r.filled
    /\ \A s \in network : r.id # 0 /\ r.id = s.id => r = s

(***************************************************************************)
(* What the tracker holds of an order is what some report said of it; an   *)
(* order it does not hold any more is over, and was heard of to the end.   *)
(***************************************************************************)
TrackerReported ==
  /\ \A o \in DOMAIN orders :
       orders[o].status # "pending_submit" =>
         \E r \in network : /\ r.order = o
                            /\ r.status = orders[o].status
                            /\ r.filled = orders[o].filled
  /\ \A o \in DOMAIN exchange \ DOMAIN orders :
       IsTerminal(exchange[o].status) /\ heard[o] = exchange[o].filled

\* An order nobody submitted was not heard of, and a report that was processed was heard.
HeardTrue ==
  /\ \A o \in OrderIds \ DOMAIN exchange : heard[o] = 0 /\ emitted[o] = 0
  /\ \A o \in DOMAIN exchange : heard[o] <= exchange[o].filled
  /\ \A r \in network : r.id # 0 /\ r.id \in processed => r.filled <= heard[r.order]

IInv == Types /\ ReportsTrue /\ TrackerReported /\ HeardTrue /\ FillsAddUp

(***************************************************************************)
(* What AgreesOnceTold needs besides: a terminal report is the latest of   *)
(* its order, the tracker's time included; a processed terminal report was *)
(* told; and an order of which a pending cancellation was reported ends as *)
(* canceled unless it was filled further.  The last is where an exchange   *)
(* that expires an order with a pending cancellation differs.              *)
(***************************************************************************)
TimesOrdered ==
  \A r \in network : IsTerminal(r.status) /\ r.time > 0 =>
    /\ \A s \in network : s.order = r.order => s.time <= r.time
    /\ r.order \in DOMAIN orders => orders[r.order].time <= r.time

ProcessedTold ==
  \A r \in network :
    r.id # 0 /\ r.id \in processed /\ IsTerminal(r.status) => r.order \in told

CancelsEnd ==
  \A r \in network :
    r.status = "pending_cancel" /\ r.filled = exchange[r.order].filled =>
      exchange[r.order].status \in {"pending_cancel", "canceled"}

\* The clock bounds every time the tracker holds.
TrackerTimes == \A o \in DOMAIN orders : orders[o].time <= clock

\* An order that was told is over.
ToldOver == \A o \in told : IsTerminal(exchange[o].status)

\* These are the parts that agreement adds to IInv.
Agreement == TimesOrdered /\ ProcessedTold /\ CancelsEnd /\ TrackerTimes /\ ToldOver
             /\ AgreesOnceTold

----------------------------------------------------------------------------
(* The operators                                                           *)

(***************************************************************************)
(* A change of the exchange keeps its type, takes no fill back and is one  *)
(* of an order that is not over; one that fills nothing leads away from a  *)
(* pending cancellation only to a cancellation, or to expiry where the     *)
(* exchange does that.                                                     *)
(***************************************************************************)
LEMMA ChangesFacts ==
  ASSUME NEW id \in DOMAIN exchange, exchange[id] \in ExchangeOrder,
         NEW order \in Changes(id)
  PROVE  /\ order \in ExchangeOrder
         /\ order.filled >= exchange[id].filled
         /\ ~IsTerminal(exchange[id].status)
         /\ exchange[id].status = "pending_cancel" /\ order.filled = exchange[id].filled =>
              order.status = "canceled" \/ ExpiresWhileCanceling
<1> DEFINE old == exchange[id]
           fills == {[status |-> IF f = Quantity THEN "filled" ELSE "partially_filled",
                      filled |-> f] : f \in (old.filled + 1)..Quantity}
           ends == (IF id \in cancels THEN {"canceled"} ELSE {})
                     \cup (IF id \in cancels /\ old.status # "pending_cancel"
                           THEN {"pending_cancel"} ELSE {})
                     \cup (IF old.status = "pending_cancel" /\ ~ExpiresWhileCanceling
                           THEN {} ELSE {"expired"})
<1>1. old.status \in OrderStatus /\ old.filled \in 0..Quantity /\ Quantity \in Nat
  BY LiveAssumption DEF ExchangeOrder
<1>2. \/ /\ old.status = "pending_submit"
         /\ order \in {[old EXCEPT !.status = s] : s \in {"acknowledged", "rejected"}}
      \/ old.status \in Working /\ order \in fills
      \/ old.status \in Working /\ order \in {[old EXCEPT !.status = s] : s \in ends}
  BY DEF Changes, Working
<1>3. ~IsTerminal(old.status)
  BY <1>2 DEF IsTerminal, TerminalStatus, Working
<1>4. CASE order \in fills
  BY <1>1, <1>3, <1>4 DEF ExchangeOrder, OrderStatus, TerminalStatus
<1>5. CASE old.status = "pending_submit" /\
           order \in {[old EXCEPT !.status = s] : s \in {"acknowledged", "rejected"}}
  BY <1>1, <1>3, <1>5 DEF ExchangeOrder, OrderStatus, TerminalStatus
<1>6. CASE order \in {[old EXCEPT !.status = s] : s \in ends}
  <2>1. PICK s \in ends : order = [old EXCEPT !.status = s]
    BY <1>6
  <2>2. s \in {"canceled", "pending_cancel", "expired"}
    OBVIOUS
  <2>3. old.status = "pending_cancel" => s = "canceled" \/ ExpiresWhileCanceling
    OBVIOUS
  <2> QED BY <1>1, <1>3, <2>1, <2>2, <2>3 DEF ExchangeOrder, OrderStatus, TerminalStatus
<1> QED BY <1>2, <1>4, <1>5, <1>6

\* The larger of two numbers.
LEMMA LargerFacts ==
  ASSUME NEW a \in Nat, NEW b \in Nat
  PROVE  /\ Larger(a, b) \in Nat
         /\ Larger(a, b) >= a /\ Larger(a, b) >= b
         /\ Larger(a, b) = a \/ Larger(a, b) = b
BY DEF Larger

(***************************************************************************)
(* What one call of apply_report does to the order it is about: nothing    *)
(* when the report was processed before, is stale or of an unknown order;  *)
(* else the report's quantity is taken over, and its status is unless      *)
(* nothing was filled and should_apply_status refuses it.                  *)
(***************************************************************************)
Takes(r) == /\ ~(r.id # 0 /\ r.id \in processed)
            /\ r.order \in DOMAIN orders
            /\ ~ShouldIgnoreAsStale(orders[r.order], r)

LEMMA ApplyReportFacts ==
  ASSUME Types, NEW r \in network, ApplyReport(r)
  PROVE  /\ DOMAIN orders' = DOMAIN orders
         /\ \A o \in DOMAIN orders : o # r.order => orders'[o] = orders[o]
         /\ processed' \subseteq processed \cup ({r.id} \ {0})
         /\ next_fill_id' \in Nat \ {0}
         /\ ~Takes(r) => orders' = orders /\ FilledBy(result') = 0
         /\ Takes(r) =>
              /\ r.filled >= orders[r.order].filled
              /\ orders'[r.order].filled = r.filled
              /\ FilledBy(result') = r.filled - orders[r.order].filled
              /\ orders'[r.order].time = Larger(r.time, orders[r.order].time)
              /\ orders'[r.order] \in LocalOrderState
              /\ orders'[r.order].status \in {r.status, orders[r.order].status}
              /\ orders'[r.order].status # r.status => 
                   /\ r.filled = orders[r.order].filled
                   /\ ~ShouldApplyStatus(orders[r.order].status, r.status)
              /\ orders'[r.order].status # orders[r.order].status => 
                   r.filled > orders[r.order].filled \/ ~IsTerminal(orders[r.order].status)
<1>1. r \in Report
  BY DEF Types
<1>2. /\ r.id \in 0..MaxReports /\ r.filled \in Nat /\ r.time \in Nat
      /\ r.status \in OrderStatus /\ r.order \in OrderIds /\ MaxReports \in Nat
  BY <1>1, LiveAssumption DEF Report
<1>3. CASE ~Takes(r)
  <2>1. orders' = orders /\ result' = Ignored /\ next_fill_id' = next_fill_id
    BY <1>3 DEF ApplyReport, Takes
  <2>2. FilledBy(result') = 0
    BY <2>1 DEF FilledBy, Ignored
  <2>3. processed' \in {processed, processed \cup {r.id}} /\ (processed' # processed => r.id # 0)
    BY <1>3 DEF ApplyReport
  <2> QED BY <1>2, <1>3, <2>1, <2>2, <2>3 DEF Types
<1>4. CASE Takes(r)
  <2> DEFINE state == orders[r.order]
             delta == FillDelta(state, r)
             accepts == delta > 0 \/ ShouldApplyStatus(state.status, r.status)
             next == [status |-> IF accepts THEN r.status ELSE state.status,
                      filled |-> Larger(r.filled, state.filled),
                      time   |-> Larger(r.time, state.time)]
  <2>1. state \in LocalOrderState /\ r.order \in DOMAIN orders
    BY <1>4 DEF Types, Takes
  <2>2. state.status \in OrderStatus /\ state.filled \in Nat /\ state.time \in Nat
    BY <2>1 DEF LocalOrderState
  <2>3. r.filled >= state.filled
    BY <1>2, <1>4, <2>2 DEF Takes, ShouldIgnoreAsStale
  <2>4. Larger(r.filled, state.filled) = r.filled
    BY <1>2, <2>2, <2>3 DEF Larger
  <2>5. delta = r.filled - state.filled /\ delta \in Nat
    BY <1>2, <2>2, <2>3, <2>4 DEF FillDelta
  <2>6. Apply(r) /\ processed' = IF r.id # 0 THEN processed \cup {r.id} ELSE processed
    BY <1>4 DEF ApplyReport, Takes
  <2>7. /\ orders' = [orders EXCEPT ![r.order] = next]
        /\ result'.fills = IF delta > 0 THEN <<FillOf(r, delta)>> ELSE <<>>
        /\ next_fill_id' = IF delta > 0 /\ r.id = 0 THEN next_fill_id + 1 ELSE next_fill_id
    BY <2>6 DEF Apply
  <2>8. FilledBy(result') = delta
    <3>1. CASE delta > 0
      <4>1. result'.fills = <<FillOf(r, delta)>>
        BY <2>7, <3>1
      <4>2. FillOf(r, delta).quantity = delta
        BY DEF FillOf
      <4> QED BY <4>1, <4>2 DEF FilledBy
    <3>2. CASE ~(delta > 0)
      BY <2>5, <2>7, <3>2 DEF FilledBy
    <3> QED BY <3>1, <3>2
  <2>9. next \in LocalOrderState
    BY <1>2, <2>2, LargerFacts DEF LocalOrderState
  <2>10. orders'[r.order] = next /\ DOMAIN orders' = DOMAIN orders
         /\ \A o \in DOMAIN orders : o # r.order => orders'[o] = orders[o]
    BY <2>1, <2>7 DEF Types
  <2>11. /\ next.status \in {r.status, state.status}
         /\ next.status # r.status => ~accepts
         /\ next.status # state.status => accepts
         /\ next.filled = r.filled
         /\ next.time = Larger(r.time, state.time)
    BY <2>4
  <2>12. ~accepts => r.filled = state.filled /\ ~ShouldApplyStatus(state.status, r.status)
    BY <1>2, <2>2, <2>3, <2>5
  <2>13. accepts => r.filled > state.filled \/ ~IsTerminal(state.status)
    BY <1>2, <2>2, <2>5 DEF ShouldApplyStatus
  <2>14. processed' \subseteq processed \cup ({r.id} \ {0})
    BY <1>2, <2>6 DEF Types
  <2>15. next_fill_id' \in Nat \ {0}
    BY <2>7 DEF Types
  <2> HIDE DEF next, state, delta, accepts
  <2>16. /\ orders'[r.order].filled = r.filled
         /\ orders'[r.order].time = Larger(r.time, state.time)
         /\ orders'[r.order] \in LocalOrderState
         /\ orders'[r.order].status \in {r.status, state.status}
         /\ orders'[r.order].status # r.status => r.filled = state.filled /\ ~ShouldApplyStatus(state.status, r.status)
         /\ orders'[r.order].status # state.status => r.filled > state.filled \/ ~IsTerminal(state.status)
    BY <2>9, <2>10, <2>11, <2>12, <2>13
  <2> QED BY <1>4, <2>3, <2>5, <2>8, <2>10, <2>14, <2>15, <2>16 DEF state
<1> QED BY <1>3, <1>4

----------------------------------------------------------------------------
(* The inductive invariant IInv, action by action                          *)

LEMMA InitIInv == Init => IInv
<1> SUFFICES ASSUME Init PROVE IInv
  OBVIOUS
<1>1. /\ orders = <<>> /\ exchange = <<>> /\ processed = {} /\ next_fill_id = 1
      /\ next_order_id = 1 /\ clock = 1 /\ sent = 0 /\ network = {} /\ restarts = 0
      /\ heard = [o \in OrderIds |-> 0] /\ emitted = [o \in OrderIds |-> 0] /\ told = {}
  BY DEF Init, TrackerInit
<1>2. DOMAIN orders = {} /\ DOMAIN exchange = {}
  BY <1>1
<1>3. orders \in [DOMAIN orders -> LocalOrderState] /\ exchange \in [DOMAIN exchange -> ExchangeOrder]
  BY <1>1, <1>2
<1>4. Types
  BY <1>1, <1>2, <1>3, LiveAssumption DEF Types
<1>5. ReportsTrue
  BY <1>1 DEF ReportsTrue
<1>6. TrackerReported
  BY <1>2 DEF TrackerReported
<1>7. HeardTrue
  BY <1>1, <1>2 DEF HeardTrue
<1>8. FillsAddUp
  BY <1>2 DEF FillsAddUp
<1> QED BY <1>4, <1>5, <1>6, <1>7, <1>8 DEF IInv

\* A new order has an id that neither side has seen.
LEMMA SubmitIInv == IInv /\ Submit => IInv'
<1> SUFFICES ASSUME IInv, Submit PROVE IInv'
  OBVIOUS
<1> DEFINE n == next_order_id
<1>1. /\ Types /\ ReportsTrue /\ TrackerReported /\ HeardTrue /\ FillsAddUp
  BY DEF IInv
<1>2. n \in OrderIds /\ n \notin DOMAIN exchange /\ n \notin DOMAIN orders /\ n' = n + 1
      /\ restarts = 0
  BY <1>1, LiveAssumption DEF Types, Submit, OrderIds
<1>3. /\ DOMAIN orders' = DOMAIN orders \cup {n}
      /\ orders'[n] = [status |-> "pending_submit", filled |-> 0, time |-> 0]
      /\ \A o \in DOMAIN orders : orders'[o] = orders[o]
      /\ orders' \in [DOMAIN orders' -> LocalOrderState]
  BY <1>1, <1>2 DEF Types, Submit, Registered, LocalOrderState, OrderStatus
<1>4. /\ DOMAIN exchange' = DOMAIN exchange \cup {n}
      /\ exchange'[n] = [status |-> "pending_submit", filled |-> 0]
      /\ \A o \in DOMAIN exchange : exchange'[o] = exchange[o]
      /\ exchange' \in [DOMAIN exchange' -> ExchangeOrder]
  BY <1>1, <1>2, LiveAssumption DEF Types, Submit, ExchangeOrder, OrderStatus
<1>5. UNCHANGED <<processed, next_fill_id, clock, sent, network, restarts, heard, emitted, told>>
  BY DEF Submit, historyVars
<1>6. Types'
  <2>1. n' \in 1..(MaxOrders + 1) /\ \A o \in DOMAIN exchange' : o < n'
    BY <1>1, <1>2, <1>4, LiveAssumption DEF Types, OrderIds
  <2>2. /\ DOMAIN orders' \subseteq DOMAIN exchange' /\ DOMAIN exchange' \subseteq OrderIds
        /\ told' \subseteq DOMAIN exchange'
    BY <1>1, <1>2, <1>3, <1>4, <1>5 DEF Types
  <2> QED BY <1>1, <1>3, <1>4, <1>5, <2>1, <2>2 DEF Types
<1>7. ReportsTrue'
  BY <1>1, <1>4, <1>5 DEF ReportsTrue
<1>8. TrackerReported'
  BY <1>1, <1>2, <1>3, <1>4, <1>5 DEF TrackerReported, Types
<1>9. HeardTrue'
  BY <1>1, <1>2, <1>4, <1>5 DEF HeardTrue, Types
<1>10. FillsAddUp'
  BY <1>1, <1>2, <1>3, <1>4, <1>5 DEF FillsAddUp, HeardTrue, Types
<1> QED BY <1>6, <1>7, <1>8, <1>9, <1>10 DEF IInv

\* A cancellation changes neither what was reported nor what was heard.
LEMMA CancelIInv == ASSUME IInv, NEW id \in DOMAIN exchange, Cancel(id) PROVE IInv'
BY DEF IInv, Cancel, exchangeVars, historyVars, Types, ReportsTrue, TrackerReported,
       HeardTrue, FillsAddUp

(***************************************************************************)
(* The exchange reports a change under an id of its own; a terminal state  *)
(* is the last, so a terminal report stays true.                           *)
(***************************************************************************)
LEMMA ExchangeStepIInv == ASSUME IInv, NEW id \in DOMAIN exchange, ExchangeStep(id) PROVE IInv'
<1>1. /\ Types /\ ReportsTrue /\ TrackerReported /\ HeardTrue /\ FillsAddUp
  BY DEF IInv
<1>2. /\ sent < MaxReports /\ sent' = sent + 1
      /\ UNCHANGED <<orders, processed, next_fill_id, next_order_id, restarts, heard, emitted, told>>
  BY DEF ExchangeStep, trackerVars, historyVars
<1>3. PICK order \in Changes(id), tick \in {0, 1} :
        /\ exchange' = [exchange EXCEPT ![id] = order]
        /\ clock' = clock + tick
        /\ \E report_id \in {0, sent'}, time \in {0, clock'} :
             network' = network \cup {[id |-> report_id, order |-> id,
                                       status |-> order.status,
                                       filled |-> order.filled, time |-> time]}
  BY DEF ExchangeStep
<1>4. PICK report_id \in {0, sent'}, time \in {0, clock'} :
         network' = network \cup {[id |-> report_id, order |-> id,
                                   status |-> order.status,
                                   filled |-> order.filled, time |-> time]}
  BY <1>3
<1> DEFINE r == [id |-> report_id, order |-> id, status |-> order.status,
                 filled |-> order.filled, time |-> time]
<1>5. exchange[id] \in ExchangeOrder
  BY <1>1 DEF Types
<1>6. /\ order \in ExchangeOrder /\ order.filled >= exchange[id].filled
      /\ ~IsTerminal(exchange[id].status)
  BY <1>5, ChangesFacts
<1>7. /\ exchange[id].status \in OrderStatus /\ exchange[id].filled \in 0..Quantity
      /\ order.status \in OrderStatus /\ order.filled \in 0..Quantity
  BY <1>5, <1>6 DEF ExchangeOrder
<1>8. /\ DOMAIN exchange' = DOMAIN exchange /\ exchange'[id] = order
      /\ \A o \in DOMAIN exchange : o # id => exchange'[o] = exchange[o]
      /\ exchange' \in [DOMAIN exchange' -> ExchangeOrder]
  BY <1>1, <1>3, <1>6 DEF Types
<1>9. /\ sent \in Nat /\ sent' \in 0..MaxReports /\ clock \in Nat /\ clock' \in 1..(sent' + 1)
      /\ clock' >= clock /\ MaxReports \in Nat /\ Quantity \in Nat
  BY <1>1, <1>2, <1>3, LiveAssumption DEF Types
<1>10. r \in Report /\ r.order = id /\ r.filled = order.filled /\ r.status = order.status
       /\ r.id \in {0, sent + 1} /\ r.time <= clock' /\ r.id <= sent'
  BY <1>1, <1>2, <1>4, <1>7, <1>9 DEF Report, Types
<1>11. network' = network \cup {r}
  BY <1>4
<1> HIDE DEF r
<1>12. \A o \in DOMAIN exchange : /\ exchange[o].filled \in Nat
                                  /\ exchange'[o].filled \in Nat
                                  /\ exchange'[o].filled >= exchange[o].filled
                                  /\ IsTerminal(exchange[o].status) => exchange'[o] = exchange[o]
  BY <1>1, <1>6, <1>7, <1>8, <1>9 DEF Types, ExchangeOrder
<1>13. Types'
  BY <1>1, <1>2, <1>8, <1>9, <1>10, <1>11 DEF Types
<1>14. \A q \in network : q.id \in Nat /\ q.id <= sent /\ q.time \in Nat /\ q.filled \in Nat
  BY <1>1, LiveAssumption DEF Types, Report, ReportsTrue
<1>15. ReportsTrue'
  <2> SUFFICES ASSUME NEW q \in network'
               PROVE  /\ q.order \in DOMAIN exchange'
                      /\ q.filled <= exchange'[q.order].filled
                      /\ q.id <= sent'
                      /\ q.time <= clock'
                      /\ IsTerminal(q.status) => /\ exchange'[q.order].status = q.status
                                                 /\ exchange'[q.order].filled = q.filled
                      /\ \A s \in network' : q.id # 0 /\ q.id = s.id => q = s
    BY DEF ReportsTrue
  <2>1. \A s \in network' : q.id # 0 /\ q.id = s.id => q = s
    BY <1>1, <1>9, <1>10, <1>11, <1>14 DEF ReportsTrue
  <2>2. CASE q = r
    BY <1>7, <1>8, <1>10, <2>1, <2>2
  <2>3. CASE q \in network
    BY <1>1, <1>2, <1>8, <1>9, <1>12, <1>14, <2>1, <2>3 DEF ReportsTrue
  <2> QED BY <1>11, <2>2, <2>3
<1>16. TrackerReported'
  BY <1>1, <1>2, <1>8, <1>11, <1>12 DEF TrackerReported
<1>17. HeardTrue'
  <2>1. \A o \in OrderIds : heard[o] \in Nat
    BY <1>1, LiveAssumption DEF Types
  <2>2. \A o \in DOMAIN exchange : heard[o] <= exchange'[o].filled
    BY <1>1, <1>12, <2>1 DEF HeardTrue, Types
  <2>3. \A q \in network' : q.id # 0 /\ q.id \in processed => q.filled <= heard[q.order]
    <3> SUFFICES ASSUME NEW q \in network', q.id # 0, q.id \in processed
                 PROVE  q.filled <= heard[q.order]
      OBVIOUS
    <3>1. CASE q \in network
      BY <1>1, <3>1 DEF HeardTrue
    <3>2. CASE q = r
      BY <1>1, <1>9, <1>10, <3>2 DEF Types
    <3> QED BY <1>11, <3>1, <3>2
  <2> QED BY <1>1, <1>2, <1>8, <2>2, <2>3 DEF HeardTrue
<1>18. FillsAddUp'
  BY <1>1, <1>2, <1>8 DEF FillsAddUp
<1> QED BY <1>13, <1>15, <1>16, <1>17, <1>18 DEF IInv

(***************************************************************************)
(* A report that is not taken adds nothing to what was heard: it was heard *)
(* before, or is stale, or its order is over and was heard of to the end.  *)
(***************************************************************************)
LEMMA NotTakenHeard ==
  ASSUME IInv, NEW r \in network, ~Takes(r)
  PROVE  r.filled <= heard[r.order]
<1>1. Types /\ ReportsTrue /\ TrackerReported /\ HeardTrue /\ FillsAddUp
  BY DEF IInv
<1>2. r.order \in DOMAIN exchange /\ r.filled <= exchange[r.order].filled
  BY <1>1 DEF ReportsTrue
<1>3. r.filled \in Nat /\ heard[r.order] \in Nat /\ exchange[r.order].filled \in Nat
  BY <1>1, <1>2, LiveAssumption DEF Types, Report, ExchangeOrder
<1>4. CASE r.id # 0 /\ r.id \in processed
  BY <1>1, <1>4 DEF HeardTrue
<1>5. CASE r.order \notin DOMAIN orders
  BY <1>1, <1>2, <1>5 DEF TrackerReported
<1>6. CASE r.order \in DOMAIN orders /\ ShouldIgnoreAsStale(orders[r.order], r)
  <2>1. orders[r.order].filled = heard[r.order]
    BY <1>1, <1>2, <1>6 DEF FillsAddUp
  <2> QED BY <1>3, <1>6, <2>1 DEF ShouldIgnoreAsStale
<1> QED BY <1>4, <1>5, <1>6 DEF Takes

\* What one delivery does, in terms of what was heard.
LEMMA DeliverFacts ==
  ASSUME IInv, NEW r \in network, Deliver(r)
  PROVE  /\ r.order \in DOMAIN exchange
         /\ heard' = [heard EXCEPT ![r.order] = Larger(@, r.filled)]
         /\ emitted' = [emitted EXCEPT ![r.order] = heard'[r.order]]
         /\ r.order \in DOMAIN orders => orders'[r.order].filled = heard'[r.order]
         /\ heard'[r.order] \in 0..Quantity
         /\ heard'[r.order] >= heard[r.order] /\ heard'[r.order] >= r.filled
         /\ heard'[r.order] <= exchange[r.order].filled
<1> DEFINE o == r.order
<1>1. Types /\ ReportsTrue /\ HeardTrue /\ FillsAddUp
  BY DEF IInv
<1>2. o \in DOMAIN exchange /\ o \in OrderIds /\ r.filled <= exchange[o].filled
  BY <1>1 DEF ReportsTrue, Types
<1>3. /\ r.filled \in Nat /\ heard[o] \in Nat /\ exchange[o].filled \in 0..Quantity
      /\ emitted[o] = heard[o] /\ heard[o] <= exchange[o].filled /\ Quantity \in Nat
  BY <1>1, <1>2, LiveAssumption DEF Types, Report, ExchangeOrder, FillsAddUp, HeardTrue
<1>4. /\ heard' = [heard EXCEPT ![o] = Larger(@, r.filled)]
      /\ emitted' = [emitted EXCEPT ![o] = @ + FilledBy(result')]
      /\ ApplyReport(r)
  BY DEF Deliver
<1>5. heard'[o] = Larger(heard[o], r.filled) /\ emitted'[o] = heard[o] + FilledBy(result')
  BY <1>1, <1>2, <1>3, <1>4 DEF Types
<1>6. /\ heard'[o] >= heard[o] /\ heard'[o] >= r.filled
      /\ heard'[o] \in 0..Quantity /\ heard'[o] <= exchange[o].filled
  BY <1>2, <1>3, <1>5 DEF Larger
<1>7. emitted'[o] = heard'[o] /\ (o \in DOMAIN orders => orders'[o].filled = heard'[o])
  <2>1. CASE Takes(r)
    <3>1. /\ r.filled >= orders[o].filled /\ orders'[o].filled = r.filled
          /\ FilledBy(result') = r.filled - orders[o].filled
      BY <1>1, <1>4, <2>1, ApplyReportFacts
    <3>2. orders[o].filled = heard[o]
      BY <1>1, <1>2, <2>1 DEF FillsAddUp, Takes
    <3>3. heard'[o] = r.filled
      BY <1>3, <1>5, <3>1, <3>2 DEF Larger
    <3> QED BY <1>3, <1>5, <3>1, <3>2, <3>3
  <2>2. CASE ~Takes(r)
    <3>1. orders' = orders /\ FilledBy(result') = 0
      BY <1>1, <1>4, <2>2, ApplyReportFacts
    <3>2. r.filled <= heard[o]
      BY <2>2, NotTakenHeard
    <3>3. heard'[o] = heard[o]
      BY <1>3, <1>5, <3>2 DEF Larger
    <3> QED BY <1>1, <1>2, <1>3, <1>5, <3>1, <3>3 DEF FillsAddUp
  <2> QED BY <2>1, <2>2
<1>8. emitted' = [emitted EXCEPT ![o] = heard'[o]]
  BY <1>1, <1>2, <1>4, <1>7 DEF Types
<1> QED BY <1>2, <1>4, <1>6, <1>7, <1>8

LEMMA DeliverIInv == ASSUME IInv, NEW r \in network, Deliver(r) PROVE IInv'
<1> DEFINE o == r.order
<1>1. /\ Types /\ ReportsTrue /\ TrackerReported /\ HeardTrue /\ FillsAddUp
  BY DEF IInv
<1>2. /\ ApplyReport(r)
      /\ told' = IF IsTerminal(r.status) THEN told \cup {o} ELSE told
      /\ UNCHANGED <<next_order_id, exchange, clock, sent, network, restarts>>
  BY DEF Deliver, exchangeVars
<1>3. /\ DOMAIN orders' = DOMAIN orders
      /\ \A p \in DOMAIN orders : p # o => orders'[p] = orders[p]
      /\ processed' \subseteq processed \cup ({r.id} \ {0})
      /\ next_fill_id' \in Nat \ {0}
      /\ ~Takes(r) => orders' = orders
      /\ Takes(r) => /\ orders'[o] \in LocalOrderState
                     /\ orders'[o].filled = r.filled
                     /\ orders'[o].status \in {r.status, orders[o].status}
                     /\ orders'[o].status # r.status => r.filled = orders[o].filled
  BY <1>1, <1>2, ApplyReportFacts
<1>4. /\ o \in DOMAIN exchange
      /\ heard' = [heard EXCEPT ![o] = Larger(@, r.filled)]
      /\ emitted' = [emitted EXCEPT ![o] = heard'[o]]
      /\ o \in DOMAIN orders => orders'[o].filled = heard'[o]
      /\ heard'[o] \in 0..Quantity
      /\ heard'[o] >= heard[o] /\ heard'[o] >= r.filled
      /\ heard'[o] <= exchange[o].filled
  BY DeliverFacts
<1>5. o \in OrderIds /\ Quantity \in Nat /\ r \in Report
  BY <1>1, <1>4, LiveAssumption DEF Types
<1>6. /\ heard' \in [OrderIds -> 0..Quantity] /\ emitted' \in [OrderIds -> Nat]
      /\ emitted'[o] = heard'[o]
      /\ \A p \in OrderIds : p # o => heard'[p] = heard[p] /\ emitted'[p] = emitted[p]
  <2>1. heard' = [heard EXCEPT ![o] = heard'[o]]
    BY <1>1, <1>4, <1>5 DEF Types
  <2> QED BY <1>1, <1>4, <1>5, <2>1 DEF Types
<1>7. Types'
  <2>1. orders' \in [DOMAIN orders' -> LocalOrderState]
    <3>1. orders' = [orders EXCEPT ![o] = orders'[o]] \/ orders' = orders
      BY <1>2 DEF ApplyReport, Apply
    <3>2. \A p \in DOMAIN orders : orders'[p] \in LocalOrderState
      BY <1>1, <1>3 DEF Types, Takes
    <3> QED BY <1>1, <1>3, <3>1, <3>2 DEF Types
  <2>2. processed' \subseteq 1..sent
    BY <1>1, <1>3, <1>5 DEF Types, ReportsTrue, Report
  <2>3. told' \subseteq DOMAIN exchange
    BY <1>1, <1>2, <1>4 DEF Types
  <2> QED BY <1>1, <1>2, <1>3, <1>6, <2>1, <2>2, <2>3 DEF Types
<1>8. ReportsTrue'
  BY <1>1, <1>2 DEF ReportsTrue
<1>9. TrackerReported'
  <2>1. ASSUME NEW p \in DOMAIN orders', orders'[p].status # "pending_submit"
        PROVE  \E q \in network : /\ q.order = p
                                  /\ q.status = orders'[p].status
                                  /\ q.filled = orders'[p].filled
    <3>1. CASE orders'[p] = orders[p]
      BY <1>1, <1>3, <2>1, <3>1 DEF TrackerReported
    <3>2. CASE orders'[p] # orders[p]
      <4>1. Takes(r) /\ p = o
        BY <1>3, <2>1, <3>2
      <4>2. CASE orders'[o].status = r.status
        BY <1>3, <4>1, <4>2
      <4>3. CASE orders'[o].status # r.status
        <5>1. orders'[o].status = orders[o].status /\ orders'[o].filled = orders[o].filled
          BY <1>3, <4>1, <4>3
        <5> QED BY <1>1, <1>3, <2>1, <4>1, <5>1 DEF TrackerReported
      <4> QED BY <4>2, <4>3
    <3> QED BY <3>1, <3>2
  <2>2. ASSUME NEW p \in DOMAIN exchange \ DOMAIN orders
        PROVE  IsTerminal(exchange[p].status) /\ heard'[p] = exchange[p].filled
    <3>1. IsTerminal(exchange[p].status) /\ heard[p] = exchange[p].filled /\ p \in OrderIds
      BY <1>1, <2>2 DEF TrackerReported, Types
    <3>2. heard'[p] = heard[p]
      <4>1. CASE p # o
        BY <1>6, <3>1, <4>1
      <4>2. CASE p = o
        <5>1. heard[p] \in Nat /\ heard'[p] \in Nat /\ exchange[p].filled \in Nat
          BY <1>1, <1>5, <1>6, <3>1 DEF Types
        <5> QED BY <1>4, <3>1, <4>2, <5>1
      <4> QED BY <4>1, <4>2
    <3> QED BY <3>1, <3>2
  <2> QED BY <1>2, <1>3, <2>1, <2>2 DEF TrackerReported
<1>10. HeardTrue'
  <2>1. \A p \in OrderIds : heard[p] \in Nat /\ heard'[p] \in Nat /\ heard'[p] >= heard[p]
    BY <1>1, <1>4, <1>5, <1>6 DEF Types
  <2>2. \A p \in DOMAIN exchange : heard'[p] <= exchange[p].filled
    BY <1>1, <1>4, <1>6 DEF HeardTrue, Types
  <2>3. ASSUME NEW q \in network, q.id # 0, q.id \in processed'
        PROVE  q.filled <= heard'[q.order]
    <3>1. q.filled \in Nat /\ q.order \in OrderIds
      BY <1>1, <1>5 DEF Types, Report
    <3>2. CASE q.id \in processed
      <4>1. q.filled <= heard[q.order]
        BY <1>1, <2>3, <3>2 DEF HeardTrue
      <4> QED BY <2>1, <3>1, <4>1
    <3>3. CASE q.id = r.id
      <4>1. q = r
        BY <1>1, <2>3, <3>3 DEF ReportsTrue
      <4> QED BY <1>4, <4>1
    <3> QED BY <1>3, <2>3, <3>2, <3>3
  <2>4. \A p \in OrderIds \ DOMAIN exchange : heard'[p] = 0 /\ emitted'[p] = 0
    BY <1>1, <1>4, <1>6 DEF HeardTrue
  <2> QED BY <1>2, <2>2, <2>3, <2>4 DEF HeardTrue
<1>11. FillsAddUp'
  BY <1>1, <1>2, <1>3, <1>4, <1>6 DEF FillsAddUp, Types
<1> QED BY <1>7, <1>8, <1>9, <1>10, <1>11 DEF IInv

(***************************************************************************)
(* The orders a restart forgets are the ones a terminal report closed: the *)
(* exchange is done with them and every fill of theirs was heard.          *)
(***************************************************************************)
LEMMA RestartIInv == IInv /\ Restart => IInv'
<1> SUFFICES ASSUME IInv, Restart PROVE IInv'
  OBVIOUS
<1>1. /\ Types /\ ReportsTrue /\ TrackerReported /\ HeardTrue /\ FillsAddUp
  BY DEF IInv
<1>2. /\ UNCHANGED <<exchange, clock, sent, network, heard, emitted, told>>
      /\ processed' = {} /\ next_fill_id' = 1 /\ next_order_id' = 1
      /\ restarts' = restarts + 1
  BY DEF Restart, exchangeVars, historyVars
<1> DEFINE open == {x \in DOMAIN orders : ~IsTerminal(orders[x].status)}
<1>3. DOMAIN orders' = open /\ \A o \in open : orders'[o] = Restored(orders[o])
  BY DEF Restart
<1>4. \A o \in DOMAIN orders : orders[o] \in LocalOrderState
  BY <1>1 DEF Types
<1>5. \A o \in DOMAIN orders : /\ Restored(orders[o]) \in LocalOrderState
                               /\ Restored(orders[o]).status = orders[o].status
                               /\ Restored(orders[o]).filled = orders[o].filled
  BY <1>4 DEF Restored, LocalOrderState
<1>6. orders' \in [DOMAIN orders' -> LocalOrderState]
  <2>1. orders' = [o \in open |-> Restored(orders[o])]
    BY DEF Restart
  <2> QED BY <1>5, <2>1
<1>7. Types'
  BY <1>1, <1>2, <1>3, <1>6, LiveAssumption DEF Types
<1>8. ReportsTrue'
  BY <1>1, <1>2 DEF ReportsTrue
<1>9. TrackerReported'
  <2>1. ASSUME NEW o \in DOMAIN exchange, o \in DOMAIN orders, IsTerminal(orders[o].status)
        PROVE  IsTerminal(exchange[o].status) /\ heard[o] = exchange[o].filled
    <3>1. orders[o].status # "pending_submit"
      BY <2>1 DEF IsTerminal, TerminalStatus
    <3>2. PICK r \in network : /\ r.order = o /\ r.status = orders[o].status
                               /\ r.filled = orders[o].filled
      BY <1>1, <2>1, <3>1 DEF TrackerReported
    <3> QED BY <1>1, <2>1, <3>2 DEF ReportsTrue, FillsAddUp
  <2>2. \A o \in open : orders'[o].status = orders[o].status /\ orders'[o].filled = orders[o].filled
    BY <1>3, <1>5
  <2> QED BY <1>1, <1>2, <1>3, <2>1, <2>2 DEF TrackerReported
<1>10. HeardTrue'
  BY <1>1, <1>2 DEF HeardTrue
<1>11. FillsAddUp'
  BY <1>1, <1>2, <1>3, <1>5 DEF FillsAddUp
<1> QED BY <1>7, <1>8, <1>9, <1>10, <1>11 DEF IInv

\* IInv is an invariant.
LEMMA Inductive == Spec => []IInv
<1>1. IInv /\ [Next]_vars => IInv'
  <2> SUFFICES ASSUME IInv, [Next]_vars PROVE IInv'
    OBVIOUS
  <2>1. CASE UNCHANGED vars
    BY <2>1 DEF IInv, vars, trackerVars, exchangeVars, historyVars, Types, ReportsTrue,
                TrackerReported, HeardTrue, FillsAddUp
  <2> QED BY <2>1, SubmitIInv, CancelIInv, ExchangeStepIInv, DeliverIInv, RestartIInv DEF Next
<1> QED BY <1>1, InitIInv, PTL DEF Spec

----------------------------------------------------------------------------
(* The theorems                                                            *)

(***************************************************************************)
(* Type correctness.  That emitted never exceeds an order's quantity rests *)
(* on the whole of IInv: the tracker never invents a fill.                 *)
(***************************************************************************)
THEOREM TypeCorrectness == Spec => []TypeOK
<1>1. IInv => TypeOK
  <2> SUFFICES ASSUME IInv PROVE TypeOK
    OBVIOUS
  <2>1. Types /\ FillsAddUp /\ HeardTrue
    BY DEF IInv
  <2>2. emitted \in [OrderIds -> 0..Quantity]
    <3>1. \A o \in OrderIds : emitted[o] \in 0..Quantity
      BY <2>1, LiveAssumption DEF Types, FillsAddUp, HeardTrue
    <3> QED BY <2>1, <3>1 DEF Types
  <2>3. DOMAIN orders \subseteq OrderIds /\ \A o \in DOMAIN orders : orders[o] \in LocalOrderState
    BY <2>1 DEF Types
  <2>4. processed \subseteq 1..MaxReports
    BY <2>1, LiveAssumption DEF Types
  <2> QED BY <2>1, <2>2, <2>3, <2>4 DEF TypeOK, Types, ExchangeOrder, Report
<1> QED BY <1>1, Inductive, PTL

(***************************************************************************)
(* However late, repeated or out of order the reports of                   *)
(* apply_exchange_report arrive, and wherever the process restarts, the    *)
(* fills emitted for an order add up to the highest cumulative quantity    *)
(* the tracker was told.                                                   *)
(***************************************************************************)
THEOREM FillsAlwaysAddUp == Spec => []FillsAddUp
<1>1. IInv => FillsAddUp
  BY DEF IInv
<1> QED BY <1>1, Inductive, PTL

(***************************************************************************)
(* No step reopens or relabels an order the tracker has closed, and none   *)
(* takes a filled quantity back.                                           *)
(***************************************************************************)
THEOREM OrdersNeverRollBack == Spec => NeverRollsBack
<1> DEFINE Keeps == \A o \in DOMAIN orders \cap DOMAIN orders' :
                      /\ IsTerminal(orders[o].status) => orders'[o].status = orders[o].status
                      /\ orders'[o].filled >= orders[o].filled
<1>1. IInv /\ [Next]_vars => [Keeps]_vars
  <2> SUFFICES ASSUME IInv, Next, NEW o \in DOMAIN orders, o \in DOMAIN orders'
               PROVE  /\ IsTerminal(orders[o].status) => orders'[o].status = orders[o].status
                      /\ orders'[o].filled >= orders[o].filled
    OBVIOUS
  <2>1. /\ Types /\ ReportsTrue /\ TrackerReported /\ FillsAddUp
    BY DEF IInv
  <2>2. orders[o] \in LocalOrderState /\ orders[o].filled \in Nat /\ o \in DOMAIN exchange
    BY <2>1 DEF Types, LocalOrderState
  <2>3. CASE Submit
    <3>1. o # next_order_id
      BY <2>1, <2>2, <2>3 DEF Submit, Types, OrderIds
    <3>2. orders'[o] = orders[o]
      BY <2>3, <3>1 DEF Submit, Registered
    <3> QED BY <2>2, <3>2
  <2>4. CASE \E id \in DOMAIN exchange : Cancel(id) \/ ExchangeStep(id)
    BY <2>2, <2>4 DEF Cancel, ExchangeStep, trackerVars
  <2>5. ASSUME NEW r \in network, Deliver(r)
        PROVE  /\ IsTerminal(orders[o].status) => orders'[o].status = orders[o].status
               /\ orders'[o].filled >= orders[o].filled
    <3>1. CASE orders'[o] = orders[o]
      BY <2>2, <3>1
    <3>2. CASE orders'[o] # orders[o]
      <4>1. ApplyReport(r)
        BY <2>5 DEF Deliver
      <4>2. Takes(r) /\ o = r.order
        BY <2>1, <3>2, <4>1, ApplyReportFacts
      <4>3. /\ r.filled >= orders[o].filled /\ orders'[o].filled = r.filled
            /\ orders'[o].status # orders[o].status =>
                  r.filled > orders[o].filled \/ ~IsTerminal(orders[o].status)
        BY <2>1, <4>1, <4>2, ApplyReportFacts
      <4>4. IsTerminal(orders[o].status) => r.filled <= orders[o].filled
        <5> SUFFICES ASSUME IsTerminal(orders[o].status) PROVE r.filled <= orders[o].filled
          OBVIOUS
        <5>1. orders[o].status # "pending_submit"
          BY DEF IsTerminal, TerminalStatus
        <5>2. PICK q \in network : /\ q.order = o /\ q.status = orders[o].status
                                   /\ q.filled = orders[o].filled
          BY <2>1, <5>1 DEF TrackerReported
        <5>3. exchange[o].filled = orders[o].filled
          BY <2>1, <5>2 DEF ReportsTrue
        <5> QED BY <2>1, <4>2, <5>3 DEF ReportsTrue
      <4>5. r.filled \in Nat
        BY <2>1, LiveAssumption DEF Types, Report
      <4> QED BY <2>2, <4>3, <4>4, <4>5
    <3> QED BY <3>1, <3>2
  <2>6. CASE Restart
    <3>1. orders'[o] = Restored(orders[o])
      BY <2>6 DEF Restart
    <3> QED BY <2>2, <3>1 DEF Restored, LocalOrderState
  <2> QED BY <2>3, <2>4, <2>5, <2>6 DEF Next
<1> QED BY <1>1, Inductive, PTL DEF Spec, NeverRollsBack

----------------------------------------------------------------------------
(* Agreement with the exchange                                             *)

LEMMA InitAgreement == Init => Agreement
<1> SUFFICES ASSUME Init PROVE Agreement
  OBVIOUS
<1>1. orders = <<>> /\ network = {} /\ told = {}
  BY DEF Init, TrackerInit
<1>2. DOMAIN orders = {}
  BY <1>1
<1> QED BY <1>1, <1>2 DEF Agreement, TimesOrdered, ProcessedTold, CancelsEnd, TrackerTimes,
                          ToldOver, AgreesOnceTold

LEMMA SubmitAgreement == IInv /\ Agreement /\ Submit => Agreement'
<1> SUFFICES ASSUME IInv, Agreement, Submit PROVE Agreement'
  OBVIOUS
<1> DEFINE n == next_order_id
<1>1. /\ Types /\ ReportsTrue /\ TimesOrdered /\ ProcessedTold /\ CancelsEnd
      /\ TrackerTimes /\ ToldOver /\ AgreesOnceTold
  BY DEF IInv, Agreement
<1>2. n \notin DOMAIN exchange /\ n \notin DOMAIN orders
  BY <1>1, LiveAssumption DEF Types, Submit, OrderIds
<1>3. /\ DOMAIN orders' = DOMAIN orders \cup {n}
      /\ orders'[n] = [status |-> "pending_submit", filled |-> 0, time |-> 0]
      /\ \A o \in DOMAIN orders : orders'[o] = orders[o]
  BY <1>2 DEF Submit, Registered
<1>4. /\ \A o \in DOMAIN exchange : exchange'[o] = exchange[o]
      /\ UNCHANGED <<processed, clock, network, told>>
  BY <1>2 DEF Submit, historyVars
<1>5. \A r \in network : r.order \in DOMAIN exchange
  BY <1>1 DEF ReportsTrue
<1>6. TimesOrdered'
  BY <1>1, <1>2, <1>3, <1>4, <1>5 DEF TimesOrdered
<1>7. ProcessedTold'
  BY <1>1, <1>4 DEF ProcessedTold
<1>8. CancelsEnd'
  BY <1>1, <1>4, <1>5 DEF CancelsEnd
<1>9. TrackerTimes'
  BY <1>1, <1>3, <1>4 DEF TrackerTimes, Types
<1>10. ToldOver' /\ AgreesOnceTold'
  BY <1>1, <1>2, <1>3, <1>4 DEF ToldOver, AgreesOnceTold, Types
<1> QED BY <1>6, <1>7, <1>8, <1>9, <1>10 DEF Agreement

LEMMA CancelAgreement ==
  ASSUME Agreement, NEW id \in DOMAIN exchange, Cancel(id) PROVE Agreement'
BY DEF Agreement, Cancel, exchangeVars, historyVars, TimesOrdered, ProcessedTold, CancelsEnd,
       TrackerTimes, ToldOver, AgreesOnceTold

(***************************************************************************)
(* The exchange ends an order once, at a time no earlier report is after.  *)
(* This is the one step that needs an exchange that does not expire an     *)
(* order with a pending cancellation.                                      *)
(***************************************************************************)
LEMMA ExchangeStepAgreement ==
  ASSUME ~ExpiresWhileCanceling, IInv, Agreement, NEW id \in DOMAIN exchange, ExchangeStep(id)
  PROVE  Agreement'
<1>1. /\ Types /\ ReportsTrue /\ TimesOrdered /\ ProcessedTold /\ CancelsEnd
      /\ TrackerTimes /\ ToldOver /\ AgreesOnceTold
  BY DEF IInv, Agreement
<1>2. sent' = sent + 1 /\ UNCHANGED <<orders, processed, told>>
  BY DEF ExchangeStep, trackerVars, historyVars
<1>3. PICK order \in Changes(id), tick \in {0, 1} :
        /\ exchange' = [exchange EXCEPT ![id] = order]
        /\ clock' = clock + tick
        /\ \E report_id \in {0, sent'}, time \in {0, clock'} :
             network' = network \cup {[id |-> report_id, order |-> id,
                                       status |-> order.status,
                                       filled |-> order.filled, time |-> time]}
  BY DEF ExchangeStep
<1>4. PICK report_id \in {0, sent'}, time \in {0, clock'} :
         network' = network \cup {[id |-> report_id, order |-> id,
                                   status |-> order.status,
                                   filled |-> order.filled, time |-> time]}
  BY <1>3
<1> DEFINE r == [id |-> report_id, order |-> id, status |-> order.status,
                 filled |-> order.filled, time |-> time]
<1>5. exchange[id] \in ExchangeOrder
  BY <1>1 DEF Types
<1>6. /\ order \in ExchangeOrder /\ order.filled >= exchange[id].filled
      /\ ~IsTerminal(exchange[id].status)
      /\ exchange[id].status = "pending_cancel" /\ order.filled = exchange[id].filled =>
              order.status = "canceled"
  BY <1>5, ChangesFacts
<1>7. /\ exchange[id].filled \in Nat /\ order.filled \in Nat
      /\ clock \in Nat /\ clock' >= clock /\ clock' \in Nat /\ sent \in Nat
  BY <1>1, <1>3, <1>5, <1>6, LiveAssumption DEF ExchangeOrder, Types
<1>8. /\ exchange'[id] = order
      /\ \A o \in DOMAIN exchange : o # id => exchange'[o] = exchange[o]
  BY <1>1, <1>3 DEF Types
<1>9. /\ network' = network \cup {r} /\ r.order = id /\ r.filled = order.filled
      /\ r.status = order.status /\ r.id \in {0, sent + 1} /\ r.time \in {0, clock'}
  BY <1>2, <1>4
<1> HIDE DEF r
<1>10. \A q \in network : /\ q.id <= sent /\ q.time <= clock /\ q.time \in Nat
                          /\ q.order \in DOMAIN exchange /\ q.filled \in Nat
                          /\ q.filled <= exchange[q.order].filled
                          /\ IsTerminal(q.status) => q.order # id
  BY <1>1, <1>6, LiveAssumption DEF ReportsTrue, Types, Report
<1>11. \A o \in DOMAIN orders : orders[o].time \in Nat /\ orders[o].time <= clock
  BY <1>1 DEF TrackerTimes, Types, LocalOrderState
<1>12. TimesOrdered'
  <2> SUFFICES ASSUME NEW q \in network', IsTerminal(q.status), q.time > 0
               PROVE  /\ \A s \in network' : s.order = q.order => s.time <= q.time
                      /\ q.order \in DOMAIN orders => orders[q.order].time <= q.time
    BY <1>2 DEF TimesOrdered
  <2>1. CASE q = r
    BY <1>7, <1>9, <1>10, <1>11, <2>1
  <2>2. CASE q \in network
    BY <1>1, <1>9, <1>10, <2>2 DEF TimesOrdered
  <2> QED BY <1>9, <2>1, <2>2
<1>13. ProcessedTold'
  <2>1. sent + 1 \notin processed
    BY <1>1, <1>7 DEF Types
  <2> QED BY <1>1, <1>2, <1>9, <2>1 DEF ProcessedTold
<1>14. CancelsEnd'
  <2> SUFFICES ASSUME NEW q \in network', q.status = "pending_cancel",
                      q.filled = exchange'[q.order].filled
               PROVE  exchange'[q.order].status \in {"pending_cancel", "canceled"}
    BY DEF CancelsEnd
  <2>1. CASE q = r
    BY <1>8, <1>9, <2>1
  <2>2. CASE q \in network /\ q.order # id
    BY <1>1, <1>8, <1>10, <2>2 DEF CancelsEnd
  <2>3. CASE q \in network /\ q.order = id
    <3>1. q.filled = exchange[id].filled /\ order.filled = exchange[id].filled
      BY <1>6, <1>7, <1>8, <1>10, <2>3
    <3>2. exchange[id].status \in {"pending_cancel", "canceled"}
      BY <1>1, <2>3, <3>1 DEF CancelsEnd
    <3>3. exchange[id].status = "pending_cancel"
      BY <1>6, <3>2 DEF IsTerminal, TerminalStatus
    <3> QED BY <1>6, <1>8, <2>3, <3>1, <3>3
  <2> QED BY <1>9, <2>1, <2>2, <2>3
<1>15. TrackerTimes'
  BY <1>2, <1>7, <1>11 DEF TrackerTimes
<1>16. id \notin told
  BY <1>1, <1>6 DEF ToldOver
<1>17. ToldOver' /\ AgreesOnceTold'
  BY <1>1, <1>2, <1>8, <1>16 DEF ToldOver, AgreesOnceTold, Types
<1> QED BY <1>12, <1>13, <1>14, <1>15, <1>17 DEF Agreement

(***************************************************************************)
(* A terminal report that was not told before is taken, with its status,   *)
(* whatever reports arrived before it: it is the latest of its order, no   *)
(* other reports more filled, and should_apply_status refuses an end only  *)
(* after a pending cancellation, which CancelsEnd excludes.                *)
(***************************************************************************)
LEMMA TerminalReportTaken ==
  ASSUME IInv, Agreement, NEW r \in network, ApplyReport(r), IsTerminal(r.status),
         r.order \notin told, r.order \in DOMAIN orders
  PROVE  orders'[r.order].status = r.status /\ orders'[r.order].filled = r.filled
<1> DEFINE o == r.order
           state == orders[o]
<1>1. /\ Types /\ ReportsTrue /\ TrackerReported /\ HeardTrue /\ FillsAddUp /\ TimesOrdered
      /\ ProcessedTold /\ CancelsEnd
  BY DEF IInv, Agreement
<1>2. o \in DOMAIN exchange /\ exchange[o].status = r.status /\ exchange[o].filled = r.filled
  BY <1>1 DEF ReportsTrue
<1>3. /\ state.status \in OrderStatus /\ state.filled \in Nat /\ state.time \in Nat
      /\ r.filled \in Nat /\ r.time \in Nat /\ r.status \in OrderStatus
  BY <1>1, LiveAssumption DEF Types, LocalOrderState, Report
<1>4. state.filled <= r.filled
  <2>1. state.filled = heard[o] /\ heard[o] <= exchange[o].filled
    BY <1>1, <1>2 DEF FillsAddUp, HeardTrue
  <2> QED BY <1>2, <2>1
<1>5. r.time > 0 => state.time <= r.time
  BY <1>1 DEF TimesOrdered
<1>6. IsTerminal(state.status) => state.status = r.status
  <2> SUFFICES ASSUME IsTerminal(state.status) PROVE state.status = r.status
    OBVIOUS
  <2>1. state.status # "pending_submit"
    BY DEF IsTerminal, TerminalStatus
  <2>2. PICK q \in network : q.order = o /\ q.status = state.status
    BY <1>1, <2>1 DEF TrackerReported
  <2> QED BY <1>1, <1>2, <2>2 DEF ReportsTrue
<1>7. ~ShouldIgnoreAsStale(state, r)
  BY <1>3, <1>4, <1>5, <1>6 DEF ShouldIgnoreAsStale
<1>8. Takes(r)
  BY <1>1, <1>7 DEF Takes, ProcessedTold
<1>9. /\ orders'[o].filled = r.filled
      /\ orders'[o].status \in {r.status, state.status}
      /\ orders'[o].status # r.status => /\ r.filled = state.filled
                                         /\ ~ShouldApplyStatus(state.status, r.status)
  BY <1>1, <1>8, ApplyReportFacts
<1>10. ASSUME orders'[o].status # r.status PROVE FALSE
  <2>1. /\ r.filled = state.filled /\ state.status # r.status /\ ~IsTerminal(state.status)
        /\ ~ShouldApplyStatus(state.status, r.status)
    BY <1>6, <1>9, <1>10
  <2>2. r.status \notin Successors(state.status)
    BY <2>1 DEF ShouldApplyStatus
  <2>3. CASE state.status \in {"created", "pending_submit"}
    BY <1>3, <2>2, <2>3 DEF Successors
  <2>4. CASE state.status \in {"acknowledged", "partially_filled"}
    BY <2>2, <2>4 DEF Successors, IsTerminal
  <2>5. CASE state.status = "pending_cancel"
    <3>1. PICK q \in network : q.order = o /\ q.status = "pending_cancel" /\ q.filled = r.filled
      BY <1>1, <2>1, <2>5 DEF TrackerReported
    <3>2. r.status \in {"pending_cancel", "canceled"}
      BY <1>1, <1>2, <3>1 DEF CancelsEnd
    <3>3. r.status = "canceled"
      BY <3>2 DEF IsTerminal, TerminalStatus
    <3> QED BY <2>2, <2>5, <3>3 DEF Successors
  <2> QED BY <1>3, <2>1, <2>3, <2>4, <2>5 DEF OrderStatus, IsTerminal
<1> QED BY <1>9, <1>10

LEMMA DeliverAgreement ==
  ASSUME IInv, Agreement, NEW r \in network, Deliver(r) PROVE Agreement'
<1> DEFINE o == r.order
<1>1. /\ Types /\ ReportsTrue /\ TrackerReported /\ FillsAddUp /\ TimesOrdered /\ ProcessedTold
      /\ CancelsEnd /\ TrackerTimes /\ ToldOver /\ AgreesOnceTold
  BY DEF IInv, Agreement
<1>2. /\ ApplyReport(r)
      /\ told' = IF IsTerminal(r.status) THEN told \cup {o} ELSE told
      /\ UNCHANGED <<exchange, clock, network>>
  BY DEF Deliver, exchangeVars
<1>3. /\ DOMAIN orders' = DOMAIN orders
      /\ \A p \in DOMAIN orders : p # o => orders'[p] = orders[p]
      /\ processed' \subseteq processed \cup ({r.id} \ {0})
      /\ ~Takes(r) => orders' = orders
      /\ Takes(r) => /\ orders'[o].time = Larger(r.time, orders[o].time)
                     /\ orders'[o].filled = r.filled
                     /\ r.filled >= orders[o].filled
                     /\ orders'[o].status # orders[o].status =>
                          r.filled > orders[o].filled \/ ~IsTerminal(orders[o].status)
  BY <1>1, <1>2, ApplyReportFacts
<1>4. /\ o \in DOMAIN exchange /\ r.filled <= exchange[o].filled /\ r.time <= clock
      /\ IsTerminal(r.status) => exchange[o].status = r.status /\ exchange[o].filled = r.filled
      /\ r.filled \in Nat /\ r.time \in Nat /\ exchange[o].filled \in Nat /\ clock \in Nat
  BY <1>1, LiveAssumption DEF ReportsTrue, Types, Report, ExchangeOrder
<1>5. \A p \in DOMAIN orders : orders[p].time \in Nat /\ orders[p].filled \in Nat
  BY <1>1 DEF Types, LocalOrderState
<1>6. \A p \in DOMAIN orders : \/ orders'[p].time = orders[p].time
                               \/ p = o /\ orders'[p].time = r.time
  BY <1>3, <1>4, <1>5 DEF Takes, Larger
<1>7. TimesOrdered'
  BY <1>1, <1>2, <1>3, <1>6 DEF TimesOrdered
<1>8. ProcessedTold'
  <2> SUFFICES ASSUME NEW q \in network, q.id # 0, q.id \in processed', IsTerminal(q.status)
               PROVE  q.order \in told'
    BY <1>2 DEF ProcessedTold
  <2>1. CASE q.id \in processed
    BY <1>1, <1>2, <2>1 DEF ProcessedTold
  <2>2. CASE q.id = r.id
    <3>1. q = r
      BY <1>1, <2>2 DEF ReportsTrue
    <3> QED BY <1>2, <3>1
  <2> QED BY <1>3, <2>1, <2>2
<1>9. CancelsEnd'
  BY <1>1, <1>2 DEF CancelsEnd
<1>10. TrackerTimes'
  BY <1>1, <1>2, <1>3, <1>4, <1>6 DEF TrackerTimes
<1>11. ToldOver'
  BY <1>1, <1>2, <1>4 DEF ToldOver
<1>12. AgreesOnceTold'
  <2> SUFFICES ASSUME NEW p \in told', p \in DOMAIN orders
               PROVE  orders'[p].status = exchange[p].status /\ orders'[p].filled = exchange[p].filled
    BY <1>2, <1>3 DEF AgreesOnceTold
  <2>1. CASE p \in told /\ orders'[p] = orders[p]
    BY <1>1, <2>1 DEF AgreesOnceTold
  <2>2. CASE p \in told /\ orders'[p] # orders[p]
    <3>1. Takes(r) /\ p = o
      BY <1>3, <2>2
    <3>2. /\ orders[o].status = exchange[o].status /\ orders[o].filled = exchange[o].filled
          /\ IsTerminal(exchange[o].status)
      BY <1>1, <2>2, <3>1 DEF AgreesOnceTold, ToldOver
    <3> QED BY <1>3, <1>4, <1>5, <3>1, <3>2
  <2>3. CASE p \notin told
    <3>1. p = o /\ IsTerminal(r.status)
      BY <1>2, <2>3
    <3>2. orders'[o].status = r.status /\ orders'[o].filled = r.filled
      BY <1>2, <2>3, <3>1, TerminalReportTaken
    <3> QED BY <1>4, <3>1, <3>2
  <2> QED BY <2>1, <2>2, <2>3
<1> QED BY <1>7, <1>8, <1>9, <1>10, <1>11, <1>12 DEF Agreement

LEMMA RestartAgreement == IInv /\ Agreement /\ Restart => Agreement'
<1> SUFFICES ASSUME IInv, Agreement, Restart PROVE Agreement'
  OBVIOUS
<1>1. /\ Types /\ TimesOrdered /\ ProcessedTold /\ CancelsEnd
      /\ TrackerTimes /\ ToldOver /\ AgreesOnceTold
  BY DEF IInv, Agreement
<1>2. UNCHANGED <<exchange, clock, network, told>> /\ processed' = {}
  BY DEF Restart, exchangeVars, historyVars
<1>3. /\ DOMAIN orders' \subseteq DOMAIN orders
      /\ \A o \in DOMAIN orders' : orders'[o] = Restored(orders[o])
  BY DEF Restart
<1>4. \A o \in DOMAIN orders : orders[o] \in LocalOrderState
  BY <1>1 DEF Types
<1>5. \A o \in DOMAIN orders' : /\ orders'[o].time = 0
                                /\ orders'[o].status = orders[o].status
                                /\ orders'[o].filled = orders[o].filled
  BY <1>3, <1>4 DEF Restored, LocalOrderState
<1>6. \A r \in network : r.time \in Nat
  BY <1>1, LiveAssumption DEF Types, Report
<1>7. TimesOrdered'
  BY <1>1, <1>2, <1>5, <1>6 DEF TimesOrdered
<1>8. ProcessedTold' /\ CancelsEnd' /\ ToldOver'
  BY <1>1, <1>2 DEF ProcessedTold, CancelsEnd, ToldOver
<1>9. TrackerTimes'
  BY <1>1, <1>2, <1>5 DEF TrackerTimes, Types
<1>10. AgreesOnceTold'
  BY <1>1, <1>2, <1>3, <1>5 DEF AgreesOnceTold
<1> QED BY <1>7, <1>8, <1>9, <1>10 DEF Agreement

(***************************************************************************)
(* With an exchange that does not expire an order while its cancellation   *)
(* is pending, the tracker agrees with the exchange on an order from the   *)
(* moment its terminal report arrived, in whatever order the reports come  *)
(* and wherever a restart falls.  Without that hypothesis the agreement is *)
(* lost: the run LiveExecutionExpiry shows how.                            *)
(***************************************************************************)
THEOREM AgreementOnceTold ==
  ASSUME ~ExpiresWhileCanceling
  PROVE  Spec => []AgreesOnceTold
<1>1. IInv /\ Agreement /\ [Next]_vars => Agreement'
  <2> SUFFICES ASSUME IInv, Agreement, [Next]_vars PROVE Agreement'
    OBVIOUS
  <2>1. CASE UNCHANGED vars
    BY <2>1 DEF Agreement, vars, trackerVars, exchangeVars, historyVars, TimesOrdered,
                ProcessedTold, CancelsEnd, TrackerTimes, ToldOver, AgreesOnceTold
  <2> QED BY <2>1, SubmitAgreement, CancelAgreement, ExchangeStepAgreement, DeliverAgreement,
             RestartAgreement DEF Next
<1>2. Agreement => AgreesOnceTold
  BY DEF Agreement
<1> QED BY <1>1, <1>2, InitAgreement, Inductive, PTL DEF Spec
=============================================================================
