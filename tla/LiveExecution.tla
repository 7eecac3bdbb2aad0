--------------------------- MODULE LiveExecution ---------------------------
(***************************************************************************)
(* The live execution adapter with its tracker (exchange_execution_        *)
(* adapter.cpp), the exchange, and a network between them that may delay,  *)
(* reorder, repeat and lose execution reports.  The local process may      *)
(* restart: a new tracker then knows the open orders of durable storage    *)
(* only, and neither the reports it has processed nor their timestamps.    *)
(*                                                                         *)
(* The exchange is external.  It moves each order through its life, never  *)
(* takes back a fill, and sends one report of every change.                *)
(***************************************************************************)
EXTENDS LiveExecutionTracker

CONSTANTS Quantity,               \* quantity of every order
          MaxOrders,              \* bound on orders submitted
          MaxReports,             \* bound on reports the exchange sends
          MaxRestarts,            \* bound on restarts
          ExpiresWhileCanceling   \* can an order expire with a cancel pending?

ASSUME LiveAssumption ==
  /\ {Quantity, MaxOrders, MaxReports, MaxRestarts} \subseteq Nat
  /\ ExpiresWhileCanceling \in BOOLEAN

VARIABLES next_order_id,    \* next_order_id_ of the adapter
          cancels,          \* orders whose cancellation was asked for
          exchange,         \* the exchange's orders: id -> [status, filled]
          clock,            \* the exchange's clock
          sent,             \* number of reports sent
          network,          \* every report sent so far
          restarts,         \* how often the process restarted
          heard,            \* history: highest cumulative quantity delivered
          emitted,          \* history: sum of the fills emitted, by order
          told              \* history: orders whose terminal report arrived

exchangeVars == <<exchange, clock, sent, network>>
historyVars == <<heard, emitted, told>>
vars == <<trackerVars, next_order_id, cancels, exchangeVars, restarts, historyVars>>

OrderIds == 1..MaxOrders

Init ==
  /\ TrackerInit
  /\ next_order_id = 1
  /\ cancels = {}
  /\ exchange = <<>>
  /\ clock = 1
  /\ sent = 0
  /\ network = {}
  /\ restarts = 0
  /\ heard = [o \in OrderIds |-> 0]
  /\ emitted = [o \in OrderIds |-> 0]
  /\ told = {}

Update(id, status, filled) ==
  [applied |-> FALSE, updates |-> <<[order |-> id, status |-> status, filled |-> filled]>>,
   fills |-> <<>>]

(***************************************************************************)
(* submit registers the order before the exchange can know of it.  Trading *)
(* does not resume after a restart in this model: the adapter would count  *)
(* its ids from 1 again.                                                   *)
(***************************************************************************)
Submit ==
  /\ restarts = 0
  /\ next_order_id <= MaxOrders
  /\ next_order_id' = next_order_id + 1
  /\ orders' = Registered(next_order_id)
  /\ result' = Update(next_order_id, "pending_submit", 0)
  /\ exchange' = [o \in DOMAIN exchange \cup {next_order_id} |->
                    IF o = next_order_id THEN [status |-> "pending_submit", filled |-> 0]
                                         ELSE exchange[o]]
  /\ UNCHANGED <<processed, next_fill_id, cancels, clock, sent, network, restarts, historyVars>>

\* cancel leaves the tracker alone: only reports change an order.
Cancel(id) ==
  /\ cancels' = cancels \cup {id}
  /\ result' = Update(id, "pending_cancel", 0)
  /\ UNCHANGED <<orders, processed, next_fill_id, next_order_id, exchangeVars,
                 restarts, historyVars>>

----------------------------------------------------------------------------
(* The exchange                                                            *)

Working == {"acknowledged", "partially_filled", "pending_cancel"}

\* The changes the exchange may make to an order.
Changes(id) ==
  LET order == exchange[id]
      fills == {[status |-> IF f = Quantity THEN "filled" ELSE "partially_filled",
                 filled |-> f] : f \in (order.filled + 1)..Quantity}
      ends  == (IF id \in cancels THEN {"canceled"} ELSE {})
                 \cup (IF id \in cancels /\ order.status # "pending_cancel"
                       THEN {"pending_cancel"} ELSE {})
                 \cup (IF order.status = "pending_cancel" /\ ~ExpiresWhileCanceling
                       THEN {} ELSE {"expired"})
  IN  CASE order.status = "pending_submit" ->
             {[order EXCEPT !.status = s] : s \in {"acknowledged", "rejected"}}
        [] order.status \in Working ->
             fills \cup {[order EXCEPT !.status = s] : s \in ends}
        [] OTHER -> {}

\* A change and its report, which may lack an id or a timestamp.
ExchangeStep(id) ==
  /\ sent < MaxReports
  /\ sent' = sent + 1
  /\ \E order \in Changes(id), tick \in {0, 1} :
       /\ exchange' = [exchange EXCEPT ![id] = order]
       /\ clock' = clock + tick
       /\ \E report_id \in {0, sent'}, time \in {0, clock'} :
            network' = network \cup {[id |-> report_id, order |-> id,
                                      status |-> order.status,
                                      filled |-> order.filled, time |-> time]}
  /\ UNCHANGED <<trackerVars, next_order_id, cancels, restarts, historyVars>>

----------------------------------------------------------------------------
(* The local process                                                       *)

FilledBy(res) == IF res.fills = <<>> THEN 0 ELSE res.fills[1].quantity

\* apply_exchange_report, for any report sent: late, repeated or in order.
Deliver(report) ==
  /\ ApplyReport(report)
  /\ heard' = [heard EXCEPT ![report.order] = Larger(@, report.filled)]
  /\ emitted' = [emitted EXCEPT ![report.order] = @ + FilledBy(result')]
  /\ told' = IF IsTerminal(report.status) THEN told \cup {report.order} ELSE told
  /\ UNCHANGED <<next_order_id, cancels, exchangeVars, restarts>>

\* A new process restores every order that storage lists as open.
Restart ==
  /\ restarts < MaxRestarts
  /\ restarts' = restarts + 1
  /\ orders' = [o \in {x \in DOMAIN orders : ~IsTerminal(orders[x].status)} |->
                  Restored(orders[o])]
  /\ processed' = {}
  /\ next_fill_id' = 1
  /\ next_order_id' = 1
  /\ result' = Ignored
  /\ UNCHANGED <<cancels, exchangeVars, historyVars>>

Next ==
  \/ Submit
  \/ \E id \in DOMAIN exchange : Cancel(id)
  \/ \E id \in DOMAIN exchange : ExchangeStep(id)
  \/ \E report \in network : Deliver(report)
  \/ Restart

Spec == Init /\ [][Next]_vars

----------------------------------------------------------------------------
(***************************************************************************)
(* Type correctness of the tracker and of its environment.                 *)
(***************************************************************************)
TypeOK ==
  /\ DOMAIN orders \subseteq OrderIds
  /\ \A o \in DOMAIN orders : orders[o] \in LocalOrderState
  /\ processed \subseteq 1..MaxReports
  /\ next_fill_id \in Nat \ {0}
  /\ next_order_id \in 1..(MaxOrders + 1)
  /\ exchange \in [DOMAIN exchange -> [status: OrderStatus, filled: 0..Quantity]]
  /\ DOMAIN exchange \subseteq OrderIds
  /\ sent \in 0..MaxReports
  /\ network \subseteq [id: 0..MaxReports, order: OrderIds, status: OrderStatus,
                        filled: 0..Quantity, time: 0..(MaxReports + 1)]
  /\ heard \in [OrderIds -> 0..Quantity]
  /\ emitted \in [OrderIds -> 0..Quantity]
  /\ told \subseteq DOMAIN exchange

(***************************************************************************)
(* Whatever the order in which reports arrive, however often each arrives  *)
(* and wherever a restart falls, the fills the tracker emitted for an      *)
(* order add up to the highest cumulative quantity it has been told, which *)
(* is also what it holds: no fill is counted twice and none is dropped.    *)
(***************************************************************************)
FillsAddUp ==
  \A o \in DOMAIN exchange :
    /\ emitted[o] = heard[o]
    /\ o \in DOMAIN orders => orders[o].filled = heard[o]

(***************************************************************************)
(* Once the exchange's last report on an order has arrived, the tracker    *)
(* agrees with the exchange on it for good, late reports notwithstanding:  *)
(* the local state machine follows the exchange to its end.                *)
(***************************************************************************)
AgreesOnceTold ==
  \A o \in told \cap DOMAIN orders :
    /\ orders[o].status = exchange[o].status
    /\ orders[o].filled = exchange[o].filled

(***************************************************************************)
(* A late report never rolls back an order the tracker has closed, and it  *)
(* never takes back a filled quantity.                                     *)
(***************************************************************************)
NeverRollsBack ==
  [][\A o \in DOMAIN orders \cap DOMAIN orders' :
       /\ IsTerminal(orders[o].status) => orders'[o].status = orders[o].status
       /\ orders'[o].filled >= orders[o].filled]_vars
=============================================================================
