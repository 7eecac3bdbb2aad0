------------------------ MODULE LiveExecutionTracker ------------------------
(***************************************************************************)
(* The tracker of live orders (live_execution_tracker.cpp): what the local *)
(* side believes of each order, and how one normalized execution report of *)
(* the exchange changes that belief.  Reports carry the cumulative filled  *)
(* quantity, so the tracker derives the fill of a report as a difference.  *)
(*                                                                         *)
(* A report is a record [id, order, status, filled, time]: id 0 stands for *)
(* an empty report_id, time 0 for a missing exchange_timestamp.            *)
(***************************************************************************)
EXTENDS Integers, Sequences

VARIABLES orders,           \* orders_: id -> [status, filled, time]
          processed,        \* processed_report_ids_
          next_fill_id,     \* next_fill_id_
          result            \* the result of the last call

trackerVars == <<orders, processed, next_fill_id, result>>

TerminalStatus == {"filled", "canceled", "rejected", "expired"}
OrderStatus == {"created", "pending_submit", "acknowledged", "partially_filled",
                "pending_cancel"} \cup TerminalStatus

LocalOrderState == [status: OrderStatus, filled: Nat, time: Nat]

\* is_terminal
IsTerminal(status) == status \in TerminalStatus

Larger(a, b) == IF a >= b THEN a ELSE b

Ignored == [applied |-> FALSE, updates |-> <<>>, fills |-> <<>>]

TrackerInit ==
  /\ orders = <<>>
  /\ processed = {}
  /\ next_fill_id = 1
  /\ result = Ignored

\* register_order: an order of this id that is known already is overwritten.
Registered(id) ==
  [o \in DOMAIN orders \cup {id} |->
     IF o = id THEN [status |-> "pending_submit", filled |-> 0, time |-> 0]
               ELSE orders[o]]

\* Mutant: the restored order starts with nothing filled.
RestoredUnfilled(order) == [order EXCEPT !.time = 0, !.filled = 0]

\* restore_order, for a record that get_order returned before.
Restored(order) == [order EXCEPT !.time = 0]

ShouldIgnoreAsStale(state, report) ==
  \/ report.filled < state.filled
  \/ /\ report.time > 0
     /\ state.time > 0
     /\ report.time < state.time
     /\ report.filled <= state.filled
  \/ /\ IsTerminal(state.status)
     /\ report.filled <= state.filled
     /\ report.status # state.status

\* Mutant: a working order cannot expire.
SuccessorsNoExpiry(current) ==
  CASE current \in {"created", "pending_submit"} -> OrderStatus
    [] current \in {"acknowledged", "partially_filled"} ->
         {"partially_filled", "pending_cancel", "filled", "canceled", "rejected"}
    [] current = "pending_cancel" -> {"canceled", "filled", "partially_filled"}
    [] OTHER -> {}

\* The statuses a report may bring to an order that is not terminal.
Successors(current) ==
  CASE current \in {"created", "pending_submit"} -> OrderStatus
    [] current \in {"acknowledged", "partially_filled"} ->
         {"partially_filled", "pending_cancel"} \cup TerminalStatus
    [] current = "pending_cancel" -> {"canceled", "filled", "partially_filled"}
    [] OTHER -> {}

ShouldApplyStatus(current, incoming) ==
  /\ incoming # current
  /\ ~IsTerminal(current)
  /\ incoming \in Successors(current)

\* A fill carries the id of its report, or a local one if that is empty.
FillOf(report, quantity) ==
  [fill_id |-> IF report.id # 0 THEN <<"report", report.id>>
                                ELSE <<"live-fill", next_fill_id>>,
   order |-> report.order, quantity |-> quantity]

\* Mutant: the quantity of a fill is the whole cumulative quantity.
FillDeltaCumulative(state, report) ==
  IF report.filled > state.filled THEN report.filled ELSE 0

\* fill_delta: what the report adds to the quantity known to be filled.
FillDelta(state, report) == Larger(report.filled, state.filled) - state.filled

\* A report that is neither a duplicate nor stale.
Apply(report) ==
  LET state   == orders[report.order]
      delta   == FillDelta(state, report)
      accepts == delta > 0 \/ ShouldApplyStatus(state.status, report.status)
      next    == [status |-> IF accepts THEN report.status ELSE state.status,
                  filled |-> Larger(report.filled, state.filled),
                  time   |-> Larger(report.time, state.time)]
  IN  /\ orders' = [orders EXCEPT ![report.order] = next]
      /\ result' = [applied |-> accepts,
                    updates |-> IF accepts
                                THEN <<[order |-> report.order, status |-> next.status,
                                        filled |-> next.filled]>>
                                ELSE <<>>,
                    fills   |-> IF delta > 0 THEN <<FillOf(report, delta)>> ELSE <<>>]
      /\ next_fill_id' = IF delta > 0 /\ report.id = 0 THEN next_fill_id + 1
                                                       ELSE next_fill_id

\* apply_report; reconcile applies a batch of reports one after the other.
ApplyReport(report) ==
  IF report.id # 0 /\ report.id \in processed
  THEN /\ result' = Ignored
       /\ UNCHANGED <<orders, processed, next_fill_id>>
  ELSE /\ processed' = IF report.id # 0 THEN processed \cup {report.id} ELSE processed
       /\ IF report.order \in DOMAIN orders
               /\ ~ShouldIgnoreAsStale(orders[report.order], report)
          THEN Apply(report)
          ELSE /\ result' = Ignored
               /\ UNCHANGED <<orders, next_fill_id>>
=============================================================================
