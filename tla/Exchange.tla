------------------------------ MODULE Exchange ------------------------------
(***************************************************************************)
(* The exchange boundary.  Its execution half: the execution router        *)
(* (exchange_router.cpp) over simulated adapters, each with a simulated    *)
(* execution engine (simulated_execution_engine.cpp).  Its market data     *)
(* half: the feed controller (live_market_data_feed.cpp), which reconnects *)
(* a session, and the feed health tracker (feed_health_tracker.cpp), which *)
(* is told of connections and messages.  The two halves share no state; a  *)
(* behaviour exercises one of them (half).  The session and the clock are  *)
(* external, and so is what calls the controller and tells the tracker.    *)
(* A fill is its quantity.                                                 *)
(***************************************************************************)
EXTENDS Integers, Sequences, FiniteSets

CONSTANTS Exchanges,        \* names requests may be for
          Venues,           \* those an adapter may be registered for
          Quantities,       \* quantities of requests
          Configs,          \* simulator settings: [threshold, ratio], ratio in halves
          MaxOrders,        \* bound on the orders submitted by all processes
          MaxRefusals,      \* bound on requests about orders that are not open
          MaxRestarts,      \* bound on restarts
          MaxReconnects,    \* max_reconnect_attempts_
          StaleAfter,       \* stale_after_ms
          Grace,            \* disconnect_grace_ms
          MaxLate,          \* bound on messages in flight when the connection is lost
          LastEvent         \* the feed sees connections and messages up to this time

\* Partial fills are halves; they stay whole numbers.
ASSUME ExchangeAssumption ==
  /\ \A q \in Quantities : q \in Int /\ q % 2 = 0
  /\ Configs \subseteq [threshold: Int, ratio: Int]
  /\ MaxOrders \in Nat
  /\ StaleAfter >= 0 /\ Grace >= 0

VARIABLES half,             \* "orders" or "feed"
          config,           \* settings of the simulators
          adapters,         \* adapters_: exchange -> its engine
          result,           \* the last ExecutionResult
          life,             \* history: updates returned for every <<exchange, id>>
          placed,           \* history: quantity of the last request with this key
          filled,           \* history: what its fills add up to
          reused,           \* history: keys given to a second order
          submitted,        \* history: orders submitted so far, for the bound
          refusals,         \* history: requests that found no open order, for the bound
          restarts          \* history: restarts so far

VARIABLES now,              \* the clock
          session,          \* the transport: is it connected
          controller,       \* connected_ and reconnect_attempts_, and dead once it threw
          tracker,          \* the fields of the health tracker
          late              \* messages received, not yet given to the tracker

orderVars == <<config, adapters, result, life, placed, filled, reused, submitted, refusals,
               restarts>>
feedVars == <<now, session, controller, tracker, late>>
vars == <<half, orderVars, feedVars>>

Map(f, k, v) == [x \in DOMAIN f \cup {k} |-> IF x = k THEN v ELSE f[x]]

NoResult == [order_id |-> 0, updates |-> <<>>, fills |-> <<>>]
FreshEngine == [open |-> <<>>, next_order_id |-> 1]

Init ==
  /\ half \in {"orders", "feed"}
  /\ config \in Configs
  /\ adapters = <<>> /\ result = NoResult
  /\ life = <<>> /\ placed = <<>> /\ filled = <<>> /\ reused = {}
  /\ submitted = 0 /\ refusals = 0 /\ restarts = 0
  /\ now = 1 /\ session = FALSE
  /\ controller = [connected |-> FALSE, attempts |-> 0, dead |-> FALSE]
  /\ tracker = [connected |-> FALSE, subscribed |-> FALSE, last_message |-> 0, last_disconnect |-> 0]
  /\ late = <<>>

----------------------------------------------------------------------------
(* The simulated execution engine                                          *)

\* make_update; a reason is given for a rejection
UpdateFor(id, status, quantity, reason) ==
  [order_id |-> id, status |-> status, filled |-> quantity, reason |-> reason]
Update(id, status, quantity) == UpdateFor(id, status, quantity, "none")

\* clamp_partial_fill_ratio, in halves
Ratio == IF config.ratio < 0 THEN 0 ELSE IF config.ratio > 2 THEN 2 ELSE config.ratio

\* submit: rejected, partly filled and open, or filled
SubmitResult(id, request) ==
  LET invalid == request.type = "market" \/ ~request.priced \/ request.quantity <= 0
      partial == config.threshold > 0 /\ request.quantity >= config.threshold
      part == (request.quantity * Ratio) \div 2
      ack == Update(id, "acknowledged", 0)
  IN  [order_id |-> id,
       updates |-> IF invalid THEN <<UpdateFor(id, "rejected", 0, "invalid")>>
                   ELSE IF partial THEN <<ack, Update(id, "partially_filled", part)>>
                   ELSE <<ack, Update(id, "filled", request.quantity)>>,
       fills |-> IF invalid THEN <<>> ELSE IF partial THEN <<part>> ELSE <<request.quantity>>]

\* emplace: an open order that has this id already stays as it is
OpenAfter(open, id, request, r) ==
  IF r.updates[Len(r.updates)].status = "partially_filled" /\ id \notin DOMAIN open
  THEN Map(open, id, [quantity |-> request.quantity, filled |-> r.fills[1]])
  ELSE open

\* "open order not found", "no execution adapter registered"
NotFound(id) ==
  [order_id |-> id, updates |-> <<UpdateFor(id, "rejected", 0, "not_found")>>, fills |-> <<>>]

\* Mutant: the last fill is of the whole quantity.
CompleteWhole(id, order) ==
  [order_id |-> id, updates |-> <<Update(id, "filled", order.quantity)>>,
   fills |-> <<order.quantity>>]

\* complete_open_order of an order that is open
CompleteResult(id, order) ==
  [order_id |-> id, updates |-> <<Update(id, "filled", order.quantity)>>,
   fills |-> <<order.quantity - order.filled>>]

\* cancel_open_order of an order that is open
CancelResult(id, order) ==
  [order_id |-> id,
   updates |-> <<Update(id, "pending_cancel", order.filled), Update(id, "canceled", order.filled)>>,
   fills |-> <<>>]

----------------------------------------------------------------------------
(* The router and the callers                                              *)

\* What a result adds to the record of an order.
Record(x, r) ==
  LET key == <<x, r.order_id>>
      sum == IF r.fills = <<>> THEN 0 ELSE r.fills[1]
  IN  /\ result' = r
      /\ life' = Map(life, key, (IF key \in DOMAIN life THEN life[key] ELSE <<>>) \o r.updates)
      /\ filled' = Map(filled, key, (IF key \in DOMAIN filled THEN filled[key] ELSE 0) + sum)

\* A request about an order that is not open: it is answered with a rejection
\* that carries the order's id.
Refuse(x, id) ==
  /\ refusals < MaxRefusals
  /\ refusals' = refusals + 1
  /\ Record(x, NotFound(id))
  /\ UNCHANGED adapters

\* register_adapter: one that was there before is gone, with its open orders
RegisterAdapter(x) ==
  /\ half = "orders" /\ submitted < MaxOrders
  /\ adapters' = Map(adapters, x, FreshEngine)
  /\ UNCHANGED <<half, config, result, life, placed, filled, reused, submitted, refusals,
                 restarts, feedVars>>

\* submit of the router; for an exchange without adapter the answer is a
\* rejection that carries the request's id, and there is no order
Submit(x, request) ==
  /\ half = "orders" /\ submitted < MaxOrders
  /\ IF x \in DOMAIN adapters
     THEN LET id == adapters[x].next_order_id
              r == SubmitResult(id, request)
          IN  /\ adapters' = [adapters EXCEPT ![x] =
                   [open |-> OpenAfter(@.open, id, request, r), next_order_id |-> id + 1]]
              /\ placed' = Map(placed, <<x, id>>, request.quantity)
              /\ reused' = IF <<x, id>> \in DOMAIN placed THEN reused \cup {<<x, id>>} ELSE reused
              /\ Record(x, r)
     ELSE /\ result' = NotFound(0)
          /\ UNCHANGED <<adapters, life, placed, filled, reused>>
  /\ submitted' = submitted + 1
  /\ UNCHANGED <<half, config, refusals, restarts, feedVars>>

\* Mutant: the order stays in the map.
FinishKeepsOrder(x, id, r) == Record(x, r) /\ UNCHANGED <<adapters, refusals>>

\* An open order leaves the map with its last result.
Finish(x, id, r) ==
  /\ Record(x, r)
  /\ adapters' = [adapters EXCEPT ![x].open =
                    [o \in DOMAIN adapters[x].open \ {id} |-> adapters[x].open[o]]]
  /\ UNCHANGED refusals

\* complete_open_order of the engine
Complete(x, id) ==
  /\ half = "orders" /\ x \in DOMAIN adapters
  /\ IF id \in DOMAIN adapters[x].open
     THEN Finish(x, id, CompleteResult(id, adapters[x].open[id]))
     ELSE Refuse(x, id)
  /\ UNCHANGED <<half, config, placed, reused, submitted, restarts, feedVars>>

\* cancel of the router and of the adapter
Cancel(x, id) ==
  /\ half = "orders"
  /\ IF x \in DOMAIN adapters /\ id \in DOMAIN adapters[x].open
     THEN Finish(x, id, CancelResult(id, adapters[x].open[id]))
     ELSE Refuse(x, id)
  /\ UNCHANGED <<half, config, placed, reused, submitted, restarts, feedVars>>

\* A new process registers the adapter anew and restores what was open
\* (restore_open_order); the engine numbers from 1 again.
Restart(x) ==
  /\ half = "orders" /\ restarts < MaxRestarts
  /\ x \in DOMAIN adapters
  /\ adapters' = [y \in {x} |-> [open |-> adapters[x].open, next_order_id |-> 1]]
  /\ restarts' = restarts + 1
  /\ UNCHANGED <<half, config, result, life, placed, filled, reused, submitted, refusals,
                 feedVars>>

----------------------------------------------------------------------------
(* The feed controller and the health tracker                              *)

OnConnect(t) == [t EXCEPT !.connected = TRUE, !.subscribed = FALSE]
OnSubscribeSuccess(t) == [t EXCEPT !.connected = TRUE, !.subscribed = TRUE]
OnMessage(t, timestamp) ==
  [t EXCEPT !.connected = TRUE, !.subscribed = TRUE, !.last_message = timestamp]
OnDisconnect(t) ==
  [t EXCEPT !.connected = FALSE, !.subscribed = FALSE, !.last_disconnect = now]

Feed == half = "feed" /\ now <= LastEvent

\* start, which is called once
StartFeed ==
  /\ Feed /\ ~session /\ controller.attempts = 0 /\ ~controller.dead
  /\ session' = TRUE
  /\ controller' = [controller EXCEPT !.connected = TRUE]
  /\ tracker' = OnConnect(tracker)
  /\ UNCHANGED <<half, orderVars, now, late>>

Subscribed ==
  /\ Feed /\ session /\ ~tracker.subscribed
  /\ tracker' = OnSubscribeSuccess(tracker)
  /\ UNCHANGED <<half, orderVars, now, session, controller, late>>

\* A message arrives; the tracker hears of it later.
Receive ==
  /\ Feed /\ session /\ Len(late) < MaxLate
  /\ late' = Append(late, now)
  /\ UNCHANGED <<half, orderVars, now, session, controller, tracker>>

Message ==
  /\ half = "feed" /\ late # <<>>
  /\ tracker' = OnMessage(tracker, Head(late))
  /\ late' = Tail(late)
  /\ UNCHANGED <<half, orderVars, now, session, controller>>

\* handle_disconnect, when the connection is lost or after an attempt that
\* failed: it gives up, or reconnects; session_.connect may throw.
HandleDisconnect(reconnects) ==
  /\ Feed /\ ~controller.dead
  /\ controller.connected \/ controller.attempts > 0
  /\ IF controller.attempts >= MaxReconnects
     THEN /\ controller' = [controller EXCEPT !.connected = FALSE, !.dead = TRUE]
          /\ session' = FALSE
          /\ tracker' = OnDisconnect(tracker)
     ELSE /\ controller' = [controller EXCEPT !.connected = reconnects, !.attempts = @ + 1]
          /\ session' = reconnects
          /\ tracker' = IF reconnects THEN OnConnect(OnDisconnect(tracker)) ELSE OnDisconnect(tracker)
  /\ UNCHANGED <<half, orderVars, now, late>>

\* Mutant: an old message is as good as a new one.
StatusIgnoresAge ==
  IF ~tracker.connected /\ tracker.last_disconnect = 0 THEN "unknown"
  ELSE IF ~tracker.connected /\ now - tracker.last_disconnect > Grace THEN "unavailable"
  ELSE IF ~tracker.connected \/ ~tracker.subscribed THEN "degraded"
  ELSE IF tracker.last_message = 0 THEN "unknown"
  ELSE "healthy"

\* status
Status ==
  IF ~tracker.connected /\ tracker.last_disconnect = 0 THEN "unknown"
  ELSE IF ~tracker.connected /\ now - tracker.last_disconnect > Grace THEN "unavailable"
  ELSE IF ~tracker.connected \/ ~tracker.subscribed THEN "degraded"
  ELSE IF tracker.last_message = 0 THEN "unknown"
  ELSE IF now - tracker.last_message > StaleAfter THEN "degraded"
  ELSE "healthy"

MaxNow == LastEvent + StaleAfter + Grace + 1

Tick ==
  /\ half = "feed" /\ now < MaxNow
  /\ now' = now + 1
  /\ UNCHANGED <<half, orderVars, session, controller, tracker, late>>

----------------------------------------------------------------------------
Requests == [type: {"limit", "market"}, priced: BOOLEAN, quantity: Quantities]

Next ==
  \/ \E x \in Venues : RegisterAdapter(x) \/ Restart(x)
  \/ \E x \in Exchanges, r \in Requests : Submit(x, r)
  \/ \E x \in Exchanges, id \in 0..MaxOrders : Complete(x, id) \/ Cancel(x, id)
  \/ StartFeed \/ Subscribed \/ Receive \/ Message \/ Tick
  \/ \E reconnects \in BOOLEAN : HandleDisconnect(reconnects)

\* Time goes on, and a message that was received is handled.
Spec == Init /\ [][Next]_vars /\ WF_vars(Tick) /\ WF_vars(Message)

----------------------------------------------------------------------------
(* Properties                                                              *)

Closed == {"filled", "canceled", "rejected"}

\* An answer that no open order has this id.  It says rejected and nothing
\* filled, whatever became of the order.
IsRefusal(u) == u.reason = "not_found"

\* The n-th update is the last that an order itself has caused.
IsLastReport(s, n) == ~IsRefusal(s[n]) /\ \A m \in (n + 1)..Len(s) : IsRefusal(s[m])

\* Over any sequence of submits, completions, cancels, restarts and restores,
\* the fills of an order add up to the filled quantity of its last report, never
\* to more than its quantity, and to all of it when it is filled: as long as
\* its id was not given to a second order.  Refusals of requests that came too
\* early or too late are no reports of the order, though they carry its id.
FillsMatchReports ==
  \A key \in DOMAIN placed \ reused : \E n \in DOMAIN life[key] :
    /\ IsLastReport(life[key], n)
    /\ filled[key] = life[key][n].filled
    /\ filled[key] <= placed[key] \/ life[key][n].status = "rejected"
    /\ life[key][n].status = "filled" => filled[key] = placed[key]

\* Nothing reopens or closes an order twice: after the report that closed it,
\* in this process or an earlier one, completing or canceling it is only ever
\* refused; again unless its id was given to a second order.
ClosedStaysClosed ==
  \A key \in DOMAIN placed \ reused : \A i, j \in DOMAIN life[key] :
    i < j /\ life[key][i].status \in Closed /\ ~IsRefusal(life[key][i])
      => IsRefusal(life[key][j])

\* A feed that gave up is in the end shown as degraded or unavailable, for good,
\* even when messages from before the disconnect still come in and make the
\* tracker believe it is connected.
DeadFeedShows == controller.dead ~> [](Status \in {"degraded", "unavailable"})
=============================================================================
