----------------------------- MODULE MarketData -----------------------------
(***************************************************************************)
(* The market state store (market_state_store.cpp), as operators on the    *)
(* state of one instrument, and the checks of the risk engine              *)
(* (risk_engine.cpp), which reads it.  0 stands for a price or quantity    *)
(* that is missing or not positive; a last trade price is a fraction,      *)
(* because recovery puts an average entry price there.  The levels and the *)
(* exchange and receive timestamps of a state are never read.              *)
(***************************************************************************)
EXTENDS Portfolio, Sequences

CONSTANTS KillSwitch, MaxOrderQuantity, MaxPositionQuantity, MaxOrderNotional,
          StaleAfter        \* RiskConfig

NoState == [best_bid |-> 0, best_ask |-> 0, last_trade |-> Zero, timestamp |-> 0]

\* The best price of an event: the first level, else the quoted price.
BestOf(levels, quoted) == IF levels # <<>> THEN levels[1].price ELSE quoted

Given(new, old) == IF new # 0 THEN new ELSE old

\* MarketStateStore::apply on the state of the event's instrument
Apply(state, event) ==
  IF state.timestamp > 0 /\ event.timestamp < state.timestamp
  THEN state
  ELSE [best_bid   |-> Given(BestOf(event.bid_levels, event.bid), state.best_bid),
        best_ask   |-> Given(BestOf(event.ask_levels, event.ask), state.best_ask),
        last_trade |-> IF event.quantity > 0 /\ event.price > 0
                       THEN Whole(event.price) ELSE state.last_trade,
        timestamp  |-> event.timestamp]

\* is_stale, for the states of all instruments seen
IsStale(market, i, now) ==
  i \notin DOMAIN market \/ now - market[i].timestamp > StaleAfter

\* resolve_reference_price; Zero when there is none.  The price of a request is
\* an optional: here 0 when missing, else positive (no request has a price of 0).
ReferencePrice(market, request) ==
  IF request.price # 0 THEN Whole(request.price)
                       ELSE At(market, request.instrument, NoState).last_trade

\* RiskEngine::evaluate
Approved(market, request, now) ==
  LET reference == ReferencePrice(market, request)
  IN  /\ ~KillSwitch
      /\ request.quantity > 0
      /\ request.quantity <= MaxOrderQuantity
      /\ request.quantity <= MaxPositionQuantity
      /\ ~IsStale(market, request.instrument, now)
      /\ reference # Zero
      /\ request.quantity * reference[1] <= MaxOrderNotional * reference[2]
=============================================================================
