----------------------------- MODULE MCRuntime -----------------------------
(* One instrument, a buying threshold strategy and a selling spread        *)
(* strategy that can trade with each other, and events that trigger both,  *)
(* fill what rests on either side, and arrive with an old timestamp.       *)
EXTENDS Runtime, TLC

CONSTANTS btc

MCInstruments == {btc}
MCBase == btc :> "BTC"

MarketEvent(price, bid, ask, bid_levels, ask_levels, timestamp) ==
  [kind |-> "market", instrument |-> btc, price |-> price, quantity |-> 1, bid |-> bid,
   ask |-> ask, bid_levels |-> bid_levels, ask_levels |-> ask_levels,
   timestamp |-> timestamp]

L(price, quantity) == [price |-> price, quantity |-> quantity]

MCFeed ==
  {MarketEvent(5, 3, 4, <<>>, <<>>, 4),
   MarketEvent(0, 0, 0, <<>>, <<L(5, 2)>>, 5),
   MarketEvent(0, 0, 0, <<L(7, 3)>>, <<>>, 5)}

MCStrategySlots ==
  <<[kind |-> "threshold", instrument |-> btc, side |-> "buy", trigger |-> 5, quantity |-> 3],
    [kind |-> "spread", instrument |-> btc, side |-> "sell", trigger |-> 2, quantity |-> 1],
    [kind |-> "plugin"]>>

MCPluginRequests ==
  {[instrument |-> btc, side |-> "sell", type |-> "limit", price |-> 5, quantity |-> 3],
   [instrument |-> btc, side |-> "buy", type |-> "market", price |-> 0, quantity |-> 1]}

MCSnapshots ==
  {{}, {[instrument |-> btc, bid |-> 3, ask |-> 4, trade |-> 4, timestamp |-> 4]}}
=============================================================================
