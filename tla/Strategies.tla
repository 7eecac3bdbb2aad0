----------------------------- MODULE Strategies -----------------------------
(***************************************************************************)
(* The strategies and their coordinator (strategy/*.cpp).  The state of    *)
(* the coordinator's slots is a record                                     *)
(*    [latched, paused]                                                    *)
(* of two functions on the strategies, latched being has_emitted_signal_.  *)
(* A strategy of kind "plugin" is any other implementation of IStrategy:   *)
(* it answers an event with one of PluginRequests, with nothing, or throws.*)
(* A slot's counters of handled events, requests and failures feed         *)
(* reports only.                                                           *)
(***************************************************************************)
EXTENDS MarketData

CONSTANTS StrategySlots,    \* sequence of strategy configurations
          PluginRequests    \* what a plugin may ask for

Slots == 1..Len(StrategySlots)

IsMarket(event) == event.kind = "market"

LimitRequest(config, price) ==
  [instrument |-> config.instrument, side |-> config.side, type |-> "limit",
   price |-> price, quantity |-> config.quantity]

\* SampleThresholdStrategy: the price it would trade at, 0 for none
ThresholdSignal(config, event, market) ==
  LET reached == IF config.side = "buy" THEN event.price <= config.trigger
                                        ELSE event.price >= config.trigger
  IN  IF /\ event.instrument = config.instrument
         /\ event.price > 0
         /\ config.instrument \in DOMAIN market
         /\ reached
      THEN event.price ELSE 0

\* SpreadCaptureStrategy: the price it would trade at, 0 for none
SpreadSignal(config, event, market) ==
  LET state == At(market, config.instrument, NoState)
  IN  IF /\ event.instrument = config.instrument
         /\ state.best_bid # 0
         /\ state.best_ask # 0
         /\ state.best_ask - state.best_bid >= config.trigger
      THEN IF config.side = "buy" THEN state.best_bid ELSE state.best_ask
      ELSE 0

Signal(config, event, market) ==
  IF config.kind = "threshold" THEN ThresholdSignal(config, event, market)
                               ELSE SpreadSignal(config, event, market)

\* The strategy turns this event into a request and latches.
Emits(slots, s, event, market) ==
  /\ IsMarket(event)
  /\ ~slots.latched[s]
  /\ Signal(StrategySlots[s], event, market) # 0

\* on_event of one built-in strategy: its request, if any
RequestsOf(slots, s, event, market) ==
  IF Emits(slots, s, event, market)
  THEN <<LimitRequest(StrategySlots[s], Signal(StrategySlots[s], event, market))>>
  ELSE <<>>

\* has_emitted_signal_ after on_event
LatchOf(slots, s, event, market) ==
  IF event.kind = "reset_strategy" THEN FALSE
  ELSE slots.latched[s] \/ Emits(slots, s, event, market)

(***************************************************************************)
(* StrategyCoordinator::on_event, for one slot.  A reply says what the     *)
(* strategy does: it throws, or returns requests (a plugin at most one).   *)
(* A paused slot sees nothing; one that throws is paused.                  *)
(***************************************************************************)
IsPlugin(s) == StrategySlots[s].kind = "plugin"

PluginReplies ==
  {[throws |-> TRUE, requests |-> <<>>], [throws |-> FALSE, requests |-> <<>>]}
    \cup {[throws |-> FALSE, requests |-> <<r>>] : r \in PluginRequests}

Active(slots, s) == ~slots.paused[s]

Replies(slots, s, event, market) ==
  IF IsPlugin(s) THEN PluginReplies
                 ELSE {[throws |-> FALSE, requests |-> RequestsOf(slots, s, event, market)]}

SlotAfter(slots, s, event, market, reply) ==
  [latched |-> [slots.latched EXCEPT ![s] = IF IsPlugin(s) THEN @
                                            ELSE LatchOf(slots, s, event, market)],
   paused  |-> [slots.paused EXCEPT ![s] = reply.throws]]

FreshSlots == [latched |-> [s \in Slots |-> FALSE], paused |-> [s \in Slots |-> FALSE]]

\* the paused flag of one slot is set
WithPaused(slots, s, value) == [slots EXCEPT !.paused[s] = value]
=============================================================================
