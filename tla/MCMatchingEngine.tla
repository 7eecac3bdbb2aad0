-------------------------- MODULE MCMatchingEngine --------------------------
(* A small instance of MatchingEngine with a tolerance of one unit, so     *)
(* that residuals within, at and beyond the tolerance all occur.           *)
EXTENDS MatchingEngine

CONSTANTS i1, i2

Limit(i, side, price, quantity) ==
  [instrument |-> i, side |-> side, type |-> "limit", price |-> price,
   quantity |-> quantity]

MCInstruments == {i1, i2}

(* Two crossing prices one unit apart, quantities whose differences are    *)
(* within (4 - 3) and beyond (6 - 4) the tolerance, a request the engine   *)
(* treats as nothing (1), the refusals, and the second instrument.         *)
MCRequests ==
  {Limit(i1, side, price, quantity) :
     side \in Sides, price \in {10, 11}, quantity \in {3, 4, 6}}
  \cup {Limit(i1, "buy", 10, 1), Limit(i1, "buy", 0, 3), Limit(i2, "sell", 10, 3),
        [Limit(i1, "sell", 10, 3) EXCEPT !.type = "market"]}

L(price, quantity) == [price |-> price, quantity |-> quantity]

MCMarketEvents ==
  {[instrument |-> i1, ask_levels |-> <<L(10, 3), L(12, 4)>>, bid_levels |-> <<>>],
   [instrument |-> i1, ask_levels |-> <<L(11, 1)>>, bid_levels |-> <<L(10, 8), L(9, 2)>>],
   [instrument |-> i2, ask_levels |-> <<>>, bid_levels |-> <<L(10, 3)>>]}
=============================================================================
