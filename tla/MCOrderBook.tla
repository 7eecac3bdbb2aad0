---------------------------- MODULE MCOrderBook ----------------------------
(* A small instance of OrderBook: three ids, two price levels and the      *)
(* invalid price, quantities on both sides of the tolerance.               *)
EXTENDS OrderBook

MCOrderIds == 1..3
MCPrices == {0, 10, 20}
MCQuantities == {0, 2, 5}
=============================================================================
