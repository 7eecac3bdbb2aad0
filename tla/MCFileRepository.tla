-------------------------- MODULE MCFileRepository --------------------------
(* Amounts of 1.5 and of 123.456789, which no column but the exact ones     *)
(* keeps; profits of either sign, one that is rounded up to a new digit;    *)
(* for the violation, an intent without a price.                            *)
EXTENDS FileRepository

MCAmounts == {15000000, 1234567890}
MCPrices == {<<>>, <<1234567890>>}
MCProfits == {-25000000, 99999950}
MCIntentPrices == {<<1234567890>>}
MCReasons == {<<>>, <<5>>}
=============================================================================
