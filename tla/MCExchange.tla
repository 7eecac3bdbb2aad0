----------------------------- MODULE MCExchange -----------------------------
(* Settings that never fill in part, that fill halves, and that the clamp   *)
(* turns into a partial fill of everything; a quantity that is not positive.*)
EXTENDS Exchange

MCConfigs ==
  {[threshold |-> 0, ratio |-> 1], [threshold |-> 4, ratio |-> 1], [threshold |-> 2, ratio |-> 3]}
=============================================================================
