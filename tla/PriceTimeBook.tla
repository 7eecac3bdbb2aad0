--------------------------- MODULE PriceTimeBook ---------------------------
(***************************************************************************)
(* The abstract specification of one instrument's limit order book: a set  *)
(* of resting orders, the arrival counter, and the Boolean the last call   *)
(* returned.  OrderBook.tla implements it.                                 *)
(***************************************************************************)
EXTENDS RestingOrders

CONSTANTS OrderIds,         \* ids a caller may use
          Prices,           \* prices a caller may ask for, 0 = none
          Quantities,       \* quantities a caller may ask for
          MaxAdds           \* bound on successful add_order calls

VARIABLES resting,          \* the set of resting orders
          next_seq,         \* next_sequence_number_
          returned          \* what the last call returned

vars == <<resting, next_seq, returned>>

Init ==
  /\ resting = {}
  /\ next_seq = 1
  /\ returned = TRUE

Refuse ==
  /\ returned' = FALSE
  /\ UNCHANGED <<resting, next_seq>>

AddOrder(id, side, price, quantity, filled) ==
  IF IsRequestCompatible(resting, id, price, quantity, filled)
  THEN /\ next_seq <= MaxAdds
       /\ resting' = WithOrder(resting, id, side, price, quantity, filled, next_seq)
       /\ next_seq' = next_seq + 1
       /\ returned' = TRUE
  ELSE Refuse

CancelOrder(id) ==
  IF \E r \in resting : r.id = id
  THEN /\ resting' = {r \in resting : r.id # id}
       /\ returned' = TRUE
       /\ UNCHANGED next_seq
  ELSE Refuse

ApplyFill(id, executed) ==
  IF \E r \in resting : r.id = id /\ AcceptsFill(r, executed)
  THEN /\ \E r \in resting : r.id = id /\ resting' = WithFill(resting, r, executed)
       /\ returned' = TRUE
       /\ UNCHANGED next_seq
  ELSE Refuse

Next ==
  \/ \E id \in OrderIds, side \in Sides, price \in Prices,
        quantity \in Quantities, filled \in Quantities :
       AddOrder(id, side, price, quantity, filled)
  \/ \E id \in OrderIds : CancelOrder(id)
  \/ \E id \in OrderIds, executed \in Quantities : ApplyFill(id, executed)

Spec == Init /\ [][Next]_vars
=============================================================================
