----------------------------- MODULE OrderBook -----------------------------
(***************************************************************************)
(* The local limit order book of one instrument as the code keeps it       *)
(* (order_book.cpp): two maps from price to a deque of resting orders, an  *)
(* index from order id to the side and price where the order rests, a      *)
(* count, and the arrival counter.  Every operation has to keep the four   *)
(* in step, including the removal of a level when its deque empties.       *)
(*                                                                         *)
(* The specification implements PriceTimeBook under the refinement mapping *)
(* at the end of the module.                                               *)
(***************************************************************************)
EXTENDS RestingOrders, SequencesExt

CONSTANTS OrderIds,         \* ids a caller may use
          Prices,           \* prices a caller may ask for, 0 = none
          Quantities,       \* quantities a caller may ask for
          MaxAdds           \* bound on successful add_order calls

ASSUME BookAssumption ==
  Prices \subseteq Nat /\ Quantities \subseteq Nat /\ MaxAdds \in Nat

VARIABLES levels,           \* levels[side]: bid_levels_ and ask_levels_
          order_index,      \* order_index_: id -> [side, price]
          order_count,      \* order_count_
          next_seq,         \* next_sequence_number_
          returned          \* what the last call returned

vars == <<levels, order_index, order_count, next_seq, returned>>

Init ==
  /\ levels = [side \in Sides |-> <<>>]
  /\ order_index = <<>>
  /\ order_count = 0
  /\ next_seq = 1
  /\ returned = TRUE

Refuse ==
  /\ returned' = FALSE
  /\ UNCHANGED <<levels, order_index, order_count, next_seq>>

\* map[key] = value, and map.erase(key).
With(f, key, value) ==
  [x \in DOMAIN f \cup {key} |-> IF x = key THEN value ELSE f[x]]

Without(f, key) == Restrict(f, DOMAIN f \ {key})

\* levels[price], which starts as an empty deque.
Deque(side, price) ==
  IF price \in DOMAIN levels[side] THEN levels[side][price] ELSE <<>>

\* The positions at which an order with this id stands in one deque.
Positions(orders, id) == {i \in DOMAIN orders : orders[i].id = id}

\* Mutant: the front of the deque is erased whatever the iterator.
EraseFront(side, price, i) ==
  LET rest == Tail(levels[side][price])
  IN  IF rest = <<>> THEN Without(levels[side], price)
                     ELSE [levels[side] EXCEPT ![price] = rest]

\* orders.erase(it), and levels.erase(level) when that leaves the deque empty.
EraseAt(side, price, i) ==
  LET rest == RemoveAt(levels[side][price], i)
  IN  IF rest = <<>> THEN Without(levels[side], price)
                     ELSE [levels[side] EXCEPT ![price] = rest]

\* Mutant: the new order is put at the front of its level.
PushFront(side, price, order) ==
  With(levels[side], price, <<order>> \o Deque(side, price))

\* levels[price].push_back(order)
PushBack(side, price, order) ==
  With(levels[side], price, Append(Deque(side, price), order))

AddOrder(id, side, price, quantity, filled) ==
  IF /\ price > 0
     /\ quantity > 0
     /\ filled + Tolerance < quantity
     /\ id \notin DOMAIN order_index
  THEN /\ next_seq <= MaxAdds
       /\ levels' = [levels EXCEPT ![side] =
            PushBack(side, price, [id |-> id, side |-> side, price |-> price,
                                   remaining |-> Less(quantity, filled),
                                   seq |-> next_seq])]
       /\ order_index' = With(order_index, id, [side |-> side, price |-> price])
       /\ order_count' = order_count + 1
       /\ next_seq' = next_seq + 1
       /\ returned' = TRUE
  ELSE Refuse

\* The locator of id leads to the order: the lookups every operation starts with.
Located(id) ==
  /\ id \in DOMAIN order_index
  /\ LET at == order_index[id]
     IN  /\ at.price \in DOMAIN levels[at.side]
         /\ Positions(levels[at.side][at.price], id) # {}

\* Mutant: the count is taken down before the order is known to be found.
CancelOrderCountsFirst(id) ==
  /\ order_count' = order_count - 1
  /\ IF Located(id)
     THEN LET at == order_index[id]
              i  == Min(Positions(levels[at.side][at.price], id))
          IN  /\ levels' = [levels EXCEPT ![at.side] = EraseAt(at.side, at.price, i)]
              /\ order_index' = Without(order_index, id)
              /\ returned' = TRUE
              /\ UNCHANGED next_seq
     ELSE /\ returned' = FALSE
          /\ UNCHANGED <<levels, order_index, next_seq>>

CancelOrder(id) ==
  IF Located(id)
  THEN LET at == order_index[id]
           i  == Min(Positions(levels[at.side][at.price], id))
       IN  /\ levels' = [levels EXCEPT ![at.side] = EraseAt(at.side, at.price, i)]
           /\ order_index' = Without(order_index, id)
           /\ order_count' = order_count - 1
           /\ returned' = TRUE
           /\ UNCHANGED next_seq
  ELSE Refuse

\* Mutant: a consumed order leaves its level but stays in the index.
ApplyFillKeepsIndex(id, executed) ==
  IF executed > Tolerance /\ Located(id)
  THEN LET at    == order_index[id]
           i     == Min(Positions(levels[at.side][at.price], id))
           order == levels[at.side][at.price][i]
           left  == Less(order.remaining, executed)
       IN  IF executed > order.remaining + Tolerance
           THEN Refuse
           ELSE /\ levels' = [levels EXCEPT ![at.side] =
                     IF left > Tolerance
                     THEN [@ EXCEPT ![at.price][i].remaining = left]
                     ELSE EraseAt(at.side, at.price, i)]
                /\ returned' = TRUE
                /\ UNCHANGED <<order_index, order_count, next_seq>>
  ELSE Refuse

ApplyFill(id, executed) ==
  IF executed > Tolerance /\ Located(id)
  THEN LET at    == order_index[id]
           i     == Min(Positions(levels[at.side][at.price], id))
           order == levels[at.side][at.price][i]
           left  == Less(order.remaining, executed)
       IN  IF executed > order.remaining + Tolerance
           THEN Refuse
           ELSE /\ IF left > Tolerance
                   THEN /\ levels' = [levels EXCEPT ![at.side][at.price][i].remaining = left]
                        /\ UNCHANGED <<order_index, order_count>>
                   ELSE /\ levels' = [levels EXCEPT ![at.side] = EraseAt(at.side, at.price, i)]
                        /\ order_index' = Without(order_index, id)
                        /\ order_count' = order_count - 1
                /\ returned' = TRUE
                /\ UNCHANGED next_seq
  ELSE Refuse

Next ==
  \/ \E id \in OrderIds, side \in Sides, price \in Prices,
        quantity \in Quantities, filled \in Quantities :
       AddOrder(id, side, price, quantity, filled)
  \/ \E id \in OrderIds : CancelOrder(id)
  \/ \E id \in OrderIds, executed \in Quantities : ApplyFill(id, executed)

Spec == Init /\ [][Next]_vars

----------------------------------------------------------------------------
(* The queries: begin() of the bid map is its highest price, begin() of    *)
(* the ask map its lowest; front() is the oldest order of that level.      *)

FirstPrice(side) ==
  IF side = "buy" THEN Max(DOMAIN levels[side]) ELSE Min(DOMAIN levels[side])

BestOrder(side) ==
  IF DOMAIN levels[side] = {} \/ levels[side][FirstPrice(side)] = <<>>
  THEN {}
  ELSE {Head(levels[side][FirstPrice(side)])}

----------------------------------------------------------------------------
\* Every resting order of both maps.
Resting ==
  UNION {UNION {Range(levels[side][p]) : p \in DOMAIN levels[side]} : side \in Sides}

(***************************************************************************)
(* Type correctness of the two maps, the index, the count and the arrival  *)
(* counter of order_book.cpp.                                              *)
(***************************************************************************)
TypeOK ==
  /\ \A side \in Sides :
       /\ DOMAIN levels[side] \subseteq Prices \ {0}
       /\ \A p \in DOMAIN levels[side] : levels[side][p] \in Seq(RestingOrder(OrderIds))
  /\ DOMAIN order_index \subseteq OrderIds
  /\ \A id \in DOMAIN order_index : order_index[id] \in [side: Sides, price: Prices]
  /\ order_count \in Nat
  /\ next_seq \in 1..(MaxAdds + 1)
  /\ returned \in BOOLEAN

(***************************************************************************)
(* order_index_, order_count_ and the two level maps never drift apart:    *)
(* the index knows exactly the resting orders and where each one rests, no *)
(* id rests twice, the count counts them, no empty deque is left in a map  *)
(* (best_bid_order would then hide every deeper level), and nothing rests  *)
(* with a quantity that later calls would treat as zero.                   *)
(***************************************************************************)
BookConsistent ==
  /\ DOMAIN order_index = {r.id : r \in Resting}
  /\ \A r \in Resting :
       /\ order_index[r.id] = [side |-> r.side, price |-> r.price]
       /\ r \in Range(levels[r.side][r.price])
       /\ r.remaining > Tolerance
  /\ order_count = Cardinality(DOMAIN order_index)
  /\ order_count = Cardinality(Resting)
  /\ \A side \in Sides : \A p \in DOMAIN levels[side] : levels[side][p] # <<>>

(***************************************************************************)
(* "deterministic price-time ordering" (order_book.hpp): the front of the  *)
(* first level is the one order of its side that no other order of the     *)
(* side precedes by price and then by arrival, and there is one whenever   *)
(* the side is not empty, whatever adds, partial fills and cancellations   *)
(* came before.                                                            *)
(***************************************************************************)
BestIsPriceTimeFirst ==
  \A side \in Sides :
    /\ BestOrder(side) = BestOrders(Resting, side)
    /\ BestOrder(side) = {} => \A r \in Resting : r.side # side

(***************************************************************************)
(* The maps, the index and the scans of a deque implement the abstract     *)
(* set of resting orders: a call that succeeds changes exactly the order   *)
(* it names, by exactly what it says, and leaves every other order as it   *)
(* was; a call that is refused changes nothing.                            *)
(***************************************************************************)
Abstract == INSTANCE PriceTimeBook WITH resting <- Resting

ImplementsPriceTimeBook == Abstract!Spec
=============================================================================
