--------------------------- MODULE RestingOrders ---------------------------
(***************************************************************************)
(* What the local order book promises, as operators on a set of resting    *)
(* orders (order_book.cpp).  A resting order is a record                   *)
(*    [id, side, price, remaining, seq]                                    *)
(* and a book is a set of them.  Prices and quantities are natural numbers *)
(* counted in one unit, so that Tolerance, the code's kQuantityTolerance   *)
(* (1e-9), is a number of those units; the code compares quantities and,   *)
(* against external levels, prices with the same constant.  0 stands for a *)
(* price that is missing or not positive.  OrderBook.tla shows that the    *)
(* levels, deques and index of the code implement these operators.         *)
(***************************************************************************)
EXTENDS Integers

CONSTANT Tolerance          \* kQuantityTolerance

ASSUME ToleranceAssumption == Tolerance \in Nat

Sides == {"buy", "sell"}

Opposite(side) == IF side = "buy" THEN "sell" ELSE "buy"

Smaller(a, b) == IF a <= b THEN a ELSE b

\* std::max(0.0, a - b)
Less(a, b) == IF b >= a THEN 0 ELSE a - b

RestingOrder(Ids) ==
  [id: Ids, side: Sides, price: Nat, remaining: Nat, seq: Nat]

(***************************************************************************)
(* Price-time ordering of two orders on one side: the level maps are       *)
(* ordered by std::greater for bids and std::less for asks, and each level *)
(* is a deque in order of arrival.                                         *)
(***************************************************************************)
Better(r, o) ==
  \/ r.side = "buy"  /\ r.price > o.price
  \/ r.side = "sell" /\ r.price < o.price
  \/ r.price = o.price /\ r.seq < o.seq

\* best_bid_order and best_ask_order: the set is empty or a singleton.
BestOrders(book, side) ==
  {r \in book : /\ r.side = side
                /\ \A o \in book : o.side = side /\ o # r => Better(r, o)}

\* is_request_compatible, for a limit order of the book's own instrument.
IsRequestCompatible(book, id, price, quantity, filled) ==
  /\ price > 0
  /\ quantity > 0
  /\ filled + Tolerance < quantity
  /\ \A r \in book : r.id # id

\* The book after a successful add_order.
WithOrder(book, id, side, price, quantity, filled, seq) ==
  book \cup {[id |-> id, side |-> side, price |-> price,
              remaining |-> Less(quantity, filled), seq |-> seq]}

\* The early returns of apply_fill, once the order has been found.
AcceptsFill(r, executed) ==
  /\ executed > Tolerance
  /\ executed <= r.remaining + Tolerance

\* The book after apply_fill took executed from order r of it.
WithFill(book, r, executed) ==
  LET left == Less(r.remaining, executed)
  IN  (book \ {r}) \cup (IF left > Tolerance
                         THEN {[r EXCEPT !.remaining = left]}
                         ELSE {})
=============================================================================
