-------------------------- MODULE OrderBookProofs --------------------------
(***************************************************************************)
(* Proofs about the local order book, for every set of ids, prices and     *)
(* quantities and every bound on the number of adds: the two level maps,   *)
(* the index, the count and the arrival counter never drift apart, the     *)
(* front of the first level is the price-time first order, and the maps    *)
(* implement the abstract set of resting orders of PriceTimeBook.          *)
(*                                                                         *)
(* Every operation replaces one deque (LevelBecomes), which changes the    *)
(* set of resting orders by the difference of the two deques               *)
(* (RestingBecomes); the rest is about that set.                           *)
(***************************************************************************)
EXTENDS OrderBook, SequenceTheorems, FiniteSetTheorems, WellFoundedInduction, TLAPS

Order == RestingOrder(OrderIds)

\* The prices of one side's map, and the types of the state.
Types ==
  /\ DOMAIN levels = Sides
  /\ \A side \in Sides :
       /\ DOMAIN levels[side] \subseteq Prices \ {0}
       /\ \A p \in DOMAIN levels[side] :
            levels[side][p] \in Seq(Order) /\ levels[side][p] # <<>>
  /\ DOMAIN order_index \subseteq OrderIds
  /\ \A id \in DOMAIN order_index : order_index[id] \in [side: Sides, price: Prices]
  /\ next_seq \in 1..(MaxAdds + 1)
  /\ returned \in BOOLEAN

\* An order rests where its own side and price say.
Placed ==
  \A side \in Sides : \A p \in DOMAIN levels[side] :
    \A r \in Range(levels[side][p]) : r.side = side /\ r.price = p

\* A deque is in order of arrival.
Sorted(orders) ==
  \A i \in 1..Len(orders) : \A j \in 1..Len(orders) : i < j => orders[i].seq < orders[j].seq

Arrival ==
  \A side \in Sides : \A p \in DOMAIN levels[side] : Sorted(levels[side][p])

\* What a resting order has in hand, and that its number has been given out.
Alive == \A r \in Resting : r.remaining > Tolerance /\ r.seq < next_seq

\* No id rests twice, and the index knows the resting ids and their places.
Indexed ==
  /\ \A r \in Resting : \A o \in Resting : r.id = o.id => r = o
  /\ DOMAIN order_index = {r.id : r \in Resting}
  /\ \A r \in Resting : order_index[r.id] = [side |-> r.side, price |-> r.price]

Counted ==
  IsFiniteSet(DOMAIN order_index) /\ order_count = Cardinality(DOMAIN order_index)

\* A map has a highest price.
Bounded ==
  \E n \in Nat : \A side \in Sides : \A p \in DOMAIN levels[side] : p <= n

IInv == Types /\ Placed /\ Arrival /\ Alive /\ Indexed /\ Counted /\ Bounded

----------------------------------------------------------------------------
(***************************************************************************)
(* What erase leaves of a deque: one order fewer, the others in order.     *)
(***************************************************************************)
LEMMA RemoveAtFacts ==
  ASSUME NEW S, NEW s \in Seq(S), NEW i \in 1..Len(s)
  PROVE  /\ RemoveAt(s, i) \in Seq(S)
         /\ Len(RemoveAt(s, i)) = Len(s) - 1
         /\ \A j \in 1..(Len(s) - 1) :
              RemoveAt(s, i)[j] = IF j < i THEN s[j] ELSE s[j + 1]
<1> DEFINE a == SubSeq(s, 1, i - 1)
<1> DEFINE b == SubSeq(s, i + 1, Len(s))
<1>1. Len(s) \in Nat /\ \A j \in 1..Len(s) : s[j] \in S
  BY LenProperties, ElementOfSeq
<1>2. /\ a \in Seq(S)
      /\ Len(a) = i - 1
      /\ \A j \in 1..(i - 1) : a[j] = s[j]
  <2>1. \A j \in 1..(i - 1) : s[j] \in S
    BY <1>1
  <2>2. /\ a \in Seq(S)
        /\ Len(a) = IF 1 <= i - 1 THEN (i - 1) - 1 + 1 ELSE 0
        /\ \A j \in 1..((i - 1) - 1 + 1) : a[j] = s[1 + j - 1]
    BY <1>1, <2>1, SubSeqProperties
  <2> QED BY <1>1, <2>2
<1>3. /\ b \in Seq(S)
      /\ Len(b) = Len(s) - i
      /\ \A j \in 1..(Len(s) - i) : b[j] = s[i + j]
  <2>1. \A j \in (i + 1)..Len(s) : s[j] \in S
    BY <1>1
  <2>2. /\ b \in Seq(S)
        /\ Len(b) = IF i + 1 <= Len(s) THEN Len(s) - (i + 1) + 1 ELSE 0
        /\ \A j \in 1..(Len(s) - (i + 1) + 1) : b[j] = s[(i + 1) + j - 1]
    BY <1>1, <2>1, SubSeqProperties
  <2> QED BY <1>1, <2>2
<1>4. RemoveAt(s, i) = a \o b
  BY DEF RemoveAt
<1> HIDE DEF a, b
<1>5. /\ a \o b \in Seq(S)
      /\ Len(a \o b) = Len(a) + Len(b)
      /\ \A j \in 1..(Len(a) + Len(b)) :
           (a \o b)[j] = IF j <= Len(a) THEN a[j] ELSE b[j - Len(a)]
  BY <1>2, <1>3, ConcatProperties
<1>6. ASSUME NEW j \in 1..(Len(s) - 1)
      PROVE  RemoveAt(s, i)[j] = IF j < i THEN s[j] ELSE s[j + 1]
  <2>1. (a \o b)[j] = IF j <= i - 1 THEN a[j] ELSE b[j - (i - 1)]
    BY <1>1, <1>2, <1>3, <1>5
  <2>2. CASE j < i
    BY <1>1, <1>2, <1>4, <2>1, <2>2
  <2>3. CASE ~(j < i)
    <3>1. j - (i - 1) \in 1..(Len(s) - i) /\ i + (j - (i - 1)) = j + 1
      BY <1>1, <2>3
    <3>2. b[j - (i - 1)] = s[j + 1]
      BY <1>3, <3>1
    <3> QED BY <1>1, <1>4, <2>1, <2>3, <3>2
  <2> QED BY <2>2, <2>3
<1> QED BY <1>1, <1>2, <1>3, <1>4, <1>5, <1>6

\* The members of a sequence, by position.
LEMMA RangeFacts ==
  ASSUME NEW S, NEW s \in Seq(S)
  PROVE  /\ Len(s) \in Nat
         /\ DOMAIN s = 1..Len(s)
         /\ Range(s) \subseteq S
         /\ \A i \in 1..Len(s) : s[i] \in Range(s)
         /\ \A x \in Range(s) : \E i \in 1..Len(s) : x = s[i]
         /\ s # <<>> => Len(s) >= 1
<1>1. Len(s) \in Nat /\ DOMAIN s = 1..Len(s) /\ \A i \in 1..Len(s) : s[i] \in S
  BY LenProperties, ElementOfSeq
<1>2. s # <<>> => Len(s) \in Nat \ {0}
  BY EmptySeq
<1> QED BY <1>1, <1>2 DEF Range

(***************************************************************************)
(* push_back on a deque in order of arrival.                               *)
(***************************************************************************)
LEMMA AppendDeque ==
  ASSUME NEW q \in Seq(Order), Sorted(q), NEW o \in Order,
         \A r \in Range(q) : r.seq < o.seq
  PROVE  /\ Append(q, o) \in Seq(Order)
         /\ Append(q, o) # <<>>
         /\ Sorted(Append(q, o))
         /\ Range(Append(q, o)) = Range(q) \cup {o}
<1> DEFINE new == Append(q, o)
<1>1. /\ new \in Seq(Order)
      /\ new # <<>>
      /\ Len(new) = Len(q) + 1
      /\ \A i \in 1..Len(q) : new[i] = q[i]
      /\ new[Len(q) + 1] = o
  BY AppendProperties
<1> HIDE DEF new
<1>2. /\ Len(q) \in Nat
      /\ \A i \in 1..Len(q) : q[i] \in Range(q)
      /\ \A x \in Range(q) : \E i \in 1..Len(q) : x = q[i]
  BY RangeFacts
<1>3. /\ \A i \in 1..Len(new) : new[i] \in Range(new)
      /\ \A x \in Range(new) : \E i \in 1..Len(new) : x = new[i]
  BY <1>1, RangeFacts
<1>4. ASSUME NEW i \in 1..Len(new), NEW j \in 1..Len(new), i < j
      PROVE  new[i].seq < new[j].seq
  <2>1. i \in 1..Len(q) /\ (j \in 1..Len(q) \/ j = Len(q) + 1)
    BY <1>1, <1>2, <1>4
  <2>2. CASE j \in 1..Len(q)
    BY <1>1, <1>4, <2>1, <2>2 DEF Sorted
  <2>3. CASE j = Len(q) + 1
    BY <1>1, <1>2, <2>1, <2>3
  <2> QED BY <2>1, <2>2, <2>3
<1>5. Sorted(new)
  BY <1>4 DEF Sorted
<1>6. Range(new) \subseteq Range(q) \cup {o}
  <2> SUFFICES ASSUME NEW x \in Range(new) PROVE x \in Range(q) \cup {o}
    OBVIOUS
  <2>1. PICK i \in 1..Len(new) : x = new[i]
    BY <1>3
  <2>2. i \in 1..Len(q) \/ i = Len(q) + 1
    BY <1>1, <1>2
  <2> QED BY <1>1, <1>2, <2>1, <2>2
<1>7. Range(q) \cup {o} \subseteq Range(new)
  <2>1. o \in Range(new)
    <3>1. Len(q) + 1 \in 1..Len(new)
      BY <1>1, <1>2
    <3> QED BY <1>1, <1>3, <3>1
  <2>2. ASSUME NEW x \in Range(q) PROVE x \in Range(new)
    <3>1. PICK i \in 1..Len(q) : x = q[i]
      BY <1>2
    <3>2. i \in 1..Len(new)
      BY <1>1, <1>2
    <3> QED BY <1>1, <1>3, <3>1, <3>2
  <2> QED BY <2>1, <2>2
<1> QED BY <1>1, <1>5, <1>6, <1>7 DEF new

(***************************************************************************)
(* erase from a deque in order of arrival.                                 *)
(***************************************************************************)
LEMMA EraseDeque ==
  ASSUME NEW q \in Seq(Order), Sorted(q), NEW i \in 1..Len(q)
  PROVE  /\ RemoveAt(q, i) \in Seq(Order)
         /\ Sorted(RemoveAt(q, i))
         /\ Range(RemoveAt(q, i)) = Range(q) \ {q[i]}
<1> DEFINE new == RemoveAt(q, i)
<1>1. /\ new \in Seq(Order)
      /\ Len(new) = Len(q) - 1
      /\ \A j \in 1..(Len(q) - 1) : new[j] = IF j < i THEN q[j] ELSE q[j + 1]
  BY RemoveAtFacts
<1> HIDE DEF new
<1>2. /\ Len(q) \in Nat
      /\ \A j \in 1..Len(q) : q[j] \in Range(q)
      /\ \A x \in Range(q) : \E j \in 1..Len(q) : x = q[j]
  BY RangeFacts
<1>3. /\ \A j \in 1..Len(new) : new[j] \in Range(new)
      /\ \A x \in Range(new) : \E j \in 1..Len(new) : x = new[j]
  BY <1>1, RangeFacts
<1>4. \A j \in 1..Len(q) : q[j].seq \in Nat
  <2> TAKE j \in 1..Len(q)
  <2>1. q[j] \in Order
    BY ElementOfSeq
  <2> QED BY <2>1 DEF Order, RestingOrder
<1>5. \A j \in 1..Len(q) : j # i => q[j] # q[i]
  <2> TAKE j \in 1..Len(q)
  <2>1. CASE j < i
    BY <1>4, <2>1 DEF Sorted
  <2>2. CASE i < j
    BY <1>4, <2>2 DEF Sorted
  <2> QED BY <1>2, <2>1, <2>2
<1>6. ASSUME NEW j \in 1..Len(new), NEW k \in 1..Len(new), j < k
      PROVE  new[j].seq < new[k].seq
  <2>1. PICK a \in 1..Len(q) : new[j] = q[a] /\ a = IF j < i THEN j ELSE j + 1
    <3>1. j \in 1..Len(q) /\ j + 1 \in 1..Len(q)
      BY <1>1, <1>2
    <3> QED BY <1>1, <3>1
  <2>2. PICK b \in 1..Len(q) : new[k] = q[b] /\ b = IF k < i THEN k ELSE k + 1
    <3>1. k \in 1..Len(q) /\ k + 1 \in 1..Len(q)
      BY <1>1, <1>2
    <3> QED BY <1>1, <3>1
  <2>3. a < b
    BY <1>2, <1>6, <2>1, <2>2
  <2> QED BY <2>1, <2>2, <2>3 DEF Sorted
<1>7. Sorted(new)
  BY <1>6 DEF Sorted
<1>8. ASSUME NEW x \in Range(new) PROVE x \in Range(q) \ {q[i]}
  <2>1. PICK j \in 1..Len(new) : x = new[j]
    BY <1>3
  <2>2. PICK a \in 1..Len(q) : new[j] = q[a] /\ a = IF j < i THEN j ELSE j + 1
    <3>1. j \in 1..Len(q) /\ j + 1 \in 1..Len(q)
      BY <1>1, <1>2
    <3> QED BY <1>1, <3>1
  <2>3. a # i
    BY <1>2, <2>2
  <2> QED BY <1>2, <1>5, <2>1, <2>2, <2>3
<1>9. ASSUME NEW x \in Range(q) \ {q[i]} PROVE x \in Range(new)
  <2>1. PICK a \in 1..Len(q) : x = q[a]
    BY <1>2
  <2>2. CASE a < i
    <3>1. a \in 1..(Len(q) - 1) /\ a \in 1..Len(new)
      BY <1>1, <1>2, <2>2
    <3>2. new[a] = q[a]
      BY <1>1, <2>2, <3>1
    <3> QED BY <1>3, <2>1, <3>1, <3>2
  <2>3. CASE i < a
    <3>1. a - 1 \in 1..Len(new) /\ ~(a - 1 < i) /\ (a - 1) + 1 = a
      BY <1>1, <1>2, <2>3
    <3>2. new[a - 1] = q[a]
      BY <1>1, <3>1
    <3> QED BY <1>3, <2>1, <3>1, <3>2
  <2> QED BY <1>2, <2>1, <2>2, <2>3
<1> QED BY <1>1, <1>7, <1>8, <1>9 DEF new

\* A deque with one order written over.
Written(orders, i, o) == [orders EXCEPT ![i] = o]

(***************************************************************************)
(* Writing the remaining quantity of one order of a deque.                 *)
(***************************************************************************)
LEMMA ReduceDeque ==
  ASSUME NEW q \in Seq(Order), Sorted(q), NEW i \in 1..Len(q), NEW o \in Order,
         o.seq = q[i].seq
  PROVE  /\ Written(q, i, o) \in Seq(Order)
         /\ Written(q, i, o) # <<>>
         /\ Sorted(Written(q, i, o))
         /\ Range(Written(q, i, o)) = (Range(q) \ {q[i]}) \cup {o}
<1> DEFINE new == Written(q, i, o)
<1>1. /\ new \in Seq(Order)
      /\ Len(new) = Len(q)
      /\ \A j \in 1..Len(q) : new[j] = IF j = i THEN o ELSE q[j]
  BY ExceptSeq DEF Written
<1> HIDE DEF new
<1>2. /\ Len(q) \in Nat
      /\ \A j \in 1..Len(q) : q[j] \in Range(q)
      /\ \A x \in Range(q) : \E j \in 1..Len(q) : x = q[j]
  BY RangeFacts
<1>3. /\ \A j \in 1..Len(q) : new[j] \in Range(new)
      /\ \A x \in Range(new) : \E j \in 1..Len(q) : x = new[j]
  BY <1>1, RangeFacts
<1>4. \A j \in 1..Len(q) : q[j].seq \in Nat
  <2> TAKE j \in 1..Len(q)
  <2>1. q[j] \in Order
    BY ElementOfSeq
  <2> QED BY <2>1 DEF Order, RestingOrder
<1>5. \A j \in 1..Len(q) : j # i => q[j] # q[i]
  <2> TAKE j \in 1..Len(q)
  <2>1. CASE j < i
    BY <1>4, <2>1 DEF Sorted
  <2>2. CASE i < j
    BY <1>4, <2>2 DEF Sorted
  <2> QED BY <1>2, <2>1, <2>2
<1>6. \A j \in 1..Len(q) : new[j].seq = q[j].seq
  BY <1>1
<1>7. Sorted(new)
  BY <1>1, <1>6 DEF Sorted
<1>8. new # <<>>
  BY <1>1, <1>2, EmptySeq
<1>9. ASSUME NEW x \in Range(new) PROVE x \in (Range(q) \ {q[i]}) \cup {o}
  <2>1. PICK j \in 1..Len(q) : x = new[j]
    BY <1>3
  <2> QED BY <1>1, <1>2, <1>5, <2>1
<1>10. ASSUME NEW x \in (Range(q) \ {q[i]}) \cup {o} PROVE x \in Range(new)
  <2>1. CASE x = o
    BY <1>1, <1>3, <2>1
  <2>2. CASE x \in Range(q) \ {q[i]}
    <3>1. PICK j \in 1..Len(q) : x = q[j]
      BY <1>2, <2>2
    <3> QED BY <1>1, <1>3, <2>2, <3>1
  <2> QED BY <2>1, <2>2
<1> QED BY <1>1, <1>7, <1>8, <1>9, <1>10 DEF new

----------------------------------------------------------------------------
(***************************************************************************)
(* The step leaves orders as the deque of one price of one side and every  *)
(* other deque as it was; an empty deque is taken out of its map.          *)
(***************************************************************************)
LevelBecomes(side, price, orders) ==
  /\ DOMAIN levels' = Sides
  /\ \A s \in Sides :
       /\ s # side => levels'[s] = levels[s]
       /\ s = side =>
            /\ DOMAIN levels'[s] = IF orders = <<>> THEN DOMAIN levels[s] \ {price}
                                                    ELSE DOMAIN levels[s] \cup {price}
            /\ \A p \in DOMAIN levels'[s] :
                 levels'[s][p] = IF p = price THEN orders ELSE levels[s][p]

\* The resting orders, by side and price.
LEMMA RestingFacts ==
  /\ \A s \in Sides : \A p \in DOMAIN levels[s] : \A r \in Range(levels[s][p]) : r \in Resting
  /\ \A r \in Resting : \E s \in Sides : \E p \in DOMAIN levels[s] : r \in Range(levels[s][p])
<1>1. ASSUME NEW s \in Sides, NEW p \in DOMAIN levels[s], NEW r \in Range(levels[s][p])
      PROVE  r \in Resting
  <2>1. r \in UNION {Range(levels[s][x]) : x \in DOMAIN levels[s]}
    OBVIOUS
  <2> QED BY <2>1 DEF Resting
<1>2. ASSUME NEW r \in Resting
      PROVE  \E s \in Sides : \E p \in DOMAIN levels[s] : r \in Range(levels[s][p])
  <2>1. PICK s \in Sides : r \in UNION {Range(levels[s][x]) : x \in DOMAIN levels[s]}
    BY DEF Resting
  <2> QED BY <2>1
<1> QED BY <1>1, <1>2

\* The same of the next state.
LEMMA RestingFactsNext ==
  /\ \A s \in Sides : \A p \in DOMAIN levels'[s] : \A r \in Range(levels'[s][p]) : r \in Resting'
  /\ \A r \in Resting' : \E s \in Sides : \E p \in DOMAIN levels'[s] : r \in Range(levels'[s][p])
<1>1. ASSUME NEW s \in Sides, NEW p \in DOMAIN levels'[s], NEW r \in Range(levels'[s][p])
      PROVE  r \in Resting'
  <2>1. r \in UNION {Range(levels'[s][x]) : x \in DOMAIN levels'[s]}
    OBVIOUS
  <2> QED BY <2>1 DEF Resting
<1>2. ASSUME NEW r \in Resting'
      PROVE  \E s \in Sides : \E p \in DOMAIN levels'[s] : r \in Range(levels'[s][p])
  <2>1. PICK s \in Sides : r \in UNION {Range(levels'[s][x]) : x \in DOMAIN levels'[s]}
    BY DEF Resting
  <2> QED BY <2>1
<1> QED BY <1>1, <1>2

LEMMA ExceptFacts ==
  ASSUME NEW f, NEW key \in DOMAIN f, NEW value
  PROVE  /\ DOMAIN [f EXCEPT ![key] = value] = DOMAIN f \cup {key}
         /\ \A x \in DOMAIN f \cup {key} :
              [f EXCEPT ![key] = value][x] = IF x = key THEN value ELSE f[x]
  OBVIOUS

LEMMA EmptyRange == Range(<<>>) = {}
  BY DEF Range

\* A resting order is found in the deque its own side and price name.
LEMMA RestingPlaced ==
  ASSUME Types, Placed, NEW r \in Resting
  PROVE  /\ r \in Order
         /\ r.side \in Sides
         /\ r.price \in DOMAIN levels[r.side]
         /\ r \in Range(levels[r.side][r.price])
<1>1. PICK s \in Sides : \E p \in DOMAIN levels[s] : r \in Range(levels[s][p])
  BY RestingFacts
<1>2. PICK p \in DOMAIN levels[s] : r \in Range(levels[s][p])
  BY <1>1
<1>3. r.side = s /\ r.price = p
  BY <1>2 DEF Placed
<1>4. levels[s][p] \in Seq(Order)
  BY DEF Types
<1>5. Range(levels[s][p]) \subseteq Order
  BY <1>4, RangeFacts
<1> QED BY <1>2, <1>3, <1>5

\* The deque of a price, present or not.
LEMMA DequeFacts ==
  ASSUME Types, Placed, Arrival, NEW side \in Sides, NEW price
  PROVE  /\ Deque(side, price) \in Seq(Order)
         /\ Sorted(Deque(side, price))
         /\ Range(Deque(side, price)) = {r \in Resting : r.side = side /\ r.price = price}
<1>1. CASE price \in DOMAIN levels[side]
  <2>1. Deque(side, price) = levels[side][price]
    BY <1>1 DEF Deque
  <2>2. levels[side][price] \in Seq(Order) /\ Sorted(levels[side][price])
    BY <1>1 DEF Types, Arrival
  <2>3. \A r \in Range(levels[side][price]) : r \in Resting /\ r.side = side /\ r.price = price
    BY <1>1, RestingFacts DEF Placed
  <2>4. \A r \in Resting : r.side = side /\ r.price = price => r \in Range(levels[side][price])
    BY RestingPlaced
  <2> QED BY <2>1, <2>2, <2>3, <2>4
<1>2. CASE price \notin DOMAIN levels[side]
  <2>1. Deque(side, price) = <<>>
    BY <1>2 DEF Deque
  <2>2. <<>> \in Seq(Order) /\ Len(<<>>) = 0
    BY EmptySeq
  <2>3. Sorted(<<>>)
    BY <2>2 DEF Sorted
  <2>4. \A r \in Resting : ~(r.side = side /\ r.price = price)
    BY <1>2, RestingPlaced
  <2> QED BY <2>1, <2>2, <2>3, <2>4, EmptyRange
<1> QED BY <1>1, <1>2

(***************************************************************************)
(* A step that replaces one deque by a well-formed one keeps every deque   *)
(* well-formed, and changes the resting orders by that deque only.         *)
(***************************************************************************)
LEMMA LevelsKept ==
  ASSUME Types, Placed, Arrival, Bounded,
         NEW side \in Sides, NEW price \in Prices \ {0}, NEW orders \in Seq(Order),
         Sorted(orders), \A r \in Range(orders) : r.side = side /\ r.price = price,
         LevelBecomes(side, price, orders)
  PROVE  /\ DOMAIN levels' = Sides
         /\ \A s \in Sides :
              /\ DOMAIN levels'[s] \subseteq Prices \ {0}
              /\ \A p \in DOMAIN levels'[s] : levels'[s][p] \in Seq(Order) /\ levels'[s][p] # <<>>
         /\ Placed'
         /\ Arrival'
         /\ Bounded'
         /\ Resting' = {r \in Resting : ~(r.side = side /\ r.price = price)} \cup Range(orders)
<1>1. DOMAIN levels' = Sides
  BY DEF LevelBecomes
<1>2. ASSUME NEW s \in Sides, NEW p \in DOMAIN levels'[s]
      PROVE  \/ /\ s = side /\ p = price
                /\ levels'[s][p] = orders /\ orders # <<>>
             \/ /\ ~(s = side /\ p = price)
                /\ p \in DOMAIN levels[s]
                /\ levels'[s][p] = levels[s][p]
  <2>1. CASE s # side
    BY <2>1 DEF LevelBecomes
  <2>2. CASE s = side
    <3>1. /\ DOMAIN levels'[s] = IF orders = <<>> THEN DOMAIN levels[s] \ {price}
                                                    ELSE DOMAIN levels[s] \cup {price}
          /\ levels'[s][p] = IF p = price THEN orders ELSE levels[s][p]
      BY <2>2 DEF LevelBecomes
    <3> QED BY <2>2, <3>1
  <2> QED BY <2>1, <2>2
<1>3. ASSUME NEW s \in Sides, NEW p \in DOMAIN levels[s], ~(s = side /\ p = price)
      PROVE  p \in DOMAIN levels'[s] /\ levels'[s][p] = levels[s][p]
  <2>1. CASE s # side
    BY <2>1 DEF LevelBecomes
  <2>2. CASE s = side
    <3>1. DOMAIN levels'[s] = IF orders = <<>> THEN DOMAIN levels[s] \ {price}
                                               ELSE DOMAIN levels[s] \cup {price}
      BY <2>2 DEF LevelBecomes
    <3>2. p # price /\ p \in DOMAIN levels'[s]
      BY <1>3, <2>2, <3>1
    <3> QED BY <2>2, <3>2 DEF LevelBecomes
  <2> QED BY <2>1, <2>2
<1>4. orders # <<>> => price \in DOMAIN levels'[side] /\ levels'[side][price] = orders
  BY DEF LevelBecomes
<1>5. ASSUME NEW s \in Sides
      PROVE  /\ DOMAIN levels'[s] \subseteq Prices \ {0}
             /\ \A p \in DOMAIN levels'[s] : levels'[s][p] \in Seq(Order) /\ levels'[s][p] # <<>>
  BY <1>2 DEF Types
<1>6. Placed'
  <2> SUFFICES ASSUME NEW s \in Sides, NEW p \in DOMAIN levels'[s], NEW r \in Range(levels'[s][p])
               PROVE  r.side = s /\ r.price = p
    BY DEF Placed
  <2> QED BY <1>2 DEF Placed
<1>7. Arrival'
  <2> SUFFICES ASSUME NEW s \in Sides, NEW p \in DOMAIN levels'[s] PROVE Sorted(levels'[s][p])
    BY DEF Arrival, Sorted
  <2> QED BY <1>2 DEF Arrival
<1>8. Bounded'
  <2>1. PICK n \in Nat : \A s \in Sides : \A p \in DOMAIN levels[s] : p <= n
    BY DEF Bounded
  <2> DEFINE m == IF price <= n THEN n ELSE price
  <2>2. price \in Nat /\ m \in Nat /\ n <= m /\ price <= m
    BY BookAssumption
  <2>3. ASSUME NEW s \in Sides, NEW p \in DOMAIN levels'[s] PROVE p <= m
    <3>1. p \in Nat
      BY <1>5, BookAssumption
    <3>2. p = price \/ p <= n
      BY <1>2, <2>1
    <3> HIDE DEF m
    <3> QED BY <2>2, <3>1, <3>2
  <2> HIDE DEF m
  <2> QED BY <2>2, <2>3 DEF Bounded
<1>9. ASSUME NEW r \in Resting'
      PROVE  r \in {x \in Resting : ~(x.side = side /\ x.price = price)} \cup Range(orders)
  <2>1. PICK s \in Sides : \E p \in DOMAIN levels'[s] : r \in Range(levels'[s][p])
    BY RestingFactsNext
  <2>2. PICK p \in DOMAIN levels'[s] : r \in Range(levels'[s][p])
    BY <2>1
  <2>3. CASE s = side /\ p = price
    BY <1>2, <2>2, <2>3
  <2>4. CASE ~(s = side /\ p = price)
    <3>1. p \in DOMAIN levels[s] /\ r \in Range(levels[s][p])
      BY <1>2, <2>2, <2>4
    <3>2. r \in Resting /\ r.side = s /\ r.price = p
      BY <3>1, RestingFacts DEF Placed
    <3> QED BY <2>4, <3>2
  <2> QED BY <2>3, <2>4
<1>10. ASSUME NEW r \in {x \in Resting : ~(x.side = side /\ x.price = price)} \cup Range(orders)
       PROVE  r \in Resting'
  <2>1. CASE r \in Range(orders)
    <3>1. orders # <<>>
      BY <2>1, EmptyRange
    <3> QED BY <1>4, <2>1, <3>1, RestingFactsNext
  <2>2. CASE r \in Resting /\ ~(r.side = side /\ r.price = price)
    <3>1. r.side \in Sides /\ r.price \in DOMAIN levels[r.side] /\ r \in Range(levels[r.side][r.price])
      BY <2>2, RestingPlaced
    <3>2. r.price \in DOMAIN levels'[r.side] /\ r \in Range(levels'[r.side][r.price])
      BY <1>3, <2>2, <3>1
    <3> QED BY <3>1, <3>2, RestingFactsNext
  <2> QED BY <2>1, <2>2
<1>11. Resting' = {r \in Resting : ~(r.side = side /\ r.price = price)} \cup Range(orders)
  BY <1>9, <1>10
<1> QED BY <1>1, <1>5, <1>6, <1>7, <1>8, <1>11

----------------------------------------------------------------------------
\* The part of the invariant that is about the level maps, and the rest.
LevelsOK ==
  /\ DOMAIN levels = Sides
  /\ \A side \in Sides :
       /\ DOMAIN levels[side] \subseteq Prices \ {0}
       /\ \A p \in DOMAIN levels[side] :
            levels[side][p] \in Seq(Order) /\ levels[side][p] # <<>>
  /\ Placed
  /\ Arrival
  /\ Bounded

(***************************************************************************)
(* find_order: the locator of an indexed id leads to the one order with    *)
(* that id, so the lookups of cancel_order and apply_fill fail only for an *)
(* id the index does not know.                                             *)
(***************************************************************************)
LEMMA LocatedFacts ==
  ASSUME IInv, NEW id \in DOMAIN order_index,
         NEW at, at = order_index[id],
         NEW i, i = Min(Positions(levels[at.side][at.price], id))
  PROVE  /\ Located(id)
         /\ at.side \in Sides
         /\ at.price \in DOMAIN levels[at.side]
         /\ Deque(at.side, at.price) = levels[at.side][at.price]
         /\ i \in 1..Len(levels[at.side][at.price])
         /\ levels[at.side][at.price][i] \in Resting
         /\ levels[at.side][at.price][i].id = id
         /\ levels[at.side][at.price][i].side = at.side
         /\ levels[at.side][at.price][i].price = at.price
<1> USE DEF IInv
<1>1. PICK r \in Resting : r.id = id
  BY DEF Indexed
<1>2. at = [side |-> r.side, price |-> r.price]
  BY <1>1 DEF Indexed
<1>3. at.side = r.side /\ at.price = r.price
  BY <1>2
<1>4. /\ r.side \in Sides
      /\ r.price \in DOMAIN levels[r.side]
      /\ r \in Range(levels[r.side][r.price])
  BY RestingPlaced
<1> DEFINE q == levels[at.side][at.price]
<1>5. at.side \in Sides /\ at.price \in DOMAIN levels[at.side] /\ r \in Range(q)
  BY <1>3, <1>4
<1>6. q \in Seq(Order)
  BY <1>5 DEF Types
<1>7. \A j \in 1..Len(q) : q[j] \in Resting /\ q[j].side = at.side /\ q[j].price = at.price
  <2> TAKE j \in 1..Len(q)
  <2>1. q[j] \in Range(q)
    BY <1>6, RangeFacts
  <2> QED BY <1>5, <2>1, RestingFacts DEF Placed
<1>8. q = Deque(at.side, at.price) /\ Sorted(q)
  BY <1>5 DEF Deque, Arrival
<1> HIDE DEF q
<1>9. Len(q) \in Nat /\ DOMAIN q = 1..Len(q) /\ \E j \in 1..Len(q) : r = q[j]
  BY <1>5, <1>6, RangeFacts
<1>10. PICK j \in 1..Len(q) : r = q[j]
  BY <1>9
<1>11. \A k \in 1..Len(q) : q[k].id = id => k = j
  <2> TAKE k \in 1..Len(q)
  <2> SUFFICES ASSUME q[k].id = id, k # j PROVE FALSE
    OBVIOUS
  <2>1. q[k] = q[j]
    BY <1>1, <1>7, <1>10 DEF Indexed
  <2>2. q[j].seq \in Nat
    <3>1. q[j] \in Order
      BY <1>6, ElementOfSeq
    <3> QED BY <3>1 DEF Order, RestingOrder
  <2>3. CASE k < j
    BY <1>8, <2>1, <2>2, <2>3 DEF Sorted
  <2>4. CASE j < k
    BY <1>8, <2>1, <2>2, <2>4 DEF Sorted
  <2> QED BY <1>9, <2>3, <2>4
<1>12. Positions(q, id) = {j}
  BY <1>1, <1>9, <1>10, <1>11 DEF Positions
<1>13. Min({j}) = j
  BY <1>9 DEF Min
<1>14. i = j
  BY <1>12, <1>13 DEF q
<1>15. Located(id)
  BY <1>5, <1>12 DEF Located, q
<1> QED BY <1>1, <1>5, <1>7, <1>8, <1>10, <1>14, <1>15 DEF q

(***************************************************************************)
(* What the levels become when the order of an indexed id is erased.       *)
(***************************************************************************)
LEMMA EraseStep ==
  ASSUME IInv, NEW side \in Sides, NEW price \in DOMAIN levels[side],
         NEW i \in 1..Len(levels[side][price]),
         LevelBecomes(side, price, RemoveAt(levels[side][price], i))
  PROVE  LevelsOK' /\ Resting' = Resting \ {levels[side][price][i]}
<1> USE DEF IInv
<1>a. PICK q : q = levels[side][price]
  OBVIOUS
<1>b. PICK rest : rest = RemoveAt(q, i)
  OBVIOUS
<1>c. i \in 1..Len(q) /\ LevelBecomes(side, price, rest)
  BY <1>a, <1>b
<1>1. price \in Prices \ {0}
  BY DEF Types
<1>2. q = Deque(side, price)
  BY <1>a DEF Deque
<1>3. /\ q \in Seq(Order)
      /\ Sorted(q)
      /\ Range(q) = {r \in Resting : r.side = side /\ r.price = price}
  BY <1>2, DequeFacts
<1>4. /\ rest \in Seq(Order)
      /\ Sorted(rest)
      /\ Range(rest) = Range(q) \ {q[i]}
  BY <1>3, <1>b, <1>c, EraseDeque
<1>5. q[i] \in Resting /\ q[i].side = side /\ q[i].price = price
  <2>1. q[i] \in Range(q)
    BY <1>3, <1>c, RangeFacts
  <2> QED BY <1>3, <2>1
<1>6. \A r \in Range(rest) : r.side = side /\ r.price = price
  BY <1>3, <1>4
<1>7. LevelsOK'
  BY <1>1, <1>4, <1>6, <1>c, LevelsKept DEF LevelsOK
<1>8. Resting' = {r \in Resting : ~(r.side = side /\ r.price = price)} \cup Range(rest)
  BY <1>1, <1>4, <1>6, <1>c, LevelsKept
<1>9. Resting' = Resting \ {q[i]}
  BY <1>3, <1>4, <1>5, <1>8
<1> QED BY <1>7, <1>9, <1>a

\* EraseAt writes the shorter deque, or takes the level out of the map.
LEMMA EraseInPlace ==
  ASSUME DOMAIN levels = Sides, NEW side \in Sides, NEW price \in DOMAIN levels[side],
         NEW i, levels' = [levels EXCEPT ![side] = EraseAt(side, price, i)]
  PROVE  LevelBecomes(side, price, RemoveAt(levels[side][price], i))
<1>1. PICK rest : rest = RemoveAt(levels[side][price], i)
  OBVIOUS
<1>2. PICK new : new = EraseAt(side, price, i)
  OBVIOUS
<1>3. new = IF rest = <<>> THEN Without(levels[side], price)
                           ELSE [levels[side] EXCEPT ![price] = rest]
  BY <1>1, <1>2 DEF EraseAt
<1>4. /\ DOMAIN levels' = Sides
      /\ levels'[side] = new
      /\ \A s \in Sides : s # side => levels'[s] = levels[s]
  BY <1>2
<1>5. /\ DOMAIN new = IF rest = <<>> THEN DOMAIN levels[side] \ {price}
                                     ELSE DOMAIN levels[side] \cup {price}
      /\ \A p \in DOMAIN new : new[p] = IF p = price THEN rest ELSE levels[side][p]
  <2>1. CASE rest = <<>>
    BY <1>3, <2>1 DEF Without, Restrict
  <2>2. CASE rest # <<>>
    BY <1>3, <2>2, ExceptFacts
  <2> QED BY <2>1, <2>2
<1>6. LevelBecomes(side, price, rest)
  BY <1>4, <1>5, Zenon DEF LevelBecomes
<1> QED BY <1>1, <1>6

(***************************************************************************)
(* What the levels become when an indexed order is partly filled.          *)
(***************************************************************************)
LEMMA ReduceStep ==
  ASSUME IInv, NEW side \in Sides, NEW price \in DOMAIN levels[side],
         NEW i \in 1..Len(levels[side][price]), NEW o \in Order,
         o.side = side, o.price = price, o.seq = levels[side][price][i].seq,
         LET new == Written(levels[side][price], i, o)
         IN  new # <<>> => LevelBecomes(side, price, new)
  PROVE  LevelsOK' /\ Resting' = (Resting \ {levels[side][price][i]}) \cup {o}
<1> USE DEF IInv
<1>a. PICK q : q = levels[side][price]
  OBVIOUS
<1>b. PICK new : new = Written(q, i, o)
  OBVIOUS
<1>c. i \in 1..Len(q) /\ o.seq = q[i].seq /\ (new # <<>> => LevelBecomes(side, price, new))
  BY <1>a, <1>b
<1>1. price \in Prices \ {0}
  BY DEF Types
<1>2. q = Deque(side, price)
  BY <1>a DEF Deque
<1>3. /\ q \in Seq(Order)
      /\ Sorted(q)
      /\ Range(q) = {r \in Resting : r.side = side /\ r.price = price}
  BY <1>2, DequeFacts
<1>4. /\ new \in Seq(Order)
      /\ new # <<>>
      /\ Sorted(new)
      /\ Range(new) = (Range(q) \ {q[i]}) \cup {o}
  BY <1>3, <1>b, <1>c, ReduceDeque
<1>5. q[i] \in Resting /\ q[i].side = side /\ q[i].price = price
  <2>1. q[i] \in Range(q)
    BY <1>3, <1>c, RangeFacts
  <2> QED BY <1>3, <2>1
<1>6. \A r \in Range(new) : r.side = side /\ r.price = price
  BY <1>3, <1>4
<1>7. LevelsOK'
  BY <1>1, <1>4, <1>6, <1>c, LevelsKept DEF LevelsOK
<1>8. Resting' = {r \in Resting : ~(r.side = side /\ r.price = price)} \cup Range(new)
  BY <1>1, <1>4, <1>6, <1>c, LevelsKept
<1>9. Resting' = (Resting \ {q[i]}) \cup {o}
  BY <1>3, <1>4, <1>5, <1>8
<1> QED BY <1>7, <1>9, <1>a

\* Writing one quantity in place is writing the deque it is in.
LEMMA WriteInPlace ==
  ASSUME DOMAIN levels = Sides, NEW side \in Sides, NEW price \in DOMAIN levels[side],
         NEW i, NEW left,
         levels' = [levels EXCEPT ![side][price][i].remaining = left],
         NEW new, new # <<>>,
         new = [levels[side][price] EXCEPT ![i] = [levels[side][price][i] EXCEPT !.remaining = left]]
  PROVE  LevelBecomes(side, price, new)
<1>1. levels' = [levels EXCEPT ![side] = [levels[side] EXCEPT ![price] = new]]
  OBVIOUS
<1>2. /\ DOMAIN levels' = Sides
      /\ levels'[side] = [levels[side] EXCEPT ![price] = new]
      /\ \A s \in Sides : s # side => levels'[s] = levels[s]
  BY <1>1
<1>3. /\ DOMAIN levels'[side] = DOMAIN levels[side] \cup {price}
      /\ \A p \in DOMAIN levels'[side] :
           levels'[side][p] = IF p = price THEN new ELSE levels[side][p]
  BY <1>2, ExceptFacts
<1> QED BY <1>2, <1>3 DEF LevelBecomes

(***************************************************************************)
(* What the levels become when an order is pushed to the back of a level.  *)
(***************************************************************************)
LEMMA AddStep ==
  ASSUME IInv, NEW side \in Sides, NEW price \in Prices \ {0}, NEW o \in Order,
         o.side = side, o.price = price, o.seq = next_seq,
         levels' = [levels EXCEPT ![side] = PushBack(side, price, o)]
  PROVE  LevelsOK' /\ Resting' = Resting \cup {o}
<1> DEFINE q == Deque(side, price)
<1> DEFINE new == Append(q, o)
<1>1. /\ q \in Seq(Order)
      /\ Sorted(q)
      /\ Range(q) = {r \in Resting : r.side = side /\ r.price = price}
  BY DequeFacts DEF IInv
<1>2. \A r \in Range(q) : r.seq < o.seq
  BY <1>1 DEF IInv, Alive
<1>3. /\ new \in Seq(Order)
      /\ new # <<>>
      /\ Sorted(new)
      /\ Range(new) = Range(q) \cup {o}
  BY <1>1, <1>2, AppendDeque
<1>4. PushBack(side, price, o) = With(levels[side], price, new)
  BY DEF PushBack
<1> HIDE DEF new
<1>5. LevelBecomes(side, price, new)
  <2>1. /\ DOMAIN With(levels[side], price, new) = DOMAIN levels[side] \cup {price}
        /\ \A p \in DOMAIN With(levels[side], price, new) :
             With(levels[side], price, new)[p] = IF p = price THEN new ELSE levels[side][p]
    BY DEF With
  <2>2. /\ DOMAIN levels' = Sides
        /\ levels'[side] = With(levels[side], price, new)
        /\ \A s \in Sides : s # side => levels'[s] = levels[s]
    BY <1>4 DEF IInv, Types
  <2> QED BY <1>3, <2>1, <2>2 DEF LevelBecomes
<1> HIDE DEF q
<1>6. \A r \in Range(new) : r.side = side /\ r.price = price
  BY <1>1, <1>3
<1>7. LevelsOK'
  BY <1>3, <1>5, <1>6, LevelsKept DEF IInv, LevelsOK
<1>8. Resting' = {r \in Resting : ~(r.side = side /\ r.price = price)} \cup Range(new)
  BY <1>3, <1>5, <1>6, LevelsKept DEF IInv
<1>9. Resting' = Resting \cup {o}
  BY <1>1, <1>3, <1>8
<1> QED BY <1>7, <1>9

----------------------------------------------------------------------------
\* A refused call leaves the book as it was.
LEMMA RefuseStep ==
  ASSUME IInv, Refuse
  PROVE  IInv' /\ Abstract!Refuse
<1>1. /\ levels' = levels /\ order_index' = order_index
      /\ order_count' = order_count /\ next_seq' = next_seq
      /\ returned' = FALSE
  BY DEF Refuse
<1>2. Resting' = Resting
  BY <1>1 DEF Resting
<1>3. Types'
  BY <1>1 DEF IInv, Types
<1>4. Placed' /\ Arrival' /\ Bounded'
  BY <1>1 DEF IInv, Placed, Arrival, Bounded, Sorted
<1>5. Alive' /\ Indexed' /\ Counted'
  BY <1>1, <1>2 DEF IInv, Alive, Indexed, Counted
<1> QED BY <1>1, <1>2, <1>3, <1>4, <1>5 DEF IInv, Abstract!Refuse

(***************************************************************************)
(* cancel_order and a consuming apply_fill: the order leaves its deque,    *)
(* the index and the count together.                                       *)
(***************************************************************************)
LEMMA EraseLevels ==
  ASSUME IInv, NEW id \in DOMAIN order_index,
         NEW at, at = order_index[id],
         NEW i, i = Min(Positions(levels[at.side][at.price], id)),
         levels' = [levels EXCEPT ![at.side] = EraseAt(at.side, at.price, i)]
  PROVE  LevelsOK' /\ \E o \in Resting : o.id = id /\ Resting' = Resting \ {o}
<1>1. /\ at.side \in Sides
      /\ at.price \in DOMAIN levels[at.side]
      /\ i \in 1..Len(levels[at.side][at.price])
      /\ levels[at.side][at.price][i] \in Resting
      /\ levels[at.side][at.price][i].id = id
  BY LocatedFacts
<1>2. DOMAIN levels = Sides
  BY DEF IInv, Types
<1>3. LevelBecomes(at.side, at.price, RemoveAt(levels[at.side][at.price], i))
  BY <1>1, <1>2, EraseInPlace
<1>4. LevelsOK' /\ Resting' = Resting \ {levels[at.side][at.price][i]}
  BY <1>1, <1>3, EraseStep
<1> QED BY <1>1, <1>4

LEMMA EraseEffect ==
  ASSUME IInv, NEW id \in DOMAIN order_index, LevelsOK',
         NEW o \in Resting, o.id = id, Resting' = Resting \ {o},
         order_index' = Without(order_index, id),
         order_count' = order_count - 1,
         returned' = TRUE, next_seq' = next_seq
  PROVE  IInv' /\ Resting' = {r \in Resting : r.id # id}
<1>3. Resting' = {r \in Resting : r.id # id}
  <2>1. \A r \in Resting : r.id = id <=> r = o
    BY DEF IInv, Indexed
  <2> QED BY <2>1
<1>4. /\ DOMAIN order_index' = DOMAIN order_index \ {id}
      /\ \A x \in DOMAIN order_index' : order_index'[x] = order_index[x]
  BY DEF Without, Restrict
<1>5. Types'
  BY <1>4 DEF IInv, Types, LevelsOK
<1>6. Alive'
  BY <1>3 DEF IInv, Alive
<1>7. Indexed'
  <2>1. \A r \in Resting' : \A x \in Resting' : r.id = x.id => r = x
    BY <1>3 DEF IInv, Indexed
  <2>2. DOMAIN order_index' = {r.id : r \in Resting'}
    BY <1>3, <1>4 DEF IInv, Indexed
  <2>3. \A r \in Resting' : order_index'[r.id] = [side |-> r.side, price |-> r.price]
    BY <1>3, <1>4, <2>2 DEF IInv, Indexed
  <2> QED BY <2>1, <2>2, <2>3 DEF Indexed
<1>8. Counted'
  BY <1>4, FS_RemoveElement DEF IInv, Counted
<1> QED BY <1>3, <1>5, <1>6, <1>7, <1>8 DEF IInv, LevelsOK

\* The index knows an id exactly when an order with it rests.
LEMMA KnownIds ==
  ASSUME IInv, NEW id
  PROVE  id \in DOMAIN order_index <=> \E r \in Resting : r.id = id
  BY DEF IInv, Indexed

(***************************************************************************)
(* add_order keeps the invariant and adds one order to the abstract book.  *)
(***************************************************************************)
LEMMA AddEffect ==
  ASSUME IInv, NEW id \in OrderIds, NEW side \in Sides, NEW price \in Prices,
         NEW quantity \in Quantities, NEW filled \in Quantities,
         AddOrder(id, side, price, quantity, filled)
  PROVE  IInv' /\ Abstract!AddOrder(id, side, price, quantity, filled)
<1> DEFINE ok == /\ price > 0 /\ quantity > 0 /\ filled + Tolerance < quantity
                 /\ id \notin DOMAIN order_index
<1>1. ok <=> Abstract!IsRequestCompatible(Resting, id, price, quantity, filled)
  BY KnownIds DEF Abstract!IsRequestCompatible
<1>2. CASE ~ok
  <2>1. Refuse
    BY <1>2 DEF AddOrder
  <2> QED BY <1>1, <1>2, <2>1, RefuseStep DEF Abstract!AddOrder
<1>3. CASE ok
  <2> DEFINE left == Less(quantity, filled)
  <2> DEFINE o == [id |-> id, side |-> side, price |-> price, remaining |-> left,
                   seq |-> next_seq]
  <2> DEFINE loc == [side |-> side, price |-> price]
  <2>1. /\ next_seq <= MaxAdds
        /\ levels' = [levels EXCEPT ![side] = PushBack(side, price, o)]
        /\ order_index' = With(order_index, id, loc)
        /\ order_count' = order_count + 1
        /\ next_seq' = next_seq + 1
        /\ returned' = TRUE
    BY <1>3 DEF AddOrder
  <2>2. /\ price \in Nat /\ price # 0 /\ price \in Prices \ {0}
        /\ next_seq \in Nat /\ MaxAdds \in Nat
        /\ left \in Nat /\ left > Tolerance
    BY <1>3, BookAssumption, ToleranceAssumption DEF Less, IInv, Types
  <2> HIDE DEF left
  <2>3. /\ o \in Order /\ o.id = id /\ o.side = side /\ o.price = price
        /\ o.remaining = left /\ o.seq = next_seq
    BY <2>2 DEF Order, RestingOrder
  <2>4. Resting' = Abstract!WithOrder(Resting, id, side, price, quantity, filled, next_seq)
        <=> Resting' = Resting \cup {o}
    BY DEF Abstract!WithOrder, left, Abstract!Less, Less
  <2>5. loc \in [side: Sides, price: Prices] /\ loc = [side |-> o.side, price |-> o.price]
    BY <2>3
  <2> HIDE DEF o, loc
  <2>6. LevelsOK' /\ Resting' = Resting \cup {o}
    BY <2>1, <2>2, <2>3, AddStep
  <2>7. \A r \in Resting : r.id # id /\ r \in Order /\ r.seq < next_seq
    BY <1>3, KnownIds, RestingPlaced DEF IInv, Alive
  <2>8. /\ DOMAIN order_index' = DOMAIN order_index \cup {id}
        /\ order_index'[id] = loc
        /\ \A x \in DOMAIN order_index : order_index'[x] = order_index[x]
    BY <1>3, <2>1 DEF With
  <2>9. Types'
    <3>1. next_seq' \in 1..(MaxAdds + 1) /\ returned' \in BOOLEAN
      BY <2>1, <2>2 DEF IInv, Types
    <3>2. DOMAIN order_index' \subseteq OrderIds
      BY <2>8 DEF IInv, Types
    <3>3. \A x \in DOMAIN order_index' : order_index'[x] \in [side: Sides, price: Prices]
      BY <2>5, <2>8 DEF IInv, Types
    <3> QED BY <2>6, <3>1, <3>2, <3>3 DEF Types, LevelsOK
  <2>10. Alive'
    <3> SUFFICES ASSUME NEW r \in Resting' PROVE r.remaining > Tolerance /\ r.seq < next_seq'
      BY DEF Alive
    <3>1. CASE r = o
      BY <2>1, <2>2, <2>3, <3>1
    <3>2. CASE r \in Resting
      <4>1. r.seq < next_seq /\ r.seq \in Nat /\ r.remaining > Tolerance
        BY <2>7, <3>2 DEF IInv, Alive, Order, RestingOrder
      <4> QED BY <2>1, <2>2, <4>1
    <3> QED BY <2>6, <3>1, <3>2
  <2>11. Indexed'
    <3>1. \A r \in Resting' : \A x \in Resting' : r.id = x.id => r = x
      BY <2>3, <2>6, <2>7 DEF IInv, Indexed
    <3>2. DOMAIN order_index' = {r.id : r \in Resting'}
      BY <2>3, <2>6, <2>8 DEF IInv, Indexed
    <3>3. ASSUME NEW r \in Resting'
          PROVE  order_index'[r.id] = [side |-> r.side, price |-> r.price]
      <4>1. CASE r = o
        BY <2>3, <2>5, <2>8, <4>1
      <4>2. CASE r \in Resting
        BY <2>8, <4>2 DEF IInv, Indexed
      <4> QED BY <2>6, <4>1, <4>2
    <3> QED BY <3>1, <3>2, <3>3 DEF Indexed
  <2>12. Counted'
    BY <1>3, <2>1, <2>8, FS_AddElement DEF IInv, Counted
  <2>13. IInv'
    BY <2>6, <2>9, <2>10, <2>11, <2>12 DEF IInv, LevelsOK
  <2> QED BY <1>1, <1>3, <2>1, <2>4, <2>6, <2>13 DEF Abstract!AddOrder
<1> QED BY <1>2, <1>3

(***************************************************************************)
(* cancel_order keeps the invariant and takes one order out of the book.   *)
(***************************************************************************)
LEMMA CancelEffect ==
  ASSUME IInv, NEW id \in OrderIds, CancelOrder(id)
  PROVE  IInv' /\ Abstract!CancelOrder(id)
<1>1. CASE id \in DOMAIN order_index
  <2> DEFINE at == order_index[id]
  <2> DEFINE i == Min(Positions(levels[at.side][at.price], id))
  <2>1. Located(id)
    BY <1>1, LocatedFacts
  <2>2. /\ levels' = [levels EXCEPT ![at.side] = EraseAt(at.side, at.price, i)]
        /\ order_index' = Without(order_index, id)
        /\ order_count' = order_count - 1
        /\ returned' = TRUE
        /\ next_seq' = next_seq
    BY <2>1 DEF CancelOrder
  <2>3. LevelsOK' /\ \E o \in Resting : o.id = id /\ Resting' = Resting \ {o}
    BY <1>1, <2>2, EraseLevels
  <2>4. IInv' /\ Resting' = {r \in Resting : r.id # id}
    BY <1>1, <2>2, <2>3, EraseEffect
  <2> QED BY <1>1, <2>2, <2>4, KnownIds DEF Abstract!CancelOrder
<1>2. CASE id \notin DOMAIN order_index
  <2>1. Refuse
    BY <1>2 DEF CancelOrder, Located
  <2> QED BY <1>2, <2>1, RefuseStep, KnownIds DEF Abstract!CancelOrder
<1> QED BY <1>1, <1>2

(***************************************************************************)
(* apply_fill keeps the invariant and takes the executed quantity from the *)
(* order it names, or the order itself.                                    *)
(***************************************************************************)
LEMMA FillEffect ==
  ASSUME IInv, NEW id \in OrderIds, NEW executed \in Quantities, ApplyFill(id, executed)
  PROVE  IInv' /\ Abstract!ApplyFill(id, executed)
<1>1. CASE ~(executed > Tolerance /\ id \in DOMAIN order_index)
  <2>1. Refuse
    BY <1>1 DEF ApplyFill, Located
  <2>2. ~ \E r \in Resting : r.id = id /\ Abstract!AcceptsFill(r, executed)
    BY <1>1, KnownIds DEF Abstract!AcceptsFill
  <2> QED BY <2>1, <2>2, RefuseStep DEF Abstract!ApplyFill
<1>2. CASE executed > Tolerance /\ id \in DOMAIN order_index
  <2>1. PICK at : at = order_index[id]
    OBVIOUS
  <2>2. PICK i : i = Min(Positions(levels[at.side][at.price], id))
    OBVIOUS
  <2>3. /\ Located(id) /\ at.side \in Sides /\ at.price \in DOMAIN levels[at.side]
        /\ i \in 1..Len(levels[at.side][at.price])
        /\ levels[at.side][at.price][i] \in Resting
        /\ levels[at.side][at.price][i].id = id
        /\ levels[at.side][at.price][i].side = at.side
        /\ levels[at.side][at.price][i].price = at.price
    BY <1>2, <2>1, <2>2, LocatedFacts
  <2>4. PICK order \in Resting : order = levels[at.side][at.price][i]
    BY <2>3
  <2>5. order.id = id /\ order.side = at.side /\ order.price = at.price
    BY <2>3, <2>4
  <2>6. \A r \in Resting : r.id = id => r = order
    BY <2>5 DEF IInv, Indexed
  <2>7. PICK left : left = Less(order.remaining, executed)
    OBVIOUS
  <2>8. IF executed > order.remaining + Tolerance
        THEN Refuse
        ELSE /\ IF left > Tolerance
                THEN /\ levels' = [levels EXCEPT ![at.side][at.price][i].remaining = left]
                     /\ UNCHANGED <<order_index, order_count>>
                ELSE /\ levels' = [levels EXCEPT ![at.side] = EraseAt(at.side, at.price, i)]
                     /\ order_index' = Without(order_index, id)
                     /\ order_count' = order_count - 1
             /\ returned' = TRUE
             /\ UNCHANGED next_seq
    BY <1>2, <2>1, <2>2, <2>3, <2>4, <2>7, Zenon DEF ApplyFill
  <2>9. order \in Order /\ order.remaining \in Nat /\ executed \in Nat
    <3>1. order \in Order
      BY RestingPlaced DEF IInv
    <3> QED BY <3>1, BookAssumption DEF Order, RestingOrder
  <2>10. left \in Nat
    BY <2>7, <2>9 DEF Less
  <2>11. Abstract!Less(order.remaining, executed) = left
    BY <2>7 DEF Less, Abstract!Less
  <2>12. Abstract!AcceptsFill(order, executed) <=> ~(executed > order.remaining + Tolerance)
    BY <1>2, <2>9, ToleranceAssumption DEF Abstract!AcceptsFill
  <2>13. CASE executed > order.remaining + Tolerance
    <3>1. Refuse
      BY <2>8, <2>13, Zenon
    <3>2. ~ \E r \in Resting : r.id = id /\ Abstract!AcceptsFill(r, executed)
      BY <2>6, <2>12, <2>13
    <3> QED BY <3>1, <3>2, RefuseStep DEF Abstract!ApplyFill
  <2>14. CASE ~(executed > order.remaining + Tolerance) /\ left > Tolerance
    <3>1. /\ levels' = [levels EXCEPT ![at.side][at.price][i].remaining = left]
          /\ UNCHANGED <<order_index, order_count>>
          /\ returned' = TRUE /\ UNCHANGED next_seq
      BY <2>8, <2>14, Zenon
    <3>2. /\ order_index' = order_index /\ order_count' = order_count
          /\ returned' = TRUE /\ next_seq' = next_seq
      BY <3>1, Zenon
    <3>3. PICK o : o = [order EXCEPT !.remaining = left]
      OBVIOUS
    <3>4. /\ o \in Order /\ o.id = order.id /\ o.side = order.side /\ o.price = order.price
          /\ o.remaining = left /\ o.seq = order.seq
      BY <2>9, <2>10, <3>3 DEF Order, RestingOrder
    <3>5. LevelsOK' /\ Resting' = (Resting \ {order}) \cup {o}
      <4>1. PICK new : new = Written(levels[at.side][at.price], i, o)
        OBVIOUS
      <4>2. o.seq = levels[at.side][at.price][i].seq
        BY <2>4, <3>4
      <4>3. new = [levels[at.side][at.price] EXCEPT
                     ![i] = [levels[at.side][at.price][i] EXCEPT !.remaining = left]]
        BY <2>4, <3>3, <4>1 DEF Written
      <4>4. new # <<>> => LevelBecomes(at.side, at.price, new)
        <5>1. DOMAIN levels = Sides
          BY DEF IInv, Types
        <5> QED BY <2>3, <3>1, <4>3, <5>1, WriteInPlace, Zenon
      <4>5. o.side = at.side /\ o.price = at.price
        BY <2>5, <3>4, Zenon
      <4>6. LevelsOK' /\ Resting' = (Resting \ {levels[at.side][at.price][i]}) \cup {o}
        BY <2>3, <3>4, <4>1, <4>2, <4>4, <4>5, ReduceStep
      <4> QED BY <2>4, <4>6
    <3>6. Types'
      BY <3>2, <3>5 DEF IInv, Types, LevelsOK
    <3>7. Alive'
      BY <2>14, <3>2, <3>4, <3>5 DEF IInv, Alive
    <3>8. Indexed'
      <4>1. \A r \in Resting' : \A x \in Resting' : r.id = x.id => r = x
        BY <2>5, <2>6, <3>4, <3>5 DEF IInv, Indexed
      <4>2. {r.id : r \in Resting'} = {r.id : r \in Resting}
        BY <3>4, <3>5
      <4>3. DOMAIN order_index' = {r.id : r \in Resting'}
        BY <3>2, <4>2 DEF IInv, Indexed
      <4>4. ASSUME NEW r \in Resting'
            PROVE  order_index'[r.id] = [side |-> r.side, price |-> r.price]
        <5>1. PICK x \in Resting : r.id = x.id /\ r.side = x.side /\ r.price = x.price
          BY <3>4, <3>5
        <5> QED BY <3>2, <5>1 DEF IInv, Indexed
      <4> QED BY <4>1, <4>3, <4>4 DEF Indexed
    <3>9. Counted'
      BY <3>2 DEF IInv, Counted
    <3>10. IInv'
      BY <3>5, <3>6, <3>7, <3>8, <3>9 DEF IInv, LevelsOK
    <3>11. Resting' = Abstract!WithFill(Resting, order, executed)
      BY <2>11, <2>14, <3>3, <3>5 DEF Abstract!WithFill
    <3>12. Abstract!AcceptsFill(order, executed)
      BY <2>12, <2>14
    <3> QED BY <2>5, <3>2, <3>10, <3>11, <3>12 DEF Abstract!ApplyFill
  <2>15. CASE ~(executed > order.remaining + Tolerance) /\ ~(left > Tolerance)
    <3>1. /\ levels' = [levels EXCEPT ![at.side] = EraseAt(at.side, at.price, i)]
          /\ order_index' = Without(order_index, id)
          /\ order_count' = order_count - 1
          /\ returned' = TRUE /\ next_seq' = next_seq
      BY <2>8, <2>15, Zenon
    <3>2. IInv' /\ Resting' = {r \in Resting : r.id # id}
      <4>1. LevelsOK' /\ \E o \in Resting : o.id = id /\ Resting' = Resting \ {o}
        BY <1>2, <2>1, <2>2, <3>1, EraseLevels
      <4> QED BY <1>2, <3>1, <4>1, EraseEffect
    <3>3. Resting' = Resting \ {order}
      BY <2>5, <2>6, <3>2
    <3>4. Resting' = Abstract!WithFill(Resting, order, executed)
      BY <2>11, <2>15, <3>3 DEF Abstract!WithFill
    <3>5. Abstract!AcceptsFill(order, executed)
      BY <2>12, <2>15
    <3> QED BY <2>5, <3>1, <3>2, <3>4, <3>5 DEF Abstract!ApplyFill
  <2> QED BY <2>13, <2>14, <2>15
<1> QED BY <1>1, <1>2

----------------------------------------------------------------------------
LEMMA InitInvariant ==
  ASSUME Init
  PROVE  IInv /\ Abstract!Init
<1>1. /\ levels = [side \in Sides |-> <<>>]
      /\ order_index = <<>> /\ order_count = 0 /\ next_seq = 1 /\ returned = TRUE
  BY DEF Init
<1>2. DOMAIN <<>> = {}
  OBVIOUS
<1>3. \A side \in Sides : DOMAIN levels[side] = {}
  BY <1>1, <1>2
<1>4. Resting = {}
  BY <1>3, RestingFacts
<1>5. Types
  BY <1>1, <1>2, <1>3, BookAssumption DEF Types
<1>6. Placed /\ Arrival /\ Bounded
  BY <1>3 DEF Placed, Arrival, Bounded
<1>7. Alive /\ Indexed /\ Counted
  BY <1>1, <1>2, <1>4, FS_EmptySet DEF Alive, Indexed, Counted
<1> QED BY <1>1, <1>4, <1>5, <1>6, <1>7 DEF IInv, Abstract!Init

LEMMA NextInvariant ==
  ASSUME IInv, [Next]_vars
  PROVE  IInv' /\ [Abstract!Next]_Abstract!vars
<1>1. ASSUME NEW id \in OrderIds, NEW side \in Sides, NEW price \in Prices,
             NEW quantity \in Quantities, NEW filled \in Quantities,
             AddOrder(id, side, price, quantity, filled)
      PROVE  IInv' /\ Abstract!Next
  BY <1>1, AddEffect DEF Abstract!Next, Sides, Abstract!Sides
<1>2. ASSUME NEW id \in OrderIds, CancelOrder(id)
      PROVE  IInv' /\ Abstract!Next
  BY <1>2, CancelEffect DEF Abstract!Next
<1>3. ASSUME NEW id \in OrderIds, NEW executed \in Quantities, ApplyFill(id, executed)
      PROVE  IInv' /\ Abstract!Next
  BY <1>3, FillEffect DEF Abstract!Next
<1>4. CASE UNCHANGED vars
  <2>1. /\ levels' = levels /\ order_index' = order_index
        /\ order_count' = order_count /\ next_seq' = next_seq
        /\ returned' = returned
    BY <1>4 DEF vars
  <2>2. Resting' = Resting
    BY <2>1 DEF Resting
  <2>3. Types'
    BY <2>1 DEF IInv, Types
  <2>4. Placed' /\ Arrival' /\ Bounded'
    BY <2>1 DEF IInv, Placed, Arrival, Bounded, Sorted
  <2>5. Alive' /\ Indexed' /\ Counted'
    BY <2>1, <2>2 DEF IInv, Alive, Indexed, Counted
  <2> QED BY <2>1, <2>2, <2>3, <2>4, <2>5 DEF IInv, Abstract!vars
<1> QED BY <1>1, <1>2, <1>3, <1>4 DEF Next

LEMMA Invariance == Spec => []IInv
<1>1. Init => IInv
  BY InitInvariant
<1>2. IInv /\ [Next]_vars => IInv'
  BY NextInvariant
<1> QED BY <1>1, <1>2, PTL DEF Spec

(***************************************************************************)
(* Type correctness of the maps, the index, the count and the counter.     *)
(***************************************************************************)
THEOREM TypeCorrectness == Spec => []TypeOK
<1>1. IInv => TypeOK
  BY FS_CardinalityType DEF IInv, Types, Counted, TypeOK, Order
<1> QED BY <1>1, Invariance, PTL

(***************************************************************************)
(* As many orders rest as the index knows: the id of a resting order is a  *)
(* bijection.                                                              *)
(***************************************************************************)
LEMMA RestingCount ==
  ASSUME IInv
  PROVE  Cardinality(Resting) = Cardinality(DOMAIN order_index)
<1> DEFINE f == [id \in DOMAIN order_index |-> CHOOSE r \in Resting : r.id = id]
<1>1. \A id \in DOMAIN order_index : f[id] \in Resting /\ f[id].id = id
  BY KnownIds
<1>2. f \in [DOMAIN order_index -> Resting]
  BY <1>1
<1>3. \A r \in Resting : r.id \in DOMAIN order_index /\ f[r.id] = r
  <2> TAKE r \in Resting
  <2>1. r.id \in DOMAIN order_index
    BY KnownIds
  <2>2. f[r.id] \in Resting /\ f[r.id].id = r.id
    BY <1>1, <2>1
  <2> HIDE DEF f
  <2> QED BY <2>1, <2>2 DEF IInv, Indexed
<1> HIDE DEF f
<1>4. f \in Bijection(DOMAIN order_index, Resting)
  <2>1. f \in Injection(DOMAIN order_index, Resting)
    BY <1>1, <1>2 DEF Injection, IsInjective
  <2>2. f \in Surjection(DOMAIN order_index, Resting)
    BY <1>2, <1>3 DEF Surjection
  <2> QED BY <2>1, <2>2 DEF Bijection
<1>5. ExistsBijection(DOMAIN order_index, Resting)
  BY <1>4 DEF ExistsBijection
<1> QED BY <1>5, FS_Bijection DEF IInv, Counted

(***************************************************************************)
(* order_index_, order_count_ and the two level maps never drift apart,    *)
(* whatever adds, cancellations and fills the book has taken.              *)
(***************************************************************************)
THEOREM BookAlwaysConsistent == Spec => []BookConsistent
<1>1. IInv => BookConsistent
  <2> SUFFICES ASSUME IInv PROVE BookConsistent
    OBVIOUS
  <2>1. DOMAIN order_index = {r.id : r \in Resting}
    BY DEF IInv, Indexed
  <2>2. ASSUME NEW r \in Resting
        PROVE  /\ order_index[r.id] = [side |-> r.side, price |-> r.price]
               /\ r \in Range(levels[r.side][r.price])
               /\ r.remaining > Tolerance
    BY RestingPlaced DEF IInv, Indexed, Alive
  <2>3. order_count = Cardinality(DOMAIN order_index) /\ order_count = Cardinality(Resting)
    BY RestingCount DEF IInv, Counted
  <2>4. \A side \in Sides : \A p \in DOMAIN levels[side] : levels[side][p] # <<>>
    BY DEF IInv, Types
  <2> QED BY <2>1, <2>2, <2>3, <2>4 DEF BookConsistent
<1> QED BY <1>1, Invariance, PTL

----------------------------------------------------------------------------
\* Every nonempty set of natural numbers has a least one.
LEMMA LeastNumber ==
  ASSUME NEW T, T \subseteq Nat, T # {}
  PROVE  Min(T) \in T /\ \A y \in T : Min(T) <= y
<1> DEFINE R == OpToRel(<, Nat)
<1>1. IsWellFoundedOn(R, Nat)
  BY NatLessThanWellFounded
<1>2. \A a, b \in Nat : a < b => <<a, b>> \in R
  BY DEF OpToRel
<1> HIDE DEF R
<1>3. PICK x \in T : \A y \in T : ~(<<y, x>> \in R)
  BY <1>1, WFMin
<1>4. ASSUME NEW y \in T PROVE x <= y
  <2>1. x \in Nat /\ y \in Nat /\ ~(<<y, x>> \in R)
    BY <1>3
  <2>2. ~(y < x)
    BY <1>2, <2>1
  <2> QED BY <2>1, <2>2
<1> QED BY <1>4 DEF Min

\* A nonempty set of numbers below a bound has a greatest one.
LEMMA GreatestNumber ==
  ASSUME NEW n \in Nat, NEW T, T \subseteq Nat, T # {}, \A x \in T : x <= n
  PROVE  Max(T) \in T /\ \A y \in T : y <= Max(T)
<1> DEFINE U == {n - x : x \in T}
<1>1. U \subseteq Nat /\ U # {}
  <2>1. PICK first \in T : TRUE
    OBVIOUS
  <2>2. n - first \in U
    OBVIOUS
  <2>3. \A x \in T : n - x \in Nat
    OBVIOUS
  <2> QED BY <2>2, <2>3
<1>2. PICK u \in U : \A v \in U : u <= v
  BY <1>1, LeastNumber
<1>3. PICK x \in T : u = n - x
  OBVIOUS
<1>4. ASSUME NEW y \in T PROVE x >= y
  <2>1. n - y \in U /\ x \in Nat /\ y \in Nat
    OBVIOUS
  <2>2. n - x <= n - y
    BY <1>2, <1>3, <2>1
  <2> QED BY <2>1, <2>2
<1>5. Max(T) \in T /\ \A y \in T : Max(T) >= y
  BY <1>4 DEF Max
<1> QED BY <1>5

\* begin() of a map that is not empty is a price of it that no other is before.
LEMMA FirstPriceFacts ==
  ASSUME IInv, NEW side \in Sides, DOMAIN levels[side] # {}
  PROVE  /\ FirstPrice(side) \in DOMAIN levels[side]
         /\ \A p \in DOMAIN levels[side] :
              IF side = "buy" THEN p <= FirstPrice(side) ELSE FirstPrice(side) <= p
<1>1. DOMAIN levels[side] \subseteq Nat
  BY BookAssumption DEF IInv, Types
<1>2. PICK n \in Nat : \A p \in DOMAIN levels[side] : p <= n
  BY DEF IInv, Bounded
<1>3. /\ Max(DOMAIN levels[side]) \in DOMAIN levels[side]
      /\ \A p \in DOMAIN levels[side] : p <= Max(DOMAIN levels[side])
  BY <1>1, <1>2, GreatestNumber
<1>4. /\ Min(DOMAIN levels[side]) \in DOMAIN levels[side]
      /\ \A p \in DOMAIN levels[side] : Min(DOMAIN levels[side]) <= p
  BY <1>1, LeastNumber
<1> QED BY <1>3, <1>4 DEF FirstPrice

(***************************************************************************)
(* best_bid_order and best_ask_order: the front of the first level comes   *)
(* before every other order of its side by price and then by arrival.      *)
(***************************************************************************)
LEMMA BestIsFirst ==
  ASSUME IInv, NEW side \in Sides
  PROVE  /\ BestOrder(side) = BestOrders(Resting, side)
         /\ BestOrder(side) = {} => \A r \in Resting : r.side # side
<1>1. CASE DOMAIN levels[side] = {}
  <2>1. \A r \in Resting : r.side # side
    BY <1>1, RestingPlaced DEF IInv
  <2>2. BestOrder(side) = {}
    BY <1>1 DEF BestOrder
  <2> QED BY <2>1, <2>2 DEF BestOrders
<1>2. CASE DOMAIN levels[side] # {}
  <2>1. PICK first \in DOMAIN levels[side] :
          /\ first = FirstPrice(side)
          /\ \A p \in DOMAIN levels[side] : IF side = "buy" THEN p <= first ELSE first <= p
    BY <1>2, FirstPriceFacts
  <2>2. PICK q : q = levels[side][first]
    OBVIOUS
  <2>3. q \in Seq(Order) /\ q # <<>> /\ Sorted(q)
    BY <2>2 DEF IInv, Types, Arrival
  <2>4. Len(q) \in Nat /\ 1 \in 1..Len(q) /\ q[1] \in Range(q) /\ Head(q) = q[1]
    BY <2>3, RangeFacts
  <2>5. BestOrder(side) = {q[1]}
    BY <1>2, <2>1, <2>2, <2>3, <2>4 DEF BestOrder
  <2>6. PICK best \in Resting : best = q[1] /\ best.side = side /\ best.price = first
    BY <2>2, <2>4, RestingFacts DEF IInv, Placed
  <2>7. first \in Nat
    BY BookAssumption DEF IInv, Types
  <2>8. \A r \in Resting : r.price \in Nat /\ r.seq \in Nat
    <3> TAKE r \in Resting
    <3>1. r \in Order
      BY RestingPlaced DEF IInv
    <3> QED BY <3>1 DEF Order, RestingOrder
  <2>9. ASSUME NEW o \in Resting, o.side = side, o # best PROVE Better(best, o)
    <3>1. o.price \in DOMAIN levels[side] /\ o \in Range(levels[side][o.price])
      BY <2>9, RestingPlaced DEF IInv
    <3>2. CASE o.price = first
      <4>1. PICK i \in 1..Len(q) : o = q[i]
        BY <2>2, <2>3, <3>1, <3>2, RangeFacts
      <4>2. i # 1 /\ 1 < i
        BY <2>4, <2>6, <2>9, <4>1
      <4>3. q[1].seq < q[i].seq
        BY <2>3, <2>4, <4>2 DEF Sorted
      <4>4. best.seq < o.seq /\ best.price = o.price
        BY <2>6, <3>2, <4>1, <4>3
      <4> QED BY <4>4 DEF Better
    <3>3. CASE o.price # first
      <4>1. IF side = "buy" THEN o.price <= first ELSE first <= o.price
        BY <2>1, <3>1
      <4>2. o.price \in Nat
        BY <2>8
      <4>3. side = "buy" => best.price > o.price
        BY <2>6, <2>7, <3>3, <4>1, <4>2
      <4>4. side # "buy" => best.price < o.price
        BY <2>6, <2>7, <3>3, <4>1, <4>2
      <4>5. side = "buy" \/ side = "sell"
        BY DEF Sides
      <4> QED BY <2>6, <4>3, <4>4, <4>5 DEF Better
    <3> QED BY <3>2, <3>3
  <2>10. best \in BestOrders(Resting, side)
    BY <2>6, <2>9 DEF BestOrders
  <2>11. ASSUME NEW o \in BestOrders(Resting, side) PROVE o = best
    <3> SUFFICES ASSUME o # best PROVE FALSE
      OBVIOUS
    <3>1. o \in Resting /\ o.side = side
      BY DEF BestOrders
    <3>2. Better(o, best)
      BY <2>6 DEF BestOrders
    <3>3. Better(best, o)
      BY <2>9, <3>1
    <3>4. o.price \in Nat /\ o.seq \in Nat /\ best.price \in Nat /\ best.seq \in Nat
      BY <2>8, <3>1
    <3> QED BY <2>6, <3>1, <3>2, <3>3, <3>4 DEF Better
  <2>12. BestOrders(Resting, side) = {best}
    BY <2>10, <2>11
  <2> QED BY <2>5, <2>6, <2>12
<1> QED BY <1>1, <1>2

(***************************************************************************)
(* "deterministic price-time ordering" (order_book.hpp): the order that    *)
(* best_bid_order and best_ask_order return is always the one that comes   *)
(* first of its side by price and then by arrival.                         *)
(***************************************************************************)
THEOREM BestAlwaysFirst == Spec => []BestIsPriceTimeFirst
<1>1. IInv => BestIsPriceTimeFirst
  BY BestIsFirst DEF BestIsPriceTimeFirst
<1> QED BY <1>1, Invariance, PTL

(***************************************************************************)
(* The maps, the index, the count and the scans of a deque implement the   *)
(* abstract book: every call of add_order, cancel_order and apply_fill     *)
(* does to the set of resting orders, and returns, exactly what            *)
(* PriceTimeBook says.                                                     *)
(***************************************************************************)
THEOREM BookImplementsPriceTimeBook == Spec => ImplementsPriceTimeBook
<1>1. Init => Abstract!Init
  BY InitInvariant
<1>2. IInv /\ [Next]_vars => [Abstract!Next]_Abstract!vars
  BY NextInvariant
<1> QED BY <1>1, <1>2, Invariance, PTL DEF Spec, ImplementsPriceTimeBook, Abstract!Spec
=============================================================================
