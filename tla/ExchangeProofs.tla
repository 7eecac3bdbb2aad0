--------------------------- MODULE ExchangeProofs ---------------------------
(***************************************************************************)
(* Proofs about the simulated execution engines behind the router, for     *)
(* every set of exchanges, quantities and settings and for any number of   *)
(* orders, refused requests and restarts: the fills of an order add up to  *)
(* what its last report says, and after the report that closed it its      *)
(* requests are only refused.  The argument ties each open order of an     *)
(* engine to the history of its id: the map holds what the last report     *)
(* said, whatever refusals follow it, and an id in it is one that was      *)
(* given out.                                                              *)
(***************************************************************************)
EXTENDS Exchange, SequenceTheorems, TLAPS

Statuses == {"acknowledged", "partially_filled", "filled", "pending_cancel", "canceled",
             "rejected"}
Reasons == {"none", "invalid", "not_found"}

OrderUpdate == [order_id: Nat, status: Statuses, filled: Int, reason: Reasons]

Last(s) == s[Len(s)]

\* The updates of one result: none is a refusal and none but the last closes
\* the order.
AreReports(s) ==
  /\ \A i \in 1..Len(s) : ~IsRefusal(s[i])
  /\ \A i \in 1..(Len(s) - 1) : s[i].status \notin Closed

\* r is the last report of a history, and no report before it closes.
Shows(s, r) ==
  \E n \in 1..Len(s) :
    /\ IsLastReport(s, n)
    /\ s[n] = r
    /\ \A i \in 1..(n - 1) : s[i].status \in Closed => IsRefusal(s[i])

\* There are only refusals.
Unreported(s) == \A i \in 1..Len(s) : IsRefusal(s[i])

\* What the last report of an order, its fills and its quantity have to do
\* with one another.
Fits(r, f, q) ==
  /\ f = r.filled
  /\ f <= q \/ r.status = "rejected"
  /\ r.status = "filled" => f = q

Agree(s, f, q) == \E r \in OrderUpdate : Shows(s, r) /\ Fits(r, f, q)

EngineTypes(engine) ==
  /\ engine = [open |-> engine.open, next_order_id |-> engine.next_order_id]
  /\ engine.next_order_id \in Nat
  /\ DOMAIN engine.open \subseteq Nat
  /\ \A id \in DOMAIN engine.open :
       engine.open[id].quantity \in Int /\ engine.open[id].filled \in Int

HistoryTypes ==
  /\ DOMAIN filled = DOMAIN life
  /\ DOMAIN placed \subseteq DOMAIN life
  /\ \A key \in DOMAIN life : life[key] \in Seq(OrderUpdate) /\ filled[key] \in Int
  /\ \A key \in DOMAIN placed : placed[key] \in Int
  /\ \A key \in DOMAIN life : key \notin DOMAIN placed => Unreported(life[key]) /\ filled[key] = 0

Types ==
  /\ config \in Configs
  /\ HistoryTypes
  /\ \A x \in DOMAIN adapters : EngineTypes(adapters[x])

\* An order that is open holds what its last report said.
OpenOrder(order, key) ==
  /\ key \in DOMAIN placed
  /\ key \notin reused =>
       /\ order.quantity = placed[key]
       /\ order.filled = filled[key]
       /\ filled[key] <= placed[key]
       /\ \E r \in OrderUpdate : Shows(life[key], r) /\ r.status = "partially_filled"

OpenOrders ==
  \A x \in DOMAIN adapters : \A id \in DOMAIN adapters[x].open :
    OpenOrder(adapters[x].open[id], <<x, id>>)

AllAgree ==
  \A key \in DOMAIN placed : key \notin reused => Agree(life[key], filled[key], placed[key])

IInv == Types /\ OpenOrders /\ AllAgree

----------------------------------------------------------------------------
\* Reports added to the history of an order that has none or is not closed.
LEMMA AddedReports ==
  ASSUME NEW s \in Seq(OrderUpdate), NEW u \in Seq(OrderUpdate), u # <<>>, AreReports(u),
         Unreported(s) \/ \E r : Shows(s, r) /\ r.status \notin Closed
  PROVE  s \o u \in Seq(OrderUpdate) /\ Shows(s \o u, Last(u))
<1>1. /\ s \o u \in Seq(OrderUpdate)
      /\ Len(s \o u) = Len(s) + Len(u)
      /\ \A i \in 1..(Len(s) + Len(u)) : (s \o u)[i] =
           IF i <= Len(s) THEN s[i] ELSE u[i - Len(s)]
  BY ConcatProperties
<1>2. PICK t : t = s \o u
  OBVIOUS
<1>3. Len(s) \in Nat /\ Len(u) \in Nat /\ Len(u) # 0
  BY EmptySeq, LenProperties
<1>4. PICK n \in Nat : n = Len(s) + Len(u)
  BY <1>3
<1>5. n \in 1..Len(t) /\ t[n] = Last(u) /\ ~IsRefusal(t[n])
  <2>1. n \in 1..(Len(s) + Len(u)) /\ ~(n <= Len(s)) /\ n - Len(s) = Len(u)
    BY <1>3, <1>4
  <2>2. t[n] = u[Len(u)]
    BY <1>1, <1>2, <2>1
  <2>3. ~IsRefusal(u[Len(u)])
    BY <1>3 DEF AreReports
  <2> QED BY <1>1, <1>2, <2>1, <2>2, <2>3 DEF Last
<1>6. IsLastReport(t, n)
  <2>1. Len(t) = n
    BY <1>1, <1>2, <1>4
  <2> QED BY <1>5, <2>1 DEF IsLastReport
<1>7. ASSUME NEW i \in 1..(n - 1), t[i].status \in Closed PROVE IsRefusal(t[i])
  <2>1. t[i] = IF i <= Len(s) THEN s[i] ELSE u[i - Len(s)]
    BY <1>1, <1>2, <1>3, <1>4
  <2>2. CASE i <= Len(s)
    <3>1. i \in 1..Len(s) /\ t[i] = s[i]
      BY <1>3, <2>1, <2>2
    <3>2. CASE Unreported(s)
      BY <3>1, <3>2 DEF Unreported
    <3>3. ASSUME NEW r, Shows(s, r), r.status \notin Closed PROVE IsRefusal(t[i])
      <4>1. PICK m \in 1..Len(s) :
              /\ IsLastReport(s, m) /\ s[m] = r
              /\ \A j \in 1..(m - 1) : s[j].status \in Closed => IsRefusal(s[j])
        BY <3>3 DEF Shows
      <4>2. CASE i < m
        <5>1. i \in 1..(m - 1)
          BY <1>3, <4>2
        <5> QED BY <1>7, <3>1, <4>1, <5>1
      <4>3. CASE i = m
        BY <1>7, <3>1, <3>3, <4>1, <4>3
      <4>4. CASE i > m
        <5>1. i \in (m + 1)..Len(s)
          BY <1>3, <3>1, <4>4
        <5> QED BY <3>1, <4>1, <5>1 DEF IsLastReport
      <4> QED BY <1>3, <4>2, <4>3, <4>4
    <3> QED BY <3>2, <3>3
  <2>3. CASE i > Len(s)
    <3>1. i - Len(s) \in 1..(Len(u) - 1) /\ ~(i <= Len(s))
      BY <1>3, <1>4, <2>3
    <3> QED BY <1>7, <2>1, <3>1 DEF AreReports
  <2> QED BY <1>3, <2>2, <2>3
<1> QED BY <1>1, <1>2, <1>5, <1>6, <1>7 DEF Shows

\* A refusal added to a history changes neither its last report nor that it
\* has none.
LEMMA AddedRefusal ==
  ASSUME NEW s \in Seq(OrderUpdate), NEW a \in OrderUpdate, IsRefusal(a)
  PROVE  /\ s \o <<a>> \in Seq(OrderUpdate)
         /\ Unreported(s) => Unreported(s \o <<a>>)
         /\ \A r : Shows(s, r) => Shows(s \o <<a>>, r)
<1>1. /\ s \o <<a>> \in Seq(OrderUpdate)
      /\ Len(s \o <<a>>) = Len(s) + Len(<<a>>)
      /\ \A i \in 1..(Len(s) + Len(<<a>>)) : (s \o <<a>>)[i] =
           IF i <= Len(s) THEN s[i] ELSE <<a>>[i - Len(s)]
  BY ConcatProperties
<1>2. PICK t : t = s \o <<a>>
  OBVIOUS
<1>3. Len(s) \in Nat /\ Len(<<a>>) = 1 /\ <<a>>[1] = a
  BY LenProperties
<1>4. Len(t) = Len(s) + 1
  BY <1>1, <1>2, <1>3
<1>5. \A i \in 1..Len(s) : t[i] = s[i]
  BY <1>1, <1>2, <1>3
<1>6. IsRefusal(t[Len(s) + 1])
  <2>1. Len(s) + 1 \in 1..(Len(s) + Len(<<a>>)) /\ ~(Len(s) + 1 <= Len(s))
        /\ (Len(s) + 1) - Len(s) = 1
    BY <1>3
  <2>2. t[Len(s) + 1] = <<a>>[(Len(s) + 1) - Len(s)]
    BY <1>1, <1>2, <2>1
  <2> QED BY <1>3, <2>1, <2>2
<1>7. Unreported(s) => Unreported(t)
  <2> SUFFICES ASSUME Unreported(s), NEW i \in 1..Len(t) PROVE IsRefusal(t[i])
    BY DEF Unreported
  <2>1. CASE i = Len(s) + 1
    BY <1>6, <2>1
  <2>2. CASE i # Len(s) + 1
    <3>1. i \in 1..Len(s)
      BY <1>3, <1>4, <2>2
    <3> QED BY <1>5, <3>1 DEF Unreported
  <2> QED BY <2>1, <2>2
<1>8. ASSUME NEW r, Shows(s, r) PROVE Shows(t, r)
  <2>1. PICK n \in 1..Len(s) :
          /\ IsLastReport(s, n) /\ s[n] = r
          /\ \A i \in 1..(n - 1) : s[i].status \in Closed => IsRefusal(s[i])
    BY <1>8 DEF Shows
  <2>2. n \in 1..Len(t) /\ t[n] = s[n]
    BY <1>3, <1>4, <1>5
  <2>3. ASSUME NEW m \in (n + 1)..Len(t) PROVE IsRefusal(t[m])
    <3>1. CASE m = Len(s) + 1
      BY <1>6, <3>1
    <3>2. CASE m # Len(s) + 1
      <4>1. m \in (n + 1)..Len(s) /\ m \in 1..Len(s)
        BY <1>3, <1>4, <2>1, <3>2
      <4> QED BY <1>5, <2>1, <4>1 DEF IsLastReport
    <3> QED BY <3>1, <3>2
  <2>4. IsLastReport(t, n)
    BY <2>1, <2>2, <2>3 DEF IsLastReport
  <2>5. ASSUME NEW i \in 1..(n - 1), t[i].status \in Closed PROVE IsRefusal(t[i])
    <3>1. i \in 1..Len(s)
      BY <1>3
    <3> QED BY <1>5, <2>1, <2>5, <3>1
  <2> QED BY <2>1, <2>2, <2>4, <2>5 DEF Shows
<1> QED BY <1>1, <1>2, <1>7, <1>8

\* One report, and two of them.
LEMMA OneUpdate ==
  ASSUME NEW a \in OrderUpdate, ~IsRefusal(a)
  PROVE  /\ <<a>> \in Seq(OrderUpdate) /\ <<a>> # <<>>
         /\ Last(<<a>>) = a
         /\ AreReports(<<a>>)
<1>1. Len(<<a>>) = 1 /\ <<a>>[1] = a
  OBVIOUS
<1> QED BY <1>1 DEF Last, AreReports

LEMMA TwoUpdates ==
  ASSUME NEW a \in OrderUpdate, NEW b \in OrderUpdate, a.status \notin Closed,
         ~IsRefusal(a), ~IsRefusal(b)
  PROVE  /\ <<a, b>> \in Seq(OrderUpdate) /\ <<a, b>> # <<>>
         /\ Last(<<a, b>>) = b
         /\ AreReports(<<a, b>>)
<1>1. Len(<<a, b>>) = 2 /\ <<a, b>>[1] = a /\ <<a, b>>[2] = b
  OBVIOUS
<1> QED BY <1>1 DEF Last, AreReports

LEMMA UpdateForFacts ==
  ASSUME NEW id \in Nat, NEW status \in Statuses, NEW quantity \in Int, NEW reason \in Reasons
  PROVE  /\ UpdateFor(id, status, quantity, reason) \in OrderUpdate
         /\ UpdateFor(id, status, quantity, reason).status = status
         /\ UpdateFor(id, status, quantity, reason).filled = quantity
         /\ UpdateFor(id, status, quantity, reason).reason = reason
  BY DEF UpdateFor, OrderUpdate

LEMMA UpdateFacts ==
  ASSUME NEW id \in Nat, NEW status \in Statuses, NEW quantity \in Int
  PROVE  /\ Update(id, status, quantity) \in OrderUpdate
         /\ Update(id, status, quantity).status = status
         /\ Update(id, status, quantity).filled = quantity
         /\ ~IsRefusal(Update(id, status, quantity))
  BY DEF Update, UpdateFor, OrderUpdate, Reasons, IsRefusal

(***************************************************************************)
(* A step that writes the history of one key that was given out, and       *)
(* leaves the others.                                                      *)
(***************************************************************************)
HistoryBecomes(key, s, f, q) ==
  /\ life' = Map(life, key, s)
  /\ filled' = Map(filled, key, f)
  /\ DOMAIN placed' = DOMAIN placed \cup {key}
  /\ placed'[key] = q
  /\ \A k \in DOMAIN placed : k # key => placed'[k] = placed[k]
  /\ \A k \in DOMAIN placed : k # key => (k \in reused' <=> k \in reused)

LEMMA HistoryStep ==
  ASSUME IInv, NEW key,
         NEW s \in Seq(OrderUpdate), NEW f \in Int, NEW q \in Int,
         HistoryBecomes(key, s, f, q),
         key \notin reused' => Agree(s, f, q)
  PROVE  /\ HistoryTypes'
         /\ AllAgree'
         /\ life'[key] = s /\ filled'[key] = f
         /\ \A k \in DOMAIN placed : k # key => life'[k] = life[k] /\ filled'[k] = filled[k]
<1>0. /\ life' = Map(life, key, s) /\ filled' = Map(filled, key, f)
      /\ DOMAIN placed' = DOMAIN placed \cup {key} /\ placed'[key] = q
      /\ \A k \in DOMAIN placed : k # key => placed'[k] = placed[k]
      /\ \A k \in DOMAIN placed : k # key => (k \in reused' <=> k \in reused)
  BY DEF HistoryBecomes
<1>1. /\ DOMAIN life' = DOMAIN life \cup {key} /\ life'[key] = s
      /\ \A k \in DOMAIN life : k # key => life'[k] = life[k]
  BY <1>0 DEF Map
<1>2. /\ DOMAIN filled' = DOMAIN filled \cup {key} /\ filled'[key] = f
      /\ \A k \in DOMAIN filled : k # key => filled'[k] = filled[k]
  BY <1>0 DEF Map
<1>3. HistoryTypes
  BY DEF IInv, Types
<1>4. HistoryTypes'
  <2>1. DOMAIN filled' = DOMAIN life' /\ DOMAIN placed' \subseteq DOMAIN life'
    BY <1>0, <1>1, <1>2, <1>3 DEF HistoryTypes
  <2>2. \A k \in DOMAIN life' : life'[k] \in Seq(OrderUpdate) /\ filled'[k] \in Int
    BY <1>1, <1>2, <1>3 DEF HistoryTypes
  <2>3. \A k \in DOMAIN placed' : placed'[k] \in Int
    BY <1>0, <1>3 DEF HistoryTypes
  <2>4. ASSUME NEW k \in DOMAIN life', k \notin DOMAIN placed'
        PROVE  Unreported(life'[k]) /\ filled'[k] = 0
    <3>1. k \in DOMAIN life /\ k # key /\ k \notin DOMAIN placed
      BY <1>0, <1>1, <2>4
    <3>2. life'[k] = life[k] /\ filled'[k] = filled[k]
      BY <1>1, <1>2, <1>3, <3>1 DEF HistoryTypes
    <3> QED BY <1>3, <3>1, <3>2 DEF HistoryTypes
  <2> QED BY <2>1, <2>2, <2>3, <2>4 DEF HistoryTypes, Unreported
<1>5. ASSUME NEW k \in DOMAIN placed', k \notin reused'
      PROVE  Agree(life'[k], filled'[k], placed'[k])
  <2>1. CASE k = key
    BY <1>0, <1>1, <1>2, <1>5, <2>1
  <2>2. CASE k # key
    <3>1. k \in DOMAIN placed /\ k \notin reused
      BY <1>0, <1>5, <2>2
    <3>2. life'[k] = life[k] /\ filled'[k] = filled[k] /\ placed'[k] = placed[k]
      BY <1>0, <1>1, <1>2, <1>3, <2>2, <3>1 DEF HistoryTypes
    <3> QED BY <3>1, <3>2 DEF IInv, AllAgree
  <2> QED BY <2>1, <2>2
<1>6. AllAgree'
  BY <1>5 DEF AllAgree, Agree, Shows, Fits, IsLastReport
<1>7. \A k \in DOMAIN placed : k # key => life'[k] = life[k] /\ filled'[k] = filled[k]
  BY <1>1, <1>2, <1>3 DEF HistoryTypes
<1> QED BY <1>1, <1>2, <1>4, <1>6, <1>7

LEMMA UnchangedHistory ==
  ASSUME IInv, adapters' = adapters, life' = life, placed' = placed, filled' = filled,
         reused' = reused, config' = config
  PROVE  IInv'
<1>1. HistoryTypes'
  BY DEF IInv, Types, HistoryTypes, Unreported
<1>2. Types'
  BY <1>1 DEF IInv, Types, EngineTypes
<1>3. OpenOrders'
  <2>1. ASSUME NEW y \in DOMAIN adapters, NEW o \in DOMAIN adapters[y].open
        PROVE  OpenOrder(adapters[y].open[o], <<y, o>>)'
    <3>1. OpenOrder(adapters[y].open[o], <<y, o>>)
      BY DEF IInv, OpenOrders
    <3> QED BY <3>1 DEF OpenOrder, Shows, IsLastReport
  <2> QED BY <2>1 DEF OpenOrders, OpenOrder
<1>4. AllAgree'
  BY DEF IInv, AllAgree, Agree, Shows, Fits, IsLastReport
<1> QED BY <1>2, <1>3, <1>4 DEF IInv

----------------------------------------------------------------------------
(***************************************************************************)
(* erase of an open order from the map of an engine.                       *)
(***************************************************************************)
LEMMA EraseOpen ==
  ASSUME Types, NEW x \in DOMAIN adapters, NEW id,
         adapters' = [adapters EXCEPT ![x].open =
                        [o \in DOMAIN adapters[x].open \ {id} |-> adapters[x].open[o]]]
  PROVE  /\ DOMAIN adapters' = DOMAIN adapters
         /\ \A y \in DOMAIN adapters : EngineTypes(adapters'[y])
         /\ \A y \in DOMAIN adapters : \A o \in DOMAIN adapters'[y].open :
              /\ o \in DOMAIN adapters[y].open
              /\ adapters'[y].open[o] = adapters[y].open[o]
              /\ y = x => o # id
<1>1. PICK engine : engine = adapters[x]
  OBVIOUS
<1>2. EngineTypes(engine)
  BY <1>1 DEF Types
<1>3. PICK open : open = [o \in DOMAIN engine.open \ {id} |-> engine.open[o]]
  OBVIOUS
<1>4. PICK after : after = [open |-> open, next_order_id |-> engine.next_order_id]
  OBVIOUS
<1>5. [engine EXCEPT !.open = open] = after
  BY <1>2, <1>4 DEF EngineTypes
<1>6. DOMAIN adapters' = DOMAIN adapters /\ adapters'[x] = [engine EXCEPT !.open = open]
      /\ \A y \in DOMAIN adapters : y # x => adapters'[y] = adapters[y]
  BY <1>1, <1>3
<1>7. adapters'[x] = after
  BY <1>5, <1>6
<1>8. /\ DOMAIN after.open = DOMAIN engine.open \ {id}
      /\ \A o \in DOMAIN after.open : after.open[o] = engine.open[o]
      /\ after.next_order_id = engine.next_order_id
      /\ after = [open |-> after.open, next_order_id |-> after.next_order_id]
  BY <1>3, <1>4
<1>9. EngineTypes(after)
  BY <1>2, <1>8 DEF EngineTypes
<1>10. ASSUME NEW y \in DOMAIN adapters PROVE EngineTypes(adapters'[y])
  <2>1. CASE y = x
    BY <1>7, <1>9, <2>1
  <2>2. CASE y # x
    BY <1>6, <2>2 DEF Types
  <2> QED BY <2>1, <2>2
<1>11. ASSUME NEW y \in DOMAIN adapters, NEW o \in DOMAIN adapters'[y].open
       PROVE  /\ o \in DOMAIN adapters[y].open
              /\ adapters'[y].open[o] = adapters[y].open[o]
              /\ y = x => o # id
  <2>1. CASE y = x
    BY <1>1, <1>7, <1>8, <1>11, <2>1, ZenonT(40)
  <2>2. CASE y # x
    BY <1>6, <1>11, <2>2
  <2> QED BY <2>1, <2>2
<1> QED BY <1>6, <1>10, <1>11

(***************************************************************************)
(* complete_open_order and cancel_open_order of an open order: its last    *)
(* reports and fills go to its history and it leaves the map.              *)
(***************************************************************************)
LEMMA EndStep ==
  ASSUME IInv, NEW x \in DOMAIN adapters, NEW id \in DOMAIN adapters[x].open,
         NEW u \in Seq(OrderUpdate), u # <<>>, AreReports(u), Last(u) \in OrderUpdate,
         NEW f \in Int,
         life' = Map(life, <<x, id>>, life[<<x, id>>] \o u),
         filled' = Map(filled, <<x, id>>, f),
         adapters[x].open[id].quantity = placed[<<x, id>>]
           /\ adapters[x].open[id].filled = filled[<<x, id>>]
           /\ filled[<<x, id>>] <= placed[<<x, id>>] => Fits(Last(u), f, placed[<<x, id>>]),
         adapters' = [adapters EXCEPT ![x].open =
                        [o \in DOMAIN adapters[x].open \ {id} |-> adapters[x].open[o]]],
         placed' = placed, reused' = reused, config' = config
  PROVE  IInv'
<1>1. PICK key : key = <<x, id>>
  OBVIOUS
<1>2. OpenOrder(adapters[x].open[id], key)
  BY <1>1 DEF IInv, OpenOrders
<1>3. /\ key \in DOMAIN placed /\ key \in DOMAIN life
      /\ life[key] \in Seq(OrderUpdate)
      /\ filled[key] \in Int /\ placed[key] \in Int
  BY <1>2 DEF OpenOrder, IInv, Types, HistoryTypes
<1>4. PICK s : s = life[key] \o u
  OBVIOUS
<1>5. s \in Seq(OrderUpdate)
  BY <1>3, <1>4, ConcatProperties
<1>6. ASSUME key \notin reused PROVE Agree(s, f, placed[key])
  <2>1. /\ adapters[x].open[id].quantity = placed[key]
        /\ adapters[x].open[id].filled = filled[key]
        /\ filled[key] <= placed[key]
    BY <1>2, <1>6 DEF OpenOrder
  <2>2. PICK r \in OrderUpdate : Shows(life[key], r) /\ r.status = "partially_filled"
    BY <1>2, <1>6 DEF OpenOrder
  <2>3. r.status \notin Closed
    BY <2>2 DEF Closed
  <2>4. Shows(s, Last(u))
    BY <1>3, <1>4, <2>2, <2>3, AddedReports
  <2>5. Fits(Last(u), f, placed[key])
    BY <1>1, <2>1
  <2> QED BY <2>4, <2>5 DEF Agree
<1>7. /\ life' = Map(life, key, s) /\ filled' = Map(filled, key, f)
      /\ DOMAIN placed' = DOMAIN placed \cup {key}
  BY <1>1, <1>3, <1>4
<1>8. /\ HistoryTypes'
      /\ AllAgree'
      /\ \A k \in DOMAIN placed : k # key => life'[k] = life[k] /\ filled'[k] = filled[k]
  <2>1. PICK q \in Int : q = placed[key]
    BY <1>3
  <2>2. /\ placed'[key] = q
        /\ \A k \in DOMAIN placed : k # key => placed'[k] = placed[k]
        /\ \A k \in DOMAIN placed : k # key => (k \in reused' <=> k \in reused)
        /\ key \notin reused' => Agree(s, f, q)
    BY <1>6, <2>1
  <2>3. HistoryBecomes(key, s, f, q)
    BY <1>7, <2>2 DEF HistoryBecomes
  <2> QED BY <1>5, <2>2, <2>3, HistoryStep
<1>9. /\ DOMAIN adapters' = DOMAIN adapters
      /\ \A y \in DOMAIN adapters : EngineTypes(adapters'[y])
      /\ \A y \in DOMAIN adapters : \A o \in DOMAIN adapters'[y].open :
           /\ o \in DOMAIN adapters[y].open
           /\ adapters'[y].open[o] = adapters[y].open[o]
           /\ y = x => o # id
  BY EraseOpen DEF IInv
<1>10. Types'
  <2>1. \A y \in DOMAIN adapters' : EngineTypes(adapters'[y])
    BY <1>9
  <2> QED BY <1>8, <2>1 DEF IInv, Types, HistoryTypes, Unreported, EngineTypes
<1>11. ASSUME NEW y \in DOMAIN adapters', NEW o \in DOMAIN adapters'[y].open
       PROVE  OpenOrder(adapters[y].open[o], <<y, o>>)'
  <2>1. /\ y \in DOMAIN adapters /\ o \in DOMAIN adapters[y].open
        /\ adapters'[y].open[o] = adapters[y].open[o]
        /\ <<y, o>> # key
    BY <1>1, <1>9, <1>11
  <2>2. OpenOrder(adapters[y].open[o], <<y, o>>)
    BY <2>1 DEF IInv, OpenOrders
  <2>3. <<y, o>> \in DOMAIN placed
    BY <2>2 DEF OpenOrder
  <2>4. life'[<<y, o>>] = life[<<y, o>>] /\ filled'[<<y, o>>] = filled[<<y, o>>]
    BY <1>8, <2>1, <2>3
  <2> QED BY <2>1, <2>2, <2>4 DEF OpenOrder, Shows, IsLastReport
<1>12. OpenOrders'
  BY <1>11 DEF OpenOrders, OpenOrder
<1> QED BY <1>8, <1>10, <1>12 DEF IInv

\* The history of a result, spelled out.
LEMMA RecordFacts ==
  ASSUME NEW x, NEW id, NEW u, NEW fills, NEW sum,
         sum = IF fills = <<>> THEN 0 ELSE fills[1],
         Record(x, [order_id |-> id, updates |-> u, fills |-> fills])
  PROVE  LET key == <<x, id>>
         IN  /\ life' = Map(life, key, (IF key \in DOMAIN life THEN life[key] ELSE <<>>) \o u)
             /\ filled' = Map(filled, key,
                              (IF key \in DOMAIN filled THEN filled[key] ELSE 0) + sum)
  BY DEF Record

(***************************************************************************)
(* A refused request: the refusal joins the history of the id, whether it  *)
(* is one that was given out or not, and no last report changes.           *)
(***************************************************************************)
LEMMA RefuseEffect ==
  ASSUME IInv, NEW x, NEW id \in Nat, Refuse(x, id),
         placed' = placed, reused' = reused, config' = config
  PROVE  IInv'
<1>1. PICK key : key = <<x, id>>
  OBVIOUS
<1>2. PICK a \in OrderUpdate : a = UpdateFor(id, "rejected", 0, "not_found") /\ IsRefusal(a)
  <2>1. "rejected" \in Statuses /\ "not_found" \in Reasons
    BY DEF Statuses, Reasons
  <2>2. /\ UpdateFor(id, "rejected", 0, "not_found") \in OrderUpdate
        /\ UpdateFor(id, "rejected", 0, "not_found").reason = "not_found"
    BY <2>1, UpdateForFacts
  <2> QED BY <2>2 DEF IsRefusal
<1>3. HistoryTypes
  BY DEF IInv, Types
<1>4. PICK before \in Seq(OrderUpdate) : before = IF key \in DOMAIN life THEN life[key] ELSE <<>>
  BY <1>3, EmptySeq DEF HistoryTypes
<1>5. PICK was \in Int : was = IF key \in DOMAIN filled THEN filled[key] ELSE 0
  <2>1. key \in DOMAIN filled => filled[key] \in Int
    BY <1>3 DEF HistoryTypes
  <2> QED BY <2>1
<1>6. PICK s : s = before \o <<a>>
  OBVIOUS
<1>7. life' = Map(life, key, s) /\ filled' = Map(filled, key, was) /\ adapters' = adapters
  <2>1. Record(x, [order_id |-> id, updates |-> <<a>>, fills |-> <<>>]) /\ adapters' = adapters
    BY <1>2 DEF Refuse, NotFound
  <2>2. /\ life' = Map(life, key, before \o <<a>>)
        /\ filled' = Map(filled, key, was + 0)
    BY <1>1, <1>4, <1>5, <2>1, RecordFacts
  <2> QED BY <1>5, <1>6, <2>1, <2>2
<1>8. /\ s \in Seq(OrderUpdate)
      /\ Unreported(before) => Unreported(s)
      /\ \A r : Shows(before, r) => Shows(s, r)
  BY <1>2, <1>4, <1>6, AddedRefusal
<1>9. /\ DOMAIN life' = DOMAIN life \cup {key} /\ life'[key] = s
      /\ \A k \in DOMAIN life : k # key => life'[k] = life[k]
      /\ DOMAIN filled' = DOMAIN filled \cup {key} /\ filled'[key] = was
      /\ \A k \in DOMAIN filled : k # key => filled'[k] = filled[k]
  BY <1>7 DEF Map
<1>10. HistoryTypes'
  <2>1. DOMAIN filled' = DOMAIN life' /\ DOMAIN placed' \subseteq DOMAIN life'
    BY <1>3, <1>9 DEF HistoryTypes
  <2>2. \A k \in DOMAIN life' : life'[k] \in Seq(OrderUpdate) /\ filled'[k] \in Int
    BY <1>3, <1>8, <1>9 DEF HistoryTypes
  <2>3. ASSUME NEW k \in DOMAIN life', k \notin DOMAIN placed
        PROVE  Unreported(life'[k]) /\ filled'[k] = 0
    <3>1. CASE k # key
      <4>1. k \in DOMAIN life /\ life'[k] = life[k] /\ filled'[k] = filled[k]
        BY <1>3, <1>9, <2>3, <3>1 DEF HistoryTypes
      <4> QED BY <1>3, <2>3, <4>1 DEF HistoryTypes
    <3>2. CASE k = key /\ key \in DOMAIN life
      <4>1. Unreported(before) /\ was = 0
        BY <1>3, <1>4, <1>5, <2>3, <3>2 DEF HistoryTypes
      <4> QED BY <1>8, <1>9, <3>2, <4>1
    <3>3. CASE k = key /\ key \notin DOMAIN life
      <4>1. before = <<>> /\ was = 0
        BY <1>3, <1>4, <1>5, <3>3 DEF HistoryTypes
      <4>2. Unreported(before)
        BY <4>1 DEF Unreported
      <4> QED BY <1>8, <1>9, <3>3, <4>1, <4>2
    <3> QED BY <3>1, <3>2, <3>3
  <2> QED BY <1>3, <2>1, <2>2, <2>3 DEF HistoryTypes, Unreported
<1>11. ASSUME NEW k \in DOMAIN placed
       PROVE  /\ filled'[k] = filled[k]
              /\ \A r : Shows(life[k], r) => Shows(life'[k], r)
  <2>1. k \in DOMAIN life /\ k \in DOMAIN filled
    BY <1>3 DEF HistoryTypes
  <2>2. CASE k = key
    <3>1. before = life[k] /\ was = filled[k]
      BY <1>4, <1>5, <2>1, <2>2
    <3> QED BY <1>8, <1>9, <2>2, <3>1
  <2>3. CASE k # key
    BY <1>9, <2>1, <2>3
  <2> QED BY <2>2, <2>3
<1>12. ASSUME NEW k \in DOMAIN placed', k \notin reused'
       PROVE  Agree(life'[k], filled'[k], placed'[k])
  <2>1. PICK r \in OrderUpdate : Shows(life[k], r) /\ Fits(r, filled[k], placed[k])
    BY <1>12 DEF IInv, AllAgree, Agree
  <2> QED BY <1>11, <1>12, <2>1 DEF Agree
<1>13. AllAgree'
  BY <1>12 DEF AllAgree, Agree, Shows, Fits, IsLastReport
<1>14. ASSUME NEW y \in DOMAIN adapters', NEW o \in DOMAIN adapters'[y].open
       PROVE  OpenOrder(adapters[y].open[o], <<y, o>>)'
  <2>1. OpenOrder(adapters[y].open[o], <<y, o>>)
    BY <1>7, <1>14 DEF IInv, OpenOrders
  <2>2. PICK k : k = <<y, o>>
    OBVIOUS
  <2>3. k \in DOMAIN placed
    BY <2>1, <2>2 DEF OpenOrder
  <2>4. ASSUME k \notin reused
        PROVE  \E r \in OrderUpdate : Shows(life'[k], r) /\ r.status = "partially_filled"
    BY <1>11, <2>1, <2>2, <2>3, <2>4 DEF OpenOrder
  <2>5. filled'[k] = filled[k]
    BY <1>11, <2>3
  <2> QED BY <1>7, <2>1, <2>2, <2>3, <2>4, <2>5 DEF OpenOrder, Shows, IsLastReport
<1>15. OpenOrders'
  BY <1>14 DEF OpenOrders, OpenOrder
<1>16. Types'
  BY <1>7, <1>10 DEF IInv, Types, HistoryTypes, Unreported, EngineTypes
<1> QED BY <1>13, <1>15, <1>16 DEF IInv

\* What the map of an engine says of an order that is open.
LEMMA OpenFacts ==
  ASSUME IInv, NEW x \in DOMAIN adapters, NEW id \in DOMAIN adapters[x].open
  PROVE  /\ id \in Nat
         /\ adapters[x].open[id].quantity \in Int /\ adapters[x].open[id].filled \in Int
         /\ <<x, id>> \in DOMAIN life /\ <<x, id>> \in DOMAIN filled
         /\ life[<<x, id>>] \in Seq(OrderUpdate)
         /\ filled[<<x, id>>] \in Int /\ placed[<<x, id>>] \in Int
<1>1. OpenOrder(adapters[x].open[id], <<x, id>>)
  BY DEF IInv, OpenOrders
<1>2. EngineTypes(adapters[x])
  BY DEF IInv, Types
<1> QED BY <1>1, <1>2 DEF OpenOrder, EngineTypes, IInv, Types, HistoryTypes

LEMMA CompleteEffect ==
  ASSUME IInv, NEW x, NEW id \in Nat, Complete(x, id)
  PROVE  IInv'
<1>1. x \in DOMAIN adapters /\ placed' = placed /\ reused' = reused /\ config' = config
  BY DEF Complete
<1>2. CASE id \in DOMAIN adapters[x].open
  <2>1. PICK order : order = adapters[x].open[id]
    OBVIOUS
  <2>2. /\ Record(x, CompleteResult(id, order))
        /\ adapters' = [adapters EXCEPT ![x].open =
                          [o \in DOMAIN adapters[x].open \ {id} |-> adapters[x].open[o]]]
    BY <1>2, <2>1 DEF Complete, Finish
  <2>3. /\ id \in Nat
        /\ order.quantity \in Int /\ order.filled \in Int
        /\ <<x, id>> \in DOMAIN life /\ <<x, id>> \in DOMAIN filled
        /\ filled[<<x, id>>] \in Int /\ placed[<<x, id>>] \in Int
    BY <1>1, <1>2, <2>1, OpenFacts
  <2>4. PICK a \in OrderUpdate : /\ a = Update(id, "filled", order.quantity)
                                 /\ a.status = "filled" /\ a.filled = order.quantity
                                 /\ ~IsRefusal(a)
    <3>1. "filled" \in Statuses
      BY DEF Statuses
    <3>2. PICK q \in Int : q = order.quantity
      BY <2>3
    <3>3. PICK a \in OrderUpdate : /\ a = Update(id, "filled", q)
                                   /\ a.status = "filled" /\ a.filled = q
                                   /\ ~IsRefusal(a)
      BY <2>3, <3>1, UpdateFacts
    <3> QED BY <3>2, <3>3
  <2>5. <<a>> \in Seq(OrderUpdate) /\ <<a>> # <<>> /\ Last(<<a>>) = a /\ AreReports(<<a>>)
    BY <2>4, OneUpdate
  <2>6. PICK u : u = <<a>>
    OBVIOUS
  <2>7. PICK d \in Int : d = order.quantity - order.filled
    BY <2>3
  <2>8. /\ life' = Map(life, <<x, id>>, life[<<x, id>>] \o u)
        /\ filled' = Map(filled, <<x, id>>, filled[<<x, id>>] + d)
    <3>1. Record(x, [order_id |-> id, updates |-> u, fills |-> <<d>>])
      BY <2>2, <2>4, <2>6, <2>7 DEF CompleteResult
    <3>2. d = IF <<d>> = <<>> THEN 0 ELSE <<d>>[1]
      OBVIOUS
    <3> QED BY <2>3, <3>1, <3>2, RecordFacts
  <2>9. PICK f \in Int : f = filled[<<x, id>>] + d
    BY <2>3
  <2>10. /\ u \in Seq(OrderUpdate) /\ u # <<>> /\ Last(u) = a /\ AreReports(u)
         /\ Last(u).filled = order.quantity /\ Last(u) \in OrderUpdate
    BY <2>4, <2>5, <2>6
  <2>11. ASSUME order.quantity = placed[<<x, id>>], order.filled = filled[<<x, id>>]
         PROVE  Fits(Last(u), f, placed[<<x, id>>])
    BY <2>3, <2>7, <2>9, <2>10, <2>11 DEF Fits
  <2>12. life' = Map(life, <<x, id>>, life[<<x, id>>] \o u) /\ filled' = Map(filled, <<x, id>>, f)
    BY <2>8, <2>9
  <2> QED BY <1>1, <1>2, <2>1, <2>2, <2>10, <2>11, <2>12, EndStep
<1>3. CASE id \notin DOMAIN adapters[x].open
  <2>1. Refuse(x, id)
    BY <1>3 DEF Complete
  <2> QED BY <1>1, <2>1, RefuseEffect
<1> QED BY <1>2, <1>3

LEMMA CancelEffect ==
  ASSUME IInv, NEW x, NEW id \in Nat, Cancel(x, id)
  PROVE  IInv'
<1>1. placed' = placed /\ reused' = reused /\ config' = config
  BY DEF Cancel
<1>2. CASE x \in DOMAIN adapters /\ id \in DOMAIN adapters[x].open
  <2>1. PICK order : order = adapters[x].open[id]
    OBVIOUS
  <2>2. /\ Record(x, CancelResult(id, order))
        /\ adapters' = [adapters EXCEPT ![x].open =
                          [o \in DOMAIN adapters[x].open \ {id} |-> adapters[x].open[o]]]
    BY <1>2, <2>1 DEF Cancel, Finish
  <2>3. /\ id \in Nat
        /\ order.quantity \in Int /\ order.filled \in Int
        /\ <<x, id>> \in DOMAIN life /\ <<x, id>> \in DOMAIN filled
        /\ filled[<<x, id>>] \in Int /\ placed[<<x, id>>] \in Int
    BY <1>2, <2>1, OpenFacts
  <2>4. PICK a \in OrderUpdate : /\ a = Update(id, "pending_cancel", order.filled)
                                 /\ a.status = "pending_cancel" /\ ~IsRefusal(a)
    BY <2>3, UpdateFacts DEF Statuses
  <2>5. PICK b \in OrderUpdate : /\ b = Update(id, "canceled", order.filled)
                                 /\ b.status = "canceled" /\ b.filled = order.filled
                                 /\ ~IsRefusal(b)
    BY <2>3, UpdateFacts DEF Statuses
  <2>6. /\ <<a, b>> \in Seq(OrderUpdate) /\ <<a, b>> # <<>>
        /\ Last(<<a, b>>) = b /\ AreReports(<<a, b>>)
    BY <2>4, <2>5, TwoUpdates DEF Closed
  <2>7. PICK u : u = <<a, b>>
    OBVIOUS
  <2>8. /\ life' = Map(life, <<x, id>>, life[<<x, id>>] \o u)
        /\ filled' = Map(filled, <<x, id>>, filled[<<x, id>>] + 0)
    <3>1. Record(x, [order_id |-> id, updates |-> u, fills |-> <<>>])
      BY <2>2, <2>4, <2>5, <2>7 DEF CancelResult
    <3> QED BY <2>3, <3>1, RecordFacts
  <2>9. PICK f \in Int : f = filled[<<x, id>>]
    BY <2>3
  <2>10. /\ u \in Seq(OrderUpdate) /\ u # <<>> /\ Last(u) = b /\ AreReports(u)
         /\ Last(u).filled = order.filled /\ Last(u) \in OrderUpdate
         /\ Last(u).status # "filled"
    BY <2>5, <2>6, <2>7
  <2>11. life' = Map(life, <<x, id>>, life[<<x, id>>] \o u) /\ filled' = Map(filled, <<x, id>>, f)
    BY <2>3, <2>8, <2>9
  <2>12. ASSUME order.filled = filled[<<x, id>>], filled[<<x, id>>] <= placed[<<x, id>>]
         PROVE  Fits(Last(u), f, placed[<<x, id>>])
    BY <2>9, <2>10, <2>12 DEF Fits
  <2> QED BY <1>1, <1>2, <2>1, <2>2, <2>10, <2>11, <2>12, EndStep
<1>3. CASE ~(x \in DOMAIN adapters /\ id \in DOMAIN adapters[x].open)
  <2>1. Refuse(x, id)
    BY <1>3 DEF Cancel
  <2> QED BY <1>1, <2>1, RefuseEffect
<1> QED BY <1>2, <1>3

----------------------------------------------------------------------------
\* clamp_partial_fill_ratio keeps a partial fill within the quantity.
LEMMA PartFacts ==
  ASSUME config \in Configs, NEW q \in Int, q > 0
  PROVE  (q * Ratio) \div 2 \in Int /\ (q * Ratio) \div 2 <= q
<1>1. config.ratio \in Int
  BY ExchangeAssumption
<1>2. Ratio = 0 \/ Ratio = 1 \/ Ratio = 2
  BY <1>1 DEF Ratio
<1>3. CASE Ratio = 0
  <2>1. (q * Ratio) \div 2 = 0
    BY <1>3
  <2> QED BY <2>1
<1>4. CASE Ratio = 1
  <2>1. q * Ratio = q
    BY <1>4
  <2>2. q \div 2 \in Int /\ q \div 2 <= q
    OBVIOUS
  <2> QED BY <2>1, <2>2
<1>5. CASE Ratio = 2
  <2>1. q * Ratio = 2 * q
    BY <1>5
  <2>2. (2 * q) \div 2 = q
    OBVIOUS
  <2> QED BY <2>1, <2>2
<1> QED BY <1>2, <1>3, <1>4, <1>5

\* What fills add up to: a result has at most one.
SumOf(fills) == IF fills = <<>> THEN 0 ELSE fills[1]

(***************************************************************************)
(* The result of submit: its one fill is what its last update says, within *)
(* the quantity of the request unless that was refused.                    *)
(***************************************************************************)
SubmitAgrees(r, q) ==
  /\ r.updates \in Seq(OrderUpdate) /\ r.updates # <<>>
  /\ SumOf(r.fills) \in Int
  /\ AreReports(r.updates) /\ Last(r.updates) \in OrderUpdate
  /\ Fits(Last(r.updates), SumOf(r.fills), q)
  /\ Last(r.updates).status = "partially_filled" => r.fills[1] = SumOf(r.fills)

LEMMA SubmitFacts ==
  ASSUME config \in Configs, NEW id \in Nat, NEW request \in Requests
  PROVE  LET r == SubmitResult(id, request)
         IN  /\ r = [order_id |-> id, updates |-> r.updates, fills |-> r.fills]
             /\ SubmitAgrees(r, request.quantity)
<1>1. PICK q \in Int : q = request.quantity
  BY ExchangeAssumption DEF Requests
<1>2. PICK part : part = (q * Ratio) \div 2
  OBVIOUS
<1>3. PICK ack \in OrderUpdate : /\ ack = Update(id, "acknowledged", 0)
                               /\ ack.status = "acknowledged"
                               /\ ~IsRefusal(ack)
  <2>1. "acknowledged" \in Statuses
    BY DEF Statuses
  <2> QED BY <2>1, UpdateFacts
<1>4. PICK r : r = SubmitResult(id, request)
  OBVIOUS
<1>5. CASE request.type = "market" \/ ~request.priced \/ q <= 0
  <2>1. PICK a \in OrderUpdate : /\ a = UpdateFor(id, "rejected", 0, "invalid")
                                 /\ a.status = "rejected" /\ a.filled = 0 /\ ~IsRefusal(a)
    <3>1. "rejected" \in Statuses /\ "invalid" \in Reasons
      BY DEF Statuses, Reasons
    <3>2. /\ UpdateFor(id, "rejected", 0, "invalid") \in OrderUpdate
          /\ UpdateFor(id, "rejected", 0, "invalid").status = "rejected"
          /\ UpdateFor(id, "rejected", 0, "invalid").filled = 0
          /\ UpdateFor(id, "rejected", 0, "invalid").reason = "invalid"
      BY <3>1, UpdateForFacts
    <3> QED BY <3>2 DEF IsRefusal
  <2>2. r = [order_id |-> id, updates |-> <<a>>, fills |-> <<>>]
    <3>1. request.type = "market" \/ ~request.priced \/ request.quantity <= 0
      BY <1>1, <1>5
    <3> QED BY <1>4, <2>1, <3>1, Zenon DEF SubmitResult
  <2>3. r.updates = <<a>> /\ r.fills = <<>> /\ SumOf(r.fills) = 0
    BY <2>2 DEF SumOf
  <2>4. /\ <<a>> \in Seq(OrderUpdate) /\ <<a>> # <<>>
        /\ Last(<<a>>) = a /\ AreReports(<<a>>)
    BY <2>1, OneUpdate
  <2>5. SubmitAgrees(r, q)
    BY <2>1, <2>3, <2>4 DEF SubmitAgrees, Fits
  <2> QED BY <1>1, <1>4, <2>2, <2>5
<1>6. CASE /\ ~(request.type = "market" \/ ~request.priced \/ q <= 0)
           /\ config.threshold > 0 /\ q >= config.threshold
  <2>1. part \in Int /\ part <= q
    BY <1>2, <1>6, PartFacts
  <2>2. PICK a \in OrderUpdate : /\ a = Update(id, "partially_filled", part)
                                 /\ a.status = "partially_filled" /\ a.filled = part
                                 /\ ~IsRefusal(a)
    <3>1. "partially_filled" \in Statuses
      BY DEF Statuses
    <3> QED BY <2>1, <3>1, UpdateFacts
  <2>3. r = [order_id |-> id, updates |-> <<ack, a>>, fills |-> <<part>>]
    BY <1>1, <1>2, <1>3, <1>4, <1>6, <2>2 DEF SubmitResult
  <2>4. /\ r.updates = <<ack, a>> /\ r.fills = <<part>> /\ r.fills[1] = part
        /\ SumOf(r.fills) = part
    BY <2>3 DEF SumOf
  <2>5. /\ <<ack, a>> \in Seq(OrderUpdate) /\ <<ack, a>> # <<>>
        /\ Last(<<ack, a>>) = a /\ AreReports(<<ack, a>>)
    BY <1>3, <2>2, TwoUpdates DEF Closed
  <2>6. SubmitAgrees(r, q)
    BY <2>1, <2>2, <2>4, <2>5 DEF SubmitAgrees, Fits
  <2> QED BY <1>1, <1>4, <2>3, <2>6
<1>7. CASE /\ ~(request.type = "market" \/ ~request.priced \/ q <= 0)
           /\ ~(config.threshold > 0 /\ q >= config.threshold)
  <2>1. PICK a \in OrderUpdate : /\ a = Update(id, "filled", q)
                                 /\ a.status = "filled" /\ a.filled = q /\ ~IsRefusal(a)
    <3>1. "filled" \in Statuses
      BY DEF Statuses
    <3> QED BY <3>1, UpdateFacts
  <2>2. r = [order_id |-> id, updates |-> <<ack, a>>, fills |-> <<q>>]
    BY <1>1, <1>3, <1>4, <1>7, <2>1 DEF SubmitResult
  <2>3. r.updates = <<ack, a>> /\ r.fills = <<q>> /\ SumOf(r.fills) = q
    BY <2>2 DEF SumOf
  <2>4. /\ <<ack, a>> \in Seq(OrderUpdate) /\ <<ack, a>> # <<>>
        /\ Last(<<ack, a>>) = a /\ AreReports(<<ack, a>>)
    BY <1>3, <2>1, TwoUpdates DEF Closed
  <2>5. SubmitAgrees(r, q)
    BY <2>1, <2>3, <2>4 DEF SubmitAgrees, Fits
  <2> QED BY <1>1, <1>4, <2>2, <2>5
<1> QED BY <1>5, <1>6, <1>7

(***************************************************************************)
(* submit through the router.  A key that was not given out before has no  *)
(* open order, so the new one enters the map; a key that was is reused,    *)
(* and nothing is claimed of it from here on.                              *)
(***************************************************************************)
LEMMA SubmitEffect ==
  ASSUME IInv, NEW x, NEW request \in Requests, Submit(x, request)
  PROVE  IInv'
<1>1. config' = config /\ config \in Configs
  BY DEF Submit, IInv, Types
<1>2. CASE x \notin DOMAIN adapters
  <2>1. adapters' = adapters /\ life' = life /\ placed' = placed /\ filled' = filled
        /\ reused' = reused
    BY <1>2 DEF Submit
  <2> QED BY <1>1, <2>1, UnchangedHistory
<1>3. CASE x \in DOMAIN adapters
  <2>1. PICK engine : engine = adapters[x]
    OBVIOUS
  <2>2. EngineTypes(engine)
    BY <1>3, <2>1 DEF IInv, Types
  <2>3. PICK id \in Nat : id = engine.next_order_id
    BY <2>2 DEF EngineTypes
  <2>4. PICK q \in Int : q = request.quantity
    BY ExchangeAssumption DEF Requests
  <2>5. PICK r : r = SubmitResult(id, request)
    OBVIOUS
  <2>6. r = [order_id |-> id, updates |-> r.updates, fills |-> r.fills] /\ SubmitAgrees(r, q)
    BY <1>1, <2>4, <2>5, SubmitFacts
  <2>7. PICK u \in Seq(OrderUpdate) : u = r.updates /\ u # <<>>
    BY <2>6 DEF SubmitAgrees
  <2>8. PICK sum \in Int : sum = SumOf(r.fills)
    BY <2>6 DEF SubmitAgrees
  <2>9. /\ AreReports(u) /\ Last(u) \in OrderUpdate /\ Fits(Last(u), sum, q)
        /\ Last(u).status = "partially_filled" => r.fills[1] = sum
    BY <2>6, <2>7, <2>8 DEF SubmitAgrees
  <2>10. PICK key : key = <<x, id>>
    OBVIOUS
  <2>11. PICK open : open = OpenAfter(engine.open, id, request, r)
    OBVIOUS
  <2>12. /\ adapters' = [adapters EXCEPT ![x] = [open |-> open, next_order_id |-> id + 1]]
         /\ placed' = Map(placed, key, q)
         /\ reused' = IF key \in DOMAIN placed THEN reused \cup {key} ELSE reused
         /\ Record(x, r)
    BY <1>3, <2>1, <2>3, <2>4, <2>5, <2>10, <2>11 DEF Submit
  <2>13. PICK before \in Seq(OrderUpdate) :
           before = IF key \in DOMAIN life THEN life[key] ELSE <<>>
    BY EmptySeq DEF IInv, Types, HistoryTypes
  <2>14. PICK was \in Int : was = IF key \in DOMAIN filled THEN filled[key] ELSE 0
    <3>1. key \in DOMAIN filled => filled[key] \in Int
      BY DEF IInv, Types, HistoryTypes
    <3> QED BY <3>1
  <2>15. PICK s : s = before \o u
    OBVIOUS
  <2>16. PICK f \in Int : f = was + sum
    OBVIOUS
  <2>17. life' = Map(life, key, s) /\ filled' = Map(filled, key, f)
    <3>1. Record(x, [order_id |-> id, updates |-> u, fills |-> r.fills])
      BY <2>6, <2>7, <2>12
    <3>2. sum = IF r.fills = <<>> THEN 0 ELSE r.fills[1]
      BY <2>8 DEF SumOf
    <3> QED BY <2>10, <2>13, <2>14, <2>15, <2>16, <3>1, <3>2, RecordFacts
  <2>18. s \in Seq(OrderUpdate)
    BY <2>7, <2>15, ConcatProperties
  <2>19. HistoryTypes
    BY DEF IInv, Types
  <2>20. ASSUME key \notin DOMAIN placed PROVE Shows(s, Last(u)) /\ f = sum
    <3>1. CASE key \in DOMAIN life
      <4>1. Unreported(before) /\ was = 0
        BY <2>13, <2>14, <2>19, <2>20, <3>1 DEF HistoryTypes
      <4> QED BY <2>7, <2>9, <2>15, <2>16, <4>1, AddedReports
    <3>2. CASE key \notin DOMAIN life
      <4>1. before = <<>> /\ was = 0
        BY <2>13, <2>14, <2>19, <3>2 DEF HistoryTypes
      <4>2. Unreported(before)
        BY <4>1 DEF Unreported
      <4>3. Shows(before \o u, Last(u))
        BY <2>7, <2>9, <4>2, AddedReports
      <4>4. f = sum
        BY <2>16, <4>1
      <4> QED BY <2>15, <4>3, <4>4
    <3> QED BY <3>1, <3>2
  <2>21. key \notin reused' => key \notin DOMAIN placed
    BY <2>12
  <2>22. key \notin reused' => Agree(s, f, q)
    BY <2>9, <2>20, <2>21 DEF Agree
  <2>23. HistoryBecomes(key, s, f, q)
    <3>1. /\ DOMAIN placed' = DOMAIN placed \cup {key} /\ placed'[key] = q
          /\ \A k \in DOMAIN placed : k # key => placed'[k] = placed[k]
      BY <2>12 DEF Map
    <3>2. \A k \in DOMAIN placed : k # key => (k \in reused' <=> k \in reused)
      BY <2>12
    <3> QED BY <2>17, <3>1, <3>2 DEF HistoryBecomes
  <2>24. /\ HistoryTypes'
         /\ AllAgree'
         /\ life'[key] = s /\ filled'[key] = f
         /\ \A k \in DOMAIN placed : k # key => life'[k] = life[k] /\ filled'[k] = filled[k]
    BY <2>18, <2>22, <2>23, HistoryStep
  <2>25. /\ DOMAIN open \subseteq DOMAIN engine.open \cup {id}
         /\ \A o \in DOMAIN engine.open : o \in DOMAIN open /\ open[o] = engine.open[o]
         /\ id \in DOMAIN open /\ id \notin DOMAIN engine.open =>
              /\ Last(u).status = "partially_filled"
              /\ open[id] = [quantity |-> q, filled |-> r.fills[1]]
    <3>1. CASE Last(u).status = "partially_filled" /\ id \notin DOMAIN engine.open
      <4>1. open = Map(engine.open, id, [quantity |-> q, filled |-> r.fills[1]])
        BY <2>4, <2>7, <2>11, <3>1 DEF OpenAfter, Last
      <4> QED BY <3>1, <4>1 DEF Map
    <3>2. CASE ~(Last(u).status = "partially_filled" /\ id \notin DOMAIN engine.open)
      <4>1. open = engine.open
        BY <2>7, <2>11, <3>2 DEF OpenAfter, Last
      <4> QED BY <4>1
    <3> QED BY <3>1, <3>2
  <2>26. id \in DOMAIN open /\ id \notin DOMAIN engine.open =>
           /\ Last(u).status = "partially_filled"
           /\ open[id].quantity = q /\ open[id].filled = sum
    BY <2>9, <2>25
  <2>27. PICK after : after = [open |-> open, next_order_id |-> id + 1]
    OBVIOUS
  <2>28. after.open = open /\ after.next_order_id = id + 1
         /\ after = [open |-> after.open, next_order_id |-> after.next_order_id]
    BY <2>27
  <2>29. EngineTypes(after)
    <3>1. DOMAIN after.open \subseteq Nat
      BY <2>2, <2>25, <2>28 DEF EngineTypes
    <3>2. ASSUME NEW o \in DOMAIN after.open
          PROVE  after.open[o].quantity \in Int /\ after.open[o].filled \in Int
      <4>1. CASE o \in DOMAIN engine.open
        BY <2>2, <2>25, <2>28, <4>1 DEF EngineTypes
      <4>2. CASE o \notin DOMAIN engine.open
        BY <2>25, <2>26, <2>28, <3>2, <4>2
      <4> QED BY <4>1, <4>2
    <3> QED BY <2>28, <3>1, <3>2 DEF EngineTypes
  <2>30. /\ DOMAIN adapters' = DOMAIN adapters
         /\ adapters'[x] = after
         /\ \A y \in DOMAIN adapters : y # x => adapters'[y] = adapters[y]
    BY <1>3, <2>12, <2>27
  <2>31. Types'
    <3>1. \A y \in DOMAIN adapters' : EngineTypes(adapters'[y])
      BY <2>29, <2>30 DEF IInv, Types
    <3> QED BY <1>1, <2>24, <3>1 DEF Types, EngineTypes
  <2>32. ASSUME NEW y \in DOMAIN adapters', NEW o \in DOMAIN adapters'[y].open
         PROVE  OpenOrder(adapters[y].open[o], <<y, o>>)'
    <3>1. key \in DOMAIN placed'
      BY <2>23 DEF HistoryBecomes
    <3>2. CASE <<y, o>> = key
      <4>1. y = x /\ o = id
        BY <2>10, <3>2
      <4>2. ASSUME key \notin reused'
            PROVE  /\ adapters'[y].open[o].quantity = placed'[key]
                   /\ adapters'[y].open[o].filled = filled'[key]
                   /\ filled'[key] <= placed'[key]
                   /\ \E r2 \in OrderUpdate : Shows(life'[key], r2) /\ r2.status = "partially_filled"
        <5>1. key \notin DOMAIN placed
          BY <2>21, <4>2
        <5>2. id \notin DOMAIN engine.open
          <6> SUFFICES ASSUME id \in DOMAIN engine.open PROVE FALSE
            OBVIOUS
          <6>1. OpenOrder(adapters[x].open[id], <<x, id>>)
            BY <1>3, <2>1 DEF IInv, OpenOrders
          <6> QED BY <2>10, <5>1, <6>1 DEF OpenOrder
        <5>3. id \in DOMAIN open /\ adapters'[y].open[o] = open[id]
          BY <2>28, <2>30, <2>32, <4>1
        <5>4. Shows(s, Last(u)) /\ f = sum
          BY <2>20, <5>1
        <5>5. placed'[key] = q
          BY <2>23 DEF HistoryBecomes
        <5>6. Last(u).status = "partially_filled" /\ open[id].quantity = q /\ open[id].filled = sum
          BY <2>26, <5>2, <5>3
        <5>7. sum <= q
          BY <2>9, <5>6 DEF Fits
        <5> QED BY <2>9, <2>24, <5>3, <5>4, <5>5, <5>6, <5>7
      <4> QED BY <3>1, <3>2, <4>2 DEF OpenOrder, Shows, IsLastReport
    <3>3. CASE <<y, o>> # key
      <4>1. /\ y \in DOMAIN adapters /\ o \in DOMAIN adapters[y].open
            /\ adapters'[y].open[o] = adapters[y].open[o]
        <5>1. CASE y = x
          <6>1. o # id
            BY <2>10, <3>3, <5>1
          <6>2. o \in DOMAIN open /\ adapters'[y].open[o] = open[o]
            BY <2>28, <2>30, <2>32, <5>1
          <6>3. o \in DOMAIN engine.open
            BY <2>25, <6>1, <6>2
          <6> QED BY <1>3, <2>1, <2>25, <5>1, <6>2, <6>3
        <5>2. CASE y # x
          BY <2>30, <2>32, <5>2
        <5> QED BY <5>1, <5>2
      <4>2. OpenOrder(adapters[y].open[o], <<y, o>>)
        BY <4>1 DEF IInv, OpenOrders
      <4>3. <<y, o>> \in DOMAIN placed
        BY <4>2 DEF OpenOrder
      <4>4. /\ life'[<<y, o>>] = life[<<y, o>>] /\ filled'[<<y, o>>] = filled[<<y, o>>]
            /\ placed'[<<y, o>>] = placed[<<y, o>>] /\ <<y, o>> \in DOMAIN placed'
            /\ <<y, o>> \in reused' <=> <<y, o>> \in reused
        BY <2>23, <2>24, <3>3, <4>3 DEF HistoryBecomes
      <4> QED BY <4>1, <4>2, <4>4 DEF OpenOrder, Shows, IsLastReport
    <3> QED BY <3>2, <3>3
  <2>33. OpenOrders'
    BY <2>32 DEF OpenOrders, OpenOrder
  <2> QED BY <2>24, <2>31, <2>33 DEF IInv
<1> QED BY <1>2, <1>3

\* register_adapter: a fresh engine has no open order.
LEMMA RegisterEffect ==
  ASSUME IInv, NEW x, RegisterAdapter(x)
  PROVE  IInv'
<1>1. /\ adapters' = Map(adapters, x, FreshEngine)
      /\ life' = life /\ placed' = placed /\ filled' = filled /\ reused' = reused
      /\ config' = config
  BY DEF RegisterAdapter
<1>2. PICK fresh : fresh = FreshEngine
  OBVIOUS
<1>3. /\ fresh.open = <<>> /\ fresh.next_order_id = 1
      /\ fresh = [open |-> fresh.open, next_order_id |-> fresh.next_order_id]
  BY <1>2 DEF FreshEngine
<1>4. DOMAIN fresh.open = {} /\ EngineTypes(fresh)
  BY <1>3 DEF EngineTypes
<1>5. /\ DOMAIN adapters' = DOMAIN adapters \cup {x}
      /\ adapters'[x] = fresh
      /\ \A y \in DOMAIN adapters : y # x => adapters'[y] = adapters[y]
  BY <1>1, <1>2 DEF Map
<1>6. Types'
  <2>1. \A y \in DOMAIN adapters' : EngineTypes(adapters'[y])
    BY <1>4, <1>5 DEF IInv, Types
  <2> QED BY <1>1, <2>1 DEF IInv, Types, HistoryTypes, Unreported, EngineTypes
<1>7. ASSUME NEW y \in DOMAIN adapters', NEW o \in DOMAIN adapters'[y].open
      PROVE  OpenOrder(adapters[y].open[o], <<y, o>>)'
  <2>1. y # x
    BY <1>4, <1>5, <1>7
  <2>2. y \in DOMAIN adapters /\ adapters'[y] = adapters[y]
    BY <1>5, <2>1
  <2>3. OpenOrder(adapters[y].open[o], <<y, o>>)
    BY <1>7, <2>2 DEF IInv, OpenOrders
  <2> QED BY <1>1, <2>2, <2>3 DEF OpenOrder, Shows, IsLastReport
<1>8. OpenOrders'
  BY <1>7 DEF OpenOrders, OpenOrder
<1>9. AllAgree'
  BY <1>1 DEF IInv, AllAgree, Agree, Shows, Fits, IsLastReport
<1> QED BY <1>6, <1>8, <1>9 DEF IInv

\* A restart restores what was open and numbers from 1 again.
LEMMA RestartEffect ==
  ASSUME IInv, NEW x, Restart(x)
  PROVE  IInv'
<1>1. /\ x \in DOMAIN adapters
      /\ adapters' = [y \in {x} |-> [open |-> adapters[x].open, next_order_id |-> 1]]
      /\ life' = life /\ placed' = placed /\ filled' = filled /\ reused' = reused
      /\ config' = config
  BY DEF Restart
<1>2. PICK engine : engine = adapters[x]
  OBVIOUS
<1>3. PICK after : after = [open |-> engine.open, next_order_id |-> 1]
  OBVIOUS
<1>4. /\ after.open = engine.open /\ after.next_order_id = 1
      /\ after = [open |-> after.open, next_order_id |-> after.next_order_id]
  BY <1>3
<1>5. EngineTypes(after)
  <2>1. EngineTypes(engine)
    BY <1>1, <1>2 DEF IInv, Types
  <2> QED BY <1>4, <2>1 DEF EngineTypes
<1>6. DOMAIN adapters' = {x} /\ adapters'[x] = after
  BY <1>1, <1>2, <1>3
<1>7. Types'
  <2>1. \A y \in DOMAIN adapters' : EngineTypes(adapters'[y])
    BY <1>5, <1>6
  <2> QED BY <1>1, <2>1 DEF IInv, Types, HistoryTypes, Unreported, EngineTypes
<1>8. ASSUME NEW y \in DOMAIN adapters', NEW o \in DOMAIN adapters'[y].open
      PROVE  OpenOrder(adapters[y].open[o], <<y, o>>)'
  <2>1. y = x /\ adapters'[y].open = adapters[y].open
    BY <1>2, <1>4, <1>6
  <2>2. OpenOrder(adapters[y].open[o], <<y, o>>)
    BY <1>1, <1>8, <2>1 DEF IInv, OpenOrders
  <2> QED BY <1>1, <2>1, <2>2 DEF OpenOrder, Shows, IsLastReport
<1>9. OpenOrders'
  BY <1>8 DEF OpenOrders, OpenOrder
<1>10. AllAgree'
  BY <1>1 DEF IInv, AllAgree, Agree, Shows, Fits, IsLastReport
<1> QED BY <1>7, <1>9, <1>10 DEF IInv

----------------------------------------------------------------------------
LEMMA InitInvariant == Init => IInv
<1> SUFFICES ASSUME Init PROVE IInv
  OBVIOUS
<1>1. /\ config \in Configs /\ adapters = <<>> /\ life = <<>> /\ placed = <<>>
      /\ filled = <<>>
  BY DEF Init
<1>2. DOMAIN <<>> = {}
  OBVIOUS
<1> QED BY <1>1, <1>2 DEF IInv, Types, HistoryTypes, OpenOrders, AllAgree

LEMMA NextInvariant == IInv /\ [Next]_vars => IInv'
<1> SUFFICES ASSUME IInv, [Next]_vars PROVE IInv'
  OBVIOUS
<1>1. ASSUME UNCHANGED orderVars PROVE IInv'
  <2>1. /\ adapters' = adapters /\ life' = life /\ placed' = placed /\ filled' = filled
        /\ reused' = reused /\ config' = config
    BY <1>1 DEF orderVars
  <2> QED BY <2>1, UnchangedHistory
<1>2. ASSUME NEW x \in Venues, RegisterAdapter(x) \/ Restart(x) PROVE IInv'
  BY <1>2, RegisterEffect, RestartEffect
<1>3. ASSUME NEW x \in Exchanges, NEW r \in Requests, Submit(x, r) PROVE IInv'
  BY <1>3, SubmitEffect
<1>4. ASSUME NEW x \in Exchanges, NEW id \in 0..MaxOrders, Complete(x, id) \/ Cancel(x, id)
      PROVE  IInv'
  <2>1. id \in Nat
    BY ExchangeAssumption
  <2> QED BY <1>4, <2>1, CompleteEffect, CancelEffect
<1>5. CASE StartFeed \/ Subscribed \/ Receive \/ Message \/ Tick
  BY <1>1, <1>5 DEF StartFeed, Subscribed, Receive, Message, Tick
<1>6. ASSUME NEW reconnects \in BOOLEAN, HandleDisconnect(reconnects) PROVE IInv'
  BY <1>1, <1>6 DEF HandleDisconnect
<1>7. CASE UNCHANGED vars
  BY <1>1, <1>7 DEF vars
<1> QED BY <1>2, <1>3, <1>4, <1>5, <1>6, <1>7 DEF Next

LEMMA Invariance == Spec => []IInv
  BY InitInvariant, NextInvariant, PTL DEF Spec

(***************************************************************************)
(* Whatever is submitted, completed, canceled, refused, restarted and      *)
(* restored: the fills of an order add up to the filled quantity of its    *)
(* last report, never to more than its quantity, and to all of it once it  *)
(* is filled.                                                              *)
(***************************************************************************)
THEOREM FillsAlwaysMatchReports == Spec => []FillsMatchReports
<1>1. ASSUME IInv PROVE FillsMatchReports
  <2> SUFFICES ASSUME NEW key \in DOMAIN placed, key \notin reused
               PROVE  \E n \in DOMAIN life[key] :
                        /\ IsLastReport(life[key], n)
                        /\ filled[key] = life[key][n].filled
                        /\ filled[key] <= placed[key] \/ life[key][n].status = "rejected"
                        /\ life[key][n].status = "filled" => filled[key] = placed[key]
    BY DEF FillsMatchReports
  <2>1. PICK r \in OrderUpdate : Shows(life[key], r) /\ Fits(r, filled[key], placed[key])
    BY <1>1 DEF IInv, AllAgree, Agree
  <2>2. PICK n \in 1..Len(life[key]) : IsLastReport(life[key], n) /\ life[key][n] = r
    BY <2>1 DEF Shows
  <2>3. DOMAIN life[key] = 1..Len(life[key])
    BY <1>1, LenProperties DEF IInv, Types, HistoryTypes
  <2> QED BY <2>1, <2>2, <2>3 DEF Fits
<1> QED BY <1>1, Invariance, PTL

(***************************************************************************)
(* After the report that closed an order, completing or canceling it is    *)
(* only ever refused, before and after a restart: no order is closed       *)
(* twice, and none is opened again.                                        *)
(***************************************************************************)
THEOREM ClosedOrdersStayClosed == Spec => []ClosedStaysClosed
<1>1. ASSUME IInv PROVE ClosedStaysClosed
  <2> SUFFICES ASSUME NEW key \in DOMAIN placed, key \notin reused,
                      NEW i \in DOMAIN life[key], NEW j \in DOMAIN life[key],
                      i < j, life[key][i].status \in Closed, ~IsRefusal(life[key][i])
               PROVE  IsRefusal(life[key][j])
    BY DEF ClosedStaysClosed
  <2>1. PICK r \in OrderUpdate : Shows(life[key], r)
    BY <1>1 DEF IInv, AllAgree, Agree
  <2>2. PICK n \in 1..Len(life[key]) :
          /\ IsLastReport(life[key], n)
          /\ \A m \in 1..(n - 1) : life[key][m].status \in Closed => IsRefusal(life[key][m])
    BY <2>1 DEF Shows
  <2>3. DOMAIN life[key] = 1..Len(life[key]) /\ Len(life[key]) \in Nat
    BY <1>1, LenProperties DEF IInv, Types, HistoryTypes
  <2>4. i \notin 1..(n - 1)
    BY <2>2
  <2>5. j \in (n + 1)..Len(life[key])
    BY <2>3, <2>4
  <2> QED BY <2>2, <2>5 DEF IsLastReport
<1> QED BY <1>1, Invariance, PTL
=============================================================================
