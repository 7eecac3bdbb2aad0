----------------------------- MODULE Portfolio -----------------------------
(***************************************************************************)
(* The portfolio service (portfolio_service.cpp), as operators on a record *)
(*    [positions, marks, balances]                                         *)
(* of three maps.  Quantities and prices are integers; an average entry    *)
(* price and the profits derived from it are exact fractions <<n, d>>, so  *)
(* that the accounting can be checked to the last unit.  total_balance and *)
(* available_balance are always equal in the code and are one number, and  *)
(* the matching engine charges no fee.                                     *)
(***************************************************************************)
EXTENDS Integers, FiniteSets

CONSTANTS Base,             \* base asset of each instrument
          Quote             \* quote asset of all instruments

----------------------------------------------------------------------------
(* Fractions                                                               *)

Abs(n) == IF n < 0 THEN -n ELSE n

Divides(d, n) == n % d = 0

Gcd(a, b) ==
  CHOOSE d \in 1..b : /\ Divides(d, a) /\ Divides(d, b)
                      /\ \A e \in 1..b : Divides(e, a) /\ Divides(e, b) => e <= d

\* n/d in lowest terms, d > 0
Frac(n, d) == LET g == Gcd(Abs(n), d)
              IN  <<IF n < 0 THEN -(Abs(n) \div g) ELSE n \div g, d \div g>>

Whole(n) == <<n, 1>>
Plus(x, y) == Frac(x[1] * y[2] + y[1] * x[2], x[2] * y[2])
Scale(k, x) == Frac(k * x[1], x[2])
Minus(x, y) == Plus(x, Scale(-1, y))
Over(x, k) == Frac(x[1], x[2] * k)
Zero == Whole(0)

----------------------------------------------------------------------------
Position == [net: Int, average: Int \X Nat, realized: Int \X Nat, unrealized: Int \X Nat]

EmptyPortfolio == [positions |-> <<>>, marks |-> <<>>, balances |-> <<>>]

\* map[key] = value
Set(map, key, value) ==
  [k \in DOMAIN map \cup {key} |-> IF k = key THEN value ELSE map[k]]

\* map[key] of a C++ map, whose missing entries start as the default
At(map, key, default) == IF key \in DOMAIN map THEN map[key] ELSE default

Sign(n) == IF n > 0 THEN 1 ELSE IF n < 0 THEN -1 ELSE 0

\* update_unrealized
UpdateUnrealized(position, mark) ==
  [position EXCEPT !.unrealized =
     IF position.net = 0 THEN Zero ELSE Scale(position.net, Minus(mark, position.average))]

Signed(fill) == IF fill.side = "buy" THEN fill.quantity ELSE -fill.quantity

\* apply_fill_to_position: a fill in the direction of the position moves its
\* average, one against it realizes profit and may reverse the position.
FilledPosition(position, fill) ==
  LET previous == position.net
      net      == previous + Signed(fill)
      closing  == IF Abs(previous) <= fill.quantity THEN Abs(previous) ELSE fill.quantity
      profit   == Scale(closing * Sign(previous), Minus(Whole(fill.price), position.average))
      notional == Plus(Scale(Abs(previous), position.average),
                       Whole(fill.quantity * fill.price))
  IN  IF previous = 0 \/ Sign(previous) = Sign(Signed(fill))
      THEN [position EXCEPT !.net = net,
                            !.average = IF net = 0 THEN Zero ELSE Over(notional, Abs(net))]
      ELSE [position EXCEPT !.net = net,
                            !.realized = Plus(@, profit),
                            !.average = IF net = 0 THEN Zero
                                        ELSE IF Sign(previous) # Sign(net)
                                             THEN Whole(fill.price) ELSE @]

\* Mutant: a fill that reverses a position keeps the old average price.
FilledPositionKeepsAverage(position, fill) ==
  LET result == FilledPosition(position, fill)
  IN  [result EXCEPT !.average =
         IF Sign(position.net) * Sign(result.net) = -1 THEN position.average ELSE @]

\* apply_fill_to_balances
FilledBalances(balances, i, fill) ==
  LET base  == Set(balances, Base[i], At(balances, Base[i], 0) + Signed(fill))
      total == At(base, Quote, 0) - Signed(fill) * fill.price
  IN  Set(base, Quote, total)

NoPosition == [net |-> 0, average |-> Zero, realized |-> Zero, unrealized |-> Zero]

\* Mutant of ApplyFill: see FilledPositionKeepsAverage.
ApplyFillKeepsAverage(p, i, fill) ==
  LET position == FilledPositionKeepsAverage(At(p.positions, i, NoPosition), fill)
      mark     == At(p.marks, i, Whole(fill.price))
  IN  [p EXCEPT !.positions = Set(@, i, UpdateUnrealized(position, mark)),
                !.balances = FilledBalances(@, i, fill)]

\* apply_fill
ApplyFill(p, i, fill) ==
  LET position == FilledPosition(At(p.positions, i, NoPosition), fill)
      mark     == At(p.marks, i, Whole(fill.price))
  IN  [p EXCEPT !.positions = Set(@, i, UpdateUnrealized(position, mark)),
                !.balances = FilledBalances(@, i, fill)]

\* set_mark_price
SetMarkPrice(p, i, price) ==
  [p EXCEPT !.marks = Set(@, i, price),
            !.positions = [j \in DOMAIN @ |-> IF j = i THEN UpdateUnrealized(@[j], price)
                                                       ELSE @[j]]]
=============================================================================
