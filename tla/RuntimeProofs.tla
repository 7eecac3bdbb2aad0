---------------------------- MODULE RuntimeProofs ----------------------------
(***************************************************************************)
(* Proofs about the simulation runtime, for any instruments, feed,         *)
(* strategies, risk limits and number of events and restarts.  What is     *)
(* said of the stored portfolio, the balances and the risk checks takes    *)
(* the engine as it comes.  What is said of orders, fills and exposure     *)
(* rests on the engine's own lemmas, cited through the instance EP.        *)
(***************************************************************************)
EXTENDS Runtime, SequenceTheorems, FiniteSetTheorems, SumTheorems, TLAPS

----------------------------------------------------------------------------
(* Maps and positions                                                      *)

IsMap(f) == f = [x \in DOMAIN f |-> f[x]]

IsPosition(q) ==
  q = [net |-> q.net, average |-> q.average, realized |-> q.realized, unrealized |-> q.unrealized]

ArePositions(f) == IsMap(f) /\ \A i \in DOMAIN f : IsPosition(f[i])

\* A fill moves the net quantity of a position and leaves it a position.
LEMMA FilledPositionFacts ==
  ASSUME NEW q, IsPosition(q), NEW fill
  PROVE  /\ IsPosition(FilledPosition(q, fill))
         /\ FilledPosition(q, fill).net = q.net + Signed(fill)
<1>1. ASSUME NEW r, IsPosition(r), NEW v
      PROVE  /\ IsPosition([r EXCEPT !.net = v]) /\ [r EXCEPT !.net = v].net = v
             /\ IsPosition([r EXCEPT !.average = v]) /\ [r EXCEPT !.average = v].net = r.net
             /\ IsPosition([r EXCEPT !.realized = v]) /\ [r EXCEPT !.realized = v].net = r.net
  BY <1>1 DEF IsPosition
<1>2. PICK n : n = q.net + Signed(fill)
  OBVIOUS
<1>3. PICK moved : moved = [q EXCEPT !.net = n]
  OBVIOUS
<1>4. IsPosition(moved) /\ moved.net = n
  BY <1>1, <1>3
<1>5. ASSUME NEW b PROVE [q EXCEPT !.net = n, !.average = b] = [moved EXCEPT !.average = b]
  BY <1>3, Zenon
<1>6. ASSUME NEW b, NEW c, NEW taken, taken = [moved EXCEPT !.realized = c]
      PROVE  [q EXCEPT !.net = n, !.realized = c, !.average = b] = [taken EXCEPT !.average = b]
  BY <1>3, <1>6, Zenon
<1>7. \E b, c : \/ FilledPosition(q, fill) = [q EXCEPT !.net = n, !.average = b]
                \/ FilledPosition(q, fill) = [q EXCEPT !.net = n, !.realized = c, !.average = b]
  BY <1>2, Zenon DEF FilledPosition
<1>8. PICK b, c : \/ FilledPosition(q, fill) = [q EXCEPT !.net = n, !.average = b]
                  \/ FilledPosition(q, fill)
                       = [q EXCEPT !.net = n, !.realized = c, !.average = b]
  BY <1>7
<1>9. PICK taken : taken = [moved EXCEPT !.realized = c]
  OBVIOUS
<1>10. IsPosition(taken) /\ taken.net = n
  BY <1>1, <1>4, <1>9
<1>11. \/ FilledPosition(q, fill) = [moved EXCEPT !.average = b]
       \/ FilledPosition(q, fill) = [taken EXCEPT !.average = b]
  BY <1>5, <1>6, <1>8, <1>9
<1>12. ASSUME NEW r, IsPosition(r), r.net = n, FilledPosition(q, fill) = [r EXCEPT !.average = b]
       PROVE  IsPosition(FilledPosition(q, fill)) /\ FilledPosition(q, fill).net = n
  <2>1. PICK f : f = [r EXCEPT !.average = b]
    OBVIOUS
  <2>2. IsPosition(f) /\ f.net = n
    BY <1>1, <1>12, <2>1
  <2> QED BY <1>12, <2>1, <2>2
<1> QED BY <1>2, <1>4, <1>10, <1>11, <1>12

\* The mark price moves nothing that fills determine.
LEMMA UpdateUnrealizedFacts ==
  ASSUME NEW q, IsPosition(q), NEW mark
  PROVE  /\ IsPosition(UpdateUnrealized(q, mark))
         /\ UpdateUnrealized(q, mark).net = q.net
         /\ UpdateUnrealized(q, mark).average = q.average
         /\ UpdateUnrealized(q, mark).realized = q.realized
<1>1. ASSUME NEW u
      PROVE  /\ IsPosition([q EXCEPT !.unrealized = u])
             /\ [q EXCEPT !.unrealized = u].net = q.net
             /\ [q EXCEPT !.unrealized = u].average = q.average
             /\ [q EXCEPT !.unrealized = u].realized = q.realized
  BY DEF IsPosition
<1>2. \E u : UpdateUnrealized(q, mark) = [q EXCEPT !.unrealized = u]
  BY Zenon DEF UpdateUnrealized
<1> QED BY <1>1, <1>2

\* The maps of a portfolio.
IsPortfolio(p) ==
  /\ p = [positions |-> p.positions, marks |-> p.marks, balances |-> p.balances]
  /\ ArePositions(p.positions)
  /\ IsMap(p.balances)

\* A portfolio in which two fields were replaced, field by field.
LEMMA PortfolioRecord ==
  ASSUME NEW p, IsPortfolio(p), NEW positions, NEW marks, NEW balances
  PROVE  /\ [p EXCEPT !.positions = positions, !.balances = balances]
              = [positions |-> positions, marks |-> p.marks, balances |-> balances]
         /\ [p EXCEPT !.marks = marks, !.positions = positions]
              = [positions |-> positions, marks |-> marks, balances |-> p.balances]
<1>1. PICK q : q = [p EXCEPT !.positions = positions]
  OBVIOUS
<1>2. q = [positions |-> positions, marks |-> p.marks, balances |-> p.balances]
  BY <1>1 DEF IsPortfolio
<1>3. PICK r : r = [p EXCEPT !.marks = marks]
  OBVIOUS
<1>4. r = [positions |-> p.positions, marks |-> marks, balances |-> p.balances]
  BY <1>3 DEF IsPortfolio
<1>5. [p EXCEPT !.positions = positions, !.balances = balances] = [q EXCEPT !.balances = balances]
  BY <1>1, Zenon
<1>6. [p EXCEPT !.marks = marks, !.positions = positions] = [r EXCEPT !.positions = positions]
  BY <1>3, Zenon
<1> QED BY <1>2, <1>4, <1>5, <1>6

\* A map of positions in which one was replaced.
LEMMA SetPosition ==
  ASSUME NEW f, ArePositions(f), NEW i, NEW q, IsPosition(q)
  PROVE  ArePositions(Set(f, i, q))
<1>1. PICK g : g = Set(f, i, q)
  OBVIOUS
<1>2. IsMap(g) /\ DOMAIN g = DOMAIN f \cup {i} /\ g[i] = q
      /\ \A x \in DOMAIN f : x # i => g[x] = f[x]
  BY <1>1 DEF Set, IsMap
<1>3. ASSUME NEW x \in DOMAIN g PROVE IsPosition(g[x])
  BY <1>2 DEF ArePositions
<1> QED BY <1>1, <1>2, <1>3 DEF ArePositions

\* The position of an instrument never traded.
LEMMA NoPositionFacts == IsPosition(NoPosition) /\ NoPosition.net = 0
BY DEF IsPosition, NoPosition

\* What a fill does to the balances.
BalancesFilled(before, i, fill, after) ==
  /\ IsMap(after)
  /\ DOMAIN after = DOMAIN before \cup {Base[i], Quote}
  /\ Base[i] # Quote => after[Base[i]] = At(before, Base[i], 0) + Signed(fill)
  /\ \A a \in DOMAIN before : a \notin {Base[i], Quote} => after[a] = before[a]

\* apply_fill_to_balances touches the base and the quote balance only.
LEMMA BalancesFacts ==
  ASSUME NEW balances, NEW i, NEW fill
  PROVE  BalancesFilled(balances, i, fill, FilledBalances(balances, i, fill))
<1>1. PICK base : base = Set(balances, Base[i], At(balances, Base[i], 0) + Signed(fill))
  OBVIOUS
<1>2. PICK total : total = At(base, Quote, 0) - Signed(fill) * fill.price
  OBVIOUS
<1>3. PICK after : after = Set(base, Quote, total)
  OBVIOUS
<1>4. /\ DOMAIN base = DOMAIN balances \cup {Base[i]}
      /\ base[Base[i]] = At(balances, Base[i], 0) + Signed(fill)
      /\ \A a \in DOMAIN balances : a # Base[i] => base[a] = balances[a]
  BY <1>1 DEF Set
<1>5. /\ IsMap(after)
      /\ DOMAIN after = DOMAIN base \cup {Quote}
      /\ \A a \in DOMAIN base : a # Quote => after[a] = base[a]
  BY <1>3 DEF Set, IsMap
<1>6. BalancesFilled(balances, i, fill, after)
  BY <1>4, <1>5 DEF BalancesFilled
<1>7. after = FilledBalances(balances, i, fill)
  BY <1>1, <1>2, <1>3 DEF FilledBalances
<1> QED BY <1>6, <1>7

\* What a fill does to the maps of a portfolio.
LEMMA ApplyFillFacts ==
  ASSUME NEW p, IsPortfolio(p), NEW i, NEW fill
  PROVE  LET after == ApplyFill(p, i, fill)
         IN  /\ IsPortfolio(after)
             /\ DOMAIN after.positions = DOMAIN p.positions \cup {i}
             /\ after.positions[i].net = At(p.positions, i, NoPosition).net + Signed(fill)
             /\ \A j \in DOMAIN p.positions : j # i => after.positions[j] = p.positions[j]
             /\ after.balances = FilledBalances(p.balances, i, fill)
<1>1. PICK old : old = At(p.positions, i, NoPosition)
  OBVIOUS
<1>2. IsPosition(old)
  BY <1>1, NoPositionFacts DEF At, IsPortfolio, ArePositions
<1>3. PICK q : q = UpdateUnrealized(FilledPosition(old, fill), At(p.marks, i, Whole(fill.price)))
  OBVIOUS
<1>4. IsPosition(q) /\ q.net = old.net + Signed(fill)
  BY <1>2, <1>3, FilledPositionFacts, UpdateUnrealizedFacts
<1>5. PICK f : f = Set(p.positions, i, q)
  OBVIOUS
<1>6. /\ ArePositions(f) /\ DOMAIN f = DOMAIN p.positions \cup {i} /\ f[i] = q
      /\ \A j \in DOMAIN p.positions : j # i => f[j] = p.positions[j]
  <2>1. ArePositions(f)
    BY <1>4, <1>5, SetPosition DEF IsPortfolio
  <2> QED BY <1>5, <2>1 DEF Set
<1>7. PICK b : b = FilledBalances(p.balances, i, fill)
  OBVIOUS
<1>8. IsMap(b)
  BY <1>7, BalancesFacts DEF BalancesFilled
<1>9. ApplyFill(p, i, fill) = [p EXCEPT !.positions = f, !.balances = b]
  BY <1>1, <1>3, <1>5, <1>7, Zenon DEF ApplyFill
<1>10. PICK after : after = ApplyFill(p, i, fill)
  OBVIOUS
<1>11. after = [positions |-> f, marks |-> p.marks, balances |-> b]
  BY <1>9, <1>10, PortfolioRecord
<1>12. after.positions = f /\ after.balances = b /\ IsPortfolio(after)
  BY <1>6, <1>8, <1>11 DEF IsPortfolio
<1> QED BY <1>1, <1>4, <1>6, <1>7, <1>10, <1>12

----------------------------------------------------------------------------
(* The stored portfolio                                                    *)

\* Two maps of positions that differ at most in what marks determine.
SameEntry(q, r) == q.net = r.net /\ q.average = r.average /\ q.realized = r.realized
SameEntries(f, g) == DOMAIN f = DOMAIN g /\ \A i \in DOMAIN f : SameEntry(f[i], g[i])

\* Positions that agree entry by entry have equal entries.
LEMMA SameEntriesFacts ==
  ASSUME NEW f, NEW g, SameEntries(f, g) PROVE Entry(f) = Entry(g)
BY DEF SameEntries, SameEntry, Entry

\* set_mark_price changes marks and unrealized profits only.
LEMMA SetMarkPriceFacts ==
  ASSUME NEW p, IsPortfolio(p), NEW i, NEW price
  PROVE  LET after == SetMarkPrice(p, i, price)
         IN  /\ IsPortfolio(after)
             /\ SameEntries(p.positions, after.positions)
             /\ after.balances = p.balances
<1>1. PICK old : old = p.positions
  OBVIOUS
<1>2. PICK new : new = [j \in DOMAIN old |-> IF j = i THEN UpdateUnrealized(old[j], price)
                                                      ELSE old[j]]
  OBVIOUS
<1>3. ArePositions(old)
  BY <1>1 DEF IsPortfolio
<1>4. ArePositions(new) /\ SameEntries(old, new)
  <2>1. IsMap(new) /\ DOMAIN new = DOMAIN old
    BY <1>2 DEF IsMap
  <2>2. ASSUME NEW j \in DOMAIN old PROVE IsPosition(new[j]) /\ SameEntry(old[j], new[j])
    BY <1>2, <1>3, UpdateUnrealizedFacts DEF ArePositions, SameEntry
  <2> QED BY <2>1, <2>2 DEF ArePositions, SameEntries
<1>5. PICK m : m = Set(p.marks, i, price)
  OBVIOUS
<1>6. SetMarkPrice(p, i, price) = [p EXCEPT !.marks = m, !.positions = new]
  BY <1>1, <1>2, <1>5, Zenon DEF SetMarkPrice
<1>7. PICK after : after = SetMarkPrice(p, i, price)
  OBVIOUS
<1>8. after = [positions |-> new, marks |-> m, balances |-> p.balances]
  BY <1>6, <1>7, PortfolioRecord
<1>9. after.positions = new /\ after.balances = p.balances /\ IsPortfolio(after)
  BY <1>4, <1>8 DEF IsPortfolio
<1> QED BY <1>1, <1>4, <1>7, <1>9

\* Between results the tables hold the portfolio.
Settled == {"idle", "strategies", "requests"}

(***************************************************************************)
(* How far the loops over positions and balances have come: what is no     *)
(* longer in unsaved is stored, and the tables hold nothing else.          *)
(***************************************************************************)
PortfolioInv ==
  /\ IsPortfolio(portfolio)
  /\ ArePositions(db_positions)
  /\ IsMap(db_balances)
  /\ DOMAIN db_positions \subseteq DOMAIN portfolio.positions
  /\ DOMAIN db_balances \subseteq DOMAIN portfolio.balances
  /\ phase = "positions" => unsaved \subseteq DOMAIN portfolio.positions
  /\ phase = "balances" => unsaved \subseteq DOMAIN portfolio.balances
  /\ phase = "positions" =>
       \A i \in DOMAIN portfolio.positions \ unsaved :
         i \in DOMAIN db_positions /\ db_positions[i] = portfolio.positions[i]
  /\ phase = "balances" =>
       \A a \in DOMAIN portfolio.balances \ unsaved :
         a \in DOMAIN db_balances /\ db_balances[a] = portfolio.balances[a]
  /\ phase \in {"balances"} \cup Settled => SameEntries(db_positions, portfolio.positions)
  /\ phase \in Settled => db_balances = portfolio.balances

\* Portfolio and tables start empty.
LEMMA PortfolioInvInit == Init => PortfolioInv
<1> SUFFICES ASSUME Init PROVE PortfolioInv
  OBVIOUS
<1>1. /\ portfolio = [positions |-> <<>>, marks |-> <<>>, balances |-> <<>>]
      /\ db_positions = <<>> /\ db_balances = <<>> /\ phase = "idle"
  BY DEF Init, EmptyPortfolio
<1>2. ArePositions(<<>>) /\ IsMap(<<>>) /\ DOMAIN <<>> = {}
  BY DEF ArePositions, IsMap
<1>3. SameEntries(<<>>, <<>>)
  BY DEF SameEntries, SameEntry
<1> QED BY <1>1, <1>2, <1>3 DEF PortfolioInv, IsPortfolio, Settled

\* A step that leaves portfolio and tables and stays among the settled phases, or
\* begins a result.
LEMMA PortfolioInvStutter ==
  ASSUME PortfolioInv, UNCHANGED <<portfolio, db_positions, db_balances>>,
         \/ phase' = phase /\ unsaved' = unsaved
         \/ phase \in Settled /\ phase' \in Settled
         \/ phase' \in {"execution", "updates", "fills"}
  PROVE  PortfolioInv'
BY DEF PortfolioInv, Settled

\* A fill may add an entry to the portfolio, never take one away.
LEMMA HandleFillPortfolio == ASSUME PortfolioInv, HandleFill PROVE PortfolioInv'
<1>1. PICK i, fill : i = FillInstrument /\ fill = result.fills[k]
  OBVIOUS
<1>2. /\ portfolio' = ApplyFill(portfolio, i, fill)
      /\ phase = "fills" /\ UNCHANGED <<phase, db_positions, db_balances>>
  BY <1>1 DEF HandleFill
<1>3. /\ IsPortfolio(portfolio')
      /\ DOMAIN portfolio'.positions = DOMAIN portfolio.positions \cup {i}
      /\ portfolio'.balances = FilledBalances(portfolio.balances, i, fill)
  BY <1>2, ApplyFillFacts DEF PortfolioInv
<1>4. DOMAIN portfolio'.balances = DOMAIN portfolio.balances \cup {Base[i], Quote}
  <2>1. PICK b, c : b = portfolio.balances /\ c = portfolio'.balances
    OBVIOUS
  <2>2. BalancesFilled(b, i, fill, c)
    BY <1>3, <2>1, BalancesFacts
  <2> QED BY <2>1, <2>2 DEF BalancesFilled
<1> QED BY <1>2, <1>3, <1>4 DEF PortfolioInv, Settled

\* A stored position leaves the set still to be stored.
LEMMA StorePositionPortfolio ==
  ASSUME PortfolioInv, NEW i, StorePosition(i)
  PROVE  PortfolioInv'
<1>1. /\ phase = "positions" /\ i \in unsaved /\ unsaved' = unsaved \ {i}
      /\ db_positions' = Set(db_positions, i, portfolio.positions[i])
      /\ UNCHANGED <<phase, portfolio, db_balances>>
  BY DEF StorePosition, SavePosition
<1>2. IsPosition(portfolio.positions[i])
  BY <1>1 DEF PortfolioInv, IsPortfolio, ArePositions
<1>3. ArePositions(db_positions')
  BY <1>1, <1>2, SetPosition DEF PortfolioInv
<1>4. /\ DOMAIN db_positions' = DOMAIN db_positions \cup {i}
      /\ db_positions'[i] = portfolio.positions[i]
      /\ \A j \in DOMAIN db_positions : j # i => db_positions'[j] = db_positions[j]
  BY <1>1 DEF Set
<1> QED BY <1>1, <1>3, <1>4 DEF PortfolioInv, Settled

\* A stored balance leaves the set still to be stored.
LEMMA StoreBalancePortfolio ==
  ASSUME PortfolioInv, NEW a, StoreBalance(a)
  PROVE  PortfolioInv'
<1>1. /\ phase = "balances" /\ a \in unsaved /\ unsaved' = unsaved \ {a}
      /\ db_balances' = Set(db_balances, a, portfolio.balances[a])
      /\ UNCHANGED <<phase, portfolio, db_positions>>
  BY DEF StoreBalance, SaveBalance
<1>2. /\ IsMap(db_balances') /\ DOMAIN db_balances' = DOMAIN db_balances \cup {a}
      /\ db_balances'[a] = portfolio.balances[a]
      /\ \A b \in DOMAIN db_balances : b # a => db_balances'[b] = db_balances[b]
  BY <1>1 DEF Set, IsMap
<1> QED BY <1>1, <1>2 DEF PortfolioInv, Settled

\* All positions are stored: the tables agree with the portfolio.
LEMMA ToBalancesPortfolio == ASSUME PortfolioInv, ToBalances PROVE PortfolioInv'
<1>1. /\ phase = "positions" /\ unsaved = {} /\ phase' = "balances"
      /\ unsaved' = DOMAIN portfolio.balances
      /\ UNCHANGED <<portfolio, db_positions, db_balances>>
  BY DEF ToBalances, BalancesToSave, dbVars
<1>2. SameEntries(db_positions, portfolio.positions)
  BY <1>1 DEF PortfolioInv, SameEntries, SameEntry
<1> QED BY <1>1, <1>2 DEF PortfolioInv, Settled

\* All balances are stored: the tables hold the portfolio, whatever its marks.
LEMMA HandledResultPortfolio == ASSUME PortfolioInv, HandledResult PROVE PortfolioInv'
<1>1. /\ phase = "balances" /\ unsaved = {} /\ phase' \in {"strategies", "requests"}
      /\ UNCHANGED <<unsaved, db_positions, db_balances>>
  BY DEF HandledResult, dbVars
<1>2. PICK i, mark : \/ portfolio' = SetMarkPrice(portfolio, i, mark)
                     \/ portfolio' = portfolio
  BY Zenon DEF HandledResult
<1>3. /\ IsPortfolio(portfolio') /\ SameEntries(portfolio.positions, portfolio'.positions)
      /\ portfolio'.balances = portfolio.balances
  BY <1>2, SetMarkPriceFacts DEF PortfolioInv, SameEntries, SameEntry
<1>4. SameEntries(db_positions, portfolio'.positions)
  BY <1>1, <1>3 DEF PortfolioInv, SameEntries, SameEntry
<1>5. db_balances = portfolio.balances
  <2>1. /\ DOMAIN db_balances = DOMAIN portfolio.balances
        /\ \A a \in DOMAIN db_balances : db_balances[a] = portfolio.balances[a]
    BY <1>1 DEF PortfolioInv
  <2>2. IsMap(db_balances) /\ IsMap(portfolio.balances)
    BY DEF PortfolioInv, IsPortfolio
  <2> QED BY <2>1, <2>2 DEF IsMap
<1>6. DOMAIN db_positions = DOMAIN portfolio'.positions
  BY <1>4 DEF SameEntries
<1> QED BY <1>1, <1>3, <1>4, <1>5, <1>6 DEF PortfolioInv, Settled

\* Recovery rebuilds the portfolio from the tables.
LEMMA RestartPortfolio ==
  ASSUME PortfolioInv, NEW snapshots, Restart(snapshots) PROVE PortfolioInv'
<1>1. PICK states : portfolio' = RecoveredPortfolio(states)
  BY DEF Restart
<1>2. phase' = "idle" /\ UNCHANGED <<db_positions, db_balances>>
  BY DEF Restart, dbVars
<1>3. PICK marked : marked = {i \in DOMAIN states : states[i].last_trade # Zero}
  OBVIOUS
<1>4. PICK f : f = [i \in DOMAIN db_positions |->
                      IF i \in marked THEN UpdateUnrealized(db_positions[i], states[i].last_trade)
                                      ELSE db_positions[i]]
  OBVIOUS
<1>5. portfolio' = [positions |-> f, marks |-> [i \in marked |-> states[i].last_trade],
                    balances |-> db_balances]
  BY <1>1, <1>3, <1>4 DEF RecoveredPortfolio
<1>6. ArePositions(f) /\ SameEntries(db_positions, f)
  <2>1. IsMap(f) /\ DOMAIN f = DOMAIN db_positions
    BY <1>4 DEF IsMap
  <2>2. ASSUME NEW i \in DOMAIN db_positions PROVE IsPosition(f[i]) /\ SameEntry(db_positions[i], f[i])
    <3>1. IsPosition(db_positions[i])
      BY DEF PortfolioInv, ArePositions
    <3>2. \/ f[i] = UpdateUnrealized(db_positions[i], states[i].last_trade)
          \/ f[i] = db_positions[i]
      BY <1>4
    <3> QED BY <3>1, <3>2, UpdateUnrealizedFacts DEF SameEntry
  <2> QED BY <2>1, <2>2 DEF ArePositions, SameEntries
<1>7. /\ portfolio'.positions = f /\ portfolio'.balances = db_balances
      /\ IsPortfolio(portfolio')
  BY <1>5, <1>6 DEF IsPortfolio, PortfolioInv
<1>8. DOMAIN db_positions = DOMAIN f
  BY <1>6 DEF SameEntries
<1> QED BY <1>2, <1>6, <1>7, <1>8 DEF PortfolioInv, Settled

\* Every step keeps the stored portfolio.
LEMMA PortfolioInvNext == PortfolioInv /\ [Next]_vars => PortfolioInv'
<1> SUFFICES ASSUME PortfolioInv, [Next]_vars PROVE PortfolioInv'
  OBVIOUS
<1>1. CASE EngineStep \/ PersistNewOrder \/ SaveUpdate \/ ToFills
  BY <1>1, PortfolioInvStutter
     DEF EngineStep, PersistNewOrder, SaveUpdate, ToFills, UpdatesDone, workVars, dbVars
<1>2. CASE HandleFill
  BY <1>2, HandleFillPortfolio
<1>3. CASE ToPositions
  BY <1>3 DEF ToPositions, PortfolioInv, Settled, dbVars
<1>4. CASE \E i \in Instruments : StorePosition(i)
  BY <1>4, StorePositionPortfolio
<1>5. CASE ToBalances
  BY <1>5, ToBalancesPortfolio
<1>6. CASE \E asset \in Range(Base) \cup {Quote} : StoreBalance(asset)
  BY <1>6, StoreBalancePortfolio
<1>7. CASE HandledResult
  BY <1>7, HandledResultPortfolio
<1>8. CASE RunStrategy \/ ToRequests \/ DropRequest \/ SubmitRequest \/ FinishEvent
  BY <1>8, PortfolioInvStutter
     DEF RunStrategy, ToRequests, DropRequest, SubmitRequest, FinishEvent, Settled, workVars, dbVars
<1>9. CASE \E e \in Feed : OnMarketEvent(e)
  BY <1>9, PortfolioInvStutter DEF OnMarketEvent, dbVars
<1>10. CASE \E kind \in {"reset_strategy", "other"} : OnOtherEvent(kind)
  BY <1>10, PortfolioInvStutter DEF OnOtherEvent, Settled, dbVars
<1>11. CASE Tick \/ \E value \in BOOLEAN : SetTradingPaused(value)
  BY <1>11, PortfolioInvStutter DEF Tick, SetTradingPaused, workVars, dbVars
<1>12. CASE \E s \in Slots, value \in BOOLEAN : SetStrategyPaused(s, value)
  BY <1>12, PortfolioInvStutter DEF SetStrategyPaused, workVars, dbVars
<1>13. CASE \E snapshots \in Snapshots : Restart(snapshots)
  BY <1>13, RestartPortfolio
<1>14. CASE UNCHANGED vars
  BY <1>14, PortfolioInvStutter DEF vars, workVars, dbVars
<1> QED
  BY <1>1, <1>2, <1>3, <1>4, <1>5, <1>6, <1>7, <1>8, <1>9, <1>10, <1>11, <1>12, <1>13, <1>14
     DEF Next, Work

(***************************************************************************)
(* Whenever on_event is outside handle_execution_result the tables hold    *)
(* the positions and balances of the portfolio, whatever the engine        *)
(* filled and wherever earlier processes were stopped.                     *)
(***************************************************************************)
THEOREM StoredPortfolioIsCurrent == Spec => []StoredPortfolioCurrent
<1>1. PortfolioInv => StoredPortfolioCurrent
  BY SameEntriesFacts DEF PortfolioInv, StoredPortfolioCurrent, Settled
<1> QED BY <1>1, PortfolioInvInit, PortfolioInvNext, PTL DEF Spec

----------------------------------------------------------------------------
(* Events, market states and requests                                      *)

MarketEvents == [kind: {"market"}, instrument: Instruments, price: Nat, quantity: Nat,
                 bid: Nat, ask: Nat, bid_levels: Levels, ask_levels: Levels, timestamp: Nat]

\* What the store and the cache hold of an instrument.
IsState(x) == x.best_bid \in Nat /\ x.best_ask \in Nat /\ x.timestamp \in Nat
AreStates(f) == DOMAIN f \subseteq Instruments /\ \A i \in DOMAIN f : IsState(f[i])

\* A best price is a price.
LEMMA BestOfType ==
  ASSUME NEW list \in Levels, NEW quoted \in Nat PROVE BestOf(list, quoted) \in Nat
<1>1. CASE list = <<>>
  BY <1>1 DEF BestOf
<1>2. CASE list # <<>>
  <2>1. Len(list) \in Nat \ {0}
    BY <1>2, EmptySeq DEF Levels
  <2>2. list[1] \in [price: Nat, quantity: Nat]
    <3>1. list \in Seq([price: Nat, quantity: Nat]) /\ 1 \in 1..Len(list)
      BY <2>1 DEF Levels
    <3> QED BY <3>1, ElementOfSeq
  <2> QED BY <1>2, <2>2 DEF BestOf
<1> QED BY <1>1, <1>2

\* A market state that took an event is a market state.
LEMMA ApplyType ==
  ASSUME NEW x, IsState(x), NEW e \in MarketEvents PROVE IsState(Apply(x, e))
<1>1. /\ BestOf(e.bid_levels, e.bid) \in Nat /\ BestOf(e.ask_levels, e.ask) \in Nat
      /\ e.timestamp \in Nat
  BY BestOfType DEF MarketEvents
<1>2. PICK b, a : b = BestOf(e.bid_levels, e.bid) /\ a = BestOf(e.ask_levels, e.ask)
  OBVIOUS
<1>3. PICK t : t = IF e.quantity > 0 /\ e.price > 0 THEN Whole(e.price) ELSE x.last_trade
  OBVIOUS
<1>4. PICK new : new = [best_bid |-> Given(b, x.best_bid), best_ask |-> Given(a, x.best_ask),
                        last_trade |-> t, timestamp |-> e.timestamp]
  OBVIOUS
<1>5. IsState(new)
  BY <1>1, <1>2, <1>4 DEF IsState, Given
<1>6. Apply(x, e) = x \/ Apply(x, e) = new
  BY <1>2, <1>3, <1>4 DEF Apply
<1> QED BY <1>5, <1>6

\* A map of market states in which one was replaced.
LEMMA SetState ==
  ASSUME NEW f, AreStates(f), NEW i \in Instruments, NEW x, IsState(x)
  PROVE  AreStates(Set(f, i, x))
<1>1. PICK g : g = Set(f, i, x)
  OBVIOUS
<1>2. DOMAIN g = DOMAIN f \cup {i} /\ g[i] = x /\ \A j \in DOMAIN f : j # i => g[j] = f[j]
  BY <1>1 DEF Set
<1>3. ASSUME NEW j \in DOMAIN g PROVE IsState(g[j])
  BY <1>2 DEF AreStates
<1> QED BY <1>1, <1>2, <1>3 DEF AreStates

\* Recovery leaves market states in the cache.
LEMMA RecoveredCacheType ==
  ASSUME AreStates(cache), DOMAIN db_positions \subseteq Instruments,
         NEW snapshots \in Snapshots
  PROVE  AreStates(RecoveredCache(snapshots))
<1> DEFINE given(i) == CHOOSE s \in snapshots : s.instrument = i
           average(i) == db_positions[i].average
           state(bid, ask, trade, timestamp) ==
             [best_bid |-> bid, best_ask |-> ask, last_trade |-> trade, timestamp |-> timestamp]
<1>1. PICK fromExchange : fromExchange
        = [i \in {s.instrument : s \in snapshots} |->
             state(given(i).bid, given(i).ask, Whole(given(i).trade), given(i).timestamp)]
  OBVIOUS
<1>2. AreStates(fromExchange)
  <2>1. snapshots \subseteq [instrument: Instruments, bid: Nat, ask: Nat, trade: Nat,
                             timestamp: Nat]
    BY InputAssumption
  <2>2. ASSUME NEW i \in {s.instrument : s \in snapshots}
        PROVE  IsState(state(given(i).bid, given(i).ask, Whole(given(i).trade), given(i).timestamp))
    <3>1. given(i) \in snapshots
      OBVIOUS
    <3>2. PICK g \in [instrument: Instruments, bid: Nat, ask: Nat, trade: Nat, timestamp: Nat] :
            g = given(i)
      BY <2>1, <3>1
    <3>3. IsState(state(g.bid, g.ask, Whole(g.trade), g.timestamp))
      BY DEF IsState
    <3> QED BY <3>2, <3>3
  <2>3. DOMAIN fromExchange = {s.instrument : s \in snapshots}
    BY <1>1
  <2>4. ASSUME NEW i \in DOMAIN fromExchange PROVE IsState(fromExchange[i])
    <3>1. fromExchange[i]
            = state(given(i).bid, given(i).ask, Whole(given(i).trade), given(i).timestamp)
      BY <1>1, <2>3
    <3> QED BY <2>2, <2>3, <3>1
  <2>5. DOMAIN fromExchange \subseteq Instruments
    BY <2>1, <2>3
  <2> QED BY <2>4, <2>5 DEF AreStates
<1>3. PICK fromPositions : fromPositions
        = [i \in DOMAIN db_positions |->
             state(0, 0, IF average(i)[1] > 0 THEN average(i) ELSE Zero, 0)]
  OBVIOUS
<1>4. AreStates(fromPositions)
  <2>1. ASSUME NEW trade PROVE IsState(state(0, 0, trade, 0))
    BY DEF IsState
  <2>2. \A i \in DOMAIN db_positions : \E trade : fromPositions[i] = state(0, 0, trade, 0)
    BY <1>3
  <2>3. DOMAIN fromPositions = DOMAIN db_positions
    BY <1>3
  <2>4. \A i \in DOMAIN db_positions : IsState(fromPositions[i])
    BY <2>1, <2>2
  <2> QED BY <2>3, <2>4 DEF AreStates
<1>5. PICK fresh : /\ fresh = IF snapshots # {} THEN fromExchange ELSE fromPositions
  OBVIOUS
<1>6. AreStates(fresh)
  BY <1>2, <1>4, <1>5
<1>7. RecoveredCache(snapshots)
        = [i \in DOMAIN cache \cup DOMAIN fresh |-> IF i \in DOMAIN fresh THEN fresh[i] ELSE cache[i]]
  BY <1>1, <1>3, <1>5, Zenon DEF RecoveredCache
<1> QED BY <1>6, <1>7 DEF AreStates

\* What a strategy answers is a list of requests.
LEMMA RequestsType ==
  ASSUME AreStates(market), NEW s \in Slots, ~IsPlugin(s),
         event \in Feed \/ event.kind \in {"none", "reset_strategy", "other"}
  PROVE  RequestsOf(slots, s, event, market) \in Seq(Request)
<1>1. PICK config : config = StrategySlots[s]
  OBVIOUS
<1>2. config \in BuiltIn
  <2>1. config \in BuiltIn \cup [kind: {"plugin"}]
    BY <1>1, InputAssumption DEF Slots
  <2> QED BY <1>1, <2>1 DEF IsPlugin
<1>3. CASE ~Emits(slots, s, event, market)
  BY <1>3, EmptySeq DEF RequestsOf
<1>4. CASE Emits(slots, s, event, market)
  <2>1. event \in MarketEvents
    <3>1. event.kind = "market"
      BY <1>4 DEF Emits, IsMarket
    <3>2. event \in Feed
      BY <3>1
    <3> QED BY <3>2, InputAssumption DEF MarketEvents
  <2>2. ThresholdSignal(config, event, market) \in Nat
    BY <2>1 DEF ThresholdSignal, MarketEvents
  <2>3. SpreadSignal(config, event, market) \in Nat
    <3>1. PICK x : x = At(market, config.instrument, NoState)
      OBVIOUS
    <3>2. IsState(NoState)
      BY DEF NoState, IsState
    <3>3. IsState(x)
      BY <3>1, <3>2 DEF AreStates, At
    <3>4. SpreadSignal(config, event, market) \in {x.best_bid, x.best_ask, 0}
      BY <3>1 DEF SpreadSignal
    <3> QED BY <3>3, <3>4 DEF IsState
  <2>4. PICK price \in Nat : price = Signal(config, event, market)
    BY <2>2, <2>3 DEF Signal
  <2>5. LimitRequest(config, price) \in Request
    BY <1>2 DEF LimitRequest, BuiltIn, Request
  <2>6. RequestsOf(slots, s, event, market) = <<LimitRequest(config, price)>>
    BY <1>1, <1>4, <2>4 DEF RequestsOf
  <2> QED BY <2>5, <2>6
<1> QED BY <1>3, <1>4

\* The phases in which a result of the engine is made and handled.
Handling == {"execution", "updates", "fills", "positions", "balances"}

(***************************************************************************)
(* What on_event works on: states and requests of known instruments; the   *)
(* result being handled is that of a request, or of a market event.        *)
(***************************************************************************)
DataInv ==
  /\ now \in Nat /\ FirstNow <= now
  /\ AreStates(market) /\ AreStates(cache)
  /\ DOMAIN db_positions \subseteq Instruments
  /\ pending \in Seq(Request)
  /\ serving = <<>> \/ \E r \in Request : serving = <<r>>
  /\ event \in Feed \/ event.kind \in {"none", "reset_strategy", "other"}
  /\ phase \in Handling \cup Settled
  /\ phase \in Settled => serving = <<>>
  /\ phase \in Handling /\ serving = <<>> => event \in Feed

\* The data are as they should be at the start.
LEMMA DataInvInit == Init => DataInv
BY ClockAssumption, EmptySeq
   DEF Init, DataInv, AreStates, Handling, Settled, NoEvent

\* A step of the loops over a result.
LEMMA DataInvHandling ==
  ASSUME DataInv,
         UNCHANGED <<now, market, cache, pending, serving, event>>,
         DOMAIN db_positions' \subseteq Instruments,
         \/ phase' = phase
         \/ phase \in Handling /\ phase' \in Handling
         \/ phase \in Settled /\ phase' \in Settled
  PROVE  DataInv'
BY DEF DataInv, Handling, Settled

\* Every step keeps the data as they should be.
LEMMA DataInvNext == DataInv /\ [Next]_vars => DataInv'
<1> SUFFICES ASSUME DataInv, [Next]_vars PROVE DataInv'
  OBVIOUS
<1>1. DOMAIN db_positions \subseteq Instruments
  BY DEF DataInv
<1>2. CASE EngineStep \/ PersistNewOrder \/ SaveUpdate \/ ToFills \/ HandleFill \/ ToPositions
           \/ ToBalances
  BY <1>1, <1>2, DataInvHandling
     DEF EngineStep, PersistNewOrder, SaveUpdate, ToFills, UpdatesDone, HandleFill, ToPositions,
         ToBalances, workVars, dbVars, envVars, Handling
<1>3. CASE \E i \in Instruments : StorePosition(i)
  <2>1. PICK i \in Instruments : StorePosition(i)
    BY <1>3
  <2>2. DOMAIN db_positions' = DOMAIN db_positions \cup {i}
    BY <2>1 DEF StorePosition, SavePosition, Set
  <2> QED BY <1>1, <2>1, <2>2, DataInvHandling DEF StorePosition, envVars
<1>4. CASE \E asset \in Range(Base) \cup {Quote} : StoreBalance(asset)
  BY <1>1, <1>4, DataInvHandling DEF StoreBalance, envVars
<1>5. CASE HandledResult
  BY <1>5 DEF HandledResult, DataInv, Handling, Settled, envVars, dbVars
<1>6. CASE RunStrategy
  <2>1. pending' \in Seq(Request)
    <3>1. CASE ~Active(slots, k)
      BY <1>6, <3>1 DEF RunStrategy, DataInv
    <3>2. CASE Active(slots, k)
      <4>1. k \in Slots
        BY <1>6 DEF RunStrategy
      <4>2. PICK reply \in Replies(slots, k, event, market) : pending' = pending \o reply.requests
        BY <1>6, <3>2 DEF RunStrategy
      <4>3. reply.requests \in Seq(Request)
        <5>1. CASE IsPlugin(k)
          <6>1. reply \in PluginReplies
            BY <4>2, <5>1 DEF Replies
          <6>2. reply.requests = <<>> \/ \E r \in Request : reply.requests = <<r>>
            BY <6>1, InputAssumption DEF PluginReplies
          <6>3. <<>> \in Seq(Request) /\ \A r \in Request : <<r>> \in Seq(Request)
            OBVIOUS
          <6> QED BY <6>2, <6>3
        <5>2. CASE ~IsPlugin(k)
          <6>1. reply.requests = RequestsOf(slots, k, event, market)
            BY <4>2, <5>2 DEF Replies
          <6> QED BY <4>1, <5>2, <6>1, RequestsType DEF DataInv
        <5> QED BY <5>1, <5>2
      <4>4. PICK more \in Seq(Request) : more = reply.requests
        BY <4>3
      <4>5. pending \in Seq(Request)
        BY DEF DataInv
      <4>6. pending \o more \in Seq(Request)
        BY <4>5, ConcatProperties
      <4> QED BY <4>2, <4>4, <4>6
    <3> QED BY <3>1, <3>2
  <2> QED BY <1>6, <2>1 DEF RunStrategy, DataInv, dbVars
<1>7. CASE ToRequests
  BY <1>1, <1>7, DataInvHandling DEF ToRequests, workVars, dbVars, envVars, Settled
<1>8. CASE DropRequest
  BY <1>8, HeadTailProperties DEF DropRequest, DataInv, envVars, dbVars
<1>9. CASE SubmitRequest
  <2>1. pending \in Seq(Request) /\ pending # <<>>
    BY <1>9 DEF SubmitRequest, DataInv
  <2>2. Head(pending) \in Request /\ Tail(pending) \in Seq(Request)
    BY <2>1, HeadTailProperties
  <2>3. /\ pending' = Tail(pending) /\ serving' = <<Head(pending)>> /\ phase' = "execution"
        /\ UNCHANGED <<now, market, cache, event, db_positions>>
    BY <1>9 DEF SubmitRequest, envVars, dbVars
  <2>4. serving' # <<>>
    BY <2>3
  <2> QED BY <2>2, <2>3, <2>4 DEF DataInv, Handling, Settled
<1>10. CASE FinishEvent
  BY <1>10 DEF FinishEvent, DataInv, NoEvent, Settled, Handling, envVars, dbVars
<1>11. CASE \E e \in Feed : OnMarketEvent(e)
  <2>1. PICK e \in Feed : OnMarketEvent(e)
    BY <1>11
  <2>2. e \in MarketEvents
    BY InputAssumption DEF MarketEvents
  <2>3. AreStates(market')
    <3>1. IsState(NoState)
      BY DEF NoState, IsState
    <3>2. PICK x : x = At(market, e.instrument, NoState)
      OBVIOUS
    <3>3. IsState(x)
      BY <3>1, <3>2 DEF DataInv, AreStates, At
    <3>4. market' = Set(market, e.instrument, Apply(x, e))
      BY <2>1, <3>2 DEF OnMarketEvent
    <3>5. e.instrument \in Instruments
      BY <2>2 DEF MarketEvents
    <3> QED BY <2>2, <3>3, <3>4, <3>5, ApplyType, SetState DEF DataInv
  <2>4. AreStates(cache')
    <3>1. e.instrument \in Instruments /\ IsState(SnapshotOf(e))
      BY <2>2, BestOfType DEF MarketEvents, SnapshotOf, IsState
    <3>2. cache' = Set(cache, e.instrument, SnapshotOf(e))
      BY <2>1 DEF OnMarketEvent, UpsertSnapshot
    <3> QED BY <3>1, <3>2, SetState DEF DataInv
  <2>5. phase' = "execution" /\ event' = e /\ UNCHANGED <<now, pending, serving, db_positions>>
    BY <2>1 DEF OnMarketEvent, envVars, dbVars
  <2> QED BY <2>3, <2>4, <2>5 DEF DataInv, Handling, Settled
<1>12. CASE \E kind \in {"reset_strategy", "other"} : OnOtherEvent(kind)
  BY <1>12 DEF OnOtherEvent, DataInv, Settled, Handling, envVars, dbVars
<1>13. CASE Tick
  BY <1>13, ClockAssumption DEF Tick, DataInv, workVars, dbVars
<1>14. CASE \/ \E value \in BOOLEAN : SetTradingPaused(value)
            \/ \E s \in Slots, value \in BOOLEAN : SetStrategyPaused(s, value)
  BY <1>1, <1>14, DataInvHandling DEF SetTradingPaused, SetStrategyPaused, workVars, dbVars
<1>15. CASE \E snapshots \in Snapshots : Restart(snapshots)
  <2>1. PICK snapshots \in Snapshots : Restart(snapshots)
    BY <1>15
  <2>2. AreStates(RecoveredCache(snapshots))
    BY RecoveredCacheType DEF DataInv
  <2>3. /\ cache' = RecoveredCache(snapshots)
        /\ market' = [i \in DOMAIN db_positions \cap DOMAIN RecoveredCache(snapshots) |->
                        RecoveredCache(snapshots)[i]]
        /\ phase' = "idle" /\ event' = NoEvent /\ pending' = <<>> /\ serving' = <<>>
        /\ UNCHANGED <<now, db_positions>>
    BY <2>1 DEF Restart, dbVars
  <2>4. AreStates(market')
    BY <2>2, <2>3 DEF AreStates
  <2> QED BY <2>2, <2>3, <2>4, EmptySeq DEF DataInv, NoEvent, Settled, Handling
<1>16. CASE UNCHANGED vars
  BY <1>1, <1>16, DataInvHandling DEF vars, workVars, dbVars, envVars
<1> QED
  BY <1>2, <1>3, <1>4, <1>5, <1>6, <1>7, <1>8, <1>9, <1>10, <1>11, <1>12, <1>13, <1>14, <1>15,
     <1>16 DEF Next, Work

\* on_event works on well-formed states, requests and events throughout.
THEOREM DataInvHolds == Spec => []DataInv
BY DataInvInit, DataInvNext, PTL DEF Spec

----------------------------------------------------------------------------
(* Base balances and net positions                                         *)

\* Every instrument has a base asset of its own, and it is not the quote asset.
DistinctAssets ==
  \A i, j \in Instruments : Base[i] # Quote /\ (Base[i] = Base[j] => i = j)

\* A missing position counts as flat, a missing balance as zero.
Balanced(positions, balances) ==
  \A i \in Instruments : At(positions, i, NoPosition).net = At(balances, Base[i], 0)

(***************************************************************************)
(* The two sides agree in the portfolio, and in the tables except while a  *)
(* result is being stored; a process that stops there sets torn.  Only     *)
(* known instruments are held.                                             *)
(***************************************************************************)
LedgerInv ==
  /\ DOMAIN portfolio.positions \subseteq Instruments
  /\ ~torn => /\ Balanced(portfolio.positions, portfolio.balances)
              /\ phase \notin {"positions", "balances"} => Balanced(db_positions, db_balances)

\* Marks do not matter for the base balances.
LEMMA SameEntriesBalanced ==
  ASSUME NEW f, NEW g, NEW balances, SameEntries(f, g), Balanced(f, balances)
  PROVE  Balanced(g, balances)
<1>1. ASSUME NEW i \in Instruments PROVE At(g, i, NoPosition).net = At(f, i, NoPosition).net
  BY DEF SameEntries, SameEntry, At
<1> QED BY <1>1 DEF Balanced

\* A fill moves the position and the base balance by the same quantity.
LEMMA FillBalanced ==
  ASSUME DistinctAssets, NEW p, IsPortfolio(p), NEW i \in Instruments, NEW fill,
         Balanced(p.positions, p.balances)
  PROVE  Balanced(ApplyFill(p, i, fill).positions, ApplyFill(p, i, fill).balances)
<1>1. PICK after : after = ApplyFill(p, i, fill)
  OBVIOUS
<1>2. PICK f, g, b, c : /\ f = p.positions /\ g = after.positions
                        /\ b = p.balances /\ c = after.balances
  OBVIOUS
<1>3. /\ DOMAIN g = DOMAIN f \cup {i}
      /\ g[i].net = At(f, i, NoPosition).net + Signed(fill)
      /\ \A j \in DOMAIN f : j # i => g[j] = f[j]
      /\ c = FilledBalances(b, i, fill)
  BY <1>1, <1>2, ApplyFillFacts
<1>4. /\ DOMAIN c = DOMAIN b \cup {Base[i], Quote}
      /\ Base[i] # Quote => c[Base[i]] = At(b, Base[i], 0) + Signed(fill)
      /\ \A a \in DOMAIN b : a \notin {Base[i], Quote} => c[a] = b[a]
  <2>1. BalancesFilled(b, i, fill, c)
    BY <1>3, BalancesFacts
  <2> QED BY <2>1 DEF BalancesFilled
<1>5. Balanced(f, b)
  BY <1>2
<1>6. ASSUME NEW j \in Instruments PROVE At(g, j, NoPosition).net = At(c, Base[j], 0)
  <2>1. CASE j = i
    <3>1. Base[i] # Quote
      BY DEF DistinctAssets
    <3>2. At(g, i, NoPosition).net = At(f, i, NoPosition).net + Signed(fill)
      BY <1>3 DEF At
    <3>3. At(c, Base[i], 0) = At(b, Base[i], 0) + Signed(fill)
      BY <1>4, <3>1 DEF At
    <3> QED BY <1>5, <2>1, <3>2, <3>3 DEF Balanced
  <2>2. CASE j # i
    <3>1. Base[j] # Quote /\ Base[j] # Base[i]
      BY <2>2 DEF DistinctAssets
    <3>2. At(g, j, NoPosition) = At(f, j, NoPosition)
      BY <1>3, <2>2 DEF At
    <3>3. At(c, Base[j], 0) = At(b, Base[j], 0)
      BY <1>4, <3>1 DEF At
    <3> QED BY <1>5, <3>2, <3>3 DEF Balanced
  <2> QED BY <2>1, <2>2
<1> QED BY <1>1, <1>2, <1>6 DEF Balanced

\* Nothing is held at the start.
LEMMA LedgerInvInit == Init => LedgerInv
<1> SUFFICES ASSUME Init PROVE LedgerInv
  OBVIOUS
<1>1. portfolio.positions = <<>> /\ portfolio.balances = <<>>
      /\ db_positions = <<>> /\ db_balances = <<>>
  BY DEF Init, EmptyPortfolio
<1>2. Balanced(<<>>, <<>>)
  BY NoPositionFacts DEF Balanced, At
<1> QED BY <1>1, <1>2 DEF LedgerInv

\* A step that leaves the portfolio alone.
LEMMA LedgerInvStutter ==
  ASSUME LedgerInv, UNCHANGED <<portfolio, db_positions, db_balances, torn>>,
         phase' \in {"positions", "balances"} \/ phase \notin {"positions", "balances"}
  PROVE  LedgerInv'
BY DEF LedgerInv

\* Every step keeps the base balances.
LEMMA LedgerInvNext ==
  ASSUME DistinctAssets
  PROVE  PortfolioInv /\ PortfolioInv' /\ DataInv /\ LedgerInv /\ [Next]_vars => LedgerInv'
<1> SUFFICES ASSUME PortfolioInv, PortfolioInv', DataInv, LedgerInv, [Next]_vars PROVE LedgerInv'
  OBVIOUS
<1>1. CASE EngineStep \/ PersistNewOrder \/ SaveUpdate \/ ToFills \/ ToPositions \/ ToBalances
  BY <1>1, LedgerInvStutter
     DEF EngineStep, PersistNewOrder, SaveUpdate, ToFills, UpdatesDone, ToPositions, ToBalances,
         workVars, dbVars, historyVars
<1>2. CASE HandleFill
  <2>1. PICK i, fill : i = FillInstrument /\ fill = result.fills[k]
    OBVIOUS
  <2>2. i \in Instruments
    <3>1. CASE serving = <<>>
      <4>1. event \in MarketEvents
        BY <1>2, <3>1, InputAssumption DEF HandleFill, DataInv, Handling, MarketEvents
      <4> QED BY <2>1, <3>1, <4>1 DEF FillInstrument, MarketEvents
    <3>2. CASE serving # <<>>
      <4>1. PICK r \in Request : serving = <<r>>
        BY <3>2 DEF DataInv
      <4> QED BY <2>1, <3>2, <4>1 DEF FillInstrument, Request
    <3> QED BY <3>1, <3>2
  <2>3. /\ portfolio' = ApplyFill(portfolio, i, fill) /\ phase = "fills"
        /\ UNCHANGED <<phase, db_positions, db_balances, torn>>
    BY <1>2, <2>1 DEF HandleFill, historyVars
  <2>4. IsPortfolio(portfolio)
    BY DEF PortfolioInv
  <2>5. ~torn => Balanced(portfolio'.positions, portfolio'.balances)
    BY <2>2, <2>3, <2>4, FillBalanced DEF LedgerInv
  <2>6. DOMAIN portfolio'.positions \subseteq Instruments
    BY <2>2, <2>3, <2>4, ApplyFillFacts DEF LedgerInv
  <2> QED BY <2>3, <2>5, <2>6 DEF LedgerInv
<1>3. CASE \/ \E i \in Instruments : StorePosition(i)
           \/ \E asset \in Range(Base) \cup {Quote} : StoreBalance(asset)
  BY <1>3 DEF StorePosition, StoreBalance, LedgerInv, historyVars
<1>4. CASE HandledResult
  <2>1. PICK i, mark : \/ portfolio' = SetMarkPrice(portfolio, i, mark)
                       \/ portfolio' = portfolio
    BY <1>4, Zenon DEF HandledResult
  <2>2. /\ SameEntries(portfolio.positions, portfolio'.positions)
        /\ portfolio'.balances = portfolio.balances
    BY <2>1, SetMarkPriceFacts DEF PortfolioInv, SameEntries, SameEntry
  <2>3. phase' \in Settled /\ torn' = torn
    BY <1>4 DEF HandledResult, Settled, historyVars
  <2>4. SameEntries(portfolio'.positions, db_positions') /\ db_balances' = portfolio'.balances
    BY <2>3 DEF PortfolioInv, SameEntries, SameEntry
  <2>5. ASSUME ~torn PROVE Balanced(portfolio'.positions, portfolio'.balances)
    BY <2>2, <2>5, SameEntriesBalanced DEF LedgerInv
  <2>6. ASSUME ~torn PROVE Balanced(db_positions', db_balances')
    BY <2>4, <2>5, <2>6, SameEntriesBalanced
  <2>7. DOMAIN portfolio'.positions \subseteq Instruments
    BY <2>2 DEF LedgerInv, SameEntries
  <2> QED BY <2>3, <2>5, <2>6, <2>7 DEF LedgerInv
<1>5. CASE RunStrategy \/ ToRequests \/ DropRequest \/ SubmitRequest \/ FinishEvent
  BY <1>5, LedgerInvStutter
     DEF RunStrategy, ToRequests, DropRequest, SubmitRequest, FinishEvent, workVars, dbVars, historyVars
<1>6. CASE \/ \E e \in Feed : OnMarketEvent(e)
           \/ \E kind \in {"reset_strategy", "other"} : OnOtherEvent(kind)
  BY <1>6, LedgerInvStutter DEF OnMarketEvent, OnOtherEvent, dbVars
<1>7. CASE \/ Tick \/ \E value \in BOOLEAN : SetTradingPaused(value)
           \/ \E s \in Slots, value \in BOOLEAN : SetStrategyPaused(s, value)
  BY <1>7, LedgerInvStutter
     DEF Tick, SetTradingPaused, SetStrategyPaused, AtRead, workVars, dbVars, historyVars
<1>8. CASE \E snapshots \in Snapshots : Restart(snapshots)
  <2>1. /\ torn' = (torn \/ phase \in {"positions", "balances"})
        /\ phase' = "idle" /\ UNCHANGED <<db_positions, db_balances>>
    BY <1>8 DEF Restart, dbVars
  <2>2. SameEntries(db_positions, portfolio'.positions) /\ db_balances = portfolio'.balances
    BY <2>1 DEF PortfolioInv, Settled
  <2>3. ASSUME ~torn' PROVE Balanced(db_positions, db_balances)
    BY <2>1, <2>3 DEF LedgerInv
  <2>4. ASSUME ~torn' PROVE Balanced(portfolio'.positions, portfolio'.balances)
    BY <2>2, <2>3, <2>4, SameEntriesBalanced
  <2>5. DOMAIN portfolio'.positions \subseteq Instruments
    BY <2>2 DEF DataInv, SameEntries
  <2> QED BY <2>1, <2>3, <2>4, <2>5 DEF LedgerInv
<1>9. CASE UNCHANGED vars
  BY <1>9, LedgerInvStutter DEF vars, dbVars, historyVars
<1> QED
  BY <1>1, <1>2, <1>3, <1>4, <1>5, <1>6, <1>7, <1>8, <1>9 DEF Next, Work

(***************************************************************************)
(* Where every instrument has a base asset of its own, the base balance is *)
(* the net position, through every fill, every recovery and every stop of  *)
(* the process but one between storing a position and its balances         *)
(* (apply_fill, handle_execution_result and the restores).                 *)
(***************************************************************************)
THEOREM BaseBalancesArePositions ==
  ASSUME DistinctAssets
  PROVE  Spec => []BaseEntry
<1>1. LedgerInv => BaseEntry
  <2> SUFFICES ASSUME LedgerInv, ~torn, NEW i \in DOMAIN portfolio.positions
               PROVE  portfolio.positions[i].net = At(portfolio.balances, Base[i], 0)
    BY DEF BaseEntry
  <2>1. At(portfolio.positions, i, NoPosition) = portfolio.positions[i]
    BY DEF At
  <2> QED BY <2>1 DEF LedgerInv, Balanced
<1> QED
  BY <1>1, PortfolioInvInit, PortfolioInvNext, DataInvHolds, LedgerInvInit, LedgerInvNext, PTL
     DEF Spec

----------------------------------------------------------------------------
(* The engine.  Its lemmas are those of MatchingEngineProofs; a step of    *)
(* the engine of the runtime is a step of the engine they are about.       *)

EP == INSTANCE MatchingEngineProofs WITH Requests <- PluginRequests, MarketEvents <- Feed

\* The assumptions of the engine about its inputs follow from those of the runtime.
LEMMA EngineInputs ==
  /\ PluginRequests \subseteq EP!Request
  /\ \A e \in Feed : EP!IsMarketEvent(e)
  /\ MaxOrders \in Nat
<1>1. PluginRequests \subseteq EP!Request
  BY InputAssumption DEF EP!Request, Request, Sides, EP!Sides
<1>2. \A e \in Feed : EP!IsMarketEvent(e)
  BY InputAssumption DEF EP!IsMarketEvent, Levels, EP!Level
<1> QED BY <1>1, <1>2, InputAssumption

\* An iteration of the matching loop.
LEMMA EngineMatch == Engine!Match => EP!Match
BY DEF Engine!Match, Engine!BestOrders, Engine!Better, Engine!Opposite, Engine!Smaller,
       Engine!Less, Engine!Crosses, Engine!AcceptsFill, Engine!Execute, Engine!WithFill,
       Engine!ApplyFillToOrder, Engine!FilledRecord, Engine!MakeFill, Engine!eventVars,
       EP!Match, EP!BestOrders, EP!Better, EP!Opposite, EP!Smaller, EP!Less, EP!Crosses,
       EP!AcceptsFill, EP!Execute, EP!WithFill, EP!ApplyFillToOrder, EP!FilledRecord,
       EP!MakeFill, EP!eventVars

\* The end of a submit.
LEMMA EngineFinishSubmit == Engine!FinishSubmit => EP!FinishSubmit
BY DEF Engine!FinishSubmit, Engine!Concluded, EP!Concluded, Engine!BestOrders, Engine!Better, Engine!Opposite, Engine!Smaller,
       Engine!Less, Engine!Crosses, Engine!AcceptsFill, Engine!MatchingDone,
       Engine!IsRequestCompatible, Engine!FinalRecord, Engine!RestResidual, Engine!WithOrder,
       Engine!MakeUpdate, Engine!eventVars, Engine!bookVars,
       EP!FinishSubmit, EP!BestOrders, EP!Better, EP!Opposite, EP!Smaller, EP!Less, EP!Crosses,
       EP!AcceptsFill, EP!MatchingDone, EP!IsRequestCompatible, EP!FinalRecord,
       EP!RestResidual, EP!WithOrder, EP!MakeUpdate, EP!eventVars, EP!bookVars

\* An iteration of the level loop.
LEMMA EngineTakeFromLevel == Engine!TakeFromLevel => EP!TakeFromLevel
BY DEF Engine!TakeFromLevel, Engine!BestOrders, Engine!Better, Engine!Smaller, Engine!Less,
       Engine!Reaches, Engine!AcceptsFill, Engine!Execute, Engine!WithFill,
       Engine!ApplyFillToOrder, Engine!FilledRecord, Engine!MakeFill, Engine!Touch,
       Engine!submitVars,
       EP!TakeFromLevel, EP!BestOrders, EP!Better, EP!Smaller, EP!Less, EP!Reaches,
       EP!AcceptsFill, EP!Execute, EP!WithFill, EP!ApplyFillToOrder, EP!FilledRecord,
       EP!MakeFill, EP!Touch, EP!submitVars

\* A step of a call.
LEMMA EngineStepIs == Engine!Step => EP!Step
<1>1. Engine!NextLevel \/ Engine!AppendOrderUpdate \/ Engine!FinishEvent
        => EP!NextLevel \/ EP!AppendOrderUpdate \/ EP!FinishEvent
  BY DEF Engine!NextLevel, Engine!AppendOrderUpdate, Engine!FinishEvent, Engine!LevelDone,
         Engine!BestOrders, Engine!Better, Engine!Smaller, Engine!Reaches, Engine!AcceptsFill,
         Engine!MakeUpdate, Engine!bookVars, Engine!submitVars,
         EP!NextLevel, EP!AppendOrderUpdate, EP!FinishEvent, EP!LevelDone, EP!BestOrders,
         EP!Better, EP!Smaller, EP!Reaches, EP!AcceptsFill, EP!MakeUpdate, EP!bookVars,
         EP!submitVars
<1> QED BY <1>1, EngineMatch, EngineFinishSubmit, EngineTakeFromLevel DEF Engine!Step, EP!Step

\* A request is handed to the engine.
LEMMA EngineSubmit == ASSUME NEW request PROVE Engine!Submit(request) => EP!Submit(request)
BY DEF Engine!Submit, Engine!IsRefused, Engine!Put, Engine!NewRecord, Engine!NewResult,
       Engine!MakeUpdate, Engine!submitVars, Engine!bookVars, Engine!eventVars,
       EP!Submit, EP!IsRefused, EP!Put, EP!NewRecord, EP!NewResult, EP!MakeUpdate,
       EP!submitVars, EP!bookVars, EP!eventVars

\* A market event is handed to the engine.
LEMMA EngineMarketEvent ==
  ASSUME NEW e PROVE Engine!ProcessMarketEvent(e) => EP!ProcessMarketEvent(e)
BY DEF Engine!ProcessMarketEvent, Engine!AgainstSide, Engine!NewResult, Engine!submitVars,
       Engine!bookVars, EP!ProcessMarketEvent, EP!AgainstSide, EP!NewResult, EP!submitVars,
       EP!bookVars

\* The engine starts empty.
LEMMA EngineInit == Engine!Init => EP!Init
BY DEF Engine!Init, Engine!NewResult, EP!Init, EP!NewResult, Engine!Sides, EP!Sides

----------------------------------------------------------------------------
(* The order table                                                         *)

(***************************************************************************)
(* Every order of the engine has a row, but for the one that was just      *)
(* submitted; and the updates of a result are of orders of the engine, so  *)
(* that save_order_update always finds its row.                            *)
(***************************************************************************)
RowsInv ==
  /\ EP!Typed
  /\ EP!ResultOfOrders
  /\ IsFiniteSet(DOMAIN db_orders) /\ DOMAIN db_orders \subseteq Nat \ {0}
  /\ db_orders \in [DOMAIN db_orders -> StoredOrder]
  /\ phase # "execution" => pc = "idle"
  /\ \A id \in DOMAIN orders :
       \/ id \in DOMAIN db_orders
       \/ phase = "execution" /\ serving # <<>> /\ id = result.order_id
  /\ phase = "execution" /\ serving # <<>> => result.order_id \in DOMAIN orders

\* A step that leaves the engine and the order table alone.
LEMMA EngineUnchanged ==
  ASSUME UNCHANGED engineVars
  PROVE  (EP!Typed => EP!Typed') /\ (EP!ResultOfOrders => EP!ResultOfOrders')
BY DEF engineVars, EP!Typed, EP!ResultOfOrders

\* A step that leaves the engine and the order table alone.
LEMMA RowsInvStutter ==
  ASSUME RowsInv, UNCHANGED <<engineVars, db_orders>>,
         \/ phase' = phase /\ serving' = serving
         \/ phase # "execution" /\ phase' # "execution"
  PROVE  RowsInv'
<1>1. EP!Typed' /\ EP!ResultOfOrders'
  BY EngineUnchanged DEF RowsInv
<1>2. orders' = orders /\ result' = result /\ pc' = pc /\ db_orders' = db_orders
  BY DEF engineVars
<1> QED BY <1>1, <1>2 DEF RowsInv

\* The tables and the engine start empty.
LEMMA RowsInvInit == Init => RowsInv
<1> SUFFICES ASSUME Init PROVE RowsInv
  OBVIOUS
<1>1. EP!Init /\ db_orders = <<>> /\ phase = "idle" /\ orders = <<>>
      /\ result = [order_id |-> 0, updates |-> <<>>, fills |-> <<>>] /\ pc = "idle"
  BY EngineInit DEF Init, EP!Init, EP!NewResult
<1>2. EP!Typed
  BY <1>1, EP!InitType, EngineInputs, ToleranceAssumption
<1>3. DOMAIN db_orders = {} /\ IsFiniteSet({})
  BY <1>1, FS_EmptySet
<1>4. EP!ResultOfOrders
  BY <1>1 DEF EP!ResultOfOrders
<1> QED BY <1>1, <1>2, <1>3, <1>4 DEF RowsInv

\* Rows as the engine sees them.
LEMMA RowsOfEngine ==
  ASSUME NEW request \in Request PROVE request \in EP!Request
BY DEF Request, EP!Request, Sides, EP!Sides

\* The engine is called, or goes on.
LEMMA EngineRows ==
  ASSUME RowsInv, DataInv,
         \/ EngineStep \/ SubmitRequest \/ \E e \in Feed : OnMarketEvent(e)
  PROVE  RowsInv'
<1>1. CASE EngineStep
  <2>1. EP!Step /\ UNCHANGED <<phase, serving, db_orders>> /\ phase = "execution"
    BY <1>1, EngineStepIs DEF EngineStep, workVars, dbVars
  <2>2. /\ EP!Typed' /\ EP!ResultOfOrders' /\ DOMAIN orders' = DOMAIN orders
        /\ result'.order_id = result.order_id
    BY <2>1, EP!StepResult, EngineInputs, ToleranceAssumption DEF RowsInv
  <2> QED BY <2>1, <2>2 DEF RowsInv
<1>2. CASE SubmitRequest
  <2>1. PICK request : request = Head(pending)
    OBVIOUS
  <2>2. pending \in Seq(Request) /\ pending # <<>>
    BY <1>2 DEF DataInv, SubmitRequest
  <2>3. request \in EP!Request
    BY <2>1, <2>2, HeadTailProperties, RowsOfEngine
  <2>4. /\ EP!Submit(request) /\ phase = "requests" /\ phase' = "execution"
        /\ serving' = <<request>> /\ db_orders' = db_orders
    BY <1>2, <2>1, EngineSubmit DEF SubmitRequest, dbVars
  <2>5. EP!Typed' /\ DOMAIN orders' = DOMAIN orders \cup {next_order_id}
    BY <2>3, <2>4, EP!SubmitType, EngineInputs, ToleranceAssumption DEF RowsInv
  <2>6. PICK status : /\ result'.order_id = next_order_id
                      /\ result'.updates = <<EP!MakeUpdate(next_order_id, status, 0)>>
    BY <2>4 DEF EP!Submit, EP!NewResult
  <2>7. EP!ResultOfOrders'
    BY <2>5, <2>6 DEF EP!ResultOfOrders, EP!MakeUpdate
  <2>8. serving' # <<>>
    BY <2>4
  <2> QED BY <2>4, <2>5, <2>6, <2>7, <2>8 DEF RowsInv
<1>3. ASSUME NEW e \in Feed, OnMarketEvent(e) PROVE RowsInv'
  <2>1. /\ EP!ProcessMarketEvent(e) /\ phase = "idle" /\ phase' = "execution"
        /\ UNCHANGED <<serving, db_orders>>
    BY <1>3, EngineMarketEvent DEF OnMarketEvent, dbVars
  <2>2. EP!Typed'
    BY <2>1, EP!ProcessMarketEventType, EngineInputs, ToleranceAssumption DEF RowsInv
  <2>3. result'.updates = <<>> /\ orders' = orders
    BY <2>1 DEF EP!ProcessMarketEvent, EP!NewResult
  <2>4. EP!ResultOfOrders'
    BY <2>3 DEF EP!ResultOfOrders
  <2>5. serving' = <<>>
    BY <2>1 DEF DataInv, Settled
  <2> QED BY <2>1, <2>2, <2>3, <2>4, <2>5 DEF RowsInv
<1> QED BY <1>1, <1>2, <1>3

\* persist_new_order writes a row of the request that was submitted.
LEMMA PersistNewOrderRows == ASSUME RowsInv, DataInv, PersistNewOrder PROVE RowsInv'
<1>1. /\ phase = "execution" /\ pc = "idle" /\ phase' = "updates" /\ UNCHANGED engineVars
      /\ serving' = serving
      /\ db_orders' = IF IsNewOrder THEN SaveOrder(db_orders, result.order_id, serving[1])
                                    ELSE db_orders
  BY DEF PersistNewOrder
<1>2. EP!Typed' /\ EP!ResultOfOrders'
  BY <1>1, EngineUnchanged DEF RowsInv
<1>3. orders' = orders /\ result' = result /\ pc' = pc
  BY <1>1 DEF engineVars
<1>4. CASE ~IsNewOrder
  <2>1. db_orders' = db_orders /\ (serving # <<>> => result.order_id \in DOMAIN db_orders)
    BY <1>1, <1>4 DEF IsNewOrder
  <2> QED BY <1>1, <1>2, <1>3, <2>1 DEF RowsInv
<1>5. CASE IsNewOrder
  <2>1. PICK id : id = result.order_id
    OBVIOUS
  <2>2. serving # <<>> /\ id \notin DOMAIN db_orders
    BY <1>5, <2>1 DEF IsNewOrder
  <2>3. PICK request \in Request : serving = <<request>>
    BY <2>2 DEF DataInv
  <2>4. id \in DOMAIN orders /\ DOMAIN orders \subseteq EP!OrderIds
    BY <1>1, <2>1, <2>2 DEF RowsInv, EP!Typed
  <2>5. PICK row : row = [instrument |-> request.instrument, side |-> request.side,
                          type |-> request.type, price |-> request.price,
                          quantity |-> request.quantity, filled |-> 0, status |-> "created"]
    OBVIOUS
  <2>6. row \in StoredOrder
    BY <2>5 DEF Request, StoredOrder, Engine!OrderStatus, Engine!OpenStatus, Engine!TerminalStatus
  <2>7. db_orders' = Set(db_orders, id, row)
    BY <1>1, <1>5, <2>1, <2>3, <2>5 DEF SaveOrder
  <2>8. /\ DOMAIN db_orders' = DOMAIN db_orders \cup {id}
        /\ db_orders' \in [DOMAIN db_orders' -> StoredOrder]
    <3>1. db_orders \in [DOMAIN db_orders -> StoredOrder]
      BY DEF RowsInv
    <3> QED BY <2>6, <2>7, <3>1 DEF Set
  <2>9. IsFiniteSet(DOMAIN db_orders') /\ DOMAIN db_orders' \subseteq Nat \ {0}
    BY <2>4, <2>8, FS_AddElement DEF RowsInv, EP!OrderIds
  <2>10. \A x \in DOMAIN orders' : x \in DOMAIN db_orders'
    BY <1>3, <2>1, <2>8 DEF RowsInv
  <2> QED BY <1>1, <1>2, <1>3, <2>8, <2>9, <2>10 DEF RowsInv
<1> QED BY <1>4, <1>5

\* An update changes status and filled quantity of a row.
UpdatedRow(row, update) == [row EXCEPT !.status = update.status, !.filled = update.filled]

\* An updated row keeps all but status and filled quantity.
LEMMA UpdatedRowFacts ==
  ASSUME NEW row \in StoredOrder, NEW update \in EP!OrderUpdate
  PROVE  LET new == UpdatedRow(row, update)
         IN  /\ new \in StoredOrder
             /\ new.status = update.status /\ new.filled = update.filled
             /\ new.quantity = row.quantity
BY DEF UpdatedRow, StoredOrder, EP!OrderUpdate, EP!OrderStatus, EP!OpenStatus,
       EP!TerminalStatus, Engine!OrderStatus, Engine!OpenStatus, Engine!TerminalStatus

\* save_order_update finds the row of its order.
LEMMA SaveUpdateEffect ==
  ASSUME RowsInv, SaveUpdate
  PROVE  \E update \in EP!OrderUpdate :
           /\ update = result.updates[k] /\ update.order_id \in DOMAIN db_orders
           /\ update.order_id \in DOMAIN orders
           /\ db_orders' = Set(db_orders, update.order_id,
                               UpdatedRow(db_orders[update.order_id], update))
<1>1. PICK update : update = result.updates[k]
  OBVIOUS
<1>2. /\ phase = "updates" /\ k \in DOMAIN result.updates
      /\ db_orders' = SaveOrderUpdate(db_orders, update)
  BY <1>1 DEF SaveUpdate
<1>3. update \in EP!OrderUpdate
  <2>1. result.updates \in Seq(EP!OrderUpdate)
    BY DEF RowsInv, EP!Typed
  <2> QED BY <1>1, <1>2, <2>1, ElementOfSeq
<1>4. update.order_id \in DOMAIN orders
  BY <1>1, <1>2 DEF RowsInv, EP!ResultOfOrders
<1>5. update.order_id \in DOMAIN db_orders
  BY <1>2, <1>4 DEF RowsInv
<1> QED BY <1>1, <1>2, <1>3, <1>4, <1>5 DEF SaveOrderUpdate, At, UpdatedRow

\* A stored update finds its row.
LEMMA SaveUpdateRows == ASSUME RowsInv, SaveUpdate PROVE RowsInv'
<1>1. PICK update \in EP!OrderUpdate :
        /\ update.order_id \in DOMAIN db_orders
        /\ db_orders' = Set(db_orders, update.order_id,
                            UpdatedRow(db_orders[update.order_id], update))
  BY SaveUpdateEffect
<1>2. PICK id, new : id = update.order_id /\ new = UpdatedRow(db_orders[update.order_id], update)
  OBVIOUS
<1>3. new \in StoredOrder
  BY <1>1, <1>2, UpdatedRowFacts DEF RowsInv
<1>4. DOMAIN db_orders' = DOMAIN db_orders
  BY <1>1, <1>2 DEF Set
<1>5. db_orders' \in [DOMAIN db_orders' -> StoredOrder]
  <2>1. db_orders \in [DOMAIN db_orders -> StoredOrder]
    BY DEF RowsInv
  <2> QED BY <1>1, <1>2, <1>3, <2>1 DEF Set
<1>6. /\ phase = "updates" /\ phase' = phase /\ UNCHANGED engineVars /\ serving' = serving
  BY DEF SaveUpdate
<1>7. EP!Typed' /\ EP!ResultOfOrders'
  BY <1>6, EngineUnchanged DEF RowsInv
<1>8. orders' = orders /\ result' = result /\ pc' = pc
  BY <1>6 DEF engineVars
<1> QED BY <1>4, <1>5, <1>6, <1>7, <1>8 DEF RowsInv

\* What recovery restores: a record and a resting order for each row that is open.
LEMMA RestartEffect ==
  ASSUME RowsInv, NEW snapshots, Restart(snapshots)
  PROVE  /\ IsFiniteSet(Restored) /\ Cardinality(Restored) \in Nat
         /\ Restored \subseteq DOMAIN db_orders
         /\ DOMAIN orders' = Restored
         /\ \A id \in Restored : /\ db_orders[id] \in StoredOrder /\ Restorable(db_orders[id])
                                 /\ orders'[id] = RestoredRecord(db_orders[id])
                                 /\ orders'[id] \in EP!OrderRecord
<1>1. Restored \subseteq DOMAIN db_orders
  BY DEF Restored, OpenOrders
<1>2. IsFiniteSet(Restored)
  BY <1>1, FS_Subset DEF RowsInv
<1>3. Cardinality(Restored) \in Nat
  BY <1>2, FS_CardinalityType
<1>4. orders' = [id \in Restored |-> RestoredRecord(db_orders[id])]
  BY DEF Restart
<1>5. ASSUME NEW id \in Restored
      PROVE  /\ db_orders[id] \in StoredOrder /\ Restorable(db_orders[id])
             /\ orders'[id] = RestoredRecord(db_orders[id])
             /\ orders'[id] \in EP!OrderRecord
  <2>1. db_orders[id] \in StoredOrder /\ Restorable(db_orders[id])
    BY <1>1, <1>5 DEF RowsInv, Restored
  <2>2. RestoredRecord(db_orders[id]) \in EP!OrderRecord
    BY <2>1 DEF RestoredRecord, EP!OrderRecord, StoredOrder, EP!OrderStatus, EP!OpenStatus,
                Sides, EP!Sides
  <2> QED BY <1>4, <1>5, <2>1, <2>2
<1> QED BY <1>1, <1>2, <1>3, <1>4, <1>5

\* The resting order r of a restored row.
IsRestored(i, r) ==
  /\ r \in EP!RestingOrder(EP!OrderIds) /\ r.id \in Restored
  /\ db_orders[r.id].instrument = i
  /\ r.side = db_orders[r.id].side /\ r.price = db_orders[r.id].price
  /\ r.remaining = db_orders[r.id].quantity - db_orders[r.id].filled

\* The restored books hold every restored order once and nothing else.
LEMMA RestartBooks ==
  ASSUME RowsInv, NEW snapshots, Restart(snapshots)
  PROVE  /\ books' \in [Instruments -> SUBSET EP!RestingOrder(EP!OrderIds)]
         /\ \A i \in Instruments : \A r \in books'[i] : IsRestored(i, r)
         /\ \A i \in Instruments : \A r, o \in books'[i] : r.id = o.id => r = o
         /\ \A id \in Restored : \E r \in books'[db_orders[id].instrument] : r.id = id
<1>1. PICK rank \in Injection(Restored, 1..Cardinality(Restored)) :
        books' = [i \in Instruments |->
             {[id |-> id, side |-> db_orders[id].side, price |-> db_orders[id].price,
               remaining |-> db_orders[id].quantity - db_orders[id].filled,
               seq |-> rank[id]] : id \in {x \in Restored : db_orders[x].instrument = i}}]
  BY DEF Restart
<1>2. \A id \in Restored : rank[id] \in Nat
  BY RestartEffect DEF Injection
<1>3. PICK rests : rests = [id \in Restored |->
             [id |-> id, side |-> db_orders[id].side, price |-> db_orders[id].price,
              remaining |-> db_orders[id].quantity - db_orders[id].filled, seq |-> rank[id]]]
  OBVIOUS
<1>4. ASSUME NEW id \in Restored
      PROVE  IsRestored(db_orders[id].instrument, rests[id]) /\ rests[id].id = id
             /\ db_orders[id].instrument \in Instruments
  <2>1. /\ db_orders[id] \in StoredOrder /\ Restorable(db_orders[id]) /\ id \in Nat \ {0}
        /\ rank[id] \in Nat
    BY <1>2, RestartEffect DEF RowsInv
  <2>2. PICK row : row = db_orders[id]
    OBVIOUS
  <2>3. /\ row.side \in {"buy", "sell"} /\ row.price \in Nat /\ row.quantity \in Nat
        /\ row.filled \in Nat /\ row.filled + Tolerance < row.quantity
        /\ row.instrument \in Instruments
    BY <2>1, <2>2 DEF StoredOrder, Restorable, Sides
  <2>4. row.quantity - row.filled \in Nat
    BY <2>3, ToleranceAssumption
  <2>5. rests[id] = [id |-> id, side |-> row.side, price |-> row.price,
                     remaining |-> row.quantity - row.filled, seq |-> rank[id]]
    BY <1>3, <2>2
  <2>6. rests[id] \in EP!RestingOrder(EP!OrderIds)
    BY <2>1, <2>3, <2>4, <2>5 DEF EP!RestingOrder, EP!OrderIds, EP!Sides
  <2> QED BY <2>2, <2>3, <2>5, <2>6 DEF IsRestored
<1>5. books' = [i \in Instruments |->
                  {rests[id] : id \in {x \in Restored : db_orders[x].instrument = i}}]
  BY <1>1, <1>3
<1>6. \A i \in Instruments : \A r \in books'[i] :
        \E id \in Restored : r = rests[id] /\ db_orders[id].instrument = i
  BY <1>5
<1>7. \A i \in Instruments : \A r \in books'[i] : IsRestored(i, r)
  BY <1>4, <1>6
<1>8. \A i \in Instruments : \A r, o \in books'[i] : r.id = o.id => r = o
  BY <1>4, <1>6
<1>9. \A id \in Restored : rests[id] \in books'[db_orders[id].instrument]
  BY <1>4, <1>5
<1>10. books' \in [Instruments -> SUBSET EP!RestingOrder(EP!OrderIds)]
  BY <1>5, <1>7 DEF IsRestored
<1> QED BY <1>4, <1>7, <1>8, <1>9, <1>10

\* A recovered engine has the types of one that was never stopped.
LEMMA RestartRows == ASSUME RowsInv, NEW snapshots, Restart(snapshots) PROVE RowsInv'
<1>1. /\ next_seq' = [i \in Instruments |-> Cardinality(Restored) + 1]
      /\ next_order_id' = 1 /\ next_fill_id' = 1
      /\ result' = [order_id |-> 0, updates |-> <<>>, fills |-> <<>>]
      /\ pc' = "idle" /\ incoming' = 0 /\ remaining' = 0
      /\ levels' = <<>> /\ touched' = {} /\ external' = external
      /\ phase' = "idle" /\ db_orders' = db_orders
  BY DEF Restart, dbVars
<1>2. /\ Restored \subseteq DOMAIN db_orders /\ DOMAIN orders' = Restored
      /\ Cardinality(Restored) + 1 \in Nat
      /\ \A id \in Restored : orders'[id] \in EP!OrderRecord
  BY RestartEffect
<1>3. orders' \in [DOMAIN orders' -> EP!OrderRecord] /\ DOMAIN orders' \subseteq EP!OrderIds
  <2>1. orders' = [id \in Restored |-> RestoredRecord(db_orders[id])]
    BY DEF Restart
  <2> QED BY <1>2, <2>1 DEF RowsInv, EP!OrderIds
<1>4. result' \in [order_id: Nat, updates: Seq(EP!OrderUpdate), fills: Seq(EP!Fill)]
  BY <1>1, EmptySeq
<1>5. books' \in [Instruments -> SUBSET EP!RestingOrder(EP!OrderIds)]
  BY RestartBooks
<1>6. EP!Typed'
  BY <1>1, <1>2, <1>3, <1>4, <1>5, EmptySeq DEF RowsInv, EP!Typed, EP!OrderIds
<1>7. EP!ResultOfOrders'
  BY <1>1 DEF EP!ResultOfOrders
<1> QED BY <1>1, <1>2, <1>6, <1>7 DEF RowsInv

\* Every step keeps the order table and the engine well-formed.
LEMMA RowsInvNext == DataInv /\ RowsInv /\ [Next]_vars => RowsInv'
<1> SUFFICES ASSUME DataInv, RowsInv, [Next]_vars PROVE RowsInv'
  OBVIOUS
<1>1. CASE EngineStep \/ SubmitRequest \/ \E e \in Feed : OnMarketEvent(e)
  BY <1>1, EngineRows
<1>2. CASE PersistNewOrder
  BY <1>2, PersistNewOrderRows
<1>3. CASE SaveUpdate
  BY <1>3, SaveUpdateRows
<1>4. CASE \E snapshots \in Snapshots : Restart(snapshots)
  BY <1>4, RestartRows
<1>5. CASE \/ ToFills \/ HandleFill \/ ToPositions \/ ToBalances \/ HandledResult \/ RunStrategy
           \/ ToRequests \/ DropRequest \/ FinishEvent
           \/ \E i \in Instruments : StorePosition(i)
           \/ \E asset \in Range(Base) \cup {Quote} : StoreBalance(asset)
  <2>1. UNCHANGED <<engineVars, db_orders>> /\ phase # "execution" /\ phase' # "execution"
    BY <1>5 DEF ToFills, UpdatesDone, HandleFill, ToPositions, ToBalances, HandledResult,
                RunStrategy, ToRequests, DropRequest, FinishEvent, StorePosition, StoreBalance,
                dbVars
  <2> QED BY <2>1, RowsInvStutter
<1>6. CASE \/ \E kind \in {"reset_strategy", "other"} : OnOtherEvent(kind)
           \/ Tick \/ \E value \in BOOLEAN : SetTradingPaused(value)
           \/ \E s \in Slots, value \in BOOLEAN : SetStrategyPaused(s, value)
  <2>1. UNCHANGED <<engineVars, db_orders>> /\ phase # "execution" /\ phase' # "execution"
    BY <1>6 DEF OnOtherEvent, Tick, AtRead, SetTradingPaused, SetStrategyPaused, dbVars
  <2> QED BY <2>1, RowsInvStutter
<1>7. CASE UNCHANGED vars
  BY <1>7, RowsInvStutter DEF vars, workVars, dbVars
<1> QED BY <1>1, <1>2, <1>3, <1>4, <1>5, <1>6, <1>7 DEF Next, Work

(***************************************************************************)
(* Type correctness of the runtime: wherever the process is stopped and    *)
(* whatever it recovers, save_order_update never meets an order without a  *)
(* row, and the engine is idle whenever on_event is not inside a call.     *)
(***************************************************************************)
THEOREM RuntimeTypeCorrect == Spec => []TypeOK
<1>1. DataInv /\ RowsInv => TypeOK
  <2> SUFFICES ASSUME DataInv, RowsInv PROVE TypeOK
    OBVIOUS
  <2>1. Len(serving) <= 1
    <3>1. CASE serving = <<>>
      BY <3>1
    <3>2. ASSUME NEW r \in Request, serving = <<r>> PROVE Len(serving) <= 1
      <4>1. Len(<<r>>) = 1
        OBVIOUS
      <4> QED BY <3>2, <4>1
    <3> QED BY <3>1, <3>2 DEF DataInv
  <2>2. DOMAIN orders \subseteq Engine!OrderIds
    BY DEF RowsInv, EP!Typed, EP!OrderIds, Engine!OrderIds
  <2> QED BY <2>1, <2>2 DEF DataInv, RowsInv, TypeOK, AreStates, Handling, Settled
<1> QED BY <1>1, DataInvHolds, RowsInvInit, RowsInvNext, PTL DEF Spec

----------------------------------------------------------------------------
(* The order table and the records                                         *)

(***************************************************************************)
(* While ids are new, the rows are behind the records of the engine, and   *)
(* so are the updates still to be stored.  The engine's records and books  *)
(* are consistent, in a recovered engine too.                              *)
(***************************************************************************)
BehindInv ==
  /\ issued \in Seq(Nat)
  /\ FreshIds =>
       /\ DOMAIN orders \subseteq Range(issued) /\ DOMAIN db_orders \subseteq Range(issued)
       /\ EP!Consistent
       /\ EP!Known(db_orders, orders)
       /\ EP!UpdatesBehind(result.updates, orders)
       /\ phase = "execution" /\ serving # <<>> =>
            /\ result.order_id \notin DOMAIN db_orders
            /\ orders[result.order_id].quantity = serving[1].quantity

\* An id that keeps the list of ids free of repetition is new.
LEMMA FreshId ==
  ASSUME NEW ids \in Seq(Nat), NEW id \in Nat
  PROVE  /\ Append(ids, id) \in Seq(Nat)
         /\ Range(Append(ids, id)) = Range(ids) \cup {id}
         /\ IsInjective(Append(ids, id)) => IsInjective(ids) /\ id \notin Range(ids)
<1>1. PICK all : all = Append(ids, id)
  OBVIOUS
<1>2. PICK last \in Nat \ {0} : last = Len(ids) + 1
  BY LenProperties
<1>3. /\ all \in Seq(Nat) /\ DOMAIN ids = 1..(last - 1) /\ DOMAIN all = 1..last
      /\ all[last] = id /\ \A n \in DOMAIN ids : all[n] = ids[n]
  BY <1>1, <1>2
<1>4. DOMAIN all = DOMAIN ids \cup {last} /\ last \notin DOMAIN ids
  BY <1>3
<1>5. Range(all) = Range(ids) \cup {id}
  <2>1. \A x \in Range(all) : x \in Range(ids) \cup {id}
    BY <1>3, <1>4 DEF Range
  <2>2. \A x \in Range(ids) \cup {id} : x \in Range(all)
    BY <1>3, <1>4 DEF Range
  <2> QED BY <2>1, <2>2
<1>6. IsInjective(all) => IsInjective(ids) /\ id \notin Range(ids)
  BY <1>3, <1>4 DEF IsInjective, Range
<1> QED BY <1>1, <1>3, <1>5, <1>6

\* A step that leaves the engine alone.
LEMMA ConsistentUnchanged ==
  ASSUME UNCHANGED engineVars, EP!Consistent PROVE EP!Consistent'
<1>1. EP!Typed'
  BY EngineUnchanged DEF EP!Consistent
<1>2. /\ books' = books /\ orders' = orders /\ pc' = pc /\ incoming' = incoming
      /\ remaining' = remaining
  BY DEF engineVars
<1>3. EP!RecordsMatchBooks'
  BY <1>2 DEF EP!Consistent, EP!RecordsMatchBooks, EP!Agrees
<1>4. EP!SubmitInProgress'
  BY <1>2 DEF EP!Consistent, EP!SubmitInProgress
<1> QED BY <1>1, <1>3, <1>4 DEF EP!Consistent

\* A step that leaves the engine, the order table and the ids alone.
LEMMA BehindInvStutter ==
  ASSUME BehindInv, UNCHANGED <<engineVars, db_orders, issued>>,
         \/ phase' = phase /\ serving' = serving
         \/ phase # "execution" /\ phase' # "execution"
  PROVE  BehindInv'
<1>1. /\ orders' = orders /\ result' = result /\ db_orders' = db_orders /\ issued' = issued
      /\ (FreshIds' <=> FreshIds)
  BY DEF engineVars, FreshIds
<1>2. FreshIds => EP!Consistent'
  BY ConsistentUnchanged DEF BehindInv
<1> QED BY <1>1, <1>2 DEF BehindInv

\* Rows with quantities.
LEMMA StoredRows == RowsInv => EP!AreRows(db_orders)
BY DEF RowsInv, EP!AreRows, StoredOrder

\* No order is stored at the start.
LEMMA BehindInvInit == Init => BehindInv
<1> SUFFICES ASSUME Init PROVE BehindInv
  OBVIOUS
<1>1. /\ EP!Init /\ db_orders = <<>> /\ orders = <<>> /\ issued = <<>> /\ phase = "idle"
      /\ result.updates = <<>>
  BY EngineInit DEF Init, EP!Init, EP!NewResult
<1>2. EP!Consistent
  BY <1>1, EP!InitIInv, EngineInputs, ToleranceAssumption DEF EP!IInv
<1>3. EP!Known(db_orders, orders) /\ EP!UpdatesBehind(result.updates, orders)
  BY <1>1 DEF EP!Known, EP!UpdatesBehind
<1> QED BY <1>1, <1>2, <1>3, EmptySeq DEF BehindInv

\* A step of a call keeps rows and updates behind the records.
LEMMA EngineStepBehind == ASSUME DataInv, RowsInv, BehindInv, EngineStep PROVE BehindInv'
<1>1. /\ EP!Step /\ UNCHANGED <<phase, serving, db_orders, issued>> /\ phase = "execution"
  BY EngineStepIs DEF EngineStep, workVars, dbVars, historyVars
<1>2. PICK rows : rows = db_orders
  OBVIOUS
<1>3. FreshIds' <=> FreshIds
  BY <1>1 DEF FreshIds
<1>4. DOMAIN orders' = DOMAIN orders /\ result'.order_id = result.order_id
  BY <1>1, EP!StepResult, EngineInputs, ToleranceAssumption DEF RowsInv
<1> SUFFICES ASSUME FreshIds
             PROVE  /\ EP!Consistent'
                    /\ EP!Known(rows, orders')
                    /\ EP!UpdatesBehind(result'.updates, orders')
                    /\ serving # <<>> =>
                         orders'[result.order_id].quantity = orders[result.order_id].quantity
  BY <1>1, <1>2, <1>3, <1>4 DEF BehindInv
<1>5. EP!Consistent /\ EP!UpdatesBehind(result.updates, orders) /\ EP!Known(rows, orders)
  BY <1>2 DEF BehindInv
<1>6. EP!Consistent'
  BY <1>1, <1>5, EP!StepConsistent, EngineInputs, ToleranceAssumption
<1>7. EP!AreRows(rows)
  BY <1>2, StoredRows
<1>8. EP!Known(rows, orders') /\ EP!UpdatesBehind(result'.updates, orders')
  BY <1>1, <1>5, <1>7, EP!StepBehind, EngineInputs, ToleranceAssumption
<1>9. \A id \in DOMAIN orders : orders'[id].quantity = orders[id].quantity
  <2>1. \A id \in DOMAIN orders : EP!Grown(orders[id], orders'[id])
    BY <1>1, <1>5, EP!StepGrows, EngineInputs, ToleranceAssumption
  <2> QED BY <2>1 DEF EP!Grown
<1> QED BY <1>1, <1>6, <1>8, <1>9 DEF RowsInv

\* A submit with a new id.
LEMMA SubmitRequestBehind == ASSUME DataInv, RowsInv, BehindInv, SubmitRequest PROVE BehindInv'
<1>1. PICK request, id, rows : request = Head(pending) /\ id = next_order_id /\ rows = db_orders
  OBVIOUS
<1>2. request \in EP!Request
  <2>1. pending \in Seq(Request) /\ pending # <<>>
    BY DEF DataInv, SubmitRequest
  <2> QED BY <1>1, <2>1, HeadTailProperties, RowsOfEngine
<1>3. /\ EP!Submit(request) /\ phase' = "execution" /\ serving' = <<request>>
      /\ db_orders' = db_orders /\ issued' = Append(issued, id)
  BY <1>1, EngineSubmit DEF SubmitRequest, dbVars
<1>4. id \in Nat /\ issued \in Seq(Nat)
  BY <1>1 DEF RowsInv, EP!Typed, EP!OrderIds, BehindInv
<1>5. /\ issued' \in Seq(Nat) /\ Range(issued') = Range(issued) \cup {id}
      /\ FreshIds' => FreshIds /\ id \notin Range(issued)
  BY <1>3, <1>4, FreshId DEF FreshIds
<1> SUFFICES ASSUME FreshIds, id \notin Range(issued)
             PROVE  /\ DOMAIN orders' = DOMAIN orders \cup {id}
                    /\ EP!Consistent'
                    /\ EP!Known(rows, orders')
                    /\ EP!UpdatesBehind(result'.updates, orders')
                    /\ result'.order_id = id
                    /\ orders'[id].quantity = request.quantity
  BY <1>1, <1>3, <1>5 DEF BehindInv
<1>6. /\ EP!Consistent /\ EP!Known(rows, orders)
      /\ id \notin DOMAIN orders /\ id \notin DOMAIN rows
  BY <1>1 DEF BehindInv
<1>7. EP!AreRows(rows)
  BY <1>1, StoredRows
<1>8. EP!Consistent'
  BY <1>1, <1>2, <1>3, <1>6, EP!SubmitConsistent, EngineInputs, ToleranceAssumption
<1>9. DOMAIN orders' = DOMAIN orders \cup {id}
  BY <1>1, <1>2, <1>3, EP!SubmitType, EngineInputs, ToleranceAssumption DEF RowsInv
<1>10. /\ EP!Known(rows, orders') /\ EP!UpdatesBehind(result'.updates, orders')
       /\ result'.order_id = id /\ orders'[id].quantity = request.quantity
  BY <1>1, <1>2, <1>3, <1>6, <1>7, EP!SubmitBehind, EngineInputs, ToleranceAssumption
<1> QED BY <1>8, <1>9, <1>10

\* A market event is handed to the engine.
LEMMA OnMarketEventBehind ==
  ASSUME DataInv, RowsInv, BehindInv, NEW e \in Feed, OnMarketEvent(e)
  PROVE  BehindInv'
<1>1. /\ EP!ProcessMarketEvent(e) /\ phase = "idle" /\ UNCHANGED <<serving, db_orders, issued>>
  BY EngineMarketEvent DEF OnMarketEvent, dbVars
<1>2. serving' = <<>> /\ (FreshIds' <=> FreshIds)
  BY <1>1 DEF DataInv, Settled, FreshIds
<1>3. orders' = orders /\ result'.updates = <<>>
  BY <1>1 DEF EP!ProcessMarketEvent, EP!NewResult
<1>4. EP!IsMarketEvent(e)
  BY EngineInputs
<1>5. FreshIds => EP!Consistent'
  BY <1>1, <1>4, EP!OtherStepsConsistent, EngineInputs, ToleranceAssumption DEF BehindInv
<1>6. EP!UpdatesBehind(result'.updates, orders')
  BY <1>3 DEF EP!UpdatesBehind
<1> QED BY <1>1, <1>2, <1>3, <1>5, <1>6 DEF BehindInv

\* The row of a new order is behind its record.
LEMMA PersistNewOrderBehind ==
  ASSUME DataInv, RowsInv, BehindInv, PersistNewOrder PROVE BehindInv'
<1>1. /\ phase = "execution" /\ phase' = "updates" /\ UNCHANGED <<engineVars, issued>>
      /\ db_orders' = IF IsNewOrder THEN SaveOrder(db_orders, result.order_id, serving[1])
                                    ELSE db_orders
  BY DEF PersistNewOrder, historyVars
<1>2. orders' = orders /\ result' = result /\ (FreshIds' <=> FreshIds)
  BY <1>1 DEF engineVars, FreshIds
<1>3. CASE ~IsNewOrder
  <2>1. db_orders' = db_orders
    BY <1>1, <1>3
  <2> QED BY <1>1, <1>2, <2>1, ConsistentUnchanged DEF BehindInv
<1>4. CASE IsNewOrder
  <2>1. PICK id, q : id = result.order_id /\ q = serving[1].quantity
    OBVIOUS
  <2>2. id \notin DOMAIN db_orders /\ serving # <<>> /\ id \in DOMAIN orders
    BY <1>1, <1>4, <2>1 DEF IsNewOrder, RowsInv
  <2>3. /\ DOMAIN db_orders' = DOMAIN db_orders \cup {id}
        /\ \A x \in DOMAIN db_orders : x # id /\ db_orders'[x] = db_orders[x]
        /\ db_orders'[id].filled = 0 /\ db_orders'[id].status = "created"
        /\ db_orders'[id].quantity = q
    BY <1>1, <1>4, <2>1, <2>2 DEF SaveOrder, Set
  <2>4. orders[id].filled \in Nat
    BY <2>2 DEF RowsInv, EP!Typed, EP!OrderRecord
  <2>5. EP!Behind("created", 0, orders[id])
    BY <2>4 DEF EP!Behind, EP!IsTerminal, EP!TerminalStatus
  <2>6. ASSUME FreshIds
        PROVE  EP!Known(db_orders', orders') /\ DOMAIN db_orders' \subseteq Range(issued)
    <3>1. EP!Known(db_orders, orders) /\ orders[id].quantity = q
      BY <1>1, <2>1, <2>2, <2>6 DEF BehindInv
    <3>2. EP!Known(db_orders', orders)
      BY <2>3, <2>5, <3>1 DEF EP!Known
    <3> QED BY <1>2, <2>2, <2>3, <2>6, <3>2 DEF BehindInv
  <2>7. FreshIds => EP!Consistent'
    BY <1>1, ConsistentUnchanged DEF BehindInv
  <2> QED BY <1>1, <1>2, <2>6, <2>7 DEF BehindInv
<1> QED BY <1>3, <1>4

\* An update puts its row where the record is, or behind it.
LEMMA SaveUpdateBehind == ASSUME RowsInv, BehindInv, SaveUpdate PROVE BehindInv'
<1>1. PICK update \in EP!OrderUpdate :
        /\ update = result.updates[k] /\ update.order_id \in DOMAIN db_orders
        /\ update.order_id \in DOMAIN orders
        /\ db_orders' = Set(db_orders, update.order_id,
                            UpdatedRow(db_orders[update.order_id], update))
  BY SaveUpdateEffect
<1>2. PICK id, new : id = update.order_id /\ new = UpdatedRow(db_orders[update.order_id], update)
  OBVIOUS
<1>3. /\ new.status = update.status /\ new.filled = update.filled
      /\ new.quantity = db_orders[id].quantity
  BY <1>1, <1>2, UpdatedRowFacts DEF RowsInv
<1>4. /\ DOMAIN db_orders' = DOMAIN db_orders /\ db_orders'[id] = new
      /\ \A x \in DOMAIN db_orders : x # id => db_orders'[x] = db_orders[x]
  BY <1>1, <1>2 DEF Set
<1>5. /\ phase = "updates" /\ phase' = phase /\ UNCHANGED <<engineVars, issued>>
      /\ k \in DOMAIN result.updates
  BY DEF SaveUpdate, historyVars
<1>6. orders' = orders /\ result' = result /\ (FreshIds' <=> FreshIds)
  BY <1>5 DEF engineVars, FreshIds
<1>7. ASSUME FreshIds PROVE EP!Known(db_orders', orders)
  <2>1. EP!Known(db_orders, orders) /\ EP!Behind(update.status, update.filled, orders[id])
    BY <1>1, <1>2, <1>5, <1>7 DEF BehindInv, EP!UpdatesBehind
  <2> QED BY <1>3, <1>4, <2>1 DEF EP!Known
<1>8. FreshIds => EP!Consistent'
  BY <1>5, ConsistentUnchanged DEF BehindInv
<1> QED BY <1>4, <1>5, <1>6, <1>7, <1>8 DEF BehindInv

\* A recovered engine is consistent, and its records are where the rows are.
LEMMA RestartBehind ==
  ASSUME RowsInv, BehindInv, NEW snapshots, Restart(snapshots)
  PROVE  BehindInv' /\ EP!Consistent'
<1>1. /\ result' = [order_id |-> 0, updates |-> <<>>, fills |-> <<>>] /\ pc' = "idle"
      /\ phase' = "idle" /\ UNCHANGED <<db_orders, issued>>
  BY DEF Restart, dbVars
<1>2. /\ Restored \subseteq DOMAIN db_orders /\ DOMAIN orders' = Restored
      /\ \A id \in Restored : /\ db_orders[id] \in StoredOrder /\ Restorable(db_orders[id])
                              /\ orders'[id] = RestoredRecord(db_orders[id])
  BY RestartEffect
<1>3. /\ \A i \in Instruments : \A r \in books'[i] : IsRestored(i, r)
      /\ \A i \in Instruments : \A r, o \in books'[i] : r.id = o.id => r = o
      /\ \A id \in Restored : \E r \in books'[db_orders[id].instrument] : r.id = id
  BY RestartBooks
<1>4. ASSUME NEW id \in Restored
      PROVE  /\ orders'[id].instrument = db_orders[id].instrument
             /\ orders'[id].side = db_orders[id].side /\ orders'[id].price = db_orders[id].price
             /\ orders'[id].quantity = db_orders[id].quantity
             /\ orders'[id].filled = db_orders[id].filled
             /\ orders'[id].status \in EP!OpenStatus
             /\ db_orders[id].filled \in Nat /\ db_orders[id].quantity \in Nat
             /\ db_orders[id].filled + Tolerance < db_orders[id].quantity
             /\ ~EP!IsTerminal(db_orders[id].status)
  <2>1. PICK row, record : row = db_orders[id] /\ record = orders'[id]
    OBVIOUS
  <2>2. record = [instrument |-> row.instrument, side |-> row.side, price |-> row.price,
                  quantity |-> row.quantity, filled |-> row.filled,
                  status |-> IF row.filled > 0 THEN "partially_filled" ELSE "acknowledged"]
    BY <1>2, <2>1 DEF RestoredRecord
  <2>3. record.status \in EP!OpenStatus
    BY <2>2 DEF EP!OpenStatus
  <2>4. ~EP!IsTerminal(row.status)
    BY <2>1 DEF Restored, OpenOrders, EP!IsTerminal, EP!TerminalStatus
  <2>5. /\ row.filled \in Nat /\ row.quantity \in Nat /\ row.filled + Tolerance < row.quantity
    BY <1>2, <2>1 DEF Restorable, StoredOrder
  <2> QED BY <2>1, <2>2, <2>3, <2>4, <2>5
<1>5. ASSUME NEW i \in Instruments, NEW r \in books'[i]
      PROVE  /\ r.id \in DOMAIN orders' /\ orders'[r.id].instrument = i
             /\ orders'[r.id].side = r.side /\ orders'[r.id].price = r.price
             /\ orders'[r.id].quantity = orders'[r.id].filled + r.remaining
             /\ orders'[r.id].status \in EP!OpenStatus
             /\ r.remaining > Tolerance
  <2>1. IsRestored(i, r)
    BY <1>3
  <2>2. r.id \in Restored /\ db_orders[r.id].instrument = i /\ r.side = db_orders[r.id].side
        /\ r.price = db_orders[r.id].price
        /\ r.remaining = db_orders[r.id].quantity - db_orders[r.id].filled
    BY <2>1 DEF IsRestored
  <2>3. PICK row, record : row = db_orders[r.id] /\ record = orders'[r.id]
    OBVIOUS
  <2>4. /\ record.quantity = row.quantity /\ record.filled = row.filled /\ row.filled \in Nat
        /\ row.quantity \in Nat /\ row.filled + Tolerance < row.quantity
        /\ r.remaining = row.quantity - row.filled
    BY <1>4, <2>2, <2>3
  <2>5. record.quantity = record.filled + r.remaining /\ r.remaining > Tolerance
    BY <2>4, ToleranceAssumption
  <2> QED BY <1>2, <1>4, <2>2, <2>3, <2>5
<1>6. EP!RecordsMatchBooks'
  <2>1. \A i \in Instruments : \A r \in books'[i] : EP!Agrees(i, r)'
    BY <1>5 DEF EP!Agrees
  <2>2. \A id \in DOMAIN orders' : \E r \in books'[orders'[id].instrument] : r.id = id
    BY <1>2, <1>3, <1>4
  <2> QED BY <1>3, <2>1, <2>2 DEF EP!RecordsMatchBooks
<1>7. EP!Consistent'
  <2>1. EP!Typed'
    BY RestartRows DEF RowsInv
  <2> QED BY <1>1, <1>6, <2>1 DEF EP!Consistent, EP!SubmitInProgress
<1>8. EP!Known(db_orders', orders')
  <2>1. ASSUME NEW id \in DOMAIN orders'
        PROVE  /\ orders'[id].filled <= orders'[id].quantity
               /\ db_orders[id].quantity = orders'[id].quantity
               /\ EP!Behind(db_orders[id].status, db_orders[id].filled, orders'[id])
    <3>1. PICK row, record : row = db_orders[id] /\ record = orders'[id]
      OBVIOUS
    <3>2. /\ record.quantity = row.quantity /\ record.filled = row.filled /\ row.filled \in Nat
          /\ row.quantity \in Nat /\ row.filled + Tolerance < row.quantity
          /\ ~EP!IsTerminal(row.status)
      BY <1>2, <1>4, <3>1
    <3>3. record.filled <= record.quantity /\ EP!Behind(row.status, row.filled, record)
      BY <3>2, ToleranceAssumption DEF EP!Behind
    <3> QED BY <3>1, <3>2, <3>3
  <2> QED BY <1>1, <2>1 DEF EP!Known
<1>9. EP!UpdatesBehind(result'.updates, orders')
  BY <1>1 DEF EP!UpdatesBehind
<1>10. FreshIds' <=> FreshIds
  BY <1>1 DEF FreshIds
<1>11. FreshIds => DOMAIN orders' \subseteq Range(issued) /\ DOMAIN db_orders' \subseteq Range(issued)
  BY <1>1, <1>2 DEF BehindInv
<1> QED BY <1>1, <1>7, <1>8, <1>9, <1>10, <1>11 DEF BehindInv

\* Every step keeps the table behind the records.
LEMMA BehindInvNext == DataInv /\ RowsInv /\ BehindInv /\ [Next]_vars => BehindInv'
<1> SUFFICES ASSUME DataInv, RowsInv, BehindInv, [Next]_vars PROVE BehindInv'
  OBVIOUS
<1>1. CASE EngineStep \/ SubmitRequest \/ \E e \in Feed : OnMarketEvent(e)
  BY <1>1, EngineStepBehind, SubmitRequestBehind, OnMarketEventBehind
<1>2. CASE PersistNewOrder
  BY <1>2, PersistNewOrderBehind
<1>3. CASE SaveUpdate
  BY <1>3, SaveUpdateBehind
<1>4. CASE \E snapshots \in Snapshots : Restart(snapshots)
  BY <1>4, RestartBehind
<1>5. CASE \/ ToFills \/ HandleFill \/ ToPositions \/ ToBalances \/ HandledResult \/ RunStrategy
           \/ ToRequests \/ DropRequest \/ FinishEvent
           \/ \E i \in Instruments : StorePosition(i)
           \/ \E asset \in Range(Base) \cup {Quote} : StoreBalance(asset)
  <2>1. UNCHANGED <<engineVars, db_orders, issued>>
        /\ phase # "execution" /\ phase' # "execution"
    BY <1>5 DEF ToFills, UpdatesDone, HandleFill, ToPositions, ToBalances, HandledResult,
                RunStrategy, ToRequests, DropRequest, FinishEvent, StorePosition, StoreBalance,
                dbVars, historyVars
  <2> QED BY <2>1, BehindInvStutter
<1>6. CASE \/ \E kind \in {"reset_strategy", "other"} : OnOtherEvent(kind)
           \/ Tick \/ \E value \in BOOLEAN : SetTradingPaused(value)
           \/ \E s \in Slots, value \in BOOLEAN : SetStrategyPaused(s, value)
  <2>1. UNCHANGED <<engineVars, db_orders, issued>>
        /\ phase # "execution" /\ phase' # "execution"
    BY <1>6 DEF OnOtherEvent, Tick, AtRead, SetTradingPaused, SetStrategyPaused, dbVars,
                historyVars
  <2> QED BY <2>1, BehindInvStutter
<1>7. CASE UNCHANGED vars
  BY <1>7, BehindInvStutter DEF vars, workVars, dbVars, historyVars
<1> QED BY <1>1, <1>2, <1>3, <1>4, <1>5, <1>6, <1>7 DEF Next, Work

(***************************************************************************)
(* As long as no order id was handed out twice, the order table never runs *)
(* ahead of the engine: what a row says of an order, its record has        *)
(* reached, in a process that recovered too.                               *)
(***************************************************************************)
THEOREM StoredOrdersAreNotAhead == Spec => []StoredOrdersNotAhead
<1>1. RowsInv /\ BehindInv => StoredOrdersNotAhead
  <2> SUFFICES ASSUME RowsInv, BehindInv, phase = "idle", FreshIds, NEW id \in DOMAIN orders
               PROVE  /\ id \in DOMAIN db_orders
                      /\ db_orders[id].filled <= orders[id].filled
                      /\ Engine!IsTerminal(db_orders[id].status)
                           => /\ orders[id].status = db_orders[id].status
                              /\ db_orders[id].filled \in
                                   (orders[id].filled - Tolerance)..orders[id].filled
    BY DEF StoredOrdersNotAhead
  <2>1. id \in DOMAIN db_orders
    BY DEF RowsInv
  <2>2. EP!Behind(db_orders[id].status, db_orders[id].filled, orders[id])
    BY <2>1 DEF BehindInv, EP!Known
  <2>3. db_orders[id].filled \in Nat /\ orders[id].filled \in Nat
    BY <2>1 DEF RowsInv, StoredOrder, EP!Typed, EP!OrderRecord
  <2>4. Engine!IsTerminal(db_orders[id].status) => EP!IsTerminal(db_orders[id].status)
    BY DEF Engine!IsTerminal, EP!IsTerminal, Engine!TerminalStatus, EP!TerminalStatus
  <2> QED BY <2>1, <2>2, <2>3, <2>4, ToleranceAssumption DEF EP!Behind
<1> QED BY <1>1, DataInvHolds, RowsInvInit, RowsInvNext, BehindInvInit, BehindInvNext, PTL DEF Spec

(***************************************************************************)
(* As long as no order id was handed out twice, books and records agree    *)
(* with each other in a recovered engine too, at every step of every call: *)
(* the books and the records that recovery builds from the order table     *)
(* agree, and the engine's own steps keep it so.  That they are what the   *)
(* stopped engine had is not claimed.                                      *)
(***************************************************************************)
THEOREM RecoveredBooksMatchHolds == Spec => []RecoveredBooksMatch
<1>1. BehindInv => RecoveredBooksMatch
  <2> SUFFICES ASSUME BehindInv, FreshIds PROVE Engine!RecordsMatchBooks
    BY DEF RecoveredBooksMatch
  <2>1. EP!RecordsMatchBooks
    BY DEF BehindInv, EP!Consistent
  <2>2. \A i \in Instruments : \A r \in books[i] : EP!Agrees(i, r) => Engine!Agrees(i, r)
    BY DEF Engine!Agrees, EP!Agrees, Engine!OpenStatus, EP!OpenStatus
  <2> QED BY <2>1, <2>2 DEF Engine!RecordsMatchBooks, EP!RecordsMatchBooks, Engine!OpenStatus,
                            EP!OpenStatus
<1> QED BY <1>1, DataInvHolds, RowsInvInit, RowsInvNext, BehindInvInit, BehindInvNext, PTL DEF Spec

----------------------------------------------------------------------------
(* Fills, positions and approved quantities                                *)

\* No position exceeds what was booked of all orders.
Covers(positions, h) ==
  \A i \in DOMAIN positions :
    positions[i].net \in Int /\ Abs(positions[i].net) <= SumFunctionOnSet(h, DOMAIN h)

\* The quantity of all rows.
Requested(rows) == SumFunctionOnSet([id \in DOMAIN rows |-> rows[id].quantity], DOMAIN rows)

\* The stored fills of an order, what was booked of it, its row and its quantity.
Stored(rows, h, fills) ==
  /\ fills \in Seq(EP!Fill)
  /\ \A n \in DOMAIN fills : fills[n].order_id \in DOMAIN rows
  /\ \A id \in DOMAIN rows : /\ EP!FillsFrom(fills, 1, id) <= h[id]
                             /\ h[id] <= rows[id].filled
                             /\ rows[id].filled <= rows[id].quantity

\* The loop over the updates has come to from.
Storing(rows, h, updates, fills, from) ==
  /\ EP!UpdatesAscend(rows, updates, from)
  /\ \A n \in DOMAIN fills : EP!Backed(rows, h, updates, fills, from, fills[n].order_id)

\* The loop over the fills has come to from.
Booking(rows, h, fills, from) ==
  /\ \A n \in DOMAIN fills : fills[n].order_id \in DOMAIN rows
  /\ \A id \in DOMAIN rows : h[id] + EP!FillsFrom(fills, from, id) <= rows[id].filled

(***************************************************************************)
(* The ledger behind the tables.  h is what was booked of each order, in   *)
(* this process and the ones before it; the tables need not show it, since *)
(* a restart loses positions that were not stored and PostgreSQL drops a   *)
(* fill whose id was used before.  What is booked of an order never        *)
(* exceeds its row, rows never exceed what was approved, and positions     *)
(* never exceed what was booked.                                           *)
(***************************************************************************)
Ledger(rows, h) ==
  /\ rows = db_orders /\ h \in [DOMAIN rows -> Nat]
  /\ Stored(rows, h, db_fills)
  /\ Covers(portfolio.positions, h) /\ Covers(db_positions, h)
  /\ Requested(rows) <= approved
  /\ phase = "execution" =>
       /\ EP!Accounted(rows, h)
       /\ serving # <<>> => Requested(rows) + serving[1].quantity <= approved
  /\ phase = "updates" => Storing(rows, h, result.updates, result.fills, k)
  /\ phase = "fills" => Booking(rows, h, result.fills, k)

ExposureInv ==
  /\ approved \in Nat /\ k \in Nat \ {0}
  /\ FreshIds => \E rows, h : Ledger(rows, h)

\* The stored fills of an order, as the engine's lemmas count them.
LEMMA FilledByRowsIs ==
  ASSUME db_fills \in Seq(EP!Fill), NEW id
  PROVE  FilledByRows(id) = EP!FillsFrom(db_fills, 1, id)
<1>1. {n \in DOMAIN db_fills : db_fills[n].order_id = id}
        = {m \in DOMAIN db_fills : m >= 1 /\ db_fills[m].order_id = id}
  <2>1. DOMAIN db_fills = 1..Len(db_fills) /\ Len(db_fills) \in Nat
    BY LenProperties
  <2> QED BY <2>1
<1>2. ASSUME NEW f, NEW S PROVE SumFunctionOnSet(f, S) = EP!SumFunctionOnSet(f, S)
  BY DEF SumFunctionOnSet, FoldFunctionOnSet, MapThenFoldSet,
         EP!SumFunctionOnSet, EP!FoldFunctionOnSet, EP!MapThenFoldSet
<1> QED BY <1>1, <1>2 DEF FilledByRows, EP!FillsFrom

\* What is booked once q more of an order is.
WithBooking(h, id, q) == [h EXCEPT ![id] = @ + q]

\* What was booked adds up to a quantity, and one more booking adds its own.
LEMMA BookedSum ==
  ASSUME NEW S, IsFiniteSet(S), NEW h \in [S -> Nat], NEW id \in S, NEW q \in Nat,
         NEW new, new = WithBooking(h, id, q)
  PROVE  /\ SumFunctionOnSet(h, S) \in Nat /\ new \in [S -> Nat]
         /\ SumFunctionOnSet(new, S) = SumFunctionOnSet(h, S) + q
<1>1. SumFunctionOnSet(h, S) \in Nat
  BY SumNat
<1>2. new \in [S -> Nat] /\ new[id] = h[id] + q /\ \A x \in S \ {id} : new[x] = h[x]
  BY DEF WithBooking
<1>3. \A x \in S : h[x] \in Int /\ new[x] \in Int
  BY <1>2
<1>4. SumFunctionOnSet(new, S) = SumFunctionOnSet(h, S) + (new[id] - h[id])
  BY <1>2, <1>3, SumChange
<1>5. new[id] - h[id] = q
  BY <1>2
<1> QED BY <1>1, <1>2, <1>4, <1>5

\* A step that leaves the tables, the portfolio and the approved quantity alone.
LEMMA ExposureStutter ==
  ASSUME ExposureInv, k' \in Nat \ {0},
         UNCHANGED <<db_orders, db_fills, approved, issued>>,
         \A h : Covers(portfolio.positions, h) /\ Covers(db_positions, h)
                  => Covers(portfolio'.positions, h) /\ Covers(db_positions', h),
         phase' \notin {"execution", "updates", "fills"}
  PROVE  ExposureInv'
<1>1. FreshIds' <=> FreshIds
  BY DEF FreshIds
<1>2. ASSUME NEW rows, NEW h, Ledger(rows, h) PROVE Ledger(rows, h)'
  BY <1>2 DEF Ledger
<1> QED BY <1>1, <1>2 DEF ExposureInv

\* Nothing is booked and nothing approved at the start.
LEMMA ExposureInit == Init => ExposureInv
<1> SUFFICES ASSUME Init PROVE ExposureInv
  OBVIOUS
<1>1. /\ db_orders = <<>> /\ db_fills = <<>> /\ portfolio.positions = <<>> /\ db_positions = <<>>
      /\ approved = 0 /\ issued = <<>> /\ k = 1 /\ phase = "idle"
  BY DEF Init, EmptyPortfolio
<1>2. PICK h : h = [id \in {} |-> 0]
  OBVIOUS
<1>3. h \in [DOMAIN <<>> -> Nat] /\ DOMAIN <<>> = {}
  BY <1>2
<1>4. Stored(<<>>, h, <<>>)
  BY EmptySeq DEF Stored
<1>5. Covers(<<>>, h)
  BY DEF Covers
<1>6. Requested(<<>>) = 0
  BY <1>3, SumEmpty DEF Requested
<1>7. Ledger(<<>>, h)
  BY <1>1, <1>3, <1>4, <1>5, <1>6 DEF Ledger
<1> QED BY <1>1, <1>7 DEF ExposureInv

\* A step of a call: the engine keeps account.
LEMMA EngineStepExposure ==
  ASSUME RowsInv, BehindInv, ExposureInv, EngineStep PROVE ExposureInv'
<1>1. /\ EP!Step /\ phase = "execution" /\ phase' = phase /\ serving' = serving
      /\ UNCHANGED <<k, portfolio, db_orders, db_fills, db_positions, approved, issued>>
  BY EngineStepIs DEF EngineStep, workVars, dbVars, historyVars
<1>2. FreshIds' <=> FreshIds
  BY <1>1 DEF FreshIds
<1>3. ASSUME FreshIds, NEW rows, NEW h, Ledger(rows, h) PROVE Ledger(rows, h)'
  <2>1. rows = db_orders /\ h \in [DOMAIN rows -> Nat] /\ EP!Accounted(rows, h)
    BY <1>1, <1>3 DEF Ledger
  <2>2. EP!AreRows(rows) /\ EP!IsBooking(h)
    BY <2>1, StoredRows DEF EP!IsBooking
  <2>3. EP!Consistent /\ EP!UpdatesBehind(result.updates, orders) /\ EP!Known(rows, orders)
    BY <1>3, <2>1 DEF BehindInv
  <2>4. EP!Accounted(rows, h)'
    BY <1>1, <2>1, <2>2, <2>3, EP!StepAccounted, EngineInputs, ToleranceAssumption
  <2> QED BY <1>1, <1>3, <2>4 DEF Ledger
<1> QED BY <1>1, <1>2, <1>3 DEF ExposureInv

\* Between results no more was booked of an order than its record says.
LEMMA BookedBehind ==
  ASSUME RowsInv, BehindInv, FreshIds, NEW rows, NEW h, Ledger(rows, h)
  PROVE  /\ EP!IsBooking(h) /\ DOMAIN h = DOMAIN rows
         /\ \A id \in DOMAIN orders : EP!Booked(h, id) <= orders[id].filled
<1>1. rows = db_orders /\ h \in [DOMAIN rows -> Nat] /\ Stored(rows, h, db_fills)
  BY DEF Ledger
<1>2. EP!IsBooking(h)
  BY <1>1 DEF EP!IsBooking
<1>3. ASSUME NEW id \in DOMAIN orders PROVE EP!Booked(h, id) <= orders[id].filled
  <2>1. orders[id].filled \in Nat
    BY DEF RowsInv, EP!Typed, EP!OrderRecord
  <2>2. CASE id \in DOMAIN rows
    <3>1. h[id] \in Nat /\ rows[id].filled \in Nat /\ h[id] <= rows[id].filled
      BY <1>1, <2>2, StoredRows DEF Stored, EP!AreRows
    <3>2. rows[id].filled <= orders[id].filled
      BY <1>1, <2>2 DEF BehindInv, EP!Known, EP!Behind
    <3>3. EP!Booked(h, id) = h[id]
      BY <1>1, <2>2 DEF EP!Booked
    <3> QED BY <2>1, <3>1, <3>2, <3>3
  <2>3. CASE id \notin DOMAIN rows
    BY <1>1, <2>1, <2>3 DEF EP!Booked
  <2> QED BY <2>2, <2>3
<1> QED BY <1>1, <1>2, <1>3

\* An approved request is submitted with a new id.
LEMMA SubmitRequestExposure ==
  ASSUME DataInv, RowsInv, BehindInv, ExposureInv, SubmitRequest PROVE ExposureInv'
<1>1. PICK request, id : request = Head(pending) /\ id = next_order_id
  OBVIOUS
<1>2. request \in Request
  <2>1. pending \in Seq(Request) /\ pending # <<>>
    BY DEF DataInv, SubmitRequest
  <2> QED BY <1>1, <2>1, HeadTailProperties
<1>3. /\ EP!Submit(request) /\ phase' = "execution" /\ serving' = <<request>>
      /\ issued' = Append(issued, id) /\ approved' = approved + request.quantity
      /\ UNCHANGED <<k, portfolio, db_orders, db_fills, db_positions>>
  BY <1>1, EngineSubmit DEF SubmitRequest, dbVars
<1>4. id \in Nat /\ issued \in Seq(Nat) /\ request.quantity \in Nat
  BY <1>1, <1>2 DEF RowsInv, EP!Typed, EP!OrderIds, BehindInv, Request
<1>5. approved' \in Nat
  BY <1>3, <1>4 DEF ExposureInv
<1>6. FreshIds' => FreshIds /\ id \notin Range(issued)
  BY <1>3, <1>4, FreshId DEF FreshIds
<1>7. ASSUME FreshIds, id \notin Range(issued), NEW rows, NEW h, Ledger(rows, h)
      PROVE  Ledger(rows, h)'
  <2>1. rows = db_orders /\ h \in [DOMAIN rows -> Nat] /\ Requested(rows) <= approved
    BY <1>7 DEF Ledger
  <2>2. /\ EP!IsBooking(h) /\ DOMAIN h = DOMAIN rows
        /\ \A x \in DOMAIN orders : EP!Booked(h, x) <= orders[x].filled
    BY <1>7, BookedBehind
  <2>3. id \notin DOMAIN orders /\ id \notin DOMAIN rows /\ id \notin DOMAIN h
    BY <1>7, <2>1, <2>2 DEF BehindInv
  <2>4. request \in EP!Request /\ EP!Typed
    BY <1>2, RowsOfEngine DEF RowsInv
  <2>5. EP!Accounted(rows, h)'
    BY <1>1, <1>3, <2>2, <2>3, <2>4, EP!CallAccounted, EngineInputs, ToleranceAssumption
  <2>6. Requested(rows) \in Int
    <3>1. IsFiniteSet(DOMAIN rows) /\ \A x \in DOMAIN rows : rows[x].quantity \in Int
      BY <2>1, StoredRows DEF RowsInv, EP!AreRows
    <3> QED BY <3>1, SumInt DEF Requested
  <2>7. /\ Requested(rows) <= approved'
        /\ Requested(rows) + serving'[1].quantity <= approved'
    BY <1>3, <1>4, <2>1, <2>6 DEF ExposureInv
  <2> QED BY <1>3, <1>7, <2>5, <2>7 DEF Ledger
<1> QED BY <1>3, <1>5, <1>6, <1>7 DEF ExposureInv

\* A market event is handed to the engine.
LEMMA OnMarketEventExposure ==
  ASSUME DataInv, RowsInv, BehindInv, ExposureInv, NEW e \in Feed, OnMarketEvent(e)
  PROVE  ExposureInv'
<1>1. /\ EP!ProcessMarketEvent(e) /\ phase = "idle" /\ phase' = "execution"
      /\ UNCHANGED <<serving, k, portfolio, db_orders, db_fills, db_positions, issued, approved>>
  BY EngineMarketEvent DEF OnMarketEvent, dbVars
<1>2. serving' = <<>> /\ (FreshIds' <=> FreshIds)
  BY <1>1 DEF DataInv, Settled, FreshIds
<1>3. ASSUME FreshIds, NEW rows, NEW h, Ledger(rows, h) PROVE Ledger(rows, h)'
  <2>1. /\ EP!IsBooking(h) /\ EP!Typed
        /\ \A x \in DOMAIN orders : EP!Booked(h, x) <= orders[x].filled
    BY <1>3, BookedBehind DEF RowsInv
  <2>2. EP!Accounted(rows, h)'
    BY <1>1, <2>1, EP!CallAccounted, EngineInputs, ToleranceAssumption
  <2> QED BY <1>1, <1>2, <1>3, <2>2 DEF Ledger
<1> QED BY <1>1, <1>2, <1>3 DEF ExposureInv

\* The call has returned: its fills are backed by its updates.
LEMMA ReturnedStoring ==
  ASSUME NEW rows, NEW h, EP!Accounted(rows, h), pc = "idle"
  PROVE  Storing(rows, h, result.updates, result.fills, 1)
BY DEF EP!Accounted, EP!FillsCovered, Storing

\* A row of a new order: nothing was booked of it.
LEMMA NewRowLedger ==
  ASSUME NEW rows, IsFiniteSet(DOMAIN rows), EP!AreRows(rows), NEW h \in [DOMAIN rows -> Nat],
         NEW id, id \notin DOMAIN rows, NEW q \in Nat,
         NEW new, DOMAIN new = DOMAIN rows \cup {id},
         \A x \in DOMAIN rows : new[x] = rows[x],
         new[id].filled = 0, new[id].quantity = q
  PROVE  \E g \in [DOMAIN new -> Nat] :
           /\ \A x : EP!Booked(g, x) = EP!Booked(h, x)
           /\ SumFunctionOnSet(g, DOMAIN g) = SumFunctionOnSet(h, DOMAIN h)
           /\ Requested(new) = Requested(rows) + q
           /\ \A fills : Stored(rows, h, fills) => Stored(new, g, fills)
<1>1. PICK S, all : S = DOMAIN rows /\ all = DOMAIN rows \cup {id}
  OBVIOUS
<1>2. PICK g : g = [x \in all |-> IF x = id THEN 0 ELSE h[x]]
  OBVIOUS
<1>3. /\ g \in [all -> Nat] /\ g[id] = 0 /\ \A x \in S : g[x] = h[x] /\ x # id
      /\ DOMAIN g = all /\ DOMAIN h = S
  BY <1>1, <1>2
<1>4. \A x : EP!Booked(g, x) = EP!Booked(h, x)
  BY <1>1, <1>3 DEF EP!Booked
<1>5. SumFunctionOnSet(g, all) = SumFunctionOnSet(h, S)
  <2>1. SumFunctionOnSet(g, S) = SumFunctionOnSet(h, S) /\ SumFunctionOnSet(h, S) \in Int
    <3>1. \A x \in S : h[x] \in Int /\ g[x] = h[x]
      BY <1>1, <1>3
    <3> QED BY <1>1, <3>1, SumEqual, SumInt
  <2>2. \A x \in S \cup {id} : g[x] \in Int
    BY <1>1, <1>3
  <2>3. SumFunctionOnSet(g, S \cup {id}) = g[id] + SumFunctionOnSet(g, S)
    BY <1>1, <2>2, SumAdd
  <2> QED BY <1>1, <1>3, <2>1, <2>3
<1>6. Requested(new) = Requested(rows) + q
  <2>1. PICK f, f1 : /\ f = [x \in DOMAIN rows |-> rows[x].quantity]
                     /\ f1 = [x \in DOMAIN new |-> new[x].quantity]
    OBVIOUS
  <2>2. /\ \A x \in S : f[x] \in Int /\ f1[x] = f[x]
        /\ f1[id] = q
    BY <1>1, <2>1 DEF EP!AreRows
  <2>3. SumFunctionOnSet(f1, S) = SumFunctionOnSet(f, S) /\ SumFunctionOnSet(f, S) \in Int
    BY <1>1, <2>2, SumEqual, SumInt
  <2>4. \A x \in S \cup {id} : f1[x] \in Int
    BY <2>2
  <2>5. SumFunctionOnSet(f1, S \cup {id}) = f1[id] + SumFunctionOnSet(f1, S)
    BY <1>1, <2>4, SumAdd
  <2>6. Requested(new) = SumFunctionOnSet(f1, S \cup {id}) /\ Requested(rows) = SumFunctionOnSet(f, S)
    BY <1>1, <2>1 DEF Requested
  <2> QED BY <2>2, <2>3, <2>5, <2>6
<1>7. ASSUME NEW fills, Stored(rows, h, fills) PROVE Stored(new, g, fills)
  <2>1. EP!FillsFrom(fills, 1, id) = 0
    <3>1. \A m \in DOMAIN fills : fills[m].order_id # id
      BY <1>7 DEF Stored
    <3> QED BY <3>1, EP!FillsFromNone, EngineInputs, ToleranceAssumption
  <2>2. ASSUME NEW x \in DOMAIN new
        PROVE  /\ EP!FillsFrom(fills, 1, x) <= g[x] /\ g[x] <= new[x].filled
               /\ new[x].filled <= new[x].quantity
    <3>1. CASE x = id
      BY <1>3, <2>1, <3>1
    <3>2. CASE x # id
      <4>1. x \in DOMAIN rows /\ new[x] = rows[x] /\ g[x] = h[x]
        BY <1>1, <1>3, <2>2, <3>2
      <4> QED BY <1>7, <4>1 DEF Stored
    <3> QED BY <3>1, <3>2
  <2> QED BY <1>7, <2>2 DEF Stored
<1> QED BY <1>1, <1>3, <1>4, <1>5, <1>6, <1>7

\* The result of a submit has returned and its row is written.
LEMMA PersistNewOrderExposure ==
  ASSUME DataInv, RowsInv, BehindInv, ExposureInv, PersistNewOrder PROVE ExposureInv'
<1>1. /\ phase = "execution" /\ pc = "idle" /\ phase' = "updates" /\ UNCHANGED engineVars
      /\ UNCHANGED <<portfolio, db_fills, db_positions, issued, approved, serving>> /\ k' = 1
      /\ db_orders' = IF IsNewOrder THEN SaveOrder(db_orders, result.order_id, serving[1])
                                    ELSE db_orders
  BY DEF PersistNewOrder, historyVars
<1>2. result' = result /\ (FreshIds' <=> FreshIds)
  BY <1>1 DEF engineVars, FreshIds
<1>3. ASSUME FreshIds, NEW rows, NEW h, Ledger(rows, h) PROVE \E new, g : Ledger(new, g)'
  <2>1. /\ rows = db_orders /\ h \in [DOMAIN rows -> Nat] /\ Stored(rows, h, db_fills)
        /\ Covers(portfolio.positions, h) /\ Covers(db_positions, h)
        /\ Requested(rows) <= approved /\ EP!Accounted(rows, h)
        /\ serving # <<>> => Requested(rows) + serving[1].quantity <= approved
    BY <1>1, <1>3 DEF Ledger
  <2>2. Storing(rows, h, result.updates, result.fills, 1)
    BY <1>1, <2>1, ReturnedStoring
  <2>3. CASE ~IsNewOrder
    <3>1. db_orders' = db_orders
      BY <1>1, <2>3
    <3>2. Ledger(rows, h)'
      BY <1>1, <1>2, <2>1, <2>2, <3>1 DEF Ledger
    <3> QED BY <3>2
  <2>4. CASE IsNewOrder
    <3>1. PICK id, q, new : /\ id = result.order_id /\ q = serving[1].quantity /\ new = db_orders'
      OBVIOUS
    <3>2. id \notin DOMAIN rows /\ serving # <<>>
      BY <2>1, <2>4, <3>1 DEF IsNewOrder
    <3>3. q \in Nat
      <4>1. PICK r \in Request : serving = <<r>>
        BY <3>2 DEF DataInv
      <4> QED BY <3>1, <4>1 DEF Request
    <3>4. /\ DOMAIN new = DOMAIN rows \cup {id} /\ \A x \in DOMAIN rows : new[x] = rows[x]
          /\ new[id].filled = 0 /\ new[id].quantity = q
      BY <1>1, <2>1, <2>4, <3>1, <3>2 DEF SaveOrder, Set
    <3>5. IsFiniteSet(DOMAIN rows) /\ EP!AreRows(rows)
      BY <2>1, StoredRows DEF RowsInv
    <3>6. PICK g \in [DOMAIN new -> Nat] :
           /\ \A x : EP!Booked(g, x) = EP!Booked(h, x)
           /\ SumFunctionOnSet(g, DOMAIN g) = SumFunctionOnSet(h, DOMAIN h)
           /\ Requested(new) = Requested(rows) + q
           /\ \A fills : Stored(rows, h, fills) => Stored(new, g, fills)
      BY <2>1, <3>2, <3>3, <3>4, <3>5, NewRowLedger
    <3>7. Covers(portfolio.positions, g) /\ Covers(db_positions, g)
      BY <2>1, <3>6 DEF Covers
    <3>8. PICK updates, fills : updates = result.updates /\ fills = result.fills
      OBVIOUS
    <3>9. updates \in Seq(EP!OrderUpdate)
      BY <3>8 DEF RowsInv, EP!Typed
    <3>10. ASSUME NEW n \in DOMAIN updates PROVE updates[n].filled \in Nat
      <4>1. updates[n] \in EP!OrderUpdate
        BY <3>9, <3>10, ElementOfSeq
      <4> QED BY <4>1 DEF EP!OrderUpdate
    <3>11. EP!UpdatesAscend(new, updates, 1)
      BY <2>2, <3>4, <3>8, <3>10 DEF Storing, EP!UpdatesAscend
    <3>12. \A x : EP!Total(g, fills, x) = EP!Total(h, fills, x)
      BY <3>6 DEF EP!Total
    <3>13. ASSUME NEW x, EP!Backed(rows, h, updates, fills, 1, x)
           PROVE  EP!Backed(new, g, updates, fills, 1, x)
      BY <3>4, <3>12, <3>13 DEF EP!Backed
    <3>14. Storing(new, g, updates, fills, 1)
      BY <2>2, <3>8, <3>11, <3>13 DEF Storing
    <3>15. Requested(new) <= approved
      BY <2>1, <3>1, <3>2, <3>6
    <3>16. Ledger(new, g)'
      BY <1>1, <1>2, <2>1, <3>1, <3>6, <3>7, <3>8, <3>14, <3>15 DEF Ledger
    <3> QED BY <3>16
  <2> QED BY <2>3, <2>4
<1> QED BY <1>1, <1>2, <1>3 DEF ExposureInv

\* One more update is stored: the rows go up and what backs the fills stays.
LEMMA StoreUpdate ==
  ASSUME NEW rows, NEW h, NEW updates \in Seq(EP!OrderUpdate), NEW fills, NEW n \in DOMAIN updates,
         Storing(rows, h, updates, fills, n), updates[n].order_id \in DOMAIN rows,
         NEW new, DOMAIN new = DOMAIN rows,
         new[updates[n].order_id].filled = updates[n].filled,
         \A x \in DOMAIN rows : x # updates[n].order_id => new[x] = rows[x],
         EP!AreRows(rows), \A x : EP!Total(h, fills, x) \in Nat
  PROVE  /\ Storing(new, h, updates, fills, n + 1)
         /\ rows[updates[n].order_id].filled <= updates[n].filled
<1>1. PICK id, f : id = updates[n].order_id /\ f = updates[n].filled
  OBVIOUS
<1>2. n \in Nat /\ \A m \in DOMAIN updates : m \in Nat
  BY LenProperties
<1>3. rows[id].filled <= f
  BY <1>1, <1>2 DEF Storing, EP!UpdatesAscend
<1>4. ASSUME NEW m \in DOMAIN updates, m >= n + 1
      PROVE  /\ updates[m].order_id \in DOMAIN new =>
                  new[updates[m].order_id].filled <= updates[m].filled
             /\ \A l \in DOMAIN updates :
                  l < m /\ updates[l].order_id = updates[m].order_id
                    => updates[l].filled <= updates[m].filled
  <2>1. m >= n /\ n < m
    BY <1>2, <1>4
  <2>2. /\ updates[m].order_id \in DOMAIN rows =>
                  rows[updates[m].order_id].filled <= updates[m].filled
        /\ \A l \in DOMAIN updates :
                  l < m /\ updates[l].order_id = updates[m].order_id
                    => updates[l].filled <= updates[m].filled
    BY <2>1 DEF Storing, EP!UpdatesAscend
  <2>3. CASE updates[m].order_id = id
    BY <1>1, <2>1, <2>2, <2>3
  <2>4. CASE updates[m].order_id # id
    BY <1>1, <2>2, <2>4
  <2> QED BY <2>3, <2>4
<1>5. EP!UpdatesAscend(new, updates, n + 1)
  BY <1>4 DEF EP!UpdatesAscend
<1>6. ASSUME NEW x, EP!Backed(rows, h, updates, fills, n, x)
      PROVE  EP!Backed(new, h, updates, fills, n + 1, x)
  <2>1. PICK t \in Nat : t = EP!Total(h, fills, x)
    OBVIOUS
  <2>2. CASE \E m \in DOMAIN updates : m >= n /\ updates[m].order_id = x /\ t <= updates[m].filled
    <3>1. PICK m \in DOMAIN updates : m >= n /\ updates[m].order_id = x /\ t <= updates[m].filled
      BY <2>2
    <3>2. CASE m = n
      BY <1>1, <2>1, <3>1, <3>2 DEF EP!Backed
    <3>3. CASE m # n
      <4>1. m >= n + 1
        BY <1>2, <3>1, <3>3
      <4> QED BY <2>1, <3>1, <4>1 DEF EP!Backed
    <3> QED BY <3>2, <3>3
  <2>3. CASE x \in DOMAIN rows /\ t <= rows[x].filled
    <3>1. CASE x = id
      <4>1. f \in Nat /\ rows[id].filled \in Nat
        <5>1. updates[n] \in EP!OrderUpdate
          BY ElementOfSeq
        <5> QED BY <1>1, <5>1 DEF EP!OrderUpdate, EP!AreRows
      <4>2. t <= f
        BY <1>3, <2>3, <3>1, <4>1
      <4> QED BY <1>1, <2>1, <3>1, <4>2 DEF EP!Backed
    <3>2. CASE x # id
      BY <1>1, <2>1, <2>3, <3>2 DEF EP!Backed
    <3> QED BY <3>1, <3>2
  <2> QED BY <1>6, <2>1, <2>2, <2>3 DEF EP!Backed
<1> QED BY <1>1, <1>3, <1>5, <1>6 DEF Storing

\* An update is stored.
LEMMA SaveUpdateExposure ==
  ASSUME RowsInv, BehindInv, ExposureInv, SaveUpdate PROVE ExposureInv'
<1>1. PICK update \in EP!OrderUpdate :
        /\ update = result.updates[k] /\ update.order_id \in DOMAIN db_orders
        /\ update.order_id \in DOMAIN orders
        /\ db_orders' = Set(db_orders, update.order_id,
                            UpdatedRow(db_orders[update.order_id], update))
  BY SaveUpdateEffect
<1>2. PICK id, new : id = update.order_id /\ new = db_orders'
  OBVIOUS
<1>3. /\ phase = "updates" /\ phase' = "updates" /\ k \in DOMAIN result.updates /\ k' = k + 1
      /\ UNCHANGED <<engineVars, portfolio, db_fills, db_positions, issued, approved>>
  BY DEF SaveUpdate, historyVars
<1>4. result' = result /\ (FreshIds' <=> FreshIds)
  BY <1>3 DEF engineVars, FreshIds
<1>5. k' \in Nat \ {0}
  BY <1>3 DEF ExposureInv
<1>6. ASSUME FreshIds, NEW rows, NEW h, Ledger(rows, h) PROVE Ledger(new, h)'
  <2>1. /\ rows = db_orders /\ h \in [DOMAIN rows -> Nat] /\ Stored(rows, h, db_fills)
        /\ Requested(rows) <= approved
        /\ Storing(rows, h, result.updates, result.fills, k)
    BY <1>3, <1>6 DEF Ledger
  <2>2. PICK updates, fills, n : updates = result.updates /\ fills = result.fills /\ n = k
    OBVIOUS
  <2>3. updates \in Seq(EP!OrderUpdate) /\ fills \in Seq(EP!Fill)
    BY <2>2 DEF RowsInv, EP!Typed
  <2>4. /\ DOMAIN new = DOMAIN rows /\ new[id].filled = update.filled
        /\ new[id].quantity = rows[id].quantity
        /\ \A x \in DOMAIN rows : x # id => new[x] = rows[x]
    <3>1. PICK row : row = UpdatedRow(rows[id], update)
      OBVIOUS
    <3>2. row.filled = update.filled /\ row.quantity = rows[id].quantity
      BY <1>1, <1>2, <2>1, <3>1, UpdatedRowFacts DEF RowsInv
    <3> QED BY <1>1, <1>2, <2>1, <3>1, <3>2 DEF Set
  <2>5. EP!AreRows(rows) /\ IsFiniteSet(DOMAIN rows)
    BY <2>1, StoredRows DEF RowsInv
  <2>6. \A x : EP!Total(h, fills, x) \in Nat
    <3>1. EP!IsBooking(h)
      BY <2>1 DEF EP!IsBooking
    <3> QED BY <2>3, <3>1, EP!TotalNat, EngineInputs, ToleranceAssumption
  <2>7. n \in DOMAIN updates /\ updates[n] = update /\ id \in DOMAIN rows
    BY <1>1, <1>2, <1>3, <2>1, <2>2
  <2>8. Storing(new, h, updates, fills, n + 1) /\ rows[id].filled <= update.filled
    <3>1. updates[n].order_id = id /\ updates[n].filled = update.filled
      BY <1>2, <2>7
    <3>2. /\ Storing(rows, h, updates, fills, n) /\ updates[n].order_id \in DOMAIN rows
          /\ DOMAIN new = DOMAIN rows /\ new[updates[n].order_id].filled = updates[n].filled
          /\ \A x \in DOMAIN rows : x # updates[n].order_id => new[x] = rows[x]
      BY <2>1, <2>2, <2>4, <2>7, <3>1
    <3>3. n \in DOMAIN updates /\ EP!AreRows(rows)
      BY <2>5, <2>7
    <3>4. /\ Storing(new, h, updates, fills, n + 1)
          /\ rows[updates[n].order_id].filled <= updates[n].filled
      BY <2>3, <2>6, <3>2, <3>3, StoreUpdate, ZenonT(60)
    <3> QED BY <3>1, <3>4
  <2>9. update.filled <= rows[id].quantity /\ update.filled \in Nat
    <3>1. EP!UpdatesBehind(result.updates, orders) /\ EP!Known(rows, orders)
      BY <1>6, <2>1 DEF BehindInv
    <3>2. update.filled <= orders[id].filled
      BY <1>1, <1>2, <1>3, <3>1 DEF EP!UpdatesBehind, EP!Behind
    <3>3. orders[id].filled <= orders[id].quantity /\ rows[id].quantity = orders[id].quantity
      BY <1>1, <1>2, <2>7, <3>1 DEF EP!Known
    <3>4. update.filled \in Nat /\ orders[id].filled \in Nat /\ orders[id].quantity \in Nat
      BY <1>1, <1>2 DEF EP!OrderUpdate, RowsInv, EP!Typed, EP!OrderRecord
    <3> QED BY <3>2, <3>3, <3>4
  <2>10. Stored(new, h, db_fills)
    <3>1. ASSUME NEW x \in DOMAIN new
          PROVE  /\ EP!FillsFrom(db_fills, 1, x) <= h[x] /\ h[x] <= new[x].filled
                 /\ new[x].filled <= new[x].quantity
      <4>1. CASE x = id
        <5>1. h[id] \in Nat /\ rows[id].filled \in Nat /\ h[id] <= rows[id].filled
              /\ EP!FillsFrom(db_fills, 1, id) <= h[id]
          BY <2>1, <2>5, <2>7 DEF Stored, EP!AreRows
        <5> QED BY <2>4, <2>8, <2>9, <4>1, <5>1
      <4>2. CASE x # id
        BY <2>1, <2>4, <4>2 DEF Stored
      <4> QED BY <4>1, <4>2
    <3> QED BY <2>1, <2>4, <3>1 DEF Stored
  <2>11. Requested(new) = Requested(rows)
    <3>1. [x \in DOMAIN new |-> new[x].quantity] = [x \in DOMAIN rows |-> rows[x].quantity]
      BY <2>4
    <3> QED BY <2>4, <3>1 DEF Requested
  <2> QED BY <1>2, <1>3, <1>4, <1>6, <2>1, <2>2, <2>4, <2>8, <2>10, <2>11 DEF Ledger
<1> QED BY <1>3, <1>4, <1>5, <1>6 DEF ExposureInv

\* All updates are stored: the rows cover the fills.
LEMMA ToFillsExposure == ASSUME RowsInv, ExposureInv, ToFills PROVE ExposureInv'
<1>1. /\ phase = "updates" /\ phase' = "fills" /\ k > Len(result.updates) /\ k' = 1
      /\ UNCHANGED <<engineVars, portfolio, dbVars, issued, approved>>
  BY DEF ToFills, UpdatesDone, historyVars
<1>2. /\ result' = result /\ (FreshIds' <=> FreshIds)
      /\ UNCHANGED <<db_orders, db_fills, db_positions>>
  BY <1>1 DEF engineVars, FreshIds, dbVars
<1>3. ASSUME FreshIds, NEW rows, NEW h, Ledger(rows, h) PROVE Ledger(rows, h)'
  <2>1. PICK updates, fills, n : updates = result.updates /\ fills = result.fills /\ n = k
    OBVIOUS
  <2>2. /\ h \in [DOMAIN rows -> Nat] /\ Stored(rows, h, db_fills)
        /\ Storing(rows, h, updates, fills, n)
    BY <1>1, <1>3, <2>1 DEF Ledger
  <2>3. \A m \in DOMAIN updates : ~(m >= n)
    <3>1. updates \in Seq(EP!OrderUpdate)
      BY <2>1 DEF RowsInv, EP!Typed
    <3>2. Len(updates) \in Nat /\ DOMAIN updates = 1..Len(updates) /\ n \in Nat /\ n > Len(updates)
      BY <1>1, <2>1, <3>1, LenProperties DEF ExposureInv
    <3> QED BY <3>2
  <2>4. ASSUME NEW m \in DOMAIN fills
        PROVE  /\ fills[m].order_id \in DOMAIN rows
               /\ EP!Total(h, fills, fills[m].order_id) <= rows[fills[m].order_id].filled
    BY <2>2, <2>3 DEF Storing, EP!Backed
  <2>5. ASSUME NEW id \in DOMAIN rows
        PROVE  h[id] + EP!FillsFrom(fills, 1, id) <= rows[id].filled
    <3>1. CASE \E m \in DOMAIN fills : fills[m].order_id = id
      <4>1. EP!Total(h, fills, id) <= rows[id].filled
        BY <2>4, <3>1
      <4>2. EP!Total(h, fills, id) = h[id] + EP!FillsFrom(fills, 1, id)
        BY <2>2, <2>5 DEF EP!Total, EP!Booked
      <4> QED BY <4>1, <4>2
    <3>2. CASE \A m \in DOMAIN fills : fills[m].order_id # id
      <4>1. EP!FillsFrom(fills, 1, id) = 0
        BY <3>2, EP!FillsFromNone, EngineInputs, ToleranceAssumption
      <4>2. h[id] \in Nat /\ h[id] <= rows[id].filled
        BY <2>2, <2>5 DEF Stored
      <4> QED BY <4>1, <4>2
    <3> QED BY <3>1, <3>2
  <2>6. Booking(rows, h, fills, 1)
    BY <2>4, <2>5 DEF Booking
  <2> QED BY <1>1, <1>2, <1>3, <2>1, <2>6 DEF Ledger
<1> QED BY <1>1, <1>2, <1>3 DEF ExposureInv

\* A fill has moved the position of i.
Moved(before, after, i, fill) ==
  /\ DOMAIN after = DOMAIN before \cup {i}
  /\ after[i].net = At(before, i, NoPosition).net + Signed(fill)
  /\ \A j \in DOMAIN before : j # i => after[j] = before[j]

\* A booked fill moves its position by no more than its quantity.
LEMMA CoversFill ==
  ASSUME NEW h, NEW g, NEW total \in Nat, total = SumFunctionOnSet(h, DOMAIN h),
         NEW fill \in EP!Fill, SumFunctionOnSet(g, DOMAIN g) = total + fill.quantity,
         NEW before, Covers(before, h)
  PROVE  /\ Covers(before, g)
         /\ \A after, i : Moved(before, after, i, fill) => Covers(after, g)
<1>1. PICK q : q = fill.quantity
  OBVIOUS
<1>2. q \in Nat /\ Signed(fill) \in {q, 0 - q}
  BY <1>1 DEF EP!Fill, Signed
<1>3. ASSUME NEW n \in Int, Abs(n) <= total
      PROVE  /\ Abs(n) <= total + q
             /\ n + q \in Int /\ Abs(n + q) <= total + q
             /\ n + (0 - q) \in Int /\ Abs(n + (0 - q)) <= total + q
  BY <1>2, <1>3 DEF Abs
<1>4. \A j \in DOMAIN before : before[j].net \in Int /\ Abs(before[j].net) <= total
  BY DEF Covers
<1>5. ASSUME NEW j \in DOMAIN before
      PROVE  before[j].net \in Int /\ Abs(before[j].net) <= total + q
  BY <1>3, <1>4
<1>6. Covers(before, g)
  BY <1>1, <1>5 DEF Covers
<1>7. ASSUME NEW after, NEW i, Moved(before, after, i, fill)
      PROVE  Covers(after, g)
  <2>0. /\ DOMAIN after = DOMAIN before \cup {i}
        /\ after[i].net = At(before, i, NoPosition).net + Signed(fill)
        /\ \A j \in DOMAIN before : j # i => after[j] = before[j]
    BY <1>7 DEF Moved
  <2>1. PICK n : n = At(before, i, NoPosition).net
    OBVIOUS
  <2>2. n \in Int /\ Abs(n) <= total
    <3>1. CASE i \in DOMAIN before
      BY <1>4, <2>1, <3>1 DEF At
    <3>2. CASE i \notin DOMAIN before
      <4>1. n = 0
        BY <2>1, <3>2, NoPositionFacts DEF At
      <4> QED BY <4>1 DEF Abs
    <3> QED BY <3>1, <3>2
  <2>3. after[i].net \in Int /\ Abs(after[i].net) <= total + q
    BY <1>2, <1>3, <2>0, <2>1, <2>2
  <2>4. ASSUME NEW j \in DOMAIN after
        PROVE  after[j].net \in Int /\ Abs(after[j].net) <= total + q
    BY <1>5, <2>0, <2>3
  <2> QED BY <1>1, <2>4 DEF Covers
<1> QED BY <1>6, <1>7

\* One more fill is booked: what the rows still cover is less by it.
LEMMA BookFill ==
  ASSUME NEW rows, NEW h \in [DOMAIN rows -> Nat], EP!AreRows(rows),
         NEW fills \in Seq(EP!Fill), NEW n \in DOMAIN fills, Booking(rows, h, fills, n),
         NEW fill \in EP!Fill, fill = fills[n],
         NEW g, g = WithBooking(h, fill.order_id, fill.quantity),
         NEW stored, Stored(rows, h, stored),
         NEW after, after = stored \/ after = Append(stored, fill)
  PROVE  /\ Booking(rows, g, fills, n + 1)
         /\ Stored(rows, g, after)
<1>2. PICK y, q : y = fill.order_id /\ q = fill.quantity
  OBVIOUS
<1>3. q \in Nat /\ y \in DOMAIN rows
  BY <1>2 DEF EP!Fill, Booking
<1>4. stored \in Seq(EP!Fill) /\ n \in Nat
  BY LenProperties DEF Stored
<1>5. ASSUME NEW id
      PROVE  /\ EP!FillsFrom(fills, n, id) = EP!FillsFrom(fills, n + 1, id) + EP!Part(fill, id)
             /\ EP!FillsFrom(fills, n + 1, id) \in Nat /\ EP!FillsFrom(stored, 1, id) \in Nat
             /\ EP!Part(fill, id) = IF id = y THEN q ELSE 0
             /\ EP!FillsFrom(after, 1, id) <= EP!FillsFrom(stored, 1, id) + EP!Part(fill, id)
  <2>1. EP!FillsFrom(fills, n, id) = EP!FillsFrom(fills, n + 1, id) + EP!Part(fill, id)
    BY EP!FillsFromNext, EngineInputs, ToleranceAssumption
  <2>2. EP!FillsFrom(fills, n + 1, id) \in Nat /\ EP!FillsFrom(stored, 1, id) \in Nat
    <3>1. n + 1 \in Nat /\ 1 \in Nat
      BY <1>4
    <3> QED BY <1>4, <3>1, EP!FillsFromNat, EngineInputs, ToleranceAssumption
  <2>3. EP!Part(fill, id) = IF id = y THEN q ELSE 0
    BY <1>2 DEF EP!Part
  <2>4. EP!FillsFrom(Append(stored, fill), 1, id) = EP!FillsFrom(stored, 1, id) + EP!Part(fill, id)
    <3>1. Len(stored) \in Nat
      BY <1>4, LenProperties
    <3>2. 1 \in Nat /\ 1 <= Len(stored) + 1
      BY <3>1
    <3> QED BY <1>4, <3>2, EP!FillsFromAppend, EngineInputs, ToleranceAssumption
  <2>5. CASE after = stored
    BY <1>3, <2>1, <2>2, <2>3, <2>5
  <2>6. CASE after = Append(stored, fill)
    BY <1>3, <2>1, <2>2, <2>3, <2>4, <2>6
  <2> QED BY <2>5, <2>6
<1>6. ASSUME NEW id \in DOMAIN rows
      PROVE  /\ g[id] \in Nat /\ h[id] \in Nat
             /\ g[id] = h[id] + (IF id = y THEN q ELSE 0)
  BY <1>2, <1>3 DEF WithBooking
<1>7. ASSUME NEW id \in DOMAIN rows
      PROVE  /\ g[id] + EP!FillsFrom(fills, n + 1, id) <= rows[id].filled
             /\ EP!FillsFrom(after, 1, id) <= g[id]
             /\ g[id] <= rows[id].filled /\ rows[id].filled <= rows[id].quantity
  <2>1. /\ h[id] + EP!FillsFrom(fills, n, id) <= rows[id].filled
        /\ EP!FillsFrom(stored, 1, id) <= h[id]
        /\ rows[id].filled \in Nat /\ rows[id].filled <= rows[id].quantity
    BY <1>7 DEF Booking, Stored, EP!AreRows
  <2>2. PICK a, b, c, d : /\ a = EP!FillsFrom(fills, n + 1, id) /\ b = EP!FillsFrom(stored, 1, id)
                          /\ c = (IF id = y THEN q ELSE 0) /\ d = EP!FillsFrom(after, 1, id)
    OBVIOUS
  <2>3. /\ a \in Nat /\ b \in Nat /\ c \in Nat /\ d <= b + c
        /\ EP!FillsFrom(fills, n, id) = a + c /\ g[id] = h[id] + c /\ h[id] \in Nat
    BY <1>3, <1>5, <1>6, <1>7, <2>2
  <2>4. d \in Int
    <3>1. Append(stored, fill) \in Seq(EP!Fill)
      BY <1>4, AppendProperties
    <3>2. after \in Seq(EP!Fill)
      BY <1>4, <3>1
    <3> QED BY <2>2, <3>2, EP!FillsFromNat, EngineInputs, ToleranceAssumption
  <2> QED BY <2>1, <2>2, <2>3, <2>4
<1>8. after \in Seq(EP!Fill) /\ \A m \in DOMAIN after : after[m].order_id \in DOMAIN rows
  <2>1. CASE after = stored
    BY <1>4, <2>1 DEF Stored
  <2>2. CASE after = Append(stored, fill)
    <3>1. /\ after \in Seq(EP!Fill) /\ Len(after) = Len(stored) + 1 /\ Len(stored) \in Nat
          /\ after[Len(stored) + 1] = fill /\ \A m \in 1..Len(stored) : after[m] = stored[m]
      BY <1>4, <2>2, AppendProperties, LenProperties
    <3>2. DOMAIN after = 1..(Len(stored) + 1) /\ DOMAIN stored = 1..Len(stored)
      BY <1>4, <3>1, LenProperties
    <3>3. ASSUME NEW m \in DOMAIN after PROVE m = Len(stored) + 1 \/ m \in DOMAIN stored
      BY <3>1, <3>2
    <3> QED BY <1>2, <1>3, <3>1, <3>2, <3>3 DEF Stored
  <2> QED BY <2>1, <2>2
<1>9. Stored(rows, g, after)
  BY <1>7, <1>8 DEF Stored
<1>10. Booking(rows, g, fills, n + 1)
  BY <1>7 DEF Booking
<1> QED BY <1>9, <1>10
\* A fill is stored and applied to the portfolio.
LEMMA HandleFillExposure ==
  ASSUME RowsInv, PortfolioInv, ExposureInv, HandleFill PROVE ExposureInv'
<1>1. PICK i, fills, n : i = FillInstrument /\ fills = result.fills /\ n = k
  OBVIOUS
<1>2. /\ phase = "fills" /\ phase' = "fills" /\ n \in DOMAIN fills /\ k' = n + 1
      /\ db_fills' = AppendFill(db_fills, fills[n])
      /\ portfolio' = ApplyFill(portfolio, i, fills[n])
      /\ UNCHANGED <<engineVars, db_orders, db_positions, issued, approved>>
  BY <1>1 DEF HandleFill, historyVars
<1>3. result' = result /\ (FreshIds' <=> FreshIds)
  BY <1>2 DEF engineVars, FreshIds
<1>4. k' \in Nat \ {0}
  BY <1>1, <1>2 DEF ExposureInv
<1>5. fills \in Seq(EP!Fill)
  BY <1>1 DEF RowsInv, EP!Typed
<1>6. PICK fill \in EP!Fill : fill = fills[n]
  BY <1>2, <1>5, ElementOfSeq
<1>7. db_fills' \in {db_fills, Append(db_fills, fills[n])}
  BY <1>2 DEF AppendFill, InsertFill, PushFill
<1>8. PICK before, after : before = portfolio.positions /\ after = portfolio'.positions
  OBVIOUS
<1>9. Moved(before, after, i, fill)
  BY <1>2, <1>6, <1>8, ApplyFillFacts DEF PortfolioInv, Moved
<1>10. ASSUME FreshIds, NEW rows, NEW h, Ledger(rows, h) PROVE \E g : Ledger(rows, g)'
  <2>1. /\ rows = db_orders /\ h \in [DOMAIN rows -> Nat] /\ Stored(rows, h, db_fills)
        /\ Covers(before, h) /\ Covers(db_positions, h) /\ Requested(rows) <= approved
        /\ Booking(rows, h, fills, n)
    BY <1>1, <1>2, <1>8, <1>10 DEF Ledger
  <2>2. EP!AreRows(rows) /\ IsFiniteSet(DOMAIN rows)
    BY <2>1, StoredRows DEF RowsInv
  <2>3. PICK id, q : id = fills[n].order_id /\ q = fills[n].quantity
    OBVIOUS
  <2>4. id \in DOMAIN rows /\ q \in Nat
    BY <1>2, <1>6, <2>1, <2>3 DEF Booking, EP!Fill
  <2>5. PICK g : g = WithBooking(h, id, q)
    OBVIOUS
  <2>6. PICK total : total = SumFunctionOnSet(h, DOMAIN rows)
    OBVIOUS
  <2>7. /\ g \in [DOMAIN rows -> Nat] /\ total \in Nat
        /\ SumFunctionOnSet(g, DOMAIN rows) = total + q
    BY <2>1, <2>2, <2>4, <2>5, <2>6, BookedSum
  <2>8. DOMAIN g = DOMAIN rows /\ DOMAIN h = DOMAIN rows
    BY <2>1, <2>7
  <2>9. total = SumFunctionOnSet(h, DOMAIN h) /\ SumFunctionOnSet(g, DOMAIN g) = total + fill.quantity
    BY <1>6, <2>3, <2>6, <2>7, <2>8
  <2>10. Covers(after, g)
    BY <1>9, <2>1, <2>7, <2>9, CoversFill
  <2>11. Covers(db_positions, g)
    BY <2>1, <2>7, <2>9, CoversFill
  <2>12. g = WithBooking(h, fill.order_id, fill.quantity)
    BY <1>6, <2>3, <2>5
  <2>13. Booking(rows, g, fills, n + 1) /\ Stored(rows, g, db_fills')
    <3>1. PICK stored, now_stored : stored = db_fills /\ now_stored = db_fills'
      OBVIOUS
    <3>2. /\ Stored(rows, h, stored) /\ Booking(rows, h, fills, n) /\ n \in DOMAIN fills
          /\ now_stored = stored \/ now_stored = Append(stored, fill)
      BY <1>2, <1>6, <1>7, <2>1, <3>1
    <3>3. h \in [DOMAIN rows -> Nat] /\ EP!AreRows(rows)
      BY <2>1, <2>2
    <3>4. Booking(rows, g, fills, n + 1) /\ Stored(rows, g, now_stored)
      BY <1>5, <1>6, <2>12, <3>2, <3>3, BookFill
    <3> QED BY <3>1, <3>4
  <2>14. Ledger(rows, g)'
    BY <1>1, <1>2, <1>3, <1>8, <2>1, <2>7, <2>10, <2>11, <2>13 DEF Ledger
  <2> QED BY <2>14
<1> QED BY <1>2, <1>3, <1>4, <1>10 DEF ExposureInv

\* Positions that differ only in what marks determine are covered alike.
LEMMA CoversSame ==
  ASSUME NEW f, NEW g, SameEntries(f, g), NEW h, Covers(f, h) PROVE Covers(g, h)
BY DEF SameEntries, SameEntry, Covers

\* A position is stored.
LEMMA StorePositionExposure ==
  ASSUME PortfolioInv, ExposureInv, NEW i, StorePosition(i) PROVE ExposureInv'
<1>1. /\ phase = "positions" /\ phase' = phase /\ i \in unsaved
      /\ UNCHANGED <<k, portfolio, db_orders, db_fills, approved, issued>>
      /\ db_positions' = Set(db_positions, i, portfolio.positions[i])
  BY DEF StorePosition, SavePosition, historyVars
<1>2. i \in DOMAIN portfolio.positions
  BY <1>1 DEF PortfolioInv
<1>3. /\ DOMAIN db_positions' = DOMAIN db_positions \cup {i}
      /\ db_positions'[i] = portfolio.positions[i]
      /\ \A j \in DOMAIN db_positions : j # i => db_positions'[j] = db_positions[j]
  BY <1>1 DEF Set
<1>4. ASSUME NEW h, Covers(portfolio.positions, h), Covers(db_positions, h)
      PROVE  Covers(portfolio'.positions, h) /\ Covers(db_positions', h)
  <2>1. ASSUME NEW j \in DOMAIN db_positions'
        PROVE  /\ db_positions'[j].net \in Int
               /\ Abs(db_positions'[j].net) <= SumFunctionOnSet(h, DOMAIN h)
    <3>1. CASE j = i
      BY <1>2, <1>3, <1>4, <3>1 DEF Covers
    <3>2. CASE j # i
      BY <1>3, <1>4, <3>2 DEF Covers
    <3> QED BY <3>1, <3>2
  <2> QED BY <1>1, <1>4, <2>1 DEF Covers
<1>5. k' \in Nat \ {0}
  BY <1>1 DEF ExposureInv
<1> QED BY <1>1, <1>4, <1>5, ExposureStutter

\* The mark price moves no net position.
LEMMA HandledResultExposure ==
  ASSUME PortfolioInv, ExposureInv, HandledResult PROVE ExposureInv'
<1>1. /\ phase' \notin {"execution", "updates", "fills"} /\ k' = 1
      /\ UNCHANGED <<db_orders, db_fills, db_positions, approved, issued>>
  BY DEF HandledResult, dbVars, historyVars
<1>2. PICK i, mark : \/ portfolio' = SetMarkPrice(portfolio, i, mark)
                     \/ portfolio' = portfolio
  BY Zenon DEF HandledResult
<1>3. SameEntries(portfolio.positions, portfolio'.positions)
  BY <1>2, SetMarkPriceFacts DEF PortfolioInv, SameEntries, SameEntry
<1>4. \A h : Covers(portfolio.positions, h) => Covers(portfolio'.positions, h)
  BY <1>3, CoversSame
<1>5. \A h : Covers(portfolio.positions, h) /\ Covers(db_positions, h)
                  => Covers(portfolio'.positions, h) /\ Covers(db_positions', h)
  BY <1>1, <1>4
<1>6. k' \in Nat \ {0}
  BY <1>1
<1> QED BY <1>1, <1>5, <1>6, ExposureStutter

\* Recovery starts from the stored positions.
LEMMA RestartExposure ==
  ASSUME PortfolioInv, ExposureInv, NEW snapshots, Restart(snapshots) PROVE ExposureInv'
<1>1. /\ phase' = "idle" /\ k' = 1
      /\ UNCHANGED <<db_orders, db_fills, db_positions, approved, issued>>
  BY DEF Restart, dbVars
<1>2. SameEntries(db_positions', portfolio'.positions)
  BY <1>1, RestartPortfolio DEF PortfolioInv, Settled
<1>3. \A h : Covers(db_positions, h) => Covers(portfolio'.positions, h)
  BY <1>1, <1>2, CoversSame
<1>4. \A h : Covers(portfolio.positions, h) /\ Covers(db_positions, h)
                  => Covers(portfolio'.positions, h) /\ Covers(db_positions', h)
  BY <1>1, <1>3
<1>5. k' \in Nat \ {0} /\ phase' \notin {"execution", "updates", "fills"}
  BY <1>1
<1> QED BY <1>1, <1>4, <1>5, ExposureStutter

\* Nothing happens at all.
LEMMA ExposureUnchanged == ASSUME ExposureInv, UNCHANGED vars PROVE ExposureInv'
<1>1. UNCHANGED <<engineVars, phase, k, serving, portfolio, db_orders, db_fills, db_positions,
                  approved, issued>>
  BY DEF vars, workVars, dbVars, historyVars
<1>2. UNCHANGED <<orders, result, pc, incoming, remaining, touched>> /\ (FreshIds' <=> FreshIds)
  BY <1>1 DEF engineVars, FreshIds
<1>3. ASSUME NEW rows, NEW h, Ledger(rows, h) PROVE Ledger(rows, h)'
  <2>1. ASSUME EP!Accounted(rows, h) PROVE EP!Accounted(rows, h)'
    <3>1. \A id \in DOMAIN orders : EP!Traded(id)' = EP!Traded(id)
      BY <1>2 DEF EP!Traded
    <3>2. EP!FillsCovered(rows, h)'
      BY <1>2, <2>1 DEF EP!FillsCovered, EP!Accounted
    <3> QED BY <1>2, <2>1, <3>1, <3>2 DEF EP!Accounted
  <2> QED BY <1>1, <1>2, <1>3, <2>1 DEF Ledger
<1> QED BY <1>1, <1>2, <1>3 DEF ExposureInv

\* Every step keeps the ledger.
LEMMA ExposureNext ==
  DataInv /\ PortfolioInv /\ RowsInv /\ BehindInv /\ ExposureInv /\ [Next]_vars => ExposureInv'
<1> SUFFICES ASSUME DataInv, PortfolioInv, RowsInv, BehindInv, ExposureInv, [Next]_vars
             PROVE  ExposureInv'
  OBVIOUS
<1>1. CASE EngineStep \/ SubmitRequest \/ \E e \in Feed : OnMarketEvent(e)
  BY <1>1, EngineStepExposure, SubmitRequestExposure, OnMarketEventExposure
<1>2. CASE PersistNewOrder \/ SaveUpdate \/ ToFills \/ HandleFill
  BY <1>2, PersistNewOrderExposure, SaveUpdateExposure, ToFillsExposure, HandleFillExposure
<1>3. CASE HandledResult \/ \E i \in Instruments : StorePosition(i)
  BY <1>3, HandledResultExposure, StorePositionExposure
<1>4. CASE \E snapshots \in Snapshots : Restart(snapshots)
  BY <1>4, RestartExposure
<1>5. ASSUME UNCHANGED <<portfolio, db_orders, db_fills, db_positions, approved, issued>>,
             k' \in {k, k + 1, 1}, phase' \notin {"execution", "updates", "fills"}
      PROVE  ExposureInv'
  <2>1. k' \in Nat \ {0}
    BY <1>5 DEF ExposureInv
  <2> QED BY <1>5, <2>1, ExposureStutter
<1>6. CASE \/ ToPositions \/ ToBalances \/ RunStrategy \/ ToRequests \/ DropRequest \/ FinishEvent
           \/ \E asset \in Range(Base) \cup {Quote} : StoreBalance(asset)
  <2>1. /\ UNCHANGED <<portfolio, db_orders, db_fills, db_positions, approved, issued>>
        /\ k' \in {k, k + 1, 1} /\ phase' \notin {"execution", "updates", "fills"}
    BY <1>6 DEF ToPositions, ToBalances, RunStrategy, ToRequests, DropRequest, FinishEvent,
                StoreBalance, workVars, dbVars, historyVars
  <2> QED BY <1>5, <2>1
<1>7. CASE \/ \E kind \in {"reset_strategy", "other"} : OnOtherEvent(kind)
           \/ Tick \/ \E value \in BOOLEAN : SetTradingPaused(value)
           \/ \E s \in Slots, value \in BOOLEAN : SetStrategyPaused(s, value)
  <2>1. /\ UNCHANGED <<portfolio, db_orders, db_fills, db_positions, approved, issued>>
        /\ k' \in {k, k + 1, 1} /\ phase' \notin {"execution", "updates", "fills"}
    BY <1>7 DEF OnOtherEvent, Tick, AtRead, SetTradingPaused, SetStrategyPaused, workVars,
                dbVars, historyVars
  <2> QED BY <1>5, <2>1
<1>8. CASE UNCHANGED vars
  BY <1>8, ExposureUnchanged
<1> QED BY <1>1, <1>2, <1>3, <1>4, <1>6, <1>7, <1>8 DEF Next, Work

\* The ledger is kept in every behaviour, with the invariants it rests on.
LEMMA ExposureHolds == Spec => [](RowsInv /\ ExposureInv)
BY DataInvHolds, PortfolioInvInit, PortfolioInvNext, RowsInvInit, RowsInvNext, BehindInvInit,
   BehindInvNext, ExposureInit, ExposureNext, PTL DEF Spec

(***************************************************************************)
(* At every moment the stored fills of an order add up to no more than its *)
(* row says it filled: handle_execution_result writes updates before fills *)
(* and the engine never returns a fill its updates do not account for, as  *)
(* long as no order id was handed out twice.                               *)
(***************************************************************************)
THEOREM StoredFillsAreBehindOrders == Spec => []FillsBehindOrders
<1>1. RowsInv /\ ExposureInv => FillsBehindOrders
  <2> SUFFICES ASSUME RowsInv, ExposureInv, FreshIds, NEW n \in DOMAIN db_fills
               PROVE  /\ db_fills[n].order_id \in DOMAIN db_orders
                      /\ FilledByRows(db_fills[n].order_id)
                           <= db_orders[db_fills[n].order_id].filled
    BY DEF FillsBehindOrders
  <2>1. PICK rows, h : Ledger(rows, h)
    BY DEF ExposureInv
  <2>2. /\ rows = db_orders /\ h \in [DOMAIN rows -> Nat] /\ Stored(rows, h, db_fills)
        /\ EP!AreRows(rows)
    BY <2>1, StoredRows DEF Ledger
  <2>3. PICK id : id = db_fills[n].order_id
    OBVIOUS
  <2>4. id \in DOMAIN rows /\ db_fills \in Seq(EP!Fill)
    BY <2>2, <2>3 DEF Stored
  <2>5. /\ EP!FillsFrom(db_fills, 1, id) <= h[id] /\ h[id] <= rows[id].filled
        /\ h[id] \in Nat /\ rows[id].filled \in Nat
    BY <2>2, <2>4 DEF Stored, EP!AreRows
  <2>6. EP!FillsFrom(db_fills, 1, id) \in Nat
    BY <2>4, EP!FillsFromNat, EngineInputs, ToleranceAssumption
  <2>7. FilledByRows(id) <= rows[id].filled
    BY <2>4, <2>5, <2>6, FilledByRowsIs
  <2> QED BY <2>2, <2>3, <2>4, <2>7
<1> QED BY <1>1, ExposureHolds, PTL

(***************************************************************************)
(* As long as no order id was handed out twice, a position never exceeds   *)
(* the quantity of all approved requests, however many restarts restored   *)
(* orders that had traded.                                                 *)
(***************************************************************************)
THEOREM ExposureIsBounded == Spec => []ExposureBounded
<1>1. RowsInv /\ ExposureInv => ExposureBounded
  <2> SUFFICES ASSUME RowsInv, ExposureInv, FreshIds
               PROVE  \A i \in DOMAIN portfolio.positions :
                        Abs(portfolio.positions[i].net) <= approved
    BY DEF ExposureBounded
  <2>1. PICK rows, h : Ledger(rows, h)
    BY DEF ExposureInv
  <2>2. /\ rows = db_orders /\ h \in [DOMAIN rows -> Nat] /\ Stored(rows, h, db_fills)
        /\ Covers(portfolio.positions, h) /\ Requested(rows) <= approved
    BY <2>1 DEF Ledger
  <2>3. PICK S, f : S = DOMAIN rows /\ f = [id \in DOMAIN rows |-> rows[id].quantity]
    OBVIOUS
  <2>4. EP!AreRows(rows) /\ IsFiniteSet(S)
    BY <2>2, <2>3, StoredRows DEF RowsInv
  <2>5. ASSUME NEW id \in S PROVE h[id] \in Int /\ f[id] \in Int /\ h[id] <= f[id]
    <3>1. /\ h[id] \in Nat /\ rows[id].filled \in Nat /\ rows[id].quantity \in Nat
          /\ h[id] <= rows[id].filled /\ rows[id].filled <= rows[id].quantity
      BY <2>2, <2>3, <2>4 DEF Stored, EP!AreRows
    <3> QED BY <2>3, <3>1
  <2>6. /\ SumFunctionOnSet(h, S) <= SumFunctionOnSet(f, S)
        /\ SumFunctionOnSet(h, S) \in Int /\ SumFunctionOnSet(f, S) \in Int
    BY <2>4, <2>5, SumAtMost, SumInt
  <2>7. SumFunctionOnSet(f, S) <= approved /\ approved \in Int
    BY <2>2, <2>3 DEF Requested, ExposureInv
  <2>8. ASSUME NEW i \in DOMAIN portfolio.positions
        PROVE  Abs(portfolio.positions[i].net) <= approved
    <3>1. PICK net : net = portfolio.positions[i].net
      OBVIOUS
    <3>2. DOMAIN h = S
      BY <2>2, <2>3
    <3>3. net \in Int /\ Abs(net) <= SumFunctionOnSet(h, S)
      BY <2>2, <3>1, <3>2 DEF Covers
    <3>4. Abs(net) \in Int
      BY <3>3 DEF Abs
    <3> QED BY <2>6, <2>7, <3>1, <3>3, <3>4
  <2> QED BY <2>8
<1> QED BY <1>1, ExposureHolds, PTL

=============================================================================
