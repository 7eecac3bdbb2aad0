-------------------------- MODULE ApplicationProofs --------------------------
(***************************************************************************)
(* Proofs about the application, for any sources, timers, number of        *)
(* cycles, instruments, processes and fills: every row a mode keeps adds   *)
(* up, and the controller delivers every event once and in the order of    *)
(* arrival.                                                                *)
(***************************************************************************)
EXTENDS Application, SequenceTheorems, FiniteSetTheorems, TLAPS

----------------------------------------------------------------------------
(* What the stores keep                                                    *)

(***************************************************************************)
(* A row of a mode agrees with the count of the fills saved in it, and a   *)
(* process that has recovered holds, in every row it has not yet saved,    *)
(* what its mode keeps and its own fills.                                  *)
(***************************************************************************)
StoreTypes ==
  /\ mode \in Modes /\ primary \in Instruments
  /\ DOMAIN store = Modes
  /\ moved \in [Row -> Int]
  /\ counted \in [Modes -> [Row -> Int]]
  /\ DOMAIN portfolio \subseteq Row

Fresh == stage \in {"infrastructure", "recovery"} => moved = Nothing /\ saved = {}

Holds ==
  stage \in {"ready", "running", "saving"} =>
    \A row \in Row : row \notin saved =>
      Amount(portfolio, row) = counted[mode][row] + moved[row]

\* Nothing is saved before the run is over.
NotYet == stage \in {"ready", "running"} => saved = {}

StoreInv == StoreTypes /\ Fresh /\ NotYet /\ CompletedRunsAddUp /\ Holds
            /\ \A m \in Modes : DOMAIN store[m] \subseteq Row

\* What the helpers on rows return.
LEMMA AmountWith ==
  ASSUME NEW rows, NEW row, NEW amount, NEW r
  PROVE  Amount(With(rows, row, amount), r) = IF r = row THEN amount ELSE Amount(rows, r)
BY DEF Amount, With

LEMMA MoveType == ASSUME NEW i, NEW n \in Int, NEW row PROVE Move(i, n, row) \in Int
BY DEF Move

LEMMA AmountFilled ==
  ASSUME NEW rows, NEW i, NEW n \in {0, 1}, NEW row, Amount(rows, row) \in Int
  PROVE  Amount(ApplyFills(rows, i, n), row) = Amount(rows, row) + Move(i, n, row)
<1>1. PICK D : D = DOMAIN rows \cup (IF n > 0 THEN Touched(i) ELSE {})
  OBVIOUS
<1>2. ApplyFills(rows, i, n) = [r \in D |-> Amount(rows, r) + Move(i, n, r)]
  BY <1>1 DEF ApplyFills
<1>3. CASE row \in D
  BY <1>2, <1>3 DEF Amount
<1>4. CASE row \notin D
  <2>1. row \notin DOMAIN rows
    BY <1>1, <1>4
  <2>2. Move(i, n, row) = 0
    <3>1. CASE n = 0
      BY <3>1 DEF Move
    <3>2. CASE n = 1
      BY <1>1, <1>4, <3>2 DEF Move
    <3> QED BY <3>1, <3>2
  <2>3. Amount(ApplyFills(rows, i, n), row) = 0 /\ Amount(rows, row) = 0
    BY <1>2, <1>4, <2>1 DEF Amount
  <2> QED BY <2>2, <2>3
<1> QED BY <1>3, <1>4

LEMMA TouchedRows == ASSUME NEW i \in Instruments PROVE Touched(i) \subseteq Row
BY DEF Touched, Row

LEMMA StoreInvInit == Init => StoreInv
<1> SUFFICES ASSUME Init PROVE StoreInv
  OBVIOUS
<1>1. \A m \in Modes : \A row \in Row : Amount(store[m], row) = counted[m][row]
  <2>1. \A m \in Modes : store[m] = <<>> /\ counted[m] = [row \in Row |-> 0]
    BY DEF Init, Nothing
  <2> QED BY <2>1 DEF Amount
<1>2. StoreTypes
  BY DEF Init, StoreTypes, Modes, Nothing
<1>3. \A m \in Modes : DOMAIN store[m] \subseteq Row
  BY DEF Init
<1> QED BY <1>1, <1>2, <1>3 DEF Init, StoreInv, Fresh, NotYet, CompletedRunsAddUp, Holds

LEMMA StoreInvStutter ==
  ASSUME StoreInv, UNCHANGED <<mode, primary, portfolio, moved, store, saved, counted>>,
         stage' \in {stage, "down"} \/ (stage = "ready" /\ stage' = "running")
           \/ (stage = "running" /\ stage' = "ready")
  PROVE  StoreInv'
BY DEF StoreInv, StoreTypes, Fresh, NotYet, CompletedRunsAddUp, Holds

\* A process that recovers holds what its mode keeps.
LEMMA RecoverKeepsStore == ASSUME StoreInv, Recover PROVE StoreInv'
<1>1. /\ stage = "recovery" /\ stage' = "ready" /\ portfolio' = store[mode]
      /\ UNCHANGED <<mode, primary, moved, store, saved, counted>>
  BY DEF Recover
<1>2. ASSUME NEW row \in Row PROVE Amount(store[mode], row) = counted[mode][row] + moved[row]
  <2>1. moved[row] = 0
    BY <1>1 DEF StoreInv, Fresh, Nothing
  <2>2. Amount(store[mode], row) = counted[mode][row] /\ counted[mode][row] \in Int
    BY DEF StoreInv, StoreTypes, CompletedRunsAddUp
  <2> QED BY <2>1, <2>2
<1>3. DOMAIN store[mode] \subseteq Row
  BY DEF StoreInv, StoreTypes
<1> QED BY <1>1, <1>2, <1>3 DEF StoreInv, StoreTypes, Fresh, NotYet, CompletedRunsAddUp, Holds

\* The fills of an event change the portfolio as much as the count of fills.
LEMMA FillsKeepStore ==
  ASSUME StoreInv, NEW o \in Outcome, RuntimeHandler(o) PROVE StoreInv'
<1>1. PICK n \in {0, 1} : n = o.fills
  BY DEF Outcome
<1>2. /\ stage = "running" /\ portfolio' = ApplyFills(portfolio, primary, n)
      /\ moved' = [row \in Row |-> moved[row] + Move(primary, n, row)]
      /\ UNCHANGED <<stage, mode, primary, store, saved, counted>>
  BY <1>1 DEF RuntimeHandler, storeVars
<1>3. moved' \in [Row -> Int]
  BY <1>2, MoveType DEF StoreInv, StoreTypes
<1>4. ASSUME NEW row \in Row PROVE Amount(portfolio', row) = counted[mode][row] + moved'[row]
  <2>1. saved = {}
    BY <1>2 DEF StoreInv, NotYet
  <2>2. /\ Amount(portfolio, row) = counted[mode][row] + moved[row]
        /\ counted[mode][row] \in Int /\ moved[row] \in Int
    BY <1>2, <2>1 DEF StoreInv, StoreTypes, Holds
  <2>3. PICK k \in Int : k = Move(primary, n, row)
    BY MoveType
  <2>4. moved'[row] = moved[row] + k
    BY <1>2, <2>3
  <2>5. Amount(portfolio', row) = Amount(portfolio, row) + k
    BY <1>2, <2>2, <2>3, AmountFilled
  <2> QED BY <2>2, <2>4, <2>5
<1>5. DOMAIN portfolio' \subseteq Row
  BY <1>2, TouchedRows DEF ApplyFills, StoreInv, StoreTypes
<1> QED BY <1>2, <1>3, <1>4, <1>5
        DEF StoreInv, StoreTypes, Fresh, NotYet, CompletedRunsAddUp, Holds

\* What a row that is about to be saved holds.
LEMMA NextRow ==
  ASSUME StoreInv, NEW row, SavesNext(row)
  PROVE  /\ row \in Row /\ row \notin saved
         /\ portfolio[row] = counted[mode][row] + moved[row]
         /\ counted[mode][row] \in Int /\ moved[row] \in Int
<1>1. row \in DOMAIN portfolio /\ row \notin saved /\ stage \in {"ready", "saving"}
  BY DEF SavesNext
<1>2. row \in Row
  BY <1>1 DEF StoreInv, StoreTypes
<1>3. Amount(portfolio, row) = counted[mode][row] + moved[row]
  BY <1>1, <1>2 DEF StoreInv, Holds
<1> QED BY <1>1, <1>2, <1>3 DEF Amount, StoreInv, StoreTypes

LEMMA SaveKeepsStore ==
  ASSUME StoreInv, NEW row \in Row, SaveRow(row) PROVE StoreInv'
<1>1. /\ SavesNext(row)
      /\ store' = [store EXCEPT ![mode] = With(store[mode], row, portfolio[row])]
      /\ counted' = [counted EXCEPT ![mode][row] = counted[mode][row] + moved[row]]
      /\ saved' = saved \cup {row} /\ stage' = "saving"
      /\ UNCHANGED <<mode, primary, portfolio, moved>>
  BY DEF SaveRow, processVars
<1>2. /\ portfolio[row] = counted[mode][row] + moved[row]
      /\ counted[mode][row] \in Int /\ moved[row] \in Int
  BY <1>1, NextRow
<1>3. mode \in Modes /\ DOMAIN store = Modes /\ counted \in [Modes -> [Row -> Int]]
  BY DEF StoreInv, StoreTypes
<1>4. /\ DOMAIN store' = Modes
      /\ store'[mode] = With(store[mode], row, portfolio[row])
      /\ \A m \in Modes : m # mode => store'[m] = store[m]
  BY <1>1, <1>3
<1>5. /\ counted' \in [Modes -> [Row -> Int]]
      /\ counted'[mode][row] = counted[mode][row] + moved[row]
      /\ \A r \in Row : r # row => counted'[mode][r] = counted[mode][r]
      /\ \A m \in Modes : m # mode => counted'[m] = counted[m]
  BY <1>1, <1>2, <1>3
<1>6. ASSUME NEW m \in Modes, NEW r \in Row PROVE Amount(store'[m], r) = counted'[m][r]
  <2>1. Amount(store[m], r) = counted[m][r]
    BY DEF StoreInv, CompletedRunsAddUp
  <2>2. CASE m # mode
    BY <1>4, <1>5, <2>1, <2>2
  <2>3. CASE m = mode
    <3>1. Amount(store'[m], r) = IF r = row THEN portfolio[row] ELSE Amount(store[m], r)
      BY <1>4, <2>3, AmountWith
    <3> QED BY <1>2, <1>5, <2>1, <2>3, <3>1
  <2> QED BY <2>2, <2>3
<1>7. ASSUME NEW r \in Row, r \notin saved'
      PROVE  Amount(portfolio, r) = counted'[mode][r] + moved[r]
  <2>1. r # row /\ r \notin saved /\ stage \in {"ready", "saving"}
    BY <1>1, <1>7 DEF SavesNext
  <2> QED BY <1>5, <2>1 DEF StoreInv, Holds
<1>8. ASSUME NEW m \in Modes PROVE DOMAIN store'[m] \subseteq Row
  <2>1. DOMAIN store[m] \subseteq Row
    BY DEF StoreInv
  <2>2. CASE m = mode
    BY <1>4, <2>1, <2>2 DEF With
  <2>3. CASE m # mode
    BY <1>4, <2>1, <2>3
  <2> QED BY <2>2, <2>3
<1>9. StoreTypes'
  BY <1>1, <1>4, <1>5 DEF StoreInv, StoreTypes
<1>10. Holds'
  BY <1>1, <1>7 DEF Holds
<1>11. CompletedRunsAddUp'
  BY <1>6 DEF CompletedRunsAddUp, Amount
<1>12. Fresh' /\ NotYet'
  BY <1>1 DEF Fresh, NotYet
<1> QED BY <1>8, <1>9, <1>10, <1>11, <1>12 DEF StoreInv

\* A rewrite that is cut loses rows, and their count with them.
LEMMA RewriteKeepsStore ==
  ASSUME StoreInv, NEW row \in Row, NEW first \in Row, CrashInRewrite(row, first)
  PROVE  StoreInv'
<1>1. PICK after : after = With(store[mode], row, portfolio[row])
  OBVIOUS
<1>2. PICK lost : lost = {r \in DOMAIN after : r[1] = first[1] /\ r[2] >= first[2]}
  OBVIOUS
<1>3. PICK left : left = [r \in DOMAIN after \ lost |-> after[r]]
  OBVIOUS
<1>4. PICK sum : sum = [r \in Row |-> IF r \in lost THEN 0
                           ELSE counted[mode][r] + (IF r = row THEN moved[r] ELSE 0)]
  OBVIOUS
<1>5. /\ SavesNext(row)
      /\ store' = [store EXCEPT ![mode] = left]
      /\ counted' = [counted EXCEPT ![mode] = sum]
      /\ stage' = "down"
      /\ UNCHANGED <<mode, primary, portfolio, moved, saved>>
  BY <1>1, <1>2, <1>3, <1>4 DEF CrashInRewrite, processVars
<1>6. /\ portfolio[row] = counted[mode][row] + moved[row]
      /\ counted[mode][row] \in Int /\ moved[row] \in Int
  BY <1>5, NextRow
<1>7. mode \in Modes /\ DOMAIN store = Modes /\ counted \in [Modes -> [Row -> Int]]
      /\ moved \in [Row -> Int]
  BY DEF StoreInv, StoreTypes
<1>8. sum \in [Row -> Int]
  BY <1>4, <1>7
<1>9. /\ DOMAIN store' = Modes /\ store'[mode] = left
      /\ \A m \in Modes : m # mode => store'[m] = store[m]
      /\ counted' \in [Modes -> [Row -> Int]] /\ counted'[mode] = sum
      /\ \A m \in Modes : m # mode => counted'[m] = counted[m]
  BY <1>5, <1>7, <1>8
<1>10. ASSUME NEW m \in Modes, NEW r \in Row PROVE Amount(store'[m], r) = counted'[m][r]
  <2>1. Amount(store[m], r) = counted[m][r] /\ counted[m][r] \in Int
    BY <1>7 DEF StoreInv, CompletedRunsAddUp
  <2>2. CASE m # mode
    BY <1>9, <2>1, <2>2
  <2>3. CASE m = mode
    <3>1. Amount(after, r) = IF r = row THEN portfolio[row] ELSE Amount(store[m], r)
      BY <1>1, <2>3, AmountWith
    <3>2. Amount(left, r) = IF r \in lost THEN 0 ELSE Amount(after, r)
      BY <1>3 DEF Amount
    <3>3. sum[r] = IF r \in lost THEN 0
                   ELSE counted[mode][r] + (IF r = row THEN moved[r] ELSE 0)
      BY <1>4
    <3>4. CASE r \in lost
      BY <1>9, <2>3, <3>2, <3>3, <3>4
    <3>5. CASE r \notin lost /\ r = row
      BY <1>6, <1>9, <2>3, <3>1, <3>2, <3>3, <3>5
    <3>6. CASE r \notin lost /\ r # row
      <4>1. sum[r] = counted[mode][r]
        BY <2>1, <2>3, <3>3, <3>6
      <4> QED BY <1>9, <2>1, <2>3, <3>1, <3>2, <3>6, <4>1
    <3> QED BY <3>4, <3>5, <3>6
  <2> QED BY <2>2, <2>3
<1>11. ASSUME NEW m \in Modes PROVE DOMAIN store'[m] \subseteq Row
  <2>1. DOMAIN store[m] \subseteq Row
    BY DEF StoreInv
  <2>2. CASE m = mode
    BY <1>1, <1>3, <1>9, <2>1, <2>2 DEF With
  <2>3. CASE m # mode
    BY <1>9, <2>1, <2>3
  <2> QED BY <2>2, <2>3
<1>12. StoreTypes'
  BY <1>5, <1>9 DEF StoreInv, StoreTypes
<1>13. CompletedRunsAddUp'
  BY <1>10 DEF CompletedRunsAddUp, Amount
<1>14. Fresh' /\ NotYet' /\ Holds'
  BY <1>5 DEF Fresh, NotYet, Holds
<1> QED BY <1>11, <1>12, <1>13, <1>14 DEF StoreInv

LEMMA StoreInvNext == StoreInv /\ [Next]_vars => StoreInv'
<1> SUFFICES ASSUME StoreInv, [Next]_vars PROVE StoreInv'
  OBVIOUS
<1>1. CASE Start
  <2>1. /\ stage' = "infrastructure" /\ primary' \in Instruments /\ portfolio' = <<>>
        /\ saved' = {} /\ moved' = Nothing /\ UNCHANGED <<mode, store, counted>>
    BY <1>1 DEF Start
  <2>2. moved' \in [Row -> Int] /\ DOMAIN portfolio' \subseteq Row
    BY <2>1 DEF Nothing
  <2> QED BY <2>1, <2>2 DEF StoreInv, StoreTypes, Fresh, NotYet, CompletedRunsAddUp, Holds
<1>2. CASE Recover
  BY <1>2, RecoverKeepsStore
<1>3. CASE \E up \in BOOLEAN, allowed \in AllowFallback : Connect(up, allowed)
  <2>1. /\ mode' \in Modes /\ stage = "infrastructure" /\ stage' \in {"recovery", "down"}
        /\ UNCHANGED <<primary, portfolio, moved, store, saved, counted>>
    BY <1>3 DEF Connect, storeVars, Modes, StoreInv, StoreTypes
  <2> QED BY <2>1 DEF StoreInv, StoreTypes, Fresh, NotYet, CompletedRunsAddUp, Holds
<1>4. CASE \E t \in Timers : Schedule(t)
  BY <1>4, StoreInvStutter DEF Schedule, processVars, storeVars
<1>5. CASE BeginCycle
  BY <1>5, StoreInvStutter DEF BeginCycle, storeVars
<1>6. CASE ControllerStep
  BY <1>6, StoreInvStutter DEF ControllerStep, processVars, storeVars
<1>7. CASE EndCycle
  BY <1>7, StoreInvStutter DEF EndCycle, processVars, storeVars
<1>8. CASE \E o \in Outcome : RuntimeHandler(o)
  BY <1>8, FillsKeepStore
<1>9. CASE LogHandler
  BY <1>9, StoreInvStutter DEF LogHandler, storeVars
<1>10. CASE LoggerHandler
  BY <1>10, StoreInvStutter DEF LoggerHandler, processVars, storeVars
<1>11. CASE \E row \in Row : SaveRow(row)
  BY <1>11, SaveKeepsStore
<1>12. CASE FinishRun
  BY <1>12, StoreInvStutter DEF FinishRun, processVars
<1>13. CASE Crash
  BY <1>13, StoreInvStutter DEF Crash, processVars, storeVars
<1>14. CASE CrashInAppend
  BY <1>14, StoreInvStutter DEF CrashInAppend, storeVars
<1>15. CASE \E row, first \in Row : CrashInRewrite(row, first)
  BY <1>15, RewriteKeepsStore
<1>16. CASE Clock
  BY <1>16, StoreInvStutter DEF Clock, processVars, storeVars
<1>17. CASE UNCHANGED vars
  BY <1>17, StoreInvStutter DEF vars, processVars, storeVars
<1> QED
  BY <1>1, <1>2, <1>3, <1>4, <1>5, <1>6, <1>7, <1>8, <1>9, <1>10, <1>11, <1>12, <1>13, <1>14,
     <1>15, <1>16, <1>17 DEF Next, Thread

(***************************************************************************)
(* Every row a mode keeps is at any moment the sum of the fills of the     *)
(* processes that ran in this mode and came to save this row, since it was *)
(* last lost in a cut rewrite of a local file: whatever processes were     *)
(* killed between two rows and modes changed in between (application.cpp). *)
(***************************************************************************)
THEOREM SavedFillsAddUp == Spec => []CompletedRunsAddUp
<1>1. StoreInv => CompletedRunsAddUp
  BY DEF StoreInv
<1> QED BY <1>1, StoreInvInit, StoreInvNext, PTL DEF Spec

----------------------------------------------------------------------------
(* Delivery                                                                *)

\* What timers_ and the queue hold.
TimerIds == {t.id : t \in Timers} \cup {1}
TimerRecord == [id: TimerIds, due: Int, emitted: BOOLEAN]
Event == SourceEvents \cup {TimerEvent(t) : t \in TimerRecord}

\* How often an event has entered the queue, and how many timers that make this
\* event are marked as emitted.
Count(s, e) == Cardinality({j \in DOMAIN s : s[j] = e})
Marked(ts, e) == Cardinality({j \in DOMAIN ts : ts[j].emitted /\ TimerEvent(ts[j]) = e})

QueueTypes ==
  /\ now \in Nat /\ now_ms \in Nat /\ now_ms <= now
  /\ queue \in Seq(Event) /\ enqueued \in Seq(Event)
  /\ current \in Seq(Event) /\ Len(current) <= 1
  /\ timers \in Seq(TimerRecord)
  /\ seen \in [1..Handlers -> Seq(Event)]
  /\ handler \in Nat
  /\ index \in Nat \ {0}
  /\ next_index \in [DOMAIN Sources -> Nat \ {0}]

\* Before the process has recovered it has no timers.
NothingYet == stage \in {"infrastructure", "recovery"} => timers = <<>> /\ enqueued = <<>>

InOrder(h) == enqueued = seen[h] \o (IF handler <= h THEN current ELSE <<>>) \o queue

NeverEarly == \A i \in DOMAIN enqueued : IsTimer(enqueued[i]) => enqueued[i][3][1] <= now

TimersOnce == \A e \in Event : IsTimer(e) => Count(enqueued, e) = Marked(timers, e)

DeliveryInv ==
  QueueTypes /\ NothingYet /\ (\A h \in 1..Handlers : InOrder(h)) /\ NeverEarly /\ TimersOnce

LEMMA TimerEventFacts ==
  ASSUME NEW t \in TimerRecord
  PROVE  /\ TimerEvent(t) \in Event /\ IsTimer(TimerEvent(t))
         /\ TimerEvent(t)[3][1] = t.due
BY DEF TimerEvent, Event, IsTimer, Timer, TimerRecord

LEMMA SourceEventFacts ==
  ASSUME NEW i \in DOMAIN Sources, NEW j \in DOMAIN Sources[i]
  PROVE  Sources[i][j] \in Event /\ ~IsTimer(Sources[i][j])
<1>1. Sources[i][j] \in SourceEvents
  BY DEF SourceEvents, Range
<1>2. Sources[i][j][1] \in {<<1>>, <<2>>}
  BY <1>1, ApplicationAssumption DEF Market, Transaction
<1>3. <<1>> # <<3>> /\ <<2>> # <<3>>
  OBVIOUS
<1> QED BY <1>1, <1>2, <1>3 DEF Event, IsTimer, Timer

LEMMA FiniteIndices ==
  ASSUME NEW n \in Nat, NEW J, J \subseteq 1..n
  PROVE  IsFiniteSet(J) /\ Cardinality(J) \in Nat
<1>1. IsFiniteSet(1..n)
  BY FS_Interval
<1>2. IsFiniteSet(J)
  BY <1>1, FS_Subset
<1> QED BY <1>2, FS_CardinalityType

LEMMA CountAppend ==
  ASSUME NEW S, NEW s \in Seq(S), NEW a \in S, NEW e
  PROVE  Count(s, e) \in Nat /\ Count(Append(s, a), e) = Count(s, e) + (IF a = e THEN 1 ELSE 0)
<1>1. PICK n \in Nat : n = Len(s)
  OBVIOUS
<1>2. PICK J : J = {j \in DOMAIN s : s[j] = e}
  OBVIOUS
<1>3. J \subseteq 1..n /\ n + 1 \notin J
  BY <1>1, <1>2
<1>4. IsFiniteSet(J) /\ Cardinality(J) \in Nat
  BY <1>3, FiniteIndices
<1>5. /\ DOMAIN Append(s, a) = 1..(n + 1) /\ DOMAIN s = 1..n
      /\ Append(s, a)[n + 1] = a
      /\ \A j \in 1..n : Append(s, a)[j] = s[j]
  BY <1>1
<1>6. {j \in DOMAIN Append(s, a) : Append(s, a)[j] = e} = IF a = e THEN J \cup {n + 1} ELSE J
  BY <1>2, <1>5
<1>7. Cardinality(J \cup {n + 1}) = Cardinality(J) + 1
  BY <1>3, <1>4, FS_AddElement
<1>8. Count(s, e) = Cardinality(J)
  BY <1>2 DEF Count
<1>9. Count(Append(s, a), e) = Cardinality(IF a = e THEN J \cup {n + 1} ELSE J)
  BY <1>6 DEF Count
<1> QED BY <1>4, <1>7, <1>8, <1>9

LEMMA MarkedAppend ==
  ASSUME NEW ts \in Seq(TimerRecord), NEW t \in TimerRecord, ~t.emitted, NEW e
  PROVE  Marked(Append(ts, t), e) = Marked(ts, e)
<1>1. PICK n \in Nat : n = Len(ts)
  OBVIOUS
<1>2. /\ DOMAIN Append(ts, t) = 1..(n + 1) /\ DOMAIN ts = 1..n
      /\ Append(ts, t)[n + 1] = t
      /\ \A j \in 1..n : Append(ts, t)[j] = ts[j]
  BY <1>1
<1>3. {j \in DOMAIN Append(ts, t) : Append(ts, t)[j].emitted /\ TimerEvent(Append(ts, t)[j]) = e}
        = {j \in DOMAIN ts : ts[j].emitted /\ TimerEvent(ts[j]) = e}
  BY <1>2
<1> QED BY <1>3 DEF Marked

LEMMA MarkedOne ==
  ASSUME NEW ts \in Seq(TimerRecord), NEW i \in DOMAIN ts, ~ts[i].emitted, NEW e
  PROVE  /\ Marked(ts, e) \in Nat
         /\ [ts EXCEPT ![i].emitted = TRUE] \in Seq(TimerRecord)
         /\ Marked([ts EXCEPT ![i].emitted = TRUE], e)
              = Marked(ts, e) + (IF TimerEvent(ts[i]) = e THEN 1 ELSE 0)
<1>1. PICK n \in Nat : n = Len(ts)
  OBVIOUS
<1>2. PICK us : us = [ts EXCEPT ![i].emitted = TRUE]
  OBVIOUS
<1>3. DOMAIN ts = 1..n /\ \A j \in 1..n : ts[j] \in TimerRecord
  BY <1>1
<1>4. /\ DOMAIN us = 1..n /\ us \in Seq(TimerRecord)
      /\ us[i].id = ts[i].id /\ us[i].due = ts[i].due /\ us[i].emitted
      /\ \A j \in 1..n : j # i => us[j] = ts[j]
  <2>1. PICK t \in TimerRecord : t = ts[i]
    BY <1>3
  <2>2. PICK u : u = [t EXCEPT !.emitted = TRUE]
    OBVIOUS
  <2>3. u \in TimerRecord /\ u.id = t.id /\ u.due = t.due /\ u.emitted = TRUE
    BY <2>2 DEF TimerRecord
  <2>4. us = [ts EXCEPT ![i] = u]
    BY <1>2, <2>1, <2>2
  <2>5. us \in [1..n -> TimerRecord] /\ us[i] = u /\ \A j \in 1..n : j # i => us[j] = ts[j]
    BY <1>3, <2>3, <2>4
  <2>6. us \in Seq(TimerRecord)
    BY <2>5
  <2> QED BY <2>1, <2>3, <2>5, <2>6
<1>5. TimerEvent(us[i]) = TimerEvent(ts[i])
  BY <1>4 DEF TimerEvent
<1>6. PICK J : J = {j \in DOMAIN ts : ts[j].emitted /\ TimerEvent(ts[j]) = e}
  OBVIOUS
<1>7. J \subseteq 1..n /\ i \notin J
  BY <1>3, <1>6
<1>8. IsFiniteSet(J) /\ Cardinality(J) \in Nat
  BY <1>7, FiniteIndices
<1>9. {j \in DOMAIN us : us[j].emitted /\ TimerEvent(us[j]) = e}
        = IF TimerEvent(ts[i]) = e THEN J \cup {i} ELSE J
  BY <1>3, <1>4, <1>5, <1>6
<1>10. Cardinality(J \cup {i}) = Cardinality(J) + 1
  BY <1>7, <1>8, FS_AddElement
<1>11. Marked(ts, e) = Cardinality(J)
  BY <1>6 DEF Marked
<1>12. Marked(us, e) = Cardinality(IF TimerEvent(ts[i]) = e THEN J \cup {i} ELSE J)
  BY <1>9 DEF Marked
<1>13. Marked(us, e) = Marked(ts, e) + (IF TimerEvent(ts[i]) = e THEN 1 ELSE 0)
  BY <1>8, <1>10, <1>11, <1>12
<1> QED BY <1>2, <1>4, <1>8, <1>11, <1>13

LEMMA ConcatAppend ==
  ASSUME NEW S, NEW s \in Seq(S), NEW q \in Seq(S), NEW e \in S
  PROVE  s \o Append(q, e) = Append(s \o q, e)
OBVIOUS

LEMMA OneEvent ==
  ASSUME NEW S, NEW c \in Seq(S), c # <<>>, Len(c) <= 1
  PROVE  \E e \in S : c = <<e>> /\ c[1] = e
<1>1. PICK n \in Nat : n = Len(c)
  OBVIOUS
<1>2. n # 0
  BY <1>1, EmptySeq
<1>3. n = 1
  BY <1>1, <1>2
<1>4. Len(c) = 1 /\ c[1] \in S
  BY <1>1, <1>3
<1>5. c = <<c[1]>>
  BY <1>4
<1> QED BY <1>4, <1>5

\* An event enters the queue: it comes after all that are on their way.
LEMMA EnqueueKeepsOrder ==
  ASSUME DeliveryInv, NEW e \in Event, Enqueue(e), UNCHANGED <<seen, current, handler>>
  PROVE  /\ queue' \in Seq(Event) /\ enqueued' \in Seq(Event)
         /\ \A h \in 1..Handlers : InOrder(h)'
<1>1. queue' = Append(queue, e) /\ enqueued' = Append(enqueued, e)
  BY DEF Enqueue
<1>2. queue \in Seq(Event) /\ enqueued \in Seq(Event)
  BY DEF DeliveryInv, QueueTypes
<1>3. queue' \in Seq(Event) /\ enqueued' \in Seq(Event)
  BY <1>1, <1>2
<1>4. ASSUME NEW h \in 1..Handlers PROVE InOrder(h)'
  <2>1. PICK b : b = IF handler <= h THEN current ELSE <<>>
    OBVIOUS
  <2>2. b \in Seq(Event) /\ seen[h] \in Seq(Event)
    BY <2>1, SMTT(30) DEF DeliveryInv, QueueTypes
  <2>3. PICK ab \in Seq(Event) : ab = seen[h] \o b
    <3>1. PICK a \in Seq(Event) : a = seen[h]
      BY <2>2
    <3>2. a \o b \in Seq(Event)
      BY <2>2
    <3> QED BY <3>1, <3>2
  <2>4. enqueued = ab \o queue
    BY <2>1, <2>3 DEF DeliveryInv, InOrder
  <2>5. ab \o Append(queue, e) = Append(ab \o queue, e)
    <3>1. PICK E, s, q : E = Event /\ s = ab /\ q = queue
      OBVIOUS
    <3>2. s \in Seq(E) /\ q \in Seq(E) /\ e \in E
      BY <1>2, <2>3, <3>1
    <3>3. s \o Append(q, e) = Append(s \o q, e)
      BY <3>2, ConcatAppend
    <3> QED BY <3>1, <3>3
  <2>6. enqueued' = ab \o queue'
    BY <1>1, <2>4, <2>5
  <2> QED BY <2>1, <2>3, <2>6 DEF InOrder
<1> QED BY <1>3, <1>4

LEMMA EnqueueNotEarly ==
  ASSUME DeliveryInv, NEW e \in Event, Enqueue(e), IsTimer(e) => e[3][1] <= now, now' = now
  PROVE  NeverEarly'
<1>1. enqueued \in Seq(Event) /\ enqueued' = Append(enqueued, e)
  BY DEF DeliveryInv, QueueTypes, Enqueue
<1>2. PICK n \in Nat : n = Len(enqueued)
  BY <1>1
<1>3. /\ DOMAIN enqueued' = 1..(n + 1) /\ DOMAIN enqueued = 1..n /\ enqueued'[n + 1] = e
      /\ \A i \in 1..n : enqueued'[i] = enqueued[i]
  BY <1>1, <1>2
<1>4. ASSUME NEW i \in DOMAIN enqueued', IsTimer(enqueued'[i]) PROVE enqueued'[i][3][1] <= now
  <2>1. CASE i = n + 1
    BY <1>3, <1>4, <2>1
  <2>2. CASE i # n + 1
    BY <1>3, <1>4, <2>2 DEF DeliveryInv, NeverEarly
  <2> QED BY <2>1, <2>2
<1> QED BY <1>4 DEF NeverEarly

LEMMA DeliveryInvInit == Init => DeliveryInv
<1> SUFFICES ASSUME Init PROVE DeliveryInv
  OBVIOUS
<1>1. QueueTypes
  BY ApplicationAssumption DEF Init, QueueTypes, NoTimers
<1>2. \A h \in 1..Handlers : InOrder(h)
  <2>1. ASSUME NEW h \in 1..Handlers PROVE InOrder(h)
    BY DEF Init, InOrder
  <2> QED BY <2>1
<1>3. TimersOnce
  <2>1. ASSUME NEW e PROVE Count(enqueued, e) = Marked(timers, e)
    <3>1. /\ {j \in DOMAIN enqueued : enqueued[j] = e} = {}
          /\ {j \in DOMAIN timers : timers[j].emitted /\ TimerEvent(timers[j]) = e} = {}
      BY DEF Init, NoTimers
    <3> QED BY <3>1 DEF Count, Marked
  <2> QED BY <2>1 DEF TimersOnce
<1>4. NothingYet /\ NeverEarly
  BY DEF Init, NothingYet, NeverEarly
<1> QED BY <1>1, <1>2, <1>3, <1>4 DEF DeliveryInv

\* The steps that leave what DeliveryInv is about, but for the clock.
LEMMA DeliveryInvStutter ==
  ASSUME DeliveryInv,
         UNCHANGED <<queue, enqueued, current, timers, seen, handler, next_index>>,
         now' \in Nat /\ now <= now', now_ms' \in Nat /\ now_ms' <= now',
         index' \in Nat \ {0},
         stage' \in {"infrastructure", "recovery"} => stage \in {"infrastructure", "recovery"}
  PROVE  DeliveryInv'
<1>1. QueueTypes'
  BY DEF DeliveryInv, QueueTypes
<1>2. \A h \in 1..Handlers : InOrder(h)'
  BY DEF DeliveryInv, InOrder
<1>3. NothingYet' /\ TimersOnce'
  BY DEF DeliveryInv, NothingYet, TimersOnce
<1>4. NeverEarly'
  <2>1. ASSUME NEW i \in DOMAIN enqueued, IsTimer(enqueued[i]) PROVE enqueued[i][3][1] <= now'
    <3>1. enqueued[i] \in Event /\ now \in Nat
      BY DEF DeliveryInv, QueueTypes
    <3>2. enqueued[i] \notin SourceEvents
      <4>1. <<1>> # <<3>> /\ <<2>> # <<3>>
        OBVIOUS
      <4> QED BY <2>1, <4>1, ApplicationAssumption DEF IsTimer, Timer, Market, Transaction
    <3>3. PICK t \in TimerRecord : enqueued[i] = TimerEvent(t)
      BY <3>1, <3>2 DEF Event
    <3>4. enqueued[i][3][1] = t.due /\ t.due \in Int
      BY <3>3, TimerEventFacts DEF TimerRecord
    <3>5. enqueued[i][3][1] <= now
      BY <2>1 DEF DeliveryInv, NeverEarly
    <3>6. PICK d \in Int : d = enqueued[i][3][1]
      BY <3>4
    <3> QED BY <3>1, <3>5, <3>6
  <2> QED BY <2>1 DEF NeverEarly
<1> QED BY <1>1, <1>2, <1>3, <1>4 DEF DeliveryInv

\* One timer is looked at.
LEMMA TimerKeepsDelivery ==
  ASSUME DeliveryInv, EnqueueDueTimer, stage' = stage PROVE DeliveryInv'
<1>1. /\ timers \in Seq(TimerRecord) /\ index \in Nat \ {0} /\ now \in Nat /\ now_ms \in Nat
      /\ now_ms <= now /\ enqueued \in Seq(Event)
  BY DEF DeliveryInv, QueueTypes
<1>2. /\ index \in DOMAIN timers /\ index' = index + 1
      /\ UNCHANGED <<now, next_index, step, now_ms, current, handler, seen>>
  BY <1>1 DEF EnqueueDueTimer
<1>3. PICK t \in TimerRecord : t = timers[index]
  BY <1>1, <1>2
<1>4. CASE ~Due(timers[index])
  BY <1>1, <1>2, <1>4, DeliveryInvStutter DEF EnqueueDueTimer, DeliveryInv, QueueTypes
<1>5. CASE Due(timers[index])
  <2>1. PICK e : e = TimerEvent(t)
    OBVIOUS
  <2>2. e \in Event /\ IsTimer(e) /\ e[3][1] = t.due
    BY <2>1, TimerEventFacts
  <2>3. /\ Enqueue(e)
        /\ timers' = [timers EXCEPT ![index].emitted = TRUE]
        /\ ~t.emitted /\ t.due <= now_ms
    BY <1>3, <1>5, <2>1 DEF EnqueueDueTimer, Due
  <2>4. e[3][1] <= now
    BY <1>1, <2>2, <2>3 DEF TimerRecord
  <2>5. /\ queue' \in Seq(Event) /\ enqueued' \in Seq(Event)
        /\ \A h \in 1..Handlers : InOrder(h)'
        /\ NeverEarly'
    BY <1>2, <2>2, <2>3, <2>4, EnqueueKeepsOrder, EnqueueNotEarly
  <2>6. /\ timers' \in Seq(TimerRecord)
        /\ \A f : /\ Marked(timers, f) \in Nat
                 /\ Marked(timers', f) = Marked(timers, f) + (IF e = f THEN 1 ELSE 0)
    BY <1>1, <1>2, <1>3, <2>1, <2>3, MarkedOne
  <2>7. \A f : Count(enqueued', f) = Count(enqueued, f) + (IF e = f THEN 1 ELSE 0)
    BY <1>1, <2>2, <2>3, CountAppend DEF Enqueue
  <2>8. TimersOnce'
    BY <2>6, <2>7 DEF DeliveryInv, TimersOnce
  <2>9. QueueTypes'
    BY <1>2, <2>5, <2>6 DEF DeliveryInv, QueueTypes
  <2>10. NothingYet'
    <3>1. timers # <<>>
      BY <1>2
    <3> QED BY <3>1 DEF DeliveryInv, NothingYet
  <2> QED BY <2>5, <2>8, <2>9, <2>10 DEF DeliveryInv
<1> QED BY <1>4, <1>5

\* One source is polled.
LEMMA SourceKeepsDelivery ==
  ASSUME DeliveryInv, PollSource, stage = "running", stage' = stage PROVE DeliveryInv'
<1>1. /\ index \in Nat \ {0} /\ now \in Nat /\ now_ms \in Nat /\ now_ms <= now
      /\ enqueued \in Seq(Event) /\ next_index \in [DOMAIN Sources -> Nat \ {0}]
  BY DEF DeliveryInv, QueueTypes
<1>2. /\ index \in DOMAIN Sources /\ index' = index + 1
      /\ UNCHANGED <<now, timers, step, now_ms, current, handler, seen>>
  BY <1>1, ApplicationAssumption DEF PollSource
<1>3. PICK n \in Nat \ {0} : n = next_index[index]
  BY <1>1, <1>2
<1>4. CASE ~(n <= Len(Sources[index]))
  BY <1>1, <1>2, <1>3, <1>4, DeliveryInvStutter DEF PollSource, DeliveryInv, QueueTypes
<1>5. CASE n <= Len(Sources[index])
  <2>1. n \in DOMAIN Sources[index]
    <3>1. Sources[index] \in Seq(SourceEvents)
      BY <1>2, ApplicationAssumption
    <3> QED BY <1>5, <3>1
  <2>2. PICK e : e = Sources[index][n]
    OBVIOUS
  <2>3. e \in Event /\ ~IsTimer(e)
    BY <1>2, <2>1, <2>2, SourceEventFacts
  <2>4. Enqueue(e) /\ next_index' = [next_index EXCEPT ![index] = @ + 1]
    BY <1>3, <1>5, <2>2 DEF PollSource
  <2>5. /\ queue' \in Seq(Event) /\ enqueued' \in Seq(Event)
        /\ \A h \in 1..Handlers : InOrder(h)'
        /\ NeverEarly'
    BY <1>2, <2>3, <2>4, EnqueueKeepsOrder, EnqueueNotEarly
  <2>6. \A f : Count(enqueued, f) \in Nat
            /\ Count(enqueued', f) = Count(enqueued, f) + (IF e = f THEN 1 ELSE 0)
    BY <1>1, <2>3, <2>4, CountAppend DEF Enqueue
  <2>7. TimersOnce'
    BY <1>2, <2>3, <2>6 DEF DeliveryInv, TimersOnce
  <2>8. next_index' \in [DOMAIN Sources -> Nat \ {0}]
    BY <1>1, <1>2, <2>4
  <2>9. QueueTypes'
    BY <1>2, <2>5, <2>8 DEF DeliveryInv, QueueTypes
  <2>10. NothingYet'
    BY DEF NothingYet
  <2> QED BY <2>5, <2>7, <2>9, <2>10 DEF DeliveryInv
<1> QED BY <1>4, <1>5

\* The front event goes from the queue to the handlers.
LEMMA TakeKeepsDelivery ==
  ASSUME DeliveryInv, TakeEvent, stage = "running", stage' = stage PROVE DeliveryInv'
<1>1. /\ queue \in Seq(Event) /\ queue # <<>> /\ current = <<>>
      /\ current' = <<Head(queue)>> /\ queue' = Tail(queue) /\ handler' = 1
      /\ UNCHANGED <<now, timers, next_index, step, index, now_ms, enqueued, seen>>
  BY DEF DeliveryInv, QueueTypes, TakeEvent
<1>2. PICK c, q : c = <<Head(queue)>> /\ q = Tail(queue)
  OBVIOUS
<1>3. c \in Seq(Event) /\ Len(c) = 1 /\ q \in Seq(Event) /\ queue = c \o q
  BY <1>1, <1>2
<1>4. ASSUME NEW h \in 1..Handlers PROVE InOrder(h)'
  <2>1. PICK a \in Seq(Event) : a = seen[h]
    BY DEF DeliveryInv, QueueTypes
  <2>2. enqueued = a \o <<>> \o queue
    BY <1>1, <2>1 DEF DeliveryInv, InOrder
  <2>3. a \o <<>> = a
    OBVIOUS
  <2>4. a \o (c \o q) = (a \o c) \o q
    BY <1>3
  <2>5. enqueued = a \o c \o q
    BY <1>3, <2>2, <2>3, <2>4
  <2>6. handler' <= h
    BY <1>1
  <2> QED BY <1>1, <1>2, <2>1, <2>5, <2>6 DEF InOrder
<1>5. QueueTypes'
  BY <1>1, <1>2, <1>3 DEF DeliveryInv, QueueTypes
<1>6. NothingYet' /\ NeverEarly' /\ TimersOnce'
  BY <1>1 DEF DeliveryInv, NothingYet, NeverEarly, TimersOnce
<1> QED BY <1>4, <1>5, <1>6 DEF DeliveryInv

\* A handler has handled the event; the last one ends its publication.
LEMMA HandledKeepsDelivery ==
  ASSUME DeliveryInv, NEW k \in 1..Handlers, Handled(k), stage = "running", stage' = stage
  PROVE  DeliveryInv'
<1>1. /\ current \in Seq(Event) /\ Len(current) <= 1 /\ current # <<>> /\ handler = k
      /\ seen \in [1..Handlers -> Seq(Event)]
      /\ handler' = k + 1
      /\ UNCHANGED <<now, queue, timers, next_index, step, index, now_ms, enqueued>>
  BY DEF DeliveryInv, QueueTypes, Handled
<1>2. PICK e \in Event : current = <<e>> /\ current[1] = e
  BY <1>1, OneEvent
<1>3. /\ seen' = [seen EXCEPT ![k] = Append(@, e)]
      /\ current' = IF k = Handlers THEN <<>> ELSE current
  BY <1>2 DEF Handled
<1>4. Handlers = 3 /\ k \in 1..3
  BY ApplicationAssumption
<1>5. ASSUME NEW h \in 1..Handlers PROVE InOrder(h)'
  <2>1. PICK a \in Seq(Event) : a = seen[h]
    BY <1>1
  <2>2. CASE h = k
    <3>1. enqueued = a \o current \o queue
      <4>1. handler <= h /\ InOrder(h)
        BY <1>1, <1>4, <2>2 DEF DeliveryInv
      <4> QED BY <2>1, <4>1 DEF InOrder
    <3>2. seen'[h] = Append(a, e)
      BY <1>1, <1>3, <2>1, <2>2
    <3>3. ~(handler' <= h)
      BY <1>1, <1>4, <2>2
    <3>4. a \o <<e>> = Append(a, e) /\ Append(a, e) \o <<>> = Append(a, e)
      OBVIOUS
    <3>5. enqueued = Append(a, e) \o <<>> \o queue
      BY <1>2, <3>1, <3>4
    <3> QED BY <1>1, <3>2, <3>3, <3>5 DEF InOrder
  <2>3. CASE h < k
    <3>1. ~(handler <= h) /\ ~(handler' <= h) /\ seen'[h] = seen[h]
      BY <1>1, <1>3, <1>4, <2>3
    <3> QED BY <1>1, <3>1 DEF DeliveryInv, InOrder
  <2>4. CASE h > k
    <3>1. handler <= h /\ handler' <= h /\ seen'[h] = seen[h] /\ current' = current
      BY <1>1, <1>3, <1>4, <2>4
    <3> QED BY <1>1, <3>1 DEF DeliveryInv, InOrder
  <2> QED BY <1>4, <2>2, <2>3, <2>4
<1>6. QueueTypes'
  <2>1. seen' \in [1..Handlers -> Seq(Event)]
    BY <1>1, <1>3
  <2>2. current' \in Seq(Event) /\ Len(current') <= 1
    BY <1>1, <1>3
  <2>3. handler' \in Nat
    BY <1>1, <1>4
  <2> QED BY <1>1, <2>1, <2>2, <2>3 DEF DeliveryInv, QueueTypes
<1>7. NothingYet' /\ NeverEarly' /\ TimersOnce'
  BY <1>1 DEF DeliveryInv, NothingYet, NeverEarly, TimersOnce
<1> QED BY <1>5, <1>6, <1>7 DEF DeliveryInv

\* A timer is scheduled; it is not yet marked.
LEMMA ScheduleKeepsDelivery ==
  ASSUME DeliveryInv, NEW t \in TimerRecord, ~t.emitted, timers' = Append(timers, t),
         stage' \notin {"infrastructure", "recovery"},
         UNCHANGED <<now, queue, next_index, index, now_ms, current, handler, enqueued, seen>>
  PROVE  DeliveryInv'
<1>1. timers \in Seq(TimerRecord)
  BY DEF DeliveryInv, QueueTypes
<1>2. \A e : Marked(timers', e) = Marked(timers, e)
  BY <1>1, MarkedAppend
<1>3. TimersOnce'
  BY <1>2 DEF DeliveryInv, TimersOnce
<1>4. QueueTypes'
  BY <1>1 DEF DeliveryInv, QueueTypes
<1>5. \A h \in 1..Handlers : InOrder(h)'
  BY DEF DeliveryInv, InOrder
<1>6. NothingYet' /\ NeverEarly'
  BY DEF DeliveryInv, NothingYet, NeverEarly
<1> QED BY <1>3, <1>4, <1>5, <1>6 DEF DeliveryInv

LEMMA StartKeepsDelivery == ASSUME DeliveryInv, Start PROVE DeliveryInv'
<1>1. /\ queue' = <<>> /\ timers' = <<>> /\ next_index' = [i \in DOMAIN Sources |-> 1]
      /\ index' = 1 /\ now_ms' = 0 /\ current' = <<>> /\ handler' = 1
      /\ enqueued' = <<>> /\ seen' = [h \in 1..Handlers |-> <<>>] /\ now' = now
  BY DEF Start, FreshController, NoTimers
<1>2. QueueTypes'
  BY <1>1 DEF DeliveryInv, QueueTypes
<1>3. ASSUME NEW h \in 1..Handlers PROVE InOrder(h)'
  BY <1>1 DEF InOrder
<1>4. TimersOnce'
  <2>1. ASSUME NEW e PROVE Count(enqueued', e) = Marked(timers', e)
    <3>1. PICK s : s = enqueued' /\ s = timers' /\ s = <<>>
      BY <1>1
    <3>2. /\ {j \in DOMAIN s : s[j] = e} = {}
          /\ {j \in DOMAIN s : s[j].emitted /\ TimerEvent(s[j]) = e} = {}
      BY <3>1
    <3>3. Count(s, e) = Marked(s, e)
      BY <3>2 DEF Count, Marked
    <3> QED BY <3>1, <3>3
  <2> QED BY <2>1 DEF TimersOnce
<1>5. NothingYet' /\ NeverEarly'
  BY <1>1 DEF NothingYet, NeverEarly
<1> QED BY <1>2, <1>3, <1>4, <1>5 DEF DeliveryInv

LEMMA DeliveryInvNext == DeliveryInv /\ [Next]_vars => DeliveryInv'
<1> SUFFICES ASSUME DeliveryInv, [Next]_vars PROVE DeliveryInv'
  OBVIOUS
<1> USE ApplicationAssumption
<1>1. /\ now \in Nat /\ now_ms \in Nat /\ now_ms <= now /\ index \in Nat \ {0}
      /\ 0 <= now /\ now <= now
  BY DEF DeliveryInv, QueueTypes
<1>2. CASE Start
  BY <1>2, StartKeepsDelivery
<1>3. CASE Recover
  <2>1. PICK t : t = [id |-> 1, due |-> now, emitted |-> FALSE]
    OBVIOUS
  <2>2. t \in TimerRecord /\ ~t.emitted
    BY <1>1, <2>1 DEF TimerRecord, TimerIds
  <2>3. timers = <<>>
    BY <1>3 DEF Recover, DeliveryInv, NothingYet
  <2>4. timers' = Append(timers, t)
    BY <1>3, <2>1, <2>3 DEF Recover
  <2> QED BY <1>3, <2>2, <2>4, ScheduleKeepsDelivery DEF Recover
<1>4. CASE \E up \in BOOLEAN, allowed \in AllowFallback : Connect(up, allowed)
  BY <1>1, <1>4, DeliveryInvStutter DEF Connect, controllerVars
<1>5. CASE \E x \in Timers : Schedule(x)
  <2>1. PICK x \in Timers : Schedule(x)
    BY <1>5
  <2>2. PICK t : t = [id |-> x.id, due |-> x.due, emitted |-> FALSE]
    OBVIOUS
  <2>3. t \in TimerRecord /\ ~t.emitted
    BY <2>2 DEF TimerRecord, TimerIds
  <2>4. timers' = Append(timers, t)
    BY <2>1, <2>2 DEF Schedule, ScheduleTimer
  <2> QED BY <2>1, <2>3, <2>4, ScheduleKeepsDelivery DEF Schedule, ScheduleTimer
<1>6. CASE BeginCycle
  BY <1>1, <1>6, DeliveryInvStutter DEF BeginCycle, RunOnce
<1>7. CASE ControllerStep
  <2>1. stage = "running" /\ stage' = stage
    BY <1>7 DEF ControllerStep
  <2>2. CASE TimersScanned \/ SourcesPolled
    BY <1>1, <2>1, <2>2, DeliveryInvStutter DEF TimersScanned, SourcesPolled
  <2> QED BY <1>7, <2>1, <2>2, TimerKeepsDelivery, SourceKeepsDelivery, TakeKeepsDelivery
          DEF ControllerStep
<1>8. CASE EndCycle
  BY <1>1, <1>8, DeliveryInvStutter DEF EndCycle, Drained
<1>9. CASE \E o \in Outcome : RuntimeHandler(o)
  <2>1. Handled(1) /\ stage = "running" /\ stage' = stage
    BY <1>9 DEF RuntimeHandler
  <2> QED BY <2>1, HandledKeepsDelivery
<1>10. CASE LogHandler \/ LoggerHandler
  <2>1. (Handled(2) \/ Handled(3)) /\ stage = "running" /\ stage' = stage
    BY <1>10 DEF LogHandler, LoggerHandler
  <2> QED BY <2>1, HandledKeepsDelivery
<1>11. CASE (\E row \in Row : SaveRow(row)) \/ FinishRun \/ Crash \/ CrashInAppend
             \/ \E row, first \in Row : CrashInRewrite(row, first)
  <2>1. UNCHANGED <<now, controllerVars>> /\ stage' \in {"saving", "down"}
    BY <1>11 DEF SaveRow, FinishRun, Crash, CrashInAppend, CrashInRewrite
  <2> QED BY <1>1, <2>1, DeliveryInvStutter DEF controllerVars
<1>12. CASE Clock
  <2>1. now' = now + 1
    BY <1>12 DEF Clock, Tick
  <2> QED BY <1>1, <1>12, <2>1, DeliveryInvStutter DEF Clock, Tick, controllerVars
<1>13. CASE UNCHANGED vars
  BY <1>1, <1>13, DeliveryInvStutter DEF vars, controllerVars
<1> QED
  BY <1>2, <1>3, <1>4, <1>5, <1>6, <1>7, <1>8, <1>9, <1>10, <1>11, <1>12, <1>13 DEF Next, Thread

(***************************************************************************)
(* Every handler sees every event that entered the queue, once and in the  *)
(* order of arrival, and a timer enters it once for every time it was      *)
(* scheduled and never before it is due (run_once, enqueue_due_timers,     *)
(* drain and the dispatcher's publish).                                    *)
(***************************************************************************)
THEOREM DeliveryIsFifo == Spec => []FifoDelivery
<1>1. DeliveryInv => FifoDelivery
  <2> SUFFICES ASSUME DeliveryInv PROVE FifoDelivery
    OBVIOUS
  <2>1. ASSUME NEW i \in DOMAIN enqueued, IsTimer(enqueued[i])
        PROVE  Cardinality({j \in DOMAIN enqueued : enqueued[j] = enqueued[i]})
                 = Cardinality({j \in DOMAIN timers :
                                  timers[j].emitted /\ TimerEvent(timers[j]) = enqueued[i]})
    <3>1. enqueued[i] \in Event
      BY DEF DeliveryInv, QueueTypes
    <3> QED BY <2>1, <3>1 DEF DeliveryInv, TimersOnce, Count, Marked
  <2>2. \A h \in 1..Handlers :
          enqueued = seen[h] \o (IF handler <= h THEN current ELSE <<>>) \o queue
    BY DEF DeliveryInv, InOrder
  <2> QED BY <2>1, <2>2 DEF DeliveryInv, NeverEarly, FifoDelivery
<1> QED BY <1>1, DeliveryInvInit, DeliveryInvNext, PTL DEF Spec
=============================================================================
