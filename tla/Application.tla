----------------------------- MODULE Application -----------------------------
(***************************************************************************)
(* The application (application.cpp): a process resets the event log,      *)
(* connects to the native infrastructure or falls back to local files,     *)
(* recovers the portfolio from the stores of that mode, runs the engine    *)
(* controller with its three handlers (runtime and health, event log,      *)
(* logger), saves positions and balances row by row, and ends.  It may be  *)
(* killed at any point, also in the middle of rewriting a file, and        *)
(* started again, with the infrastructure there or not.                    *)
(*                                                                         *)
(* The runtime (module Runtime) appears by what the application sees of    *)
(* it: each event it handles approves, rejects and fills some orders for   *)
(* the first instrument of the configuration.  A fill buys one unit at     *)
(* price one; the rows count units.  Application calls run_once once;      *)
(* Cycles allows for a caller that goes on, so that timers which are due   *)
(* later are covered as well.                                              *)
(***************************************************************************)
EXTENDS EngineController, ReplayLog

CONSTANTS AllowFallback,    \* values infrastructure.allow_fallback may have
          Cycles,           \* how often a process may call run_once
          Instruments,      \* the instruments a configuration may name first
          MaxStarts,        \* bound on the number of processes
          MaxFills          \* bound on the fills of all processes

\* Rows of positions.tsv and balances.tsv, or of the native tables.  Every
\* instrument has a base asset of its own; they share the quote asset.  Keys are
\* ordered as their names are.
Quote == 0
Row == ({"position"} \X Instruments) \cup ({"balance"} \X (Instruments \cup {Quote}))

\* The sources are those of market data and of transactions.
SourceEvents == UNION {Range(Sources[i]) : i \in DOMAIN Sources}

ASSUME ApplicationAssumption ==
  /\ AllowFallback \subseteq BOOLEAN /\ Cycles >= 1 /\ Handlers = 3
  /\ Instruments \subseteq Nat \ {Quote}
  /\ Sources \in Seq(Seq(SourceEvents))
  /\ \A e \in SourceEvents : e[1] \in {<<Market>>, <<Transaction>>}
  /\ \A t \in Timers : t.due \in Int

VARIABLES stage,            \* where run stands
          mode,             \* infrastructure_mode
          primary,          \* config.instruments.front()
          store,            \* the rows each mode keeps
          unreadable,       \* loading a local file throws
          snapshot,         \* the startup snapshot in the native market cache
          portfolio,        \* the rows of the portfolio service of the runtime
          saved,            \* rows the loops at the end of run have saved
          log,              \* the lines of the event log
          health,           \* component_statuses_
          cycles,           \* calls of run_once so far
          starts,           \* history: processes so far
          cut,              \* history: the log ends in a line that was cut
          fills,            \* history: fills of all processes
          moved,            \* history: what the fills of this process add to each row
          counted           \* history: what those of the processes that saved a row add

processVars == <<mode, primary, portfolio, log, health, cycles, starts, cut, fills, moved>>
storeVars == <<store, unreadable, snapshot, saved, counted>>
vars == <<now, controllerVars, stage, processVars, storeVars>>

Modes == {"native", "fallback"}
Components == {"ingestion", "market_data", "risk", "execution"}
Unknown == [c \in Components |-> "unknown"]

Nothing == [row \in Row |-> 0]

Init ==
  /\ now = 1
  /\ queue = <<>> /\ timers = NoTimers /\ next_index = [i \in DOMAIN Sources |-> 1]
  /\ step = "idle" /\ index = 1 /\ now_ms = 0 /\ current = <<>> /\ handler = 1
  /\ enqueued = <<>> /\ seen = [h \in 1..Handlers |-> <<>>]
  /\ stage = "down" /\ mode = "native" /\ primary \in Instruments
  /\ store = [m \in Modes |-> <<>>] /\ unreadable = FALSE /\ snapshot = 0 /\ saved = {}
  /\ portfolio = <<>>
  /\ log = <<>> /\ health = Unknown /\ cycles = 0 /\ starts = 0 /\ cut = FALSE
  /\ fills = 0 /\ moved = Nothing /\ counted = [m \in Modes |-> Nothing]

----------------------------------------------------------------------------
(* Startup                                                                 *)

\* Mutant: the log of the last process is kept.
StartKeepsLog ==
  /\ stage = "down" /\ starts < MaxStarts
  /\ FreshController
  /\ stage' = "infrastructure" /\ primary' \in Instruments
  /\ cut' = FALSE
  /\ portfolio' = <<>> /\ saved' = {} /\ moved' = Nothing
  /\ health' = Unknown /\ cycles' = 0 /\ starts' = starts + 1
  /\ UNCHANGED <<now, mode, log, fills, store, unreadable, snapshot, counted>>

\* The configuration is read; the event log is removed before anything else
\* happens.
Start ==
  /\ stage = "down" /\ starts < MaxStarts
  /\ FreshController
  /\ stage' = "infrastructure" /\ primary' \in Instruments
  /\ log' = <<>> /\ cut' = FALSE
  /\ portfolio' = <<>> /\ saved' = {} /\ moved' = Nothing
  /\ health' = Unknown /\ cycles' = 0 /\ starts' = starts + 1
  /\ UNCHANGED <<now, mode, fills, store, unreadable, snapshot, counted>>

\* All native clients connect, or one of them throws: then all stores are the
\* local ones, which are loaded here, or the process ends.
Connect(up, allowed) ==
  /\ stage = "infrastructure"
  /\ IF up \/ (allowed /\ ~unreadable)
     THEN /\ mode' = IF up THEN "native" ELSE "fallback"
          /\ stage' = "recovery"
     ELSE mode' = mode /\ stage' = "down"
  /\ UNCHANGED <<now, controllerVars, primary, portfolio, log, health, cycles, starts, cut,
                 fills, moved, storeVars>>

\* The market cache of the fallback is lost with the process.
UpsertSnapshot == snapshot' = IF mode = "native" THEN starts ELSE snapshot

\* Mutant: the runtime is not given what was recovered.
RecoverNothing ==
  /\ stage = "recovery"
  /\ portfolio' = <<>>
  /\ UpsertSnapshot
  /\ timers' = <<[id |-> 1, due |-> now, emitted |-> FALSE]>>
  /\ stage' = "ready"
  /\ UNCHANGED <<now, queue, next_index, step, index, now_ms, current, handler, enqueued, seen,
                 mode, primary, log, health, cycles, starts, cut, fills, moved,
                 store, unreadable, saved, counted>>

\* recover and restore_runtime; recover also puts the startup snapshot in the
\* market cache.  The health-check timer is scheduled for now.
Recover ==
  /\ stage = "recovery"
  /\ portfolio' = store[mode]
  /\ UpsertSnapshot
  /\ timers' = <<[id |-> 1, due |-> now, emitted |-> FALSE]>>
  /\ stage' = "ready"
  /\ UNCHANGED <<now, queue, next_index, step, index, now_ms, current, handler, enqueued, seen,
                 mode, primary, log, health, cycles, starts, cut, fills, moved,
                 store, unreadable, saved, counted>>

----------------------------------------------------------------------------
(* The run                                                                 *)

Schedule(t) ==
  /\ stage = "ready" /\ ScheduleTimer(t)
  /\ UNCHANGED <<stage, processVars, storeVars>>

BeginCycle ==
  /\ stage = "ready" /\ cycles < Cycles
  /\ RunOnce
  /\ stage' = "running" /\ cycles' = cycles + 1
  /\ UNCHANGED <<mode, primary, portfolio, log, health, starts, cut, fills, moved, storeVars>>

ControllerStep ==
  /\ stage = "running"
  /\ EnqueueDueTimer \/ TimersScanned \/ PollSource \/ SourcesPolled \/ TakeEvent
  /\ UNCHANGED <<stage, processVars, storeVars>>

EndCycle ==
  /\ stage = "running" /\ Drained
  /\ stage' = "ready"
  /\ UNCHANGED <<processVars, storeVars>>

\* What the counters of the runtime may show after one event.
Outcome == [approved: 0..1, rejected: 0..1, fills: 0..1]

\* The statuses the first handler sets.
HealthAfter(e, o) ==
  [c \in Components |->
     CASE c = "market_data" /\ e[1] = <<Market>> -> "healthy"
       [] c = "ingestion" /\ e[1] = <<Transaction>> -> "healthy"
       [] c = "risk" /\ o.rejected > 0 -> "degraded"
       [] c = "risk" /\ o.rejected = 0 /\ o.approved > 0 -> "healthy"
       [] c = "execution" /\ o.fills > 0 -> "healthy"
       [] OTHER -> health[c]]

\* The row of an asset or instrument, and what a fill adds to it; fills of an
\* instrument touch its position, its base balance and the quote balance.
Amount(rows, row) == IF row \in DOMAIN rows THEN rows[row] ELSE 0

Touched(i) == {<<"position", i>>, <<"balance", i>>, <<"balance", Quote>>}
Move(i, n, row) ==
  IF n = 0 \/ row \notin Touched(i) THEN 0 ELSE IF row = <<"balance", Quote>> THEN -n ELSE n

\* apply_fill of the portfolio service
ApplyFills(rows, i, n) ==
  [row \in DOMAIN rows \cup (IF n > 0 THEN Touched(i) ELSE {}) |->
     Amount(rows, row) + Move(i, n, row)]

\* The first handler: the runtime, then the health of its components.
RuntimeHandler(o) ==
  /\ stage = "running" /\ Handled(1)
  /\ fills + o.fills <= MaxFills
  /\ portfolio' = ApplyFills(portfolio, primary, o.fills)
  /\ health' = HealthAfter(current[1], o)
  /\ fills' = fills + o.fills
  /\ moved' = [row \in Row |-> moved[row] + Move(primary, o.fills, row)]
  /\ UNCHANGED <<stage, mode, primary, log, cycles, starts, cut, storeVars>>

\* The second handler: append_event of the replay service.
LogHandler ==
  /\ stage = "running" /\ Handled(2)
  /\ log' = AppendEvent(log, current[1])
  /\ UNCHANGED <<stage, mode, primary, portfolio, health, cycles, starts, cut, fills, moved,
                 storeVars>>

\* The third handler writes a message.
LoggerHandler ==
  /\ stage = "running" /\ Handled(3)
  /\ UNCHANGED <<stage, processVars, storeVars>>

----------------------------------------------------------------------------
(* The end                                                                 *)

\* The loops over all_positions and all_balances, in the order of a hash map:
\* this row is next.
SavesNext(row) ==
  /\ stage \in {"ready", "saving"} /\ cycles >= 1
  /\ row \in DOMAIN portfolio \ saved
  /\ row[1] = "balance" => \A r \in DOMAIN portfolio : r[1] = "position" => r \in saved

With(rows, row, amount) ==
  [r \in DOMAIN rows \cup {row} |-> IF r = row THEN amount ELSE rows[r]]

\* save_position, save_balance: an upsert, or a whole new file
SaveRow(row) ==
  /\ SavesNext(row)
  /\ store' = [store EXCEPT ![mode] = With(@, row, portfolio[row])]
  /\ counted' = [counted EXCEPT ![mode][row] = @ + moved[row]]
  /\ saved' = saved \cup {row} /\ stage' = "saving"
  /\ UNCHANGED <<now, controllerVars, processVars, unreadable, snapshot>>

\* All is saved; the startup snapshot goes to the cache once more; run returns.
FinishRun ==
  /\ stage \in {"ready", "saving"} /\ cycles >= 1
  /\ saved = DOMAIN portfolio
  /\ UpsertSnapshot
  /\ stage' = "down"
  /\ UNCHANGED <<now, controllerVars, processVars, store, unreadable, saved, counted>>

\* The file is truncated and written row by row in the order of the keys; the
\* process ends while it writes the row `first`.  This row and those after it
\* are gone; or what is left of it ends in a sign, and load will throw: the
\* last number of a row is the profit of a position or the available balance.
\* (A row cut inside its last number is read, with the right quantity.)
CrashInRewrite(row, first) ==
  LET after == With(store[mode], row, portfolio[row])
      lost == {r \in DOMAIN after : r[1] = first[1] /\ r[2] >= first[2]}
  IN  /\ SavesNext(row) /\ mode = "fallback"
      /\ first \in DOMAIN after /\ first[1] = row[1]
      /\ store' = [store EXCEPT ![mode] = [r \in DOMAIN after \ lost |-> after[r]]]
      /\ counted' = [counted EXCEPT ![mode] =
           [r \in Row |-> IF r \in lost THEN 0 ELSE @[r] + (IF r = row THEN moved[r] ELSE 0)]]
      /\ \/ unreadable' = unreadable
         \/ (first[1] = "position" \/ after[first] < 0) /\ unreadable' = TRUE
      /\ stage' = "down"
      /\ UNCHANGED <<now, controllerVars, processVars, snapshot, saved>>

Crash ==
  /\ stage # "down"
  /\ stage' = "down"
  /\ UNCHANGED <<now, controllerVars, processVars, storeVars>>

\* The process ends in append_event: the log ends in a part of the line.
CrashInAppend ==
  /\ stage = "running" /\ step = "drain" /\ current # <<>> /\ handler = 2
  /\ \E line \in CutLines(SerializeEvent(current[1])) : log' = Append(log, line)
  /\ cut' = TRUE
  /\ stage' = "down"
  /\ UNCHANGED <<now, controllerVars, mode, primary, portfolio, health, cycles, starts, fills,
                 moved, storeVars>>

Clock == Tick /\ UNCHANGED <<stage, processVars, storeVars>>

----------------------------------------------------------------------------
Thread ==
  \/ ControllerStep \/ EndCycle \/ \E o \in Outcome : RuntimeHandler(o)
  \/ LogHandler \/ LoggerHandler

Next ==
  \/ Start \/ Recover \/ \E up \in BOOLEAN, allowed \in AllowFallback : Connect(up, allowed)
  \/ \E t \in Timers : Schedule(t)
  \/ BeginCycle \/ Thread \/ \E row \in Row : SaveRow(row)
  \/ FinishRun
  \/ Crash \/ CrashInAppend \/ \E row, first \in Row : CrashInRewrite(row, first)
  \/ Clock

\* run_once is a loop of one thread that nothing blocks.
Spec == Init /\ [][Next]_vars /\ WF_vars(Thread)

----------------------------------------------------------------------------
(* Properties                                                              *)

IsTimer(e) == e[1] = <<Timer>>

\* Every handler sees every event that entered the queue, once and in the order
\* of arrival; and a timer enters it once, never before it is due, whatever the
\* number of cycles it waits for.
FifoDelivery ==
  /\ \A h \in 1..Handlers :
       enqueued = seen[h] \o (IF handler <= h THEN current ELSE <<>>) \o queue
  /\ \A i \in DOMAIN enqueued : IsTimer(enqueued[i]) =>
       /\ enqueued[i][3][1] <= now
       /\ Cardinality({j \in DOMAIN enqueued : enqueued[j] = enqueued[i]})
            = Cardinality({j \in DOMAIN timers :
                             timers[j].emitted /\ TimerEvent(timers[j]) = enqueued[i]})

RoundedEvent(e) ==
  LET columns == EventColumns[e[1][1]]
  IN  [i \in DOMAIN e |->
         IF e[i] = <<>> THEN e[i]
         ELSE CASE columns[i] = "optional" -> <<SixDecimals(e[i][1])>>
                [] columns[i] = "short" -> <<SixDigits(e[i][1])>>
                [] columns[i] = "levels" -> <<EncodeLevels(e[i][1])>>
                [] OTHER -> e[i]]

\* Replaying the event log gives the events the log handler was given, in their
\* order and with the numbers as the text keeps them.  When the process was
\* killed while it appended one, that last event is missing or has the right
\* kind and id, and perhaps other timestamps and no book levels; none of the
\* events before it is touched.
ReplayMatchesHandled ==
  LET handled == [i \in DOMAIN seen[2] |-> RoundedEvent(seen[2][i])]
      replayed == Replay(log)
      n == Len(handled)
      stats == ReplayStats(log)
  IN  /\ SubSeq(replayed, 1, n) = handled
      /\ ~cut => Len(replayed) = n
      /\ cut /\ Len(replayed) # n => /\ Len(replayed) = n + 1
                                     /\ SubSeq(replayed[n + 1], 1, 2) = SubSeq(current[1], 1, 2)
      /\ stats.total_records = stats.replayed_records + stats.skipped_records

\* Every row a mode keeps is the sum of the fills of the processes that ran in
\* this mode and came to save this row, however often processes were killed
\* between two rows and modes changed in between: no process undoes or repeats
\* what an earlier one saved.  Of the local files this holds since the row was
\* last lost: every save truncates the file and writes all rows again, so that a
\* process killed in it takes away rows that earlier processes had saved, and
\* they start again at nothing.
CompletedRunsAddUp ==
  \A m \in Modes : \A row \in Row : Amount(store[m], row) = counted[m][row]

\* Once run_once is called, all events that entered the queue reach every
\* handler, unless the process ends.
EventsReachEveryHandler ==
  (stage = "running") ~> (stage = "down" \/ \A h \in 1..Handlers : seen[h] = enqueued)
=============================================================================
