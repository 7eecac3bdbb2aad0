-------------------------- MODULE EngineController --------------------------
(***************************************************************************)
(* The engine controller and its dispatcher (engine_controller.cpp,        *)
(* event_dispatcher.hpp): run_once enqueues the timers that are due, polls *)
(* every source once and publishes the queued events one by one to the     *)
(* handlers, in the order of their registration.  The handlers' own work   *)
(* is the business of the module that extends this one.                    *)
(***************************************************************************)
EXTENDS Integers, Sequences

CONSTANTS Sources,          \* the event lists of the sources, in polling order
          Handlers,         \* number of handlers
          Timers,           \* timers that may be scheduled: [id, due]
          MaxTimers,        \* bound on timers_
          MaxNow            \* bound on the clock

VARIABLES now,              \* the clock
          queue,            \* queue_
          timers,           \* timers_, each [id, due, emitted]
          next_index,       \* next_index_ of every source
          step,             \* where run_once stands: idle, timers, sources, drain
          index,            \* index of the loops over timers and sources
          now_ms,           \* the clock as the loop over timers has read it
          current,          \* <<event>> in publish, else <<>>
          handler,          \* the handler to call
          enqueued,         \* history: every event that entered the queue
          seen              \* history: the events every handler has handled

controllerVars == <<queue, timers, next_index, step, index, now_ms, current, handler, enqueued,
                    seen>>

NoTimers == <<>>

FreshController ==
  /\ queue' = <<>> /\ timers' = NoTimers /\ next_index' = [i \in DOMAIN Sources |-> 1]
  /\ step' = "idle" /\ index' = 1 /\ now_ms' = 0 /\ current' = <<>> /\ handler' = 1
  /\ enqueued' = <<>> /\ seen' = [h \in 1..Handlers |-> <<>>]

\* schedule_timer
ScheduleTimer(t) ==
  /\ step = "idle" /\ Len(timers) < MaxTimers
  /\ timers' = Append(timers, [id |-> t.id, due |-> t.due, emitted |-> FALSE])
  /\ UNCHANGED <<now, queue, next_index, step, index, now_ms, current, handler, enqueued, seen>>

\* run_once is called; enqueue_due_timers reads the clock once.
RunOnce ==
  /\ step = "idle"
  /\ step' = "timers" /\ index' = 1 /\ now_ms' = now
  /\ UNCHANGED <<now, queue, timers, next_index, current, handler, enqueued, seen>>

TimerEvent(t) == << <<3>>, <<t.id>>, <<t.due>> >>

Due(t) == ~t.emitted /\ t.due <= now_ms

Enqueue(e) == queue' = Append(queue, e) /\ enqueued' = Append(enqueued, e)

\* Mutant: the timer that was emitted is not marked.
UnmarkedTimer ==
  /\ step = "timers" /\ index <= Len(timers)
  /\ IF Due(timers[index]) THEN Enqueue(TimerEvent(timers[index]))
                            ELSE UNCHANGED <<queue, enqueued>>
  /\ index' = index + 1
  /\ UNCHANGED <<now, timers, next_index, step, now_ms, current, handler, seen>>

\* enqueue_due_timers, one timer
EnqueueDueTimer ==
  /\ step = "timers" /\ index <= Len(timers)
  /\ IF Due(timers[index])
     THEN /\ Enqueue(TimerEvent(timers[index]))
          /\ timers' = [timers EXCEPT ![index].emitted = TRUE]
     ELSE UNCHANGED <<queue, enqueued, timers>>
  /\ index' = index + 1
  /\ UNCHANGED <<now, next_index, step, now_ms, current, handler, seen>>

TimersScanned ==
  /\ step = "timers" /\ index > Len(timers)
  /\ step' = "sources" /\ index' = 1 /\ now_ms' = 0
  /\ UNCHANGED <<now, queue, timers, next_index, current, handler, enqueued, seen>>

\* poll_sources_once, one source: its next event, if one is left
PollSource ==
  /\ step = "sources" /\ index <= Len(Sources)
  /\ IF next_index[index] <= Len(Sources[index])
     THEN /\ Enqueue(Sources[index][next_index[index]])
          /\ next_index' = [next_index EXCEPT ![index] = @ + 1]
     ELSE UNCHANGED <<queue, enqueued, next_index>>
  /\ index' = index + 1
  /\ UNCHANGED <<now, timers, step, now_ms, current, handler, seen>>

SourcesPolled ==
  /\ step = "sources" /\ index > Len(Sources)
  /\ step' = "drain"
  /\ UNCHANGED <<now, queue, timers, next_index, index, now_ms, current, handler, enqueued, seen>>

\* drain takes the front event, before it is published.
TakeEvent ==
  /\ step = "drain" /\ current = <<>> /\ queue # <<>>
  /\ current' = <<Head(queue)>>
  /\ queue' = Tail(queue)
  /\ handler' = 1
  /\ UNCHANGED <<now, timers, next_index, step, index, now_ms, enqueued, seen>>

\* publish: the next handler is called and returns
Handled(h) ==
  /\ step = "drain" /\ current # <<>> /\ handler = h
  /\ seen' = [seen EXCEPT ![h] = Append(@, current[1])]
  /\ IF h = Handlers THEN current' = <<>> ELSE current' = current
  /\ handler' = h + 1
  /\ UNCHANGED <<now, queue, timers, next_index, step, index, now_ms, enqueued>>

\* Mutant: drain publishes what it finds and does not look again.
DrainsOnce ==
  /\ step = "drain" /\ current = <<>>
  /\ step' = "idle"
  /\ UNCHANGED <<now, queue, timers, next_index, index, now_ms, current, handler, enqueued, seen>>

\* drain and run_once return.
Drained ==
  /\ step = "drain" /\ current = <<>> /\ queue = <<>>
  /\ step' = "idle"
  /\ UNCHANGED <<now, queue, timers, next_index, index, now_ms, current, handler, enqueued, seen>>

Tick ==
  /\ now < MaxNow
  /\ now' = now + 1
  /\ UNCHANGED controllerVars
=============================================================================
