----------------------------- MODULE Repository -----------------------------
(***************************************************************************)
(* What a repository that survives restarts promises                       *)
(* (storage_interfaces.hpp).  memory is what its readers see, durable what *)
(* a restart would find.  A save changes one row in memory and is then     *)
(* made durable: every row is kept, its values rounded to what the back    *)
(* end keeps of them (Kept).  A write that is cut short keeps the first    *)
(* rows only, the last of them possibly with a wrong last column.          *)
(***************************************************************************)
EXTENDS Integers, SequencesExt

CONSTANTS Kept(_, _),       \* what a complete write of a table keeps of its rows
          Ordered(_, _),    \* the rows of a table in the order they are written
          Log               \* tables whose rows are never replaced

VARIABLES table, memory, durable, status

vars == <<table, memory, durable, status>>

Init == memory = durable /\ status = "up"

\* One row is put in place, or a new one added.
Put ==
  /\ status = "up" /\ status' = "saving"
  /\ \E key \in DOMAIN memory' :
       /\ table \in Log => key = Len(memory) + 1
       /\ DOMAIN memory' = DOMAIN memory \cup {key}
       /\ \A other \in DOMAIN memory \ {key} : memory'[other] = memory[other]
  /\ UNCHANGED <<table, durable>>

\* The write is complete.
Commit ==
  /\ status = "saving" /\ status' = "up"
  /\ durable' = Kept(table, memory)
  /\ UNCHANGED <<table, memory>>

\* a agrees with b but perhaps in the last column.
ButLast(a, b) == Len(a) = Len(b) /\ Front(a) = Front(b)

\* The write is cut short; the process goes on or is gone.
Cut ==
  /\ status = "saving" /\ status' \in {"up", "down"}
  /\ LET found == Ordered(table, durable')
         whole == Ordered(table, Kept(table, memory))
         n == Len(found)
     IN  /\ n <= Len(whole)
         /\ n > 0 => /\ Front(found) = SubSeq(whole, 1, n - 1)
                     /\ ButLast(Last(found), whole[n])
  /\ UNCHANGED <<table, memory>>

\* The process stops before the write began, or while none is under way.
Stop ==
  /\ status \in {"up", "saving"} /\ status' = "down"
  /\ UNCHANGED <<table, memory, durable>>

\* A new process reads what is durable, or cannot.
Open ==
  /\ status = "down"
  /\ \/ status' = "up" /\ memory' = durable
     \/ status' = "failed" /\ memory' = memory
  /\ UNCHANGED <<table, durable>>

Next == Put \/ Commit \/ Cut \/ Stop \/ Open

Spec == Init /\ [][Next]_vars
=============================================================================
