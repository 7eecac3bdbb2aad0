------------------------ MODULE TransactionIngestion ------------------------
(***************************************************************************)
(* Transaction ingestion and its recovery: the steps of process_next       *)
(* (transaction_ingestor.cpp) over a Kafka consumer                        *)
(* (kafka_transaction_consumer.cpp), the durable transaction records, the  *)
(* status cache, and the restart through RecoveryService                   *)
(* (recovery_service.cpp).  The process may die between any two of the     *)
(* effects of process_next.                                                *)
(*                                                                         *)
(* Kafka is external: each partition is a log that outlives the process, a *)
(* new client is assigned every partition at the committed offset, and     *)
(* rd_kafka_assign replaces the assignment.  The consumer group has one    *)
(* member, so no rebalance follows.                                        *)
(***************************************************************************)
EXTENDS Integers, Sequences

CONSTANTS Partitions,       \* partitions of the transaction topic
          Log,              \* Log[p]: its messages, [id, kind]
          NoMessage,        \* the value of current between messages
          MaxCrashes        \* bound on crashes

Kinds == {"valid", "invalid", "malformed"}

ASSUME LogAssumption ==
  /\ Log \in [Partitions -> Seq([id: STRING, kind: Kinds])]
  /\ NoMessage \notin [partition: Partitions, offset: Nat]
  /\ MaxCrashes \in Nat

VARIABLES committed,        \* broker: next offset of the group, by partition
          assigned,         \* client: partitions it consumes
          position,         \* client: offset of the next message, by partition
          records,          \* durable: id -> [status, partition, offset]
          cache,            \* transaction cache: id -> status
          pc,               \* next effect of process_next, or a restart step
          current,          \* the message process_next is working on
          checkpoints,      \* resume_kafka: partition -> offset, still to seek
          crashes,          \* how often the process died
          published,        \* history: how often each message was published
          done              \* history: messages whose outcome was recorded

clientVars == <<assigned, position>>
vars == <<committed, clientVars, records, cache, pc, current, checkpoints,
          crashes, published, done>>

\* A message of the topic; offsets count from 0.
Messages == UNION {{[partition |-> p, offset |-> k - 1] : k \in DOMAIN Log[p]} :
                     p \in Partitions}

MessageAt(m) == Log[m.partition][m.offset + 1]

Put(f, key, value) == [x \in DOMAIN f \cup {key} |-> IF x = key THEN value ELSE f[x]]

Init ==
  /\ committed = [p \in Partitions |-> 0]
  /\ assigned = Partitions
  /\ position = [p \in Partitions |-> 0]
  /\ records = <<>>
  /\ cache = <<>>
  /\ pc = "idle"
  /\ current = NoMessage
  /\ checkpoints = <<>>
  /\ crashes = 0
  /\ published = [m \in Messages |-> 0]
  /\ done = {}

----------------------------------------------------------------------------
(* process_next                                                            *)

\* rd_kafka_commit of a message: its successor is the next offset to read.
CommitOffset(m) == committed' = [committed EXCEPT ![m.partition] = m.offset + 1]

(***************************************************************************)
(* poll: the next message of some partition.  One that does not parse is   *)
(* committed at once and the loop of poll goes on; the others start the    *)
(* handling of a command.                                                  *)
(***************************************************************************)
Poll ==
  /\ pc = "idle"
  /\ \E p \in assigned :
       LET m == [partition |-> p, offset |-> position[p]]
       IN  /\ m \in Messages
           /\ position' = [position EXCEPT ![p] = @ + 1]
           /\ IF MessageAt(m).kind = "malformed"
              THEN /\ CommitOffset(m)
                   /\ UNCHANGED <<pc, current>>
              ELSE /\ pc' = "save_received"
                   /\ current' = m
                   /\ UNCHANGED committed
  /\ UNCHANGED <<assigned, records, cache, checkpoints, crashes, published, done>>

\* is_valid, and the status the command ends with
Outcome(m) == IF MessageAt(m).kind = "valid" THEN "processed" ELSE "rejected"

\* repository_.save_received: inserts the record or resets it.
SaveReceived ==
  /\ pc = "save_received"
  /\ records' = Put(records, MessageAt(current).id,
                    [status |-> "received", partition |-> current.partition,
                     offset |-> current.offset])
  /\ pc' = "cache_received"
  /\ UNCHANGED <<committed, clientVars, cache, current, checkpoints, crashes,
                 published, done>>

\* Mutant: the offset is committed before the outcome is recorded.
CacheReceivedCommits ==
  /\ pc = "cache_received"
  /\ cache' = Put(cache, MessageAt(current).id, "received")
  /\ CommitOffset(current)
  /\ pc' = IF Outcome(current) = "processed" THEN "publish" ELSE "save_outcome"
  /\ UNCHANGED <<clientVars, records, current, checkpoints, crashes, published, done>>

\* cache_.set_status("received"), and the branch on is_valid
CacheReceived ==
  /\ pc = "cache_received"
  /\ cache' = Put(cache, MessageAt(current).id, "received")
  /\ pc' = IF Outcome(current) = "processed" THEN "publish" ELSE "save_outcome"
  /\ UNCHANGED <<committed, clientVars, records, current, checkpoints, crashes,
                 published, done>>

\* dispatcher_.publish
Publish ==
  /\ pc = "publish"
  /\ published' = [published EXCEPT ![current] = @ + 1]
  /\ pc' = "save_outcome"
  /\ UNCHANGED <<committed, clientVars, records, cache, current, checkpoints,
                 crashes, done>>

\* repository_.save_processed
SaveOutcome ==
  /\ pc = "save_outcome"
  /\ records' = [records EXCEPT ![MessageAt(current).id].status = Outcome(current)]
  /\ done' = done \cup {current}
  /\ pc' = "cache_outcome"
  /\ UNCHANGED <<committed, clientVars, cache, current, checkpoints, crashes,
                 published>>

\* cache_.set_status of the outcome
CacheOutcome ==
  /\ pc = "cache_outcome"
  /\ cache' = Put(cache, MessageAt(current).id, Outcome(current))
  /\ pc' = "commit"
  /\ UNCHANGED <<committed, clientVars, records, current, checkpoints, crashes,
                 published, done>>

\* consumer_.commit, and the return of process_next
Commit ==
  /\ pc = "commit"
  /\ CommitOffset(current)
  /\ pc' = "idle"
  /\ current' = NoMessage
  /\ UNCHANGED <<clientVars, records, cache, checkpoints, crashes, published, done>>

----------------------------------------------------------------------------
(* Crash and recovery                                                      *)

\* The process dies; the broker, the records and the cache server survive.
Crash ==
  /\ pc # "down"
  /\ crashes < MaxCrashes
  /\ crashes' = crashes + 1
  /\ pc' = "down"
  /\ current' = NoMessage
  /\ checkpoints' = <<>>
  /\ UNCHANGED <<committed, clientVars, records, cache, published, done>>

\* Offsets of one partition whose record says processed.
ProcessedOffsets(p) ==
  {records[id].offset : id \in {x \in DOMAIN records :
     records[x].partition = p /\ records[x].status = "processed"}}

Highest(S) == CHOOSE n \in S : \A m \in S : m <= n

\* Mutant: a received record counts as a checkpoint.
CheckpointsOfReceived ==
  LET offsets(p) == {records[id].offset : id \in {x \in DOMAIN records :
                                                    records[x].partition = p}}
  IN  [p \in {q \in Partitions : offsets(q) # {}} |-> Highest(offsets(p))]

\* The checkpoints recover derives; nothing in the program saves explicit ones.
Checkpoints ==
  [p \in {q \in Partitions : ProcessedOffsets(q) # {}} |-> Highest(ProcessedOffsets(p))]

\* Mutant: recovery does not warm the cache.
WarmedNot == cache

\* transaction_cache_.set_status for every record
Warmed ==
  [id \in DOMAIN cache \cup DOMAIN records |->
     IF id \in DOMAIN records THEN records[id].status ELSE cache[id]]

\* A new process with a new client calls recover.
Recover ==
  /\ pc = "down"
  /\ cache' = Warmed
  /\ assigned' = Partitions
  /\ position' = committed
  /\ checkpoints' = Checkpoints
  /\ pc' = "resume"
  /\ UNCHANGED <<committed, records, current, crashes, published, done>>

\* Mutant: the checkpoint itself is read again.
NextOffsetAgain(offset) == offset

\* Mutant: the message after the checkpoint is skipped.
NextOffsetSkips(offset) == offset + 2

\* The offset resume_kafka seeks to.
NextOffset(offset) == offset + 1

\* One iteration of resume_kafka, in any order: seek assigns one partition.
Seek ==
  /\ pc = "resume"
  /\ \E p \in DOMAIN checkpoints :
       /\ assigned' = {p}
       /\ position' = [position EXCEPT ![p] = NextOffset(checkpoints[p])]
       /\ checkpoints' = [q \in DOMAIN checkpoints \ {p} |-> checkpoints[q]]
  /\ UNCHANGED <<committed, records, cache, pc, current, crashes, published, done>>

Resumed ==
  /\ pc = "resume"
  /\ DOMAIN checkpoints = {}
  /\ pc' = "idle"
  /\ UNCHANGED <<committed, clientVars, records, cache, current, checkpoints,
                 crashes, published, done>>

Step ==
  \/ Poll
  \/ SaveReceived
  \/ CacheReceived
  \/ Publish
  \/ SaveOutcome
  \/ CacheOutcome
  \/ Commit
  \/ Recover
  \/ Seek
  \/ Resumed

Next == Step \/ Crash

\* An exception that leaves process_next ends the process: a crash.  (A caller
\* that caught it would go on behind a message that is not handled.)
Spec == Init /\ [][Next]_vars

\* The caller keeps calling process_next, and a dead process is started again.
FairSpec == Spec /\ WF_vars(Step)

----------------------------------------------------------------------------
Offsets(p) == {m \in Messages : m.partition = p}

\* Nothing has to be done for a message that does not parse.
Settled(m) == m \in done \/ MessageAt(m).kind = "malformed"

(***************************************************************************)
(* Type correctness of broker, client, storage and process.                *)
(***************************************************************************)
TypeOK ==
  /\ assigned \subseteq Partitions
  /\ \A p \in Partitions : committed[p] \in 0..Len(Log[p]) /\ position[p] \in 0..Len(Log[p])
  /\ \A id \in DOMAIN records :
       /\ records[id].status \in {"received", "processed", "rejected"}
       /\ [partition |-> records[id].partition, offset |-> records[id].offset] \in Messages
  /\ DOMAIN cache \subseteq DOMAIN records
  /\ current \in Messages \cup {NoMessage}
  /\ (current = NoMessage) <=> pc \in {"idle", "down", "resume"}
  /\ DOMAIN checkpoints \subseteq Partitions

(***************************************************************************)
(* "Commit Kafka consumer offsets only after transaction handling reaches  *)
(* the intended processing checkpoint" (crypto_trading_engine_design.md):  *)
(* every message below a committed offset has a recorded outcome, wherever *)
(* the process died and was restarted.                                     *)
(***************************************************************************)
CommittedAfterHandling ==
  \A m \in Messages : m.offset < committed[m.partition] => Settled(m)

(***************************************************************************)
(* The client never stands past a message that nobody has handled: poll,   *)
(* the derived checkpoints and the seeks of a recovery skip nothing.       *)
(***************************************************************************)
NothingSkipped ==
  \A m \in Messages :
    m.partition \in assigned /\ m.offset < position[m.partition] /\ pc # "down"
      => Settled(m) \/ m = current

(***************************************************************************)
(* The runtime sees a command whose offset was committed once and no more: *)
(* a restart seeks to the derived checkpoint and not to the committed      *)
(* offset, which may lie further, but what lies between is never published *)
(* (checked for logs that do not repeat a transaction id).                 *)
(***************************************************************************)
CommittedNotRepublished ==
  [][\A m \in Messages :
       m.offset < committed[m.partition] => published'[m] = published[m]]_vars

(***************************************************************************)
(* Between two messages the cache shows the durable status of every        *)
(* transaction, also after a crash between a save and its cache update.    *)
(***************************************************************************)
CacheAgrees ==
  pc = "idle" => cache = [id \in DOMAIN records |-> records[id].status]

(***************************************************************************)
(* Every message of a partition that the client consumes is handled in the *)
(* end, unless a restart takes the partition away from the client.  It does*)
(* so to all partitions but one: each seek of resume_kafka replaces the    *)
(* assignment, although consumption is to resume "from the intended        *)
(* committed position after recovery" (implementation_plan_by_phase.md).   *)
(***************************************************************************)
Progress ==
  \A m \in Messages :
    (m.partition \in assigned) ~> (Settled(m) \/ m.partition \notin assigned)
=============================================================================
