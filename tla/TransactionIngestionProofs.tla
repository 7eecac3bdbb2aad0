--------------------- MODULE TransactionIngestionProofs ---------------------
(***************************************************************************)
(* Proofs about transaction ingestion and its recovery, for any number of  *)
(* partitions, any log and any number of crashes between any two effects   *)
(* of process_next.                                                        *)
(***************************************************************************)
EXTENDS TransactionIngestion, WellFoundedInduction, TLAPS

Statuses == {"received", "processed", "rejected"}
Record == [status: Statuses, partition: Partitions, offset: Nat]
Location(id) == [partition |-> records[id].partition, offset |-> records[id].offset]

\* The offset after the last message of a partition.
End(p) == Len(Log[p])

Steps == {"idle", "save_received", "cache_received", "publish", "save_outcome",
          "cache_outcome", "commit", "down", "resume"}

\* TypeOK, with what it leaves out: that the variables are functions of their ranges.
Types ==
  /\ assigned \subseteq Partitions
  /\ committed \in [Partitions -> Nat]
  /\ position \in [Partitions -> Nat]
  /\ \A p \in Partitions : committed[p] <= End(p) /\ position[p] <= End(p)
  /\ records \in [DOMAIN records -> Record]
  /\ \A id \in DOMAIN records : Location(id) \in Messages
  /\ DOMAIN cache \subseteq DOMAIN records
  /\ pc \in Steps
  /\ current \in Messages \cup {NoMessage}
  /\ (current = NoMessage) <=> pc \in {"idle", "down", "resume"}
  /\ DOMAIN checkpoints \subseteq Partitions
  /\ \A p \in DOMAIN checkpoints : checkpoints[p] \in Nat /\ checkpoints[p] < End(p)
  /\ pc # "resume" => DOMAIN checkpoints = {}
  /\ published \in [Messages -> Nat]
  /\ done \subseteq Messages

(***************************************************************************)
(* The message process_next works on is the last one polled, of a          *)
(* partition the client consumes; from save_received on its record is at   *)
(* its place, and it has its outcome once that was saved.                  *)
(***************************************************************************)
InHand ==
  current # NoMessage =>
    /\ MessageAt(current).kind # "malformed"
    /\ current.partition \in assigned
    /\ position[current.partition] = current.offset + 1
    /\ pc = "publish" => Outcome(current) = "processed"
    /\ pc # "save_received" =>
         MessageAt(current).id \in DOMAIN records /\ Location(MessageAt(current).id) = current
    /\ pc \in {"cache_received", "publish", "save_outcome"} =>
         records[MessageAt(current).id].status = "received"
    /\ pc \in {"cache_outcome", "commit"} =>
         records[MessageAt(current).id].status = Outcome(current) /\ current \in done

\* Everything up to a message is settled.
SettledUpTo(p, offset) ==
  \A m \in Messages : m.partition = p /\ m.offset <= offset => Settled(m)

\* A processed record has nothing unhandled before it, nor has a checkpoint.
RecordsSettled ==
  \A id \in DOMAIN records : records[id].status = "processed" =>
    SettledUpTo(records[id].partition, records[id].offset)

CheckpointsSettled ==
  \A p \in DOMAIN checkpoints : SettledUpTo(p, checkpoints[p])

(***************************************************************************)
(* The cache lags the records by the message in hand at most, between a    *)
(* save and its cache update.  A crash may leave it so; recovery warms it. *)
(***************************************************************************)
CacheFollows ==
  /\ pc \notin {"cache_received", "cache_outcome", "down"} =>
       cache = [id \in DOMAIN records |-> records[id].status]
  /\ pc \in {"cache_received", "cache_outcome"} =>
       \A id \in DOMAIN records : id # MessageAt(current).id =>
         id \in DOMAIN cache /\ cache[id] = records[id].status

IInv == /\ Types /\ InHand /\ RecordsSettled /\ CheckpointsSettled
        /\ CommittedAfterHandling /\ NothingSkipped /\ CacheFollows

----------------------------------------------------------------------------
(* The operators                                                           *)

\* A sequence is a function of its places.
LEMMA SequenceFacts ==
  ASSUME NEW S, NEW s \in Seq(S)
  PROVE  Len(s) \in Nat /\ DOMAIN s = 1..Len(s) /\ \A k \in DOMAIN s : s[k] \in S
OBVIOUS

LEMMA EndFacts == \A p \in Partitions : End(p) \in Nat
<1>1. \A p \in Partitions : Log[p] \in Seq([id: STRING, kind: Kinds])
  BY LogAssumption
<1> QED BY <1>1, SequenceFacts DEF End

\* A message is a place of a partition's log, and every such place is one.
LEMMA MessageFacts ==
  /\ \A m \in Messages : /\ m.partition \in Partitions
                         /\ m.offset \in Nat
                         /\ m.offset < End(m.partition)
                         /\ m = [partition |-> m.partition, offset |-> m.offset]
                         /\ MessageAt(m).kind \in Kinds
  /\ \A p \in Partitions, k \in Nat :
       k < End(p) => [partition |-> p, offset |-> k] \in Messages
  /\ NoMessage \notin Messages
<1>1. \A p \in Partitions : Log[p] \in Seq([id: STRING, kind: Kinds])
  BY LogAssumption
<1>2. \A p \in Partitions : End(p) \in Nat /\ DOMAIN Log[p] = 1..End(p)
  BY <1>1, SequenceFacts DEF End
<1>3. ASSUME NEW m \in Messages
      PROVE  /\ m.partition \in Partitions
             /\ m.offset \in Nat
             /\ m.offset < End(m.partition)
             /\ m = [partition |-> m.partition, offset |-> m.offset]
             /\ MessageAt(m).kind \in Kinds
  <2>0. PICK p \in Partitions : m \in {[partition |-> p, offset |-> k - 1] : k \in DOMAIN Log[p]}
    BY DEF Messages
  <2>1. PICK k \in DOMAIN Log[p] : m = [partition |-> p, offset |-> k - 1]
    BY <2>0
  <2>2. k \in Nat /\ k >= 1 /\ k <= End(p)
    BY <1>2, <2>1
  <2>3. m.offset + 1 = k /\ m.partition = p /\ m.offset \in Nat
    BY <2>1, <2>2
  <2>4. Log[p][k] \in [id: STRING, kind: Kinds]
    BY <1>1, <2>1, SequenceFacts
  <2> QED BY <1>2, <2>1, <2>2, <2>3, <2>4 DEF MessageAt
<1>4. ASSUME NEW p \in Partitions, NEW k \in Nat, k < End(p)
      PROVE  [partition |-> p, offset |-> k] \in Messages
  <2>1. k + 1 \in DOMAIN Log[p] /\ k = (k + 1) - 1
    BY <1>2, <1>4
  <2> QED BY <2>1 DEF Messages
<1>5. \A m \in Messages : m \in [partition: Partitions, offset: Nat]
  BY <1>3
<1> QED BY <1>2, <1>3, <1>4, <1>5, LogAssumption

\* Every nonempty set of natural numbers has a least one.
LEMMA LeastNumber ==
  ASSUME NEW T, T \subseteq Nat, T # {}
  PROVE  \E x \in T : \A y \in T : x <= y
<1> DEFINE R == OpToRel(<, Nat)
<1>1. IsWellFoundedOn(R, Nat)
  BY NatLessThanWellFounded
<1>2. \A a, b \in Nat : a < b => <<a, b>> \in R
  BY DEF OpToRel
<1> HIDE DEF R
<1>3. PICK x \in T : \A y \in T : ~(<<y, x>> \in R)
  BY <1>1, WFMin
<1>4. ASSUME NEW y \in T PROVE x <= y
  <2>1. x \in Nat /\ y \in Nat /\ ~(<<y, x>> \in R)
    BY <1>3
  <2>2. ~(y < x)
    BY <1>2, <2>1
  <2> QED BY <2>1, <2>2
<1> QED BY <1>4

\* A nonempty set of numbers below a bound has a highest one.
LEMMA HighestFacts ==
  ASSUME NEW N \in Nat, NEW S \in SUBSET (0..N), S # {}
  PROVE  Highest(S) \in S /\ \A n \in S : n <= Highest(S)
<1> DEFINE T == {N - n : n \in S}
<1>1. S \subseteq Nat /\ \A n \in S : N - n \in Nat
  OBVIOUS
<1>2. T \subseteq Nat /\ T # {} /\ (\A m \in S : N - m \in T) /\ \A x \in T : \E n \in S : x = N - n
  BY <1>1
<1> HIDE DEF T
<1>3. PICK x \in T : \A y \in T : x <= y
  BY <1>2, LeastNumber
<1>4. PICK n \in S : x = N - n
  BY <1>2
<1>5. ASSUME NEW m \in S PROVE m <= n
  <2>1. N - n <= N - m
    BY <1>2, <1>3, <1>4
  <2> QED BY <1>1, <2>1
<1> QED BY <1>4, <1>5 DEF Highest

(***************************************************************************)
(* The checkpoint of a partition is the highest offset of its processed    *)
(* records, and a partition without one has no such record.                *)
(***************************************************************************)
LEMMA CheckpointFacts ==
  ASSUME Types
  PROVE  /\ DOMAIN Checkpoints \subseteq Partitions
         /\ \A p \in DOMAIN Checkpoints :
              \E id \in DOMAIN records : /\ records[id].status = "processed"
                                         /\ records[id].partition = p
                                         /\ records[id].offset = Checkpoints[p]
         /\ \A id \in DOMAIN records : records[id].status = "processed" =>
              /\ records[id].partition \in DOMAIN Checkpoints
              /\ records[id].offset <= Checkpoints[records[id].partition]
<1>1. \A p \in Partitions : End(p) \in Nat
  BY EndFacts
<1>2. \A id \in DOMAIN records : /\ records[id].partition \in Partitions
                                 /\ records[id].offset \in 0..End(records[id].partition)
  <2> TAKE id \in DOMAIN records
  <2>1. Location(id) \in Messages
    BY DEF Types
  <2> QED BY <2>1, MessageFacts, EndFacts DEF Location
<1>3. \A p \in Partitions : ProcessedOffsets(p) \subseteq 0..End(p)
  BY <1>2 DEF ProcessedOffsets
<1>4. \A p \in Partitions : ProcessedOffsets(p) # {} =>
        /\ Highest(ProcessedOffsets(p)) \in ProcessedOffsets(p)
        /\ \A n \in ProcessedOffsets(p) : n <= Highest(ProcessedOffsets(p))
  BY <1>1, <1>3, HighestFacts
<1>5. /\ DOMAIN Checkpoints = {q \in Partitions : ProcessedOffsets(q) # {}}
      /\ \A p \in DOMAIN Checkpoints : Checkpoints[p] = Highest(ProcessedOffsets(p))
  BY DEF Checkpoints
<1>6. ASSUME NEW p \in DOMAIN Checkpoints
      PROVE  \E id \in DOMAIN records : /\ records[id].status = "processed"
                                        /\ records[id].partition = p
                                        /\ records[id].offset = Checkpoints[p]
  <2>1. Checkpoints[p] \in ProcessedOffsets(p)
    BY <1>4, <1>5
  <2> QED BY <2>1 DEF ProcessedOffsets
<1>7. ASSUME NEW id \in DOMAIN records, records[id].status = "processed"
      PROVE  /\ records[id].partition \in DOMAIN Checkpoints
             /\ records[id].offset <= Checkpoints[records[id].partition]
  <2>1. records[id].offset \in ProcessedOffsets(records[id].partition)
    BY <1>7 DEF ProcessedOffsets
  <2> QED BY <1>2, <1>4, <1>5, <2>1
<1> QED BY <1>5, <1>6, <1>7

\* Two messages of one place are one message.
LEMMA SamePlace ==
  ASSUME NEW m \in Messages, NEW n \in Messages,
         m.partition = n.partition, m.offset = n.offset
  PROVE  m = n
BY MessageFacts

----------------------------------------------------------------------------
(* The inductive invariant IInv, action by action                          *)

LEMMA InitIInv == Init => IInv
<1> SUFFICES ASSUME Init PROVE IInv
  OBVIOUS
<1>1. DOMAIN records = {} /\ DOMAIN cache = {} /\ DOMAIN checkpoints = {}
  BY DEF Init
<1>2. pc = "idle" /\ current = NoMessage
  BY DEF Init
<1>3. Types
  <2>1. records \in [DOMAIN records -> Record] /\ published \in [Messages -> Nat]
    BY <1>1 DEF Init
  <2>2. \A p \in Partitions : committed[p] <= End(p) /\ position[p] <= End(p)
    <3>1. \A p \in Partitions : committed[p] = 0 /\ position[p] = 0
      BY DEF Init
    <3> TAKE p \in Partitions
    <3>2. End(p) \in Nat
      BY EndFacts
    <3>3. 0 <= End(p)
      BY <3>2
    <3> QED BY <3>1, <3>3
  <2> QED BY <1>1, <1>2, <2>1, <2>2 DEF Init, Types, Steps
<1>4. InHand
  BY <1>2 DEF InHand
<1>5. RecordsSettled /\ CheckpointsSettled
  BY <1>1 DEF RecordsSettled, CheckpointsSettled
<1>6. \A m \in Messages : /\ ~(m.offset < committed[m.partition])
                          /\ ~(m.offset < position[m.partition])
  BY MessageFacts DEF Init
<1>7. CommittedAfterHandling /\ NothingSkipped
  BY <1>6 DEF CommittedAfterHandling, NothingSkipped
<1>8. CacheFollows
  <2>1. cache = <<>> /\ records = <<>>
    BY DEF Init
  <2>2. cache = [id \in DOMAIN records |-> records[id].status]
    BY <1>1, <2>1
  <2> QED BY <1>2, <2>2 DEF CacheFollows
<1> QED BY <1>3, <1>4, <1>5, <1>7, <1>8 DEF IInv

(***************************************************************************)
(* Poll moves one partition past its next message, which is either in hand *)
(* from then on or does not parse; only the latter commits it.             *)
(***************************************************************************)
LEMMA PollIInv == IInv /\ Poll => IInv'
<1> SUFFICES ASSUME IInv, Poll PROVE IInv'
  OBVIOUS
<1>1. /\ Types /\ RecordsSettled /\ CheckpointsSettled
      /\ CommittedAfterHandling /\ NothingSkipped /\ CacheFollows
  BY DEF IInv
<1>2. /\ pc = "idle" /\ current = NoMessage
      /\ UNCHANGED <<assigned, records, cache, checkpoints, crashes, published, done>>
  BY <1>1 DEF Poll, Types
<1>3. PICK p \in assigned :
        LET m == [partition |-> p, offset |-> position[p]]
        IN  /\ m \in Messages
            /\ position' = [position EXCEPT ![p] = @ + 1]
            /\ IF MessageAt(m).kind = "malformed"
               THEN CommitOffset(m) /\ UNCHANGED <<pc, current>>
               ELSE pc' = "save_received" /\ current' = m /\ UNCHANGED committed
  BY DEF Poll
<1> DEFINE m == [partition |-> p, offset |-> position[p]]
<1>4. /\ m \in Messages /\ m.partition = p /\ m.offset = position[p] /\ p \in Partitions
      /\ position[p] \in Nat /\ position[p] < End(p)
      /\ position'[p] = position[p] + 1 /\ position' \in [Partitions -> Nat]
      /\ \A q \in Partitions : q # p => position'[q] = position[q]
  BY <1>1, <1>3, MessageFacts DEF Types
<1>5. \/ MessageAt(m).kind = "malformed" /\ CommitOffset(m) /\ UNCHANGED <<pc, current>>
      \/ /\ MessageAt(m).kind # "malformed" /\ pc' = "save_received" /\ current' = m
         /\ UNCHANGED committed
  BY <1>3
<1> HIDE DEF m
<1>6. \A n \in Messages : n.partition = p /\ n.offset < position[p] => Settled(n)
  BY <1>1, <1>2, <1>3, MessageFacts DEF NothingSkipped
<1>7. \A n \in Messages : Settled(n)' <=> Settled(n)
  BY <1>2 DEF Settled
<1>8. \A q \in Partitions : position'[q] <= End(q)
  BY <1>1, <1>4, EndFacts DEF Types
<1>9. RecordsSettled' /\ CheckpointsSettled'
  BY <1>1, <1>2 DEF RecordsSettled, CheckpointsSettled, SettledUpTo, Settled
<1>10. CacheFollows'
  BY <1>1, <1>2, <1>5 DEF CacheFollows
<1>11. \A n \in Messages : n.partition \in assigned /\ n.offset < position'[n.partition] =>
         Settled(n) \/ n = m
  <2> SUFFICES ASSUME NEW n \in Messages, n.partition \in assigned,
                      n.offset < position'[n.partition]
               PROVE  Settled(n) \/ n = m
    OBVIOUS
  <2>1. n.partition \in Partitions /\ n.offset \in Nat
    BY MessageFacts
  <2>2. CASE n.partition # p
    BY <1>1, <1>2, <1>4, <2>1, <2>2, MessageFacts DEF NothingSkipped
  <2>3. CASE n.partition = p
    BY <1>4, <1>6, <2>1, <2>3, SamePlace
  <2> QED BY <2>2, <2>3
<1>12. CASE MessageAt(m).kind = "malformed"
  <2>1. /\ UNCHANGED <<pc, current>> /\ committed' = [committed EXCEPT ![p] = position[p] + 1]
    BY <1>4, <1>5, <1>12 DEF CommitOffset
  <2>2. /\ committed' \in [Partitions -> Nat] /\ committed'[p] = position[p] + 1
        /\ \A q \in Partitions : q # p => committed'[q] = committed[q]
    BY <1>1, <1>4, <2>1 DEF Types
  <2>3. \A q \in Partitions : committed'[q] <= End(q)
    <3>1. \A q \in Partitions : committed[q] <= End(q)
      BY <1>1 DEF Types
    <3> QED BY <1>4, <2>2, <3>1, EndFacts
  <2>4. Types'
    BY <1>1, <1>2, <1>4, <1>8, <2>1, <2>2, <2>3 DEF Types, Location
  <2>5. InHand'
    BY <1>2, <2>1 DEF InHand
  <2>6. CommittedAfterHandling'
    <3> SUFFICES ASSUME NEW n \in Messages, n.offset < committed'[n.partition]
                 PROVE  Settled(n)
      BY <1>7 DEF CommittedAfterHandling
    <3>1. CASE n.partition # p
      BY <1>1, <2>2, <3>1, MessageFacts DEF CommittedAfterHandling
    <3>2. CASE n.partition = p
      <4>1. n.offset < position[p] \/ n = m
        BY <1>4, <2>2, <3>2, MessageFacts, SamePlace
      <4> QED BY <1>6, <1>12, <3>2, <4>1 DEF Settled
    <3> QED BY <3>1, <3>2
  <2>7. NothingSkipped'
    BY <1>2, <1>7, <1>11, <1>12, <2>1 DEF NothingSkipped, Settled
  <2> QED BY <1>9, <1>10, <2>4, <2>5, <2>6, <2>7 DEF IInv
<1>13. CASE MessageAt(m).kind # "malformed"
  <2>1. pc' = "save_received" /\ current' = m /\ UNCHANGED committed
    BY <1>5, <1>13
  <2>2. Types'
    BY <1>1, <1>2, <1>4, <1>8, <2>1, MessageFacts DEF Types, Location, Steps
  <2>3. InHand'
    <3>1. MessageAt(current').kind # "malformed"
      BY <1>13, <2>1
    <3> QED BY <1>2, <1>3, <1>4, <2>1, <3>1 DEF InHand, MessageAt
  <2>4. CommittedAfterHandling'
    BY <1>1, <1>7, <2>1 DEF CommittedAfterHandling
  <2>5. NothingSkipped'
    BY <1>2, <1>7, <1>11, <2>1 DEF NothingSkipped
  <2> QED BY <1>9, <1>10, <2>2, <2>3, <2>4, <2>5 DEF IInv
<1> QED BY <1>12, <1>13

(***************************************************************************)
(* The steps between save_received and commit move neither the client nor  *)
(* an offset; what they may change of IInv are the record and the cache    *)
(* entry of the message in hand, and that it is done.                      *)
(***************************************************************************)
LEMMA HandlingFrame ==
  ASSUME IInv, current # NoMessage, pc' \notin {"idle", "down", "resume"}, pc' \in Steps,
         done' \subseteq done \cup {current}, done \subseteq done', published' \in [Messages -> Nat],
         UNCHANGED <<committed, clientVars, current, checkpoints>>
  PROVE  /\ CheckpointsSettled' /\ CommittedAfterHandling' /\ NothingSkipped'
         /\ \A m \in Messages : Settled(m) => Settled(m)'
         /\ (records' \in [DOMAIN records' -> Record]
              /\ (\A id \in DOMAIN records' : Location(id)' \in Messages)
              /\ DOMAIN cache' \subseteq DOMAIN records') => Types'
<1>1. /\ Types /\ CheckpointsSettled /\ CommittedAfterHandling /\ NothingSkipped
  BY DEF IInv
<1>2. \A m \in Messages : Settled(m) => Settled(m)'
  BY DEF Settled, MessageAt
<1>3. /\ current \in Messages /\ pc \notin {"idle", "down", "resume"}
  BY <1>1 DEF Types
<1>4. UNCHANGED <<committed, assigned, position, current, checkpoints>>
  BY DEF clientVars
<1>5. DOMAIN checkpoints = {}
  BY <1>1, <1>3 DEF Types
<1>6. CheckpointsSettled'
  BY <1>4, <1>5 DEF CheckpointsSettled
<1>7. CommittedAfterHandling'
  BY <1>1, <1>2, <1>4 DEF CommittedAfterHandling
<1>8. NothingSkipped'
  BY <1>1, <1>2, <1>3, <1>4 DEF NothingSkipped
<1>9. (records' \in [DOMAIN records' -> Record]
        /\ (\A id \in DOMAIN records' : Location(id)' \in Messages)
        /\ DOMAIN cache' \subseteq DOMAIN records') => Types'
  BY <1>1, <1>3, <1>4, <1>5 DEF Types
<1> QED BY <1>2, <1>6, <1>7, <1>8, <1>9

LEMMA SaveReceivedIInv == IInv /\ SaveReceived => IInv'
<1> SUFFICES ASSUME IInv, SaveReceived PROVE IInv'
  OBVIOUS
<1> DEFINE key == MessageAt(current).id
           record == [status |-> "received", partition |-> current.partition,
                      offset |-> current.offset]
<1>1. Types /\ InHand /\ RecordsSettled /\ CacheFollows
  BY DEF IInv
<1>2. /\ pc = "save_received" /\ pc' = "cache_received"
      /\ records' = Put(records, key, record)
      /\ UNCHANGED <<committed, clientVars, cache, current, checkpoints, published, done>>
  BY DEF SaveReceived
<1>3. current \in Messages /\ current # NoMessage
  BY <1>1, <1>2, MessageFacts DEF Types
<1>4. /\ current.partition \in Partitions /\ current.offset \in Nat
      /\ current = [partition |-> current.partition, offset |-> current.offset]
  BY <1>3, MessageFacts
<1>5. /\ DOMAIN records' = DOMAIN records \cup {key} /\ records'[key] = record
      /\ \A id \in DOMAIN records : id # key => records'[id] = records[id]
  <2> HIDE DEF key, record
  <2> QED BY <1>2 DEF Put
<1>6. record \in Record
  BY <1>4 DEF Record, Statuses
<1>7. records' \in [DOMAIN records' -> Record]
  <2>1. \A id \in DOMAIN records' : records'[id] \in Record
    BY <1>1, <1>5, <1>6 DEF Types
  <2> HIDE DEF key, record
  <2>2. records' = [x \in DOMAIN records' |-> records'[x]]
    BY <1>2, SMTT(30) DEF Put
  <2> QED BY <2>1, <2>2
<1>8. Location(key)' = current
  BY <1>2, <1>4, <1>5 DEF Location, MessageAt
<1>9. \A id \in DOMAIN records : id # key => Location(id)' = Location(id)
  BY <1>5 DEF Location
<1>10. ASSUME NEW id \in DOMAIN records' PROVE Location(id)' \in Messages
  <2>1. CASE id = key
    <3>1. records'[id].partition = current.partition /\ records'[id].offset = current.offset
      BY <1>5, <2>1
    <3> QED BY <1>3, <1>4, <3>1 DEF Location
  <2>2. CASE id # key
    BY <1>1, <1>5, <1>9, <2>2 DEF Types
  <2> QED BY <2>1, <2>2
<1>11. DOMAIN cache' \subseteq DOMAIN records'
  BY <1>1, <1>2, <1>5 DEF Types
<1>12. /\ CheckpointsSettled' /\ CommittedAfterHandling' /\ NothingSkipped'
       /\ \A m \in Messages : Settled(m) => Settled(m)'
       /\ Types'
  BY <1>1, <1>2, <1>3, <1>7, <1>10, <1>11, HandlingFrame DEF Steps, Types
<1>13. InHand'
  <2>1. records'[key].status = "received"
    BY <1>5
  <2>2. MessageAt(current)' = MessageAt(current)
    BY <1>2 DEF MessageAt
  <2>3. UNCHANGED <<assigned, position>>
    BY <1>2 DEF clientVars
  <2> QED BY <1>1, <1>2, <1>3, <1>5, <1>8, <2>1, <2>2, <2>3 DEF InHand
<1>14. RecordsSettled'
  <2> SUFFICES ASSUME NEW id \in DOMAIN records', records'[id].status = "processed",
                      NEW m \in Messages, m.partition = records'[id].partition,
                      m.offset <= records'[id].offset
               PROVE  Settled(m)'
    BY DEF RecordsSettled, SettledUpTo
  <2>1. id # key
    BY <1>5
  <2> QED BY <1>1, <1>5, <1>12, <2>1 DEF RecordsSettled, SettledUpTo
<1>15. CacheFollows'
  <2>1. cache = [id \in DOMAIN records |-> records[id].status]
    BY <1>1, <1>2 DEF CacheFollows
  <2>2. MessageAt(current)'.id = key
    BY <1>2 DEF MessageAt
  <2> QED BY <1>2, <1>5, <2>1, <2>2 DEF CacheFollows
<1> QED BY <1>12, <1>13, <1>14, <1>15 DEF IInv

LEMMA CacheReceivedIInv == IInv /\ CacheReceived => IInv'
<1> SUFFICES ASSUME IInv, CacheReceived PROVE IInv'
  OBVIOUS
<1> DEFINE key == MessageAt(current).id
<1>1. Types /\ InHand /\ RecordsSettled /\ CacheFollows
  BY DEF IInv
<1>2. /\ pc = "cache_received"
      /\ pc' = IF Outcome(current) = "processed" THEN "publish" ELSE "save_outcome"
      /\ cache' = Put(cache, key, "received")
      /\ UNCHANGED <<committed, clientVars, records, current, checkpoints, published, done>>
  BY DEF CacheReceived
<1>3. current # NoMessage
  BY <1>1, <1>2 DEF Types
<1>4. /\ key \in DOMAIN records /\ records[key].status = "received"
      /\ \A id \in DOMAIN records : id # key => id \in DOMAIN cache /\ cache[id] = records[id].status
  BY <1>1, <1>2, <1>3 DEF InHand, CacheFollows
<1>5. DOMAIN cache \cup {key} = DOMAIN records
  BY <1>1, <1>4 DEF Types
<1>6. cache' = [id \in DOMAIN records |-> records[id].status]
  <2>1. cache' = [x \in DOMAIN cache \cup {key} |-> IF x = key THEN "received" ELSE cache[x]]
    BY <1>2 DEF Put
  <2> HIDE DEF key
  <2> QED BY <1>4, <1>5, <2>1
<1>7. /\ CheckpointsSettled' /\ CommittedAfterHandling' /\ NothingSkipped' /\ Types'
       /\ \A m \in Messages : Settled(m) => Settled(m)'
  <2>1. \A id \in DOMAIN records' : Location(id)' \in Messages
    BY <1>1, <1>2 DEF Types, Location
  <2>2. DOMAIN cache' \subseteq DOMAIN records'
    BY <1>2, <1>6
  <2> QED BY <1>1, <1>2, <1>3, <2>1, <2>2, HandlingFrame DEF Steps, Types
<1>8. InHand'
  <2>1. /\ MessageAt(current)' = MessageAt(current) /\ Outcome(current)' = Outcome(current)
        /\ Location(key)' = Location(key) /\ UNCHANGED <<assigned, position>>
    BY <1>2 DEF MessageAt, Outcome, Location, clientVars
  <2> QED BY <1>1, <1>2, <1>3, <2>1 DEF InHand
<1>9. RecordsSettled'
  BY <1>1, <1>2, <1>7 DEF RecordsSettled, SettledUpTo
<1>10. CacheFollows'
  BY <1>2, <1>6 DEF CacheFollows
<1> QED BY <1>7, <1>8, <1>9, <1>10 DEF IInv

LEMMA PublishIInv == IInv /\ Publish => IInv'
<1> SUFFICES ASSUME IInv, Publish PROVE IInv'
  OBVIOUS
<1>1. Types /\ InHand /\ RecordsSettled /\ CacheFollows
  BY DEF IInv
<1>2. /\ pc = "publish" /\ pc' = "save_outcome"
      /\ published' = [published EXCEPT ![current] = @ + 1]
      /\ UNCHANGED <<committed, clientVars, records, cache, current, checkpoints, done>>
  BY DEF Publish
<1>3. current # NoMessage /\ current \in Messages /\ published' \in [Messages -> Nat]
  BY <1>1, <1>2 DEF Types
<1>4. /\ CheckpointsSettled' /\ CommittedAfterHandling' /\ NothingSkipped' /\ Types'
      /\ \A m \in Messages : Settled(m) => Settled(m)'
  <2>1. \A id \in DOMAIN records' : Location(id)' \in Messages
    BY <1>1, <1>2 DEF Types, Location
  <2> QED BY <1>1, <1>2, <1>3, <2>1, HandlingFrame DEF Steps, Types
<1>5. InHand'
  <2>1. /\ MessageAt(current)' = MessageAt(current) /\ Outcome(current)' = Outcome(current)
        /\ Location(MessageAt(current).id)' = Location(MessageAt(current).id)
        /\ UNCHANGED <<assigned, position>>
    BY <1>2 DEF MessageAt, Outcome, Location, clientVars
  <2> QED BY <1>1, <1>2, <1>3, <2>1 DEF InHand
<1>6. RecordsSettled'
  BY <1>1, <1>2, <1>4 DEF RecordsSettled, SettledUpTo
<1>7. CacheFollows'
  BY <1>1, <1>2 DEF CacheFollows
<1> QED BY <1>4, <1>5, <1>6, <1>7 DEF IInv

\* The outcome of the message in hand: everything before it is settled.
LEMMA SaveOutcomeIInv == IInv /\ SaveOutcome => IInv'
<1> SUFFICES ASSUME IInv, SaveOutcome PROVE IInv'
  OBVIOUS
<1> DEFINE key == MessageAt(current).id
<1>1. Types /\ InHand /\ RecordsSettled /\ CacheFollows /\ NothingSkipped
  BY DEF IInv
<1>2. /\ pc = "save_outcome" /\ pc' = "cache_outcome"
      /\ records' = [records EXCEPT ![key].status = Outcome(current)]
      /\ done' = done \cup {current}
      /\ UNCHANGED <<committed, clientVars, cache, current, checkpoints, published>>
  BY DEF SaveOutcome
<1>3. current # NoMessage /\ current \in Messages /\ current.partition \in Partitions
      /\ current.offset \in Nat
  BY <1>1, <1>2, MessageFacts DEF Types
<1>4. /\ key \in DOMAIN records /\ Location(key) = current
      /\ current.partition \in assigned /\ position[current.partition] = current.offset + 1
  BY <1>1, <1>2, <1>3 DEF InHand
<1>5. records[key] \in Record /\ Outcome(current) \in Statuses
  BY <1>1, <1>4 DEF Types, Outcome, Statuses
<1>6. /\ DOMAIN records' = DOMAIN records
      /\ records'[key].status = Outcome(current) /\ records'[key].partition = current.partition
      /\ records'[key].offset = current.offset /\ records'[key] \in Record
      /\ \A id \in DOMAIN records : id # key => records'[id] = records[id]
  <2>1. records[key].partition = current.partition /\ records[key].offset = current.offset
    BY <1>4 DEF Location
  <2>2. records' = [records EXCEPT ![key] = [records[key] EXCEPT !.status = Outcome(current)]]
    BY <1>2
  <2> HIDE DEF key
  <2> QED BY <1>1, <1>4, <1>5, <2>1, <2>2 DEF Types, Record
<1>7. records' \in [DOMAIN records' -> Record]
  <2>1. records' = [records EXCEPT ![key] = records'[key]]
    BY <1>1, <1>2, <1>4 DEF Types
  <2> HIDE DEF key
  <2> QED BY <1>1, <1>6, <2>1 DEF Types
<1>8. \A id \in DOMAIN records' : Location(id)' = Location(id)
  BY <1>4, <1>6 DEF Location
<1>9. /\ CheckpointsSettled' /\ CommittedAfterHandling' /\ NothingSkipped' /\ Types'
      /\ \A m \in Messages : Settled(m) => Settled(m)'
  <2>1. \A id \in DOMAIN records' : Location(id)' \in Messages
    BY <1>1, <1>6, <1>8 DEF Types
  <2>2. DOMAIN cache' \subseteq DOMAIN records'
    BY <1>1, <1>2, <1>6 DEF Types
  <2> QED BY <1>1, <1>2, <1>3, <1>7, <2>1, <2>2, HandlingFrame, SMTT(30) DEF Steps, Types
<1>10. InHand'
  <2>1. /\ MessageAt(current)' = MessageAt(current) /\ Outcome(current)' = Outcome(current)
        /\ Location(key)' = Location(key) /\ UNCHANGED <<assigned, position>>
    BY <1>2, <1>4, <1>6, <1>8 DEF MessageAt, Outcome, clientVars
  <2> QED BY <1>1, <1>2, <1>3, <1>4, <1>6, <2>1 DEF InHand
<1>11. RecordsSettled'
  <2> SUFFICES ASSUME NEW id \in DOMAIN records', records'[id].status = "processed",
                      NEW m \in Messages, m.partition = records'[id].partition,
                      m.offset <= records'[id].offset
               PROVE  Settled(m)'
    BY DEF RecordsSettled, SettledUpTo
  <2>1. CASE id # key
    BY <1>1, <1>6, <1>9, <2>1 DEF RecordsSettled, SettledUpTo
  <2>2. CASE id = key
    <3>1. m.partition = current.partition /\ m.offset < position[m.partition]
      BY <1>3, <1>4, <1>6, <2>2, MessageFacts
    <3>2. Settled(m) \/ m = current
      BY <1>1, <1>2, <1>4, <3>1 DEF NothingSkipped
    <3> QED BY <1>2, <1>9, <3>2 DEF Settled
  <2> QED BY <2>1, <2>2
<1>12. CacheFollows'
  <2>1. cache = [id \in DOMAIN records |-> records[id].status]
    BY <1>1, <1>2 DEF CacheFollows
  <2>2. MessageAt(current)'.id = key
    BY <1>2 DEF MessageAt
  <2> QED BY <1>2, <1>6, <2>1, <2>2 DEF CacheFollows
<1> QED BY <1>9, <1>10, <1>11, <1>12 DEF IInv

LEMMA CacheOutcomeIInv == IInv /\ CacheOutcome => IInv'
<1> SUFFICES ASSUME IInv, CacheOutcome PROVE IInv'
  OBVIOUS
<1> DEFINE key == MessageAt(current).id
<1>1. Types /\ InHand /\ RecordsSettled /\ CacheFollows
  BY DEF IInv
<1>2. /\ pc = "cache_outcome" /\ pc' = "commit"
      /\ cache' = Put(cache, key, Outcome(current))
      /\ UNCHANGED <<committed, clientVars, records, current, checkpoints, published, done>>
  BY DEF CacheOutcome
<1>3. current # NoMessage
  BY <1>1, <1>2 DEF Types
<1>4. /\ key \in DOMAIN records /\ records[key].status = Outcome(current)
      /\ \A id \in DOMAIN records : id # key => id \in DOMAIN cache /\ cache[id] = records[id].status
  BY <1>1, <1>2, <1>3 DEF InHand, CacheFollows
<1>5. DOMAIN cache \cup {key} = DOMAIN records
  BY <1>1, <1>4 DEF Types
<1>6. cache' = [id \in DOMAIN records |-> records[id].status]
  <2>1. cache' = [x \in DOMAIN cache \cup {key} |-> IF x = key THEN Outcome(current) ELSE cache[x]]
    BY <1>2 DEF Put
  <2> HIDE DEF key
  <2> QED BY <1>4, <1>5, <2>1
<1>7. /\ CheckpointsSettled' /\ CommittedAfterHandling' /\ NothingSkipped' /\ Types'
       /\ \A m \in Messages : Settled(m) => Settled(m)'
  <2>1. \A id \in DOMAIN records' : Location(id)' \in Messages
    BY <1>1, <1>2 DEF Types, Location
  <2>2. DOMAIN cache' \subseteq DOMAIN records'
    BY <1>2, <1>6
  <2> QED BY <1>1, <1>2, <1>3, <2>1, <2>2, HandlingFrame DEF Steps, Types
<1>8. InHand'
  <2>1. /\ MessageAt(current)' = MessageAt(current) /\ Outcome(current)' = Outcome(current)
        /\ Location(key)' = Location(key) /\ UNCHANGED <<assigned, position>>
    BY <1>2 DEF MessageAt, Outcome, Location, clientVars
  <2> QED BY <1>1, <1>2, <1>3, <2>1 DEF InHand
<1>9. RecordsSettled'
  BY <1>1, <1>2, <1>7 DEF RecordsSettled, SettledUpTo
<1>10. CacheFollows'
  BY <1>2, <1>6 DEF CacheFollows
<1> QED BY <1>7, <1>8, <1>9, <1>10 DEF IInv

\* The message in hand is done and nothing before it is left, so its offset may be committed.
LEMMA CommitIInv == IInv /\ Commit => IInv'
<1> SUFFICES ASSUME IInv, Commit PROVE IInv'
  OBVIOUS
<1> DEFINE p == current.partition
<1>1. /\ Types /\ InHand /\ RecordsSettled /\ CheckpointsSettled
      /\ CommittedAfterHandling /\ NothingSkipped /\ CacheFollows
  BY DEF IInv
<1>2. /\ pc = "commit" /\ pc' = "idle" /\ current' = NoMessage
      /\ committed' = [committed EXCEPT ![p] = current.offset + 1]
      /\ UNCHANGED <<assigned, position, records, cache, checkpoints, published, done>>
  BY DEF Commit, CommitOffset, clientVars
<1>3. /\ current # NoMessage /\ current \in Messages /\ p \in Partitions
      /\ current.offset \in Nat /\ current.offset < End(p)
  BY <1>1, <1>2, MessageFacts DEF Types
<1>4. /\ current \in done /\ p \in assigned /\ position[p] = current.offset + 1
  BY <1>1, <1>2, <1>3 DEF InHand
<1>5. /\ committed' \in [Partitions -> Nat] /\ committed'[p] = current.offset + 1
      /\ \A q \in Partitions : q # p => committed'[q] = committed[q]
  BY <1>1, <1>2, <1>3 DEF Types
<1>6. ASSUME NEW q \in Partitions PROVE committed'[q] <= End(q)
  <2>1. End(q) \in Nat /\ committed[q] <= End(q)
    BY <1>1, EndFacts DEF Types
  <2> QED BY <1>3, <1>5, <2>1
<1>7. \A m \in Messages : Settled(m)' <=> Settled(m)
  BY <1>2 DEF Settled, MessageAt
<1>8. Types'
  <2>1. \A id \in DOMAIN records : Location(id)' = Location(id)
    BY <1>2 DEF Location
  <2> QED BY <1>1, <1>2, <1>5, <1>6, <2>1 DEF Types, Steps
<1>9. InHand'
  BY <1>2 DEF InHand
<1>10. RecordsSettled' /\ CheckpointsSettled'
  BY <1>1, <1>2, <1>7 DEF RecordsSettled, CheckpointsSettled, SettledUpTo
<1>11. CommittedAfterHandling'
  <2> SUFFICES ASSUME NEW m \in Messages, m.offset < committed'[m.partition]
               PROVE  Settled(m)
    BY <1>7 DEF CommittedAfterHandling
  <2>1. CASE m.partition # p
    BY <1>1, <1>5, <2>1, MessageFacts DEF CommittedAfterHandling
  <2>2. CASE m.partition = p
    <3>1. Settled(m) \/ m = current
      BY <1>1, <1>2, <1>4, <1>5, <2>2 DEF NothingSkipped
    <3> QED BY <1>4, <3>1 DEF Settled
  <2> QED BY <2>1, <2>2
<1>12. NothingSkipped'
  <2>1. \A m \in Messages : m.partition \in assigned /\ m.offset < position[m.partition] => Settled(m)
    BY <1>1, <1>2, <1>4 DEF NothingSkipped, Settled
  <2> QED BY <1>2, <1>7, <2>1 DEF NothingSkipped
<1>13. CacheFollows'
  BY <1>1, <1>2 DEF CacheFollows
<1> QED BY <1>8, <1>9, <1>10, <1>11, <1>12, <1>13 DEF IInv

LEMMA CrashIInv == IInv /\ Crash => IInv'
<1> SUFFICES ASSUME IInv, Crash PROVE IInv'
  OBVIOUS
<1>1. Types /\ RecordsSettled /\ CommittedAfterHandling
  BY DEF IInv
<1>2. /\ pc' = "down" /\ current' = NoMessage /\ checkpoints' = <<>>
      /\ UNCHANGED <<committed, assigned, position, records, cache, published, done>>
  BY DEF Crash, clientVars
<1>3. DOMAIN checkpoints' = {}
  BY <1>2
<1>4. \A m \in Messages : Settled(m)' <=> Settled(m)
  BY <1>2 DEF Settled, MessageAt
<1>5. Types'
  <2>1. \A id \in DOMAIN records : Location(id)' = Location(id)
    BY <1>2 DEF Location
  <2> QED BY <1>1, <1>2, <1>3, <2>1 DEF Types, Steps
<1>6. InHand' /\ NothingSkipped' /\ CacheFollows'
  BY <1>2 DEF InHand, NothingSkipped, CacheFollows
<1>7. RecordsSettled' /\ CheckpointsSettled'
  BY <1>1, <1>2, <1>3, <1>4 DEF RecordsSettled, CheckpointsSettled, SettledUpTo
<1>8. CommittedAfterHandling'
  BY <1>1, <1>2, <1>4 DEF CommittedAfterHandling
<1> QED BY <1>5, <1>6, <1>7, <1>8 DEF IInv

(***************************************************************************)
(* A recovery starts at the committed offsets, before which all is         *)
(* settled, and derives checkpoints from records that are.                 *)
(***************************************************************************)
LEMMA RecoverIInv == IInv /\ Recover => IInv'
<1> SUFFICES ASSUME IInv, Recover PROVE IInv'
  OBVIOUS
<1>1. Types /\ RecordsSettled /\ CommittedAfterHandling
  BY DEF IInv
<1>2. /\ pc = "down" /\ pc' = "resume" /\ cache' = Warmed /\ assigned' = Partitions
      /\ position' = committed /\ checkpoints' = Checkpoints
      /\ UNCHANGED <<committed, records, current, published, done>>
  BY DEF Recover
<1>3. current = NoMessage
  BY <1>1, <1>2 DEF Types
<1>4. /\ DOMAIN Checkpoints \subseteq Partitions
      /\ \A p \in DOMAIN Checkpoints :
           \E id \in DOMAIN records : /\ records[id].status = "processed"
                                      /\ records[id].partition = p
                                      /\ records[id].offset = Checkpoints[p]
  BY <1>1, CheckpointFacts
<1>5. \A p \in DOMAIN Checkpoints : Checkpoints[p] \in Nat /\ Checkpoints[p] < End(p)
  <2> TAKE p \in DOMAIN Checkpoints
  <2>1. PICK id \in DOMAIN records : /\ records[id].partition = p
                                     /\ records[id].offset = Checkpoints[p]
    BY <1>4
  <2>2. Location(id) \in Messages
    BY <1>1 DEF Types
  <2> QED BY <2>1, <2>2, MessageFacts DEF Location
<1>6. cache' = [id \in DOMAIN records |-> records[id].status]
  <2>1. DOMAIN cache \cup DOMAIN records = DOMAIN records
    BY <1>1 DEF Types
  <2> QED BY <1>2, <2>1 DEF Warmed
<1>7. \A m \in Messages : Settled(m)' <=> Settled(m)
  BY <1>2 DEF Settled, MessageAt
<1>8. Types'
  <2>1. \A id \in DOMAIN records : Location(id)' = Location(id)
    BY <1>2 DEF Location
  <2>2. DOMAIN cache' \subseteq DOMAIN records
    BY <1>6
  <2>3. /\ DOMAIN checkpoints' \subseteq Partitions
        /\ \A p \in DOMAIN checkpoints' : checkpoints'[p] \in Nat /\ checkpoints'[p] < End(p)
    BY <1>2, <1>4, <1>5
  <2> QED BY <1>1, <1>2, <2>1, <2>2, <2>3 DEF Types, Steps
<1>9. InHand'
  BY <1>2, <1>3 DEF InHand
<1>10. RecordsSettled'
  BY <1>1, <1>2, <1>7 DEF RecordsSettled, SettledUpTo
<1>11. CheckpointsSettled'
  <2>1. \A p \in DOMAIN Checkpoints : SettledUpTo(p, Checkpoints[p])
    BY <1>1, <1>4 DEF RecordsSettled
  <2>2. \A p \in DOMAIN Checkpoints : \A m \in Messages :
          m.partition = p /\ m.offset <= Checkpoints[p] => Settled(m)'
    BY <1>7, <2>1 DEF SettledUpTo
  <2> QED BY <1>2, <2>2 DEF CheckpointsSettled, SettledUpTo
<1>12. CommittedAfterHandling' /\ NothingSkipped'
  BY <1>1, <1>2, <1>7 DEF CommittedAfterHandling, NothingSkipped
<1>13. CacheFollows'
  BY <1>2, <1>6 DEF CacheFollows
<1> QED BY <1>8, <1>9, <1>10, <1>11, <1>12, <1>13 DEF IInv

\* A seek moves one partition to the message after its checkpoint.
LEMMA SeekIInv == IInv /\ Seek => IInv'
<1> SUFFICES ASSUME IInv, Seek PROVE IInv'
  OBVIOUS
<1>1. /\ Types /\ RecordsSettled /\ CheckpointsSettled
      /\ CommittedAfterHandling /\ CacheFollows
  BY DEF IInv
<1>2. pc = "resume" /\ UNCHANGED <<committed, records, cache, pc, current, published, done>>
  BY DEF Seek
<1>3. PICK p \in DOMAIN checkpoints :
        /\ assigned' = {p}
        /\ position' = [position EXCEPT ![p] = NextOffset(checkpoints[p])]
        /\ checkpoints' = [q \in DOMAIN checkpoints \ {p} |-> checkpoints[q]]
  BY DEF Seek
<1>4. p \in Partitions /\ checkpoints[p] \in Nat /\ checkpoints[p] < End(p)
  BY <1>1 DEF Types
<1>5. /\ position' \in [Partitions -> Nat] /\ position'[p] = checkpoints[p] + 1
      /\ \A q \in Partitions : q # p => position'[q] = position[q]
  BY <1>1, <1>3, <1>4 DEF Types, NextOffset
<1>6. ASSUME NEW q \in Partitions PROVE position'[q] <= End(q)
  <2>1. End(q) \in Nat /\ position[q] <= End(q)
    BY <1>1, EndFacts DEF Types
  <2> QED BY <1>4, <1>5, <2>1
<1>7. /\ DOMAIN checkpoints' = DOMAIN checkpoints \ {p}
      /\ \A q \in DOMAIN checkpoints' : checkpoints'[q] = checkpoints[q]
  BY <1>3
<1>8. \A m \in Messages : Settled(m)' <=> Settled(m)
  BY <1>2 DEF Settled, MessageAt
<1>9. Types'
  <2>1. \A id \in DOMAIN records : Location(id)' = Location(id)
    BY <1>2 DEF Location
  <2>2. /\ DOMAIN checkpoints' \subseteq Partitions
        /\ \A q \in DOMAIN checkpoints' : checkpoints'[q] \in Nat /\ checkpoints'[q] < End(q)
    BY <1>1, <1>7 DEF Types
  <2>3. assigned' \subseteq Partitions
    BY <1>3, <1>4
  <2> QED BY <1>1, <1>2, <1>5, <1>6, <2>1, <2>2, <2>3 DEF Types
<1>10. InHand'
  BY <1>1, <1>2 DEF InHand, Types
<1>11. RecordsSettled' /\ CommittedAfterHandling'
  BY <1>1, <1>2, <1>8 DEF RecordsSettled, CommittedAfterHandling, SettledUpTo
<1>12. CheckpointsSettled'
  BY <1>1, <1>7, <1>8 DEF CheckpointsSettled, SettledUpTo
<1>13. NothingSkipped'
  <2> SUFFICES ASSUME NEW m \in Messages, m.partition \in assigned', m.offset < position'[m.partition]
               PROVE  Settled(m)
    BY <1>8 DEF NothingSkipped
  <2>1. m.partition = p /\ m.offset <= checkpoints[p]
    BY <1>3, <1>4, <1>5, MessageFacts
  <2> QED BY <1>1, <2>1 DEF CheckpointsSettled, SettledUpTo
<1>14. CacheFollows'
  BY <1>1, <1>2 DEF CacheFollows
<1> QED BY <1>9, <1>10, <1>11, <1>12, <1>13, <1>14 DEF IInv

LEMMA ResumedIInv == IInv /\ Resumed => IInv'
<1> SUFFICES ASSUME IInv, Resumed PROVE IInv'
  OBVIOUS
<1>1. /\ Types /\ RecordsSettled /\ CheckpointsSettled
      /\ CommittedAfterHandling /\ NothingSkipped /\ CacheFollows
  BY DEF IInv
<1>2. /\ pc = "resume" /\ pc' = "idle" /\ DOMAIN checkpoints = {}
      /\ UNCHANGED <<committed, assigned, position, records, cache, current, checkpoints,
                     published, done>>
  BY DEF Resumed, clientVars
<1>3. \A m \in Messages : Settled(m)' <=> Settled(m)
  BY <1>2 DEF Settled, MessageAt
<1>4. Types'
  <2>1. \A id \in DOMAIN records : Location(id)' = Location(id)
    BY <1>2 DEF Location
  <2> QED BY <1>1, <1>2, <2>1 DEF Types, Steps
<1>5. InHand'
  BY <1>1, <1>2 DEF InHand, Types
<1>6. RecordsSettled' /\ CheckpointsSettled'
  BY <1>1, <1>2, <1>3 DEF RecordsSettled, CheckpointsSettled, SettledUpTo
<1>7. CommittedAfterHandling' /\ NothingSkipped'
  BY <1>1, <1>2, <1>3 DEF CommittedAfterHandling, NothingSkipped
<1>8. CacheFollows'
  BY <1>1, <1>2 DEF CacheFollows
<1> QED BY <1>4, <1>5, <1>6, <1>7, <1>8 DEF IInv

\* IInv is an invariant.
LEMMA Inductive == Spec => []IInv
<1>1. IInv /\ [Next]_vars => IInv'
  <2> SUFFICES ASSUME IInv, [Next]_vars PROVE IInv'
    OBVIOUS
  <2>1. CASE UNCHANGED vars
    <3>1. UNCHANGED <<committed, assigned, position, records, cache, pc, current, checkpoints,
                      published, done>>
      BY <2>1 DEF vars, clientVars
    <3>2. Types'
      <4>1. \A id \in DOMAIN records' : Location(id)' = Location(id)
        BY <3>1, SMTT(30) DEF Location
      <4> QED BY <3>1, <4>1 DEF IInv, Types
    <3>3. InHand'
      BY <3>1 DEF IInv, InHand, Location, MessageAt, Outcome
    <3>4. RecordsSettled' /\ CheckpointsSettled'
      BY <3>1 DEF IInv, RecordsSettled, CheckpointsSettled, SettledUpTo, Settled
    <3>5. CommittedAfterHandling' /\ NothingSkipped' /\ CacheFollows'
      BY <3>1 DEF IInv, CommittedAfterHandling, NothingSkipped, CacheFollows, Settled, MessageAt
    <3> QED BY <3>2, <3>3, <3>4, <3>5 DEF IInv
  <2> QED BY <2>1, PollIInv, SaveReceivedIInv, CacheReceivedIInv, PublishIInv, SaveOutcomeIInv,
             CacheOutcomeIInv, CommitIInv, CrashIInv, RecoverIInv, SeekIInv, ResumedIInv
          DEF Next, Step
<1> QED BY <1>1, InitIInv, PTL DEF Spec

----------------------------------------------------------------------------
(* The theorems                                                            *)

\* Type correctness of ingestion and recovery.
THEOREM TypeCorrectness == Spec => []TypeOK
<1>1. IInv => TypeOK
  <2> SUFFICES ASSUME Types PROVE TypeOK
    BY DEF IInv
  <2>1. \A p \in Partitions : committed[p] \in 0..Len(Log[p]) /\ position[p] \in 0..Len(Log[p])
    <3> TAKE p \in Partitions
    <3>1. /\ End(p) \in Nat /\ committed[p] \in Nat /\ position[p] \in Nat
          /\ committed[p] <= End(p) /\ position[p] <= End(p)
      BY EndFacts DEF Types
    <3>2. committed[p] \in 0..End(p) /\ position[p] \in 0..End(p)
      BY <3>1
    <3> QED BY <3>2 DEF End
  <2>2. \A id \in DOMAIN records :
          /\ records[id].status \in {"received", "processed", "rejected"}
          /\ [partition |-> records[id].partition, offset |-> records[id].offset] \in Messages
    BY DEF Types, Record, Statuses, Location
  <2> QED BY <2>1, <2>2 DEF Types, TypeOK
<1> QED BY <1>1, Inductive, PTL

(***************************************************************************)
(* Wherever the process dies, process_next has committed no offset whose   *)
(* message, or one before it, has no recorded outcome.                     *)
(***************************************************************************)
THEOREM CommitsFollowHandling == Spec => []CommittedAfterHandling
<1>1. IInv => CommittedAfterHandling
  BY DEF IInv
<1> QED BY <1>1, Inductive, PTL

(***************************************************************************)
(* Neither poll nor a recovery through derived checkpoints takes the       *)
(* client past a message that nobody has handled.                          *)
(***************************************************************************)
THEOREM NothingEverSkipped == Spec => []NothingSkipped
<1>1. IInv => NothingSkipped
  BY DEF IInv
<1> QED BY <1>1, Inductive, PTL

(***************************************************************************)
(* Between two messages the status cache shows what the records say, also  *)
(* after a crash between a save and its cache update.                      *)
(***************************************************************************)
THEOREM CacheAlwaysAgrees == Spec => []CacheAgrees
<1>1. IInv => CacheAgrees
  BY DEF IInv, CacheFollows, CacheAgrees
<1> QED BY <1>1, Inductive, PTL

----------------------------------------------------------------------------
(* A command is published once, if no two commands have one id             *)

\* The log does not repeat a transaction id.
UniqueIds ==
  \A m, n \in Messages :
    /\ MessageAt(m).kind # "malformed" /\ MessageAt(n).kind # "malformed"
    /\ MessageAt(m).id = MessageAt(n).id
    => m = n

\* The record of a message is at its place and says processed.
Processed(m) ==
  /\ MessageAt(m).id \in DOMAIN records
  /\ Location(MessageAt(m).id) = m
  /\ records[MessageAt(m).id].status = "processed"

Valid(m) == MessageAt(m).kind = "valid"

\* A record is at the place of a message of its id.
OwnPlace ==
  \A id \in DOMAIN records : /\ MessageAt(Location(id)).id = id
                             /\ MessageAt(Location(id)).kind # "malformed"

\* Every command below a committed offset, a position or a processed record is processed.
CommittedProcessed ==
  \A m \in Messages : Valid(m) /\ m.offset < committed[m.partition] => Processed(m)

PassedProcessed ==
  pc # "down" => \A m \in Messages :
    Valid(m) /\ m.partition \in assigned /\ m.offset < position[m.partition] /\ m # current
      => Processed(m)

BeforeProcessed ==
  \A id \in DOMAIN records : records[id].status = "processed" =>
    \A m \in Messages :
      Valid(m) /\ m.partition = records[id].partition /\ m.offset <= records[id].offset
        => Processed(m)

(***************************************************************************)
(* The client is past every processed record of the partitions it consumes *)
(* unless it still has to seek there; the message in hand is new.          *)
(***************************************************************************)
PastRecords ==
  /\ pc # "down" => \A id \in DOMAIN records :
       records[id].status = "processed" /\ records[id].partition \in assigned =>
         \/ records[id].partition \in DOMAIN checkpoints
         \/ records[id].offset < position[records[id].partition]
  /\ pc = "save_received" => \A id \in DOMAIN records :
       records[id].status = "processed" /\ records[id].partition = current.partition =>
         records[id].offset < current.offset

\* A checkpoint is the highest of the processed records.
CheckpointsHighest ==
  \A p \in DOMAIN checkpoints :
    /\ \E id \in DOMAIN records : /\ records[id].status = "processed"
                                  /\ records[id].partition = p
                                  /\ records[id].offset = checkpoints[p]
    /\ \A id \in DOMAIN records : records[id].status = "processed" /\ records[id].partition = p
         => records[id].offset <= checkpoints[p]

PublishedOnce ==
  /\ OwnPlace /\ CommittedProcessed /\ PassedProcessed /\ BeforeProcessed
  /\ PastRecords /\ CheckpointsHighest

\* The places of the records, as numbers.
LEMMA RecordFacts ==
  ASSUME Types, NEW id \in DOMAIN records
  PROVE  /\ records[id].partition \in Partitions /\ records[id].offset \in Nat
         /\ Location(id) \in Messages /\ Location(id).partition = records[id].partition
         /\ Location(id).offset = records[id].offset
<1>1. Location(id) \in Messages
  BY DEF Types
<1> QED BY <1>1, MessageFacts DEF Location

LEMMA InitPublishedOnce == Init => PublishedOnce
<1> SUFFICES ASSUME Init PROVE PublishedOnce
  OBVIOUS
<1>1. DOMAIN records = {} /\ DOMAIN checkpoints = {}
  BY DEF Init
<1>2. \A m \in Messages : /\ ~(m.offset < committed[m.partition])
                          /\ ~(m.offset < position[m.partition])
  BY MessageFacts DEF Init
<1> QED BY <1>1, <1>2 DEF PublishedOnce, OwnPlace, CommittedProcessed, PassedProcessed,
                          BeforeProcessed, PastRecords, CheckpointsHighest

(***************************************************************************)
(* A step that leaves the records and the client alone keeps PublishedOnce *)
(* unless it commits, or the message in hand changes.                      *)
(***************************************************************************)
LEMMA SameRecords ==
  ASSUME UNCHANGED records
  PROVE  /\ \A m \in Messages : Processed(m)' <=> Processed(m)
         /\ \A id : Location(id)' = Location(id)
BY DEF Processed, Location, MessageAt

LEMMA QuietPublishedOnce ==
  ASSUME PublishedOnce, UNCHANGED <<records, committed, assigned, position, current, checkpoints>>,
         pc # "down", pc' # "save_received"
  PROVE  PublishedOnce'
<1>1. /\ OwnPlace /\ CommittedProcessed /\ PassedProcessed /\ BeforeProcessed
      /\ PastRecords /\ CheckpointsHighest
  BY DEF PublishedOnce
<1>2. \A m \in Messages : Processed(m)' <=> Processed(m)
  BY SameRecords
<1>3. OwnPlace'
  BY <1>1 DEF OwnPlace, Location, MessageAt
<1>4. CommittedProcessed' /\ PassedProcessed' /\ BeforeProcessed'
  BY <1>1, <1>2 DEF CommittedProcessed, PassedProcessed, BeforeProcessed, Valid, MessageAt
<1>5. PastRecords' /\ CheckpointsHighest'
  BY <1>1 DEF PastRecords, CheckpointsHighest
<1> QED BY <1>3, <1>4, <1>5 DEF PublishedOnce

LEMMA PollPublishedOnce == IInv /\ PublishedOnce /\ Poll => PublishedOnce'
<1> SUFFICES ASSUME IInv, PublishedOnce, Poll PROVE PublishedOnce'
  OBVIOUS
<1>1. /\ Types /\ OwnPlace /\ CommittedProcessed /\ PassedProcessed /\ BeforeProcessed
      /\ PastRecords /\ CheckpointsHighest
  BY DEF IInv, PublishedOnce
<1>2. /\ pc = "idle" /\ current = NoMessage /\ DOMAIN checkpoints = {}
      /\ UNCHANGED <<assigned, records, checkpoints>>
  BY <1>1 DEF Poll, Types
<1>3. PICK p \in assigned :
        LET m == [partition |-> p, offset |-> position[p]]
        IN  /\ m \in Messages
            /\ position' = [position EXCEPT ![p] = @ + 1]
            /\ IF MessageAt(m).kind = "malformed"
               THEN CommitOffset(m) /\ UNCHANGED <<pc, current>>
               ELSE pc' = "save_received" /\ current' = m /\ UNCHANGED committed
  BY DEF Poll
<1> DEFINE m == [partition |-> p, offset |-> position[p]]
<1>4. /\ m \in Messages /\ m.partition = p /\ m.offset = position[p] /\ p \in Partitions
      /\ position[p] \in Nat /\ position'[p] = position[p] + 1
      /\ \A q \in Partitions : q # p => position'[q] = position[q]
  BY <1>1, <1>3, MessageFacts DEF Types
<1>5. \/ MessageAt(m).kind = "malformed" /\ CommitOffset(m) /\ UNCHANGED <<pc, current>>
      \/ /\ MessageAt(m).kind # "malformed" /\ pc' = "save_received" /\ current' = m
         /\ UNCHANGED committed
  BY <1>3
<1> HIDE DEF m
<1>6. \A n \in Messages : Processed(n)' <=> Processed(n)
  BY <1>2, SameRecords
<1>7. \A n \in Messages : Valid(n) /\ n.partition = p /\ n.offset < position[p] => Processed(n)
  BY <1>1, <1>2, <1>3, MessageFacts DEF PassedProcessed
<1>8. OwnPlace' /\ BeforeProcessed' /\ CheckpointsHighest'
  BY <1>1, <1>2, <1>6 DEF OwnPlace, BeforeProcessed, CheckpointsHighest, Location, MessageAt, Valid
<1>9. ASSUME NEW n \in Messages, Valid(n), n.offset < committed'[n.partition]
      PROVE  Processed(n)
  <2>1. CASE MessageAt(m).kind # "malformed"
    BY <1>1, <1>5, <1>9, <2>1 DEF CommittedProcessed
  <2>2. CASE MessageAt(m).kind = "malformed"
    <3>1. committed' = [committed EXCEPT ![p] = position[p] + 1]
      BY <1>4, <1>5, <2>2 DEF CommitOffset
    <3>2. n.partition \in Partitions /\ n.offset \in Nat
      BY MessageFacts
    <3>3. CASE n.partition # p
      BY <1>1, <1>9, <3>1, <3>2, <3>3 DEF CommittedProcessed, Types
    <3>4. CASE n.partition = p
      <4>1. n.offset < position[p] + 1
        BY <1>1, <1>4, <1>9, <3>1, <3>4 DEF Types
      <4>2. n # m
        BY <1>9, <2>2 DEF Valid
      <4>3. n.offset # position[p]
        BY <1>4, <3>4, <4>2, SamePlace
      <4> QED BY <1>4, <1>7, <1>9, <3>2, <3>4, <4>1, <4>3
    <3> QED BY <3>3, <3>4
  <2> QED BY <2>1, <2>2
<1>10. CommittedProcessed'
  BY <1>6, <1>9 DEF CommittedProcessed, Valid, MessageAt
<1>11. ASSUME NEW n \in Messages, Valid(n), n.partition \in assigned,
              n.offset < position'[n.partition], n # current'
       PROVE  Processed(n)
  <2>1. n.partition \in Partitions /\ n.offset \in Nat
    BY MessageFacts
  <2>2. CASE n.partition # p
    BY <1>1, <1>2, <1>4, <1>11, <2>1, <2>2, MessageFacts DEF PassedProcessed
  <2>3. CASE n.partition = p
    <3>1. n # m
      BY <1>5, <1>11 DEF Valid
    <3>2. n.offset # position[p]
      BY <1>4, <2>3, <3>1, SamePlace
    <3> QED BY <1>4, <1>7, <1>11, <2>1, <2>3, <3>2
  <2> QED BY <2>2, <2>3
<1>12. PassedProcessed'
  BY <1>2, <1>6, <1>11 DEF PassedProcessed, Valid, MessageAt
<1>13. \A id \in DOMAIN records : records[id].status = "processed" /\ records[id].partition \in assigned
         => records[id].offset < position[records[id].partition]
  BY <1>1, <1>2 DEF PastRecords
<1>14. PastRecords'
  <2>1. ASSUME NEW id \in DOMAIN records, records[id].status = "processed",
               records[id].partition \in assigned
        PROVE  records[id].offset < position'[records[id].partition]
    BY <1>1, <1>4, <1>13, <2>1, RecordFacts
  <2>2. ASSUME pc' = "save_received", NEW id \in DOMAIN records, records[id].status = "processed",
               records[id].partition = current'.partition
        PROVE  records[id].offset < current'.offset
    <3>1. current' = m
      BY <1>2, <1>5, <2>2
    <3> QED BY <1>3, <1>4, <1>13, <2>2, <3>1
  <2> QED BY <1>2, <2>1, <2>2 DEF PastRecords
<1> QED BY <1>8, <1>10, <1>12, <1>14 DEF PublishedOnce

(***************************************************************************)
(* Receiving a message resets no processed record: the record of its id is *)
(* its own, and the client is past every processed one.                    *)
(***************************************************************************)
LEMMA SaveReceivedPublishedOnce ==
  ASSUME UniqueIds, IInv, PublishedOnce, SaveReceived PROVE PublishedOnce'
<1> DEFINE key == MessageAt(current).id
           record == [status |-> "received", partition |-> current.partition,
                      offset |-> current.offset]
<1>1. /\ Types /\ InHand /\ OwnPlace /\ CommittedProcessed /\ PassedProcessed /\ BeforeProcessed
      /\ PastRecords /\ CheckpointsHighest
  BY DEF IInv, PublishedOnce
<1>2. /\ pc = "save_received" /\ pc' = "cache_received" /\ DOMAIN checkpoints = {}
      /\ records' = Put(records, key, record)
      /\ UNCHANGED <<committed, assigned, position, current, checkpoints>>
  BY <1>1 DEF SaveReceived, clientVars, Types
<1>3. current \in Messages /\ current # NoMessage /\ MessageAt(current).kind # "malformed"
  BY <1>1, <1>2, MessageFacts DEF Types, InHand
<1>4. current = [partition |-> current.partition, offset |-> current.offset]
      /\ current.offset \in Nat
  BY <1>3, MessageFacts
<1>5. /\ DOMAIN records' = DOMAIN records \cup {key} /\ records'[key] = record
      /\ \A id \in DOMAIN records : id # key => records'[id] = records[id]
  <2> HIDE DEF key, record
  <2> QED BY <1>2 DEF Put
<1>6. Location(key)' = current
  <2>1. records'[key].partition = current.partition /\ records'[key].offset = current.offset
    BY <1>5
  <2>2. Location(key)' = [partition |-> records'[key].partition, offset |-> records'[key].offset]
    BY <1>2 DEF Location, MessageAt
  <2> HIDE DEF key
  <2> QED BY <1>4, <2>1, <2>2
<1>7. \A id \in DOMAIN records : id # key => Location(id)' = Location(id)
  <2> HIDE DEF key, record
  <2> QED BY <1>5 DEF Location
<1>8. ASSUME NEW m \in Messages, Valid(m), Processed(m) PROVE Processed(m)'
  <2>1. MessageAt(m).id # key
    <3> SUFFICES ASSUME MessageAt(m).id = key PROVE FALSE
      OBVIOUS
    <3>1. m = current
      BY <1>3, <1>8 DEF UniqueIds, Valid
    <3>2. /\ key \in DOMAIN records /\ records[key].status = "processed" /\ Location(key) = current
      BY <1>8, <3>1 DEF Processed
    <3>3. records[key].partition = current.partition /\ records[key].offset = current.offset
      BY <3>2 DEF Location
    <3>4. current.offset < current.offset
      BY <1>1, <1>2, <3>2, <3>3 DEF PastRecords
    <3> QED BY <1>4, <3>4
  <2>2. MessageAt(m)' = MessageAt(m)
    BY DEF MessageAt
  <2> QED BY <1>5, <1>7, <1>8, <2>1, <2>2 DEF Processed
<1>9. \A id \in DOMAIN records' : records'[id].status = "processed" =>
        id \in DOMAIN records /\ records'[id] = records[id]
  BY <1>5
<1>10. OwnPlace'
  <2> SUFFICES ASSUME NEW id \in DOMAIN records'
               PROVE  /\ MessageAt(Location(id)').id = id
                      /\ MessageAt(Location(id)').kind # "malformed"
    BY DEF OwnPlace, MessageAt
  <2>1. CASE id = key
    <3>1. Location(id)' = current
      BY <1>4, <1>5, <2>1 DEF Location
    <3> QED BY <1>3, <2>1, <3>1
  <2>2. CASE id # key
    BY <1>1, <1>5, <1>7, <2>2 DEF OwnPlace
  <2> QED BY <2>1, <2>2
<1>11. CommittedProcessed' /\ PassedProcessed'
  BY <1>1, <1>2, <1>8 DEF CommittedProcessed, PassedProcessed, Valid, MessageAt
<1>12. BeforeProcessed'
  BY <1>1, <1>8, <1>9 DEF BeforeProcessed, Valid, MessageAt
<1>13. PastRecords'
  BY <1>1, <1>2, <1>9 DEF PastRecords
<1>14. CheckpointsHighest'
  BY <1>2 DEF CheckpointsHighest
<1> QED BY <1>10, <1>11, <1>12, <1>13, <1>14 DEF PublishedOnce

LEMMA SaveOutcomePublishedOnce ==
  ASSUME UniqueIds, IInv, PublishedOnce, SaveOutcome PROVE PublishedOnce'
<1> DEFINE key == MessageAt(current).id
<1>1. /\ Types /\ InHand /\ OwnPlace /\ CommittedProcessed /\ PassedProcessed /\ BeforeProcessed
      /\ PastRecords /\ CheckpointsHighest
  BY DEF IInv, PublishedOnce
<1>2. /\ pc = "save_outcome" /\ pc' = "cache_outcome" /\ DOMAIN checkpoints = {}
      /\ records' = [records EXCEPT ![key].status = Outcome(current)]
      /\ UNCHANGED <<committed, assigned, position, current, checkpoints>>
  BY <1>1 DEF SaveOutcome, clientVars, Types
<1>3. current \in Messages /\ current # NoMessage /\ MessageAt(current).kind # "malformed"
      /\ current.partition \in Partitions /\ current.offset \in Nat
  BY <1>1, <1>2, MessageFacts DEF Types, InHand
<1>4. /\ key \in DOMAIN records /\ Location(key) = current /\ records[key].status = "received"
      /\ current.partition \in assigned /\ position[current.partition] = current.offset + 1
  BY <1>1, <1>2, <1>3 DEF InHand
<1>5. /\ DOMAIN records' = DOMAIN records
      /\ records'[key].status = Outcome(current) /\ records'[key].partition = current.partition
      /\ records'[key].offset = current.offset
      /\ \A id \in DOMAIN records : id # key => records'[id] = records[id]
  <2>1. records[key].partition = current.partition /\ records[key].offset = current.offset
        /\ records[key] \in Record
    BY <1>1, <1>4 DEF Location, Types
  <2>2. records' = [records EXCEPT ![key] = [records[key] EXCEPT !.status = Outcome(current)]]
    BY <1>2
  <2> HIDE DEF key
  <2> QED BY <1>1, <1>4, <2>1, <2>2 DEF Types, Record
<1>6. \A id \in DOMAIN records' : Location(id)' = Location(id)
  BY <1>4, <1>5 DEF Location
<1>7. ASSUME NEW m \in Messages, Valid(m), Processed(m) PROVE Processed(m)'
  <2>1. MessageAt(m).id # key
    BY <1>4, <1>7 DEF Processed
  <2>2. MessageAt(m)' = MessageAt(m)
    BY DEF MessageAt
  <2> QED BY <1>5, <1>6, <1>7, <2>1, <2>2 DEF Processed
<1>8. Valid(current) => Processed(current)'
  <2> SUFFICES ASSUME Valid(current) PROVE Processed(current)'
    OBVIOUS
  <2>1. Outcome(current) = "processed"
    BY SMTT(30) DEF Valid, Outcome
  <2>2. MessageAt(current)' = MessageAt(current) /\ current' = current
    BY <1>2, SMTT(30) DEF MessageAt
  <2>3. Location(key)' = current
    BY <1>2, <1>4, <1>5, <1>6, SMTT(30) DEF MessageAt
  <2> QED BY <1>4, <1>5, <2>1, <2>2, <2>3 DEF Processed
<1>9. OwnPlace'
  BY <1>1, <1>5, <1>6, SMTT(30) DEF OwnPlace, MessageAt
<1>10. CommittedProcessed' /\ PassedProcessed'
  BY <1>1, <1>2, <1>7 DEF CommittedProcessed, PassedProcessed, Valid, MessageAt
<1>11. BeforeProcessed'
  <2> SUFFICES ASSUME NEW id \in DOMAIN records', records'[id].status = "processed",
                      NEW m \in Messages, Valid(m), m.partition = records'[id].partition,
                      m.offset <= records'[id].offset
               PROVE  Processed(m)'
    BY DEF BeforeProcessed, Valid, MessageAt
  <2>1. CASE id # key
    BY <1>1, <1>5, <1>7, <2>1 DEF BeforeProcessed
  <2>2. CASE id = key /\ m # current
    <3>1. m.partition = current.partition /\ m.offset < position[m.partition]
      BY <1>3, <1>4, <1>5, <2>2, MessageFacts
    <3>2. Processed(m)
      BY <1>1, <1>2, <1>4, <2>2, <3>1 DEF PassedProcessed
    <3> QED BY <1>7, <3>2
  <2>3. CASE m = current
    <3>1. Processed(current)'
      BY <1>8, <2>3
    <3>2. m = current'
      BY <1>2, <2>3
    <3> QED BY <3>1, <3>2
  <2> QED BY <2>1, <2>2, <2>3
<1>12. PastRecords'
  <2> SUFFICES ASSUME NEW id \in DOMAIN records', records'[id].status = "processed",
                      records'[id].partition \in assigned
               PROVE  records'[id].offset < position[records'[id].partition]
    BY <1>2 DEF PastRecords
  <2>1. CASE id # key
    BY <1>1, <1>2, <1>5, <2>1 DEF PastRecords
  <2>2. CASE id = key
    BY <1>3, <1>4, <1>5, <2>2
  <2> QED BY <2>1, <2>2
<1>13. CheckpointsHighest'
  BY <1>2 DEF CheckpointsHighest
<1> QED BY <1>9, <1>10, <1>11, <1>12, <1>13 DEF PublishedOnce

LEMMA CommitPublishedOnce == IInv /\ PublishedOnce /\ Commit => PublishedOnce'
<1> SUFFICES ASSUME IInv, PublishedOnce, Commit PROVE PublishedOnce'
  OBVIOUS
<1> DEFINE p == current.partition
<1>1. /\ Types /\ InHand /\ OwnPlace /\ CommittedProcessed /\ PassedProcessed /\ BeforeProcessed
      /\ PastRecords /\ CheckpointsHighest
  BY DEF IInv, PublishedOnce
<1>2. /\ pc = "commit" /\ pc' = "idle" /\ current' = NoMessage
      /\ committed' = [committed EXCEPT ![p] = current.offset + 1]
      /\ UNCHANGED <<assigned, position, records, checkpoints>>
  BY DEF Commit, CommitOffset, clientVars
<1>3. current # NoMessage /\ current \in Messages /\ p \in Partitions /\ current.offset \in Nat
  BY <1>1, <1>2, MessageFacts DEF Types
<1>4. p \in assigned /\ position[p] = current.offset + 1
  BY <1>1, <1>2, <1>3 DEF InHand
<1>5. Valid(current) => Processed(current)
  BY <1>1, <1>2, <1>3 DEF InHand, Valid, Processed, Outcome
<1>6. \A m \in Messages : Processed(m)' <=> Processed(m)
  BY <1>2, SameRecords
<1>7. \A m \in Messages : Valid(m) /\ m.partition \in assigned /\ m.offset < position[m.partition]
        => Processed(m)
  BY <1>1, <1>2, <1>5 DEF PassedProcessed
<1>8. ASSUME NEW m \in Messages, Valid(m), m.offset < committed'[m.partition]
      PROVE  Processed(m)
  <2>1. m.partition \in Partitions
    BY MessageFacts
  <2>2. CASE m.partition # p
    BY <1>1, <1>2, <1>8, <2>1, <2>2 DEF CommittedProcessed, Types
  <2>3. CASE m.partition = p
    <3>1. m.offset < current.offset + 1
      BY <1>1, <1>2, <1>3, <1>8, <2>3 DEF Types
    <3> QED BY <1>4, <1>7, <1>8, <2>3, <3>1
  <2> QED BY <2>2, <2>3
<1>9. CommittedProcessed' /\ PassedProcessed'
  BY <1>2, <1>6, <1>7, <1>8 DEF CommittedProcessed, PassedProcessed, Valid, MessageAt
<1>10. OwnPlace' /\ BeforeProcessed'
  BY <1>1, <1>2, <1>6 DEF OwnPlace, BeforeProcessed, Location, Valid, MessageAt
<1>11. PastRecords' /\ CheckpointsHighest'
  BY <1>1, <1>2 DEF PastRecords, CheckpointsHighest
<1> QED BY <1>9, <1>10, <1>11 DEF PublishedOnce

LEMMA CrashPublishedOnce == PublishedOnce /\ Crash => PublishedOnce'
<1> SUFFICES ASSUME PublishedOnce, Crash PROVE PublishedOnce'
  OBVIOUS
<1>1. /\ OwnPlace /\ CommittedProcessed /\ BeforeProcessed
  BY DEF PublishedOnce
<1>2. pc' = "down" /\ checkpoints' = <<>> /\ UNCHANGED <<committed, records>>
  BY DEF Crash
<1>3. DOMAIN checkpoints' = {}
  BY <1>2
<1>4. \A m \in Messages : Processed(m)' <=> Processed(m)
  BY <1>2, SameRecords
<1>5. OwnPlace' /\ BeforeProcessed' /\ CommittedProcessed'
  BY <1>1, <1>2, <1>4 DEF OwnPlace, BeforeProcessed, CommittedProcessed, Location, Valid, MessageAt
<1>6. PassedProcessed' /\ PastRecords' /\ CheckpointsHighest'
  BY <1>2, <1>3 DEF PassedProcessed, PastRecords, CheckpointsHighest
<1> QED BY <1>5, <1>6 DEF PublishedOnce

LEMMA RecoverPublishedOnce == IInv /\ PublishedOnce /\ Recover => PublishedOnce'
<1> SUFFICES ASSUME IInv, PublishedOnce, Recover PROVE PublishedOnce'
  OBVIOUS
<1>1. /\ Types /\ OwnPlace /\ CommittedProcessed /\ BeforeProcessed
  BY DEF IInv, PublishedOnce
<1>2. /\ pc' = "resume" /\ position' = committed /\ checkpoints' = Checkpoints
      /\ UNCHANGED <<committed, records>>
  BY DEF Recover
<1>3. /\ \A p \in DOMAIN Checkpoints :
            \E id \in DOMAIN records : /\ records[id].status = "processed"
                                       /\ records[id].partition = p
                                       /\ records[id].offset = Checkpoints[p]
      /\ \A id \in DOMAIN records : records[id].status = "processed" =>
           /\ records[id].partition \in DOMAIN Checkpoints
           /\ records[id].offset <= Checkpoints[records[id].partition]
  BY <1>1, CheckpointFacts
<1>4. \A m \in Messages : Processed(m)' <=> Processed(m)
  BY <1>2, SameRecords
<1>5. OwnPlace' /\ BeforeProcessed' /\ CommittedProcessed'
  BY <1>1, <1>2, <1>4 DEF OwnPlace, BeforeProcessed, CommittedProcessed, Location, Valid, MessageAt
<1>6. PassedProcessed'
  BY <1>1, <1>2, <1>4 DEF PassedProcessed, CommittedProcessed, Valid, MessageAt
<1>7. PastRecords'
  BY <1>2, <1>3 DEF PastRecords
<1>8. CheckpointsHighest'
  <2> HIDE DEF Checkpoints
  <2> QED BY <1>2, <1>3 DEF CheckpointsHighest
<1> QED BY <1>5, <1>6, <1>7, <1>8 DEF PublishedOnce

LEMMA SeekPublishedOnce == IInv /\ PublishedOnce /\ Seek => PublishedOnce'
<1> SUFFICES ASSUME IInv, PublishedOnce, Seek PROVE PublishedOnce'
  OBVIOUS
<1>1. /\ Types /\ OwnPlace /\ CommittedProcessed /\ BeforeProcessed /\ CheckpointsHighest
  BY DEF IInv, PublishedOnce
<1>2. pc = "resume" /\ UNCHANGED <<committed, records, pc, current>>
  BY DEF Seek
<1>3. PICK p \in DOMAIN checkpoints :
        /\ assigned' = {p}
        /\ position' = [position EXCEPT ![p] = NextOffset(checkpoints[p])]
        /\ checkpoints' = [q \in DOMAIN checkpoints \ {p} |-> checkpoints[q]]
  BY DEF Seek
<1>4. p \in Partitions /\ checkpoints[p] \in Nat
  BY <1>1 DEF Types
<1>5. position'[p] = checkpoints[p] + 1
  BY <1>1, <1>3, <1>4 DEF Types, NextOffset
<1>6. /\ DOMAIN checkpoints' = DOMAIN checkpoints \ {p}
      /\ \A q \in DOMAIN checkpoints' : checkpoints'[q] = checkpoints[q]
  BY <1>3
<1>7. PICK id \in DOMAIN records : /\ records[id].status = "processed"
                                   /\ records[id].partition = p
                                   /\ records[id].offset = checkpoints[p]
  BY <1>1 DEF CheckpointsHighest
<1>8. \A m \in Messages : Processed(m)' <=> Processed(m)
  BY <1>2, SameRecords
<1>9. OwnPlace' /\ BeforeProcessed' /\ CommittedProcessed'
  BY <1>1, <1>2, <1>8 DEF OwnPlace, BeforeProcessed, CommittedProcessed, Location, Valid, MessageAt
<1>10. PassedProcessed'
  <2> SUFFICES ASSUME NEW m \in Messages, Valid(m), m.partition \in assigned',
                      m.offset < position'[m.partition]
               PROVE  Processed(m)
    BY <1>8 DEF PassedProcessed, Valid, MessageAt
  <2>1. m.partition = p /\ m.offset <= checkpoints[p]
    BY <1>3, <1>4, <1>5, MessageFacts
  <2> QED BY <1>1, <1>7, <2>1 DEF BeforeProcessed
<1>11. PastRecords'
  <2> SUFFICES ASSUME NEW x \in DOMAIN records, records[x].status = "processed",
                      records[x].partition \in assigned'
               PROVE  records[x].offset < position'[records[x].partition]
    BY <1>2 DEF PastRecords
  <2>1. records[x].partition = p /\ records[x].offset <= checkpoints[p] /\ records[x].offset \in Nat
    BY <1>1, <1>3, RecordFacts DEF CheckpointsHighest
  <2> QED BY <1>4, <1>5, <2>1
<1>12. CheckpointsHighest'
  BY <1>1, <1>2, <1>6 DEF CheckpointsHighest
<1> QED BY <1>9, <1>10, <1>11, <1>12 DEF PublishedOnce

LEMMA PublishedOnceInductive ==
  ASSUME UniqueIds
  PROVE  IInv /\ PublishedOnce /\ [Next]_vars => PublishedOnce'
<1> SUFFICES ASSUME IInv, PublishedOnce, [Next]_vars PROVE PublishedOnce'
  OBVIOUS
<1>1. CASE UNCHANGED vars
  <2>1. UNCHANGED <<records, committed, assigned, position, current, checkpoints, pc>>
    BY <1>1 DEF vars, clientVars
  <2>2. /\ OwnPlace /\ CommittedProcessed /\ PassedProcessed /\ BeforeProcessed
        /\ PastRecords /\ CheckpointsHighest
    BY DEF PublishedOnce
  <2>3. \A m \in Messages : Processed(m)' <=> Processed(m)
    BY <2>1, SameRecords
  <2>4. OwnPlace' /\ BeforeProcessed' /\ CommittedProcessed' /\ PassedProcessed'
    BY <2>1, <2>2, <2>3 DEF OwnPlace, BeforeProcessed, CommittedProcessed, PassedProcessed,
                            Location, Valid, MessageAt
  <2>5. PastRecords' /\ CheckpointsHighest'
    BY <2>1, <2>2 DEF PastRecords, CheckpointsHighest
  <2> QED BY <2>4, <2>5 DEF PublishedOnce
<1>2. CASE CacheReceived
  <2>1. /\ UNCHANGED <<records, committed, assigned, position, current, checkpoints>>
        /\ pc = "cache_received" /\ pc' \in {"publish", "save_outcome"}
    BY <1>2 DEF CacheReceived, clientVars
  <2> QED BY <2>1, QuietPublishedOnce
<1>3. CASE Publish \/ CacheOutcome \/ Resumed
  <2>1. /\ UNCHANGED <<records, committed, assigned, position, current, checkpoints>>
        /\ pc # "down" /\ pc' # "save_received"
    BY <1>3 DEF Publish, CacheOutcome, Resumed, clientVars
  <2> QED BY <2>1, QuietPublishedOnce
<1> QED BY <1>1, <1>2, <1>3, PollPublishedOnce, SaveReceivedPublishedOnce,
           SaveOutcomePublishedOnce, CommitPublishedOnce, CrashPublishedOnce,
           RecoverPublishedOnce, SeekPublishedOnce
        DEF Next, Step

(***************************************************************************)
(* If no two commands of the log have one id, process_next never publishes *)
(* a command whose offset was committed: a restart seeks to the derived    *)
(* checkpoint, and every command behind a committed offset is behind it.   *)
(***************************************************************************)
THEOREM NeverRepublished ==
  ASSUME UniqueIds
  PROVE  Spec => CommittedNotRepublished
<1> DEFINE Keeps == \A m \in Messages :
                      m.offset < committed[m.partition] => published'[m] = published[m]
<1>1. IInv /\ PublishedOnce /\ [Next]_vars => [Keeps]_vars
  <2> SUFFICES ASSUME IInv, PublishedOnce, Next, NEW m \in Messages,
                      m.offset < committed[m.partition]
               PROVE  published'[m] = published[m]
    OBVIOUS
  <2>1. CASE Publish
    <3>1. /\ pc = "publish" /\ published' = [published EXCEPT ![current] = @ + 1]
          /\ Types /\ InHand /\ CommittedProcessed
      BY <2>1 DEF Publish, IInv, PublishedOnce
    <3>2. current # NoMessage
      BY <3>1 DEF Types
    <3>3. /\ Outcome(current) = "processed"
          /\ records[MessageAt(current).id].status = "received"
      BY <3>1, <3>2 DEF InHand
    <3>4. Valid(current)
      BY <3>3 DEF Valid, Outcome
    <3>5. m # current
      BY <3>1, <3>3, <3>4 DEF CommittedProcessed, Processed
    <3> QED BY <3>1, <3>5 DEF Types
  <2>2. CASE ~Publish
    <3>1. published' = published
      BY <2>2 DEF Next, Step, Poll, SaveReceived, CacheReceived, SaveOutcome, CacheOutcome, Commit,
                  Crash, Recover, Seek, Resumed
    <3> QED BY <3>1
  <2> QED BY <2>1, <2>2
<1>2. IInv /\ PublishedOnce /\ [Next]_vars => PublishedOnce'
  BY PublishedOnceInductive
<1> QED BY <1>1, <1>2, InitPublishedOnce, Inductive, PTL DEF Spec, CommittedNotRepublished
=============================================================================
