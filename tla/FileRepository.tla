--------------------------- MODULE FileRepository ---------------------------
(***************************************************************************)
(* The file-backed repositories (the Postgres*Repository classes of        *)
(* postgres_repositories.cpp that take a directory), which the application *)
(* falls back to when PostgreSQL is not there.  A behaviour is about one   *)
(* of the eight files.  Every save changes the rows in memory and rewrites *)
(* the whole file with ios::trunc; the stream is never checked.  The       *)
(* process may stop, and the disk may fail, anywhere in the rewrite; the   *)
(* constructor of the next process loads what it finds.                    *)
(***************************************************************************)
EXTENDS TsvTables

CONSTANTS Ids,              \* numbers of ids, topics and partitions
          Amounts,          \* quantities, and prices of fills and positions
          Prices,           \* prices of orders and reports: <<>> or <<price>>
          IntentPrices,     \* prices of intents
          Profits,          \* values of unrealized_pnl and available_balance
          Offsets,          \* Kafka offsets
          Reasons,          \* values of a report's reason
          MaxSaves          \* bound on the number of saves

ASSUME IdsAssumption == Ids \subseteq Nat \ {0} /\ Offsets \subseteq Nat

VARIABLES table,            \* which repository this is
          rows,             \* its map, or its vector
          file,             \* the lines of its file
          status,           \* "up", "saving" in flush, "down", "failed" at start
          saves,            \* history: saves so far, for the bound
          highest           \* history: highest offset saved for each key

vars == <<table, rows, file, status, saves, highest>>

Init ==
  /\ table \in DOMAIN Columns
  /\ rows = <<>> /\ file = <<>> /\ status = "up" /\ saves = 0 /\ highest = <<>>

----------------------------------------------------------------------------
(* The saves: the change of the map or vector, then flush begins           *)

Saving(t, new) ==
  /\ table = t
  /\ status = "up" /\ saves < MaxSaves
  /\ rows' = new
  /\ status' = "saving"
  /\ saves' = saves + 1
  /\ UNCHANGED <<table, file>>

Keyed(key, row) == [k \in DOMAIN rows \cup {key} |-> IF k = key THEN row ELSE rows[k]]

Instrument(id) == <<<<id>>, <<id>>, <<id>>, <<id>>, <<id>>, <<1000000>>, <<1000>>>>

Received == 1               \* numbers of the statuses of a transaction
Processed == 2

SaveReceived(id, offset) ==
  /\ Saving("transactions", Keyed(<<id>>, <<<<id>>, <<Received>>, <<id>>, <<id>>, <<offset>>>>))
  /\ UNCHANGED highest

\* An unknown transaction gets a row with an empty topic.
SaveProcessed(id) ==
  /\ Saving("transactions",
            IF <<id>> \in DOMAIN rows THEN Keyed(<<id>>, [rows[<<id>>] EXCEPT ![2] = <<Processed>>])
            ELSE Keyed(<<id>>, <<<<id>>, <<Processed>>, <<>>, <<0>>, <<0>>>>))
  /\ UNCHANGED highest

Higher(key, offset) ==
  [k \in DOMAIN highest \cup {key} |->
     IF k # key THEN highest[k]
     ELSE IF key \in DOMAIN highest /\ highest[key] > offset THEN highest[key] ELSE offset]

\* Mutant: the offset of the next message is stored.
SaveNextOffset(topic, partition, offset) ==
  LET key == <<topic, partition>>
  IN  /\ Saving("checkpoints", Keyed(key, <<<<topic>>, <<partition>>, <<offset + 1>>>>))
      /\ highest' = Higher(key, offset)

SaveCheckpoint(topic, partition, offset) ==
  LET key == <<topic, partition>>
  IN  /\ Saving("checkpoints", Keyed(key, <<<<topic>>, <<partition>>, <<offset>>>>))
      /\ highest' = Higher(key, offset)

Created == 0                \* OrderStatus::created and ::filled
Filled == 4
Market == 0                 \* OrderType::market and ::limit
Limit == 1

SaveOrder(id, quantity, price) ==
  /\ Saving("orders", Keyed(<<id>>, <<<<id>>, <<id>>, <<1>>, <<1>>, <<0>>, <<Limit>>, <<Created>>,
                                      <<quantity>>, price, <<0>>>>))
  /\ UNCHANGED highest

\* An unknown order gets a row without strategy, instrument, quantity and price.
SaveOrderUpdate(id, new_status, filled) ==
  /\ Saving("orders",
            IF <<id>> \in DOMAIN rows
            THEN Keyed(<<id>>, [rows[<<id>>] EXCEPT ![7] = <<new_status>>, ![10] = <<filled>>])
            ELSE Keyed(<<id>>, <<<<id>>, <<id>>, <<>>, <<>>, <<0>>, <<Limit>>, <<new_status>>,
                                 <<0>>, <<>>, <<filled>>>>))
  /\ UNCHANGED highest

AppendFill(id, amount) ==
  /\ Saving("fills", Append(rows, <<<<id>>, <<id>>>> \o Instrument(id)
                                  \o <<<<0>>, <<amount>>, <<amount>>, <<0>>>>))
  /\ UNCHANGED highest

AppendIntent(id, quantity, price) ==
  /\ Saving("intents", Append(rows, <<<<id>>, <<1>>, <<1>>, <<0>>,
                                      <<IF price = <<>> THEN Market ELSE Limit>>,
                                      <<quantity>>, price>>))
  /\ UNCHANGED highest

AppendReport(id, filled, price, reason) ==
  /\ Saving("reports", Append(rows, <<<<id>>, <<id>>, <<id>>, <<1>>, <<0>>, <<Filled>>, <<filled>>,
                                      price, <<0>>, reason, <<12>>>>))
  /\ UNCHANGED highest

SavePosition(id, amount, unrealized) ==
  /\ Saving("positions", Keyed(<<id>>, <<<<id>>>> \o Instrument(id)
                                       \o <<<<amount>>, <<amount>>, <<0>>, <<unrealized>>>>))
  /\ UNCHANGED highest

SaveBalance(asset, total, available) ==
  /\ Saving("balances", Keyed(<<asset>>, <<<<asset>>, <<total>>, <<available>>>>))
  /\ UNCHANGED highest

----------------------------------------------------------------------------
(* flush and load                                                          *)

\* Mutant: the file is opened for appending.
FlushAppends ==
  /\ status = "saving"
  /\ file' = file \o Flush(table, rows)
  /\ status' = "up"
  /\ UNCHANGED <<table, rows, saves, highest>>

\* The stream is closed with every line written.
FinishFlush ==
  /\ status = "saving"
  /\ file' = Flush(table, rows)
  /\ status' = "up"
  /\ UNCHANGED <<table, rows, saves, highest>>

\* The files a rewrite may leave when it is cut: whole lines, then perhaps a
\* line with fewer fields (one, or all but one, for any number between) or with
\* a shorter last number.
CutFiles ==
  LET lines == Flush(table, rows)
      parts(l) == {SubSeq(l, 1, i) : i \in {1, Len(l) - 1}}
                  \cup IF Last(l) = <<>> THEN {l}
                       ELSE {Append(Front(l), <<v>>) : v \in Shorter(Last(Columns[table]), Last(l)[1])}
  IN  UNION {{SubSeq(lines, 1, n)} \cup {Append(SubSeq(lines, 1, n), p) : p \in parts(lines[n + 1])} :
               n \in 0..(Len(lines) - 1)}

\* The rewrite is cut: the disk fails and nobody notices, or the process ends.
CutFlush ==
  /\ status = "saving"
  /\ file' \in CutFiles
  /\ status' \in {"up", "down"}
  /\ UNCHANGED <<table, rows, saves, highest>>

\* The process ends before the file is truncated, or between two saves.
Stop ==
  /\ status \in {"up", "saving"}
  /\ status' = "down"
  /\ UNCHANGED <<table, rows, file, saves, highest>>

\* The constructor of the next process.
Start ==
  /\ status = "down"
  /\ IF LoadThrows(table, file)
     THEN status' = "failed" /\ UNCHANGED rows
     ELSE status' = "up" /\ rows' = Load(table, file)
  /\ UNCHANGED <<table, file, saves, highest>>

Next ==
  \/ \E id \in Ids, o \in Offsets : SaveReceived(id, o)
  \/ \E id \in Ids : SaveProcessed(id)
  \/ \E topic, partition \in Ids, o \in Offsets : SaveCheckpoint(topic, partition, o)
  \/ \E id \in Ids, q \in Amounts, p \in Prices : SaveOrder(id, q, p)
  \/ \E id \in Ids, s \in {Created, Filled}, q \in Amounts : SaveOrderUpdate(id, s, q)
  \/ \E id \in Ids, a \in Amounts : AppendFill(id, a)
  \/ \E id \in Ids, q \in Amounts, p \in IntentPrices : AppendIntent(id, q, p)
  \/ \E id \in Ids, q \in Amounts, p \in Prices, r \in Reasons : AppendReport(id, q, p, r)
  \/ \E id \in Ids, a \in Amounts, u \in Profits : SavePosition(id, a, u)
  \/ \E asset \in Ids, t \in Amounts, a \in Profits : SaveBalance(asset, t, a)
  \/ FinishFlush \/ CutFlush \/ Stop \/ Start

Spec == Init /\ [][Next]_vars

----------------------------------------------------------------------------
(* Properties                                                              *)

Rounded(t, row) ==
  [c \in DOMAIN row |->
     IF row[c] = <<>> THEN row[c]
     ELSE CASE Columns[t][c] = "optional" -> <<SixDecimals(row[c][1])>>
            [] Columns[t][c] = "short" -> <<SixDigits(row[c][1])>>
            [] OTHER -> row[c]]

\* A repository keeps every row, with its values rounded.
Keeps(t, r) == [key \in DOMAIN r |-> Rounded(t, r[key])]

\* What a restart would find; nothing, if load throws.
Found == IF LoadThrows(table, file) THEN <<>> ELSE Load(table, file)

Promise == INSTANCE Repository
             WITH memory <- rows, durable <- Found, Kept <- Keeps,
                  Ordered <- InFileOrder, Log <- Logs

\* The file repositories implement the repository the application expects:
\* across saves, failed and interrupted rewrites and restarts, a reload gives
\* the rows that were saved, all of them, rounded as their columns are, and a
\* rewrite that was cut costs whole rows from its end and at most the last
\* column of one more; no other row and no other column ever changes.  So it is
\* as long as every intent has a price and no reason holds a tab.
ImplementsRepository == Promise!Spec

\* A complete rewrite leaves every row where the next process finds it ("Returns
\* all persisted order intents", "Returns all persisted execution reports").
\* The row of an intent without a price is not found, since split_tsv does not
\* see its empty last field; nor is a report whose reason holds a tab.
AllRowsPersist ==
  [][FinishFlush => Len(InFileOrder(table, Found')) = Len(InFileOrder(table, rows))]_vars

\* What a restart reads is written again as it is: the rounding of a value that
\* was saved is all that any number of further restarts and saves costs, also
\* where rounding carries into a new digit and where the text was cut.
NoFurtherDrift ==
  LET found == InFileOrder(table, Found)
  IN  \A i \in DOMAIN found : Rounded(table, found[i]) = found[i]

\* A Kafka checkpoint that was cut in the middle of its digits is lower than
\* the one saved, never higher: consumption resumes too early and transactions
\* come again, but none is skipped.
CheckpointNeverAhead ==
  table = "checkpoints" =>
    \A key \in DOMAIN Found : key \in DOMAIN highest /\ Found[key][3][1] <= highest[key]

\* Only a file whose last number may be negative can stop the next start, as
\* long as no text holds a tab; orders, fills, intents, reports, transactions and
\* checkpoints that were cut anywhere still load.
CutFileStillLoads ==
  status = "failed" => table \in {"positions", "balances"}
=============================================================================
