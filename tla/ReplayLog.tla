----------------------------- MODULE ReplayLog -----------------------------
(***************************************************************************)
(* The event log of the replay service (replay_service.cpp): one line per  *)
(* runtime event, in the text format of TsvTables.  An event is the row of *)
(* its values, its first value the tag of its kind.  A list of book levels *)
(* is <<>> or <<levels>> with levels a sequence of <<price, quantity>>.    *)
(***************************************************************************)
EXTENDS TsvTables

Market == 1                 \* the tags "market", "transaction" and "timer"
Transaction == 2
Timer == 3

\* serialize_event: the columns of the three kinds
EventColumns ==
  << <<"text", "text", "whole">> \o InstrumentColumns
       \o <<"short", "short", "optional", "optional", "levels", "levels",
            "whole", "whole", "whole">>,
     <<"text", "text", "text", "text", "text", "text", "short", "optional",
       "text", "whole", "whole">>,
     <<"text", "text", "whole">> >>

\* encode_book_levels: both numbers of a level at the default precision
EncodeLevels(levels) == [i \in DOMAIN levels |-> <<SixDigits(levels[i][1]), SixDigits(levels[i][2])>>]

SerializeEvent(e) ==
  LET columns == EventColumns[e[1][1]]
  IN  FlattenSeq([i \in DOMAIN columns |->
        IF columns[i] = "levels" /\ e[i] # <<>> THEN << <<EncodeLevels(e[i][1])>> >>
        ELSE Encode(columns[i], e[i])])

\* append_event
AppendEvent(log, e) == Append(log, SerializeEvent(e))

\* std::stoll of a list of levels reads the digits before the first point or colon.
LeadingNumber(cell) == <<cell[1][1][1] \div 10000000>>

\* A market line of 17 fields is taken for the format without book levels; what
\* is written has 19, so that here it is a line that was cut.
Widen(f) ==
  SubSeq(f, 1, 14) \o << <<>>, <<>>, LeadingNumber(f[15]), LeadingNumber(f[16]), f[17]>>

\* deserialize_event: <<event>>, or <<>> for a line it does not accept
DeserializeEvent(line) ==
  LET f == SplitTsv(line)
      columns == EventColumns[f[1][1]]
      numbers == {i \in DOMAIN columns : columns[i] \in {"whole", "short"}}
  IN  IF f = <<>> THEN <<>>
      ELSE IF Len(f) = Len(columns) /\ \A i \in numbers : f[i] # <<>> THEN <<f>>
      ELSE IF Len(f) = 17 /\ f[1] = <<Market>> /\ f[15] # <<>> /\ f[16] # <<>> THEN <<Widen(f)>>
      ELSE <<>>

\* replay: the events handed to on_event, in file order
Replay(log) == FlattenSeq([i \in DOMAIN log |-> DeserializeEvent(log[i])])

\* ReplayStats
ReplayStats(log) ==
  [total_records |-> Len(log), replayed_records |-> Len(Replay(log)),
   skipped_records |-> Len(SelectSeq(log, LAMBDA l : DeserializeEvent(l) = <<>>))]

\* What is left of a line when the process ends in append_event: its first
\* cells, the last of them perhaps with fewer digits.
CutLines(line) ==
  LET columns == EventColumns[line[1][1]]
      cut(i) == IF columns[i] = "whole" THEN {<<n>> : n \in Shorter("whole", line[i][1])} ELSE {line[i]}
  IN  UNION {{Append(SubSeq(line, 1, i - 1), c) : c \in cut(i)} : i \in 2..Len(line)}
=============================================================================
