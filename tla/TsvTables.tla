----------------------------- MODULE TsvTables -----------------------------
(***************************************************************************)
(* The text format of the file-backed repositories: one line per row, a    *)
(* tab between two columns.  A value is a sequence of the pieces that tabs *)
(* separate in its text: <<>> for an absent value or an empty text, <<v>>  *)
(* for a number or an ordinary text (numbered), <<v, w>> for a text that   *)
(* holds a tab.  Amounts (doubles) are integers that count 10^-7; those in *)
(* use are zero or at least 10^-4, which are written without an exponent.  *)
(***************************************************************************)
EXTENDS Integers, SequencesExt

CONSTANT NotANumber         \* text that std::stoi and std::stod do not accept

----------------------------------------------------------------------------
(* Numbers                                                                 *)

RoundTo(unit, n) ==
  LET m == IF n < 0 THEN -n ELSE n
      r == ((m + unit \div 2) \div unit) * unit
  IN  IF n < 0 THEN -r ELSE r

\* Mutant: up to the next sixth decimal.
SixDecimalsUp(n) == RoundTo(10, n) + 10

\* std::to_string of a double: six decimals
SixDecimals(n) == RoundTo(10, n)

\* operator<< of a double at the stream's default precision: six digits
SixDigits(n) ==
  LET m == IF n < 0 THEN -n ELSE n
  IN  RoundTo(CHOOSE u \in {10 ^ i : i \in 0..4} :
                m \div u < 1000000 /\ (u = 1 \/ m \div u >= 100000), n)

\* What is written for one value in a column of the given kind; the columns
\* under setprecision(17) and the integers are written exactly.
Encode(kind, v) ==
  IF v = <<>> THEN << <<>> >>
  ELSE CASE kind = "optional" -> << <<SixDecimals(v[1])>> >>
         [] kind = "short" -> << <<SixDigits(v[1])>> >>
         [] OTHER -> [i \in DOMAIN v |-> <<v[i]>>]

Line(columns, row) == FlattenSeq([i \in DOMAIN columns |-> Encode(columns[i], row[i])])

\* split_tsv: getline does not see an empty last field
SplitTsv(line) == IF line # <<>> /\ Last(line) = <<>> THEN Front(line) ELSE line

\* What a reader can find of a number whose text was cut short: fewer digits.
Shorter(kind, n) ==
  IF kind = "whole" THEN {n \div (10 ^ i) : i \in 0..3} \ {0}
  ELSE LET m == IF n < 0 THEN -n ELSE n
           cut == {(m \div (10 ^ i)) * (10 ^ i) : i \in 0..7}
                  \cup {(m \div (10 ^ (7 + i))) * (10 ^ 7) : i \in {j \in 1..2 : m >= 10 ^ (7 + j)}}
       IN  IF n < 0 THEN {-c : c \in cut} \cup {NotANumber} ELSE cut

----------------------------------------------------------------------------
(* The eight tables: the columns as flush writes them                      *)

InstrumentColumns == <<"text", "text", "text", "text", "text", "short", "short">>

TransactionColumns == <<"text", "text", "text", "whole", "whole">>

CheckpointColumns == <<"text", "whole", "whole">>

OrderColumns == <<"text", "text", "text", "text", "whole", "whole", "whole",
                  "short", "optional", "short">>

FillColumns == <<"text", "text">> \o InstrumentColumns
               \o <<"whole", "short", "short", "short">>

IntentColumns == <<"text", "text", "text", "whole", "whole", "exact", "optional">>

ReportColumns == <<"text", "text", "text", "text", "whole", "whole", "exact",
                   "optional", "exact", "text", "whole">>

PositionColumns == <<"text">> \o InstrumentColumns \o <<"short", "short", "short", "short">>

BalanceColumns == <<"text", "exact", "exact">>

Columns ==
  [transactions |-> TransactionColumns, checkpoints |-> CheckpointColumns,
   orders |-> OrderColumns, fills |-> FillColumns, intents |-> IntentColumns,
   reports |-> ReportColumns, positions |-> PositionColumns, balances |-> BalanceColumns]

Logs == {"fills", "intents", "reports"}      \* vectors; the others are maps

KeyOf(table, row) ==
  CASE table = "checkpoints" -> <<row[1][1], row[2][1]>>
    [] table = "positions" -> <<row[2][1]>>
    [] OTHER -> <<row[1][1]>>

KeyBefore(a, b) == a[1] < b[1] \/ (a[1] = b[1] /\ Len(a) > 1 /\ a[2] < b[2])

\* The rows in the order of the file: sorted by key, or as appended.
InFileOrder(table, rows) ==
  IF table \in Logs THEN rows
  ELSE LET keys == SetToSortSeq(DOMAIN rows, KeyBefore)
       IN  [i \in DOMAIN keys |-> rows[keys[i]]]

\* flush of any repository: the whole file, written anew
Flush(table, rows) ==
  LET content == InFileOrder(table, rows)
  IN  [i \in DOMAIN content |-> Line(Columns[table], content[i])]

----------------------------------------------------------------------------
(* load, repository by repository: the number of fields a line must have   *)

TransactionFields == 5
CheckpointFields == 3

\* Mutant: a line that lost its last field is taken for an order.
ShortOrderFields == 9

OrderFields == 10
FillFields == 13
IntentFields == 7
ReportFields == 11
PositionFields == 12
BalanceFields == 3

Fields ==
  [transactions |-> TransactionFields, checkpoints |-> CheckpointFields,
   orders |-> OrderFields, fills |-> FillFields, intents |-> IntentFields,
   reports |-> ReportFields, positions |-> PositionFields, balances |-> BalanceFields]

\* Lines of another length are skipped.
Accepted(table, file) ==
  SelectSeq([i \in DOMAIN file |-> SplitTsv(file[i])], LAMBDA f : Len(f) = Fields[table])

\* std::stoi and std::stod throw on what is not a number; nothing catches it.
LoadThrows(table, file) ==
  \E i \in DOMAIN Accepted(table, file) : \E c \in DOMAIN Columns[table] :
    LET f == Accepted(table, file)[i]
    IN  /\ Columns[table][c] # "text"
        /\ \/ c > Len(f)
           \/ f[c] = <<NotANumber>>
           \/ f[c] = <<>> /\ Columns[table][c] # "optional"

\* The last line of a key wins.
ByKey(table, rows) ==
  [key \in {KeyOf(table, rows[i]) : i \in DOMAIN rows} |->
     rows[CHOOSE i \in DOMAIN rows :
            /\ KeyOf(table, rows[i]) = key
            /\ \A j \in DOMAIN rows : KeyOf(table, rows[j]) = key => j <= i]]

Load(table, file) ==
  IF table \in Logs THEN Accepted(table, file) ELSE ByKey(table, Accepted(table, file))
=============================================================================
