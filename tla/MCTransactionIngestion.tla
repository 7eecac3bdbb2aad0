----------------------- MODULE MCTransactionIngestion -----------------------
(* Two partitions; in the first a command is followed by a rejected one, a *)
(* message that does not parse, and another command.                       *)
EXTENDS TransactionIngestion, TLC

CONSTANTS p1, p2

M(id, kind) == [id |-> id, kind |-> kind]

MCPartitions == {p1, p2}

MCLog == (p1 :> <<M("t1", "valid"), M("t2", "invalid"), M("", "malformed"),
                  M("t3", "valid")>>)
      @@ (p2 :> <<M("t4", "valid"), M("t5", "valid")>>)
=============================================================================
