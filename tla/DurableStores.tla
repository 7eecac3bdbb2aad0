--------------------------- MODULE DurableStores ---------------------------
(***************************************************************************)
(* The repositories the runtime writes to and recovery reads               *)
(* (postgres_repositories.cpp, storage_interfaces.cpp), as operators on    *)
(* their tables: order rows by id, the sequence of fill rows, positions by *)
(* instrument and balances by asset.  Each statement commits on its own.   *)
(* The back ends differ in one respect: PostgreSQL keeps the first fill    *)
(* row of an id, the in-memory repository appends.                         *)
(***************************************************************************)
EXTENDS Portfolio, Sequences

CONSTANT Backend            \* "postgres" or "memory"

ASSUME BackendAssumption == Backend \in {"postgres", "memory"}

\* save_order: the row of a request that has just been submitted
SaveOrder(rows, id, request) ==
  Set(rows, id, [instrument |-> request.instrument, side |-> request.side,
                 type |-> request.type, price |-> request.price,
                 quantity |-> request.quantity, filled |-> 0, status |-> "created"])

\* The row that an update of an unknown order makes: no instrument, no quantity.
BlankRow == [instrument |-> "none", side |-> "buy", type |-> "limit", price |-> 0,
             quantity |-> 0, filled |-> 0, status |-> "created"]

\* Mutant: the update does not carry the filled quantity.
SaveStatusOnly(rows, update) ==
  Set(rows, update.order_id,
      [At(rows, update.order_id, BlankRow) EXCEPT !.status = update.status])

\* save_order_update: nothing but status and filled quantity changes
SaveOrderUpdate(rows, update) ==
  Set(rows, update.order_id,
      [At(rows, update.order_id, BlankRow) EXCEPT !.status = update.status,
                                                  !.filled = update.filled])

\* all_open_orders, the ids
OpenOrders(rows) ==
  {id \in DOMAIN rows : rows[id].status \in {"created", "pending_submit", "acknowledged",
                                             "partially_filled", "pending_cancel"}}

\* append_fill of LibpqFillRepository: ON CONFLICT (fill_id) DO NOTHING
InsertFill(fills, fill) ==
  IF \E k \in DOMAIN fills : fills[k].fill_id = fill.fill_id
  THEN fills ELSE Append(fills, fill)

\* append_fill of InMemoryFillRepository
PushFill(fills, fill) == Append(fills, fill)

AppendFill(fills, fill) ==
  IF Backend = "postgres" THEN InsertFill(fills, fill) ELSE PushFill(fills, fill)

\* save_position: one row per instrument
SavePosition(rows, i, position) == Set(rows, i, position)

\* save_balance: one row per asset
SaveBalance(rows, asset, total) == Set(rows, asset, total)

\* upsert_snapshot of the market state cache: the last one wins
UpsertSnapshot(rows, i, snapshot) == Set(rows, i, snapshot)
=============================================================================
