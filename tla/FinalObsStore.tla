--------------------------- MODULE FinalObsStore ----------------------------
(***************************************************************************)
(* FinalObsStorage (transport/ring.py): a shared circular store of sparse  *)
(* rows, one row for each environment whose episode ended in a step.  It   *)
(* has no cursor of its own: only the producer allocates rows, every ring  *)
(* slot records where its rows start and end, and observing that the       *)
(* learner acknowledged a slot releases the slot's rows.                   *)
(*                                                                         *)
(* A row's observations are abstracted to the label <<g, k>>: the k-th     *)
(* row of the g-th env step.                                               *)
(***************************************************************************)
EXTENDS Integers

CONSTANTS Capacity,  \* slot_capacity: slots of the ring the store belongs to
          NumEnvs    \* environments stepped by this ring's collector

ASSUME SizesAssumption == Capacity \in Nat \ {0} /\ NumEnvs \in Nat \ {0}

RowCapacity == 3 * NumEnvs
Slots       == 0..(Capacity - 1)
RowCells    == 0..(RowCapacity - 1)

\* Slots and rows are numbered since the start; these are their places.
SlotOf(index) == index % Capacity
CellOf(row)   == row % RowCapacity

VARIABLES rows,       \* env_ids, obs and critic_obs of each row cell
          starts,     \* per slot: absolute index of its first row
          counts,     \* per slot: how many rows it owns
          ends,       \* per slot: absolute index after its last row
          rowWrite,   \* producer-private: absolute index of the next free row
          rowRead,    \* producer-private: rows before this one are released
          reclaimed   \* producer-private: slots whose rows were released

metaVars     == <<starts, counts, ends>>
producerVars == <<rowRead, reclaimed>>
storeVars    == <<rows, starts, counts, ends, rowWrite, rowRead, reclaimed>>

NoRow == <<-1, 0>>

StoreInit ==
  /\ rows   = [c \in RowCells |-> NoRow]
  /\ starts = [s \in Slots |-> 0]
  /\ counts = [s \in Slots |-> 0]
  /\ ends   = [s \in Slots |-> 0]
  /\ rowWrite = 0 /\ rowRead = 0 /\ reclaimed = 0

\* Mutant: acknowledged slots never release their rows.
RowReadNever(ack) == rowRead

\* The while loop of can_write_rows: walking the slots acknowledged since the
\* last call leaves _row_read at the end recorded for the last of them.
RowReadAfter(ack) ==
  IF reclaimed < ack THEN ends[SlotOf(ack - 1)] ELSE rowRead

ReclaimRows(ack) ==
  /\ rowRead' = RowReadAfter(ack)
  /\ reclaimed' = IF reclaimed < ack THEN ack ELSE reclaimed

\* Mutant: off by one, one row too many fits.
CanOverfillRows(n, ack) == rowWrite - RowReadAfter(ack) + n <= RowCapacity + 1

\* can_write_rows' answer; the same call always performs ReclaimRows(ack).
CanWriteRows(n, ack) == rowWrite - RowReadAfter(ack) + n <= RowCapacity

\* write(index, payload), first half: the n rows go to consecutive cells,
\* wrapping at the end of the store.
CopyRowsIn(index, n) ==
  rows' = [c \in RowCells |->
             LET k == CellOf(c - rowWrite)
             IN  IF k < n THEN <<index, k + 1>> ELSE rows[c]]

\* Mutant: the slot's count is recorded as the absolute end.
RecordRowsEndAsCount(index, n) ==
  LET slot == SlotOf(index)
  IN  /\ starts' = [starts EXCEPT ![slot] = rowWrite]
      /\ counts' = [counts EXCEPT ![slot] = rowWrite + n]
      /\ ends'   = [ends EXCEPT ![slot] = rowWrite + n]
      /\ rowWrite' = rowWrite + n

\* write(index, payload), second half: the slot's metadata and _row_write.
RecordRows(index, n) ==
  LET slot == SlotOf(index)
  IN  /\ starts' = [starts EXCEPT ![slot] = rowWrite]
      /\ counts' = [counts EXCEPT ![slot] = n]
      /\ ends'   = [ends EXCEPT ![slot] = rowWrite + n]
      /\ rowWrite' = rowWrite + n

\* read(index, 1): the rows the slot's metadata points at.
PayloadAt(index) ==
  LET slot == SlotOf(index)
  IN  [k \in 1..counts[slot] |-> rows[CellOf(starts[slot] + k - 1)]]

Row == (Nat \cup {-1}) \X (0..NumEnvs)

StoreTypeOK ==
  /\ rows \in [RowCells -> Row]
  /\ starts \in [Slots -> Nat] /\ ends \in [Slots -> Nat]
  /\ counts \in [Slots -> 0..NumEnvs]
  /\ rowWrite \in Nat /\ rowRead \in Nat /\ reclaimed \in Nat
=============================================================================
