------------------------------ MODULE Batches ------------------------------
(***************************************************************************)
(* The cursor scans of NewsIntel: a long pass over the archive commits one *)
(* batch at a time, `WHERE id > cursor ORDER BY id LIMIT batch_size`, and  *)
(* keeps the last id as its cursor.  An id is its place in the order.      *)
(***************************************************************************)
EXTENDS Naturals, FiniteSets

\* Mutant: the cursor's own row again.
BeyondInclusive(rows, cursor) == {id \in rows : id >= cursor}

\* WHERE id > cursor; cursor 0 is NULL.
Beyond(rows, cursor) == {id \in rows : id > cursor}

\* ORDER BY id LIMIT size.
IsBatch(batch, rows, cursor, size) ==
  /\ batch \subseteq Beyond(rows, cursor)
  /\ \A a \in batch, b \in Beyond(rows, cursor) : b <= a => b \in batch
  /\ Cardinality(batch) <= size
  /\ batch # Beyond(rows, cursor) => Cardinality(batch) = size

\* The last id of the batch; an empty one leaves the cursor where it is.
IsCursor(next, batch, cursor) ==
  IF batch = {} THEN next = cursor
  ELSE next \in batch /\ \A id \in batch : id <= next

\* Mutant: a full batch taken for the last one.
LastBatchIfFull(batch, size) == Cardinality(batch) <= size

LastBatch(batch, size) == Cardinality(batch) < size
=============================================================================
