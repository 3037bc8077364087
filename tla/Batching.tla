------------------------------ MODULE Batching ------------------------------
(***************************************************************************)
(* The collator that groups decoded batches per source before they are      *)
(* uploaded (_batching.py).  A batch is a record with a source, the rows it *)
(* holds, the version of the register names it carries and its size.  A     *)
(* collator is a record: its sources in the order of the dictionary, and    *)
(* the two counters the limits are tested on.                               *)
(***************************************************************************)
EXTENDS Integers, Sequences, SequencesExt

CONSTANTS
  TargetBytes,        \* target_bytes
  MaxSourceFrames,    \* MAX_SOURCE_FRAMES
  MaxPendingFrames    \* MAX_PENDING_FRAMES

WorkerWide == -1      \* the source of a batch that belongs to no vCPU

NewCollator == [sources |-> <<>>, pendingBytes |-> 0, pendingFrames |-> 0]

TensorBytes(batches) == FoldLeft(LAMBDA total, b : total + b.bytes, 0, batches)

\* Columns are concatenated in order; the latest register table owns the names.
MergeBatches(batches) ==
  [batches[1] EXCEPT !.rows = FlattenSeq([i \in DOMAIN batches |-> batches[i].rows]),
                     !.names = batches[Len(batches)].names,
                     !.bytes = TensorBytes(batches)]

Position(c, source) ==
  IF \E i \in DOMAIN c.sources : c.sources[i][1].source = source
  THEN CHOOSE i \in DOMAIN c.sources : c.sources[i][1].source = source
  ELSE 0

Flush(c, i) ==
  [to |-> [sources |-> RemoveAt(c.sources, i),
           pendingBytes |-> c.pendingBytes - TensorBytes(c.sources[i]),
           pendingFrames |-> c.pendingFrames - Len(c.sources[i])],
   ready |-> <<MergeBatches(c.sources[i])>>]

\* The source that was inserted first goes first.
RECURSIVE FlushOldest(_)
FlushOldest(result) ==
  LET c == result.to
      oldest == Flush(c, 1)
  IN IF c.sources # <<>> /\ \/ c.pendingBytes >= 2 * TargetBytes
                            \/ c.pendingFrames >= MaxPendingFrames
     THEN FlushOldest([to |-> oldest.to, ready |-> result.ready \o oldest.ready])
     ELSE result

SourceFull(batches) ==
  TensorBytes(batches) >= TargetBytes \/ Len(batches) >= MaxSourceFrames

Append1(c, batch) ==
  LET i == Position(c, batch.source)
  IN [sources |-> IF i = 0 THEN Append(c.sources, <<batch>>)
                  ELSE [c.sources EXCEPT ![i] = Append(@, batch)],
      pendingBytes |-> c.pendingBytes + batch.bytes,
      pendingFrames |-> c.pendingFrames + 1]

\* A fault: only the source that grew is flushed.
AddNoGlobalLimit(c, batch) ==
  IF batch.source = WorkerWide
  THEN [to |-> c, ready |-> <<batch>>]
  ELSE LET grown == Append1(c, batch)
           i == Position(grown, batch.source)
       IN IF SourceFull(grown.sources[i]) THEN Flush(grown, i) ELSE [to |-> grown, ready |-> <<>>]

Add(c, batch) ==
  IF batch.source = WorkerWide
  THEN [to |-> c, ready |-> <<batch>>]
  ELSE LET grown == Append1(c, batch)
           i == Position(grown, batch.source)
       IN FlushOldest(IF SourceFull(grown.sources[i]) THEN Flush(grown, i)
                      ELSE [to |-> grown, ready |-> <<>>])

EndSource(c, source) ==
  LET i == Position(c, source)
  IN IF i = 0 THEN [to |-> c, ready |-> <<>>] ELSE Flush(c, i)

Finish(c) ==
  [to |-> NewCollator, ready |-> [i \in DOMAIN c.sources |-> MergeBatches(c.sources[i])]]

\* Rows of a source that wait in the collator.
PendingRows(c, source) ==
  LET i == Position(c, source)
      rows == MergeBatches(c.sources[i]).rows
  IN IF i = 0 THEN <<>> ELSE [j \in DOMAIN rows |-> rows[j].row]
=============================================================================
