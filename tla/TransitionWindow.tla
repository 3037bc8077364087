-------------------------- MODULE TransitionWindow --------------------------
(***************************************************************************)
(* The reducer of transition_window.cpp: for each source a fixed table of   *)
(* the block transitions seen in the current window, an open-addressing     *)
(* hash table whose slots are emptied by giving the window a new number.    *)
(* The counters of a table are 64 bits wide and take one step per executed  *)
(* block; their overflow checks are left out.                               *)
(***************************************************************************)
EXTENDS Integers, Sequences, FiniteSets, FiniteSetsExt

CONSTANTS
  TableCapacity,   \* slots of the table of one source
  Hash(_, _)       \* hash: the slot at which the probe for a transition starts

ASSUME TableAssumption == TableCapacity \in Nat /\ TableCapacity >= 2

NoAddress == -1
NoSlot == -1

NewTable ==
  [window |-> 0, previous |-> NoAddress, observed |-> 0, overflow |-> 0, indices |-> <<>>,
   slots |-> [i \in 0 .. TableCapacity - 1 |-> [window |-> 0, edge |-> <<>>, count |-> 0]]]

\* A fault: the overflow of the last window is added to this one's.
ResetKeepsOverflow(t, window) ==
  [t EXCEPT !.window = window, !.previous = NoAddress, !.observed = 0, !.indices = <<>>]

Reset(t, window) ==
  [t EXCEPT !.window = window, !.previous = NoAddress, !.observed = 0, !.overflow = 0,
            !.indices = <<>>]

\* A fault: transitions to the same block are not told apart.
ProbeByDestination(t, window, edge) ==
  LET at(i) == (Hash(edge[1], edge[2]) + i) % TableCapacity
      hits == {i \in 0 .. TableCapacity - 1 :
                 t.slots[at(i)].window # window \/ t.slots[at(i)].edge[2] = edge[2]}
  IN  IF hits = {} THEN NoSlot ELSE at(Min(hits))

\* The slot where the probe for a transition stops: the first one that this
\* window has not used, or that holds the transition.
Probe(t, window, edge) ==
  LET at(i) == (Hash(edge[1], edge[2]) + i) % TableCapacity
      hits == {i \in 0 .. TableCapacity - 1 :
                 t.slots[at(i)].window # window \/ t.slots[at(i)].edge = edge}
  IN  IF hits = {} THEN NoSlot ELSE at(Min(hits))

\* The table in which an admitted block is looked up.
Current(t, window) == IF t.window = window THEN t ELSE Reset(t, window)

\* observe finds a free slot although the index list is full.
Inconsistent(table, window, address) ==
  LET t == Current(table, window)
      slot == Probe(t, window, <<t.previous, address>>)
  IN  /\ t.previous # NoAddress
      /\ slot # NoSlot
      /\ t.slots[slot].window # window
      /\ Len(t.indices) = TableCapacity

\* The table after an admitted block: the first block of a window only sets
\* the origin of the first transition.
Observe(table, window, address) ==
  LET t == Current(table, window)
      edge == <<t.previous, address>>
      slot == Probe(t, window, edge)
      moved == [t EXCEPT !.previous = address]
      counted == [moved EXCEPT !.observed = @ + 1]
  IN  IF t.previous = NoAddress THEN moved
      ELSE IF slot = NoSlot THEN [counted EXCEPT !.overflow = @ + 1]
      ELSE IF t.slots[slot].window = window
      THEN [counted EXCEPT !.slots[slot].count = @ + 1]
      ELSE [counted EXCEPT !.slots[slot] = [window |-> window, edge |-> edge, count |-> 1],
                           !.indices = Append(@, slot)]

\* row_count and row: what the table publishes for a window.
Rows(t, window) ==
  IF t.window = window
  THEN [i \in DOMAIN t.indices |->
          [edge |-> t.slots[t.indices[i]].edge, count |-> t.slots[t.indices[i]].count]]
  ELSE <<>>

\* source_summary: a source without a block in this window contributes nothing.
SourceSummary(t, window) ==
  IF t.window = window
  THEN [distinct |-> Len(t.indices), observed |-> t.observed, overflow |-> t.overflow]
  ELSE [distinct |-> 0, observed |-> 0, overflow |-> 0]

-----------------------------------------------------------------------------
\* The transitions of a sequence of executed blocks.
Transitions(blocks) == [i \in 1 .. Len(blocks) - 1 |-> <<blocks[i], blocks[i + 1]>>]

Times(edge, blocks) ==
  Cardinality({i \in 1 .. Len(blocks) - 1 : Transitions(blocks)[i] = edge})

\* What a table must say of the blocks its source executed in the window: a
\* transition with a slot has its exact count, and the overflow is all of those
\* that never got one.
Summarises(t, window, blocks) ==
  LET rows == Rows(t, window)
      kept == {rows[i].edge : i \in DOMAIN rows}
      summary == SourceSummary(t, window)
  IN  /\ Cardinality(kept) = Len(rows)
      /\ \A i \in DOMAIN rows : rows[i].count = Times(rows[i].edge, blocks)
      /\ summary.observed = Len(Transitions(blocks))
      /\ summary.overflow =
           Cardinality({i \in 1 .. Len(blocks) - 1 : Transitions(blocks)[i] \notin kept})
=============================================================================
