--------------------------- MODULE ContextFilter ----------------------------
(***************************************************************************)
(* The rich context gate (context_filter.cpp and its use in plugin.cpp):    *)
(* the first vCPU to execute the gate block latches its paging root, from   *)
(* then on each vCPU compares its own root with the latched one at every    *)
(* block, and its memory accesses are forwarded or only counted.  QEMU adds *)
(* every access to an inline counter and calls memory_access only while the *)
(* vCPU's admission is set, so the number of forwarded rows and the number  *)
(* accounted as kept come from two different mechanisms.                    *)
(*                                                                         *)
(* A callback's rows reach the Stream in one step: buffering is in Capture. *)
(* A register row is the first sample of its vCPU; later samples change     *)
(* nothing the filter or the Stream looks at.                               *)
(***************************************************************************)
EXTENDS TraceStream

CONSTANTS
  Cr3,           \* values of the page table register
  PageSize,      \* the low bits of CR3 that are not part of the root (4096)
  MaxAccesses,   \* bound on the memory accesses of each vCPU
  MaxFiltered      \* bound on the recorded blocks of each vCPU

ASSUME FilterAssumption ==
  /\ Cr3 \subseteq Nat
  /\ PageSize \in Nat \ {0}
  /\ MaxAccesses \in [Source -> Nat]
  /\ MaxFiltered \in [Source -> Nat]
  /\ Source = 0 .. Cardinality(Source) - 1

VARIABLES
  policy,      \* ContextFilter::_policy, as configured
  latch,       \* ContextFilter::_latch
  gate,        \* the latched source and paging root
  capture,     \* capture_state: "waiting" or "running"
  place,          \* where each vCPU is in block_entry, "ended" after source_end
  cr3,         \* Source::raw_state[2], read at the last block entry
  recording,   \* Source::recording
  relation,    \* Source::filter_relation
  admitting,   \* the filter_admission scoreboard
  total,       \* the filter_memory_total scoreboard, counted inline
  base,        \* Source::filter_memory_total, the part already accounted
  counts,      \* Source::filter_counts
  sampled,     \* vCPUs with a register sample
  context,     \* the CR3 of the last context row and its sequence number
  blocks,      \* blocks recorded by each vCPU
  forwarded,   \* history: memory rows sent by each vCPU
  ending,   \* progress of finish: "no", "ending", "done"
  fatal,     \* why the plugin exited, or "none"
  filtered       \* the worker's Stream

gateVars == <<policy, latch, gate, capture>>
accountVars == <<total, base, counts, forwarded>>
sourceVars == <<cr3, recording, relation, admitting, sampled, context, blocks>>
filterExit == <<ending, fatal>>
filterVars == <<gateVars, place, accountVars, sourceVars, filterExit, filtered>>

Tracing == fatal = "none" /\ ending # "done"

NoCounts == [kept |-> 0, dropped |-> 0, matching |-> 0, foreign |-> 0, unknown |-> 0]
NoGate == [source |-> 0, root |-> 0]

FilterFeatures ==
  {"system", "mixed", "registers", "memory", "address_context", "system_memory", "context_filter"}

\* The stream after hello and the register schema of every vCPU.
Started ==
  AcceptAll(NewStream,
    <<[kind |-> "hello", features |-> FilterFeatures]>>
      \o [i \in 1 .. Cardinality(Source) |-> [kind |-> "register_schema", source |-> i - 1]])

FilterInit ==
  /\ policy \in {"drop", "keep"}
  /\ latch = "waiting"
  /\ gate = NoGate
  /\ capture = "waiting"
  /\ place = [s \in Source |-> "outside"]
  /\ cr3 = [s \in Source |-> 0]
  /\ recording = [s \in Source |-> FALSE]
  /\ relation = [s \in Source |-> "unknown"]
  /\ admitting = [s \in Source |-> FALSE]
  /\ total = [s \in Source |-> 0]
  /\ base = [s \in Source |-> 0]
  /\ counts = [s \in Source |-> NoCounts]
  /\ sampled = {}
  /\ context = [s \in Source |-> [cr3 |-> -1, sequence |-> NoContext]]
  /\ blocks = [s \in Source |-> 0]
  /\ forwarded = [s \in Source |-> 0]
  /\ ending = "no"
  /\ fatal = "none"
  /\ filtered = Started

Forward(frames) == filtered' = AcceptAll(filtered, frames)

RowFrame(s, rows) ==
  IF rows = <<>> THEN <<>>
  ELSE <<[kind |-> "rows", source |-> s, sequence |-> filtered.next[s], rows |-> rows]>>

-----------------------------------------------------------------------------
(* The filter. *)

PagingRoot(value) == value - (value % PageSize)

Relation(value) ==
  IF latch # "known" THEN "unknown"
  ELSE IF PagingRoot(value) = gate.root THEN "matching" ELSE "foreign"

Admits(r) == r = "matching" \/ policy = "keep"

\* ContextFilter::account
Account(c, r, count) ==
  LET related == [c EXCEPT ![r] = @ + count]
  IN  IF Admits(r) THEN [related EXCEPT !.kept = @ + count]
                   ELSE [related EXCEPT !.dropped = @ + count]

\* A fault: accesses from before the window are accounted too.
AccountedAlways(s) == Account(counts[s], relation[s], total[s] - base[s])

\* account_filter_memory: the accesses since the last block entry belong to
\* the relation of that block, and to no window if it was not recorded.
Accounted(s) ==
  IF recording[s] THEN Account(counts[s], relation[s], total[s] - base[s]) ELSE counts[s]

AccountMemory(s) ==
  /\ counts' = [counts EXCEPT ![s] = Accounted(s)]
  /\ base' = [base EXCEPT ![s] = total[s]]
  /\ UNCHANGED <<total, forwarded>>

-----------------------------------------------------------------------------
(* Callbacks of a vCPU. *)

MayEnter(s) == Tracing /\ ending = "no" /\ place[s] = "outside"

ContextRows(s, value) ==
  IF context[s].cr3 = value THEN <<>> ELSE <<[kind |-> "address_context"]>>

ContextAfter(s, value) ==
  IF context[s].cr3 = value THEN context[s] ELSE [cr3 |-> value, sequence |-> filtered.next[s]]

RegisterRows(s, admitted) ==
  IF admitted /\ s \notin sampled THEN <<[kind |-> "registers", baseline |-> TRUE]>> ELSE <<>>

\* A block before the gate opened: it is outside the window unless it is the
\* gate block, which record_block then tries to latch.
BlockBeforeGate(s, isGate, value) ==
  /\ MayEnter(s)
  /\ capture = "waiting"
  /\ AccountMemory(s)
  /\ recording' = [recording EXCEPT ![s] = isGate]
  /\ cr3' = [cr3 EXCEPT ![s] = IF isGate THEN value ELSE @]
  /\ place' = [place EXCEPT ![s] = IF isGate THEN "latching" ELSE @]
  /\ UNCHANGED <<gateVars, relation, admitting, sampled, context, blocks, filterExit, filtered>>

BlockEntry(s, value) ==
  /\ MayEnter(s)
  /\ capture = "running"
  /\ blocks[s] < MaxFiltered[s]
  /\ AccountMemory(s)
  /\ recording' = [recording EXCEPT ![s] = TRUE]
  /\ cr3' = [cr3 EXCEPT ![s] = value]
  /\ place' = [place EXCEPT ![s] = "recording"]
  /\ UNCHANGED <<gateVars, relation, admitting, sampled, context, blocks, filterExit, filtered>>

\* ContextFilter::latch, step by step: the one winner of the exchange writes
\* the fields and then publishes them.
LatchBegin(s) ==
  /\ Tracing
  /\ place[s] = "latching"
  /\ IF latch = "waiting"
     THEN /\ latch' = "writing"
          /\ place' = [place EXCEPT ![s] = "writing"]
          /\ UNCHANGED recording
     ELSE /\ recording' = [recording EXCEPT ![s] = FALSE]
          /\ place' = [place EXCEPT ![s] = "outside"]
          /\ UNCHANGED latch
  /\ UNCHANGED <<policy, gate, capture, accountVars, cr3, relation, admitting, sampled, context, blocks,
                 filterExit, filtered>>

LatchStore(s) ==
  /\ Tracing
  /\ place[s] = "writing"
  /\ gate' = [source |-> s, root |-> PagingRoot(cr3[s])]
  /\ place' = [place EXCEPT ![s] = "stored"]
  /\ UNCHANGED <<policy, latch, capture, accountVars, sourceVars, filterExit, filtered>>

LatchPublish(s) ==
  /\ Tracing
  /\ place[s] = "stored"
  /\ latch' = "known"
  /\ place' = [place EXCEPT ![s] = "gating"]
  /\ UNCHANGED <<policy, gate, capture, accountVars, sourceVars, filterExit, filtered>>

\* A fault: the admission of the vCPU is only ever set.
RecordNeverRevokes(s) ==
  /\ Tracing
  /\ place[s] \in {"recording", "gating"}
  /\ LET r == Relation(cr3[s])
         rows == ContextRows(s, cr3[s]) \o RegisterRows(s, Admits(r)) \o <<[kind |-> "blocks"]>>
     IN  /\ relation' = [relation EXCEPT ![s] = r]
         /\ admitting' = [admitting EXCEPT ![s] = @ \/ Admits(r)]
         /\ sampled' = IF Admits(r) THEN sampled \cup {s} ELSE sampled
         /\ context' = [context EXCEPT ![s] = ContextAfter(s, cr3[s])]
         /\ Forward(RowFrame(s, rows))
  /\ blocks' = [blocks EXCEPT ![s] = @ + 1]
  /\ place' = [place EXCEPT ![s] = IF @ = "gating" THEN "opening" ELSE "outside"]
  /\ UNCHANGED <<gateVars, accountVars, cr3, recording, filterExit>>

\* The rest of record_block: context row, relation, admission, registers, block.
Record(s) ==
  /\ Tracing
  /\ place[s] \in {"recording", "gating"}
  /\ LET r == Relation(cr3[s])
         rows == ContextRows(s, cr3[s]) \o RegisterRows(s, Admits(r)) \o <<[kind |-> "blocks"]>>
     IN  /\ relation' = [relation EXCEPT ![s] = r]
         /\ admitting' = [admitting EXCEPT ![s] = Admits(r)]
         /\ sampled' = IF Admits(r) THEN sampled \cup {s} ELSE sampled
         /\ context' = [context EXCEPT ![s] = ContextAfter(s, cr3[s])]
         /\ Forward(RowFrame(s, rows))
  /\ blocks' = [blocks EXCEPT ![s] = @ + 1]
  /\ place' = [place EXCEPT ![s] = IF @ = "gating" THEN "opening" ELSE "outside"]
  /\ UNCHANGED <<gateVars, accountVars, cr3, recording, filterExit>>

\* The gate block opens the window of every vCPU.
OpenCapture(s) ==
  /\ Tracing
  /\ place[s] = "opening"
  /\ capture' = "running"
  /\ place' = [place EXCEPT ![s] = "outside"]
  /\ UNCHANGED <<policy, latch, gate, accountVars, sourceVars, filterExit, filtered>>

\* An access: the inline counter always, the callback under the admission.
MemoryAccess(s) ==
  /\ MayEnter(s)
  /\ total[s] < MaxAccesses[s]
  /\ total' = [total EXCEPT ![s] = @ + 1]
  /\ IF admitting[s] /\ recording[s]
     THEN /\ forwarded' = [forwarded EXCEPT ![s] = @ + 1]
          /\ Forward(RowFrame(s, <<[kind |-> "memory", context |-> context[s].sequence]>>))
     ELSE UNCHANGED <<forwarded, filtered>>
  /\ UNCHANGED <<gateVars, place, base, counts, sourceVars, filterExit>>

\* source_end: the last context and registers, then end_source.
SourceEnd(s, value) ==
  /\ MayEnter(s)
  /\ AccountMemory(s)
  /\ LET admitted == recording[s] /\ Admits(Relation(value))
         rows == IF recording[s] THEN ContextRows(s, value) \o RegisterRows(s, admitted) ELSE <<>>
     IN  /\ sampled' = IF admitted THEN sampled \cup {s} ELSE sampled
         /\ context' = IF recording[s] THEN [context EXCEPT ![s] = ContextAfter(s, value)] ELSE context
         /\ Forward(RowFrame(s, rows)
                      \o <<[kind |-> "source_end", source |-> s,
                            sequence |-> filtered.next[s] + Len(rows)]>>)
  /\ place' = [place EXCEPT ![s] = "ended"]
  /\ UNCHANGED <<gateVars, cr3, recording, relation, admitting, blocks, filterExit>>

-----------------------------------------------------------------------------
(* finish: the callbacks have stopped. *)

FilterFinishBegin ==
  /\ Tracing
  /\ ending = "no"
  /\ \A s \in Source : place[s] \in {"outside", "ended"}
  /\ IF latch = "waiting"
     THEN /\ fatal' = "ungated"
          /\ Forward(<<[kind |-> "error"]>>)
          /\ UNCHANGED ending
     ELSE ending' = "ending" /\ UNCHANGED <<fatal, filtered>>
  /\ UNCHANGED <<gateVars, place, accountVars, sourceVars>>

FinishSource(s) ==
  /\ Tracing
  /\ ending = "ending"
  /\ place[s] = "outside"
  /\ \A lower \in Source : lower < s => place[lower] = "ended"
  /\ AccountMemory(s)
  /\ Forward(<<[kind |-> "source_end", source |-> s, sequence |-> filtered.next[s]]>>)
  /\ place' = [place EXCEPT ![s] = "ended"]
  /\ UNCHANGED <<gateVars, sourceVars, filterExit>>

Summed(field) == MapThenSumSet(LAMBDA s : counts[s][field], Source)

Summary ==
  [kind |-> "context_filter", policy |-> policy, latch |-> latch, source |-> gate.source,
   kept |-> Summed("kept"), dropped |-> Summed("dropped"), matching |-> Summed("matching"),
   foreign |-> Summed("foreign"), unknown |-> Summed("unknown")]

FilterFinishComplete ==
  /\ Tracing
  /\ ending = "ending"
  /\ \A s \in Source : place[s] = "ended"
  /\ ending' = "done"
  /\ Forward(<<Summary, [kind |-> "complete"]>>)
  /\ UNCHANGED <<gateVars, place, accountVars, sourceVars, fatal>>

FilterExited == ~ Tracing /\ UNCHANGED filterVars

FilterVcpu(s) ==
  \/ \E value \in Cr3 : BlockEntry(s, value) \/ SourceEnd(s, value)
  \/ \E value \in Cr3, isGate \in BOOLEAN : BlockBeforeGate(s, isGate, value)
  \/ LatchBegin(s) \/ LatchStore(s) \/ LatchPublish(s)
  \/ Record(s) \/ OpenCapture(s) \/ MemoryAccess(s)

FilterNext ==
  \/ \E s \in Source : FilterVcpu(s) \/ FinishSource(s)
  \/ FilterFinishBegin \/ FilterFinishComplete
  \/ FilterExited

FilterSpec == FilterInit /\ [][FilterNext]_filterVars

-----------------------------------------------------------------------------
\* On every vCPU and at every moment, the rows forwarded by the conditional
\* callback are the accesses accounted as kept plus those of the current block
\* that will be: no access is lost or counted twice between the inline counter and
\* the callback.  Nothing is accounted before the latch is settled, and no vCPU
\* decides with an unknown relation once the window is open.
AccountingExact ==
  /\ \A s \in Source :
       forwarded[s] = counts[s].kept
                        + (IF recording[s] /\ Admits(relation[s]) THEN total[s] - base[s] ELSE 0)
  /\ (capture = "running") => latch = "known"
  /\ \A s \in Source : counts[s].unknown = 0
  /\ (latch # "known") => \A s \in Source : counts[s] = NoCounts /\ forwarded[s] = 0

\* The accounting is exact, and the Stream accepts every frame of a filtered run,
\* the summary included: the kept accesses it declares are the memory rows the
\* worker received, wherever the gate opened and the run ended.
FilterExact == filtered.ok /\ AccountingExact

\* The gate latches once, whichever vCPUs reach its block: after its publication
\* neither the source nor the root it names changes.  Under the drop policy a
\* vCPU forwards a memory row only while the paging root it entered its block
\* with is that one.
ForeignNeverForwarded ==
  [][/\ (latch = "known") => latch' = latch /\ gate' = gate
     /\ \A s \in Source : forwarded'[s] # forwarded[s] =>
          policy = "keep" \/ PagingRoot(cr3[s]) = gate.root]_filterVars

=============================================================================
