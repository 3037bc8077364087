---------------------------- MODULE TraceStream -----------------------------
(***************************************************************************)
(* The trace grammar: Stream::accept of trace.cpp as an operator from the   *)
(* validator's state and a frame to its next state.  The plugin writes      *)
(* frames, the worker forwards a frame only if its Stream accepts it, and   *)
(* the client validates the same frames again.                              *)
(*                                                                         *)
(* A frame is a record.  Data rows (of a mixed frame, or of a frame of one  *)
(* kind) are a sequence of records; a register file is one register, so a   *)
(* source is sampled or not; addresses, values and header sizes are left    *)
(* out.  After a rejected frame the caller stops, so the state then only    *)
(* says that the stream is not ok.                                          *)
(***************************************************************************)
EXTENDS Integers, Sequences, FiniteSets, FiniteSetsExt

CONSTANT Source    \* vCPU indices

NoContext == -1

\* A Stream that has accepted nothing.
NewStream ==
  [ok |-> TRUE, started |-> FALSE, ending |-> "none", features |-> {},
   layout |-> FALSE, sourceData |-> FALSE,
   next |-> [s \in Source |-> 0],
   seen |-> {}, data |-> {}, ended |-> {}, schema |-> {}, sampled |-> {},
   context |-> [s \in Source |-> NoContext],
   window |-> 1, expected |-> FALSE, keys |-> {},
   counted |-> [s \in Source |-> 0],
   filterSeen |-> FALSE, filterRows |-> 0,
   projected |-> [s \in Source |-> 0],
   lastBlock |-> [s \in Source |-> -1],
   summarised |-> {}, declared |-> {}]

Reject(st) == [st EXCEPT !.ok = FALSE]

Has(st, feature) == feature \in st.features

\* The transitions accepted for the open window, and those of one source.
Observed(st) == MapThenSumSet(LAMBDA s : st.counted[s], Source)
KeysOf(st, s) == {k \in st.keys : k.source = s}

-----------------------------------------------------------------------------
(* Frames before and around the source data. *)

\* decode_header on the features of a hello (of an x86 target, in the current
\* wire version): which signals may be selected together.
FeaturesAllowed(selected) ==
  LET needs(feature, others) == feature \in selected => others \subseteq selected
      excludes(feature, others) == feature \in selected => others \cap selected = {}
  IN  /\ needs("memory_values", {"memory"})
      /\ excludes("executable_layout", {"system"})
      /\ needs("system_memory", {"address_context", "memory"})
      /\ needs("address_context", {"system"})
      /\ {"system", "registers"} \subseteq selected => "address_context" \in selected
      /\ needs("kernel", {"system"})
      /\ excludes("stdio", {"system"})
      /\ needs("transition_windows", {"kernel"})
      /\ needs("observation_reduction", {"system", "address_context"})
      /\ excludes("observation_reduction", {"kernel", "memory", "registers", "transition_windows"})
      /\ needs("context_filter", {"address_context", "system"})
      /\ "context_filter" \in selected => {"memory", "registers"} \cap selected # {}

AcceptFirst(st, f) ==
  IF f.kind = "terminal_report" THEN [st EXCEPT !.ending = "terminal_report"]
  ELSE IF f.kind = "hello" /\ FeaturesAllowed(f.features)
  THEN [st EXCEPT !.started = TRUE, !.features = f.features]
  ELSE Reject(st)

AcceptLayout(st) ==
  IF Has(st, "executable_layout") /\ ~ st.layout /\ ~ st.sourceData
  THEN [st EXCEPT !.layout = TRUE]
  ELSE Reject(st)

\* An action boundary: registers of every source with data are complete, and
\* with action windows the window of the previous action has been published.
AcceptKernelRequest(st) ==
  LET baselines ==
        Has(st, "registers") =>
          \A s \in st.data :
            \/ s \in st.schema /\ s \in st.sampled
            \/ s \in st.schema /\ Has(st, "context_filter")
  IN  IF /\ Has(st, "kernel")
         /\ baselines
         /\ ~ (Has(st, "transition_windows") /\ st.expected)
      THEN [st EXCEPT !.expected = Has(st, "transition_windows")]
      ELSE Reject(st)

AcceptGuestEvent(st) == IF Has(st, "kernel") THEN st ELSE Reject(st)

-----------------------------------------------------------------------------
(* Reductions: transition rows, reduced contexts and their summaries. *)

\* f.rows is a sequence of [edge, count].
AcceptTransitions(st, f) ==
  LET action == Has(st, "transition_windows")
      reduced == Has(st, "observation_reduction")
      edges == {f.rows[i].edge : i \in DOMAIN f.rows}
      fresh == {[source |-> f.source, edge |-> e] : e \in edges}
      total == MapThenSumSet(LAMBDA i : f.rows[i].count, DOMAIN f.rows)
  IN  IF /\ action \/ reduced
         /\ f.window = st.window
         /\ f.source \notin st.ended
         /\ action => st.expected
         /\ reduced => f.source \notin st.summarised
         /\ Cardinality(edges) = Len(f.rows)
         /\ fresh \cap st.keys = {}
         /\ \A i \in DOMAIN f.rows : f.rows[i].count > 0
      THEN [st EXCEPT !.keys = @ \cup fresh, !.counted[f.source] = @ + total]
      ELSE Reject(st)

\* f: status, sources, capacity, distinct, observed, overflow.
AcceptWindow(st, f) ==
  IF /\ Has(st, "transition_windows")
     /\ f.window = st.window
     /\ st.expected
     /\ f.status \in {"ended", "aborted", "incomplete"}
     /\ f.distinct <= Cardinality(f.sources) * f.capacity
     /\ \A s \in Source : Cardinality(KeysOf(st, s)) <= f.capacity
     /\ \A k \in st.keys : k.source \in f.sources
     /\ st.declared \in {{}, f.sources}
     /\ f.distinct = Cardinality(st.keys)
     /\ Observed(st) + f.overflow = f.observed
  THEN [st EXCEPT !.declared = f.sources, !.expected = FALSE, !.window = @ + 1,
                  !.keys = {}, !.counted = [s \in Source |-> 0]]
  ELSE Reject(st)

\* f.blocks is the sequence of block positions at which the context changed.
AcceptReducedContext(st, f) ==
  LET positions == <<st.lastBlock[f.source]>> \o f.blocks
  IN  IF /\ Has(st, "observation_reduction")
         /\ f.source \notin st.ended \cup st.summarised
         /\ f.sequence = st.next[f.source]
         /\ \A i \in DOMAIN f.blocks : positions[i] < positions[i + 1]
      THEN [st EXCEPT !.lastBlock[f.source] = f.blocks[Len(f.blocks)],
                      !.projected[f.source] = @ + Len(f.blocks),
                      !.next[f.source] = @ + Len(f.blocks),
                      !.seen = @ \cup {f.source}, !.data = @ \cup {f.source},
                      !.sourceData = TRUE]
      ELSE Reject(st)

\* f: sources, capacity, blocks, observed, distinct, overflow, changes, retained,
\* contextOverflow.
AcceptObservationSummary(st, f) ==
  LET s == f.source
      transitions == IF f.blocks = 0 THEN 0 ELSE f.blocks - 1
  IN  IF /\ Has(st, "observation_reduction")
         /\ s \notin st.ended \cup st.summarised
         /\ s \in f.sources
         /\ f.observed = transitions
         /\ f.distinct = Cardinality(KeysOf(st, s))
         /\ f.distinct <= f.capacity
         /\ st.counted[s] + f.overflow = transitions
         /\ f.retained = st.projected[s]
         /\ f.retained + f.contextOverflow = f.changes
         /\ f.retained = Min({f.changes, f.capacity})
         /\ f.changes <= f.blocks
         /\ f.blocks # 0 => f.changes # 0
         /\ st.lastBlock[s] < f.blocks
         /\ st.declared \in {{}, f.sources}
      THEN [st EXCEPT !.declared = f.sources, !.summarised = @ \cup {s},
                      !.seen = @ \cup {s}, !.sourceData = TRUE]
      ELSE Reject(st)

\* f: policy, latch, source, kept, dropped, matching, foreign, unknown.
AcceptContextFilter(st, f) ==
  IF /\ Has(st, "context_filter")
     /\ ~ st.filterSeen
     /\ st.seen \subseteq st.ended
     /\ f.latch \in {"known", "unknown"}
     /\ f.source \in st.seen
     /\ f.kept = st.filterRows
     /\ f.kept + f.dropped = f.matching + f.foreign + f.unknown
     /\ (f.policy = "drop") => f.kept = f.matching
     /\ (f.policy = "keep") => f.dropped = 0
  THEN [st EXCEPT !.filterSeen = TRUE]
  ELSE Reject(st)

-----------------------------------------------------------------------------
(* Source data. *)

AcceptSchema(st, f) ==
  IF Has(st, "registers") /\ f.source \notin st.data
  THEN [st EXCEPT !.schema = @ \cup {f.source}, !.seen = @ \cup {f.source}]
  ELSE Reject(st)

\* Rows and boundaries that show a register file need its baseline first;
\* with a context filter a source may have no admitted register row at all.
BaselineMissing(st, s, kind) ==
  /\ Has(st, "registers") /\ ~ Has(st, "context_filter")
  /\ \/ kind \in {"blocks", "memory", "input_request"}
     \/ kind = "source_end" /\ s \in st.data
  /\ s \notin st.schema \/ s \notin st.sampled

\* row: kind, and for registers whether it is the baseline, for memory the
\* sequence number of the address context it was captured under.
RowAllowed(st, s, row) ==
  /\ ~ BaselineMissing(st, s, row.kind)
  /\ (row.kind \in {"blocks", "registers"} /\ Has(st, "address_context")) =>
       st.context[s] # NoContext
  /\ (row.kind = "address_context") => Has(st, "address_context")
  /\ (row.kind = "registers") =>
       Has(st, "registers") /\ s \in st.schema /\ (row.baseline <=> s \notin st.sampled)
  /\ (row.kind = "memory") =>
       Has(st, "memory") /\ (Has(st, "system_memory") => row.context = st.context[s])
  /\ Has(st, "observation_reduction") => row.kind \notin {"blocks", "address_context"}

AfterRow(st, s, row) ==
  [st EXCEPT !.next[s] = @ + 1,
             !.seen = @ \cup {s}, !.data = @ \cup {s}, !.sourceData = TRUE,
             !.context[s] = IF row.kind = "address_context" THEN st.next[s] ELSE @,
             !.sampled = IF row.kind = "registers" THEN @ \cup {s} ELSE @,
             !.filterRows = IF row.kind = "memory" /\ Has(st, "context_filter")
                            THEN @ + 1 ELSE @]

AcceptRow(st, s, row) ==
  IF st.ok /\ RowAllowed(st, s, row) THEN AfterRow(st, s, row) ELSE Reject(st)

\* The loop over the rows of a frame.
AcceptEach(st, s, rows) ==
  LET after[i \in 0 .. Len(rows)] ==
        IF i = 0 THEN st ELSE AcceptRow(after[i - 1], s, rows[i])
  IN  after[Len(rows)]

\* A frame of one kind names it in its header; a mixed frame names the kind of
\* each run of rows.  A run of address contexts is one row long (decode_header).
AcceptRows(st, f) ==
  LET kinds == {f.rows[i].kind : i \in DOMAIN f.rows}
      contextRuns == \A i \in 1 .. Len(f.rows) - 1 :
                       "address_context" \notin {f.rows[i].kind} \cap {f.rows[i + 1].kind}
  IN  IF /\ f.sequence = st.next[f.source]
         /\ Has(st, "mixed") \/ (\E k \in kinds : kinds = {k})
         /\ contextRuns
      THEN AcceptEach(st, f.source, f.rows)
      ELSE Reject(st)

AcceptSourceEnd(st, f) ==
  IF /\ Has(st, "observation_reduction") => f.source \in st.summarised
     /\ f.sequence = st.next[f.source]
     /\ ~ BaselineMissing(st, f.source, "source_end")
  THEN [st EXCEPT !.ended = @ \cup {f.source}, !.seen = @ \cup {f.source},
                  !.data = @ \cup {f.source}, !.sourceData = TRUE]
  ELSE Reject(st)

AcceptInputRequest(st, f) ==
  IF /\ Has(st, "stdio")
     /\ f.sequence = st.next[f.source]
     /\ ~ BaselineMissing(st, f.source, "input_request")
  THEN [st EXCEPT !.seen = @ \cup {f.source}, !.data = @ \cup {f.source},
                  !.sourceData = TRUE]
  ELSE Reject(st)

AcceptComplete(st) ==
  IF /\ Has(st, "transition_windows") => st.keys = {} /\ ~ st.expected
     /\ st.declared \subseteq st.ended
     /\ st.seen \subseteq st.ended
     /\ Has(st, "observation_reduction") =>
          st.declared # {} /\ st.declared \subseteq st.summarised
     /\ Has(st, "context_filter") => st.filterSeen
  THEN [st EXCEPT !.ending = "complete"]
  ELSE Reject(st)

-----------------------------------------------------------------------------
\* Every frame that belongs to a source.
AcceptSourceFrame(st, f) ==
  IF (Has(st, "stdio") => f.source = 0) /\ f.source \notin st.ended
  THEN CASE f.kind = "register_schema" -> AcceptSchema(st, f)
         [] f.kind = "rows" -> AcceptRows(st, f)
         [] f.kind = "source_end" -> AcceptSourceEnd(st, f)
         [] f.kind = "input_request" -> AcceptInputRequest(st, f)
  ELSE Reject(st)

\* Frames that may precede the layout of a user-mode executable.
BeforeLayout == {"executable_layout", "register_schema", "error"}

Accept(st, f) ==
  IF ~ st.ok THEN st
  ELSE IF st.ending # "none" THEN Reject(st)
  ELSE IF ~ st.started THEN AcceptFirst(st, f)
  ELSE IF Has(st, "executable_layout") /\ ~ st.layout /\ f.kind \notin BeforeLayout
  THEN Reject(st)
  ELSE CASE f.kind = "hello" -> Reject(st)
         [] f.kind = "executable_layout" -> AcceptLayout(st)
         [] f.kind = "kernel_request" -> AcceptKernelRequest(st)
         [] f.kind = "guest_event" -> AcceptGuestEvent(st)
         [] f.kind = "block_transitions" -> AcceptTransitions(st, f)
         [] f.kind = "transition_window" -> AcceptWindow(st, f)
         [] f.kind = "reduced_context" -> AcceptReducedContext(st, f)
         [] f.kind = "observation_summary" -> AcceptObservationSummary(st, f)
         [] f.kind = "context_filter" -> AcceptContextFilter(st, f)
         [] f.kind \in {"error", "terminal_report"} -> [st EXCEPT !.ending = f.kind]
         [] f.kind = "complete" -> AcceptComplete(st)
         [] OTHER -> AcceptSourceFrame(st, f)

\* The frames one after the other.
AcceptAll(st, frames) ==
  LET after[i \in 0 .. Len(frames)] ==
        IF i = 0 THEN st ELSE Accept(after[i - 1], frames[i])
  IN  after[Len(frames)]
=============================================================================
