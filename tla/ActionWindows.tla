--------------------------- MODULE ActionWindows ----------------------------
(***************************************************************************)
(* Action windows (plugin.cpp with transition_window.cpp): guest marker     *)
(* blocks open, end or abort a window, every vCPU reduces the blocks it     *)
(* executes inside it, and the control thread publishes the closed window   *)
(* at the next action boundary, or finish does at exit.  begin, admit and   *)
(* observe are split at each access to an atomic that other vCPUs share.    *)
(*                                                                         *)
(* The raw rows of a recorded block (context changes and, unless disabled,  *)
(* the block itself) are buffered as in Capture, without the ring.          *)
(***************************************************************************)
EXTENDS TraceStream, TransitionWindow, SequencesExt

CONSTANTS
  Address,        \* addresses of ordinary blocks
  CaptureBlocks,  \* capture_blocks: raw block rows besides the reduced ones
  FrameRows,      \* raw rows that fit one frame
  RowsPerFrame,   \* transition rows that fit one frame
  MaxBlocks,      \* bound on the blocks of each source in one window
  MaxContexts,    \* bound on the context changes of each source
  MaxActions      \* bound on the action boundaries

ASSUME WindowsAssumption ==
  /\ Address \subseteq Nat
  /\ CaptureBlocks \in BOOLEAN
  /\ {FrameRows, RowsPerFrame} \subseteq Nat \ {0}
  /\ MaxBlocks \in [Source -> Nat]
  /\ MaxContexts \in [Source -> Nat]
  /\ MaxActions \in Nat
  /\ Source = 0 .. Cardinality(Source) - 1

VARIABLES
  wstate,      \* TransitionWindow::_state
  window,      \* TransitionWindow::_window
  table,       \* TransitionWindow::_sources
  at,          \* where each vCPU is in block_entry
  block,       \* the address a vCPU's callback was called with
  admission,   \* the window its admission names
  raw,         \* each source's buffered rows, next sequence and context changes
  world,       \* the vCPUs are "running" or, after a QMP stop, "stopped"
  control,     \* the control thread: "poll", "commanded", "drain", "request"
  awaiting,    \* the client holds an action boundary
  expected,    \* action_window_expected
  closing,     \* the flag of finish
  finishing,   \* progress of finish: "no", "join", "ending", "done"
  failure,     \* why the plugin exited, or "none"
  requests,    \* action boundaries published
  executed,    \* history: the blocks admitted to the current window
  stream       \* the worker's Stream

windowVars == <<wstate, window>>
vcpuVars == <<table, at, block, admission, raw, executed>>
controlVars == <<world, control, awaiting, expected, requests>>
exitVars == <<closing, finishing, failure>>
vars == <<windowVars, vcpuVars, controlVars, exitVars, stream>>

Alive == failure = "none" /\ finishing # "done"

Features == {"system", "kernel", "address_context", "mixed", "transition_windows"}

Init ==
  /\ wstate = "idle"
  /\ window = 0
  /\ table = [s \in Source |-> NewTable]
  /\ at = [s \in Source |-> "outside"]
  /\ block = [s \in Source |-> NoAddress]
  /\ admission = [s \in Source |-> 0]
  /\ raw = [s \in Source |-> [rows |-> <<>>, next |-> 0, contexts |-> 0]]
  /\ world = "running"
  /\ control = "poll"
  /\ awaiting = FALSE
  /\ expected = FALSE
  /\ closing = FALSE
  /\ finishing = "no"
  /\ failure = "none"
  /\ requests = 0
  /\ executed = [s \in Source |-> <<>>]
  /\ stream = Accept(NewStream, [kind |-> "hello", features |-> Features])

Publish(frames) == stream' = AcceptAll(stream, frames)

Fail(reason) == failure' = reason /\ Publish(<<[kind |-> "error"]>>)

-----------------------------------------------------------------------------
(* Raw rows: append and flush, on a source's buffer and the Stream.         *)

Flush(b) ==
  IF b.rows = <<>> THEN b
  ELSE [b EXCEPT !.rows = <<>>,
                 !.stream = Accept(@, [kind |-> "rows", source |-> b.source,
                                       sequence |-> b.next - Len(b.rows), rows |-> b.rows])]

AppendRow(b, row) ==
  LET room == IF Len(b.rows) = FrameRows THEN Flush(b) ELSE b
      added == [room EXCEPT !.rows = Append(@, row), !.next = @ + 1]
  IN  IF row.kind = "blocks" /\ Len(added.rows) = FrameRows THEN Flush(added) ELSE added

Buffer(s, st) == [source |-> s, rows |-> raw[s].rows, next |-> raw[s].next, stream |-> st]

\* emit_context emits a row if this is the first sample or the context changed.
Emits(s, changed) == changed \/ raw[s].contexts = 0

\* The rows record_block adds: the context, and the block if selected.
RawRows(s, changed) ==
  (IF Emits(s, changed) THEN <<[kind |-> "address_context"]>> ELSE <<>>)
    \o (IF CaptureBlocks THEN <<[kind |-> "blocks"]>> ELSE <<>>)

\* The Stream after every source has been flushed.
Drained ==
  FoldLeft(LAMBDA st, i : Flush(Buffer(i - 1, st)).stream, stream,
           [i \in 1 .. Cardinality(Source) |-> i])

DrainRaw == raw' = [s \in Source |-> [raw[s] EXCEPT !.rows = <<>>]]

-----------------------------------------------------------------------------
(* block_entry of a vCPU. *)

Enters(s) == Alive /\ world = "running" /\ finishing = "no" /\ at[s] = "outside"

\* The window start marker: begin.
Begin(s) ==
  /\ Enters(s)
  /\ IF wstate = "idle"
     THEN /\ wstate' = "opening"
          /\ at' = [at EXCEPT ![s] = "opening"]
          /\ UNCHANGED <<failure, stream>>
     ELSE Fail("begin") /\ UNCHANGED <<wstate, at>>
  /\ UNCHANGED <<window, table, block, admission, raw, executed, controlVars, closing, finishing>>

BeginCount(s) ==
  /\ Alive
  /\ at[s] = "opening"
  /\ window' = window + 1
  /\ at' = [at EXCEPT ![s] = "counted"]
  /\ UNCHANGED <<wstate, table, block, admission, raw, executed, controlVars, exitVars, stream>>

BeginStore(s) ==
  /\ Alive
  /\ at[s] = "counted"
  /\ wstate' = "recording"
  /\ at' = [at EXCEPT ![s] = "outside"]
  /\ UNCHANGED <<window, table, block, admission, raw, executed, controlVars, exitVars, stream>>

\* The end and abort markers.
Finalise(s, final) ==
  /\ Enters(s)
  /\ IF wstate = "recording"
     THEN wstate' = final /\ UNCHANGED <<failure, stream>>
     ELSE Fail(final) /\ UNCHANGED wstate
  /\ UNCHANGED <<window, vcpuVars, controlVars, closing, finishing>>

End(s) == Finalise(s, "ended")

Abort(s) == Finalise(s, "aborted")

\* An ordinary block.  Outside a recording window admit refuses it and nothing
\* changes; otherwise it reads the window's number in a second step.
Admit(s, address) ==
  /\ Enters(s)
  /\ wstate = "recording"
  /\ Len(executed[s]) < MaxBlocks[s]
  /\ at' = [at EXCEPT ![s] = "admitting"]
  /\ block' = [block EXCEPT ![s] = address]
  /\ UNCHANGED <<windowVars, table, admission, raw, executed, controlVars, exitVars, stream>>

AdmitWindow(s) ==
  /\ Alive
  /\ at[s] = "admitting"
  /\ admission' = [admission EXCEPT ![s] = window]
  /\ at' = [at EXCEPT ![s] = "admitted"]
  /\ UNCHANGED <<windowVars, table, block, raw, executed, controlVars, exitVars, stream>>

\* record_block: observe, with the admission read before, then the raw rows.
RecordBlock(s, changed) ==
  /\ Alive
  /\ at[s] = "admitted"
  /\ Emits(s, changed) => raw[s].contexts < MaxContexts[s]
  /\ at' = [at EXCEPT ![s] = "outside"]
  /\ IF admission[s] = 0 \/ window # admission[s] THEN Fail("stale") /\ UNCHANGED <<table, raw, executed>>
     ELSE IF Inconsistent(table[s], window, block[s])
     THEN Fail("inconsistent") /\ UNCHANGED <<table, raw, executed>>
     ELSE LET b == FoldLeft(AppendRow, Buffer(s, stream), RawRows(s, changed))
          IN
          /\ raw' = [raw EXCEPT ![s] = [rows |-> b.rows, next |-> b.next,
               contexts |-> @.contexts + (IF Emits(s, changed) THEN 1 ELSE 0)]]
          /\ stream' = b.stream
          /\ table' = [table EXCEPT ![s] = Observe(@, window, block[s])]
          /\ executed' = [executed EXCEPT ![s] = Append(@, block[s])]
          /\ UNCHANGED failure
  /\ UNCHANGED <<windowVars, block, admission, controlVars, closing, finishing>>

-----------------------------------------------------------------------------
(* publish_transition_window: close, the rows of every source, the summary. *)

Status == CASE wstate = "ended" -> "ended" [] wstate = "aborted" -> "aborted" [] OTHER -> "incomplete"

Total(field(_)) == MapThenSumSet(field, Source)

WindowSummary ==
  LET of(s) == SourceSummary(table[s], window)
  IN  [kind |-> "transition_window", window |-> window, status |-> Status,
       sources |-> Source, capacity |-> TableCapacity,
       distinct |-> Total(LAMBDA s : of(s).distinct),
       observed |-> Total(LAMBDA s : of(s).observed),
       overflow |-> Total(LAMBDA s : of(s).overflow)]

RowFrames(s) ==
  LET rows == Rows(table[s], window)
      frames == (Len(rows) + RowsPerFrame - 1) \div RowsPerFrame
  IN  [k \in 1 .. frames |->
         [kind |-> "block_transitions", source |-> s, window |-> window,
          rows |-> SubSeq(rows, (k - 1) * RowsPerFrame + 1, Min({k * RowsPerFrame, Len(rows)}))]]

WindowFrames ==
  IF wstate = "idle" THEN <<>>
  ELSE FlattenSeq([i \in 1 .. Cardinality(Source) |-> RowFrames(i - 1)]) \o <<WindowSummary>>

\* Closes the window, and fails unless there was one exactly when expected.
PublishWindow ==
  /\ wstate' = "idle"
  /\ executed' = [s \in Source |-> <<>>]
  /\ IF (wstate # "idle") = expected
     THEN /\ stream' = AcceptAll(Drained, WindowFrames)
          /\ expected' = FALSE
          /\ UNCHANGED failure
     ELSE /\ stream' = AcceptAll(Drained, WindowFrames \o <<[kind |-> "error"]>>)
          /\ failure' = "unpaired"
          /\ UNCHANGED expected

-----------------------------------------------------------------------------
(* The control thread at an action boundary. *)

Quiet == \A s \in Source : at[s] = "outside"

\* QMP confirms the stop once no vCPU is inside a callback; then the worker
\* sends the drain command.
WorldStop ==
  /\ Alive
  /\ world = "running"
  /\ finishing = "no"
  /\ Quiet
  /\ requests < MaxActions
  /\ world' = "stopped"
  /\ control' = "commanded"
  /\ UNCHANGED <<windowVars, vcpuVars, awaiting, expected, requests, exitVars, stream>>

ControlRead ==
  /\ Alive
  /\ control = "commanded"
  /\ control' = "drain"
  /\ UNCHANGED <<windowVars, vcpuVars, world, awaiting, expected, requests, exitVars, stream>>

ControlPublish ==
  /\ Alive
  /\ control = "drain"
  /\ control' = "request"
  /\ DrainRaw
  /\ IF wstate \in {"opening", "recording"}
     THEN /\ failure' = "open"
          /\ stream' = Accept(Drained, [kind |-> "error"])
          /\ UNCHANGED <<wstate, executed, expected>>
     ELSE PublishWindow
  /\ UNCHANGED <<window, table, at, block, admission, world, awaiting, requests, closing, finishing>>

\* A fault: the next window is not expected.
ControlRequestForgets ==
  /\ Alive
  /\ control = "request"
  /\ control' = "poll"
  /\ IF closing
     THEN UNCHANGED <<awaiting, requests, stream>>
     ELSE /\ Publish(<<[kind |-> "kernel_request"]>>)
          /\ awaiting' = TRUE
          /\ requests' = requests + 1
  /\ UNCHANGED <<windowVars, vcpuVars, world, expected, exitVars>>

ControlRequest ==
  /\ Alive
  /\ control = "request"
  /\ control' = "poll"
  /\ IF closing
     THEN UNCHANGED <<awaiting, requests, expected, stream>>
     ELSE /\ Publish(<<[kind |-> "kernel_request"]>>)
          /\ awaiting' = TRUE
          /\ requests' = requests + 1
          /\ expected' = TRUE
  /\ UNCHANGED <<windowVars, vcpuVars, world, exitVars>>

WorldResume ==
  /\ Alive
  /\ awaiting
  /\ awaiting' = FALSE
  /\ world' = "running"
  /\ UNCHANGED <<windowVars, vcpuVars, control, expected, requests, exitVars, stream>>

-----------------------------------------------------------------------------
(* finish. *)

FinishBegin ==
  /\ Alive
  /\ finishing = "no"
  /\ Quiet
  /\ finishing' = "join"
  /\ closing' = TRUE
  /\ UNCHANGED <<windowVars, vcpuVars, controlVars, failure, stream>>

\* The control thread has returned: it looks at closing before every poll, so
\* a command may be left unread.
FinishWindow ==
  /\ Alive
  /\ finishing = "join"
  /\ control \in {"poll", "commanded"}
  /\ finishing' = "ending"
  /\ DrainRaw
  /\ PublishWindow
  /\ UNCHANGED <<window, table, at, block, admission, world, control, awaiting, requests, closing>>

FinishComplete ==
  /\ Alive
  /\ finishing = "ending"
  /\ finishing' = "done"
  /\ Publish([i \in 1 .. Cardinality(Source) |->
                [kind |-> "source_end", source |-> i - 1, sequence |-> raw[i - 1].next]]
               \o <<[kind |-> "complete"]>>)
  /\ UNCHANGED <<windowVars, vcpuVars, controlVars, closing, failure>>

Exited == ~ Alive /\ UNCHANGED vars

Vcpu(s) ==
  \/ Begin(s) \/ BeginCount(s) \/ BeginStore(s) \/ End(s) \/ Abort(s)
  \/ (\E address \in Address : Admit(s, address)) \/ AdmitWindow(s)
  \/ \E changed \in BOOLEAN : RecordBlock(s, changed)

Next ==
  \/ \E s \in Source : Vcpu(s)
  \/ WorldStop \/ ControlRead \/ ControlPublish \/ ControlRequest \/ WorldResume
  \/ FinishBegin \/ FinishWindow \/ FinishComplete
  \/ Exited

Spec == Init /\ [][Next]_vars

-----------------------------------------------------------------------------
\* Every window the control thread or finish publishes is one the Stream
\* accepts, whatever marker blocks the guest ran on whichever vCPU: windows are
\* numbered without a gap and their rows add up to their summary.  The Stream
\* refuses only a window no action asked for, and the plugin itself then fails.
\* A vCPU that read its admission while another one ends, aborts or opens a
\* window still finds that admission valid: observe never fails.
WindowsAccepted ==
  /\ stream.ok \/ failure = "unpaired"
  /\ failure \notin {"stale", "inconsistent"}

\* Without raw block rows the "other selected signals remain independent"
\* (docs/action-windows.md): the worker accepts every run that the plugin does
\* not fail.
SignalsIndependent == (failure = "none") => stream.ok

\* While a window records or waits to be published, the table of each source
\* describes exactly the blocks that source executed in it, with the stale slots of
\* earlier windows and the overflow of a full table.
RowsExact ==
  failure = "none" /\ wstate \in {"recording", "ended", "aborted"} =>
    \A s \in Source : Summarises(table[s], window, executed[s])

\* Every action boundary has exactly one window: those published are as many
\* as the boundaries before the last one, and as many as all of them at the end.
WindowPerAction ==
  failure = "none" => stream.window - 1 = requests - (IF expected THEN 1 ELSE 0)
=============================================================================
