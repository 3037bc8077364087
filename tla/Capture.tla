------------------------------ MODULE Capture -------------------------------
(***************************************************************************)
(* Publication inside the QEMU plugin (plugin.cpp): every vCPU appends rows *)
(* to its own buffer without a lock, full buffers become frames that go     *)
(* through the source's ring to the one collector thread, or straight to    *)
(* the trace pipe, and three other activities also flush a source: its idle *)
(* and exit callbacks, the control thread at an action boundary, and the    *)
(* exit handler of the process.                                             *)
(*                                                                         *)
(* A ring is a bounded queue here, which FrameRing proves it to be.  A      *)
(* frame on the pipe is judged at once by the worker's Stream: the pipe is  *)
(* a FIFO, so judging it later gives the same verdict.                      *)
(*                                                                         *)
(* A callback that may block is a sequence of calls that its thread still   *)
(* has to make: plan[t].                                                    *)
(***************************************************************************)
EXTENDS TraceStream

CONSTANTS
  Modes,          \* the ways the plugin is started
  RingCapacity,   \* slots of a ring
  FrameRows,      \* rows that fit one frame
  MaxBoundaries   \* bound on the action boundaries

ASSUME SourceAssumption ==
  Cardinality(Source) \in Nat \ {0} /\ Source = 0 .. Cardinality(Source) - 1
ASSUME ModeAssumption ==
  \A m \in Modes : /\ {m.ring, m.kernel, m.mixed} \subseteq BOOLEAN
                    /\ m.rows \in [Source -> Nat]
ASSUME BoundAssumption ==
  /\ {RingCapacity, FrameRows} \subseteq Nat \ {0}
  /\ MaxBoundaries \in Nat

Control == -1     \* the control thread
Main == -2        \* the thread that runs the exit handler
Nobody == -3
Thread == Source \cup {Control, Main}

VARIABLES
  mode,       \* how the plugin was started: a record of Modes
  state,      \* Source::state
  next,       \* Source::next, the rows captured so far
  buffer,     \* the rows of Source::bytes not yet in a frame
  context,    \* Source::context_sequence, NoContext before the first sample
  sampled,    \* sources whose registers have their initial sample
  recording,  \* sources whose current block is recorded
  ring,       \* frames queued for the collector
  queued,     \* Source::frames_queued
  sent,       \* Source::frames_sent
  lock,       \* the owner of Source::cold_mutex
  plan,       \* the calls each thread still has to make in its callback
  first, step, held, \* the collector: rotation, position in the pass, front slot held
  collector,  \* the collector thread is "running", asked to stop ("done"), or "returned"
  control,    \* the control thread: "check", "poll", "drain" or "returned"
  command,    \* 'D' bytes in the control pipe
  world,      \* the vCPUs are "running" or, after a QMP stop, "stopped"
  boundaries, \* world stops so far
  waiting,    \* a kernel_request is out and the world has not been resumed
  closing,    \* the flag of finish
  finishing,  \* progress of finish: "no", "join", "ending", "collector", "done"
  failure,    \* why the process exited early, or "none"
  stream      \* the worker's Stream

sourceVars == <<state, next, buffer, context, sampled, recording>>
ringVars == <<ring, queued, sent>>
collectorVars == <<first, step, held, collector>>
controlVars == <<control, command, world, boundaries, waiting>>
exitVars == <<closing, finishing, failure>>
vars == <<sourceVars, ringVars, lock, plan, collectorVars, controlVars, exitVars, stream>>

UseRing == mode.ring      \* ring_publication
Kernel == mode.kernel     \* capture_kernel: action boundaries, a control thread
Mixed == mode.mixed       \* mixed_batches: one frame holds rows of several kinds
MaxRows == mode.rows      \* bound on the rows captured from each source

Features ==
  {"system", "registers", "memory", "address_context", "system_memory"}
    \cup (IF Kernel THEN {"kernel"} ELSE {})
    \cup (IF Mixed THEN {"mixed"} ELSE {})

Alive == failure = "none" /\ finishing # "done"

Init ==
  /\ mode \in Modes
  /\ state = [s \in Source |-> "unused"]
  /\ next = [s \in Source |-> 0]
  /\ buffer = [s \in Source |-> <<>>]
  /\ context = [s \in Source |-> NoContext]
  /\ sampled = {}
  /\ recording = {}
  /\ ring = [s \in Source |-> <<>>]
  /\ queued = [s \in Source |-> 0]
  /\ sent = [s \in Source |-> 0]
  /\ lock = [s \in Source |-> Nobody]
  /\ plan = [t \in Thread |-> <<>>]
  /\ first = 0 /\ step = 0 /\ held = FALSE
  /\ collector = IF UseRing THEN "running" ELSE "returned"
  /\ control = IF Kernel THEN "check" ELSE "returned"
  /\ command = 0
  /\ world = "running"
  /\ boundaries = 0
  /\ waiting = FALSE
  /\ closing = FALSE
  /\ finishing = "no"
  /\ failure = "none"
  /\ stream = Accept(NewStream, [kind |-> "hello", features |-> Features])

Publish(f) == stream' = Accept(stream, f)

Fail(reason) ==
  /\ failure' = reason
  /\ Publish([kind |-> "error"])

Call(op, s) == [op |-> op, at |-> s]
AppendRow(s, row) == [op |-> "append", at |-> s, row |-> row]

-----------------------------------------------------------------------------
(* Calls.  Each one is the head of the plan of thread t, on source s.        *)

Calls(t, op, s) ==
  /\ Alive
  /\ plan[t] # <<>>
  /\ Head(plan[t]).op = op
  /\ Head(plan[t]).at = s

\* A fault: rows of several kinds share a frame that names one.
NeedsFlushOnSpaceOnly(s, row) == buffer[s] # <<>> /\ Len(buffer[s]) = FrameRows

\* append: a row that does not fit the buffer, or not its kind, flushes first;
\* a block row that fills the frame flushes it.
NeedsFlush(s, row) ==
  /\ buffer[s] # <<>>
  /\ \/ Len(buffer[s]) = FrameRows
     \/ buffer[s][1].kind # row.kind
        /\ (~ Mixed \/ "register_schema" \in {buffer[s][1].kind, row.kind})

AppendCall(t, s) ==
  /\ Calls(t, "append", s)
  /\ LET row == Head(plan[t]).row
         stamped == IF row.kind = "memory" THEN [row EXCEPT !.context = context[s]] ELSE row
         rows == Append(buffer[s], stamped)
         fills == row.kind = "blocks" /\ Len(rows) = FrameRows
     IN  IF NeedsFlush(s, row)
         THEN /\ plan' = [plan EXCEPT ![t] = <<Call("flush", s)>> \o @]
              /\ UNCHANGED sourceVars
         ELSE /\ buffer' = [buffer EXCEPT ![s] = rows]
              /\ next' = [next EXCEPT ![s] = IF row.kind = "register_schema" THEN @ ELSE @ + 1]
              /\ context' = [context EXCEPT ![s] =
                               IF row.kind = "address_context" THEN next[s] ELSE @]
              /\ sampled' = IF row.kind = "registers" THEN sampled \cup {s} ELSE sampled
              /\ plan' = [plan EXCEPT ![t] =
                            (IF fills THEN <<Call("flush", s)>> ELSE <<>>) \o Tail(@)]
              /\ UNCHANGED <<state, recording>>
  /\ UNCHANGED <<ringVars, lock, collectorVars, controlVars, exitVars, stream>>

\* The frame flush encodes: its sequence is that of its first row.
BufferedFrame(s) ==
  IF buffer[s][1].kind = "register_schema"
  THEN [kind |-> "register_schema", source |-> s]
  ELSE [kind |-> "rows", source |-> s, sequence |-> next[s] - Len(buffer[s]),
        rows |-> buffer[s]]

FlushEmpty(t, s) ==
  /\ Calls(t, "flush", s)
  /\ buffer[s] = <<>>
  /\ plan' = [plan EXCEPT ![t] = Tail(@)]
  /\ UNCHANGED <<sourceVars, ringVars, lock, collectorVars, controlVars, exitVars, stream>>

\* A push waits for room; a producer that finds the collector gone gives up.
FlushRing(t, s) ==
  /\ Calls(t, "flush", s)
  /\ UseRing
  /\ buffer[s] # <<>>
  /\ collector = "running" => Len(ring[s]) < RingCapacity
  /\ IF Len(ring[s]) < RingCapacity
     THEN /\ ring' = [ring EXCEPT ![s] = Append(@, BufferedFrame(s))]
          /\ plan' = [plan EXCEPT ![t] = <<Call("count", s)>> \o Tail(@)]
          /\ UNCHANGED <<failure, stream>>
     ELSE Fail("full_ring") /\ UNCHANGED <<ring, plan>>
  /\ UNCHANGED <<sourceVars, queued, sent, lock, collectorVars, controlVars, closing, finishing>>

\* frames_queued follows the push; only then is the buffer reset.
CountFrame(t, s) ==
  /\ Calls(t, "count", s)
  /\ queued' = [queued EXCEPT ![s] = @ + 1]
  /\ buffer' = [buffer EXCEPT ![s] = <<>>]
  /\ plan' = [plan EXCEPT ![t] = Tail(@)]
  /\ UNCHANGED <<state, next, context, sampled, recording, ring, sent, lock, collectorVars,
                 controlVars, exitVars, stream>>

FlushDirect(t, s) ==
  /\ Calls(t, "flush", s)
  /\ ~ UseRing
  /\ buffer[s] # <<>>
  /\ Publish(BufferedFrame(s))
  /\ buffer' = [buffer EXCEPT ![s] = <<>>]
  /\ plan' = [plan EXCEPT ![t] = Tail(@)]
  /\ UNCHANGED <<state, next, context, sampled, recording, ringVars, lock, collectorVars,
                 controlVars, exitVars>>

\* wait_for_frames: every frame counted when the wait began has been sent, or
\* the collector is gone.
WaitForFrames(t, s) ==
  /\ Calls(t, "wait", s)
  /\ UseRing /\ collector = "running" => sent[s] = queued[s]
  /\ IF UseRing => sent[s] = queued[s]
     THEN plan' = [plan EXCEPT ![t] = Tail(@)] /\ UNCHANGED <<failure, stream>>
     ELSE Fail("undrained") /\ UNCHANGED plan
  /\ UNCHANGED <<sourceVars, ringVars, lock, collectorVars, controlVars, closing, finishing>>

\* The end of end_source: the header goes to the pipe past the ring.
SendSourceEnd(t, s) ==
  /\ Calls(t, "end", s)
  /\ Publish([kind |-> "source_end", source |-> s, sequence |-> next[s]])
  /\ state' = [state EXCEPT ![s] = "ended"]
  /\ plan' = [plan EXCEPT ![t] = Tail(@)]
  /\ UNCHANGED <<next, buffer, context, sampled, recording, ringVars, lock, collectorVars,
                 controlVars, exitVars>>

Acquire(t, s) ==
  /\ Calls(t, "lock", s)
  /\ lock[s] = Nobody
  /\ lock' = [lock EXCEPT ![s] = t]
  /\ plan' = [plan EXCEPT ![t] = Tail(@)]
  /\ UNCHANGED <<sourceVars, ringVars, collectorVars, controlVars, exitVars, stream>>

Release(t, s) ==
  /\ Calls(t, "unlock", s)
  /\ lock' = [lock EXCEPT ![s] = Nobody]
  /\ plan' = [plan EXCEPT ![t] = Tail(@)]
  /\ UNCHANGED <<sourceVars, ringVars, collectorVars, controlVars, exitVars, stream>>

\* A boundary needs every vCPU; finish ends those that are still active.
RequireActive(s) ==
  /\ Calls(Control, "require", s)
  /\ \/ /\ state[s] = "active"
        /\ plan' = [plan EXCEPT ![Control] = Tail(@)]
        /\ UNCHANGED <<failure, stream>>
     \/ /\ state[s] # "active"
        /\ Fail("inactive")
        /\ UNCHANGED plan
  /\ UNCHANGED <<sourceVars, ringVars, lock, collectorVars, controlVars, closing, finishing>>

\* A fault: a source is ended without its last buffer.
EndIfActiveUnflushed(s) ==
  /\ Calls(Main, "end_active", s)
  /\ plan' = [plan EXCEPT ![Main] =
                (IF state[s] = "active" THEN <<Call("end", s)>> ELSE <<>>) \o Tail(@)]
  /\ UNCHANGED <<sourceVars, ringVars, lock, collectorVars, controlVars, exitVars, stream>>

EndIfActive(s) ==
  /\ Calls(Main, "end_active", s)
  /\ plan' = [plan EXCEPT ![Main] =
                (IF state[s] = "active"
                 THEN <<Call("flush", s), Call("wait", s), Call("end", s)>>
                 ELSE <<>>) \o Tail(@)]
  /\ UNCHANGED <<sourceVars, ringVars, lock, collectorVars, controlVars, exitVars, stream>>

-----------------------------------------------------------------------------
(* Callbacks of a vCPU.  Execution callbacks take no lock: they need the    *)
(* world to run, and the process has not reached its exit handler.          *)

Executes(s) ==
  /\ Alive
  /\ world = "running"
  /\ finishing = "no"
  /\ state[s] = "active"
  /\ plan[s] = <<>>

ContextRow == [kind |-> "address_context"]
RegisterRow(s) == [kind |-> "registers", baseline |-> s \notin sampled]
BlockRow == [kind |-> "blocks"]
MemoryRow == [kind |-> "memory", context |-> NoContext]

\* emit_context and sample_registers append only what changed, and everything
\* the first time.
Changes(s, contextChanged, registersChanged) ==
  (IF contextChanged \/ context[s] = NoContext THEN <<AppendRow(s, ContextRow)>> ELSE <<>>)
    \o (IF registersChanged \/ s \notin sampled THEN <<AppendRow(s, RegisterRow(s))>> ELSE <<>>)

Cold(s) == Alive /\ plan[s] = <<>> /\ lock[s] = Nobody

SourceStart(s) ==
  /\ Cold(s)
  /\ finishing = "no"
  /\ state[s] = "unused"
  /\ state' = [state EXCEPT ![s] = "active"]
  /\ lock' = [lock EXCEPT ![s] = s]
  /\ plan' = [plan EXCEPT ![s] = <<AppendRow(s, [kind |-> "register_schema"]),
                                   Call("flush", s), Call("unlock", s)>>]
  /\ UNCHANGED <<next, buffer, context, sampled, recording, ringVars, collectorVars,
                 controlVars, exitVars, stream>>

BlockEntry(s) ==
  /\ Executes(s)
  /\ \E contextChanged, registersChanged \in BOOLEAN :
       LET rows == Changes(s, contextChanged, registersChanged) \o <<AppendRow(s, BlockRow)>>
       IN  /\ next[s] + Len(rows) <= MaxRows[s]
           /\ plan' = [plan EXCEPT ![s] = rows]
  /\ recording' = recording \cup {s}
  /\ UNCHANGED <<state, next, buffer, context, sampled, ringVars, lock, collectorVars,
                 controlVars, exitVars, stream>>

MemoryAccess(s) ==
  /\ Executes(s)
  /\ s \in recording
  /\ \E contextChanged \in BOOLEAN :
       LET rows == (IF contextChanged THEN <<AppendRow(s, ContextRow)>> ELSE <<>>)
                     \o <<AppendRow(s, MemoryRow)>>
       IN  /\ next[s] + Len(rows) <= MaxRows[s]
           /\ plan' = [plan EXCEPT ![s] = rows]
  /\ UNCHANGED <<sourceVars, ringVars, lock, collectorVars, controlVars, exitVars, stream>>

\* The idle callback may still run while the world stops.
SourceIdle(s) ==
  /\ Cold(s)
  /\ state[s] = "active"
  /\ buffer[s] # <<>>
  /\ lock' = [lock EXCEPT ![s] = s]
  /\ plan' = [plan EXCEPT ![s] = <<Call("flush", s), Call("unlock", s)>>]
  /\ UNCHANGED <<sourceVars, ringVars, collectorVars, controlVars, exitVars, stream>>

SourceEnd(s) ==
  /\ Executes(s)
  /\ lock[s] = Nobody
  /\ lock' = [lock EXCEPT ![s] = s]
  /\ \E contextChanged, registersChanged \in BOOLEAN :
       LET rows == Changes(s, contextChanged, registersChanged)
       IN  /\ next[s] + Len(rows) <= MaxRows[s]
           /\ plan' = [plan EXCEPT ![s] = rows \o <<Call("flush", s), Call("wait", s),
                                                    Call("end", s), Call("unlock", s)>>]
  /\ UNCHANGED <<sourceVars, ringVars, collectorVars, controlVars, exitVars, stream>>

-----------------------------------------------------------------------------
(* The collector: every pass visits each ring once, starting one further.   *)

Visited == (first + step) % Cardinality(Source)

Collecting == Alive /\ collector \in {"running", "done"} /\ step < Cardinality(Source)

CollectNothing ==
  /\ Collecting
  /\ ~ held
  /\ ring[Visited] = <<>>
  /\ step' = step + 1
  /\ UNCHANGED <<sourceVars, ringVars, lock, plan, first, held, collector, controlVars,
                 exitVars, stream>>

CollectFrame ==
  /\ Collecting
  /\ ~ held
  /\ ring[Visited] # <<>>
  /\ Publish(Head(ring[Visited]))
  /\ held' = TRUE
  /\ UNCHANGED <<sourceVars, ringVars, lock, plan, first, step, collector, controlVars, exitVars>>

\* A fault: the frame leaves the ring without being counted as sent.
ReleaseFrameUncounted ==
  /\ Collecting
  /\ held
  /\ ring' = [ring EXCEPT ![Visited] = Tail(@)]
  /\ held' = FALSE
  /\ step' = step + 1
  /\ UNCHANGED <<sourceVars, queued, sent, lock, plan, first, collector, controlVars, exitVars,
                 stream>>

ReleaseFrame ==
  /\ Collecting
  /\ held
  /\ ring' = [ring EXCEPT ![Visited] = Tail(@)]
  /\ sent' = [sent EXCEPT ![Visited] = @ + 1]
  /\ held' = FALSE
  /\ step' = step + 1
  /\ UNCHANGED <<sourceVars, queued, lock, plan, first, collector, controlVars, exitVars, stream>>

EndPass ==
  /\ Alive
  /\ collector \in {"running", "done"}
  /\ step = Cardinality(Source)
  /\ first' = (first + 1) % Cardinality(Source)
  /\ step' = 0
  /\ collector' = IF collector = "done" THEN "returned" ELSE collector
  /\ UNCHANGED <<sourceVars, ringVars, lock, plan, held, controlVars, exitVars, stream>>

Collect == CollectNothing \/ CollectFrame \/ ReleaseFrame \/ EndPass

-----------------------------------------------------------------------------
(* The worker stops the world at an action boundary and asks for a drain;   *)
(* QMP confirms the stop once no vCPU is inside an execution callback.      *)

NoExecution == \A s \in Source : plan[s] = <<>> \/ lock[s] = s

WorldStop ==
  /\ Alive
  /\ Kernel
  /\ world = "running"
  /\ finishing = "no"
  /\ boundaries < MaxBoundaries
  /\ NoExecution
  /\ world' = "stopped"
  /\ boundaries' = boundaries + 1
  /\ command' = command + 1
  /\ UNCHANGED <<sourceVars, ringVars, lock, plan, collectorVars, control, waiting, exitVars, stream>>

WorldResume ==
  /\ Alive
  /\ waiting
  /\ waiting' = FALSE
  /\ world' = "running"
  /\ UNCHANGED <<sourceVars, ringVars, lock, plan, collectorVars, control, command, boundaries,
                 exitVars, stream>>

ControlCheck ==
  /\ Alive
  /\ control = "check"
  /\ control' = IF closing THEN "returned" ELSE "poll"
  /\ UNCHANGED <<sourceVars, ringVars, lock, plan, collectorVars, command, world, boundaries,
                 waiting, exitVars, stream>>

\* Faults of a drain: it does not wait for the collector, or does not take the
\* cold mutex.
DrainCallsNoWait(s) ==
  <<Call("lock", s), Call("require", s), Call("flush", s), Call("unlock", s)>>
DrainCallsUnlocked(s) == <<Call("require", s), Call("flush", s), Call("wait", s)>>

DrainCalls(s) ==
  <<Call("lock", s), Call("require", s), Call("flush", s), Call("wait", s), Call("unlock", s)>>

\* The same calls on every source, one source after the other.
InOrder(calls(_)) ==
  LET count == Len(calls(0))
  IN  [i \in 1 .. count * Cardinality(Source) |->
         calls((i - 1) \div count)[((i - 1) % count) + 1]]

\* A poll that times out matters only if closing was set meanwhile; otherwise
\* the loop comes back here unchanged.
ControlPoll ==
  /\ Alive
  /\ control = "poll"
  /\ \/ /\ command = 0 /\ closing
        /\ control' = "check"
        /\ UNCHANGED <<command, plan>>
     \/ /\ command > 0
        /\ command' = command - 1
        /\ control' = "drain"
        /\ plan' = [plan EXCEPT ![Control] = InOrder(DrainCalls)]
  /\ UNCHANGED <<sourceVars, ringVars, lock, collectorVars, world, boundaries, waiting, exitVars, stream>>

ControlRequest ==
  /\ Alive
  /\ control = "drain"
  /\ plan[Control] = <<>>
  /\ control' = "check"
  /\ IF closing
     THEN UNCHANGED <<waiting, stream>>
     ELSE waiting' = TRUE /\ Publish([kind |-> "kernel_request"])
  /\ UNCHANGED <<sourceVars, ringVars, lock, plan, collectorVars, command, world, boundaries, exitVars>>

-----------------------------------------------------------------------------
(* finish, the exit handler: QEMU runs it once execution callbacks stopped. *)

FinishBegin ==
  /\ Alive
  /\ finishing = "no"
  /\ NoExecution
  /\ finishing' = "join"
  /\ closing' = Kernel
  /\ UNCHANGED <<sourceVars, ringVars, lock, plan, collectorVars, controlVars, failure, stream>>

EndCalls(s) == <<Call("lock", s), Call("end_active", s), Call("unlock", s)>>

FinishSources ==
  /\ Alive
  /\ finishing = "join"
  /\ control = "returned"
  /\ finishing' = "ending"
  /\ plan' = [plan EXCEPT ![Main] = InOrder(EndCalls)]
  /\ UNCHANGED <<sourceVars, ringVars, lock, collectorVars, controlVars, closing, failure, stream>>

FinishCollector ==
  /\ Alive
  /\ finishing = "ending"
  /\ plan[Main] = <<>>
  /\ finishing' = "collector"
  /\ collector' = IF UseRing THEN "done" ELSE collector
  /\ UNCHANGED <<sourceVars, ringVars, lock, plan, first, step, held, controlVars, closing,
                 failure, stream>>

FinishComplete ==
  /\ Alive
  /\ finishing = "collector"
  /\ collector = "returned"
  /\ finishing' = "done"
  /\ Publish([kind |-> "complete"])
  /\ UNCHANGED <<sourceVars, ringVars, lock, plan, collectorVars, controlVars, closing, failure>>

\* The process has exited.
Exited == ~ Alive /\ UNCHANGED vars

-----------------------------------------------------------------------------
Step(t) ==
  \E s \in Source :
    \/ AppendCall(t, s) \/ FlushEmpty(t, s) \/ FlushRing(t, s) \/ CountFrame(t, s)
    \/ FlushDirect(t, s) \/ WaitForFrames(t, s) \/ SendSourceEnd(t, s)
    \/ Acquire(t, s) \/ Release(t, s)

ControlStep ==
  \/ Step(Control) \/ (\E s \in Source : RequireActive(s))
  \/ ControlCheck \/ ControlPoll \/ ControlRequest

MainStep ==
  \/ Step(Main) \/ (\E s \in Source : EndIfActive(s))
  \/ FinishSources \/ FinishCollector \/ FinishComplete

Callback(s) ==
  \/ SourceStart(s) \/ BlockEntry(s) \/ MemoryAccess(s) \/ SourceIdle(s) \/ SourceEnd(s)

Next ==
  \/ \E s \in Source : Step(s) \/ Callback(s)
  \/ Collect
  \/ ControlStep
  \/ MainStep
  \/ WorldStop \/ WorldResume \/ FinishBegin
  \/ Exited

Spec == Init /\ [][Next /\ UNCHANGED mode]_<<vars, mode>>

\* Every thread of the process is scheduled; what the guest and the worker do
\* is not assumed to happen.
FairSpec ==
  /\ Spec
  /\ \A s \in Source : WF_vars(Step(s))
  /\ WF_vars(Collect)
  /\ WF_vars(ControlStep)
  /\ WF_vars(MainStep)

-----------------------------------------------------------------------------
\* Whatever thread flushes a source, and whether a frame went through the ring
\* or past it, the worker's Stream accepts every frame: per-source sequences
\* have no gap and no repetition, schemas and baselines come first, memory rows
\* name the current address context, and nothing follows the end of a source.
EveryFrameAccepted == stream.ok

\* A complete frame certifies the whole run: every row any vCPU captured has
\* been published and every source that started has ended.  On the way there
\* nobody finds the collector gone with frames to send ("Finish joins only
\* after every producer has stopped and drained").
CompleteMeansEverything ==
  /\ failure \notin {"full_ring", "undrained"}
  /\ (finishing = "done") =>
       \A s \in Source :
         /\ stream.next[s] = next[s]
         /\ state[s] # "unused" => s \in stream.ended

\* While the client holds an action boundary every row captured before it has
\* already been published: no tail is left in a buffer or a ring.
BoundaryHasEverything ==
  waiting => \A s \in Source : stream.next[s] = next[s] /\ ring[s] = <<>>

\* The calls that read or write a source's buffer.
UsesBuffer(t, s) ==
  /\ plan[t] # <<>>
  /\ Head(plan[t]).at = s
  /\ Head(plan[t]).op \in {"append", "flush", "count", "end"}

\* At most one thread is inside a source's buffer, although execution callbacks
\* take no lock: the stopped world and the cold mutex together exclude them.
BufferExclusive ==
  Alive => \A s \in Source : \A t, u \in Thread :
             UsesBuffer(t, s) /\ UsesBuffer(u, s) => t = u

\* No lock order, full ring or wait for frames blocks the capture for ever: a
\* drain command is always answered with the boundary, unless the process is on
\* its way out, and finish always reaches the complete frame unless it failed.
CaptureProgresses ==
  /\ (command > 0) ~> (waiting \/ closing \/ failure # "none")
  /\ (finishing = "join") ~> ~ Alive
=============================================================================
