# A verification project for cpu2tensor

cpu2tensor observes a program or a kernel under QEMU, or on real hardware, and
delivers what it executed as tensors. This project models the parts of it in
which threads, processes, sockets, files or failed calls have to agree: capture
inside the QEMU plugin, the trace grammar, action windows, the rich context
filter, both workers, the Python client with its environments, the hardware
captures, and the programs that train and experiment on top of them. All paths
below are relative to the repository.

## The system

| Part | Code | State | Operations | Talks to |
|---|---|---|---|---|
| frame ring | `native/include/cpu2tensor/frame_ring.hpp` | two positions, slots | `try_push`, `front`, `pop` | producer vCPU, collector |
| plugin | `native/qemu/plugin.cpp` | one `Source` per vCPU, collector, control thread, exit flags | callbacks for start, block, memory, idle, exit; `flush`; `collect_frames`; `control`; `finish` | ring, trace pipe, control pipe |
| transition window | `native/core/transition_window.cpp` | window state and number, a table per source | `begin`, `end`, `abort`, `admit`, `observe`, `close` | plugin |
| context filter | `native/core/context_filter.cpp` | latch, paging root, policy | `latch`, `relation`, `account`, `summary` | plugin |
| trace grammar | `native/core/trace.cpp` | `Stream`: what each source has sent | `accept` | plugin writes; worker and client validate |
| user-mode worker | `native/worker/main.cpp` | child, client, deadline, progress | `run` | plugin, client |
| kernel worker | `native/worker/kernel.cpp` | QMP command, serial line, drain, request | `run_kernel` | QEMU, plugin, guest, client |
| pool | `python/cpu2tensor/pool.py` | socket, pending frames, outcome | `read`, `close` | worker |
| endpoint readers | `python/cpu2tensor/_multipool.py` | slots, finished, failure, threads | `read`, `_receive`, `close` | one pool per worker |
| batching | `python/cpu2tensor/_batching.py` | pending rows per source | `add`, `end_source`, `finish` | pool |
| environments | `python/cpu2tensor/stdio.py`, `kernel.py` | current run, connection, iterators | `reset`, `step`, `close`, `as_gym` | worker |
| hardware capture | `python/cpu2tensor/hardware.py`, `windows_hardware.py` | descriptors, mappings, recorder session | enter, `stop`, `close` | the host kernel, wpr |
| capture benchmark | `python/cpu2tensor/examples/benchmark_capture.py` | process group, trace pipe, counter | `run_case`, `benchmark`, `summarize` | a traced command |
| training | `python/cpu2tensor/examples/pretrain_kernel.py` | readers, queue, pairs | `worker_batches`, `train` | several pools |
| health policy | `python/cpu2tensor/examples/hardware_pretraining_health.py` | `HealthState` | `decide_health` | a trainer's records |
| hardware experiments | `hardware_multimodal_experiment.py`, `hardware_multimodal*.py`, `hardware_triage_benchmark.py` | artifact directory, models | `collect`, `train_and_evaluate`, `run` | hardware capture |

What is hard about it: execution callbacks take no lock and rely on a stopped
world; frames reach the pipe by two routes; an exit can overtake an action
boundary; windows reuse their tables without clearing them; a target stops
itself after it has asked for input; a budget can pass in the middle of a frame;
`close` may come from any thread, a reader included; an iterator outlives its
run; each of a dozen system calls of a capture can fail; a process can die
between two files. `PROJECT.json` lists these hazards with the line at which
each one bites.

## Modules

### Inside the plugin

`FrameQueue` is the abstract bounded FIFO of whole frames.

`FrameRing` models the ring one memory access at a time: `TryPush`,
`CopyBegin`, `CopyEnd` and `PublishWrite` are the statements of `try_push`;
`Front`, `ReadBytes` (the collector's write to the pipe) and `Pop` are the
consumer. Positions wrap at `Laps * Capacity`, as 64-bit positions wrap at a
multiple of the capacity. Acquire and release order make interleaving sound
because no slot is accessed by both threads, which is `SlotOwnership`.

`TraceStream` is `Stream::accept` as an operator from a validator state and a
frame to the next state. A frame is a record; sizes, addresses and values are
left out. A register file is a single register.

`Capture` is publication in the plugin. A callback that may block is a plan,
the sequence of calls its thread still has to make, and each call (`AppendCall`,
`FlushRing`, `CountFrame`, `WaitForFrames`, `SendSourceEnd`, `Acquire`,
`Release`) is one step. Its other actions are the collector, the control
thread and `finish`. `mode` says how the plugin was started: with rings or
straight to the pipe, mixed frames or one kind per frame, under a kernel worker
or not. A ring is a queue here, which `PluginProofs` justifies.
Every published frame is judged at once by `TraceStream`: the pipe is a FIFO,
so the verdict is the same later. `pop` and the increment of `frames_sent` are
one step. The `published` and `drained` generations only order memory; what
they protect is stated as `BufferExclusive`.

`TransitionWindow` holds the tables of the reducer as operators;
`ActionWindows` composes them with marker blocks on several vCPUs, the control
thread and `finish`. The two steps of `begin` and of `admit` are apart. All
sources are active, since a boundary requires it, and rows go to the pipe
without a ring.

`ContextFilter` models the rich context filter: the latch in three steps, the
relation and admission of each block, the inline counter and its accounting,
and the summary of `finish`. A register file is sampled once. The plugin
refuses to combine this filter with other markers (`plugin.cpp:1445`).

### The workers

`WorkerLink` is the socket to the consumer in parts of frames: `send` takes what
fits, so a frame can be cut, and `Reported` is the single attempt of
`report_deadline`. Both workers use it.

`UserWorker` is `main.cpp`: episodes, the accept, the relay of one frame after
the other, the stdin boundary with the target's part of it (`syscall_entry`
writes the request, then stops the process), the budget with its report,
cancellation, the seal, the tail of the pipe and the reaping of the child. The
waits are polls of several events, and what `waitpid` said may be out of date
when it is used. The target, its descendants and the consumer are external.
Inputs that do not fit are sent only while an action is awaited, one unread
input at a time; the worker drains and refuses them at the same place.

`KernelWorker` is the loop of `run_kernel`: one pass looks at the budget, the
completion, the trace pipe, QMP, the console and serial lines, and then decides
to stop the guest. `Orders` are the QMP commands, `GuestEvent` the checks on a
line of the guest adapter. QEMU, the guest and the consumer are external; the
plugin's drain is one step here and the subject of `Capture`.

### The Python client

`EndpointReaders` models `_multipool.py` with the connection of each pool. A
`with self._ready` block is one step, and a thread whose `wait_for` predicate is
false is in `asleep` until somebody notifies, so a missed notification is
visible. What a worker answers is external.

`PoolRead` is one pool: the generator `_read` with its read-ahead of mixed
frames, `decode_context_frames` of the native module as the longest valid prefix
it delivers, the deferred error, the terminal frames and the outcome of every way
a connection can end. `Batching` is its collator as operators.

`StdioEnv` is the environment, with an iterator per run, and `EnvClients` puts
clients on it: a free one that calls anything, the Gymnasium wrapper, and the
loops of `learn_kernel.py`, `learn_stdio.py` and `custom_kernel_actions.py`
(`learn_kernel.py` with its calibration actions and no policy steps). A reducer of
the wrapper may stop early, raise, close its iterator, or swallow the iterator's
error; a call may be refused before it has done anything (`Refused`: an action of
the wrong type, form or length).

`HardwareCapture` is `PerfCapture` and `PerfMultimodalCapture` with the drivers
of the examples around them; every system call may fail and is a step of its
own, since the target runs meanwhile. The kernel's side of a perf event is
external. `WprCapture` is the recorder session on Windows, with an object that may
be entered again after `__enter__` raised and closed any number of times. A
command that fails may have had its effect; a session that a failed `-start` left
behind is `stray`, which the object never owned and cannot know of.

### Programs on top

`BenchmarkCapture` is the capture benchmark: the process group, the trace pipe
in half frames, `TraceCounter`, the timeout with its group kill, and the rotating
order of the cases. SIGKILL reaches who is in the process group; a descendant
that has left it lives on. `PretrainKernel` is
training on several workers: a reader thread each, a bounded queue, the pairs
of consecutive blocks and the shutdown. `HealthPolicy` is `decide_health`,
applied to record after record; a record may be judged after the trainer has
moved on. `MultimodalRow` takes one capture through admission, segmentation,
masks and scoring plans, with time bounds rounded to the nearest float32, half to
even, and mask targets rounded as Python's `round` does. `Experiment` is the artifact directory under processes
that collect, train or run the triage benchmark, and that may die at any step
and be started again with another seed.

Definitions that start with the comment "A fault:" are deliberate errors used
to show that a property can fail; no specification uses them.

## Runs

The `MC` modules compose parts that do not depend on each other as alternatives:
a variable (`part`, `client`) says which one a behaviour is about, and the
others keep their initial state.

| Run | Configuration | Shows |
|---|---|---|
| `handoffs` | `MCHandoffs.cfg` | the ring is a FIFO, owns its slots and drains; the benchmark ends, with equally many runs of each case; pairs follow each other and training ends |
| `capture` | `MCCapture.cfg` | two vCPUs, rings or direct writes, an action boundary, exit: all frames accepted, nothing lost, exclusive buffers |
| `capture_live` | `MCCaptureLive.cfg` | `finish` and a drain always get through |
| `system` | `MCSystem.cfg` | exact reducer rows, one window per action; the filter's summary equals the rows that were sent, foreign rows never leave; the kernel worker lets actions reach the guest at drained boundaries only, and completion means everything |
| `windows_blocks_off` | `MCWindowsBlocksOff.cfg` | a violation, see Findings |
| `readers` | `MCEndpointReaders.cfg` | no lost batch or wakeup, fair rotation, `close` reaps; an `ok` benchmark run is a whole sealed trace, any other leaves no process of its group |
| `transport` | `MCTransport.cfg` | every `close` returns, every run of the worker ends; the relay tells the truth; actions answer real boundaries |
| `readers_observers` | `MCReadersObservers.cfg` | a violation, see Findings |
| `client` | `MCClient.cfg` | no row before a failure is lost, outcomes and fields are true, stale iterators are harmless, captures release everything and account for all work |
| `research` | `MCResearch.cfg` | bounded recovery, exact tokens and masks, artifacts that survive crashes, honest evaluation |
| `kernel_report` | `MCKernelReport.cfg` | a violation, see Findings |
| `hardware_overflow` | `MCHardwareOverflow.cfg` | a violation, see Findings |

Bounds. Two vCPUs, workers or threads are enough for every race between two
sources; the control thread, the collector, the consumer and closing threads
come on top.

- `FrameRing`: four slots, positions that wrap after eight pushes, two frames.
- `BenchmarkCapture`: two sources and `MaxFrames` of six (hello, an event and an
  end of each source, complete, or a defect among them), at most two events
  (`MaxEvents`), a pipe of one part, two repeats of both cases, so that each case
  goes first once. The live run has one source and four frames.
- `PretrainKernel`: two training workers and a test worker with the streams of
  `MCStreams` (a source resumed after another, an odd pair), a queue of one
  batch, budgets below and above the number of updates.
- `Capture`: frames of two rows and rings of one frame (`RingCapacity`), so
  frames fill and rings are full; the rows of a mode let a vCPU record its
  baseline, a block and an access, or several blocks; one action boundary
  (`MaxBoundaries`), after which capture goes on. In the live run only one vCPU
  records rows.
- `ActionWindows`: two actions (`MaxActions`), so a window follows another in
  the same table; two block addresses give four transitions for a table of two
  slots, and the hash collides, so probing and overflow both happen. One vCPU
  executes four blocks, the other one (`MaxBlocks`).
- `ContextFilter`: three values of CR3, two of them in one paging root; two
  accesses for each vCPU, two blocks for one and one block for the other.
- `EndpointReaders`: two batches from one worker and one from the other, so a
  slot is full while the other worker waits; host names with two addresses. The
  live runs have one address and batches from one worker only, since connecting
  is the same for every address.
- `UserWorker`: two episodes, a trace pipe of two frames, a socket of one part
  (half a frame), three frames written by the target (`MaxWritten`), two inputs.
- `KernelWorker`: two rounds (`MaxRounds`), pipes of two frames, a socket of two
  parts, one frame of rows per step of the guest.
- `PoolRead`: three sources in the collated mode, because two cannot reach the
  limit over all sources; three frames read ahead at most.
- `StdioEnv`: three runs (`MaxRun`), three requests of a connection (`MaxSteps`).
- `HardwareCapture`: two threads with four and two units of work (`MaxWork`) and
  rings of three units, so that records, a loss with its LOST record and a loss
  without one happen. `WprCapture`: five calls of `__enter__` and `close`.
- `HealthPolicy`: five records, two checkpoints, microbatches of three and four
  (odd and even). `MultimodalRow`: five segments for traces of up to six bytes
  and envelopes of seven units, so neither divides; five tokens make a mask target
  that is a tie between two integers; floats of two significant bits
  (`Precision`), so that times are rounded up, down and to even; captures with
  every defect.
- `Experiment`: two families of three repetitions, one held out, one retry and
  two processes.

Symmetry is used in `research`, over families and repetitions, and in `readers`,
over the sources of a trace; no definition orders them.

Fairness. `FrameRing`, `Capture`, `BenchmarkCapture` and `PretrainKernel` assume
weak fairness of each thread of the process (the collector, a callback in
progress, the control thread, the waiter, a reader, the consumer), since the
operating system schedules them all, that a process group can be killed and is
gone after its SIGKILL (`stop_group` ignores only a group that is gone already),
and that a read of a pool returns, with an error at its timeout if need be.
`EndpointReaders` assumes weak fairness of runnable threads, and that `recv` and
`connect` on a socket that was shut down return. `UserWorker` assumes
that the worker's own steps, its timeouts among them, happen. What a guest, a
target, a worker or a consumer does is never assumed to happen. Nothing is
assumed of a part that a behaviour is not about: its fair actions are not
enabled before it begins.

## Proofs

`PluginProofs` has two parts of the plugin on which a capture rests. Its first
part proves of `FrameRing`, for every capacity and every range of positions, the
type invariant, `SlotOwnership`, `ViewStable`, and that the ring implements
`FrameQueue`. It assumes `CapacityAssumption`, `LapsAssumption` and
`FrameAssumption`. `SlotOwnership` alone is not
inductive. `RingInv` joins to the types that there is room for a push in
progress (`Room`), that a finished copy is in the writer's slot (`Written`),
that the slots between the positions hold whole frames (`PublishedIntact`), and
that the consumer's view is the front slot (`ViewStable`, `ViewHeld`). Lemmas
about `%` show that positions less than a capacity apart have different slots,
wraparound included. For the refinement, `Contents` maps the slots between the
positions to the queue: `PublishWrite` is a push, `ReadBytes` shows the front,
`Pop` removes it, and every other step leaves the queue alone.

`EndpointReadersProofs` proves the four invariants of the `readers` run
(`LosslessInOrder`, `NoLostWakeup`, `ServedInTurn`, `CloseReaps`) for every
number of workers, addresses and batches and every set of observers that close,
from `ReadersAssumption`. `EndpointReadersInvariant` states the inductive
invariant `IInv`. Only `NoLostWakeup` is inductive by itself; the others need
more:

- `HeldInv`: a reader holds a batch exactly while it publishes. This makes the
  slot's batch the one after those delivered.
- `EndInv`: while the pool is open and no failure is recorded, a reader past its
  last batch had a complete run. An iteration can therefore end as complete only
  if every worker did.
- `TurnInv`: the turns in which a full slot was passed over and the slots still
  before it make less than a round. `TurnFact` shows that the slot taken is the
  nearest full one, from the least member of a set of naturals and the rule for
  `%` in one round.
- `ClosingInv`: whoever enters `close` knows every reader there can be, because
  none starts later; it has closed all pools before the one it is at; and a live
  socket is either visible in its pool or held by a thread that is about to shut
  it. The last clause is what concurrent calls of `close` depend on: the second
  call finds no socket in the pool, although the first has not shut it yet.

TLC checked `IInv` on the instance of the `readers` run before it was proved.

`StdioEnvProofs` proves `FieldsTrue` and `StaleIteratorHarmless` of the `client`
run for every set of actions, every workload, any number of runs and requests and
every client of `EnvClients`, from `ClientAssumption` (the workload and the quit
action consist of actions, and the workload is not empty, since `learn_stdio`
sends one action). `FieldsTrue` says what holds between the fields and the worker
in one state and not why the next call keeps it. The inductive invariant adds:

- `RunInv`: an iterator that may still be advanced and belongs to the current run
  has the run's connection, and the iterator inside `next` belongs to the current
  run. With this, the message that an iterator receives, and the cancellation
  when it is dropped, concern the run that the fields describe.
- `ClientInv`: a program other than the free client is inside `next` only while
  it drains a call. `reset`, `step` and `close` therefore find nobody inside.

`StaleStep` then shows that the only steps that move an older run's iterator are
`next` and a drop, neither of which reaches the fields: `_cancel_run` is behind
the comparison of run numbers. `EpisodeHonest`, about the wrapper and the
programs, stays with TLC. TLC checked `IInv` before it was proved.

The second part of `PluginProofs` is about `ContextFilter`. It proves
`AccountingExact`, the part of `FilterExact` about the counters, and `ForeignNeverForwarded`, for every number of vCPUs, page table
values, blocks and accesses, from `FilterAssumption`. The rows forwarded by the
conditional callback and the accesses accounted at the next block come from two
mechanisms, so the equation between them is inductive only together with:

- `GateInv`: one vCPU at most is inside the latch, which is then not published,
  and nobody records before it is. A published gate therefore never changes.
- `DecisionInv`: between the entry of a block and its relation nothing is
  pending, so the new relation cannot apply to accesses of the old block; after
  it, relation and admission are those of the root the block was entered with.

That the worker's `Stream` accepts the frames (`filtered.ok`) is a fold over
whole sequences of frames and stays with TLC, which also checked the inductive
invariant `FilterInv` before it was proved.

The four invariants of the `capture` run are proved for every number of vCPUs,
every ring and frame size, every number of action boundaries and every set of
modes, from `SourceAssumption`, `ModeAssumption` and `BoundAssumption`. The
proof has six modules. `CaptureInvariant` states the invariants, `CaptureCalls`
has what all of the steps share (what a call does to the source it is about and
to the others), and the other four have the steps.

`CaptureExclusion` proves `BufferExclusive`. Execution callbacks take no lock,
so exclusion rests on three mechanisms together, and `ExclusionInv` says how:

- `CpuInv`: a vCPU's calls concern its own source. A cold callback holds the
  source's mutex until the unlock at its end. Without the mutex a vCPU is in its
  plan only in a running world, before the exit handler.
- `Guarded`: each call of the control thread and of the exit handler is made
  between a lock and the unlock of the same source.
- `StopInv`: the control thread drains only a stopped world that nobody may
  resume, and the exit handler ends sources after the control thread returned.

`CaptureProofs` proves `EveryFrameAccepted`, `CompleteMeansEverything` and
`BoundaryHasEverything`. None of the three mentions what was captured, since the
plugin keeps no record of it, so `FramesInv` says that such a record exists: for
each source some rows `h`, what they establish `g` (the current address context,
whether registers have been sampled) and a number `e` of rows appended so far,
with

- `BufferInv`: the buffer holds the last of the first `e` rows;
- `RingInv`: the frames in the ring are consecutive slices of `h` that reach up
  to the buffer, also between a push and the count after it;
- `AcceptedInv`: the worker's `Stream` has accepted exactly the rows before the
  ring, with the context and the sampling that `g` gives for them;
- `PlanRows`: the rows of `h` after the first `e` are those the callback has yet
  to append, so that a callback can be interrupted anywhere, its flush included;
- `RowsInv`, `Ordered`, `HeadInv`: which call comes after which in a plan, and
  that the next call finds its source as it needs it;
- `PassInv`: the sources that the control thread or the exit handler has passed
  are drained, respectively ended. At the boundary and at the end all have been
  passed, which gives two of the theorems.

`CaptureCallbacks` shows that the callbacks of a vCPU keep `FramesInv`,
`CaptureFrames` the same of the calls that append rows, push frames, send them
and end a source, `CaptureExclusion` of the steps outside the callbacks that
leave the rows alone, and `CaptureProofs` of the collector and of the rest. That
the `Stream` accepts a frame of many rows (the end of `CaptureCalls`) is an
induction over its rows, which the provers cannot do with an operator as
parameter. `AcceptEach`, the loop of `Stream::accept` over the rows of a frame,
is therefore a recursive function of the number of rows, and `EachAccepted`
takes the least number of rows that would be refused. TLC checked both
invariants, `FramesInv` with `h`, `g` and `e` computed along the run, before
they were proved.

Everything else is model-checked only. Liveness under fairness
(`FullRingDrains`, `BenchmarkEnds`, `TrainingEnds`, `CaptureProgresses`,
`CloseReturns`, `RunEnds`) is beyond the prover.

What some of the properties leave open, because the code does:

- `EpisodeHonest`: the wrapper looks at `_reading` alone. A reducer that closes
  its iterator, or swallows the iterator's error, returns an observation of a run
  that is over without an exit; the property then says only that no connection is
  left that a later step could use.
- `SessionOwned` is about sessions that `-start` reported as started. A stray
  session is not among them, and neither is the directory of an `__enter__` that
  raised before its `try`, until `close` is called.
- `EvaluationUnseen` is about the rates that decide: validation, held-out families
  and leave-one-family-out. The table `family` in the triage report scores all the
  rows of a family, those the model was fitted on included.
- `BatchesTrue` claims all of the PT bytes only where no record was dropped.

## Findings

1. `windows_blocks_off`: with action windows, address contexts and
   `--blocks off`, two context rows of a source can be neighbours. They form a
   run of two, which `decode_header` rejects, although
   `docs/action-windows.md:71-72` says the other signals remain independent. The
   plugin (`plugin.cpp:1390`) and the worker (`main.cpp:285`) both admit this
   selection.
2. `readers_observers`: two wire observers that call `close` on their reader
   threads join each other, so neither reader ends.
3. `kernel_report`: the kernel worker reports a passed budget even when it has
   sent a part of a frame (`kernel.cpp:313-318`), and the report lands inside
   that frame if the consumer has read meanwhile. `docs/terminal-outcomes.md:59`
   excludes this; the user-mode worker keeps to it.

4. `hardware_overflow`: the kernel announces dropped perf records with the next
   record that fits the ring. When none follows before the event is disabled,
   there is no LOST record, and `_decode_records` looks for nothing else: `stop`
   returns a batch without the dropped records. The docstring of `PerfCapture`
   (`hardware.py:452-454`) and `docs/hardware-tracing.md:53-55` say that an
   overflow raises.

One limit of the code that no document denies: a training process that dies after
it has replaced a checkpoint leaves a `report.json` with the hash of the old one.

## Not modelled

- Byte layouts, 64-bit counter overflow checks, option parsing, logging, tensor
  arithmetic, statistics and device transfers: no property here depends on them.
- The start and stop markers of the plugin, which only switch recording, and
  continuous observation reduction, which uses the tables of `TransitionWindow`
  without windows.
- The legacy version 2 streams in the workers' reports.
- `_concatenate`'s refusal of rows with different numbers of lanes
  (`hardware_multimodal_experiment.py:372-374`): it ends the process before a model
  is fitted, as `Crash` may.
- The conversion of frames to arrays in the native decoder, which keeps nothing
  from one frame to the next.
- `collect_layout.py`, `learn_layout.py`, `learn_trace.py`,
  `benchmark_pipeline.py`, `observe_context.py`, `hardware_multimodal_capture.py`
  and `hardware_triage.py`: sequential scripts over a `Pool` or a capture whose
  behaviour is modelled. The guest programs are the environment of
  `KernelWorker`.

## Plan

1. A composition of `KernelWorker` with `Capture` that replaces the one-step
   drain of the former and the `WorldStop` and `WorldResume` of the latter.
2. Start and stop markers in `Capture`; `ReducedObservation` over
   `TransitionWindow`.
3. The safety properties of `KernelWorker` and `UserWorker` as theorems, for every
   size of the pipes and the socket.
