--------------------------- MODULE HardwareCapture ---------------------------
(***************************************************************************)
(* One finite hardware capture on Linux: PerfCapture and                   *)
(* PerfMultimodalCapture (python/cpu2tensor/hardware.py), driven the way   *)
(* capture_execution, _run_target and _capture drive them around a gated   *)
(* target (python/cpu2tensor/examples).                                    *)
(*                                                                         *)
(* Every system call of the enter and stop paths may fail, and each step   *)
(* of those paths is an action of its own, because the target runs and the *)
(* kernel fills its rings meanwhile.  The kernel side of a perf event is   *)
(* external: it counts, appends records to a ring that nobody consumes     *)
(* during the capture, and drops what does not fit.  As in the kernel, a   *)
(* drop is announced by a LOST record in front of the next record that     *)
(* still fits.                                                             *)
(***************************************************************************)
EXTENDS Integers, Sequences, FiniteSets

CONSTANTS
    Tids,       \* the target's threads, in the order of their identifiers
    RingUnits,  \* room of a data ring, in record units
    AuxUnits,   \* room of a PT AUX buffer, in bytes
    MaxWork     \* units of work of each thread, a bound of the model

\* The fields of hardware.py's _MODALITIES, and one sampled PMU signal.
Signal == {"intel_pt", "memory_loads", "counters", "cycles"}
Thread == {Tids[i] : i \in DOMAIN Tids}
Slot == Thread \X Signal

VARIABLES
    kind,    \* the class in use: "perf" (PerfCapture) or "multimodal"
    signals, \* the configured signal, or the requested modalities
    event,   \* what the process holds of each event, and whether it is enabled
    kernel,  \* the kernel's side of each event
    capture, \* the capture object: _running, _stopped, envelope, counter reads
    driver,  \* the driver's and the capture's position
    target,  \* the gated target: "ready", "running", "exited", "killed"
    work     \* units of work each thread did after its release

perfVars == <<kind, signals, event, kernel, capture, driver, target, work>>

Nothing == [fds |-> 0, data |-> FALSE, aux |-> FALSE, on |-> FALSE, held |-> FALSE]
Idle == [records |-> <<>>, used |-> 0, lost |-> 0,
         aux |-> 0, count |-> 0, enabled |-> 0, running |-> 0]
NoRead == [count |-> -1, enabled |-> 0, running |-> 0]

\* HardwareConfig.__post_init__ and HardwareMultimodalConfig.__post_init__:
\* one signal for a single capture, distinct known modalities for the other.
Configured(k, sigs) ==
    \/ k = "perf" /\ \E s \in Signal \ {"counters"} : sigs = {s}
    \/ k = "multimodal" /\ sigs # {} /\ "cycles" \notin sigs

PerfInit ==
    /\ kind \in {"perf", "multimodal"}
    /\ signals \in SUBSET Signal
    /\ Configured(kind, signals)
    /\ event = [s \in Slot |-> Nothing]
    /\ kernel = [s \in Slot |-> Idle]
    /\ capture = [running |-> FALSE, stopped |-> FALSE,
                  start |-> [t \in Thread |-> NoRead],
                  final |-> [t \in Thread |-> NoRead],
                  armBefore |-> {}, armAfter |-> {}, stopBefore |-> {}, stopAfter |-> {}]
    /\ driver = [at |-> "ready", slot |-> 1, stage |-> 1, failed |-> FALSE]
    /\ target = "ready"
    /\ work = [t \in Thread |-> 0]

\* The events of this capture, in the order the loops visit them.
Visit(order) ==
    LET mine == SelectSeq(order, LAMBDA s : s \in signals)
        n == Len(mine)
    IN  [i \in 1..(n * Len(Tids)) |-> <<Tids[((i - 1) \div n) + 1], mine[((i - 1) % n) + 1]>>]

OpenOrder == Visit(<<"intel_pt", "memory_loads", "counters", "cycles">>)
StopOrder == Visit(<<"counters", "memory_loads", "intel_pt", "cycles">>)
Enabled == {s \in Slot : event[s].on}

\* The system calls that open one event, in order.  The three counters form
\* one group whose members are identified once all of them are open.
Stages(signal) ==
    CASE signal = "intel_pt" -> <<"fd", "data", "aux">>
      [] signal = "counters" -> <<"fd", "fd", "fd", "ids">>
      [] OTHER -> <<"fd", "data">>

\* A source of the multimodal capture belongs to it before its first event is
\* open; an event of PerfCapture belongs to it once everything is mapped.
Opened(e, signal, stage) ==
    LET held == kind = "multimodal" \/ stage = Len(Stages(signal))
    IN  CASE Stages(signal)[stage] = "fd"   -> [e EXCEPT !.fds = @ + 1, !.held = held]
          [] Stages(signal)[stage] = "data" -> [e EXCEPT !.data = TRUE, !.held = held]
          [] Stages(signal)[stage] = "aux"  -> [e EXCEPT !.aux = TRUE, !.held = held]
          [] OTHER -> e

\* close(): disable what is held, ignoring the kernel's answer, then unmap it
\* and close its descriptors.
Closed(events) == [s \in Slot |-> IF events[s].held THEN Nothing ELSE events[s]]

\* A fault: the descriptor of an event that could not be mapped is forgotten.
UnwoundMappingOnly(s) == [event EXCEPT ![s].data = FALSE]
\* The except clauses around the mappings of one event.
Unwound(s) ==
    IF kind = "perf" THEN [event EXCEPT ![s].data = FALSE, ![s].fds = 0]
    ELSE IF driver.stage = 3 /\ s[2] = "intel_pt" THEN [event EXCEPT ![s].data = FALSE]
    ELSE event

Goto(where) == [driver EXCEPT !.at = where, !.slot = 1, !.stage = 1]
PerfRaises(where) == [Goto(where) EXCEPT !.failed = TRUE]

\* __enter__ up to its loop: refused unless the object is new.
Enter ==
    /\ driver.at = "ready" /\ ~capture.running /\ ~capture.stopped
    /\ driver' = Goto("open")
    /\ UNCHANGED <<kind, signals, event, kernel, capture, target, work>>

\* One system call of _open_source, or of the opening loop of __enter__.
Open ==
    /\ driver.at = "open"
    /\ LET s == OpenOrder[driver.slot]
           last == driver.stage = Len(Stages(s[2]))
       IN  /\ event' = [event EXCEPT ![s] = Opened(@, s[2], driver.stage)]
           /\ IF last /\ driver.slot = Len(OpenOrder)
              THEN /\ driver' = Goto("arm")
                   /\ capture' = [capture EXCEPT !.armBefore = Enabled]
              ELSE /\ driver' = IF last THEN [driver EXCEPT !.slot = @ + 1, !.stage = 1]
                                    ELSE [driver EXCEPT !.stage = @ + 1]
                   /\ UNCHANGED capture
    /\ UNCHANGED <<kind, signals, kernel, target, work>>

\* That call fails: the local except clauses, then close(), then the raise.
OpenFails ==
    /\ driver.at = "open"
    /\ event' = Closed(Unwound(OpenOrder[driver.slot]))
    /\ capture' = [capture EXCEPT !.running = FALSE]
    /\ driver' = PerfRaises("left")
    /\ UNCHANGED <<kind, signals, kernel, target, work>>

\* RESET and ENABLE of the next event; arm_after is read after the last one.
Arm ==
    /\ driver.at = "arm"
    /\ LET s == OpenOrder[driver.slot]
           last == driver.slot = Len(OpenOrder)
       IN  /\ event' = [event EXCEPT ![s].on = TRUE]
           /\ kernel' = [kernel EXCEPT ![s].count = 0]
           /\ driver' = IF last THEN Goto("baseline") ELSE [driver EXCEPT !.slot = @ + 1]
           /\ capture' = IF last THEN [capture EXCEPT !.armAfter = Enabled \cup {s}]
                                 ELSE capture
    /\ UNCHANGED <<kind, signals, target, work>>

\* _read_counter_group: the count and both times of one group, read at once.
ReadGroup(t) ==
    LET k == kernel[<<t, "counters">>]
    IN  [count |-> k.count, enabled |-> k.enabled, running |-> k.running]

\* counter_start of every source, if counters are captured; then _running.
Baseline ==
    /\ driver.at = "baseline"
    /\ capture' = [capture EXCEPT
                     !.start = IF kind = "multimodal" /\ "counters" \in signals
                               THEN [t \in Thread |-> ReadGroup(t)] ELSE @,
                     !.running = TRUE]
    /\ driver' = Goto("armed")
    /\ UNCHANGED <<kind, signals, event, kernel, target, work>>

\* An ioctl or a baseline read fails: everything is closed again.
ArmFails ==
    /\ driver.at \in {"arm", "baseline"}
    /\ event' = Closed(event)
    /\ capture' = [capture EXCEPT !.running = FALSE]
    /\ driver' = PerfRaises("left")
    /\ UNCHANGED <<kind, signals, kernel, target, work>>

-----------------------------------------------------------------------------
(* The kernel (external): the events of a running thread. *)

Size(record) == IF record.kind = "sample" THEN 3 ELSE 1

\* Append a record, announcing earlier drops first; drop what does not fit.
Recorded(k, record) ==
    LET lost == IF k.lost > 0 THEN <<[kind |-> "lost", bad |-> FALSE]>> ELSE <<>>
        need == Size(record) + Len(lost)
    IN  IF k.used + need <= RingUnits
        THEN [k EXCEPT !.records = @ \o lost \o <<record>>, !.used = @ + need, !.lost = 0]
        ELSE [k EXCEPT !.lost = @ + 1]

\* What one unit of work leaves in the kernel's side of an enabled event.
Sampled(k, signal, record, shared) ==
    CASE signal = "counters" ->
            [k EXCEPT !.enabled = @ + 1, !.running = IF shared THEN @ ELSE @ + 1,
                      !.count = IF shared THEN @ ELSE @ + 1]
      [] signal = "intel_pt" ->
            IF k.aux < AuxUnits
            THEN Recorded([k EXCEPT !.aux = @ + 1], [kind |-> "aux", bad |-> FALSE])
            ELSE Recorded(k, [kind |-> "aux", bad |-> TRUE])
      [] OTHER ->
            IF shared THEN [k EXCEPT !.enabled = @ + 1]
            ELSE [Recorded(k, record) EXCEPT !.enabled = @ + 1, !.running = @ + 1]

\* A thread works; its group may be scheduled out while it does.
Work ==
    /\ target = "running"
    /\ \E t \in Thread, kindOf \in {"sample", "other"},
          shared \in SUBSET {"counters", "memory_loads"} :
        /\ work[t] < MaxWork[t]
        /\ work' = [work EXCEPT ![t] = @ + 1]
        /\ kernel' = [s \in Slot |->
              IF s[1] = t /\ event[s].on
              THEN Sampled(kernel[s], s[2], [kind |-> kindOf, bad |-> FALSE], s[2] \in shared)
              ELSE kernel[s]]
    /\ UNCHANGED <<kind, signals, event, capture, driver, target>>

TargetExits ==
    /\ target = "running"
    /\ target' = "exited"
    /\ UNCHANGED <<kind, signals, event, kernel, capture, driver, work>>

-----------------------------------------------------------------------------
(* The driver's with block. *)

\* process.communicate(b"x", timeout): the byte releases the target.
Release ==
    /\ driver.at = "armed" /\ target = "ready"
    /\ target' = "running"
    /\ UNCHANGED <<kind, signals, event, kernel, capture, driver, work>>

\* The with block raises instead of stopping: communicate timed out, or the
\* target's affinity is wrong.
BodyRaises ==
    /\ driver.at = "armed" /\ target \in {"ready", "running"}
    /\ driver' = PerfRaises("exit")
    /\ UNCHANGED <<kind, signals, event, kernel, capture, target, work>>

\* stop() after the target's exit, up to its first system call.
Stop ==
    /\ driver.at = "armed" /\ target = "exited"
    /\ capture.running /\ ~capture.stopped
    /\ capture' = [capture EXCEPT !.stopped = TRUE, !.stopBefore = Enabled]
    /\ driver' = Goto(IF kind = "multimodal" /\ "counters" \in signals THEN "final" ELSE "disable")
    /\ UNCHANGED <<kind, signals, event, kernel, target, work>>

\* The final counter reads; a read that fails is raised after the finally.
FinalReads ==
    /\ driver.at = "final"
    /\ \/ /\ capture' = [capture EXCEPT !.final = [t \in Thread |-> ReadGroup(t)]]
          /\ driver' = Goto("disable")
       \/ /\ driver' = PerfRaises("disable")
          /\ UNCHANGED capture
    /\ UNCHANGED <<kind, signals, event, kernel, target, work>>

\* _read_sampled_event: the precise event ran all the time it was enabled.
RanThroughout(k) == k.enabled > 0 /\ k.running = k.enabled

\* DISABLE of the next event, and the times of a multimodal PEBS event.  The
\* last one ends the finally: _running, stop_after, or the pending error.
Disable ==
    /\ driver.at = "disable"
    /\ LET s == StopOrder[driver.slot]
           last == driver.slot = Len(StopOrder)
           refused == kind = "multimodal" /\ s[2] = "memory_loads" /\ ~RanThroughout(kernel[s])
       IN  /\ event' = [event EXCEPT ![s].on = FALSE]
           /\ driver' = IF refused THEN PerfRaises("exit")
                    ELSE IF last THEN Goto(IF driver.failed THEN "exit" ELSE "read")
                    ELSE [driver EXCEPT !.slot = @ + 1]
           /\ capture' = IF last /\ ~refused
                         THEN [capture EXCEPT !.running = FALSE, !.stopAfter = Enabled \ {s}]
                         ELSE capture
    /\ UNCHANGED <<kind, signals, kernel, target, work>>

\* An ioctl or a status read fails: the events after it stay enabled.
DisableFails ==
    /\ driver.at = "disable"
    /\ driver' = PerfRaises("exit")
    /\ UNCHANGED <<kind, signals, event, kernel, capture, target, work>>

\* _ring_bytes: the tail stays 0, so the head is what the kernel wrote.
RingBytes(k) == IF k.used > RingUnits THEN "lost" ELSE "read"

\* _decode_records accepts: no LOST record, no damaged AUX record, samples
\* only where samples belong, and AUX records that cover the PT bytes.
DecodeRecords(k, signal) ==
    LET auxes == {i \in DOMAIN k.records : k.records[i].kind = "aux"}
    IN  /\ \A i \in DOMAIN k.records :
              /\ k.records[i].kind # "lost" /\ ~k.records[i].bad
              /\ k.records[i].kind = "aux" => signal = "intel_pt"
              /\ k.records[i].kind = "sample" => signal # "intel_pt"
        /\ signal = "intel_pt" => Cardinality(auxes) = k.aux

\* A fault: a group that was scheduled out is scaled instead of refused.
CounterBatchScaled(t) == capture.final[t].enabled > capture.start[t].enabled
\* _counter_batch accepts: a baseline, nothing moved backwards, the group ran,
\* and it ran all the time.
CounterBatch(t) ==
    LET start == capture.start[t]
        final == capture.final[t]
    IN  /\ start # NoRead
        /\ final.enabled > start.enabled /\ final.count >= start.count
        /\ final.running - start.running = final.enabled - start.enabled

\* The batches of every source: all of them are accepted, or stop() raises.
ReadBatches ==
    /\ driver.at = "read"
    /\ LET accepted == \A i \in DOMAIN OpenOrder :
                          LET s == OpenOrder[i]
                          IN  IF s[2] = "counters" THEN CounterBatch(s[1])
                              ELSE RingBytes(kernel[s]) = "read" /\ DecodeRecords(kernel[s], s[2])
       IN  driver' = IF accepted THEN Goto("returned") ELSE PerfRaises("exit")
    /\ UNCHANGED <<kind, signals, event, kernel, capture, target, work>>

\* __exit__, after which the driver has its batches or kills and reaps the
\* target.
PerfExit ==
    /\ driver.at \in {"returned", "exit"}
    /\ event' = Closed(event)
    /\ capture' = [capture EXCEPT !.running = FALSE]
    /\ driver' = [driver EXCEPT !.at = "left"]
    /\ UNCHANGED <<kind, signals, kernel, target, work>>

\* The driver's except clause: process.kill() and the communicate that reaps.
Kill ==
    /\ driver.at = "left" /\ driver.failed /\ target \in {"ready", "running"}
    /\ target' = "killed"
    /\ UNCHANGED <<kind, signals, event, kernel, capture, driver, work>>

PerfNext ==
    \/ Enter \/ Open \/ OpenFails \/ Arm \/ ArmFails \/ Baseline
    \/ Work \/ TargetExits \/ Release \/ BodyRaises
    \/ Stop \/ FinalReads \/ Disable \/ DisableFails \/ ReadBatches \/ PerfExit \/ Kill

PerfSpec == PerfInit /\ [][PerfNext]_perfVars

-----------------------------------------------------------------------------
Returned == driver.at = "returned"
Mine == {OpenOrder[i] : i \in DOMAIN OpenOrder}

\* Whichever call fails, once the with block is left no descriptor, mapping or
\* enabled event remains, and a capture that has batches has a dead target
\* (PerfCapture.__enter__ and close, PerfMultimodalCapture._open_source).
NothingLeaks ==
    driver.at = "left" =>
        /\ \A s \in Slot : event[s] = Nothing
        /\ ~driver.failed => target = "exited"

\* Batches are what they claim to be.  Their envelope is true: nothing was
\* enabled before arm_before or after stop_after, everything was between
\* arm_after and stop_before (HardwareCaptureEnvelope).  A multimodal batch
\* accounts for all of the target's work, from its release on: the counter
\* deltas and the PT bytes ("over the complete armed target interval"), and a
\* PEBS event that ran all the time, whatever was scheduled out or truncated.
\* The PT bytes are all of them unless the kernel dropped a record without being
\* able to say so: that a batch may be returned then is OverflowRaises' matter.
BatchesTrue ==
    Returned =>
        /\ capture.armBefore = {} /\ capture.stopAfter = {}
        /\ kind = "multimodal" =>
             /\ capture.armAfter = Mine /\ capture.stopBefore = Mine
             /\ \A t \in Thread :
                  /\ "counters" \in signals =>
                       capture.final[t].count - capture.start[t].count = work[t]
                  /\ "intel_pt" \in signals /\ kernel[<<t, "intel_pt">>].lost = 0 =>
                       kernel[<<t, "intel_pt">>].aux = work[t]
                  /\ "memory_loads" \in signals =>
                       kernel[<<t, "memory_loads">>].running = work[t]

\* A ring that overflowed raises: stop() returns no batch of a source whose ring
\* dropped a record ("overflow or a PT gap raises instead of returning a complete
\* looking batch", PerfCapture).  It does not hold: the kernel announces a drop
\* with the next record that fits, a capture that ends before one has no LOST
\* record, and _decode_records looks for nothing else.
OverflowRaises == Returned => \A s \in Mine : kernel[s].lost = 0
=============================================================================
