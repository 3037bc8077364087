---------------------------- MODULE KernelWorker ----------------------------
(***************************************************************************)
(* The worker of a managed full-system guest (run_kernel of                *)
(* native/worker/kernel.cpp): one loop over the trace pipe, QMP, the       *)
(* guest's console and serial lines and the consumer.  It resumes the      *)
(* guest, stops it when the guest adapter is ready for an action, has the  *)
(* plugin drain, hands the request to the consumer, writes the action to   *)
(* the serial line and resumes.  QEMU, the guest adapter and the consumer  *)
(* are modelled from how this loop uses them; how the plugin drains is     *)
(* module Capture.                                                         *)
(***************************************************************************)
EXTENDS WorkerLink

CONSTANTS KernelOptions, \* the settings: interactive, budget (--max-run-ms)
          Lines,         \* the inputs of 2 to 127 printable bytes and a newline
          GuestPipe,     \* frames the trace pipe holds
          MaxRowFrames,  \* bound: frames of rows a guest produces
          MaxRounds      \* bound: actions a guest asks for

VARIABLES settings,  \* KernelOptions
          step,      \* where the loop is: poll, trace, send, action, qmp, serial, events, stop
          back,      \* the step that follows a send
          sending,   \* the frame being sent
          ready,     \* the channels the last poll found readable
          flags,     \* the loop's flags that are set
          command,   \* the QMP command that is pending
          lines,     \* serial lines read and not yet handled
          late,      \* has --max-run-ms passed?
          result,    \* how the run ended
          guest,     \* world, phase, buffered, rounds, got, status
          made,      \* every frame the plugin wrote
          chan,      \* what the channels hold: trace, qmp, serial, orders, replies, control
          learner    \* the link to the consumer

kvars == <<settings, step, back, sending, ready, flags, command, lines, late, result,
           guest, made, chan, learner>>

loopVars == <<step, back, sending, ready, flags, command, lines, result>>

Closed == [trace |-> <<>>, qmp |-> <<>>, serial |-> <<>>, orders |-> <<>>,
           replies |-> <<>>, control |-> 0]

KInit ==
  /\ settings \in KernelOptions /\ step = "poll" /\ back = "poll" /\ sending = "none"
  /\ ready = {} /\ flags = {} /\ command = "none" /\ lines = <<>>
  /\ late = FALSE /\ result = "running"
  /\ guest = [world |-> "paused", phase |-> "boot", buffered |-> FALSE, rounds |-> 0,
              got |-> <<>>, status |-> "none"]
  /\ made = <<"hello">>
  /\ chan = [Closed EXCEPT !.trace = made, !.qmp = <<[id |-> "greeting", ok |-> TRUE]>>]
  /\ learner = Connected

Going == result = "running"

Gone == guest.world = "exited"

\* The end of the run: ~Process kills and reaps QEMU, and the channels close.
Over(how) ==
  /\ result' = how
  /\ step' = "done" /\ back' = "done" /\ ready' = {} /\ lines' = <<>> /\ sending' = "none"
  /\ flags' = {} /\ command' = "none" /\ chan' = Closed
  /\ guest' = [guest EXCEPT !.world = "exited"]
  /\ UNCHANGED <<settings, late, made>>

OverSilently(how) == Over(how) /\ UNCHANGED learner

OverReporting == Over("failed") /\ learner' = Reported(learner)

Orders(name) ==
  /\ command' = name
  /\ chan' = [chan EXCEPT !.orders = Append(@, name)]

Finished == {"seal", "trace_eof", "console_eof", "serial_eof", "child_done"} \subseteq flags

AtEnd == [trace |-> "trace_eof", serial |-> "serial_eof", console |-> "console_eof"]

\* What poll finds readable: data, or the end of a channel not yet seen.
Readable ==
  {c \in {"trace", "qmp", "serial"} : chan[c] # <<>>}
    \cup {c \in {"trace", "serial", "console"} : Gone /\ AtEnd[c] \notin flags}

\* The top of the loop: the budget, the terminal frame, the poll.
PollDeadline == step = "poll" /\ late /\ OverReporting

PollFinished ==
  /\ step = "poll" /\ ~late /\ Finished
  /\ \/ /\ "guest_complete" \notin flags \/ guest.status # "exit0"
        /\ OverSilently("failed")
     \/ /\ "guest_complete" \in flags /\ guest.status = "exit0"
        /\ sending' = "complete" /\ step' = "send" /\ back' = "done"
        /\ UNCHANGED <<settings, ready, flags, command, lines, late, result,
                       guest, made, chan, learner>>

PollConsumer ==
  /\ step = "poll" /\ ~late /\ ~Finished
  /\ \/ ~learner.open /\ OverSilently("cancelled")
     \/ learner.open /\ learner.inbox # <<>> /\ OverSilently("failed")

\* No channel moved for timeout_ms, or a command or drain went unanswered.
PollTimesOut ==
  /\ step = "poll" /\ ~late /\ ~Finished
  /\ learner.open /\ learner.inbox = <<>>
  /\ Readable = {} \/ command # "none" \/ "draining" \in flags
  /\ OverSilently("failed")

AfterQmp(channels) == IF channels \cap {"serial", "console"} # {} THEN "serial" ELSE "stop"

AfterTrace(channels) == IF "qmp" \in channels THEN "qmp" ELSE AfterQmp(channels)

\* The channels are handled in a fixed order, those that poll found readable.
AfterPoll(channels) == IF "trace" \in channels THEN "trace" ELSE AfterTrace(channels)

Poll ==
  /\ step = "poll" /\ ~late /\ ~Finished
  /\ learner.open /\ learner.inbox = <<>>
  /\ ready' = Readable /\ step' = AfterPoll(Readable)
  /\ ready' # {} \/ (Gone /\ "child_done" \notin flags)
  /\ UNCHANGED <<settings, back, sending, flags, command, lines, late, result,
                 guest, made, chan, learner>>

-----------------------------------------------------------------------------
\* The trace pipe: its end, its seal, or a frame to forward.
TraceEnds ==
  /\ step = "trace" /\ "trace" \in ready /\ chan.trace = <<>>
  /\ \/ "seal" \notin flags /\ OverSilently("failed")
     \/ /\ "seal" \in flags /\ flags' = flags \cup {"trace_eof"} /\ step' = AfterTrace(ready)
        /\ UNCHANGED <<settings, back, sending, ready, command, lines, late, result,
                       guest, made, chan, learner>>

\* Is this frame one the loop may forward now?
Expected(kind) ==
  /\ "seal" \notin flags
  /\ kind = "request" => settings.interactive /\ "draining" \in flags

TraceFrame ==
  /\ step = "trace" /\ "trace" \in ready /\ chan.trace # <<>>
  /\ LET kind == Head(chan.trace) IN
     \/ ~Expected(kind) /\ OverSilently("unexpected")
     \/ /\ Expected(kind)
        /\ chan' = [chan EXCEPT !.trace = Tail(@)]
        /\ flags' = flags \cup {"hello"} \cup (IF kind = "complete" THEN {"seal"} ELSE {})
        /\ IF kind = "complete" THEN step' = AfterTrace(ready) /\ UNCHANGED <<sending, back>>
           ELSE /\ sending' = kind /\ step' = "send"
                /\ back' = IF kind = "request" THEN "action" ELSE AfterTrace(ready)
        /\ UNCHANGED <<settings, ready, command, lines, late, result, guest, made, learner>>

\* send_client: a deadline already past is reported before the frame.
SendLate == step = "send" /\ ~Partly(learner) /\ late /\ OverReporting

SendFramePart ==
  /\ step = "send" /\ Room(learner)
  /\ learner' = Put(learner, sending)
  /\ IF ~Partly(learner)
     THEN UNCHANGED <<settings, loopVars, late, guest, made, chan>>
     ELSE IF sending = "error" \/ back = "done"
     THEN Over(IF sending = "error" THEN "failed" ELSE "completed")
     ELSE /\ step' = back /\ sending' = "none"
          /\ UNCHANGED <<settings, back, ready, flags, command, lines, late, result,
                         guest, made, chan>>

FrameCut ==
  /\ step = "send" /\ ~learner.open
  /\ OverSilently(IF sending = "error" THEN "failed" ELSE "cancelled")

\* The socket stayed full for the time send_bytes was given, which ends with the
\* budget.  Then the deadline is reported, behind whatever part was sent; by
\* then the consumer may have made room.
SendExpires ==
  /\ step = "send" /\ ~Room(learner)
  /\ IF late
     THEN \E taken \in 0 .. Len(learner.wire) - learner.taken :
            /\ taken > 0 => learner.open
            /\ Over("failed")
            /\ learner' = Reported([learner EXCEPT !.taken = @ + taken])
     ELSE OverSilently("failed")

\* action: one line for the guest, then the drain is over and it is resumed.
TakeAction ==
  /\ step = "action" /\ learner.inbox # <<>> /\ Head(learner.inbox) \in Lines /\ ~Gone
  /\ guest' = [guest EXCEPT !.got = Append(@, Head(learner.inbox))]
  /\ learner' = [learner EXCEPT !.inbox = Tail(@)]
  /\ flags' = flags \ {"draining", "requested"}
  /\ Orders("cont") /\ step' = AfterTrace(ready)
  /\ UNCHANGED <<settings, back, sending, ready, lines, late, result, made>>

NoAction ==
  /\ step = "action"
  /\ \/ learner.inbox # <<>> /\ (Head(learner.inbox) \notin Lines \/ Gone)
        /\ OverSilently("failed")
     \/ learner.inbox = <<>> /\ OverSilently(IF learner.open THEN "failed" ELSE "cancelled")

-----------------------------------------------------------------------------
\* QMP: the command a message leads to, if any.
NextOrder(message) ==
  CASE message.id = "greeting" -> "capabilities"
    [] message.id = "capabilities" -> "cont"
    [] OTHER -> "none"

Answers(message) ==
  IF message.id = "greeting" THEN "greeting" \notin flags
  ELSE message.id = command /\ message.ok

\* A command QEMU can no longer receive, or that comes after the budget.
QmpFails ==
  /\ step = "qmp" /\ "qmp" \in ready
  /\ LET message == Head(chan.qmp) IN
     \/ ~Answers(message) /\ OverSilently(IF message.ok THEN "unexpected" ELSE "refused")
     \/ Answers(message) /\ NextOrder(message) # "none" /\ late /\ OverReporting
     \/ Answers(message) /\ NextOrder(message) # "none" /\ ~late /\ Gone /\ OverSilently("failed")
     \/ Answers(message) /\ message.id = "stop" /\ Gone /\ OverSilently("failed")

\* The answer to stop starts the plugin's drain; draining lasts until an action.
QmpMessage ==
  /\ step = "qmp" /\ "qmp" \in ready
  /\ LET message == Head(chan.qmp)
         next    == NextOrder(message)
     IN  /\ Answers(message) /\ (next # "none" => ~late)
         /\ next # "none" \/ message.id = "stop" => ~Gone
         /\ command' = next
         /\ chan' = [chan EXCEPT
              !.qmp = Tail(@),
              !.orders = IF next = "none" THEN @ ELSE Append(@, next),
              !.control = IF message.id = "stop" THEN @ + 1 ELSE @]
         /\ flags' = flags \cup (CASE message.id = "greeting" -> {"greeting"}
                                   [] message.id = "stop" -> {"draining"}
                                   [] OTHER -> {})
  /\ step' = AfterQmp(ready)
  /\ UNCHANGED <<settings, back, sending, ready, lines, late, result, guest, made, learner>>

-----------------------------------------------------------------------------
\* The console's end, and whatever the serial line holds.
ReadSerial ==
  /\ step = "serial"
  /\ lines' = IF "serial" \in ready THEN chan.serial ELSE <<>>
  /\ step' = IF lines' = <<>> THEN "stop" ELSE "events"
  /\ chan' = IF "serial" \in ready THEN [chan EXCEPT !.serial = <<>>] ELSE chan
  /\ flags' = flags
       \cup (IF "console" \in ready THEN {"console_eof"} ELSE {})
       \cup (IF "serial" \in ready /\ chan.serial = <<>> THEN {"serial_eof"} ELSE {})
  /\ UNCHANGED <<settings, back, sending, ready, command, late, result, guest, made, learner>>

\* The order of guest events the loop accepts.
MayFollow(line) ==
  /\ "hello" \in flags
  /\ CASE line = "start" -> "guest_started" \notin flags
       [] line = "ready" -> /\ settings.interactive /\ "guest_started" \in flags
                            /\ flags \cap {"requested", "guest_complete"} = {}
       [] line = "complete" ->
            /\ "guest_started" \in flags
            /\ flags \cap {"guest_complete", "requested", "draining"} = {}
       [] line = "result" -> "guest_started" \in flags /\ "guest_complete" \notin flags
       [] OTHER -> FALSE

Sets(line) ==
  CASE line = "start" -> {"guest_started"} [] line = "ready" -> {"requested"}
    [] line = "complete" -> {"guest_complete"} [] OTHER -> {}

GuestEvent ==
  /\ step = "events"
  /\ \/ ~MayFollow(Head(lines)) /\ OverSilently("guest")
     \/ /\ MayFollow(Head(lines))
        /\ flags' = flags \cup Sets(Head(lines)) /\ lines' = Tail(lines)
        /\ LET rest == IF lines' = <<>> THEN "stop" ELSE "events" IN
           IF settings.interactive
           THEN sending' = "event" /\ step' = "send" /\ back' = rest
           ELSE step' = rest /\ UNCHANGED <<sending, back>>
        /\ UNCHANGED <<settings, ready, command, late, result, guest, made, chan, learner>>

\* A fault: the stop does not wait for the answer to the resume.
MayStopAnyway == settings.interactive /\ "requested" \in flags /\ "draining" \notin flags

MayStop ==
  /\ settings.interactive /\ "requested" \in flags
  /\ command = "none" /\ "draining" \notin flags

\* The end of an iteration: the stop for a ready guest, and the reaping.
StopAndReap ==
  /\ step = "stop"
  /\ \/ MayStop /\ Gone /\ OverSilently("failed")
     \/ /\ ~(MayStop /\ Gone)
        /\ IF MayStop THEN Orders("stop") ELSE UNCHANGED <<command, chan>>
        /\ flags' = flags \cup (IF Gone THEN {"child_done"} ELSE {})
        /\ step' = "poll" /\ ready' = {}
        /\ UNCHANGED <<settings, back, sending, lines, late, result, guest, made, learner>>

LoopStep ==
  \/ PollDeadline \/ PollFinished \/ PollConsumer \/ PollTimesOut \/ Poll
  \/ TraceEnds \/ TraceFrame
  \/ SendLate \/ SendFramePart \/ FrameCut \/ SendExpires
  \/ TakeAction \/ NoAction
  \/ QmpFails \/ QmpMessage
  \/ ReadSerial \/ GuestEvent \/ StopAndReap

-----------------------------------------------------------------------------
(* QEMU with its plugin and the guest adapter, the consumer, the clock.     *)

outside == <<settings, loopVars, late>>

\* QEMU carries a command out, unless it refuses it, and then answers: a guest
\* that was resumed may run before the answer is sent.
QemuObeys ==
  /\ Going /\ ~Gone /\ chan.orders # <<>>
  /\ \E ok \in BOOLEAN :
       /\ chan' = [chan EXCEPT !.orders = Tail(@),
                               !.replies = Append(@, [id |-> Head(chan.orders), ok |-> ok])]
       /\ guest' = [guest EXCEPT !.world =
            CASE ok /\ Head(chan.orders) = "cont" -> "running"
              [] ok /\ Head(chan.orders) = "stop" -> "stopped"
              [] OTHER -> @]
  /\ UNCHANGED <<outside, made, learner>>

QemuAnswers ==
  /\ Going /\ ~Gone /\ chan.replies # <<>>
  /\ chan' = [chan EXCEPT !.replies = Tail(@), !.qmp = Append(@, Head(chan.replies))]
  /\ UNCHANGED <<outside, guest, made, learner>>

Produces(kind, g) ==
  /\ Len(chan.trace) < GuestPipe
  /\ chan' = [chan EXCEPT !.trace = Append(@, kind)]
  /\ made' = Append(made, kind)
  /\ guest' = g

\* A block runs: rows enter the plugin's buffers, and leave them in a frame.
GuestRuns ==
  /\ Going /\ guest.world = "running" /\ ~guest.buffered
  /\ Len(SelectSeq(made, LAMBDA k : k = "rows")) < MaxRowFrames
  /\ guest' = [guest EXCEPT !.buffered = TRUE]
  /\ UNCHANGED <<outside, made, chan, learner>>

PluginFlushes ==
  /\ Going /\ guest.buffered
  /\ guest.world = "running" \/ (guest.world = "stopped" /\ chan.control > 0)
  /\ Produces("rows", [guest EXCEPT !.buffered = FALSE])
  /\ UNCHANGED <<outside, learner>>

\* The drain: the buffers first, then its seal (module Capture).
PluginDrains ==
  /\ Going /\ guest.world = "stopped" /\ chan.control > 0 /\ ~guest.buffered
  /\ Len(chan.trace) < GuestPipe
  /\ chan' = [chan EXCEPT !.control = @ - 1, !.trace = Append(@, "request")]
  /\ made' = Append(made, "request")
  /\ UNCHANGED <<outside, guest, learner>>

\* The guest adapter: start, then rounds of ready, an action and a result, then
\* complete; or a line out of order at any time.
GuestSays ==
  /\ Going /\ guest.world = "running" /\ guest.phase # "finished"
  /\ \E line \in {"start", "ready", "result", "complete", "bad"} :
       /\ line = "start" => guest.phase = "boot"
       /\ line = "ready" => /\ settings.interactive /\ guest.phase = "started"
                            /\ guest.rounds < MaxRounds
       /\ line = "result" => guest.phase = "waiting" /\ Len(guest.got) = guest.rounds
       /\ line = "complete" => guest.phase = "started"
       /\ chan' = [chan EXCEPT !.serial = Append(@, line)]
       /\ guest' = [guest EXCEPT
            !.phase = CASE line \in {"start", "result"} -> "started"
                        [] line = "ready" -> "waiting" [] OTHER -> "finished",
            !.rounds = IF line = "ready" THEN @ + 1 ELSE @]
  /\ UNCHANGED <<outside, made, learner>>

\* QEMU powers off with a sealed trace, fails with an error frame, or dies.
QemuExits ==
  /\ Going /\ ~Gone
  /\ \E status \in {"exit0", "exit1"} :
       LET exited == [guest EXCEPT !.world = "exited", !.status = status] IN
       \/ guest.world = "running" /\ ~guest.buffered /\ Produces("complete", exited)
       \/ guest.world = "running" /\ status = "exit1" /\ Produces("error", exited)
       \/ status = "exit1" /\ guest' = exited /\ UNCHANGED <<made, chan>>
  /\ UNCHANGED <<outside, learner>>

\* What an input holds matters only to the step that reads it, so an unfit one
\* is sent then.
Learner ==
  /\ Going /\ UNCHANGED <<outside, guest, made, chan>>
  /\ \/ MayRead(learner) /\ learner' = Reads(learner)
     \/ MaySend(learner) /\ \E i \in (IF step = "action" THEN Inputs ELSE Lines) : learner' = Sends(learner, i)
     \/ learner.open /\ learner' = Closes(learner)

MaximumPasses ==
  /\ Going /\ settings.budget /\ ~late /\ late' = TRUE
  /\ UNCHANGED <<settings, loopVars, guest, made, chan, learner>>

RunOver == ~Going /\ UNCHANGED kvars

KNext ==
  \/ LoopStep
  \/ QemuObeys \/ QemuAnswers \/ GuestRuns \/ PluginFlushes \/ PluginDrains \/ GuestSays \/ QemuExits
  \/ Learner \/ MaximumPasses
  \/ RunOver

KSpec == KInit /\ [][KNext]_kvars

-----------------------------------------------------------------------------
Forwarded == SelectSeq(Frames(learner), LAMBDA k : k \notin {"event", "complete", "report"})

(* An action reaches the guest only at a true boundary: the guest asked for *)
(* it and stands stopped, the plugin holds no row back, and the consumer    *)
(* has been sent every frame made so far, the request last (run_kernel: "The*)
(* plugin's explicit drain, not STOP or pipe emptiness, establishes the     *)
(* captured frontier").  Every request is answered once, by the consumer's  *)
(* inputs in their order, and a run completes only with everything          *)
(* forwarded, the guest's own success and a clean exit.  A ready guest that *)
(* overtakes the answer to a resume confuses neither QMP nor the drain: a   *)
(* run ends that way only if QEMU refused a command.                        *)
KernelBoundary ==
  LET relayed == Forwarded IN
  /\ step = "action" =>
       /\ guest.world \in {"stopped", "exited"} /\ guest.phase = "waiting"
       /\ ~guest.buffered
       /\ Len(guest.got) = guest.rounds - 1
       /\ relayed = made /\ Last(made) = "request"
  /\ IsPrefix(guest.got, learner.sent) /\ IsPrefix(relayed, made)
  /\ result = "completed" =>
       /\ Append(relayed, "complete") = made
       /\ guest.status = "exit0" /\ guest.phase = "finished"
  /\ result # "unexpected"
  /\ "error" \in Range(relayed) => result \in {"running", "failed"}

(* "The worker sends a deadline report only when no target frame is partly  *)
(* forwarded" (docs/terminal-outcomes.md:59), said of the managed path too. *)
KernelReportAtBoundary == ReportAtBoundary(learner)
=============================================================================
