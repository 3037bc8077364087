----------------------------- MODULE UserWorker -----------------------------
(***************************************************************************)
(* The user-mode worker (native/worker/main.cpp): it serves a number of    *)
(* episodes, one consumer and one traced target each, and relays the       *)
(* target's frames.  With --stdio on the target stops itself before every  *)
(* read of its stdin (syscall_entry of native/qemu/plugin.cpp), and the    *)
(* worker answers the stop with one action of the consumer.  The frames    *)
(* themselves, and which of them Stream refuses, are module TraceStream.   *)
(***************************************************************************)
EXTENDS WorkerLink

CONSTANTS WorkerOptions, \* the settings a worker is started with
          Episodes,      \* --episodes
          Fits,          \* the inputs of a size from 1 to the request's limit
          TracePipe,     \* frames the trace pipe holds
          MaxWritten     \* bound: frames a target writes before its seal

VARIABLES options,   \* stdio, budget (--max-run-ms) and markers of this worker
          episode,   \* runs begun
          doing,     \* what the worker is waiting for, or how it exited
          carried,     \* the frame in its hands
          progress,  \* TerminalProgress: what the consumer has been sent
          expired,   \* has the run's budget passed?
          outcome,   \* RunOutcome of the last run
          target,    \* the traced process: state, status, holder, got
          stdin,     \* the actions in the target's input pipe
          trace,     \* the trace pipe
          traced,   \* every frame the target wrote in this run
          peer       \* the link to the consumer

wvars == <<options, episode, doing, carried, progress, expired, outcome,
           target, stdin, trace, traced, peer>>

runVars == <<options, episode>>

targetVars == <<target, stdin, trace, traced>>

NewTarget == [state |-> "running", status |-> "none", holder |-> FALSE, got |-> <<>>]

NoProgress == [hello |-> FALSE, data |-> FALSE, start |-> FALSE, stop |-> FALSE]

WInit ==
  /\ options \in WorkerOptions /\ episode = 0 /\ doing = "accept"
  /\ carried = "none" /\ progress = NoProgress /\ expired = FALSE /\ outcome = "none"
  /\ target = [NewTarget EXCEPT !.state = "reaped"]
  /\ stdin = <<>> /\ trace = <<>> /\ traced = <<>> /\ peer = Connected

InRun == doing \notin {"accept", "exit0", "exit1"}

\* The end of a run: ~Child kills the process group and reaps the target unless
\* waitpid already has, the descriptors close, and main serves the next episode
\* or, after a failure, exits.
Ended(result, process) ==
  /\ outcome' = result
  /\ doing' = IF result = "failed" THEN "exit1"
              ELSE IF episode = Episodes THEN "exit0" ELSE "accept"
  /\ target' = IF process.state = "reaped" THEN process
               ELSE [process EXCEPT !.state = "reaped", !.holder = FALSE]
  /\ carried' = "none"
  /\ UNCHANGED <<options, episode, progress, expired, stdin, trace, traced>>

Fails == Ended("failed", target) /\ UNCHANGED peer

\* stopped_transfer: a consumer may leave an interactive run, never an observation.
Stopped ==
  /\ Ended(IF options.stdio THEN "cancelled" ELSE "failed", target)
  /\ UNCHANGED peer

\* run up to its loop: the consumer is accepted, the budget starts and the
\* target is forked, or one of the preparations fails.
AcceptPeer ==
  /\ doing = "accept"
  /\ episode' = episode + 1
  /\ \/ doing' = "read" /\ outcome' = "running" /\ target' = NewTarget
     \/ doing' = "exit1" /\ outcome' = "failed" /\ target' = [NewTarget EXCEPT !.state = "reaped"]
  /\ peer' = Connected /\ stdin' = <<>> /\ trace' = <<>> /\ traced' = <<>>
  /\ progress' = NoProgress /\ expired' = FALSE
  /\ UNCHANGED <<options, carried>>

\* The budget is checked before a wait and after it; the worker is between
\* frames, so it reports the deadline.
DeadlineFails ==
  /\ doing \in {"read", "finish", "tail"} /\ expired
  /\ peer' = Reported(peer)
  /\ Ended("failed", target)

\* A fault: the send reports the deadline as well.
BudgetFailsReporting ==
  /\ doing = "send" /\ expired
  /\ peer' = Reported(peer)
  /\ Ended("failed", target)

\* send_exact gives up on the budget without a report: a frame may be half sent.
BudgetFails ==
  doing = "send" /\ expired /\ Fails

Exited == target.state = "exited"

\* Is the worker in a wait that looks at the connection?  Only wait_ready checks
\* the budget in between; waitpid was asked before, and may be out of date.
Polls ==
  /\ doing \in {"read", "waitstop", "action", "finish"}
  /\ doing = "read" => ~expired

\* POLLRDHUP in wait_ready, wait_stopped, receive_action and finish.
HangsUp == ~peer.open /\ Polls /\ Stopped

UnexpectedData ==
  /\ doing \in {"read", "finish"} /\ Polls
  /\ peer.open /\ peer.inbox # <<>>
  /\ Fails

PipeClosed == trace = <<>> /\ target.state \in {"exited", "reaped"} /\ ~target.holder

\* A fault: the wait for the stop has no timeout.
WaitTimesOutReading ==
  /\ doing # "waitstop" /\ Polls /\ peer.open
  /\ doing = "read" => peer.inbox = <<>> /\ trace = <<>> /\ ~PipeClosed
  /\ doing = "finish" => peer.inbox = <<>>
  /\ Fails

\* A wait of timeout_ms without what it waits for.
WaitTimesOut ==
  /\ Polls /\ peer.open
  /\ doing = "read" => peer.inbox = <<>> /\ trace = <<>> /\ ~PipeClosed
  /\ doing = "finish" => peer.inbox = <<>>
  /\ Fails

CaptureEnds ==
  /\ doing = "read" /\ Polls /\ peer.open /\ peer.inbox = <<>>
  /\ PipeClosed
  /\ Fails

AfterRead(kind) ==
  CASE kind = "request" -> "waitstop" [] kind = "complete" -> "finish" [] OTHER -> "send"

ReadFrame ==
  /\ doing = "read" /\ Polls /\ peer.open /\ peer.inbox = <<>>
  /\ trace # <<>>
  /\ carried' = Head(trace) /\ trace' = Tail(trace)
  /\ doing' = AfterRead(carried')
  /\ progress' = IF carried' = "complete" /\ options.markers
                 THEN [progress EXCEPT !.start = TRUE, !.stop = TRUE] ELSE progress
  /\ UNCHANGED <<runVars, expired, outcome, target, stdin, traced, peer>>

\* A fault: the request is announced whatever the pipe still holds.
TargetStoppedUnchecked ==
  /\ doing = "waitstop" /\ target.state = "stopped" /\ doing' = "send"
  /\ UNCHANGED <<runVars, carried, progress, expired, outcome, targetVars, peer>>

\* wait_stopped and the first require_empty_stdin.
TargetStopped ==
  /\ doing = "waitstop" /\ target.state = "stopped"
  /\ \/ stdin # <<>> /\ Fails
     \/ /\ stdin = <<>> /\ doing' = "send"
        /\ UNCHANGED <<runVars, carried, progress, expired, outcome, targetVars, peer>>

TargetDied ==
  /\ doing = "waitstop" /\ Exited
  /\ Ended("failed", [target EXCEPT !.state = "reaped"])
  /\ UNCHANGED peer

\* What follows a frame sent completely.
Sent ==
  CASE carried = "request" ->
         /\ doing' = "action"
         /\ UNCHANGED <<runVars, carried, progress, expired, outcome, targetVars>>
    [] carried \in {"exit", "killed"} -> Ended("completed", target)
    [] carried = "error" -> Ended("failed", target)
    [] OTHER ->
         /\ doing' = "read" /\ carried' = "none"
         /\ progress' = [progress EXCEPT
              !.hello = @ \/ carried = "hello",
              !.data = @ \/ carried \in {"rows", "layout"},
              !.start = @ \/ (options.markers /\ carried = "rows")]
         /\ UNCHANGED <<runVars, expired, outcome, targetVars>>

SendPart ==
  /\ doing = "send" /\ ~expired /\ Room(peer)
  /\ peer' = Put(peer, carried)
  /\ IF Partly(peer)
     THEN Sent
     ELSE UNCHANGED <<runVars, doing, carried, progress, expired, outcome, targetVars>>

\* EPIPE, or the hangup seen by the wait for room.  A capture failure remains one.
SendStops ==
  /\ doing = "send" /\ ~expired /\ ~peer.open
  /\ IF carried = "error" THEN Fails ELSE Stopped

\* No room: the wait times out, or finds data nobody asked for.
SendBlocked ==
  doing = "send" /\ ~expired /\ ~Room(peer) /\ peer.open /\ Fails

\* receive_action and resume: the input must fit and the pipe be empty still.
Deliverable(input) == input \in Fits /\ stdin = <<>>

ReceiveAction ==
  /\ doing = "action" /\ peer.open /\ peer.inbox # <<>>
  /\ LET input == Head(peer.inbox) IN
     \/ ~Deliverable(input) /\ Fails
     \/ /\ Deliverable(input)
        /\ stdin' = Append(stdin, input)
        /\ target' = [target EXCEPT !.state = IF @ = "stopped" THEN "reading" ELSE @]
        /\ peer' = [peer EXCEPT !.inbox = Tail(@)]
        /\ doing' = "read" /\ carried' = "none"
        /\ UNCHANGED <<runVars, progress, expired, outcome, trace, traced>>

\* finish: the target has exited after its seal.
Reap ==
  /\ doing = "finish" /\ ~expired /\ Exited
  /\ target' = [target EXCEPT !.state = "reaped"]
  /\ doing' = "tail"
  /\ UNCHANGED <<runVars, carried, progress, expired, outcome, stdin, trace, traced, peer>>

\* The pipe must be at its end; the exit status becomes the terminal frame.
CheckTail ==
  /\ doing = "tail" /\ ~expired
  /\ \/ ~PipeClosed /\ Fails
     \/ /\ PipeClosed /\ doing' = "send"
        /\ carried' = IF target.status = "exit" THEN "exit" ELSE "killed"
        /\ UNCHANGED <<runVars, progress, expired, outcome, targetVars, peer>>

WorkerStep ==
  \/ DeadlineFails \/ BudgetFails \/ HangsUp \/ UnexpectedData \/ WaitTimesOut
  \/ CaptureEnds \/ ReadFrame \/ TargetStopped \/ TargetDied \/ SendPart
  \/ SendStops \/ SendBlocked \/ ReceiveAction \/ Reap \/ CheckTail

-----------------------------------------------------------------------------
(* The target with its plugin, the consumer and the clock.                  *)

workerVars == <<options, episode, doing, carried, progress, expired, outcome>>

Writes(kind, state) ==
  /\ InRun /\ Len(trace) < TracePipe
  /\ trace' = Append(trace, kind) /\ traced' = Append(traced, kind)
  /\ target' = [target EXCEPT !.state = state]
  /\ UNCHANGED <<workerVars, stdin, peer>>

Running == target.state = "running"

TargetObserves ==
  /\ Running /\ Len(traced) < MaxWritten
  /\ IF traced = <<>> THEN Writes("hello", "running")
     ELSE \E kind \in {"rows", "layout"} : Writes(kind, "running")

\* The plugin publishes what it has, requests input, and then stops itself.
syscall_entry ==
  /\ Running /\ options.stdio /\ traced # <<>> /\ Len(traced) < MaxWritten
  /\ Writes("request", "asking")

TargetMoves(state, process) ==
  /\ target.state = state /\ target' = process
  /\ UNCHANGED <<workerVars, trace, traced, peer>>

StopsItself ==
  TargetMoves("asking", [target EXCEPT !.state = "stopped"]) /\ UNCHANGED stdin

\* The read takes what the pipe holds, or is interrupted and takes nothing.
TargetReads ==
  \/ /\ stdin # <<>> /\ stdin' = <<>>
     /\ TargetMoves("reading", [target EXCEPT !.state = "running", !.got = @ \o stdin])
  \/ /\ UNCHANGED stdin
     /\ TargetMoves("reading", [target EXCEPT !.state = "running"])

TargetSeals == Running /\ traced # <<>> /\ Writes("complete", "sealed")

TargetReportsError == Running /\ traced # <<>> /\ Writes("error", "failed")

\* The process ends by itself or is killed, and may leave a process behind that
\* holds the trace pipe.
TargetExits ==
  \E left \in BOOLEAN, status \in {"exit", "signal"} :
    /\ status = "exit" => target.state \in {"sealed", "failed"}
    /\ target.state \notin {"exited", "reaped"} /\ InRun
    /\ target' = [target EXCEPT !.state = "exited", !.status = status, !.holder = left]
    /\ UNCHANGED <<workerVars, stdin, trace, traced, peer>>

\* What an input holds matters only to receive_action, so an unfit one is sent
\* while that waits.
PeerActs ==
  /\ InRun /\ UNCHANGED <<workerVars, targetVars>>
  /\ \/ MayRead(peer) /\ peer' = Reads(peer)
     \/ MaySend(peer) /\ \E i \in (IF doing = "action" THEN Inputs ELSE Fits) : peer' = Sends(peer, i)
     \/ peer.open /\ peer' = Closes(peer)

BudgetPasses ==
  /\ InRun /\ options.budget /\ ~expired /\ expired' = TRUE
  /\ UNCHANGED <<runVars, doing, carried, progress, outcome, targetVars, peer>>

WNext ==
  \/ AcceptPeer \/ WorkerStep
  \/ TargetObserves \/ syscall_entry \/ StopsItself \/ TargetReads
  \/ TargetSeals \/ TargetReportsError \/ TargetExits
  \/ PeerActs \/ BudgetPasses

\* The worker is a running process whose waits all have a timeout; neither the
\* target nor the consumer is obliged to do anything.
WFairness == WF_wvars(WorkerStep)

WSpec == WInit /\ [][WNext]_wvars /\ WFairness

-----------------------------------------------------------------------------
Relayed == SelectSeq(Frames(peer), LAMBDA k : k \notin {"exit", "killed", "report"})

Has(kind) == kind \in Range(Frames(peer))

(* What a consumer sees of a run is true.  It gets the frames in the order  *)
(* the target wrote them, and an exit only after a target that sealed its   *)
(* trace, exited by itself and left no writer behind, with every frame      *)
(* before it.  A deadline report starts at a frame boundary and tells what  *)
(* was forwarded.  A capture failure is never a cancellation, and a run     *)
(* that is over left no target, a cancelled one no descendant either (run,  *)
(* finish, ~Child, stopped_transfer, main.cpp:670-673).                     *)
RelayTrue ==
  /\ IsPrefix(Relayed, traced)
  /\ Has("exit") \/ Has("killed") =>
       /\ Append(Relayed, "complete") = traced
       /\ target.state = "reaped" /\ ~target.holder
       /\ Has("exit") <=> target.status = "exit"
  /\ ReportAtBoundary(peer)
  /\ progress.hello <=> Has("hello")
  /\ progress.data <=> Has("rows") \/ Has("layout")
  /\ outcome = "cancelled" => ~target.holder /\ ~Has("error") /\ options.stdio
  /\ outcome = "completed" => Has("exit") \/ Has("killed")
  /\ ~InRun => target.state = "reaped"

(* An action is asked for only while the target stands stopped at its read  *)
(* with an empty pipe, answers one request only, and reaches the target     *)
(* exactly as sent and in order (wait_stopped, require_empty_stdin,         *)
(* receive_action; "The worker waits for WIFSTOPPED before exposing this    *)
(* boundary", plugin.cpp:906).                                              *)
ActionsAtBoundary ==
  /\ doing = "action" => target.state \in {"stopped", "exited"} /\ stdin = <<>>
  /\ IsPrefix(target.got \o stdin, peer.sent)
  /\ Len(target.got \o stdin) <= Len(SelectSeq(Frames(peer), LAMBDA k : k = "request"))

(* A run that began is over some day, whatever the target and the consumer  *)
(* leave undone: every wait of the worker has a timeout.                    *)
RunEnds == InRun ~> ~InRun
=============================================================================
