------------------------------ MODULE StdioEnv ------------------------------
(***************************************************************************)
(* The interactive clients StdioEnv and KernelEnv (stdio.py, kernel.py): a  *)
(* run per reset, observation iterators that outlive the run they belong    *)
(* to, one action per input request.  An iterator is known by its run: a    *)
(* second one of the same run exists only when the first has ended.         *)
(*                                                                         *)
(* The worker behind each connection is external: it says hello, sends      *)
(* rows and guest events, asks for input, exits, fails or falls silent.     *)
(***************************************************************************)
EXTENDS Integers, Sequences

CONSTANTS
  Action,      \* what a client may send
  MaxRun,      \* bound on the run counter at a reset
  MaxSteps     \* bound on the requests of one connection

None == "none"
NoExit == -1
NoResult == [action |-> None, steps |-> -1]

VARIABLES
  env,         \* the fields of the environment
  conns,       \* the connections opened so far, with their workers
  iter,        \* the iterator of each run
  busy,        \* the run whose iterator is inside next, or -1
  ret          \* how the client's last call ended: "item", "end" or "raise"

envVars == <<env, conns, iter, busy, ret>>

EnvInit ==
  /\ env = [closed |-> FALSE, run |-> 0, conn |-> 0, reading |-> FALSE, needsInput |-> FALSE,
            exit |-> NoExit, event |-> None, result |-> NoResult]
  /\ conns = <<>>
  /\ iter = <<>>
  /\ busy = -1
  /\ ret = "end"

\* A worker that accepts: what it got as input, and whether it was waiting.
NewWorker == [open |-> TRUE, phase |-> "starting", log |-> <<>>, early |-> FALSE]

\* _cancel_run on the fields.
Cancelled(e) ==
  [e EXCEPT !.run = @ + 1, !.conn = 0, !.reading = FALSE, !.needsInput = FALSE]

\* _cancel_run on the sockets.
Shut(e) == IF e.conn = 0 THEN conns ELSE [conns EXCEPT ![e.conn].open = FALSE, ![e.conn].phase = "gone"]

\* KernelEnv._clear_events; StdioEnv has no events.
ClearEvents(e) == [e EXCEPT !.event = None, !.result = NoResult]

Raises == ret' = "raise"

-----------------------------------------------------------------------------
(* The calls of the client. *)

\* reset cancels the old run before it tries to connect.
Reset ==
  /\ busy = -1
  /\ env.run < MaxRun
  /\ IF env.closed
     THEN Raises /\ UNCHANGED <<env, conns, iter, busy>>
     ELSE LET e == ClearEvents([Cancelled(env) EXCEPT !.exit = NoExit]) IN
          /\ \/ /\ env' = [e EXCEPT !.conn = Len(conns) + 1, !.reading = TRUE]
                /\ conns' = Append(Shut(env), NewWorker)
                /\ iter' = [r \in DOMAIN iter \cup {e.run} |->
                              IF r = e.run THEN "fresh" ELSE iter[r]]
                /\ ret' = "item"
             \/ env' = e /\ conns' = Shut(env) /\ Raises /\ UNCHANGED iter
          /\ UNCHANGED busy

\* A fault: a connection is taken for a request.
MayStepConnected == ~env.closed /\ env.conn # 0

MayStep == ~env.closed /\ ~env.reading /\ env.needsInput /\ env.conn # 0

\* The worker's side of an action.
Input(c, action) ==
  [conns EXCEPT ![c].log = Append(@, action), ![c].early = @ \/ conns[c].phase # "waiting",
                ![c].phase = "running"]

\* A call is refused before it has done anything.
Refused == busy = -1 /\ Raises /\ UNCHANGED <<env, conns, iter, busy>>

\* step answers the request, or cancels the run if the action cannot be sent; an
\* action of the wrong type, form or length is refused.
Step(action) ==
  /\ busy = -1
  /\ IF ~MayStep
     THEN Refused
     ELSE LET e == [ClearEvents(env) EXCEPT !.needsInput = FALSE] IN
          /\ \/ /\ env' = [e EXCEPT !.reading = TRUE]
                /\ conns' = Input(env.conn, action)
                /\ iter' = [iter EXCEPT ![env.run] = "resumed"]
                /\ ret' = "item"
             \/ env' = Cancelled(e) /\ conns' = Shut(env) /\ Raises /\ UNCHANGED iter
             \/ Refused
          /\ UNCHANGED busy

Close ==
  /\ busy = -1
  /\ ~env.closed
  /\ env' = [Cancelled(env) EXCEPT !.closed = TRUE]
  /\ conns' = Shut(env)
  /\ ret' = "end"
  /\ UNCHANGED <<iter, busy>>

-----------------------------------------------------------------------------
(* The iterator of run r: _read. *)

Live(r) == iter[r] \in {"fresh", "resumed", "paused", "first", "inside"}

\* next on an iterator of a cancelled run raises.
NextBegins(r) ==
  /\ busy = -1
  /\ iter[r] \in {"fresh", "resumed", "paused"}
  /\ IF r # env.run
     THEN /\ iter' = [iter EXCEPT ![r] = "over"]
          /\ Raises
          /\ UNCHANGED busy
     ELSE /\ iter' = [iter EXCEPT ![r] = IF @ = "fresh" THEN "first" ELSE "inside"]
          /\ busy' = r
          /\ UNCHANGED ret
  /\ UNCHANGED <<env, conns>>

\* A fault: an iterator cleans up whatever run is current.
FinallyAnyRun(r, e, boundary) == IF boundary THEN [e EXCEPT !.reading = FALSE] ELSE Cancelled(e)

\* The finally block: only the current run is touched, and it is cancelled
\* unless it stopped at a request.
Finally(r, e, boundary) ==
  IF r # e.run THEN e ELSE IF boundary THEN [e EXCEPT !.reading = FALSE] ELSE Cancelled(e)

\* The iterator ends with fields e.
Ends(r, e, boundary, how) ==
  /\ env' = Finally(r, e, boundary)
  /\ iter' = [iter EXCEPT ![r] = "over"]
  /\ busy' = -1
  /\ ret' = how

Goes(c, phase) == [conns EXCEPT ![c].phase = phase]

Hello(r) ==
  /\ busy = r /\ iter[r] = "first"
  /\ conns[env.conn].phase = "starting"
  /\ conns' = Goes(env.conn, "running")
  /\ iter' = [iter EXCEPT ![r] = "inside"]
  /\ UNCHANGED <<env, busy, ret>>

Running(r) == busy = r /\ iter[r] = "inside" /\ conns[env.conn].phase = "running"

\* A batch is yielded.
Rows(r) ==
  /\ Running(r)
  /\ iter' = [iter EXCEPT ![r] = "paused"]
  /\ busy' = -1
  /\ ret' = "item"
  /\ UNCHANGED <<env, conns>>

\* _guest_event: a result names the action it belongs to, as far as the guest
\* tells the truth; steps counts the actions before it.
GuestEvent(r) ==
  /\ Running(r)
  /\ \/ \E kind \in {"ready", "complete"} : env' = [env EXCEPT !.event = kind]
     \/ \E action \in Action :
          env' = [env EXCEPT !.event = "result",
                             !.result = [action |-> action, steps |-> Len(conns[env.conn].log)]]
  /\ UNCHANGED <<conns, iter, busy, ret>>

Request(r) ==
  /\ Running(r)
  /\ Len(conns[env.conn].log) < MaxSteps
  /\ conns' = Goes(env.conn, "waiting")
  /\ Ends(r, [env EXCEPT !.needsInput = TRUE], TRUE, "end")

Exit(r, code) ==
  /\ Running(r)
  /\ conns' = Shut(env)
  /\ Ends(r, [env EXCEPT !.exit = code], FALSE, "end")

\* An error frame, a frame the Stream refuses, a first frame that is no
\* matching hello, an invalid guest event, a timeout or a disconnection.
ReadFails(r) ==
  /\ busy = r
  /\ conns' = Shut(env)
  /\ Ends(r, env, FALSE, "raise")

\* The client drops the iterator.  One that never ran has no finally block.
Drop(r) ==
  /\ busy = -1
  /\ iter[r] \in {"fresh", "resumed", "paused"}
  /\ IF iter[r] = "paused"
     THEN /\ env' = Finally(r, env, FALSE)
          /\ conns' = IF r = env.run THEN Shut(env) ELSE conns
     ELSE UNCHANGED <<env, conns>>
  /\ iter' = [iter EXCEPT ![r] = "over"]
  /\ ret' = "end"
  /\ UNCHANGED busy

\* The frames a running iterator may receive.
Receives(r) ==
  Hello(r) \/ Rows(r) \/ GuestEvent(r) \/ Request(r) \/ ReadFails(r) \/ \E code \in {0, 1, 2} : Exit(r, code)

-----------------------------------------------------------------------------
\* An iterator of a cancelled run changes nothing: whatever it does when it is
\* resumed or dropped, the fields and the connection of the run that replaced it
\* stay as they are.
StaleIteratorHarmless ==
  [][\A r \in DOMAIN iter : iter'[r] # iter[r] /\ Live(r) /\ r < env.run => UNCHANGED <<env, conns>>]_envVars

\* The only open connection is the current run's: every cancelled, failed, exited
\* or abandoned run has given its connection back.  And what the fields say is so:
\* needs_input means that this connection's worker waits, and a result the client
\* can see was sent after its last action.  So a worker gets an action only while
\* it waits for one: each request is answered at most once, and never by a client
\* whose run has moved on.
FieldsTrue ==
  /\ \A c \in DOMAIN conns : conns[c].open => c = env.conn
  /\ \A c \in DOMAIN conns : ~conns[c].early
  /\ env.needsInput => /\ env.conn # 0 /\ ~env.reading /\ env.exit = NoExit
                       /\ conns[env.conn].phase = "waiting"
  /\ env.result # NoResult /\ env.conn # 0 => env.result.steps = Len(conns[env.conn].log)
=============================================================================
