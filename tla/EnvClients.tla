----------------------------- MODULE EnvClients -----------------------------
(***************************************************************************)
(* The clients of an interactive environment: a free client that calls       *)
(* anything in any order, the Gymnasium wrapper (stdio.py, as_gym) with any  *)
(* reducer, and three programs written on top: learn_kernel.py through the   *)
(* wrapper, custom_kernel_actions.py and learn_stdio.py on the environment.  *)
(*                                                                         *)
(* A program is a reset followed by its actions; each call is drained and    *)
(* checked before the next one, and any exception leaves the with block.     *)
(***************************************************************************)
EXTENDS StdioEnv

CONSTANTS Workload, Quit    \* the actions of the kernel programs

ASSUME ClientAssumption == Workload \in Seq(Action) \ {<<>>} /\ Quit \in Action

Programs == {"free", "gym", "learn_kernel", "custom_kernel_actions", "learn_stdio"}

VARIABLES
  program,     \* which client this is
  pc,          \* where it is
  next,        \* the call it makes next: 0 is reset
  ended,       \* StdioGymEnv._ended
  checked      \* checked_results of learn_kernel, summaries of custom_kernel_actions

vars == <<envVars, program, pc, next, ended, checked>>

Init ==
  /\ EnvInit
  /\ program \in Programs
  /\ pc = "call"
  /\ next = 0
  /\ ended = TRUE
  /\ checked = <<>>

Gym == program \in {"gym", "learn_kernel"}

\* The actions of a program in order.
Script == IF program = "learn_stdio" THEN <<Workload[1]>> ELSE Append(Workload, Quit)

FreeClient ==
  /\ program = "free"
  /\ \/ Reset \/ Close
     \/ Step(Quit)
     \/ \E r \in DOMAIN iter : NextBegins(r) \/ Receives(r) \/ Drop(r)
  /\ UNCHANGED <<program, pc, next, ended, checked>>

-----------------------------------------------------------------------------
(* One call: made, drained by the reducer, checked. *)

\* The wrapper refuses to step an episode that has ended; of any client it also
\* refuses seeds, reset options, actions outside the space and what encode raises.
Call ==
  /\ pc = "call"
  /\ \/ IF next = 0 THEN Reset
        ELSE IF Gym /\ ended THEN Refused
        ELSE Step(Script[next])
     \/ program = "gym" /\ Refused
  /\ pc' = IF ret' = "raise" THEN "failed" ELSE "draining"
  /\ UNCHANGED <<program, next, ended, checked>>

\* The reducer asks for the next batch.
Drain ==
  /\ pc = "draining"
  /\ \/ ret = "item" /\ NextBegins(env.run)
     \/ \E r \in DOMAIN iter : Receives(r)
  /\ pc' = IF ret' = "raise" THEN "observed" ELSE pc
  /\ UNCHANGED <<program, next, ended, checked>>

\* The reducer returns at the end of the iterator, or raises an error of its own.
\* A reducer of the wrapper may return before, or close the iterator and return.
Reduced ==
  /\ pc = "draining" /\ busy = -1
  /\ \/ (ret = "end" \/ Gym) /\ UNCHANGED envVars
     \/ Raises /\ UNCHANGED <<env, conns, iter, busy>>
     \/ program = "gym" /\ env.run \in DOMAIN iter /\ Drop(env.run)
  /\ pc' = "observed"
  /\ UNCHANGED <<program, next, ended, checked>>

\* A reducer may also swallow the iterator's error and return.
Swallowed ==
  /\ pc = "observed" /\ program = "gym" /\ ret = "raise"
  /\ ret' = "end"
  /\ UNCHANGED <<env, conns, iter, busy, program, pc, next, ended, checked>>

\* A fault: the wrapper believes a reducer that stopped early.
ObservedTrusting ==
  /\ pc = "observed"
  /\ pc' = IF ret = "raise" THEN "failed" ELSE "checking"
  /\ UNCHANGED <<envVars, program, next, ended, checked>>

\* _observe: a reducer that raised, or left batches behind, costs the run.
Observed ==
  /\ pc = "observed"
  /\ IF ret = "raise" \/ env.reading
     THEN /\ pc' = "failed"
          /\ IF Gym
             THEN env' = Cancelled(env) /\ conns' = Shut(env) /\ UNCHANGED <<iter, busy, ret>>
             ELSE UNCHANGED envVars
     ELSE pc' = "checking" /\ UNCHANGED envVars
  /\ UNCHANGED <<program, next, ended, checked>>

VerifyResult(action) == env.result # NoResult /\ env.result.action = action

\* What each program demands of the call it has just drained.
Accepts ==
  CASE program = "gym" -> TRUE
    [] program = "learn_stdio" -> next = 0 \/ env.exit \in {0, 1}
    [] program = "custom_kernel_actions" ->
         IF next = Len(Script) THEN env.exit = 0 /\ env.event = "complete"
         ELSE env.event = "ready" /\ (next > 0 => VerifyResult(Script[next]))
    [] program = "learn_kernel" ->
         IF next = 0 THEN TRUE
         ELSE IF next = Len(Script) THEN env.exit = 0 /\ env.event = "complete"
         ELSE VerifyResult(Script[next]) /\ env.needsInput /\ env.exit = NoExit

\* The client's reward, its limits and its cue check may always refuse.
Refuse ==
  /\ pc = "checking"
  /\ Gym => next > 0
  /\ pc' = "failed"
  /\ IF Gym
     THEN env' = Cancelled(env) /\ conns' = Shut(env) /\ UNCHANGED <<iter, busy, ret>>
     ELSE UNCHANGED envVars
  /\ UNCHANGED <<program, next, ended, checked>>

\* An exited target ends the episode; a client's own rule may end it earlier
\* (truncated), which cancels the run.
Accept(truncated) ==
  /\ pc = "checking"
  /\ Accepts
  /\ truncated => program = "gym" /\ next > 0
  /\ ended' = (env.exit # NoExit \/ truncated)
  /\ IF Gym /\ next > 0 /\ ended'
     THEN env' = Cancelled(env) /\ conns' = Shut(env) /\ UNCHANGED <<iter, busy, ret>>
     ELSE UNCHANGED envVars
  /\ IF next = Len(Script) \/ (program = "gym" /\ ended')
     THEN pc' = "finished" /\ UNCHANGED next
     ELSE pc' = "call" /\ next' = next + 1
  /\ checked' = IF program \in {"learn_kernel", "custom_kernel_actions"} /\ next \in DOMAIN Workload
                THEN Append(checked, env.result) ELSE checked
  /\ UNCHANGED program

\* A gym client starts over whenever it likes, and may repeat a call that raised;
\* learn_stdio runs its next episode.
Again ==
  /\ env.run < MaxRun
  /\ \/ program = "learn_stdio" /\ pc = "finished" /\ next' = 0
     \/ program = "gym" /\ pc \in {"call", "finished"} /\ next' = 0
     \/ program = "gym" /\ pc = "failed" /\ next' \in {0, next}
  /\ pc' = "call"
  /\ UNCHANGED <<envVars, program, ended, checked>>

\* The with block is left.
Leave ==
  /\ pc \in {"failed", "finished"}
  /\ Close
  /\ pc' = IF pc = "failed" THEN "raised" ELSE "returned"
  /\ UNCHANGED <<program, next, ended, checked>>

Program ==
  /\ program # "free"
  /\ \/ Call \/ Drain \/ Reduced \/ Swallowed \/ Observed \/ Refuse \/ Again \/ Leave
     \/ \E truncated \in BOOLEAN : Accept(truncated)

Next == FreeClient \/ Program

Spec == Init /\ [][Next]_vars

-----------------------------------------------------------------------------
\* An observation reaches the client's reward only at a real boundary: the
\* target waits for input or has exited.  The wrapper cannot promise so much for a
\* reducer that closes the iterator or swallows its error; it then has no run any
\* more that a later step could continue, and never one that is still being read
\* (_observe).  After an exception the wrapper holds no connection, or the call was
\* refused and the target still waits at its request; after the end of an episode
\* it holds none.  A kernel program that returns has sent each action of its script
\* once, in order, to one worker; the results it reports are those of its actions,
\* each received after its own action and before the next.
EpisodeHonest ==
  /\ pc = "checking" =>
       /\ ~env.reading
       /\ IF program = "gym" THEN env.needsInput \/ env.conn = 0
          ELSE env.needsInput # (env.exit # NoExit)
  /\ Gym /\ pc = "failed" => env.conn = 0 \/ (env.needsInput /\ ~env.reading)
  /\ Gym /\ pc = "finished" => env.conn = 0
  /\ pc = "returned" /\ program \in {"learn_kernel", "custom_kernel_actions"} =>
       /\ conns[Len(conns)].log = Script
       /\ checked = [i \in DOMAIN Workload |-> [action |-> Workload[i], steps |-> i]]
=============================================================================
