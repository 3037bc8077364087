--------------------------- MODULE StdioEnvProofs ---------------------------
(***************************************************************************)
(* The interactive environment is correct for every set of actions, every   *)
(* number of runs and requests, and every client of EnvClients.             *)
(***************************************************************************)
EXTENDS EnvClients, TLAPS

\* A step is a matter of logic, unless it cites SMT for arithmetic or sequences.
USE ZenonT(30)

\* The values of the variables.
Result == [action : Action \cup {None}, steps : Int]

Fields ==
  [closed : BOOLEAN, run : Nat, conn : Nat, reading : BOOLEAN, needsInput : BOOLEAN,
   exit : Int, event : {None, "ready", "complete", "result"}, result : Result]

Phases == {"starting", "running", "waiting", "gone"}
Connection == [open : BOOLEAN, phase : Phases, log : Seq(Action), early : BOOLEAN]

Places == {"fresh", "resumed", "paused", "first", "inside", "over"}

\* The environment and its connections have their types.
TypeOK ==
  /\ env \in Fields
  /\ conns \in Seq(Connection)
  /\ env.conn \in 0 .. Len(conns)
  /\ iter \in [DOMAIN iter -> Places]
  /\ DOMAIN iter \subseteq 1 .. env.run
  /\ busy \in Int
  /\ ret \in {"item", "end", "raise"}

\* The current run has a connection as long as its iterator may be advanced, and
\* no exit code before it has given it back; the iterator inside next is the
\* current run's.
RunInv ==
  /\ env.run \in DOMAIN iter /\ iter[env.run] # "over" => env.conn # 0 /\ env.reading
  /\ env.conn # 0 => env.run \in DOMAIN iter /\ env.exit = NoExit
  /\ busy # -1 => busy = env.run /\ busy \in DOMAIN iter /\ iter[busy] # "over"

\* What every step of the environment keeps.
EnvInv == TypeOK /\ RunInv /\ FieldsTrue

\* A client other than the free one is inside next only while it drains, and has a
\* run when it asks for a batch.
ClientInv ==
  /\ program \in Programs
  /\ next \in 0 .. Len(Script)
  /\ program # "free" =>
       /\ pc # "draining" => busy = -1
       /\ pc = "draining" => ret # "raise"
       /\ pc = "draining" /\ ret = "item" => env.conn # 0

\* The inductive invariant.
IInv == EnvInv /\ ClientInv
-----------------------------------------------------------------------------
(* Facts about the fields and the connections. *)

\* _cancel_run forgets the connection and counts the run.
LEMMA CancelledFact ==
  ASSUME NEW e \in Fields
  PROVE  /\ Cancelled(e) \in Fields
         /\ Cancelled(e).run = e.run + 1 /\ Cancelled(e).conn = 0
         /\ ~ Cancelled(e).reading /\ ~ Cancelled(e).needsInput
<1>1. e.run + 1 \in Nat
  BY SMT DEF Fields
<1>2. \A n \in Nat : [e EXCEPT !.run = n, !.conn = 0, !.reading = FALSE,
                              !.needsInput = FALSE] \in Fields
  BY DEF Fields
<1>3. Cancelled(e) \in Fields
  BY <1>1, <1>2 DEF Cancelled
<1>4. Cancelled(e).run = e.run + 1 /\ Cancelled(e).conn = 0
  BY DEF Cancelled, Fields
<1>5. ~ Cancelled(e).reading /\ ~ Cancelled(e).needsInput
  BY DEF Cancelled, Fields
<1> QED
  BY <1>3, <1>4, <1>5

\* Nothing but the event and the result is cleared.
LEMMA ClearFact ==
  ASSUME NEW e \in Fields
  PROVE  /\ ClearEvents(e) \in Fields
         /\ ClearEvents(e).result = NoResult
         /\ ClearEvents(e).run = e.run /\ ClearEvents(e).conn = e.conn
         /\ ClearEvents(e).reading = e.reading /\ ClearEvents(e).needsInput = e.needsInput
         /\ ClearEvents(e).exit = e.exit
<1>1. NoResult \in Result
  BY SMT DEF NoResult, Result
<1> QED
  BY <1>1 DEF ClearEvents, Fields

\* A connection may be replaced by any other.
LEMMA ReplaceFact ==
  ASSUME NEW s \in Seq(Connection), NEW i \in 1 .. Len(s), NEW v \in Connection
  PROVE  /\ [s EXCEPT ![i] = v] \in Seq(Connection)
         /\ Len([s EXCEPT ![i] = v]) = Len(s)
         /\ \A j \in 1 .. Len(s) : [s EXCEPT ![i] = v][j] = IF j = i THEN v ELSE s[j]
BY SMT

\* After _cancel_run no connection is open.
LEMMA ShutFact ==
  ASSUME EnvInv
  PROVE  /\ Shut(env) \in Seq(Connection)
         /\ Len(Shut(env)) = Len(conns)
         /\ \A c \in 1 .. Len(conns) : ~ Shut(env)[c].open /\ ~ Shut(env)[c].early
<1>1. /\ env.conn \in 0 .. Len(conns) /\ conns \in Seq(Connection)
      /\ \A c \in 1 .. Len(conns) : conns[c] \in Connection /\ ~ conns[c].early
      /\ \A c \in 1 .. Len(conns) : conns[c].open => c = env.conn
  BY SMT DEF EnvInv, TypeOK, FieldsTrue
<1>2. CASE env.conn = 0
  BY <1>1, <1>2, SMT DEF Shut
<1>3. CASE env.conn # 0
  <2> DEFINE v == [conns[env.conn] EXCEPT !.open = FALSE, !.phase = "gone"]
  <2>1. env.conn \in 1 .. Len(conns)
    BY <1>1, <1>3, SMT
  <2>2. v \in Connection /\ ~ v.open /\ ~ v.early
    BY <1>1, <2>1 DEF Connection, Phases
  <2>3. Shut(env) = [conns EXCEPT ![env.conn] = v]
    BY <1>1, <1>3, <2>1 DEF Shut
  <2> HIDE DEF v
  <2> QED
    BY <1>1, <2>1, <2>2, <2>3, ReplaceFact, SMT
<1> QED
  BY <1>2, <1>3

\* A worker goes to another phase.
LEMMA GoesFact ==
  ASSUME NEW c \in 1 .. Len(conns), NEW p \in Phases, conns \in Seq(Connection)
  PROVE  /\ Goes(c, p) \in Seq(Connection)
         /\ Len(Goes(c, p)) = Len(conns)
         /\ Goes(c, p)[c].phase = p
         /\ \A d \in 1 .. Len(conns) : /\ Goes(c, p)[d].open = conns[d].open
                                       /\ Goes(c, p)[d].early = conns[d].early
                                       /\ Goes(c, p)[d].log = conns[d].log
<1> DEFINE v == [conns[c] EXCEPT !.phase = p]
<1>1. conns[c] \in Connection
  BY SMT
<1>2. /\ v \in Connection /\ v.phase = p /\ v.open = conns[c].open
      /\ v.early = conns[c].early /\ v.log = conns[c].log
  BY <1>1 DEF Connection
<1>3. Goes(c, p) = [conns EXCEPT ![c] = v]
  BY DEF Goes
<1> HIDE DEF v
<1> QED
  BY <1>2, <1>3, ReplaceFact, SMT

\* An action reaches a worker early exactly if the worker is not waiting.
LEMMA InputFact ==
  ASSUME NEW c \in 1 .. Len(conns), NEW a \in Action, conns \in Seq(Connection),
         conns[c].phase = "waiting"
  PROVE  /\ Input(c, a) \in Seq(Connection)
         /\ Len(Input(c, a)) = Len(conns)
         /\ \A d \in 1 .. Len(conns) : /\ Input(c, a)[d].open = conns[d].open
                                       /\ Input(c, a)[d].early = conns[d].early
<1> DEFINE v == [conns[c] EXCEPT !.log = Append(@, a), !.early = @ \/ conns[c].phase # "waiting",
                                 !.phase = "running"]
<1>1. conns[c] \in Connection
  BY SMT
<1>2. Append(conns[c].log, a) \in Seq(Action)
  BY <1>1, SMT DEF Connection
<1>3. v \in Connection /\ v.open = conns[c].open /\ v.early = conns[c].early
  BY <1>1, <1>2 DEF Connection, Phases
<1>4. Input(c, a) = [conns EXCEPT ![c] = v]
  BY DEF Input
<1> HIDE DEF v
<1> QED
  BY <1>3, <1>4, ReplaceFact, SMT
-----------------------------------------------------------------------------
(* The steps of the environment. *)

\* A step that leaves the environment alone.
LEMMA EnvKept ==
  ASSUME EnvInv, UNCHANGED <<env, conns, iter, busy>>, ret' \in {"item", "end", "raise"}
  PROVE  EnvInv'
BY DEF EnvInv, TypeOK, RunInv, FieldsTrue

\* _cancel_run between two calls of the client.
LEMMA CancelStep ==
  ASSUME EnvInv, busy = -1, UNCHANGED busy, ret' \in {"item", "end", "raise"},
         NEW e \in Fields, e.run = env.run, env' = Cancelled(e), conns' = Shut(env),
         DOMAIN iter' = DOMAIN iter, iter' \in [DOMAIN iter -> Places]
  PROVE  EnvInv'
<1>1. /\ env' \in Fields /\ env'.run = env.run + 1 /\ env'.conn = 0
      /\ ~ env'.reading /\ ~ env'.needsInput
  BY CancelledFact
<1>2. /\ conns' \in Seq(Connection) /\ Len(conns') = Len(conns) /\ Len(conns) \in Nat
      /\ \A c \in 1 .. Len(conns') : ~ conns'[c].open /\ ~ conns'[c].early
  BY ShutFact, SMT DEF EnvInv, TypeOK
<1>3. env.run \in Nat /\ DOMAIN iter \subseteq 1 .. env.run
  BY DEF EnvInv, TypeOK, Fields
<1>4. TypeOK'
  <2>1. DOMAIN iter' \subseteq 1 .. env'.run
    BY <1>1, <1>3, SMT
  <2> QED
    BY <1>1, <1>2, <2>1, SMT DEF EnvInv, TypeOK
<1>5. RunInv'
  BY <1>1, <1>3, SMT DEF RunInv
<1>6. FieldsTrue'
  BY <1>1, <1>2, SMT DEF FieldsTrue
<1> QED
  BY <1>4, <1>5, <1>6 DEF EnvInv

\* close keeps the invariant: it cancels the run once and stays closed.
LEMMA CloseStep ==
  ASSUME EnvInv, Close
  PROVE  EnvInv' /\ busy' = -1
<1>1. env \in Fields
  BY DEF EnvInv, TypeOK
<1> DEFINE e == [env EXCEPT !.closed = TRUE]
<1>2. e \in Fields /\ e.run = env.run
  BY <1>1 DEF Fields
<1>3. env' = Cancelled(e)
  BY <1>1 DEF Close, Cancelled, Fields
<1>4. iter' \in [DOMAIN iter -> Places] /\ DOMAIN iter' = DOMAIN iter /\ ret' = "end"
      /\ busy = -1 /\ busy' = busy /\ conns' = Shut(env)
  BY DEF Close, EnvInv, TypeOK
<1> HIDE DEF e
<1> QED
  BY <1>2, <1>3, <1>4, CancelStep

\* reset keeps it: the run before is cancelled before the new one has a connection.
LEMMA ResetStep ==
  ASSUME EnvInv, Reset
  PROVE  /\ EnvInv' /\ busy' = -1
         /\ ret' \in {"item", "raise"}
         /\ ret' = "item" => env'.conn # 0
<1>1. CASE env.closed
  BY <1>1 DEF Reset, Raises, EnvInv, TypeOK, RunInv, FieldsTrue
<1>2. CASE ~ env.closed
  <2> DEFINE x == [Cancelled(env) EXCEPT !.exit = NoExit]
             e == ClearEvents(x)
             k == Len(conns) + 1
  <2>1. env \in Fields /\ env.run \in Nat /\ DOMAIN iter \subseteq 1 .. env.run
        /\ iter \in [DOMAIN iter -> Places]
    BY DEF EnvInv, TypeOK, Fields
  <2>2. x \in Fields /\ x.run = env.run + 1 /\ x.conn = 0 /\ ~ x.reading /\ ~ x.needsInput
        /\ x.exit = NoExit
    BY <2>1, CancelledFact, SMT DEF Fields, NoExit
  <2> HIDE DEF x
  <2>3. e \in Fields /\ e.run = env.run + 1 /\ e.conn = 0 /\ ~ e.reading /\ ~ e.needsInput
        /\ e.exit = NoExit /\ e.result = NoResult
    BY <2>2, ClearFact
  <2>4. /\ Shut(env) \in Seq(Connection) /\ Len(Shut(env)) = Len(conns) /\ Len(conns) \in Nat
        /\ \A c \in 1 .. Len(conns) : ~ Shut(env)[c].open /\ ~ Shut(env)[c].early
    BY ShutFact, SMT DEF EnvInv, TypeOK
  <2>5. /\ \/ /\ env' = [e EXCEPT !.conn = k, !.reading = TRUE]
              /\ conns' = Append(Shut(env), NewWorker)
              /\ iter' = [r \in DOMAIN iter \cup {e.run} |-> IF r = e.run THEN "fresh" ELSE iter[r]]
              /\ ret' = "item"
           \/ env' = e /\ conns' = Shut(env) /\ ret' = "raise" /\ UNCHANGED iter
        /\ busy = -1 /\ busy' = -1
    BY <1>2 DEF Reset, Raises, x
  <2> HIDE DEF e
  <2>6. CASE /\ env' = [e EXCEPT !.conn = k, !.reading = TRUE]
             /\ conns' = Append(Shut(env), NewWorker)
             /\ iter' = [r \in DOMAIN iter \cup {e.run} |-> IF r = e.run THEN "fresh" ELSE iter[r]]
             /\ ret' = "item"
    <3>1. /\ env' \in Fields /\ env'.run = env.run + 1 /\ env'.conn = k /\ env'.reading
          /\ ~ env'.needsInput /\ env'.exit = NoExit /\ env'.result = NoResult
      <4>1. k \in Nat
        BY <2>4, SMT
      <4> HIDE DEF k
      <4> QED
        BY <2>3, <2>6, <4>1 DEF Fields
    <3>2. NewWorker \in Connection /\ ~ NewWorker.early
      BY SMT DEF NewWorker, Connection, Phases
    <3>3. /\ conns' \in Seq(Connection) /\ Len(conns') = k
          /\ \A c \in 1 .. Len(conns') : ~ conns'[c].early /\ (conns'[c].open => c = k)
      BY <2>4, <2>6, <3>2, SMT
    <3>4. /\ DOMAIN iter' = DOMAIN iter \cup {env.run + 1} /\ iter'[env.run + 1] = "fresh"
          /\ iter' \in [DOMAIN iter' -> Places]
      BY <2>1, <2>3, <2>6 DEF Places
    <3>5. DOMAIN iter' \subseteq 1 .. env'.run
      BY <2>1, <3>1, <3>4, SMT
    <3>6. TypeOK'
      <4>1. env'.conn \in 0 .. Len(conns')
        BY <2>4, <3>1, <3>3, SMT
      <4>2. busy' \in Int /\ ret' = "item"
        BY <2>5, <2>6, SMT
      <4> QED
        BY <3>1, <3>3, <3>4, <3>5, <4>1, <4>2 DEF TypeOK
    <3>7. RunInv'
      BY <2>4, <2>5, <3>1, <3>4, SMT DEF RunInv
    <3>8. FieldsTrue'
      BY <3>1, <3>3, SMT DEF FieldsTrue
    <3> QED
      BY <2>4, <2>5, <2>6, <3>1, <3>6, <3>7, <3>8, SMT DEF EnvInv
  <2>7. CASE env' = e /\ conns' = Shut(env) /\ ret' = "raise" /\ UNCHANGED iter
    <3>1. TypeOK'
      <4>1. DOMAIN iter' \subseteq 1 .. env'.run
        BY <2>1, <2>3, <2>7, SMT
      <4> QED
        BY <2>1, <2>3, <2>4, <2>5, <2>7, <4>1, SMT DEF TypeOK
    <3>2. RunInv'
      BY <2>1, <2>3, <2>5, <2>7, SMT DEF RunInv
    <3>3. FieldsTrue'
      BY <2>3, <2>4, <2>7, SMT DEF FieldsTrue
    <3> QED
      BY <2>5, <2>7, <3>1, <3>2, <3>3 DEF EnvInv
  <2> QED
    BY <2>5, <2>6, <2>7
<1> QED
  BY <1>1, <1>2

\* step keeps it: the action goes to a worker that waits for one.
LEMMA StepStep ==
  ASSUME EnvInv, NEW a \in Action, Step(a)
  PROVE  /\ EnvInv' /\ busy' = -1
         /\ ret' \in {"item", "raise"}
         /\ ret' = "item" => env'.conn # 0
<1>1. CASE ~ MayStep
  BY <1>1, EnvKept DEF Step, Refused, Raises
<1>2. CASE MayStep
  <2> DEFINE x == ClearEvents(env)
             e == [x EXCEPT !.needsInput = FALSE]
  <2>1. /\ env \in Fields /\ conns \in Seq(Connection) /\ env.conn \in 1 .. Len(conns)
        /\ conns[env.conn].phase = "waiting" /\ env.exit = NoExit /\ env.run \in DOMAIN iter
        /\ iter \in [DOMAIN iter -> Places]
    BY <1>2, SMT DEF MayStep, EnvInv, TypeOK, RunInv, FieldsTrue
  <2>2. x \in Fields /\ x.run = env.run /\ x.conn = env.conn /\ x.result = NoResult
        /\ x.exit = env.exit
    BY <2>1, ClearFact
  <2> HIDE DEF x
  <2>3. e \in Fields /\ e.run = env.run /\ e.conn = env.conn /\ e.result = NoResult
        /\ e.exit = NoExit /\ ~ e.needsInput
    BY <2>1, <2>2 DEF Fields
  <2>4. /\ \/ /\ env' = [e EXCEPT !.reading = TRUE]
              /\ conns' = Input(env.conn, a)
              /\ iter' = [iter EXCEPT ![env.run] = "resumed"]
              /\ ret' = "item"
           \/ env' = Cancelled(e) /\ conns' = Shut(env) /\ ret' = "raise" /\ UNCHANGED iter
           \/ UNCHANGED <<env, conns, iter, busy>> /\ ret' = "raise"
        /\ busy = -1 /\ busy' = busy
    BY <1>2 DEF Step, Refused, Raises, x
  <2> HIDE DEF e
  <2>5. CASE /\ env' = [e EXCEPT !.reading = TRUE]
             /\ conns' = Input(env.conn, a)
             /\ iter' = [iter EXCEPT ![env.run] = "resumed"]
             /\ ret' = "item"
    <3>1. /\ env' \in Fields /\ env'.run = env.run /\ env'.conn = env.conn /\ env'.reading
          /\ ~ env'.needsInput /\ env'.exit = NoExit /\ env'.result = NoResult
      BY <2>3, <2>5 DEF Fields
    <3>2. /\ conns' \in Seq(Connection) /\ Len(conns') = Len(conns)
          /\ \A c \in 1 .. Len(conns) : /\ conns'[c].open = conns[c].open
                                        /\ conns'[c].early = conns[c].early
      BY <2>1, <2>5, InputFact
    <3>3. DOMAIN iter' = DOMAIN iter /\ iter' \in [DOMAIN iter -> Places]
      BY <2>1, <2>5 DEF Places
    <3>4. TypeOK'
      BY <2>4, <2>5, <3>1, <3>2, <3>3 DEF EnvInv, TypeOK
    <3>5. RunInv'
      BY <2>1, <2>4, <3>1, <3>3, SMT DEF RunInv
    <3>6. FieldsTrue'
      BY <2>1, <3>1, <3>2, SMT DEF EnvInv, FieldsTrue
    <3> QED
      BY <2>1, <2>4, <2>5, <3>1, <3>4, <3>5, <3>6, SMT DEF EnvInv
  <2>6. CASE env' = Cancelled(e) /\ conns' = Shut(env) /\ ret' = "raise" /\ UNCHANGED iter
    <3>1. EnvInv'
      BY <2>1, <2>3, <2>4, <2>6, CancelStep
    <3> QED
      BY <2>4, <2>6, <3>1
  <2>7. CASE UNCHANGED <<env, conns, iter, busy>> /\ ret' = "raise"
    BY <2>4, <2>7, EnvKept
  <2> QED
    BY <2>4, <2>5, <2>6, <2>7
<1> QED
  BY <1>1, <1>2

\* A call of next keeps it: only the current run's iterator gets inside.
LEMMA NextBeginsStep ==
  ASSUME EnvInv, NEW r \in DOMAIN iter, NextBegins(r)
  PROVE  EnvInv' /\ (ret' = ret \/ (ret' = "raise" /\ busy' = -1)) /\ env' = env
<1>1. /\ iter \in [DOMAIN iter -> Places] /\ r \in Nat /\ DOMAIN iter \subseteq 1 .. env.run
      /\ env.run \in Nat /\ busy = -1 /\ env' = env /\ conns' = conns
  BY SMT DEF NextBegins, EnvInv, TypeOK, Fields
<1>2. FieldsTrue'
  BY <1>1 DEF EnvInv, FieldsTrue
<1>3. CASE r # env.run
  <2>1. /\ iter' = [iter EXCEPT ![r] = "over"] /\ ret' = "raise" /\ busy' = -1
    BY <1>1, <1>3 DEF NextBegins, Raises
  <2>2. TypeOK'
    BY <1>1, <2>1 DEF EnvInv, TypeOK, Places
  <2>3. RunInv'
    BY <1>1, <1>3, <2>1 DEF EnvInv, RunInv
  <2> QED
    BY <1>1, <1>2, <2>1, <2>2, <2>3 DEF EnvInv
<1>4. CASE r = env.run
  <2>1. /\ iter' = [iter EXCEPT ![r] = IF @ = "fresh" THEN "first" ELSE "inside"]
        /\ busy' = r /\ ret' = ret /\ iter[r] # "over"
    BY <1>4 DEF NextBegins
  <2>2. TypeOK'
    BY <1>1, <2>1, SMT DEF EnvInv, TypeOK, Places
  <2>3. RunInv'
    BY <1>1, <1>4, <2>1 DEF EnvInv, RunInv
  <2> QED
    BY <1>1, <1>2, <2>1, <2>2, <2>3 DEF EnvInv
<1> QED
  BY <1>3, <1>4

\* The end of an iterator that was inside next and did not stop at a request.
LEMMA EndsStep ==
  ASSUME EnvInv, NEW r \in DOMAIN iter, busy = r, NEW e \in Fields, e.run = env.run,
         conns' = Shut(env), NEW how \in {"end", "raise"}, Ends(r, e, FALSE, how)
  PROVE  EnvInv' /\ busy' = -1 /\ ret' = how
<1>1. /\ iter \in [DOMAIN iter -> Places] /\ DOMAIN iter \subseteq 1 .. env.run
      /\ env.run \in Nat /\ r = env.run /\ r # -1
  BY SMT DEF EnvInv, TypeOK, Fields, RunInv
<1>2. /\ env' = Cancelled(e) /\ iter' = [iter EXCEPT ![r] = "over"] /\ busy' = -1 /\ ret' = how
  BY <1>1 DEF Ends, Finally
<1>3. /\ env' \in Fields /\ env'.run = env.run + 1 /\ env'.conn = 0
      /\ ~ env'.reading /\ ~ env'.needsInput
  BY <1>2, CancelledFact
<1>4. /\ conns' \in Seq(Connection) /\ Len(conns') \in Nat
      /\ \A c \in 1 .. Len(conns') : ~ conns'[c].open /\ ~ conns'[c].early
  BY ShutFact, SMT DEF EnvInv, TypeOK
<1>5. /\ iter' \in [DOMAIN iter -> Places] /\ DOMAIN iter' = DOMAIN iter
      /\ DOMAIN iter \subseteq 1 .. env'.run
  BY <1>1, <1>2, <1>3, SMT DEF Places
<1>6. TypeOK'
  BY <1>2, <1>3, <1>4, <1>5, SMT DEF TypeOK
<1>7. RunInv'
  BY <1>1, <1>2, <1>3, <1>5, SMT DEF RunInv
<1>8. FieldsTrue'
  BY <1>3, <1>4, SMT DEF FieldsTrue
<1> QED
  BY <1>2, <1>6, <1>7, <1>8 DEF EnvInv

\* What the worker sends keeps it: the phase and the fields change together.
LEMMA ReceivesStep ==
  ASSUME EnvInv, NEW r \in DOMAIN iter, Receives(r)
  PROVE  /\ EnvInv'
         /\ ret' = "raise" => busy' = -1 \/ ret = "raise"
         /\ ret' = "item" => env'.conn # 0
<1>1. /\ env \in Fields /\ conns \in Seq(Connection) /\ env.conn \in 1 .. Len(conns)
      /\ iter \in [DOMAIN iter -> Places] /\ DOMAIN iter \subseteq 1 .. env.run /\ env.run \in Nat
      /\ busy = r /\ r = env.run /\ r # -1 /\ iter[r] # "over"
      /\ env.exit = NoExit /\ env.reading /\ ~ env.needsInput
  <2>1. busy = r
    BY DEF Receives, Hello, Rows, GuestEvent, Request, ReadFails, Exit, Running
  <2>2. r \in Nat /\ r # -1
    BY SMT DEF EnvInv, TypeOK, Fields
  <2> QED
    BY <2>1, <2>2, SMT DEF EnvInv, TypeOK, Fields, RunInv, FieldsTrue
<1>2. CASE Hello(r)
  <2>1. /\ conns' = Goes(env.conn, "running") /\ iter' = [iter EXCEPT ![r] = "inside"]
        /\ UNCHANGED <<env, busy, ret>> /\ conns[env.conn].phase = "starting"
    BY <1>2 DEF Hello
  <2>2. /\ conns' \in Seq(Connection) /\ Len(conns') = Len(conns)
        /\ \A c \in 1 .. Len(conns) : /\ conns'[c].open = conns[c].open
                                      /\ conns'[c].early = conns[c].early
                                      /\ conns'[c].log = conns[c].log
    BY <1>1, <2>1, GoesFact, SMT DEF Phases
  <2>3. TypeOK'
    BY <1>1, <2>1, <2>2 DEF EnvInv, TypeOK, Places
  <2>4. RunInv'
    BY <1>1, <2>1 DEF EnvInv, RunInv
  <2>5. FieldsTrue'
    <3>1. DOMAIN conns' = DOMAIN conns /\ DOMAIN conns = 1 .. Len(conns)
      BY <1>1, <2>2, SMT
    <3> QED
      BY <1>1, <2>1, <2>2, <3>1 DEF EnvInv, FieldsTrue
  <2> QED
    BY <1>1, <2>1, <2>3, <2>4, <2>5, SMT DEF EnvInv
<1>3. CASE Rows(r)
  <2>1. /\ iter' = [iter EXCEPT ![r] = "paused"] /\ busy' = -1 /\ ret' = "item"
        /\ UNCHANGED <<env, conns>>
    BY <1>3 DEF Rows
  <2>2. TypeOK'
    BY <1>1, <2>1, SMT DEF EnvInv, TypeOK, Places
  <2>3. RunInv'
    BY <1>1, <2>1 DEF EnvInv, RunInv
  <2>4. FieldsTrue'
    BY <2>1 DEF EnvInv, FieldsTrue
  <2> QED
    BY <1>1, <2>1, <2>2, <2>3, <2>4, SMT DEF EnvInv
<1>4. CASE GuestEvent(r)
  <2>1. UNCHANGED <<conns, iter, busy, ret>>
    BY <1>4 DEF GuestEvent
  <2>2. /\ env' \in Fields /\ env'.run = env.run /\ env'.conn = env.conn
        /\ env'.reading = env.reading /\ env'.needsInput = env.needsInput /\ env'.exit = env.exit
        /\ env'.result = env.result \/ env'.result.steps = Len(conns[env.conn].log)
    <3>1. ASSUME NEW kind \in {"ready", "complete"}, env' = [env EXCEPT !.event = kind]
          PROVE  <2>2
      BY <1>1, <3>1 DEF Fields
    <3>2. ASSUME NEW x \in Result, x.steps = Len(conns[env.conn].log),
                 env' = [env EXCEPT !.event = "result", !.result = x]
          PROVE  <2>2
      BY <1>1, <3>2 DEF Fields
    <3>3. ASSUME NEW action \in Action
          PROVE  [action |-> action, steps |-> Len(conns[env.conn].log)] \in Result
      <4>1. conns[env.conn] \in Connection
        BY <1>1, SMT
      <4> QED
        BY <4>1, SMT DEF Result, Connection
    <3> QED
      BY <1>4, <3>1, <3>2, <3>3 DEF GuestEvent
  <2>3. TypeOK'
    BY <1>1, <2>1, <2>2 DEF EnvInv, TypeOK
  <2>4. RunInv'
    BY <1>1, <2>1, <2>2 DEF EnvInv, RunInv
  <2>5. FieldsTrue'
    BY <1>1, <2>1, <2>2 DEF EnvInv, FieldsTrue
  <2> QED
    BY <1>1, <2>1, <2>2, <2>3, <2>4, <2>5, SMT DEF EnvInv
<1>5. CASE Request(r)
  <2> DEFINE e == [env EXCEPT !.needsInput = TRUE]
  <2>1. e \in Fields /\ e.run = env.run
    BY <1>1 DEF Fields
  <2>2. /\ env' = [e EXCEPT !.reading = FALSE] /\ conns' = Goes(env.conn, "waiting")
        /\ iter' = [iter EXCEPT ![r] = "over"] /\ busy' = -1 /\ ret' = "end"
    BY <1>1, <1>5, <2>1 DEF Request, Ends, Finally
  <2>3. /\ env' \in Fields /\ env'.run = env.run /\ env'.conn = env.conn /\ ~ env'.reading
        /\ env'.exit = NoExit /\ env'.result = env.result
    BY <1>1, <2>2 DEF Fields
  <2>4. /\ conns' \in Seq(Connection) /\ Len(conns') = Len(conns)
        /\ conns'[env.conn].phase = "waiting"
        /\ \A c \in 1 .. Len(conns) : /\ conns'[c].open = conns[c].open
                                      /\ conns'[c].early = conns[c].early
                                      /\ conns'[c].log = conns[c].log
    BY <1>1, <2>2, GoesFact, SMT DEF Phases
  <2>5. /\ iter' \in [DOMAIN iter -> Places] /\ DOMAIN iter' = DOMAIN iter /\ iter'[r] = "over"
    BY <1>1, <2>2 DEF Places
  <2>6. TypeOK'
    BY <1>1, <2>2, <2>3, <2>4, <2>5, SMT DEF TypeOK
  <2>7. RunInv'
    BY <1>1, <2>2, <2>3, <2>5 DEF RunInv
  <2>8. FieldsTrue'
    <3>1. DOMAIN conns' = DOMAIN conns /\ DOMAIN conns = 1 .. Len(conns)
      BY <1>1, <2>4, SMT
    <3>2. \A c \in DOMAIN conns' : (conns'[c].open => c = env'.conn) /\ ~ conns'[c].early
      BY <2>3, <2>4, <3>1 DEF EnvInv, FieldsTrue
    <3>3. env'.result # NoResult => env'.result.steps = Len(conns'[env'.conn].log)
      BY <1>1, <2>3, <2>4, SMT DEF EnvInv, FieldsTrue
    <3> QED
      BY <1>1, <2>3, <2>4, <3>2, <3>3, SMT DEF FieldsTrue
  <2> QED
    BY <2>2, <2>6, <2>7, <2>8 DEF EnvInv
<1>6. CASE ReadFails(r)
  BY <1>1, <1>6, EndsStep DEF ReadFails
<1>7. ASSUME NEW code \in {0, 1, 2}, Exit(r, code) PROVE EnvInv' /\ ret' = "end"
  <2> DEFINE e == [env EXCEPT !.exit = code]
  <2>1. e \in Fields /\ e.run = env.run
    BY <1>1, SMT DEF Fields
  <2>2. Ends(r, e, FALSE, "end") /\ conns' = Shut(env)
    BY <1>7 DEF Exit
  <2> HIDE DEF e
  <2> QED
    BY <1>1, <2>1, <2>2, EndsStep
<1> QED
  BY <1>2, <1>3, <1>4, <1>5, <1>6, <1>7 DEF Receives

\* Dropping an iterator keeps it: only the current run's drop cancels anything.
LEMMA DropStep ==
  ASSUME EnvInv, NEW r \in DOMAIN iter, Drop(r)
  PROVE  EnvInv'
<1>1. /\ env \in Fields /\ iter \in [DOMAIN iter -> Places] /\ DOMAIN iter \subseteq 1 .. env.run
      /\ env.run \in Nat /\ busy = -1 /\ busy' = -1 /\ ret' = "end"
      /\ iter' = [iter EXCEPT ![r] = "over"]
  BY DEF Drop, EnvInv, TypeOK, Fields
<1>2. iter' \in [DOMAIN iter -> Places] /\ DOMAIN iter' = DOMAIN iter
  BY <1>1 DEF Places
<1>3. CASE iter[r] = "paused" /\ r = env.run
  <2>1. env' = Cancelled(env) /\ conns' = Shut(env)
    BY <1>3 DEF Drop, Finally
  <2> QED
    BY <1>1, <1>2, <2>1, CancelStep
<1>4. CASE ~ (iter[r] = "paused" /\ r = env.run)
  <2>1. env' = env /\ conns' = conns
    BY <1>4 DEF Drop, Finally
  <2>2. TypeOK'
    BY <1>1, <1>2, <2>1 DEF EnvInv, TypeOK
  <2>3. RunInv'
    BY <1>1, <1>2, <2>1 DEF EnvInv, RunInv
  <2>4. FieldsTrue'
    BY <2>1 DEF EnvInv, FieldsTrue
  <2> QED
    BY <2>2, <2>3, <2>4 DEF EnvInv
<1> QED
  BY <1>3, <1>4

-----------------------------------------------------------------------------
(* The steps of the clients. *)

\* Every program's script is a sequence of actions.
LEMMA ScriptFact ==
  ASSUME program \in Programs
  PROVE  Script \in Seq(Action)
<1>1. Workload[1] \in Action
  BY ClientAssumption, SMT
<1>2. Append(Workload, Quit) \in Seq(Action)
  BY ClientAssumption, SMT
<1> QED
  BY <1>1, <1>2, SMT DEF Script

\* _cancel_run as the wrapper calls it.
LEMMA WrapperCancels ==
  ASSUME EnvInv, busy = -1, env' = Cancelled(env), conns' = Shut(env),
         UNCHANGED <<iter, busy, ret>>
  PROVE  EnvInv'
<1>1. env \in Fields /\ iter \in [DOMAIN iter -> Places] /\ ret \in {"item", "end", "raise"}
  BY DEF EnvInv, TypeOK
<1> QED
  BY <1>1, CancelStep

\* Every step of every client keeps the invariant.
LEMMA ClientStep ==
  ASSUME IInv, [Next]_vars
  PROVE  IInv'
<1> USE DEF IInv
<1>1. Script \in Seq(Action) /\ Len(Script) \in Nat
  BY ScriptFact, SMT DEF ClientInv
<1>2. Len(Script') = Len(Script) \/ program' # program
  BY DEF Script
<1>3. CASE FreeClient
  <2>1. EnvInv'
    BY <1>3, ResetStep, CloseStep, StepStep, NextBeginsStep, ReceivesStep, DropStep,
       ClientAssumption DEF FreeClient
  <2> QED
    BY <1>2, <1>3, <2>1 DEF FreeClient, ClientInv
<1>4. CASE program # "free" /\ Call
  <2>1. UNCHANGED <<program, next>> /\ pc = "call" /\ busy = -1
    BY <1>4 DEF Call, ClientInv
  <2>2. /\ EnvInv' /\ busy' = -1 /\ ret' \in {"item", "raise"}
        /\ ret' = "item" => env'.conn # 0
    <3>1. CASE next = 0 /\ Reset
      BY <3>1, ResetStep
    <3>2. CASE Refused
      BY <2>1, <3>2, EnvKept DEF Refused, Raises
    <3>3. CASE next # 0 /\ Step(Script[next])
      <4>1. Script[next] \in Action
        BY <1>1, <3>3, SMT DEF ClientInv
      <4> QED
        BY <3>3, <4>1, StepStep
    <3> QED
      BY <1>4, <3>1, <3>2, <3>3 DEF Call
  <2> QED
    BY <1>2, <1>4, <2>1, <2>2 DEF Call, ClientInv
<1>5. CASE program # "free" /\ Drain
  <2>1. UNCHANGED <<program, next>> /\ pc = "draining" /\ ret # "raise"
        /\ pc' = IF ret' = "raise" THEN "observed" ELSE "draining"
    BY <1>5 DEF Drain, ClientInv
  <2>2. /\ EnvInv' /\ (ret' = "raise" => busy' = -1)
        /\ ret' = "item" => env'.conn # 0
    <3>1. CASE ret = "item" /\ NextBegins(env.run)
      <4>1. env.conn # 0 /\ env.run \in DOMAIN iter
        BY <1>5, <2>1, <3>1 DEF ClientInv, EnvInv, RunInv
      <4> QED
        BY <2>1, <3>1, <4>1, NextBeginsStep
    <3>2. CASE \E r \in DOMAIN iter : Receives(r)
      BY <2>1, <3>2, ReceivesStep
    <3> QED
      BY <1>5, <3>1, <3>2 DEF Drain
  <2> QED
    BY <1>2, <1>5, <2>1, <2>2 DEF ClientInv
<1>6. CASE program # "free" /\ (Reduced \/ Swallowed \/ Again)
  <2>1. EnvInv'
    <3>1. CASE UNCHANGED <<env, conns, iter, busy>> /\ ret' \in {ret, "end", "raise"}
      BY <3>1, EnvKept DEF EnvInv, TypeOK
    <3>2. CASE env.run \in DOMAIN iter /\ Drop(env.run)
      BY <3>2, DropStep
    <3> QED
      BY <1>6, <3>1, <3>2 DEF Reduced, Swallowed, Again, Raises, envVars
  <2>2. busy' = -1 /\ pc' # "draining" /\ program' = program
    BY <1>6 DEF Reduced, Swallowed, Again, Drop, Raises, envVars, ClientInv
  <2>3. next' \in 0 .. Len(Script)
    BY <1>1, <1>6, SMT DEF Reduced, Swallowed, Again, ClientInv
  <2> QED
    BY <1>2, <2>1, <2>2, <2>3 DEF ClientInv
<1>7. CASE program # "free" /\ (Observed \/ Refuse \/ \E truncated \in BOOLEAN : Accept(truncated))
  <2>1. busy = -1 /\ pc # "draining" /\ pc' # "draining" /\ program' = program
    BY <1>7 DEF Observed, Refuse, Accept, ClientInv
  <2>2. \/ env' = Cancelled(env) /\ conns' = Shut(env) /\ UNCHANGED <<iter, busy, ret>>
        \/ UNCHANGED <<env, conns, iter, busy, ret>>
    BY <1>7 DEF Observed, Refuse, Accept, envVars
  <2>3. EnvInv'
    BY <2>1, <2>2, WrapperCancels, EnvKept DEF EnvInv, TypeOK
  <2>4. next' \in 0 .. Len(Script)
    BY <1>1, <1>7, SMT DEF Observed, Refuse, Accept, ClientInv
  <2> QED
    BY <1>2, <2>1, <2>2, <2>3, <2>4 DEF ClientInv
<1>8. CASE program # "free" /\ Leave
  <2>1. EnvInv' /\ busy' = -1
    BY <1>8, CloseStep DEF Leave
  <2> QED
    BY <1>2, <1>8, <2>1 DEF Leave, ClientInv
<1>9. CASE UNCHANGED vars
  <2>1. EnvInv'
    BY <1>9, EnvKept DEF vars, envVars, EnvInv, TypeOK
  <2> QED
    BY <1>2, <1>9, <2>1 DEF vars, envVars, ClientInv
<1> QED
  BY <1>3, <1>4, <1>5, <1>6, <1>7, <1>8, <1>9 DEF Next, Program

\* The only steps that move the iterator of an older run are the ones that end it,
\* and these leave the current run alone.
LEMMA StaleStep ==
  ASSUME IInv, [Next]_vars, NEW r \in DOMAIN iter, iter'[r] # iter[r], r < env.run
  PROVE  UNCHANGED <<env, conns>>
<1>1. /\ env \in Fields /\ env.run \in Nat /\ DOMAIN iter \subseteq 1 .. env.run /\ r \in Nat
      /\ iter \in [DOMAIN iter -> Places] /\ busy # r
  <2>1. env \in Fields /\ DOMAIN iter \subseteq 1 .. env.run /\ iter \in [DOMAIN iter -> Places]
    BY DEF IInv, EnvInv, TypeOK
  <2>2. env.run \in Nat
    BY <2>1 DEF Fields
  <2> QED
    BY <2>1, <2>2, SMT DEF IInv, EnvInv, RunInv
<1>2. ~ Reset
  <2>1. ASSUME Reset PROVE iter'[r] = iter[r]
    <3> DEFINE x == [Cancelled(env) EXCEPT !.exit = NoExit]
               e == ClearEvents(x)
    <3>1. x \in Fields /\ x.run = env.run + 1
      BY <1>1, CancelledFact, SMT DEF Fields, NoExit
    <3> HIDE DEF x
    <3>2. e.run = env.run + 1
      BY <3>1, ClearFact
    <3>3. \/ iter' = [s \in DOMAIN iter \cup {e.run} |-> IF s = e.run THEN "fresh" ELSE iter[s]]
          \/ iter' = iter
      BY <2>1 DEF Reset, x
    <3> HIDE DEF e
    <3> QED
      BY <1>1, <3>2, <3>3, SMT
  <2> QED
    BY <2>1
<1>3. \A a \in Action : ~ Step(a)
  BY <1>1, SMT DEF Step, Refused
<1>4. ~ Close
  BY DEF Close
<1>5. \A s \in DOMAIN iter : ~ Receives(s)
  <2>1. ASSUME NEW s \in DOMAIN iter, Receives(s) PROVE iter'[r] = iter[r]
    <3>1. busy = s
      BY <2>1 DEF Receives, Hello, Rows, GuestEvent, Request, ReadFails, Exit, Running
    <3>2. iter' = iter \/ \E p \in Places : iter' = [iter EXCEPT ![s] = p]
      BY <2>1 DEF Receives, Hello, Rows, GuestEvent, Request, ReadFails, Exit, Ends, Places
    <3> QED
      BY <1>1, <3>1, <3>2
  <2> QED
    BY <2>1
<1>6. ASSUME NEW s \in DOMAIN iter, NextBegins(s) PROVE UNCHANGED <<env, conns>>
  BY <1>6 DEF NextBegins
<1>7. ASSUME NEW s \in DOMAIN iter, Drop(s) PROVE UNCHANGED <<env, conns>>
  <2>1. s = r
    BY <1>1, <1>7 DEF Drop
  <2> QED
    BY <1>1, <1>7, <2>1, SMT DEF Drop, Finally
<1>8. CASE FreeClient
  BY <1>2, <1>3, <1>4, <1>5, <1>6, <1>7, <1>8, ClientAssumption DEF FreeClient
<1>9. ~ Call
  <2>1. ~ Refused
    BY DEF Refused
  <2>2. next # 0 => Script[next] \in Action
    BY ScriptFact, SMT DEF IInv, ClientInv
  <2> QED
    BY <1>2, <1>3, <2>1, <2>2 DEF Call
<1>10. CASE Drain
  BY <1>5, <1>10 DEF Drain, NextBegins
<1>11. CASE Reduced \/ Swallowed \/ Again \/ UNCHANGED vars
  BY <1>7, <1>11 DEF Reduced, Swallowed, Again, vars, envVars
<1>12. CASE Observed \/ Refuse \/ (\E truncated \in BOOLEAN : Accept(truncated)) \/ Leave
  BY <1>4, <1>12 DEF Observed, Refuse, Accept, Leave, envVars
<1> QED
  BY <1>8, <1>9, <1>10, <1>11, <1>12 DEF Next, Program

-----------------------------------------------------------------------------
(* The theorems. *)

\* The inductive invariant holds of every reachable state.
THEOREM Invariance == Spec => []IInv
<1>1. Init => IInv
  <2> SUFFICES ASSUME Init PROVE IInv
    OBVIOUS
  <2> USE DEF Init, EnvInit
  <2>1. NoResult \in Result
    BY SMT DEF NoResult, Result
  <2>2. TypeOK
    <3>1. env \in Fields
      BY <2>1, SMT DEF Fields, NoExit
    <3>2. conns \in Seq(Connection) /\ Len(conns) = 0 /\ env.conn = 0
      BY SMT
    <3>3. DOMAIN iter = {} /\ iter \in [DOMAIN iter -> Places]
      BY SMT
    <3> QED
      BY <3>1, <3>2, <3>3, SMT DEF TypeOK
  <2>3. RunInv /\ FieldsTrue
    BY SMT DEF RunInv, FieldsTrue
  <2>4. ClientInv
    <3>1. Len(Script) \in Nat
      BY ScriptFact, SMT
    <3> QED
      BY <3>1, SMT DEF ClientInv
  <2> QED
    BY <2>2, <2>3, <2>4 DEF IInv, EnvInv
<1>2. IInv /\ [Next]_vars => IInv'
  BY ClientStep
<1> QED
  BY <1>1, <1>2, PTL DEF Spec

\* For every client, every set of actions and any number of runs: only the current
\* run's connection is open, the fields say what the worker does, and a worker
\* gets an action only while it waits for one.
THEOREM FieldsCorrect == Spec => []FieldsTrue
<1>1. IInv => FieldsTrue
  BY DEF IInv, EnvInv
<1> QED
  BY <1>1, Invariance, PTL

\* Whatever a client does with the iterator of an older run, the run that replaced
\* it keeps its fields and its connection.
THEOREM StaleHarmless == Spec => StaleIteratorHarmless
<1>1. IInv /\ [Next]_vars =>
        [\A r \in DOMAIN iter :
           iter'[r] # iter[r] /\ Live(r) /\ r < env.run => UNCHANGED <<env, conns>>]_envVars
  BY StaleStep
<1> QED
  BY <1>1, Invariance, PTL DEF Spec, StaleIteratorHarmless
=============================================================================
