-------------------------- MODULE EndpointReaders ---------------------------
(***************************************************************************)
(* The readers of a pool of several workers (_multipool.py), with the       *)
(* connection of each one (pool.py).  One thread per worker receives        *)
(* batches and publishes them in a slot of its own; the consumer takes them *)
(* in rotation; close, called by the consumer, by any other thread or by a  *)
(* wire observer on a reader thread, cancels the connections and joins the  *)
(* readers.                                                                 *)
(*                                                                         *)
(* A "with self._ready" block is one step.  A thread in wait_for whose      *)
(* predicate is false sleeps until somebody notifies.  What a worker sends  *)
(* and when it accepts is external; its batches are numbered.               *)
(***************************************************************************)
EXTENDS Integers, FiniteSets, FiniteSetsExt

CONSTANTS
  Worker,            \* worker indices
  Addresses,         \* addresses a worker's host name resolves to
  ObserverCloses,    \* workers whose wire observer may call close
  MaxBatches         \* bound on the batches of each worker

ASSUME ReadersAssumption ==
  /\ Cardinality(Worker) \in Nat \ {0} /\ Worker = 0 .. Cardinality(Worker) - 1
  /\ Addresses \in Nat \ {0}
  /\ ObserverCloses \subseteq Worker
  /\ MaxBatches \in [Worker -> Nat]

Consumer == -1     \* the thread that iterates over the batches
Outside == -2      \* another thread that calls close
Nobody == -3
Thread == Worker \cup {Consumer, Outside}

NoBatch == 0

VARIABLES
  closed, batches, finished, failure,  \* the fields of EndpointReaders
  started,      \* the reader threads are in _threads
  asleep,       \* threads waiting on the condition
  reader,       \* where each reader thread is
  address,      \* addresses each reader has tried
  held,         \* the batch a reader has received and not published
  received,     \* history: batches received by each reader
  ending,       \* history: how Pool.read of each worker ended
  poolClosed,   \* Pool._closed
  exposed,      \* Pool._socket is set
  connection,   \* the socket itself: "none", "live" or "shut"
  consumer,     \* where the consumer is
  nextWorker,   \* the first slot the consumer looks at
  delivered,    \* history: batches of each worker the consumer took
  passed,       \* history: takes of other slots since a slot was filled
  closing       \* each thread's progress in close: phase, pool and joins

readersVars == <<closed, batches, finished, failure, started, asleep>>
threadVars == <<reader, address, held, received, ending>>
poolVars == <<poolClosed, exposed, connection>>
consumerVars == <<consumer, nextWorker, delivered, passed>>
vars == <<readersVars, threadVars, poolVars, consumerVars, closing>>

NotClosing == [phase |-> "no", at |-> 0, joins |-> {}]

Init ==
  /\ closed = FALSE
  /\ batches = [w \in Worker |-> NoBatch]
  /\ finished = [w \in Worker |-> FALSE]
  /\ failure = Nobody
  /\ started = FALSE
  /\ asleep = {}
  /\ reader = [w \in Worker |-> "unstarted"]
  /\ address = [w \in Worker |-> 0]
  /\ held = [w \in Worker |-> NoBatch]
  /\ received = [w \in Worker |-> 0]
  /\ ending = [w \in Worker |-> "none"]
  /\ poolClosed = [w \in Worker |-> FALSE]
  /\ exposed = [w \in Worker |-> FALSE]
  /\ connection = [w \in Worker |-> "none"]
  /\ consumer = "unread"
  /\ nextWorker = 0
  /\ delivered = [w \in Worker |-> 0]
  /\ passed = [w \in Worker |-> 0]
  /\ closing = [t \in Thread |-> NotClosing]

NotifyAll == asleep' = {}

Goes(w, place) == reader' = [reader EXCEPT ![w] = place]

\* Pool.close on the reader's own thread.
ClosePool(w) ==
  /\ poolClosed' = [poolClosed EXCEPT ![w] = TRUE]
  /\ exposed' = [exposed EXCEPT ![w] = FALSE]
  /\ connection' = [connection EXCEPT ![w] = IF exposed[w] THEN "shut" ELSE @]

-----------------------------------------------------------------------------
(* The connection of a reader: Pool._read and Pool._connect.               *)

\* A fault: a socket is opened although the pool is closed.
ExposeAnyway(w) ==
  /\ reader[w] = "resolving"
  /\ Goes(w, "connecting")
  /\ exposed' = [exposed EXCEPT ![w] = TRUE]
  /\ connection' = [connection EXCEPT ![w] = "live"]
  /\ UNCHANGED <<readersVars, address, held, received, ending, poolClosed, consumerVars, closing>>

\* The socket of the next address becomes visible to close, unless the pool is
\* already closed.
Expose(w) ==
  /\ reader[w] = "resolving"
  /\ IF poolClosed[w]
     THEN /\ Goes(w, "failing")
          /\ ending' = [ending EXCEPT ![w] = "error"]
          /\ UNCHANGED <<exposed, connection>>
     ELSE /\ Goes(w, "connecting")
          /\ exposed' = [exposed EXCEPT ![w] = TRUE]
          /\ connection' = [connection EXCEPT ![w] = "live"]
          /\ UNCHANGED ending
  /\ UNCHANGED <<readersVars, address, held, received, poolClosed, consumerVars, closing>>

\* The worker accepts.  The socket was exposed, so close has seen it if the
\* pool is closed now.
Accepted(w) ==
  /\ reader[w] = "connecting"
  /\ Goes(w, IF poolClosed[w] THEN "unconnected" ELSE "receiving")
  /\ UNCHANGED <<readersVars, address, held, received, ending, poolVars, consumerVars, closing>>

\* connect fails, because nobody listens or because close shut the socket.
Refused(w) ==
  /\ reader[w] = "connecting"
  /\ Goes(w, "unconnected")
  /\ UNCHANGED <<readersVars, address, held, received, ending, poolVars, consumerVars, closing>>

\* The handler of a failed attempt: the next address, unless it was the last
\* one or the pool is closed.
NextAddress(w) ==
  /\ reader[w] = "unconnected"
  /\ exposed' = [exposed EXCEPT ![w] = FALSE]
  /\ connection' = [connection EXCEPT ![w] = "none"]
  /\ address' = [address EXCEPT ![w] = @ + 1]
  /\ IF poolClosed[w] \/ address'[w] = Addresses
     THEN /\ Goes(w, "failing")
          /\ ending' = [ending EXCEPT ![w] = "error"]
          /\ poolClosed' = [poolClosed EXCEPT ![w] = TRUE]
     ELSE Goes(w, "resolving") /\ UNCHANGED <<ending, poolClosed>>
  /\ UNCHANGED <<readersVars, held, received, consumerVars, closing>>

-----------------------------------------------------------------------------
(* A reader thread: _receive. *)

ReceiveBatch(w) ==
  /\ reader[w] = "receiving"
  /\ received[w] < MaxBatches[w]
  /\ received' = [received EXCEPT ![w] = @ + 1]
  /\ held' = [held EXCEPT ![w] = received[w] + 1]
  /\ Goes(w, "publishing")
  /\ UNCHANGED <<readersVars, address, ending, poolVars, consumerVars, closing>>

ReceiveComplete(w) ==
  /\ reader[w] = "receiving"
  /\ ending' = [ending EXCEPT ![w] = "complete"]
  /\ ClosePool(w)
  /\ Goes(w, "releasing")
  /\ UNCHANGED <<readersVars, address, held, received, consumerVars, closing>>

\* An error frame, an invalid frame, a disconnection or a timeout.
ReceiveError(w) ==
  /\ reader[w] = "receiving"
  /\ ending' = [ending EXCEPT ![w] = "error"]
  /\ ClosePool(w)
  /\ Goes(w, "failing")
  /\ UNCHANGED <<readersVars, address, held, received, consumerVars, closing>>

\* The observer of a received frame calls close on this thread.
Observe(w) ==
  /\ reader[w] = "receiving"
  /\ w \in ObserverCloses
  /\ closing[w] = NotClosing
  /\ Goes(w, "observing")
  /\ closing' = [closing EXCEPT ![w].phase = "enter"]
  /\ UNCHANGED <<readersVars, address, held, received, ending, poolVars, consumerVars>>

Observed(w) ==
  /\ reader[w] = "observing"
  /\ closing[w].phase = "done"
  /\ Goes(w, "receiving")
  /\ UNCHANGED <<readersVars, address, held, received, ending, poolVars, consumerVars, closing>>

SlotFree(w) == closed \/ batches[w] = NoBatch

Publish(w) ==
  /\ reader[w] = "publishing"
  /\ w \notin asleep
  /\ IF ~ SlotFree(w)
     THEN asleep' = asleep \cup {w} /\ UNCHANGED <<reader, held, batches, passed>>
     ELSE IF closed
     THEN /\ Goes(w, "releasing")
          /\ held' = [held EXCEPT ![w] = NoBatch]
          /\ UNCHANGED <<asleep, batches, passed>>
     ELSE /\ batches' = [batches EXCEPT ![w] = held[w]]
          /\ passed' = [passed EXCEPT ![w] = 0]
          /\ held' = [held EXCEPT ![w] = NoBatch]
          /\ Goes(w, "receiving")
          /\ NotifyAll
  /\ UNCHANGED <<closed, finished, failure, started, address, received, ending, poolVars,
                 consumer, nextWorker, delivered, closing>>

\* A fault: a failure behind a full slot is dropped.
RecordFailureIfSlotFree(w) ==
  /\ reader[w] = "failing"
  /\ Goes(w, "releasing")
  /\ IF ~ closed /\ failure = Nobody /\ batches[w] = NoBatch
     THEN failure' = w /\ NotifyAll
     ELSE UNCHANGED <<failure, asleep>>
  /\ UNCHANGED <<closed, batches, finished, started, address, held, received, ending, poolVars,
                 consumerVars, closing>>

\* The first failure is kept, ahead of the batches that still wait.
RecordFailure(w) ==
  /\ reader[w] = "failing"
  /\ Goes(w, "releasing")
  /\ IF ~ closed /\ failure = Nobody
     THEN failure' = w /\ NotifyAll
     ELSE UNCHANGED <<failure, asleep>>
  /\ UNCHANGED <<closed, batches, finished, started, address, held, received, ending, poolVars,
                 consumerVars, closing>>

Release(w) ==
  /\ reader[w] = "releasing"
  /\ ClosePool(w)
  /\ Goes(w, "finishing")
  /\ UNCHANGED <<readersVars, address, held, received, ending, consumerVars, closing>>

Finish(w) ==
  /\ reader[w] = "finishing"
  /\ finished' = [finished EXCEPT ![w] = TRUE]
  /\ Goes(w, "ended")
  /\ NotifyAll
  /\ UNCHANGED <<closed, batches, failure, started, address, held, received, ending, poolVars,
                 consumerVars, closing>>
-----------------------------------------------------------------------------
(* The consumer: read and the generator _read. *)

Moves(place) == consumer' = place

Starts(t) == closing' = [closing EXCEPT ![t] = [NotClosing EXCEPT !.phase = "enter"]]

\* read returns the generator; it may never be advanced.
Read ==
  /\ consumer = "unread"
  /\ Moves(IF closed THEN "refused" ELSE "created")
  /\ UNCHANGED <<readersVars, threadVars, poolVars, nextWorker, delivered, passed, closing>>

StartReaders ==
  /\ consumer = "created"
  /\ IF closed
     THEN Moves("failed") /\ Starts(Consumer) /\ UNCHANGED <<started, reader>>
     ELSE /\ Moves("choosing")
          /\ started' = TRUE
          /\ reader' = [w \in Worker |-> "resolving"]
          /\ UNCHANGED closing
  /\ UNCHANGED <<closed, batches, finished, failure, asleep, address, held, received, ending,
                 poolVars, nextWorker, delivered, passed>>

SomethingToDo ==
  \/ closed
  \/ failure # Nobody
  \/ \E w \in Worker : batches[w] # NoBatch
  \/ \A w \in Worker : finished[w]

Wait ==
  /\ consumer = "choosing"
  /\ Consumer \notin asleep
  /\ ~ SomethingToDo
  /\ asleep' = asleep \cup {Consumer}
  /\ UNCHANGED <<closed, batches, finished, failure, started, threadVars, poolVars, consumerVars,
                 closing>>

\* A fault: the lowest full slot is always first.
TurnLowest == Min({w \in Worker : batches[w] # NoBatch})

\* The slot the consumer takes: the first full one from nextWorker on.
Turn ==
  LET turns == {k \in 0 .. Cardinality(Worker) - 1 :
                  batches[(nextWorker + k) % Cardinality(Worker)] # NoBatch}
  IN  (nextWorker + Min(turns)) % Cardinality(Worker)

\* A fault: nobody is told that the slot is free.
TakeQuietly ==
  /\ consumer = "choosing"
  /\ Consumer \notin asleep
  /\ failure = Nobody /\ ~ closed
  /\ \E w \in Worker : batches[w] # NoBatch
  /\ batches' = [batches EXCEPT ![Turn] = NoBatch]
  /\ nextWorker' = (Turn + 1) % Cardinality(Worker)
  /\ delivered' = [delivered EXCEPT ![Turn] = @ + 1]
  /\ passed' = [w \in Worker |-> IF w # Turn /\ batches[w] # NoBatch THEN passed[w] + 1 ELSE 0]
  /\ Moves("yielded")
  /\ UNCHANGED <<closed, finished, failure, started, asleep, threadVars, poolVars, closing>>

Take ==
  /\ consumer = "choosing"
  /\ Consumer \notin asleep
  /\ failure = Nobody /\ ~ closed
  /\ \E w \in Worker : batches[w] # NoBatch
  /\ batches' = [batches EXCEPT ![Turn] = NoBatch]
  /\ nextWorker' = (Turn + 1) % Cardinality(Worker)
  /\ delivered' = [delivered EXCEPT ![Turn] = @ + 1]
  /\ passed' = [w \in Worker |-> IF w # Turn /\ batches[w] # NoBatch THEN passed[w] + 1 ELSE 0]
  /\ NotifyAll
  /\ Moves("yielded")
  /\ UNCHANGED <<closed, finished, failure, started, threadVars, poolVars, closing>>

\* The generator ends: a worker failed, the pool was closed, or nothing is left.
Leave ==
  /\ consumer = "choosing"
  /\ Consumer \notin asleep
  /\ SomethingToDo
  /\ failure = Nobody /\ ~ closed => \A w \in Worker : batches[w] = NoBatch
  /\ Moves(IF failure # Nobody THEN "failed" ELSE IF closed THEN "cancelled" ELSE "complete")
  /\ Starts(Consumer)
  /\ UNCHANGED <<readersVars, threadVars, poolVars, nextWorker, delivered, passed>>

\* The caller asks for the next batch, or drops the generator.
Resume ==
  /\ consumer = "yielded"
  /\ Moves("choosing")
  /\ UNCHANGED <<readersVars, threadVars, poolVars, nextWorker, delivered, passed, closing>>

Drop ==
  /\ consumer = "yielded"
  /\ Moves("dropped")
  /\ Starts(Consumer)
  /\ UNCHANGED <<readersVars, threadVars, poolVars, nextWorker, delivered, passed>>

-----------------------------------------------------------------------------
(* close, on thread t. *)

CloseOutside ==
  /\ closing[Outside] = NotClosing
  /\ Starts(Outside)
  /\ UNCHANGED <<readersVars, threadVars, poolVars, consumerVars>>

Phase(t, phase, at) == closing' = [closing EXCEPT ![t].phase = phase, ![t].at = at]

\* A fault: close joins nobody.
CloseEnterNoJoin(t) ==
  /\ closing[t].phase = "enter"
  /\ closed' = TRUE
  /\ batches' = [w \in Worker |-> NoBatch]
  /\ NotifyAll
  /\ closing' = [closing EXCEPT ![t] = [phase |-> "pool", at |-> 0, joins |-> {}]]
  /\ UNCHANGED <<finished, failure, started, threadVars, poolVars, consumerVars>>

CloseEnter(t) ==
  /\ closing[t].phase = "enter"
  /\ closed' = TRUE
  /\ batches' = [w \in Worker |-> NoBatch]
  /\ NotifyAll
  /\ closing' = [closing EXCEPT ![t] =
                   [phase |-> "pool", at |-> 0,
                    joins |-> IF started THEN Worker \ {t} ELSE {}]]
  /\ UNCHANGED <<finished, failure, started, threadVars, poolVars, consumerVars>>

\* After the pools come the joins.
NextPool(t, w) ==
  IF w + 1 \in Worker THEN Phase(t, "pool", w + 1) ELSE Phase(t, "join", 0)

CloseTake(t) ==
  /\ closing[t].phase = "pool"
  /\ LET w == closing[t].at
     IN  /\ poolClosed' = [poolClosed EXCEPT ![w] = TRUE]
         /\ exposed' = [exposed EXCEPT ![w] = FALSE]
         /\ IF exposed[w] THEN Phase(t, "shut", w) ELSE NextPool(t, w)
  /\ UNCHANGED <<readersVars, threadVars, connection, consumerVars>>

CloseShut(t) ==
  /\ closing[t].phase = "shut"
  /\ LET w == closing[t].at
     IN  /\ connection' = [connection EXCEPT ![w] = IF @ = "live" THEN "shut" ELSE @]
         /\ NextPool(t, w)
  /\ UNCHANGED <<readersVars, threadVars, poolClosed, exposed, consumerVars>>

CloseJoin(t) ==
  /\ closing[t].phase = "join"
  /\ \A w \in closing[t].joins : reader[w] = "ended"
  /\ Phase(t, "done", 0)
  /\ UNCHANGED <<readersVars, threadVars, poolVars, consumerVars>>

Close(t) == CloseEnter(t) \/ CloseTake(t) \/ CloseShut(t) \/ CloseJoin(t)

-----------------------------------------------------------------------------
\* What a reader does without an answer of its worker: a shut socket is one.
Runs(w) ==
  \/ Expose(w) \/ NextAddress(w) \/ Observed(w) \/ Publish(w) \/ RecordFailure(w)
  \/ Release(w) \/ Finish(w)
  \/ connection[w] = "shut" /\ (Refused(w) \/ ReceiveError(w))

Answer(w) ==
  Accepted(w) \/ Refused(w) \/ ReceiveBatch(w) \/ ReceiveComplete(w) \/ ReceiveError(w)

Iterates == StartReaders \/ Wait \/ Take \/ Leave

Quiescent ==
  /\ consumer \in {"refused", "failed", "cancelled", "complete", "dropped", "created", "yielded"}
  /\ \A w \in Worker : reader[w] \in {"unstarted", "ended"}
  /\ UNCHANGED vars

Next ==
  \/ \E w \in Worker : Runs(w) \/ Answer(w) \/ Observe(w)
  \/ Read \/ Iterates \/ Resume \/ Drop
  \/ CloseOutside
  \/ \E t \in Thread : Close(t)
  \/ Quiescent

Spec == Init /\ [][Next]_vars

\* The threads of the process run.  Workers may stay silent, and the caller
\* need not ask for the next batch.
ReadersFairness ==
  /\ \A w \in Worker : WF_vars(Runs(w))
  /\ \A t \in Thread : WF_vars(Close(t))
  /\ WF_vars(Iterates)

-----------------------------------------------------------------------------
Waiting(w) == (IF batches[w] = NoBatch THEN 0 ELSE 1) + (IF held[w] = NoBatch THEN 0 ELSE 1)

\* Until somebody closes the pool, each batch of each worker is in exactly one
\* place, delivered or in the slot or held by its reader, and they leave in
\* the order they came: the slot holds the one after those delivered.  An
\* iteration that ends without an error has delivered everything: every worker
\* completed, and a failure is never hidden by an end or by a full slot.
LosslessInOrder ==
  /\ ~ closed =>
       \A w \in Worker :
         /\ received[w] = delivered[w] + Waiting(w)
         /\ batches[w] \in {NoBatch, delivered[w] + 1}
  /\ (consumer = "complete") =>
       \A w \in Worker : ending[w] = "complete" /\ delivered[w] = received[w]

\* Nobody sleeps on a condition that holds: each change that could wake a
\* reader or the consumer also notifies it.
NoLostWakeup ==
  /\ \A w \in Worker \cap asleep : ~ SlotFree(w)
  /\ Consumer \in asleep => ~ SomethingToDo

\* "Rotating the first slot avoids starving a sparse worker": while a batch
\* waits in a slot, every other worker is served at most once before it.
ServedInTurn == \A w \in Worker : batches[w] # NoBatch => passed[w] < Cardinality(Worker)

\* When close returns, the readers it found have ended, and once every call of
\* close has returned no connection of a closed pool is left open.
CloseReaps ==
  /\ \A t \in Thread :
       closing[t].phase = "done" => \A w \in Worker \ {t} : reader[w] \in {"unstarted", "ended"}
  /\ closed /\ (\A t \in Thread : closing[t].phase \in {"no", "done"}) =>
       \A w \in Worker : connection[w] # "live"

\* close "cancels target connections, wakes blocked publishers, and reaps
\* readers": every call returns, although the workers may never answer.
CloseReturns == closed ~> \A t \in Thread : closing[t].phase \in {"no", "done"}
=============================================================================
