---------------------- MODULE EndpointReadersInvariant ----------------------
(***************************************************************************)
(* The inductive invariant of the reader threads of a pool.                *)
(***************************************************************************)
EXTENDS EndpointReaders

N == Cardinality(Worker)

Places == {"unstarted", "resolving", "connecting", "unconnected", "receiving", "observing",
           "publishing", "failing", "releasing", "finishing", "ended"}
Reading == {"unread", "created", "choosing", "yielded"}
Left == {"refused", "failed", "cancelled", "complete", "dropped"}
Phases == {"no", "enter", "pool", "shut", "join", "done"}

Progress == [phase : Phases, at : Worker, joins : SUBSET Worker]

ReadersType ==
  /\ closed \in BOOLEAN
  /\ batches \in [Worker -> Nat]
  /\ finished \in [Worker -> BOOLEAN]
  /\ failure \in Worker \cup {Nobody}
  /\ started \in BOOLEAN
  /\ asleep \subseteq Thread

ThreadType ==
  /\ reader \in [Worker -> Places]
  /\ address \in [Worker -> Nat]
  /\ held \in [Worker -> Nat]
  /\ received \in [Worker -> Nat]
  /\ ending \in [Worker -> {"none", "complete", "error"}]

PoolType ==
  /\ poolClosed \in [Worker -> BOOLEAN]
  /\ exposed \in [Worker -> BOOLEAN]
  /\ connection \in [Worker -> {"none", "live", "shut"}]

ConsumerType ==
  /\ consumer \in Reading \cup Left
  /\ nextWorker \in Worker
  /\ delivered \in [Worker -> Nat]
  /\ passed \in [Worker -> Nat]

ClosingType == closing \in [Thread -> Progress]

\* The variables of readers, threads, connections, consumer and close have their
\* types.
TypeOK == ReadersType /\ ThreadType /\ PoolType /\ ConsumerType /\ ClosingType

\* A reader holds a batch exactly while it publishes, and it is the last one it
\* received; while the pool is open every batch received is accounted for.
HeldInv ==
  /\ \A w \in Worker :
       /\ reader[w] = "publishing" <=> held[w] # NoBatch
       /\ reader[w] = "publishing" => held[w] = received[w]
  /\ ~ closed =>
       \A w \in Worker :
         /\ received[w] = delivered[w] + Waiting(w)
         /\ batches[w] \in {NoBatch, delivered[w] + 1}

\* No reader runs before the first step of the generator.
StartInv ==
  /\ consumer \in {"unread", "created"} => ~ started
  /\ ~ started => \A w \in Worker : reader[w] = "unstarted"

\* A reader that has ended without a recorded failure had a complete run.
EndInv ==
  /\ \A w \in Worker : finished[w] => reader[w] = "ended"
  /\ ~ closed /\ failure = Nobody =>
       \A w \in Worker : reader[w] \in {"releasing", "finishing", "ended"} => ending[w] = "complete"
  /\ consumer = "complete" =>
       \A w \in Worker :
         reader[w] = "ended" /\ ending[w] = "complete" /\ delivered[w] = received[w]

\* Thread t is past the first locked block of close.
Entered(t) == closing[t].phase \in {"pool", "shut", "join", "done"}

\* While it iterates the consumer is not in close.
IdleInv == consumer \in Reading => closing[Consumer] = NotClosing

\* The pool is closed exactly when some thread has entered close.
ClosedInv == closed <=> \E t \in Thread : Entered(t)

\* A thread in close has closed the pools before the one it is at, joins every
\* reader there can be but itself, and is done only when these have ended.
Closer(t) ==
  /\ Entered(t) => ~ started \/ closing[t].joins = Worker \ {t}
  /\ closing[t].phase \in {"pool", "shut"} => \A v \in Worker : v < closing[t].at => poolClosed[v]
  /\ closing[t].phase = "shut" => poolClosed[closing[t].at]
  /\ closing[t].phase \in {"join", "done"} => \A v \in Worker : poolClosed[v]
  /\ closing[t].phase = "done" => \A w \in closing[t].joins : reader[w] = "ended"

\* That holds of every thread in close, however many there are.
CloserInv == \A t \in Thread : Closer(t)

\* An open socket is visible to close, or close is about to shut it.
SocketInv ==
  \A w \in Worker :
    /\ exposed[w] => ~ poolClosed[w]
    /\ connection[w] = "live" =>
         exposed[w] \/ \E t \in Thread : closing[t].phase = "shut" /\ closing[t].at = w

\* What close rests on.
ClosingInv == IdleInv /\ ClosedInv /\ CloserInv /\ SocketInv

\* The slots the consumer looks at before w.
Away(from, w) == IF w >= from THEN w - from ELSE w - from + N
Distance(w) == Away(nextWorker, w)

\* The turns in which a full slot was passed over, and the slots still before it,
\* make less than a whole round.
TurnInv == \A w \in Worker : batches[w] # NoBatch => passed[w] + Distance(w) < N

\* The inductive invariant.
IInv == TypeOK /\ HeldInv /\ StartInv /\ EndInv /\ ClosingInv /\ TurnInv /\ NoLostWakeup
=============================================================================
