----------------------- MODULE EndpointReadersProofs ------------------------
(***************************************************************************)
(* The reader threads of a pool are correct for every number of workers,   *)
(* addresses and batches and for every set of observers that close.        *)
(***************************************************************************)
EXTENDS EndpointReadersInvariant, TLAPS

\* A step is a matter of logic, unless it cites SMT for arithmetic or sequences.
USE ZenonT(30)

-----------------------------------------------------------------------------
(* Facts about threads and about the steps of close. *)

\* The workers are numbered from 0.
LEMMA WorkerFact == N \in Nat \ {0} /\ Worker = 0 .. N - 1
  BY ReadersAssumption DEF N

\* The consumer and the outside thread are no readers, and Nobody is no worker.
LEMMA ThreadFact ==
  /\ 0 \in Worker
  /\ Worker \subseteq Thread /\ Consumer \in Thread /\ Outside \in Thread
  /\ Consumer \notin Worker /\ Outside \notin Worker /\ Nobody \notin Worker
  /\ Consumer # Outside
BY WorkerFact, SMT DEF Thread, Consumer, Outside, Nobody

\* A thread that enters close; the others stay where they are.
LEMMA StartsFact ==
  ASSUME NEW t \in Thread, ClosingType, Starts(t)
  PROVE  /\ ClosingType'
         /\ closing'[t] = [phase |-> "enter", at |-> 0, joins |-> {}]
         /\ \A u \in Thread \ {t} : closing'[u] = closing[u]
<1>1. [phase |-> "enter", at |-> 0, joins |-> {}] \in Progress
  BY ThreadFact DEF Progress, Phases
<1>2. closing' = [closing EXCEPT ![t] = [phase |-> "enter", at |-> 0, joins |-> {}]]
  <2>1. [NotClosing EXCEPT !.phase = "enter"] = [phase |-> "enter", at |-> 0, joins |-> {}]
    BY SMT DEF NotClosing
  <2> QED
    BY <2>1 DEF Starts
<1> QED
  BY <1>1, <1>2 DEF ClosingType

\* An observer that closes enters close as any other thread does.
LEMMA ObserveStarts ==
  ASSUME NEW w \in Worker, ClosingType, Observe(w)
  PROVE  Starts(w)
<1>1. closing[w] = NotClosing /\ closing' = [closing EXCEPT ![w].phase = "enter"]
  BY DEF Observe
<1>2. closing' = [closing EXCEPT ![w] = [closing[w] EXCEPT !.phase = "enter"]]
  BY <1>1
<1> QED
  BY <1>1, <1>2 DEF Starts

\* The locked block of close: the reader threads to join are those there are.
LEMMA EnterFact ==
  ASSUME NEW t \in Thread, ClosingType, CloseEnter(t)
  PROVE  /\ ClosingType'
         /\ closing'[t].phase = "pool" /\ closing'[t].at = 0
         /\ closing'[t].joins = IF started THEN Worker \ {t} ELSE {}
         /\ \A u \in Thread \ {t} : closing'[u] = closing[u]
<1> DEFINE c == [phase |-> "pool", at |-> 0, joins |-> IF started THEN Worker \ {t} ELSE {}]
<1>1. c \in Progress /\ c.phase = "pool" /\ c.at = 0
      /\ c.joins = IF started THEN Worker \ {t} ELSE {}
  BY ThreadFact DEF Progress, Phases
<1>2. closing' = [closing EXCEPT ![t] = c]
  BY DEF CloseEnter
<1> HIDE DEF c
<1> QED
  BY <1>1, <1>2 DEF ClosingType

\* A step of close to another phase keeps the joins.
LEMMA PhaseFact ==
  ASSUME NEW t \in Thread, NEW p \in Phases, NEW a \in Worker, ClosingType, Phase(t, p, a)
  PROVE  /\ ClosingType'
         /\ closing'[t].phase = p /\ closing'[t].at = a /\ closing'[t].joins = closing[t].joins
         /\ \A u \in Thread \ {t} : closing'[u] = closing[u]
<1> DEFINE c == [closing[t] EXCEPT !.phase = p, !.at = a]
<1>1. closing[t] \in Progress
  BY DEF ClosingType
<1>2. c \in Progress /\ c.phase = p /\ c.at = a /\ c.joins = closing[t].joins
  BY <1>1 DEF Progress
<1>3. closing' = [closing EXCEPT ![t] = c]
  BY DEF Phase, ClosingType
<1> HIDE DEF c
<1> QED
  BY <1>2, <1>3 DEF ClosingType

\* After a pool comes the next one, after the last one the joins.
LEMMA NextPoolFact ==
  ASSUME NEW t \in Thread, NEW w \in Worker, ClosingType, NextPool(t, w)
  PROVE  /\ ClosingType'
         /\ closing'[t].joins = closing[t].joins
         /\ \/ closing'[t].phase = "pool" /\ closing'[t].at = w + 1
            \/ closing'[t].phase = "join" /\ \A v \in Worker : v <= w
         /\ \A u \in Thread \ {t} : closing'[u] = closing[u]
<1>1. CASE w + 1 \in Worker
  <2>1. Phase(t, "pool", w + 1) /\ "pool" \in Phases
    BY <1>1 DEF NextPool, Phases
  <2> QED
    BY <1>1, <2>1, PhaseFact
<1>2. CASE w + 1 \notin Worker
  <2>1. Phase(t, "join", 0) /\ "join" \in Phases
    BY <1>2 DEF NextPool, Phases
  <2>2. \A v \in Worker : v <= w
    BY <1>2, WorkerFact, SMT
  <2> QED
    BY <2>1, <2>2, PhaseFact, ThreadFact
<1> QED
  BY <1>1, <1>2

-----------------------------------------------------------------------------
(* Readers, batches and sleepers. *)

\* Readers are started once, by the first step of the generator.
LEMMA StartStep ==
  ASSUME TypeOK, StartInv, [Next]_vars
  PROVE  StartInv'
<1> USE DEF StartInv, TypeOK, ReadersType, ThreadType, PoolType, ConsumerType, vars,
   readersVars, threadVars, poolVars, consumerVars
<1>1. ASSUME NEW w \in Worker,
             \/ Expose(w) \/ Accepted(w) \/ Refused(w) \/ NextAddress(w)
             \/ ReceiveBatch(w)
      PROVE  StartInv'
  BY <1>1 DEF Expose, Goes, Accepted, Refused, NextAddress, ReceiveBatch
<1>2. ASSUME NEW w \in Worker,
             \/ ReceiveComplete(w) \/ ReceiveError(w) \/ Observe(w) \/ Observed(w)
             \/ Publish(w)
      PROVE  StartInv'
  BY <1>2 DEF ReceiveComplete, Goes, ClosePool, ReceiveError, Observe, Observed, Publish, SlotFree,
     NotifyAll
<1>3. ASSUME NEW w \in Worker, RecordFailure(w) \/ Release(w) \/ Finish(w)
      PROVE  StartInv'
  BY <1>3 DEF RecordFailure, Goes, NotifyAll, Release, ClosePool, Finish
<1>4. CASE Read \/ StartReaders \/ Wait \/ Take \/ Leave
  BY <1>4, SMT DEF Read, Moves, StartReaders, Wait, Take, NotifyAll, Leave
<1>5. CASE Resume \/ Drop \/ CloseOutside
  BY <1>5, SMT DEF Resume, Moves, Drop, CloseOutside
<1>6. ASSUME NEW t \in Thread,
             \/ CloseEnter(t) \/ CloseTake(t) \/ CloseShut(t) \/ CloseJoin(t)
      PROVE  StartInv'
  BY <1>6, SMT DEF CloseEnter, NotifyAll, CloseTake, CloseShut, CloseJoin
<1>7. CASE UNCHANGED vars
  BY <1>7
<1> QED
  BY <1>1, <1>2, <1>3, <1>4, <1>5, <1>6, <1>7 DEF Next, Runs, Answer, Iterates, Close, Quiescent

\* A reader that fails records it before it ends, so the iteration cannot end as
\* complete after a failure.
LEMMA EndStep ==
  ASSUME TypeOK, StartInv, HeldInv, EndInv, [Next]_vars
  PROVE  EndInv'
<1> USE DEF EndInv, StartInv, TypeOK, ReadersType, ThreadType, PoolType, ConsumerType, vars,
   readersVars, threadVars, poolVars, consumerVars
<1>1. ASSUME NEW w \in Worker,
             \/ Expose(w) \/ Accepted(w) \/ Refused(w) \/ NextAddress(w)
             \/ ReceiveBatch(w)
      PROVE  EndInv'
  BY <1>1, SMT DEF Expose, Goes, Accepted, Refused, NextAddress, ReceiveBatch
<1>2. ASSUME NEW w \in Worker,
             \/ ReceiveComplete(w) \/ ReceiveError(w) \/ Observe(w) \/ Observed(w)
             \/ Publish(w)
      PROVE  EndInv'
  BY <1>2, SMT DEF ReceiveComplete, Goes, ClosePool, ReceiveError, Observe, Observed, Publish,
     SlotFree, NotifyAll
<1>3. ASSUME NEW w \in Worker, RecordFailure(w) PROVE EndInv'
  BY <1>3, ThreadFact, SMT DEF RecordFailure, Goes, NotifyAll
<1>4. ASSUME NEW w \in Worker, Release(w) \/ Finish(w)
      PROVE  EndInv'
  BY <1>4, SMT DEF Release, Goes, ClosePool, Finish, NotifyAll
<1>5. CASE Read \/ StartReaders \/ Wait \/ Take
  BY <1>5, SMT DEF Read, Moves, StartReaders, Wait, Take, NotifyAll
<1>6. CASE Leave
  <2>1. consumer' = "complete" =>
          ~ closed /\ failure = Nobody /\ \A w \in Worker : batches[w] = NoBatch
    BY <1>6 DEF Leave, Moves
  <2>2. consumer' = "complete" => \A w \in Worker : finished[w]
    BY <1>6, <2>1 DEF Leave, SomethingToDo
  <2>3. consumer' = "complete" => \A w \in Worker : delivered[w] = received[w]
    BY <2>1, <2>2, SMT DEF HeldInv, Waiting, NoBatch
  <2> QED
    BY <1>6, <2>1, <2>2, <2>3 DEF Leave
<1>7. CASE Resume \/ Drop \/ CloseOutside
  BY <1>7 DEF Resume, Moves, Drop, CloseOutside
<1>8. ASSUME NEW t \in Thread,
             \/ CloseEnter(t) \/ CloseTake(t) \/ CloseShut(t) \/ CloseJoin(t)
      PROVE  EndInv'
  <2>1. CASE CloseEnter(t)
    BY <2>1 DEF CloseEnter, NotifyAll
  <2>2. CASE CloseTake(t)
    BY <2>2 DEF CloseTake
  <2>3. CASE CloseShut(t)
    BY <2>3 DEF CloseShut
  <2>4. CASE CloseJoin(t)
    BY <2>4 DEF CloseJoin
  <2> QED
    BY <1>8, <2>1, <2>2, <2>3, <2>4
<1>9. CASE UNCHANGED vars
  BY <1>9
<1> QED
  BY <1>1, <1>2, <1>3, <1>4, <1>5, <1>6, <1>7, <1>8, <1>9 DEF Next, Runs, Answer, Iterates, Close,
     Quiescent

\* Each step that makes a predicate of wait_for true empties the set of sleepers.
LEMMA WakeupStep ==
  ASSUME TypeOK, NoLostWakeup, [Next]_vars
  PROVE  NoLostWakeup'
<1> USE ThreadFact DEF NoLostWakeup, SlotFree, SomethingToDo, TypeOK, ReadersType,
   ThreadType, PoolType, ConsumerType, vars, readersVars, threadVars, poolVars, consumerVars
<1>1. ASSUME NEW w \in Worker,
             \/ Expose(w) \/ Accepted(w) \/ Refused(w) \/ NextAddress(w)
             \/ ReceiveBatch(w)
      PROVE  NoLostWakeup'
  BY <1>1, SMT DEF Expose, Goes, Accepted, Refused, NextAddress, ReceiveBatch
<1>2. ASSUME NEW w \in Worker,
             \/ ReceiveComplete(w) \/ ReceiveError(w) \/ Observe(w) \/ Observed(w)
             \/ Publish(w)
      PROVE  NoLostWakeup'
  BY <1>2, SMT DEF ReceiveComplete, Goes, ClosePool, ReceiveError, Observe, Observed, Publish,
     SlotFree, NotifyAll
<1>3. ASSUME NEW w \in Worker, RecordFailure(w) \/ Release(w) \/ Finish(w)
      PROVE  NoLostWakeup'
  BY <1>3, SMT DEF RecordFailure, Goes, NotifyAll, Release, ClosePool, Finish
<1>4. CASE Read \/ StartReaders \/ Wait \/ Take \/ Leave
  BY <1>4, SMT DEF Read, Moves, StartReaders, Wait, Take, NotifyAll, Leave
<1>5. CASE Resume \/ Drop \/ CloseOutside
  BY <1>5, SMT DEF Resume, Moves, Drop, CloseOutside
<1>6. ASSUME NEW t \in Thread,
             \/ CloseEnter(t) \/ CloseTake(t) \/ CloseShut(t) \/ CloseJoin(t)
      PROVE  NoLostWakeup'
  BY <1>6, SMT DEF CloseEnter, NotifyAll, CloseTake, CloseShut, CloseJoin
<1>7. CASE UNCHANGED vars
  BY <1>7
<1> QED
  BY <1>1, <1>2, <1>3, <1>4, <1>5, <1>6, <1>7 DEF Next, Runs, Answer, Iterates, Close, Quiescent

-----------------------------------------------------------------------------
(* close. *)

\* The pools stay closed and the readers ended while a thread is in close.
LEMMA CloserKept ==
  ASSUME NEW t \in Thread, TypeOK, Closer(t), closing'[t] = closing[t], started' = started,
         \A v \in Worker : poolClosed[v] => poolClosed'[v],
         \A v \in Worker : reader[v] = "ended" => reader'[v] = "ended"
  PROVE  Closer(t)'
<1>1. closing[t].at \in Worker /\ closing[t].joins \subseteq Worker
  BY DEF TypeOK, ClosingType, Progress
<1> QED
  BY <1>1 DEF Closer, Entered

\* So only the thread that moves needs a look.
LEMMA CloserMoves ==
  ASSUME NEW t \in Thread, TypeOK, CloserInv, UNCHANGED <<started, reader>>,
         \A u \in Thread \ {t} : closing'[u] = closing[u],
         \A v \in Worker : poolClosed[v] => poolClosed'[v],
         Closer(t)'
  PROVE  CloserInv'
<1>1. ASSUME NEW u \in Thread, u # t PROVE Closer(u)'
  BY <1>1, CloserKept DEF CloserInv
<1> QED
  BY <1>1 DEF CloserInv

\* What readers and consumer may do while nobody moves in close.
LEMMA OthersKeep ==
  ASSUME TypeOK, IdleInv, ClosedInv, CloserInv, UNCHANGED <<closing, closed, started>>,
         consumer' \in Reading => consumer \in Reading,
         \A v \in Worker : poolClosed[v] => poolClosed'[v],
         \A v \in Worker : reader[v] = "ended" => reader'[v] = "ended"
  PROVE  (IdleInv /\ ClosedInv /\ CloserInv)'
<1>1. (IdleInv /\ ClosedInv)'
  BY DEF IdleInv, ClosedInv, Entered
<1>2. ASSUME NEW t \in Thread PROVE Closer(t)'
  BY CloserKept DEF CloserInv
<1> QED
  BY <1>1, <1>2 DEF CloserInv

\* A thread may enter close at any time.
LEMMA StartsKeeps ==
  ASSUME TypeOK, ClosingInv, NEW t \in Thread, Starts(t), closing[t] = NotClosing,
         UNCHANGED <<closed, started, poolClosed, exposed, connection>>,
         consumer' \in Reading => t # Consumer /\ consumer \in Reading,
         \A v \in Worker : reader[v] = "ended" => reader'[v] = "ended"
  PROVE  ClosingInv'
<1>1. /\ closing'[t].phase = "enter" /\ closing[t].phase = "no"
      /\ \A u \in Thread \ {t} : closing'[u] = closing[u]
  BY StartsFact, SMT DEF TypeOK, NotClosing
<1>2. IdleInv'
  BY <1>1, ThreadFact DEF ClosingInv, IdleInv
<1>3. ClosedInv'
  BY <1>1 DEF ClosingInv, ClosedInv, Entered
<1>4. CloserInv'
  <2>1. ASSUME NEW u \in Thread, u # t PROVE Closer(u)'
    BY <1>1, <2>1, CloserKept DEF ClosingInv, CloserInv
  <2>2. Closer(t)'
    BY <1>1 DEF Closer, Entered
  <2> QED
    BY <2>1, <2>2 DEF CloserInv
<1>5. SocketInv'
  BY <1>1, SMT DEF ClosingInv, SocketInv
<1> QED
  BY <1>2, <1>3, <1>4, <1>5 DEF ClosingInv

\* A thread that is done with a pool goes on with all it has closed.
LEMMA PoolDone ==
  ASSUME TypeOK, IdleInv, ClosedInv, CloserInv, NEW t \in Thread,
         closing[t].phase \in {"pool", "shut"}, NextPool(t, closing[t].at),
         poolClosed'[closing[t].at], \A v \in Worker : poolClosed[v] => poolClosed'[v],
         UNCHANGED <<closed, started, reader, consumer>>
  PROVE  (IdleInv /\ ClosedInv /\ CloserInv)'
<1> DEFINE p == closing[t].at
<1>1. p \in Worker
  BY DEF TypeOK, ClosingType, Progress
<1>2. /\ closing'[t].joins = closing[t].joins
      /\ \/ closing'[t].phase = "pool" /\ closing'[t].at = p + 1
         \/ closing'[t].phase = "join" /\ \A v \in Worker : v <= p
      /\ \A u \in Thread \ {t} : closing'[u] = closing[u]
  BY <1>1, NextPoolFact DEF TypeOK
<1>3. \A v \in Worker : v <= p => poolClosed'[v]
  BY <1>1, WorkerFact, SMT DEF CloserInv, Closer
<1>4. ~ started \/ closing[t].joins = Worker \ {t}
  BY DEF CloserInv, Closer, Entered
<1>5. IdleInv'
  BY <1>2, ThreadFact, SMT DEF IdleInv, NotClosing
<1>6. ClosedInv'
  BY <1>2 DEF ClosedInv, Entered
<1>7. CASE closing'[t].phase = "pool" /\ closing'[t].at = p + 1
  <2>1. \A v \in Worker : v < closing'[t].at => poolClosed'[v]
    BY <1>1, <1>3, <1>7, WorkerFact, SMT
  <2>2. Closer(t)'
    BY <1>2, <1>4, <1>7, <2>1 DEF Closer, Entered
  <2> QED
    BY <1>2, <1>5, <1>6, <2>2, CloserMoves
<1>8. CASE closing'[t].phase = "join" /\ \A v \in Worker : v <= p
  <2>1. \A v \in Worker : poolClosed'[v]
    BY <1>3, <1>8
  <2>2. Closer(t)'
    BY <1>2, <1>4, <1>8, <2>1 DEF Closer, Entered
  <2> QED
    BY <1>2, <1>5, <1>6, <2>2, CloserMoves
<1> QED
  BY <1>2, <1>7, <1>8

\* A socket is opened only while its pool is open, and whoever takes it from the
\* pool shuts it; a thread in close closes the pools one after the other and joins
\* the readers there were when it entered, and none can start later.
LEMMA ClosingStep ==
  ASSUME TypeOK, StartInv, ClosingInv, [Next]_vars
  PROVE  ClosingInv'
<1> USE ThreadFact DEF ClosingInv, TypeOK, ReadersType, ThreadType, PoolType, ConsumerType,
    vars, readersVars, threadVars, poolVars, consumerVars
<1>1. ASSUME NEW w \in Worker,
             \/ Expose(w) \/ Accepted(w) \/ Refused(w) \/ NextAddress(w)
             \/ ReceiveBatch(w) \/ ReceiveComplete(w) \/ ReceiveError(w) \/ Observed(w)
             \/ Publish(w) \/ RecordFailure(w) \/ Release(w) \/ Finish(w)
      PROVE  ClosingInv'
  <2> USE DEF Expose, Accepted, Refused, NextAddress, ReceiveBatch, ReceiveComplete,
      ReceiveError, Observed, Publish, RecordFailure, Release, Finish
  <2>1. UNCHANGED <<closing, closed, started, consumer>>
    BY <1>1
  <2>2. \A v \in Worker : poolClosed[v] => poolClosed'[v]
    <3>1. CASE NextAddress(w)
      BY <3>1
    <3>2. CASE ReceiveComplete(w) \/ ReceiveError(w) \/ Release(w)
      BY <3>2 DEF ClosePool
    <3>3. CASE UNCHANGED poolClosed
      BY <3>3
    <3> QED
      BY <1>1, <3>1, <3>2, <3>3
  <2>3. \A v \in Worker : reader[v] = "ended" => reader'[v] = "ended"
    <3>1. \/ reader' = reader
          \/ reader[w] # "ended" /\ \E place \in Places : Goes(w, place)
      BY <1>1 DEF Places
    <3> QED
      BY <3>1 DEF Goes
  <2>4. (IdleInv /\ ClosedInv /\ CloserInv)'
    BY <2>1, <2>2, <2>3, OthersKeep
  <2>5. \A v \in Worker : exposed'[v] => ~ poolClosed'[v]
    <3>1. CASE Expose(w)
      BY <3>1, SMT DEF SocketInv
    <3>2. CASE NextAddress(w)
      BY <3>2, SMT DEF SocketInv
    <3>3. CASE ReceiveComplete(w) \/ ReceiveError(w) \/ Release(w)
      <4>1. ClosePool(w)
        BY <3>3
      <4> QED
        BY <4>1 DEF SocketInv, ClosePool
    <3>4. CASE UNCHANGED <<exposed, poolClosed>>
      BY <3>4 DEF SocketInv
    <3> QED
      BY <1>1, <3>1, <3>2, <3>3, <3>4
  <2>6. \A v \in Worker :
          connection'[v] = "live" => exposed'[v] \/ (connection[v] = "live" /\ ~ exposed[v])
    <3>1. CASE Expose(w)
      BY <3>1, SMT
    <3>2. CASE NextAddress(w)
      BY <3>2
    <3>3. CASE ReceiveComplete(w) \/ ReceiveError(w) \/ Release(w)
      BY <3>3 DEF ClosePool
    <3>4. CASE UNCHANGED <<exposed, connection>>
      BY <3>4
    <3> QED
      BY <1>1, <3>1, <3>2, <3>3, <3>4
  <2>7. SocketInv'
    BY <2>1, <2>5, <2>6 DEF SocketInv
  <2> QED
    BY <2>4, <2>7
<1>2. ASSUME NEW w \in Worker, Observe(w) PROVE ClosingInv'
  <2>1. Starts(w)
    BY <1>2, ObserveStarts
  <2> QED
    BY <1>2, <2>1, StartsKeeps DEF Observe, Goes
<1>3. CASE Read \/ Wait \/ Take \/ Resume
  <2>1. /\ UNCHANGED <<closing, closed, started, reader, poolClosed, exposed, connection>>
        /\ consumer' \in Reading => consumer \in Reading
    BY <1>3 DEF Read, Wait, Take, Resume, Moves, Reading
  <2>2. (IdleInv /\ ClosedInv /\ CloserInv)'
    BY <2>1, OthersKeep
  <2> QED
    BY <2>1, <2>2 DEF SocketInv
<1>4. CASE StartReaders
  <2>1. CASE closed
    BY <1>4, <2>1, StartsKeeps DEF StartReaders, Moves, IdleInv, Reading
  <2>2. CASE ~ closed
    <3>1. \A u \in Thread : closing'[u] = closing[u] /\ closing[u].phase \in {"no", "enter"}
      BY <1>4, <2>2 DEF StartReaders, ClosedInv, Entered, ClosingType, Progress, Phases
    <3>2. UNCHANGED <<closed, poolClosed, exposed, connection>> /\ consumer \in Reading
      BY <1>4, <2>2 DEF StartReaders, Reading
    <3>3. (IdleInv /\ ClosedInv)'
      BY <3>1, <3>2 DEF IdleInv, ClosedInv, Entered
    <3>4. CloserInv'
      BY <3>1 DEF CloserInv, Closer, Entered
    <3>5. SocketInv'
      BY <3>1, <3>2 DEF SocketInv
    <3> QED
      BY <3>3, <3>4, <3>5
  <2> QED
    BY <2>1, <2>2
<1>5. CASE Leave
  BY <1>5, StartsKeeps DEF Leave, Moves, IdleInv, Reading
<1>6. CASE Drop
  BY <1>6, StartsKeeps DEF Drop, Moves, IdleInv, Reading
<1>7. CASE CloseOutside
  BY <1>7, StartsKeeps DEF CloseOutside
<1>8. ASSUME NEW t \in Thread, CloseEnter(t) PROVE ClosingInv'
  <2>1. /\ closing'[t].phase = "pool" /\ closing'[t].at = 0
        /\ closing'[t].joins = IF started THEN Worker \ {t} ELSE {}
        /\ \A u \in Thread \ {t} : closing'[u] = closing[u]
    BY <1>8, EnterFact
  <2>2. /\ closing[t].phase = "enter" /\ closed'
        /\ UNCHANGED <<started, reader, consumer, poolClosed, exposed, connection>>
    BY <1>8 DEF CloseEnter
  <2>3. IdleInv'
    BY <2>1, <2>2, SMT DEF IdleInv, NotClosing
  <2>4. ClosedInv'
    BY <2>1, <2>2 DEF ClosedInv, Entered
  <2>5. CloserInv'
    <3>1. Closer(t)'
      BY <2>1, <2>2, WorkerFact, SMTT(30) DEF Closer, Entered
    <3> QED
      BY <2>1, <2>2, <3>1, CloserMoves
  <2>6. SocketInv'
    BY <2>1, <2>2, SMT DEF SocketInv
  <2> QED
    BY <2>3, <2>4, <2>5, <2>6
<1>9. ASSUME NEW t \in Thread, CloseTake(t) PROVE ClosingInv'
  <2> DEFINE p == closing[t].at
  <2>1. p \in Worker /\ "shut" \in Phases
    BY DEF ClosingType, Progress, Phases
  <2>2. /\ closing[t].phase = "pool" /\ poolClosed'[p]
        /\ \A v \in Worker : poolClosed[v] => poolClosed'[v]
        /\ UNCHANGED <<closed, started, reader, consumer, connection>>
    BY <1>9, <2>1 DEF CloseTake
  <2>3. \A v \in Worker : /\ exposed'[v] <=> exposed[v] /\ v # p
                          /\ v # p => poolClosed'[v] = poolClosed[v]
    BY <1>9, <2>1 DEF CloseTake
  <2>4. CASE exposed[p]
    <3>1. Phase(t, "shut", p)
      BY <1>9, <2>4 DEF CloseTake
    <3>2. /\ closing'[t].phase = "shut" /\ closing'[t].at = p
          /\ closing'[t].joins = closing[t].joins
          /\ \A u \in Thread \ {t} : closing'[u] = closing[u]
      BY <2>1, <3>1, PhaseFact
    <3>3. IdleInv'
      BY <2>2, <3>2, SMT DEF IdleInv, NotClosing
    <3>4. ClosedInv'
      BY <2>2, <3>2 DEF ClosedInv, Entered
    <3>5. CloserInv'
      <4>1. Closer(t)'
        BY <2>1, <2>2, <3>2 DEF CloserInv, Closer, Entered
      <4> QED
        BY <2>2, <3>2, <4>1, CloserMoves
    <3>6. SocketInv'
      BY <2>1, <2>2, <2>3, <3>2, SMT DEF SocketInv
    <3> QED
      BY <3>3, <3>4, <3>5, <3>6
  <2>5. CASE ~ exposed[p]
    <3>1. NextPool(t, p)
      BY <1>9, <2>5 DEF CloseTake
    <3>2. (IdleInv /\ ClosedInv /\ CloserInv)'
      BY <2>2, <3>1, PoolDone
    <3>3. \A u \in Thread \ {t} : closing'[u] = closing[u]
      BY <2>1, <3>1, NextPoolFact
    <3>4. SocketInv'
      BY <2>2, <2>3, <2>5, <3>3, SMT DEF SocketInv
    <3> QED
      BY <3>2, <3>4
  <2> QED
    BY <2>4, <2>5
<1>10. ASSUME NEW t \in Thread, CloseShut(t) PROVE ClosingInv'
  <2> DEFINE p == closing[t].at
  <2>1. p \in Worker /\ NextPool(t, p) /\ closing[t].phase = "shut"
    BY <1>10 DEF CloseShut, ClosingType, Progress
  <2>2. UNCHANGED <<closed, started, reader, consumer, poolClosed, exposed>>
    BY <1>10 DEF CloseShut
  <2>3. (IdleInv /\ ClosedInv /\ CloserInv)'
    BY <2>1, <2>2, PoolDone DEF CloserInv, Closer
  <2>4. \A u \in Thread \ {t} : closing'[u] = closing[u]
    BY <2>1, NextPoolFact
  <2>5. connection'[p] # "live" /\ \A v \in Worker \ {p} : connection'[v] = connection[v]
    BY <1>10, <2>1 DEF CloseShut
  <2>6. ASSUME NEW v \in Worker, connection'[v] = "live", ~ exposed'[v]
        PROVE  \E u \in Thread : closing'[u].phase = "shut" /\ closing'[u].at = v
    <3>1. v # p /\ connection[v] = "live" /\ ~ exposed[v]
      BY <2>2, <2>5, <2>6
    <3>2. PICK u \in Thread : closing[u].phase = "shut" /\ closing[u].at = v
      BY <3>1 DEF SocketInv
    <3> QED
      BY <2>4, <3>1, <3>2
  <2> QED
    BY <2>2, <2>3, <2>6 DEF SocketInv
<1>11. ASSUME NEW t \in Thread, CloseJoin(t) PROVE ClosingInv'
  <2>1. /\ closing'[t].phase = "done" /\ closing'[t].joins = closing[t].joins
        /\ \A u \in Thread \ {t} : closing'[u] = closing[u]
    BY <1>11, PhaseFact DEF CloseJoin, Phases
  <2>2. /\ closing[t].phase = "join" /\ \A w \in closing[t].joins : reader[w] = "ended"
        /\ UNCHANGED <<closed, started, reader, consumer, poolClosed, exposed, connection>>
    BY <1>11 DEF CloseJoin
  <2>3. IdleInv'
    <3>1. ASSUME consumer \in Reading PROVE closing'[Consumer] = NotClosing
      <4>1. closing[Consumer] = NotClosing
        BY <3>1 DEF IdleInv
      <4>2. t # Consumer
        BY <2>2, <4>1, SMT DEF NotClosing
      <4> QED
        BY <2>1, <4>1, <4>2
    <3> QED
      BY <2>2, <3>1 DEF IdleInv
  <2>4. ClosedInv'
    BY <2>1, <2>2 DEF ClosedInv, Entered
  <2>5. CloserInv'
    <3>1. Closer(t)'
      BY <2>1, <2>2 DEF CloserInv, Closer, Entered
    <3> QED
      BY <2>1, <2>2, <3>1, CloserMoves
  <2>6. SocketInv'
    BY <2>1, <2>2, SMT DEF SocketInv
  <2> QED
    BY <2>3, <2>4, <2>5, <2>6
<1>12. CASE UNCHANGED vars
  <2>1. (IdleInv /\ ClosedInv)'
    BY <1>12 DEF IdleInv, ClosedInv, Entered
  <2>2. CloserInv'
    BY <1>12 DEF CloserInv, Closer, Entered
  <2>3. SocketInv'
    BY <1>12 DEF SocketInv
  <2> QED
    BY <2>1, <2>2, <2>3
<1> QED
  BY <1>1, <1>2, <1>3, <1>4, <1>5, <1>6, <1>7, <1>8, <1>9, <1>10, <1>11, <1>12 DEF Next, Runs,
     Answer, Iterates, Close, Quiescent

-----------------------------------------------------------------------------
(* Slots in turn. *)

\* Turn names a full slot, when there is one, and no full slot is nearer to
\* nextWorker.
TurnChosen ==
  (\E w \in Worker : batches[w] # NoBatch) =>
    /\ Turn \in Worker
    /\ batches[Turn] # NoBatch
    /\ \A w \in Worker : batches[w] # NoBatch => Distance(Turn) <= Distance(w)

\* A rotation by less than a whole turn wraps at most once.
LEMMA Rotation ==
  ASSUME NEW n \in Nat \ {0}, NEW a \in 0 .. n - 1, NEW k \in 0 .. n
  PROVE  (a + k) % n = IF a + k < n THEN a + k ELSE a + k - n
<1>1. CASE a + k < n
  BY <1>1, SMT
<1>2. CASE a + k >= n
  <2>1. a + k = n * 1 + (a + k - n) /\ a + k - n \in 0 .. n - 1
    BY <1>2, SMT
  <2> QED
    BY <2>1, <1>2, SMT
<1> QED
  BY <1>1, <1>2, SMT

\* A slot that is passed over comes nearer by the slots looked at.
LEMMA AwayStep ==
  ASSUME NEW a \in Worker, NEW b \in Worker, NEW c \in Worker, NEW w \in Worker,
         c = (IF b + 1 < N THEN b + 1 ELSE 0), w # b, Away(a, b) <= Away(a, w)
  PROVE  Away(c, w) = Away(a, w) - Away(a, b) - 1
<1>1. N \in Nat \ {0} /\ Worker = 0 .. N - 1
  BY WorkerFact
<1>2. CASE w >= a
  BY <1>1, <1>2, SMT DEF Away
<1>3. CASE w < a
  BY <1>1, <1>3, SMT DEF Away
<1> QED
  BY <1>1, <1>2, <1>3, SMT

\* Less than a whole turn lies before any slot.
LEMMA AwayType ==
  ASSUME NEW a \in Worker, NEW w \in Worker
  PROVE  Away(a, w) \in Nat /\ Away(a, w) < N
BY WorkerFact, SMT DEF Away

\* So the turns it was passed over and the slots before it stay together.
LEMMA PassedStep ==
  ASSUME NEW a \in Worker, NEW b \in Worker, NEW c \in Worker, NEW w \in Worker, NEW k \in Nat,
         c = (IF b + 1 < N THEN b + 1 ELSE 0), w # b, Away(a, b) <= Away(a, w), k + Away(a, w) < N
  PROVE  k + 1 + Away(c, w) < N
<1>1. Away(c, w) = Away(a, w) - Away(a, b) - 1
  BY AwayStep, SMT
<1>2. Away(a, w) \in Nat /\ Away(a, b) \in Nat
  BY AwayType
<1> QED
  BY <1>1, <1>2, WorkerFact, SMT

\* Every step keeps the types.
LEMMA TypeStep ==
  ASSUME TypeOK, TurnChosen, [Next]_vars
  PROVE  TypeOK'
<1> USE DEF TypeOK, ReadersType, ThreadType, PoolType, ConsumerType, ClosingType, Thread,
   Places, Reading, Left, NoBatch, vars, readersVars, threadVars, poolVars, consumerVars
<1>1. ASSUME NEW w \in Worker, Expose(w) \/ Accepted(w) \/ Refused(w)
      PROVE  TypeOK'
  <2>1. CASE Expose(w)
    BY <2>1 DEF Expose, Goes
  <2>2. CASE Accepted(w)
    BY <2>2 DEF Accepted, Goes
  <2>3. CASE Refused(w)
    BY <2>3 DEF Refused, Goes
  <2> QED
    BY <1>1, <2>1, <2>2, <2>3
<1>2. ASSUME NEW w \in Worker, NextAddress(w) PROVE TypeOK'
  <2>1. address' \in [Worker -> Nat]
    BY <1>2, SMT DEF NextAddress
  <2>2. reader' \in [Worker -> Places] /\ ending' \in [Worker -> {"none", "complete", "error"}]
    BY <1>2 DEF NextAddress, Goes
  <2>3. PoolType'
    BY <1>2 DEF NextAddress, Goes
  <2>4. (ReadersType /\ ConsumerType /\ ClosingType)' /\ UNCHANGED <<held, received>>
    BY <1>2 DEF NextAddress, Goes
  <2> QED
    BY <2>1, <2>2, <2>3, <2>4
<1>3. ASSUME NEW w \in Worker, ReceiveBatch(w) PROVE TypeOK'
  <2>1. ThreadType'
    BY <1>3, SMT DEF ReceiveBatch, Goes
  <2>2. (ReadersType /\ PoolType /\ ConsumerType /\ ClosingType)'
    BY <1>3 DEF ReceiveBatch, Goes
  <2> QED
    BY <2>1, <2>2
<1>4. ASSUME NEW w \in Worker, ReceiveComplete(w) \/ ReceiveError(w)
      PROVE  TypeOK'
  BY <1>4 DEF ReceiveComplete, Goes, ClosePool, ReceiveError
<1>5. ASSUME NEW w \in Worker, Observe(w) PROVE TypeOK'
  <2>1. ClosingType'
    BY <1>5, ObserveStarts, StartsFact, ThreadFact
  <2>2. (ReadersType /\ ThreadType /\ PoolType /\ ConsumerType)'
    BY <1>5 DEF Observe, Goes
  <2> QED
    BY <2>1, <2>2
<1>6. ASSUME NEW w \in Worker, Observed(w) \/ Publish(w) \/ RecordFailure(w)
      PROVE  TypeOK'
  BY <1>6, SMT DEF Observed, Goes, Publish, SlotFree, NotifyAll, RecordFailure
<1>7. ASSUME NEW w \in Worker, Release(w) \/ Finish(w)
      PROVE  TypeOK'
  BY <1>7 DEF Release, Goes, ClosePool, Finish, NotifyAll
<1>8. CASE Read
  BY <1>8 DEF Read, Moves
<1>9. CASE StartReaders
  <2>1. ClosingType'
    <3>1. CASE closed
      BY <1>9, <3>1, StartsFact, ThreadFact DEF StartReaders
    <3>2. CASE ~ closed
      BY <1>9, <3>2 DEF StartReaders
    <3> QED
      BY <3>1, <3>2
  <2>2. (ReadersType /\ ThreadType /\ PoolType /\ ConsumerType)'
    BY <1>9 DEF StartReaders, Moves
  <2> QED
    BY <2>1, <2>2
<1>10. CASE Wait
  BY <1>10 DEF Wait
<1>11. CASE Take
  <2>1. Turn \in Worker
    BY <1>11 DEF TurnChosen, Take
  <2>2. nextWorker' \in Worker
    <3>1. N \in Nat \ {0} /\ Turn \in 0 .. N - 1 /\ 1 \in 0 .. N
      BY <2>1, WorkerFact, SMT
    <3>2. (Turn + 1) % N = IF Turn + 1 < N THEN Turn + 1 ELSE Turn + 1 - N
      BY <3>1, Rotation
    <3>3. nextWorker' = (Turn + 1) % N
      BY <1>11 DEF Take, N
    <3> QED
      BY <3>1, <3>2, <3>3, WorkerFact, SMT
  <2>3. ConsumerType'
    BY <1>11, <2>1, <2>2, SMT DEF Take, Moves, NotifyAll
  <2>4. ReadersType'
    BY <1>11, <2>1 DEF Take, Moves, NotifyAll
  <2>5. (ThreadType /\ PoolType /\ ClosingType)'
    BY <1>11 DEF Take, Moves, NotifyAll
  <2> QED
    BY <2>3, <2>4, <2>5
<1>12. CASE Leave
  <2>1. ClosingType'
    BY <1>12, StartsFact, ThreadFact DEF TypeOK, Leave
  <2>2. (ReadersType /\ ThreadType /\ PoolType /\ ConsumerType)'
    BY <1>12 DEF Leave, Moves
  <2> QED
    BY <2>1, <2>2
<1>13. CASE Resume
  BY <1>13 DEF Resume, Moves
<1>14. CASE Drop
  <2>1. ClosingType'
    BY <1>14, StartsFact, ThreadFact DEF TypeOK, Drop
  <2>2. (ReadersType /\ ThreadType /\ PoolType /\ ConsumerType)'
    BY <1>14 DEF Drop, Moves
  <2> QED
    BY <2>1, <2>2
<1>15. CASE CloseOutside
  <2>1. ClosingType'
    BY <1>15, StartsFact, ThreadFact DEF TypeOK, CloseOutside
  <2>2. (ReadersType /\ ThreadType /\ PoolType /\ ConsumerType)'
    BY <1>15 DEF CloseOutside
  <2> QED
    BY <2>1, <2>2
<1>16. ASSUME NEW t \in Thread, CloseEnter(t) PROVE TypeOK'
  <2>1. ClosingType'
    BY <1>16, EnterFact
  <2>2. (ReadersType /\ ThreadType /\ PoolType /\ ConsumerType)'
    BY <1>16 DEF CloseEnter, NotifyAll
  <2> QED
    BY <2>1, <2>2
<1>17. ASSUME NEW t \in Thread, CloseTake(t) PROVE TypeOK'
  <2>1. closing[t].at \in Worker /\ "shut" \in Phases
    BY DEF Progress, Phases
  <2>2. ClosingType'
    BY <1>17, <2>1, PhaseFact, NextPoolFact DEF CloseTake
  <2>3. (ReadersType /\ ThreadType /\ PoolType /\ ConsumerType)'
    BY <1>17, <2>1 DEF CloseTake
  <2> QED
    BY <2>2, <2>3
<1>18. ASSUME NEW t \in Thread, CloseShut(t) PROVE TypeOK'
  <2>1. closing[t].at \in Worker
    BY DEF Progress
  <2>2. ClosingType'
    BY <1>18, <2>1, NextPoolFact DEF CloseShut
  <2>3. (ReadersType /\ ThreadType /\ PoolType /\ ConsumerType)'
    BY <1>18, <2>1 DEF CloseShut
  <2> QED
    BY <2>2, <2>3
<1>19. ASSUME NEW t \in Thread, CloseJoin(t) PROVE TypeOK'
  <2>1. ClosingType'
    BY <1>19, PhaseFact, ThreadFact DEF CloseJoin, Phases
  <2>2. (ReadersType /\ ThreadType /\ PoolType /\ ConsumerType)'
    BY <1>19 DEF CloseJoin
  <2> QED
    BY <2>1, <2>2
<1>20. CASE UNCHANGED vars
  BY <1>20
<1> QED
  BY <1>1, <1>2, <1>3, <1>4, <1>5, <1>6, <1>7, <1>8, <1>9, <1>10, <1>11, <1>12, <1>13, <1>14,
     <1>15, <1>16, <1>17, <1>18, <1>19, <1>20 DEF Next, Runs, Answer, Iterates, Close, Quiescent

\* No step loses, duplicates or reorders a batch: what Publish puts in the slot
\* is the batch after the ones delivered.
LEMMA HeldStep ==
  ASSUME TypeOK, StartInv, HeldInv, TurnChosen, [Next]_vars
  PROVE  HeldInv'
<1> USE DEF HeldInv, StartInv, Waiting, TypeOK, ReadersType, ThreadType, ConsumerType, NoBatch,
   vars, readersVars, threadVars, consumerVars
<1>1. ASSUME NEW w \in Worker,
             \/ Expose(w) \/ Accepted(w) \/ Refused(w) \/ NextAddress(w)
             \/ ReceiveBatch(w)
      PROVE  HeldInv'
  <2>1. CASE Expose(w)
    BY <2>1, SMT DEF Expose, Goes
  <2>2. CASE Accepted(w) \/ Refused(w)
    BY <2>2 DEF Accepted, Refused, Goes
  <2>3. CASE NextAddress(w)
    BY <2>3 DEF NextAddress, Goes
  <2>4. CASE ReceiveBatch(w)
    BY <2>4, SMT DEF ReceiveBatch, Goes
  <2> QED
    BY <1>1, <2>1, <2>2, <2>3, <2>4
<1>2. ASSUME NEW w \in Worker,
             \/ ReceiveComplete(w) \/ ReceiveError(w) \/ Observe(w) \/ Observed(w)
             \/ Publish(w)
      PROVE  HeldInv'
  <2>1. CASE ReceiveComplete(w) \/ ReceiveError(w)
    BY <2>1 DEF ReceiveComplete, ReceiveError, Goes, ClosePool
  <2>2. CASE Observe(w) \/ Observed(w)
    BY <2>2, SMTT(30) DEF Observe, Observed, Goes
  <2>3. CASE Publish(w)
    BY <2>3, SMTT(30) DEF Publish, Goes, SlotFree, NotifyAll
  <2> QED
    BY <1>2, <2>1, <2>2, <2>3
<1>3. ASSUME NEW w \in Worker, RecordFailure(w) \/ Release(w) \/ Finish(w)
      PROVE  HeldInv'
  BY <1>3 DEF RecordFailure, Goes, NotifyAll, Release, ClosePool, Finish
<1>4. CASE Read \/ StartReaders \/ Wait
  BY <1>4 DEF Read, Moves, StartReaders, Wait
<1>5. CASE Take
  <2>1. Turn \in Worker /\ batches[Turn] # NoBatch
    BY <1>5 DEF TurnChosen, Take
  <2> QED
    BY <1>5, <2>1, SMTT(30) DEF Take, Moves, NotifyAll
<1>6. CASE Leave \/ Resume \/ Drop \/ CloseOutside
  BY <1>6 DEF Leave, Moves, Resume, Drop, CloseOutside
<1>7. ASSUME NEW t \in Thread,
             \/ CloseEnter(t) \/ CloseTake(t) \/ CloseShut(t) \/ CloseJoin(t)
      PROVE  HeldInv'
  <2>1. CASE CloseEnter(t)
    <3>1. closed' /\ UNCHANGED <<reader, held, received>>
      BY <2>1 DEF CloseEnter
    <3> QED
      BY <3>1
  <2>2. CASE CloseTake(t) \/ CloseShut(t) \/ CloseJoin(t)
    <3>1. UNCHANGED <<closed, reader, held, received, delivered, batches>>
      BY <2>2 DEF CloseTake, CloseShut, CloseJoin
    <3> QED
      BY <3>1
  <2> QED
    BY <1>7, <2>1, <2>2
<1>8. CASE UNCHANGED vars
  BY <1>8
<1> QED
  BY <1>1, <1>2, <1>3, <1>4, <1>5, <1>6, <1>7, <1>8 DEF Next, Runs, Answer, Iterates, Close,
     Quiescent

\* Each turn brings the consumer nearer to a slot that it passes over.
LEMMA TurnStep ==
  ASSUME TypeOK, TurnInv, TurnChosen, [Next]_vars
  PROVE  TurnInv'
<1> USE DEF TurnInv, Distance, NoBatch, TypeOK, ReadersType, ConsumerType, vars, readersVars,
   consumerVars
<1>1. ASSUME NEW w \in Worker,
             \/ Expose(w) \/ Accepted(w) \/ Refused(w) \/ NextAddress(w)
             \/ ReceiveBatch(w)
      PROVE  TurnInv'
  BY <1>1 DEF Expose, Goes, Accepted, Refused, NextAddress, ReceiveBatch
<1>2. ASSUME NEW w \in Worker,
             \/ ReceiveComplete(w) \/ ReceiveError(w) \/ Observe(w) \/ Observed(w)
      PROVE  TurnInv'
  BY <1>2 DEF ReceiveComplete, Goes, ClosePool, ReceiveError, Observe, Observed
<1>3. ASSUME NEW w \in Worker, Publish(w) PROVE TurnInv'
  <2>1. SUFFICES ASSUME NEW v \in Worker, batches'[v] # NoBatch
                 PROVE  (passed[v] + Distance(v) < N)'
    OBVIOUS
  <2>2. N \in Nat \ {0} /\ Worker = 0 .. N - 1 /\ nextWorker' = nextWorker
    BY <1>3, WorkerFact DEF Publish
  <2>3. \/ passed'[v] = 0
        \/ batches'[v] = batches[v] /\ passed'[v] = passed[v]
    BY <1>3 DEF Publish, Goes, SlotFree, NotifyAll
  <2>4. CASE passed'[v] = 0
    <3>1. Away(nextWorker, v) \in Nat /\ Away(nextWorker, v) < N
      BY AwayType
    <3> QED
      BY <2>2, <2>4, <3>1, SMT
  <2>5. CASE batches'[v] = batches[v] /\ passed'[v] = passed[v]
    BY <2>1, <2>2, <2>5
  <2> QED
    BY <2>3, <2>4, <2>5
<1>4. ASSUME NEW w \in Worker, RecordFailure(w) \/ Release(w) \/ Finish(w)
      PROVE  TurnInv'
  BY <1>4 DEF RecordFailure, Goes, NotifyAll, Release, ClosePool, Finish
<1>5. CASE Read \/ StartReaders \/ Wait
  BY <1>5 DEF Read, Moves, StartReaders, Wait
<1>6. CASE Take
  <2>1. /\ Turn \in Worker /\ batches[Turn] # NoBatch
        /\ \A w \in Worker : batches[w] # NoBatch => Distance(Turn) <= Distance(w)
    BY <1>6 DEF TurnChosen, Take
  <2>2. N \in Nat \ {0} /\ Worker = 0 .. N - 1 /\ Turn \in 0 .. N - 1 /\ 1 \in 0 .. N
    BY <2>1, WorkerFact, SMT
  <2>3. (Turn + 1) % N = IF Turn + 1 < N THEN Turn + 1 ELSE Turn + 1 - N
    BY <2>2, Rotation
  <2>4. nextWorker' = (Turn + 1) % N
    BY <1>6 DEF Take, N
  <2>5. SUFFICES ASSUME NEW w \in Worker, batches'[w] # NoBatch
                 PROVE  (passed[w] + Distance(w) < N)'
    OBVIOUS
  <2>6. w # Turn /\ batches[w] # NoBatch /\ passed'[w] = passed[w] + 1
    BY <1>6, <2>1, <2>5 DEF Take
  <2>7. Away(nextWorker, Turn) <= Away(nextWorker, w) /\ passed[w] + Away(nextWorker, w) < N
    BY <2>1, <2>6
  <2>8. nextWorker' = (IF Turn + 1 < N THEN Turn + 1 ELSE 0) /\ nextWorker' \in Worker
    BY <2>2, <2>3, <2>4, SMTT(30)
  <2>9. nextWorker \in Worker /\ passed[w] \in Nat
    BY DEF TypeOK, ConsumerType
  <2>10. passed[w] + 1 + Away(nextWorker', w) < N
    BY <2>1, <2>6, <2>7, <2>8, <2>9, PassedStep
  <2> QED
    BY <2>6, <2>10
<1>7. CASE Leave \/ Resume \/ Drop \/ CloseOutside
  BY <1>7 DEF Leave, Moves, Resume, Drop, CloseOutside
<1>8. ASSUME NEW t \in Thread,
             \/ CloseEnter(t) \/ CloseTake(t) \/ CloseShut(t) \/ CloseJoin(t)
      PROVE  TurnInv'
  BY <1>8 DEF CloseEnter, NotifyAll, CloseTake, CloseShut, CloseJoin
<1>9. CASE UNCHANGED vars
  BY <1>9
<1> QED
  BY <1>1, <1>2, <1>3, <1>4, <1>5, <1>6, <1>7, <1>8, <1>9 DEF Next, Runs, Answer, Iterates, Close,
     Quiescent

\* The invariant holds before the pool is read.
LEMMA InvInit == ASSUME Init PROVE IInv
<1> USE ThreadFact DEF Init
<1>1. NotClosing \in Progress /\ \A t \in Thread : closing[t] = NotClosing
  <2>1. NotClosing \in Progress
    BY DEF NotClosing, Progress, Phases
  <2> QED
    BY <2>1
<1>2. \A t \in Thread : closing[t].phase = "no"
  BY <1>1 DEF NotClosing
<1>3. TypeOK
  <2>1. ReadersType
    BY DEF ReadersType, NoBatch
  <2>2. ThreadType
    BY DEF ThreadType, Places, NoBatch
  <2>3. PoolType /\ ConsumerType
    BY DEF PoolType, ConsumerType, Reading
  <2>4. ClosingType
    BY <1>1 DEF ClosingType
  <2> QED
    BY <2>1, <2>2, <2>3, <2>4 DEF TypeOK
<1>4. HeldInv /\ StartInv /\ EndInv
  <2>1. HeldInv
    BY SMT DEF HeldInv, Waiting, NoBatch
  <2> QED
    BY <2>1 DEF StartInv, EndInv
<1>5. ClosingInv
  BY <1>1, <1>2 DEF ClosingInv, IdleInv, ClosedInv, CloserInv, Closer, SocketInv, Entered
<1>6. TurnInv /\ NoLostWakeup
  BY DEF TurnInv, NoLostWakeup
<1> QED
  BY <1>3, <1>4, <1>5, <1>6 DEF IInv

-----------------------------------------------------------------------------
(* The search of Take, by the order of the naturals. *)
INSTANCE WellFoundedInduction

\* A nonempty set of naturals has a least member, and Min is it.
LEMMA LeastNatural ==
  ASSUME NEW S, S \subseteq Nat, S # {}
  PROVE  /\ Min(S) \in S
         /\ \A k \in S : Min(S) <= k
<1>1. PICK R : IsWellFoundedOn(R, Nat) /\ \A i, j \in Nat : <<i, j>> \in R <=> i < j
  <2>1. \A i, j \in Nat : <<i, j>> \in OpToRel(<, Nat) <=> i < j
    BY DEF OpToRel
  <2> QED
    BY <2>1, NatLessThanWellFounded
<1>2. IsWellFoundedOn(R, Nat)
  BY <1>1
<1>3. PICK x \in S : \A y \in S : ~ (<<y, x>> \in R)
  BY <1>2, WFMin
<1>4. \A y \in S : x <= y
  <2> TAKE y \in S
  <2>1. x \in Nat /\ y \in Nat
    OBVIOUS
  <2>2. <<y, x>> \in R <=> y < x
    BY <1>1, <2>1
  <2>3. ~ (<<y, x>> \in R)
    BY <1>3
  <2>4. ~ (y < x)
    BY <2>2, <2>3
  <2> QED
    BY <2>1, <2>4, SMT
<1> QED
  BY <1>4 DEF Min

\* The search of Take finds the next full slot.
LEMMA TurnFact == ASSUME TypeOK PROVE TurnChosen
<1> SUFFICES ASSUME \E w \in Worker : batches[w] # NoBatch
             PROVE  /\ Turn \in Worker
                    /\ batches[Turn] # NoBatch
                    /\ \A w \in Worker : batches[w] # NoBatch => Distance(Turn) <= Distance(w)
  BY DEF TurnChosen
<1> DEFINE turns == {k \in 0 .. N - 1 : batches[(nextWorker + k) % N] # NoBatch}
           m == Min(turns)
<1>1. N \in Nat \ {0} /\ Worker = 0 .. N - 1 /\ nextWorker \in 0 .. N - 1
  BY WorkerFact DEF TypeOK, ConsumerType
<1>2. \A w \in Worker : Distance(w) \in 0 .. N - 1 /\ (nextWorker + Distance(w)) % N = w
  <2> TAKE w \in Worker
  <2> DEFINE d == Distance(w)
  <2>1. d \in 0 .. N - 1 /\ nextWorker + d = IF w >= nextWorker THEN w ELSE w + N
    BY <1>1, SMT DEF Distance, Away
  <2> HIDE DEF d
  <2>2. d \in 0 .. N
    BY <1>1, <2>1, SMT
  <2>3. (nextWorker + d) % N = IF nextWorker + d < N THEN nextWorker + d ELSE nextWorker + d - N
    BY <1>1, <2>2, Rotation
  <2>4. d \in 0 .. N - 1 /\ (nextWorker + d) % N = w
    BY <1>1, <2>1, <2>3, SMT
  <2> QED
    BY <2>4 DEF d
<1>3. \A w \in Worker : batches[w] # NoBatch => Distance(w) \in turns
  BY <1>2
<1>4. turns \subseteq Nat /\ turns # {}
  BY <1>1, <1>3, SMT
<1>5. m \in turns /\ \A k \in turns : m <= k
  BY <1>4, LeastNatural
<1>6. Turn = (nextWorker + m) % N
  BY DEF Turn, N
<1>7. m \in 0 .. N - 1 /\ m \in 0 .. N /\ batches[(nextWorker + m) % N] # NoBatch
  BY <1>1, <1>5, SMT
<1> HIDE DEF turns, m
<1>8. Turn = IF nextWorker + m < N THEN nextWorker + m ELSE nextWorker + m - N
  BY <1>1, <1>6, <1>7, Rotation
<1>9. Turn \in Worker /\ Distance(Turn) = m
  BY <1>1, <1>7, <1>8, SMT DEF Distance, Away
<1> QED
  BY <1>3, <1>5, <1>6, <1>7, <1>9

-----------------------------------------------------------------------------
(* The theorems. *)

\* The inductive invariant holds of every reachable state.
THEOREM Invariance == Spec => []IInv
<1>1. Init => IInv
  BY InvInit
<1>2. IInv /\ [Next]_vars => IInv'
  <2> SUFFICES ASSUME IInv, [Next]_vars PROVE IInv'
    OBVIOUS
  <2>1. TypeOK /\ HeldInv /\ StartInv /\ EndInv /\ ClosingInv /\ TurnInv /\ NoLostWakeup
    BY DEF IInv
  <2>2. TurnChosen
    BY <2>1, TurnFact
  <2>3. TypeOK' /\ HeldInv' /\ StartInv' /\ EndInv'
    BY <2>1, <2>2, TypeStep, HeldStep, StartStep, EndStep
  <2>4. ClosingInv' /\ TurnInv' /\ NoLostWakeup'
    BY <2>1, <2>2, ClosingStep, TurnStep, WakeupStep
  <2> QED
    BY <2>3, <2>4 DEF IInv
<1> QED
  BY <1>1, <1>2, PTL DEF Spec

\* For any number of workers no batch is lost, duplicated or reordered between a
\* reader and the consumer while the pool is open, and an iteration that ends
\* without an error has delivered every batch of every worker.
THEOREM Delivery == Spec => []LosslessInOrder
<1>1. IInv => LosslessInOrder
  BY DEF IInv, HeldInv, EndInv, LosslessInOrder
<1> QED
  BY <1>1, Invariance, PTL

\* For any number of workers and of threads that close, nobody sleeps on the
\* condition while what it waits for holds.
THEOREM Wakeup == Spec => []NoLostWakeup
<1>1. IInv => NoLostWakeup
  BY DEF IInv
<1> QED
  BY <1>1, Invariance, PTL

\* For any number of workers, a full slot is passed over fewer times than there
\* are workers.
THEOREM Rotates == Spec => []ServedInTurn
<1>1. IInv => ServedInTurn
  <2> SUFFICES ASSUME IInv, NEW w \in Worker, batches[w] # NoBatch
               PROVE  passed[w] < N
    BY DEF ServedInTurn, N
  <2>1. passed[w] + Away(nextWorker, w) < N
    BY DEF IInv, TurnInv, Distance
  <2>2. Away(nextWorker, w) \in Nat /\ passed[w] \in Nat /\ N \in Nat
    BY AwayType, WorkerFact DEF IInv, TypeOK, ConsumerType
  <2> QED
    BY <2>1, <2>2, SMT
<1> QED
  BY <1>1, Invariance, PTL

\* For any number of workers and of threads that close at once, close returns
\* only after the readers have ended, and leaves no connection open.
THEOREM Reaps == Spec => []CloseReaps
<1>1. IInv => CloseReaps
  <2> SUFFICES ASSUME IInv PROVE CloseReaps
    OBVIOUS
  <2>1. ASSUME NEW t \in Thread, closing[t].phase = "done", NEW w \in Worker \ {t}
        PROVE  reader[w] \in {"unstarted", "ended"}
    <3>1. CASE ~ started
      BY <3>1 DEF IInv, StartInv
    <3>2. CASE closing[t].joins = Worker \ {t}
      BY <2>1, <3>2 DEF IInv, ClosingInv, CloserInv, Closer
    <3> QED
      BY <2>1, <3>1, <3>2 DEF IInv, ClosingInv, CloserInv, Closer, Entered
  <2>2. ASSUME closed, \A t \in Thread : closing[t].phase \in {"no", "done"}, NEW w \in Worker
        PROVE  connection[w] # "live"
    <3>1. PICK t \in Thread : closing[t].phase = "done"
      BY <2>2 DEF IInv, ClosingInv, ClosedInv, Entered
    <3>2. poolClosed[w]
      BY <3>1 DEF IInv, ClosingInv, CloserInv, Closer
    <3> QED
      BY <2>2, <3>2 DEF IInv, ClosingInv, SocketInv
  <2> QED
    BY <2>1, <2>2 DEF CloseReaps
<1> QED
  BY <1>1, Invariance, PTL
=============================================================================
