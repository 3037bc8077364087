---------------------------- MODULE PretrainKernel ----------------------------
(***************************************************************************)
(* Training on several workers at once                                     *)
(* (python/cpu2tensor/examples/pretrain_kernel.py): one reader thread and  *)
(* one Pool per worker, a bounded queue, a consumer that makes next-block  *)
(* pairs, and the shutdown of all of them when the consumer leaves.        *)
(*                                                                         *)
(* The workers' streams are external.  A block is <<worker, source, n>>,   *)
(* the n-th block of that source; a batch is the blocks of one source.     *)
(***************************************************************************)
EXTENDS Integers, Sequences, FiniteSets
LOCAL INSTANCE SequencesExt

CONSTANTS
    Streams,       \* by worker, the batches its Pool yields
    TrainWorkers,  \* len(train_endpoints); the workers after them are the test
    QueueBatches,  \* queue_batches
    BatchSize,     \* pairs of one minibatch
    Budgets,       \* the values of max_updates
    TestBatches    \* minibatches the reservoir keeps

Worker == DOMAIN Streams

VARIABLES
    reader,    \* by worker: [pc, at, item]
    pool,      \* by worker: "open" or "closed"
    queue,     \* pending
    stopped,   \* the Event
    consumer,  \* [pc, remaining, completed, max_updates]
    previous,  \* BlockPairs._previous, by worker and source
    training, testing, \* the minibatches in the making
    updates,   \* the minibatches trained on
    held,      \* the minibatches kept for the test
    metrics    \* metrics.json has been written

pvars == <<reader, pool, queue, stopped, consumer, previous, training, testing, updates,
           held, metrics>>

PInit ==
    /\ reader = [w \in Worker |-> [pc |-> "new", at |-> 1, item |-> <<>>]]
    /\ pool = [w \in Worker |-> "open"]
    /\ queue = <<>> /\ stopped = FALSE
    /\ consumer \in [pc : {"start"}, remaining : {Len(Streams)}, completed : {0},
                     max_updates : Budgets]
    /\ previous = <<>> /\ training = <<>> /\ testing = <<>> /\ updates = <<>> /\ held = <<>>
    /\ metrics = FALSE

unread == <<previous, training, testing, updates, held, metrics>>

\* The threads are started in order; a start that fails leaves the context.
Start ==
    /\ consumer.pc = "start"
    /\ \E n \in 0..Len(Streams) :
         /\ reader' = [w \in Worker |-> IF w <= n THEN [reader[w] EXCEPT !.pc = "read"] ELSE reader[w]]
         /\ consumer' = [consumer EXCEPT !.pc = IF n = Len(Streams) THEN "receive" ELSE "leave"]
    /\ UNCHANGED <<pool, queue, stopped, unread>>

\* The pool yields the next batch: a reader that has been stopped returns, a
\* batch without blocks is not published.
PoolYields(w) ==
    /\ reader[w].pc = "read" /\ pool[w] = "open" /\ reader[w].at <= Len(Streams[w])
    /\ LET blocks == Streams[w][reader[w].at]
       IN  reader' = [reader EXCEPT
             ![w].pc = IF stopped THEN "done" ELSE IF blocks = <<>> THEN "read" ELSE "publish",
             ![w].at = @ + 1,
             ![w].item = IF stopped \/ blocks = <<>> THEN <<>> ELSE [kind |-> "batch", blocks |-> blocks]]
    /\ UNCHANGED <<pool, queue, stopped, consumer, unread>>

\* The stream ends complete, or the read fails: a worker's error, the pool's
\* timeout, or the pool closed under it.
PoolEnds(w) ==
    /\ reader[w].pc = "read"
    /\ \E kind \in {"complete", "error"} :
         /\ kind = "complete" => reader[w].at > Len(Streams[w]) /\ pool[w] = "open"
         /\ reader' = [reader EXCEPT ![w].pc = "publish", ![w].item = [kind |-> kind]]
    /\ UNCHANGED <<pool, queue, stopped, consumer, unread>>

\* A fault: publish waits for room and does not look at the event again.
PublishBlocking(w) ==
    /\ reader[w].pc = "publish" /\ Len(queue) < QueueBatches
    /\ queue' = Append(queue, <<w, reader[w].item>>)
    /\ reader' = [reader EXCEPT ![w].item = <<>>, ![w].pc =
         IF reader[w].item.kind = "batch" THEN "read" ELSE "done"]
    /\ UNCHANGED <<pool, stopped, consumer, unread>>

\* publish: the put waits for room, in short waits that look at the event.
Publish(w) ==
    /\ reader[w].pc = "publish"
    /\ \/ Len(queue) < QueueBatches /\ queue' = Append(queue, <<w, reader[w].item>>)
       \/ stopped /\ UNCHANGED queue
    /\ reader' = [reader EXCEPT ![w].item = <<>>, ![w].pc =
         IF reader[w].item.kind = "batch" THEN "read" ELSE "done"]
    /\ UNCHANGED <<pool, stopped, consumer, unread>>

\* A fault: one predecessor for all workers.
KeyGlobal(w, block) == <<0, 0>>
Key(w, block) == <<w, block[2]>>

\* BlockPairs.add: pairs of consecutive blocks, the first with the last block
\* of the previous batch of the same worker and source.
Pairs(w, blocks) ==
    LET key == Key(w, blocks[1])
        before == IF key \in DOMAIN previous THEN <<previous[key]>> ELSE <<>>
        all == before \o blocks
    IN  [i \in 1..(Len(all) - 1) |-> <<all[i], all[i + 1]>>]
Remember(w, blocks) ==
    [k \in DOMAIN previous \cup {Key(w, blocks[1])} |->
       IF k = Key(w, blocks[1]) THEN blocks[Len(blocks)] ELSE previous[k]]

\* BlockPairs.end: a completed worker leaves no predecessor behind.
Forget(w) == [k \in {k \in DOMAIN previous : k[1] # w} |-> previous[k]]

\* PairBatches.add: the full minibatches, and what is left.
FullBatches(pairs) == [i \in 1..(Len(pairs) \div BatchSize) |->
                  SubSeq(pairs, (i - 1) * BatchSize + 1, i * BatchSize)]
Partial(pairs) == SubSeq(pairs, (Len(pairs) \div BatchSize) * BatchSize + 1, Len(pairs))

\* update: nothing more once the budget is spent.
Updated(batches) ==
    LET all == updates \o batches
    IN  SubSeq(all, 1, IF Len(all) < consumer.max_updates THEN Len(all) ELSE consumer.max_updates)

\* HeldOutBatches.add: the first ones are kept, a later one is dropped or
\* takes the place of any.
Kept(kept, batch) ==
    IF Len(kept) < TestBatches THEN {Append(kept, batch)}
    ELSE {kept} \cup {[kept EXCEPT ![i] = batch] : i \in DOMAIN kept}
Reservoir(batches) ==
    FoldLeft(LAMBDA kepts, batch : UNION {Kept(kept, batch) : kept \in kepts}, {held}, batches)

\* One batch of a training worker.  Once the budget is spent its pairs are only
\* counted.  An update whose loss is not finite leaves the context.
Train(pairs) ==
    LET all == training \o pairs
    IN  \/ /\ Len(updates) < consumer.max_updates
           /\ updates' = Updated(FullBatches(all))
           /\ training' = Partial(all)
           /\ UNCHANGED <<consumer, testing, held>>
        \/ /\ Len(updates) < consumer.max_updates /\ FullBatches(all) # <<>>
           /\ consumer' = [consumer EXCEPT !.pc = "leave"]
           /\ UNCHANGED <<training, updates, testing, held>>
        \/ /\ Len(updates) = consumer.max_updates
           /\ UNCHANGED <<consumer, training, updates, testing, held>>

\* receive and the body of train's loop, for one item of the queue.
Consume ==
    /\ consumer.pc = "receive" /\ queue # <<>>
    /\ queue' = Tail(queue)
    /\ LET w == Head(queue)[1]
           item == Head(queue)[2]
       IN  \/ /\ item.kind = "error"
              /\ consumer' = [consumer EXCEPT !.pc = "leave"]
              /\ UNCHANGED <<previous, training, testing, updates, held>>
           \/ /\ item.kind = "complete"
              /\ previous' = Forget(w)
              /\ consumer' = [consumer EXCEPT !.remaining = @ - 1, !.completed = @ + 1,
                                !.pc = IF consumer.remaining = 1 THEN "leave" ELSE @]
              /\ UNCHANGED <<training, testing, updates, held>>
           \/ /\ item.kind = "batch"
              /\ previous' = Remember(w, item.blocks)
              /\ LET pairs == Pairs(w, item.blocks)
                 IN  \/ Train(pairs) /\ w <= TrainWorkers
                     \/ /\ w > TrainWorkers
                        /\ held' \in Reservoir(FullBatches(testing \o pairs))
                        /\ testing' = Partial(testing \o pairs)
                        /\ UNCHANGED <<updates, training, consumer>>
    /\ UNCHANGED <<reader, pool, stopped, metrics>>

\* The finally block of worker_batches: stop, close every pool, then join.
Leave ==
    /\ consumer.pc = "leave"
    /\ stopped' = TRUE
    /\ consumer' = [consumer EXCEPT !.pc = "close"]
    /\ UNCHANGED <<reader, pool, queue, unread>>

ClosePool ==
    /\ consumer.pc = "close"
    /\ \E w \in Worker :
         /\ pool[w] = "open" /\ \A v \in 1..(w - 1) : pool[v] = "closed"
         /\ pool' = [pool EXCEPT ![w] = "closed"]
         /\ consumer' = [consumer EXCEPT !.pc = IF w = Len(Streams) THEN "join" ELSE @]
    /\ UNCHANGED <<reader, queue, stopped, unread>>

\* The joins share one deadline; a thread still alive after it is an error.
Join ==
    /\ consumer.pc = "join"
    /\ LET joined == \A w \in Worker : reader[w].pc \in {"new", "done"}
       IN  \E late \in {FALSE, ~joined} :
             /\ joined \/ late
             /\ consumer' = [consumer EXCEPT !.pc =
                  IF consumer.remaining = 0 /\ ~late THEN "finish" ELSE "raised"]
    /\ UNCHANGED <<reader, pool, queue, stopped, unread>>

\* The last partial minibatches, the evaluation, which may fail, and the files.
Finish ==
    /\ consumer.pc = "finish"
    /\ updates' = Updated(IF training = <<>> THEN <<>> ELSE <<training>>)
    /\ held' \in Reservoir(IF testing = <<>> THEN <<>> ELSE <<testing>>)
    /\ metrics' \in {FALSE, updates' # <<>> /\ held' # <<>>}
    /\ training' = <<>> /\ testing' = <<>>
    /\ consumer' = [consumer EXCEPT !.pc = IF metrics' THEN "returned" ELSE "raised"]
    /\ UNCHANGED <<reader, pool, queue, stopped, previous>>

PNext ==
    \/ \E w \in Worker : PoolYields(w) \/ PoolEnds(w) \/ Publish(w)
    \/ Start \/ Consume \/ Leave \/ ClosePool \/ Join \/ Finish

\* Once the program has begun, its threads run.  A read does not wait for
\* ever: the worker answers, the pool's timeout passes, or the pool is closed.
PFairness ==
    /\ \A w \in Worker : WF_pvars(PoolYields(w) \/ PoolEnds(w) \/ Publish(w))
    /\ WF_pvars(Consume \/ Leave \/ ClosePool \/ Join \/ Finish)

-----------------------------------------------------------------------------
\* Whatever the interleaving of the readers, a pair is two consecutive blocks
\* of one source of one worker, training sees only training workers and the
\* test only test workers, and no pair is used twice (BlockPairs, PairBatches).
\* Metrics are written only when every worker was read to its completion and,
\* within the budget, every pair of the training workers was trained on (train).
PairsFollow ==
    LET trained == FlattenSeq(updates) \o training
        tested == FlattenSeq(held) \o testing
        Follows(p) == p[1][1] = p[2][1] /\ p[1][2] = p[2][2] /\ p[2][3] = p[1][3] + 1
    IN  /\ \A i \in DOMAIN trained : Follows(trained[i]) /\ trained[i][1][1] <= TrainWorkers
        /\ \A i \in DOMAIN tested : Follows(tested[i]) /\ tested[i][1][1] > TrainWorkers
        /\ IsInjective(trained) /\ IsInjective(tested)
        /\ metrics =>
             /\ consumer.completed = Len(Streams)
             /\ Len(updates) < consumer.max_updates =>
                  \A w \in 1..TrainWorkers : \A i \in DOMAIN FlattenSeq(Streams[w]) :
                    LET block == FlattenSeq(Streams[w])[i]
                    IN  block[3] > 1 => \E j \in DOMAIN trained : trained[j][2] = block

\* Training that has begun ends, and so does every reader thread: none stays in
\* a full queue or in a read after the consumer has left (publish, stopped.set,
\* pool.close).
TrainingEnds ==
    consumer.pc # "start" ~> /\ consumer.pc \in {"returned", "raised"}
                             /\ \A w \in Worker : reader[w].pc \in {"new", "done"}
=============================================================================
