----------------------------- MODULE MCResearch -----------------------------
(* The steps of the hardware research programs, one of them in a behaviour:   *)
(* the health policy of a training run, the rows built from a capture, and    *)
(* the experiment with its files.                                             *)
EXTENDS HealthPolicy, MultimodalRow, Experiment, TLC

\* Clean captures of one lane, of every length and with every placement of up
\* to two samples; clean captures of two lanes; captures with defects.
Lane(pt, samples) ==
  [envelope |-> <<2, 3, 8, 9>>, status |-> [m \in Modality |-> "complete"], pt |-> pt,
   samples |-> samples]
OwnSample(tid, time) == [tid |-> tid, cpu |-> 0, time |-> time, exact |-> TRUE]
OneLane ==
  {[pid |-> 1, lanes |-> <<Lane(n, samples)>>] : n \in 0..6,
     samples \in {<<>>} \cup {<<OwnSample(1, a)>> : a \in 2..9}
                 \cup {<<OwnSample(1, a), OwnSample(1, b)>> : a, b \in 2..9}}
TwoLanes ==
  {[pid |-> 1, lanes |-> <<Lane(n, <<OwnSample(1, 4)>>), Lane(3, <<OwnSample(2, a)>>)>>] :
     n \in 0..3, a \in 7..9}
Defective ==
  {[pid |-> p, lanes |-> <<[Lane(3, <<s>>) EXCEPT !.status["pebs"] = q, !.envelope = e]>>] :
     p \in {1, 2}, s \in [tid : {1, 2}, cpu : {0, 1}, time : {1, 2, 9, 10}, exact : BOOLEAN],
     q \in {"complete", "lost", "missing", "multiplexed"},
     e \in {<<2, 3, 8, 9>>, <<2, 3, 3, 9>>}}
MCCaptures == OneLane \cup TwoLanes \cup Defective

VARIABLE part

mcvars == <<hvars, rvars, evars, part>>

\* A part that does not run has one initial state.
MCInit ==
  /\ part \in {"health", "row", "experiment"}
  /\ part # "row" => captured = [pid |-> 1, lanes |-> <<Lane(0, <<>>)>>]
  /\ HInit /\ RInit /\ EInit
  /\ part # "health" => \A b \in InitialBatch : trainer.micro <= b

MCNext ==
  \/ part = "health" /\ HNext /\ UNCHANGED <<rvars, evars, part>>
  \/ part = "row" /\ RNext /\ UNCHANGED <<hvars, evars, part>>
  \/ part = "experiment" /\ ENext /\ UNCHANGED <<hvars, rvars, part>>

MCSpec == MCInit /\ [][MCNext]_mcvars

\* Families and repetitions are interchangeable.
Sym == Permutations(Family) \cup Permutations(Repetition)
=============================================================================
