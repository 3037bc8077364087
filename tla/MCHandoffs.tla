----------------------------- MODULE MCHandoffs -----------------------------
(* Three bounded hand-offs from a producer to a consumer: a frame ring of the *)
(* plugin, the trace pipe of the capture benchmark and the queue of the       *)
(* training example.  A behaviour is one of the three; nothing obliges the    *)
(* other two, which have not begun.                                           *)
EXTENDS FrameRing, BenchmarkCapture, PretrainKernel

VARIABLE part

mcvars == <<vars, bvars, pvars, part>>

MCInit ==
  /\ Init /\ BInit /\ PInit
  /\ part \in {"ring", "benchmark", "training"}
  /\ part # "training" => \A b \in Budgets : consumer.max_updates <= b

MCNext ==
  \/ part = "ring" /\ Next /\ UNCHANGED <<bvars, pvars, part>>
  \/ part = "benchmark" /\ BNext /\ UNCHANGED <<vars, pvars, part>>
  \/ part = "training" /\ PNext /\ UNCHANGED <<vars, bvars, part>>

MCSpec ==
  /\ MCInit /\ [][MCNext]_mcvars
  /\ Fairness /\ BFairness /\ PFairness

\* Blocks of two training workers and one test worker: a source continued in a
\* later batch after another source, an odd pair left.
MCStreams ==
  LET B(w, s, n) == <<w, s, n>>
  IN  << << <<B(1, 1, 1), B(1, 1, 2)>>, <<B(1, 2, 1)>>, <<B(1, 1, 3)>> >>,
         << <<B(2, 1, 1), B(2, 1, 2)>> >>,
         << <<B(3, 1, 1), B(3, 1, 2), B(3, 1, 3), B(3, 1, 4)>> >> >>
=============================================================================
