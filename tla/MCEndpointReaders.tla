------------------------- MODULE MCEndpointReaders --------------------------
(* Two programs that read traces as they are written: the reader threads of  *)
(* the client, and the benchmark that counts the frames of a traced child.   *)
(* A behaviour is one of the two.                                            *)
EXTENDS EndpointReaders, BenchmarkCapture, TLC

VARIABLE part

mcvars == <<vars, bvars, part>>

MCInit == Init /\ BInit /\ part \in {"readers", "benchmark"}

\* The benchmark ends after its last case.
MCNext ==
  \/ part = "readers" /\ Next /\ UNCHANGED <<bvars, part>>
  \/ part = "benchmark" /\ BNext /\ UNCHANGED <<vars, part>>
  \/ part = "benchmark" /\ Finished /\ UNCHANGED mcvars

MCSpec == MCInit /\ [][MCNext]_mcvars

\* Two batches of one endpoint, one of the other.
Batches == [w \in Worker |-> IF w = 0 THEN 2 ELSE 1]

\* The trace sources of the child are interchangeable.
Sym == Permutations(Sources)
=============================================================================
