---------------------------- MODULE MCTransport -----------------------------
(* Both ends of a trace connection: the reader threads of the client, and    *)
(* the worker of a user-mode target.  A behaviour is one of the two; nothing *)
(* obliges the other, which does not begin.                                  *)
EXTENDS EndpointReaders, UserWorker

CONSTANT Parts

VARIABLE part

mcvars == <<vars, wvars, part>>

MCInit ==
  /\ Init /\ WInit
  /\ part \in Parts
  /\ part # "user" => options.stdio

MCNext ==
  \/ part = "readers" /\ Next /\ UNCHANGED <<wvars, part>>
  \/ part = "user" /\ WNext /\ UNCHANGED <<vars, part>>

MCFairSpec == MCInit /\ [][MCNext]_mcvars /\ ReadersFairness /\ WFairness

OneSided == [w \in Worker |-> IF w = 0 THEN 2 ELSE 0]

\* --max-run-ms and --stop-pc are refused with the stdin adapter.
MCWorkerOptions ==
  {[stdio |-> TRUE, budget |-> FALSE, markers |-> FALSE],
   [stdio |-> FALSE, budget |-> TRUE, markers |-> TRUE]}
=============================================================================
