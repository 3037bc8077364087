------------------------------ MODULE MCSystem ------------------------------
(* What only full-system captures have: the action windows of an interactive *)
(* guest, the context filter of an observed one, and the worker around QEMU. *)
(* A behaviour is one of the three; what the others draw initially is drawn  *)
(* in their own behaviours only.                                             *)
EXTENDS ActionWindows, ContextFilter, KernelWorker

CONSTANT Parts

VARIABLE part

mcvars == <<vars, filterVars, kvars, part>>

MCInit ==
  /\ Init /\ FilterInit /\ KInit
  /\ part \in Parts
  /\ part # "filter" => policy = "drop"
  /\ part # "kernel" => settings.interactive

MCNext ==
  \/ part = "windows" /\ Next /\ UNCHANGED <<filterVars, kvars, part>>
  \/ part = "filter" /\ FilterNext /\ UNCHANGED <<vars, kvars, part>>
  \/ part = "kernel" /\ KNext /\ UNCHANGED <<vars, filterVars, part>>

MCSpec == MCInit /\ [][MCNext]_mcvars

\* Two addresses whose four transitions collide in pairs in a table of two.
Collide(from, to) == (from + to) % 2
Blocks == [s \in Source |-> IF s = 0 THEN 4 ELSE 1]
Contexts == [s \in Source |-> IF s = 0 THEN 2 ELSE 1]

\* CR3 values 0 and 1 share a paging root, 2 has another one.
Accesses == [s \in Source |-> 2]
Filtered == [s \in Source |-> IF s = 0 THEN 2 ELSE 1]

\* --max-run-ms is refused with the action adapter: a guest is either asked for
\* actions or observed with a budget.
MCKernelOptions ==
  {[interactive |-> TRUE, budget |-> FALSE], [interactive |-> FALSE, budget |-> TRUE]}
=============================================================================
