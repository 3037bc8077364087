------------------------------ MODULE MCClient ------------------------------
(* What a Python program opens, reads and closes: a Pool over a stream that   *)
(* nobody answers, a StdioEnv or KernelEnv whose actions the worker waits     *)
(* for, and the two hardware captures, each of which raises on the other's    *)
(* platform.  A behaviour is one of the four.  Three sources for the          *)
(* collator, whose byte limit two sources cannot reach; read-ahead only where *)
(* frames are grouped.                                                        *)
EXTENDS PoolRead, EnvClients, HardwareCapture, WprCapture

CONSTANTS Clients, a1, a2, t1, t2

VARIABLE client

mcvars == <<poolVars, vars, perfVars, wvars, client>>

\* A client that does not run has one initial state.
MCInit ==
  /\ client \in Clients
  /\ PoolInit /\ Init /\ PerfInit /\ WInit
  /\ client # "pool" => worker.mode = "plain"
  /\ client # "environment" => program = "free"
  /\ client # "perf" => kind = "perf" /\ signals = {"cycles"}

MCNext ==
  \/ client = "pool" /\ PoolNext /\ UNCHANGED <<vars, perfVars, wvars, client>>
  \/ client = "environment" /\ Next /\ UNCHANGED <<poolVars, perfVars, wvars, client>>
  \/ client = "perf" /\ PerfNext /\ UNCHANGED <<poolVars, vars, wvars, client>>
  \/ client = "wpr" /\ WNext /\ UNCHANGED <<poolVars, vars, perfVars, client>>

MCSpec == MCInit /\ [][MCNext]_mcvars

SourceRows ==
  [plain |-> <<1, 0, 0>>, collated |-> <<3, 1, 1>>, context |-> <<2, 1, 0>>,
   reduced |-> <<1, 1, 0>>, interactive |-> <<0, 0, 0>>]
RowsOf == [mode \in Modes |-> [s \in Source |-> SourceRows[mode][s + 1]]]

InFlight == [mode \in Modes |-> IF mode = "context" THEN 3 ELSE 0]

Actions == <<a1, a2>>
Threads == <<t1, t2>>

\* One thread can fill its ring.
Works == [t \in Thread |-> IF t = t1 THEN 4 ELSE 2]
=============================================================================
