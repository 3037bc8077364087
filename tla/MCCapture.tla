----------------------------- MODULE MCCapture ------------------------------
(* Small instances of Capture: how the plugin is started and how many rows    *)
(* each of two vCPUs captures.                                                *)
EXTENDS Capture

Rows(a, b) == [s \in Source |-> IF s = 0 THEN a ELSE b]

\* Rings under a kernel worker, and frames of one kind straight to the pipe.
RingAndDirect ==
  {[ring |-> TRUE, kernel |-> TRUE, mixed |-> TRUE, rows |-> Rows(4, 2)],
   [ring |-> FALSE, kernel |-> FALSE, mixed |-> FALSE, rows |-> Rows(5, 5)]}
RingOnly == {[ring |-> TRUE, kernel |-> TRUE, mixed |-> TRUE, rows |-> Rows(3, 0)]}
=============================================================================
