----------------------------- MODULE FrameQueue -----------------------------
(***************************************************************************)
(* What a frame ring promises to the two threads that share it: a bounded   *)
(* first-in first-out queue whose consumer looks at the oldest frame, keeps *)
(* it while it publishes the bytes, and only then releases it.              *)
(***************************************************************************)
EXTENDS Naturals, Sequences

CONSTANTS Capacity, Frame, NoFrame

VARIABLES
  queue,   \* frames stored and not yet released, oldest first
  view     \* the frame the consumer has read and not yet released

vars == <<queue, view>>

Init ==
  /\ queue = <<>>
  /\ view = NoFrame

Push(f) ==
  /\ Len(queue) < Capacity
  /\ queue' = Append(queue, f)
  /\ UNCHANGED view

Front ==
  /\ view = NoFrame
  /\ queue # <<>>
  /\ view' = Head(queue)
  /\ UNCHANGED queue

Pop ==
  /\ view # NoFrame
  /\ queue' = Tail(queue)
  /\ view' = NoFrame

Next ==
  \/ \E f \in Frame : Push(f)
  \/ Front
  \/ Pop

Spec == Init /\ [][Next]_vars
=============================================================================
