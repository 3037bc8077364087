----------------------------- MODULE WorkerLink -----------------------------
(***************************************************************************)
(* The TCP connection of a worker to its consumer, as both workers use it  *)
(* (native/worker/main.cpp and native/worker/kernel.cpp).  A frame crosses *)
(* the bounded socket in two parts, so that a run can end between them.    *)
(* A link is a record: open, whether the consumer still holds its end;     *)
(* inbox, the inputs it sent that the worker has not read; sent, all the   *)
(* inputs it sent; wire, the parts the worker sent; taken, how many of     *)
(* them the consumer has read.                                             *)
(***************************************************************************)
EXTENDS Naturals, Sequences, SequencesExt

CONSTANTS SocketParts,   \* parts the socket buffers hold
          Inputs,        \* what a consumer may send as an action
          MaxInputs      \* bound: inputs a consumer sends in a run

ASSUME LinkAssumption == SocketParts \in Nat \ {0} /\ MaxInputs \in Nat

Connected == [open |-> TRUE, inbox |-> <<>>, sent |-> <<>>, wire |-> <<>>, taken |-> 0]

Room(l) == Len(l.wire) - l.taken < SocketParts

\* Is the last frame on the wire only partly sent?
Partly(l) == l.wire # <<>> /\ Last(l.wire).part = 1

Put(l, kind) ==
  [l EXCEPT !.wire = Append(@, [kind |-> kind, part |-> IF Partly(l) THEN 2 ELSE 1])]

\* The kinds of the frames that have crossed completely.
Frames(l) ==
  LET whole == SelectSeq(l.wire, LAMBDA p : p.part = 2)
  IN  [i \in DOMAIN whole |-> whole[i].kind]

\* report_deadline: one nonblocking attempt, which a full socket loses and a
\* nearly full one truncates.  It never resumes the frame it interrupts.
Reported(l) ==
  LET first == [l EXCEPT !.wire = Append(@, [kind |-> "report", part |-> 1])]
      both  == [first EXCEPT !.wire = Append(@, [kind |-> "report", part |-> 2])]
  IN  IF ~Room(l) THEN l ELSE IF ~Room(first) THEN first ELSE both

\* The consumer reads a part, sends an input, or closes its end.
Reads(l) == [l EXCEPT !.taken = @ + 1]

Sends(l, i) == [l EXCEPT !.inbox = Append(@, i), !.sent = Append(@, i)]

Closes(l) == [l EXCEPT !.open = FALSE]

MayRead(l) == l.open /\ l.taken < Len(l.wire)

\* An input sent behind an unread one is no different from one sent once that
\* has been read: the workers look at the first one only.
MaySend(l) == l.open /\ l.inbox = <<>> /\ Len(l.sent) < MaxInputs

\* No deadline report starts inside a frame.
ReportAtBoundary(l) ==
  \A i \in DOMAIN l.wire :
    l.wire[i] = [kind |-> "report", part |-> 1] /\ i > 1 => l.wire[i - 1].part = 2
=============================================================================
