--------------------------- MODULE CaptureFrames ----------------------------
(***************************************************************************)
(* The calls that append rows, push or send frames and end a source keep   *)
(* the invariant behind the frames of a capture: the Stream of the worker  *)
(* accepts each of them.                                                   *)
(***************************************************************************)
EXTENDS CaptureCalls

\* A step is a matter of logic, unless it cites SMT for arithmetic or sequences.
USE ZenonT(30)

-----------------------------------------------------------------------------
(* Rows and frames on their way to the ring. *)

\* The frame that flush encodes holds the buffered rows, and starts where the
\* frames before it end.
LEMMA BufferedFact ==
  ASSUME TypeInv, NEW s \in Source, NEW h, NEW g, NEW e, Captured(s, h, g, e), buffer[s] # <<>>
  PROVE  /\ BufferedFrame(s) \in Frame /\ FrameOf(s, BufferedFrame(s), h)
         /\ Before(BufferedFrame(s)) = e - Len(buffer[s]) /\ Upto(BufferedFrame(s)) = e
<1> DEFINE b == buffer[s]
           m == Len(b)
           k == e - m
           f == BufferedFrame(s)
<1>1. /\ b \in Seq(Row) /\ b # <<>> /\ m \in Nat \ {0} /\ e \in Nat /\ k \in Nat
      /\ Len(h) \in Nat /\ e <= Len(h) /\ k + m = e
      /\ Slice(b, h, k)
  BY SMT DEF TypeInv, Captured, BufferInv, Slice, Run
<1>2. next[s] = e - 1
  BY <1>1, SMT DEF Captured, BufferInv
<1>3. 1 \in 1 .. m /\ k + 1 \in 1 .. Len(h)
  BY <1>1, SMT
<1> HIDE DEF m, k
<1>4. b[1] = h[k + 1]
  BY <1>1, <1>3 DEF Slice, m
<1>5. b[1].kind = "register_schema" <=> k = 0
  <2>1. h[k + 1].kind = "register_schema" <=> k + 1 = 1
    BY <1>3 DEF Captured, Run, Fits
  <2> QED
    BY <1>1, <1>4, <2>1, SMT
<1>6. CASE k = 0
  <2>0. m <= 1
    BY <1>1, <1>6 DEF Slice, m
  <2>1. m = 1 /\ e = 1
    BY <1>1, <1>6, <2>0, SMT
  <2>2. f = [kind |-> "register_schema", source |-> s]
    BY <1>5, <1>6 DEF BufferedFrame
  <2>3. f \in Frame /\ FrameOf(s, f, h) /\ Before(f) = 0 /\ Upto(f) = 1
    BY <1>1, <2>1, <2>2, SMT DEF Frame, FrameOf, Before, Upto
  <2> QED
    BY <1>1, <1>6, <2>1, <2>3 DEF m, k
<1>7. CASE k # 0
  <2> DEFINE n == k - 1
  <2>1. f = [kind |-> "rows", source |-> s, sequence |-> next[s] - m, rows |-> b]
    BY <1>5, <1>7 DEF BufferedFrame, m
  <2>2. next[s] - m = n /\ n \in Nat /\ n + 1 = k
    BY <1>1, <1>2, <1>7, SMT
  <2> HIDE DEF n
  <2>3. f = [kind |-> "rows", source |-> s, sequence |-> n, rows |-> b]
    BY <2>1, <2>2
  <2> HIDE DEF f, b
  <2>4. f \in Frame /\ FrameOf(s, f, h)
    BY <1>1, <2>2, <2>3 DEF Frame, FrameOf
  <2>5. Before(f) = k /\ Upto(f) = k + m
    BY <2>2, <2>3 DEF Before, Upto, m
  <2> QED
    BY <1>1, <2>4, <2>5 DEF f, k, m, b
<1> QED
  BY <1>6, <1>7

\* A frame joins the ring; its rows stay in the buffer until it is counted.
LEMMA PushFrames ==
  ASSUME ExclusionInv, FramesInv, NEW t \in Thread, NEW s \in Source, FlushRing(t, s), mode' = mode
  PROVE  FramesInv'
<1> USE DEF sourceVars, ringVars, collectorVars, controlVars, exitVars
<1> DEFINE f == BufferedFrame(s)
           Q == <<Call("count", s)>>
<1>1. /\ Inside(t, s) /\ plan[t][1].op = "flush" /\ HeadInv(t) /\ plan[t][1].at = s
      /\ plan[t] # <<>> /\ Ordered(plan[t], t) /\ Len(plan[t]) \in Nat
  BY CallFact, InsideFact, SMT DEF FlushRing
<1>2. Len(ring[s]) < RingCapacity
  BY <1>1, CollectorRuns DEF FlushRing
<1>3. /\ ring' = [ring EXCEPT ![s] = Append(@, f)] /\ plan' = [plan EXCEPT ![t] = Q \o Tail(@)]
      /\ UNCHANGED <<failure, stream>>
  BY <1>2 DEF FlushRing
<1>4. Q \in Seq(PlanCall) /\ Len(Q) = 1 /\ Q[1].at = s /\ Q[1].op = "count" /\ 1 \in Nat
  BY SMT DEF PlanCall, Op, Call
<1> HIDE DEF f, Q
<1>5. PICK R : Substitutes(t, s, R, 1) /\ plan'[t] = R /\ \A i \in 1 .. 1 : R[i] = Q[i]
  <2>1. \A i \in 1 .. 1 : Q[i].at = s
    BY <1>4, SMT
  <2>2. Splices(t, s, Q, 1)
    BY <1>1, <1>3, <1>4, <2>1 DEF Splices
  <2> QED
    BY <1>1, <2>2, SpliceFact, SMT
<1>6. R[1].op = "count" /\ R[1].at = s
  BY <1>4, <1>5, SMT
<1>7. Ordered(R, t)
  <2>1. Len(plan[t]) >= 2 => Link(R[1], plan[t][2], t)
    <3> SUFFICES ASSUME Len(plan[t]) >= 2 PROVE Link(R[1], plan[t][2], t)
      OBVIOUS
    <3>1. 1 \in 1 .. Len(plan[t]) - 1
      BY <1>1, SMT
    <3>2. Link(plan[t][1], plan[t][1 + 1], t)
      BY <1>1, <3>1 DEF Ordered
    <3> QED
      BY <1>1, <1>6, <3>2, SMT DEF Link, Pairs
  <2>2. 1 .. 1 - 1 = {} /\ \A i \in 1 .. 1 : R[i].op # "append"
    BY <1>6, SMT
  <2> QED
    BY <1>1, <1>4, <1>5, <2>1, <2>2, OrderReplaced, SMT DEF Substitutes
<1>8. state[s] = "active" /\ buffer[s] # <<>> /\ UseRing
  BY <1>1 DEF HeadInv, FlushRing
<1>9. HeadInv(t)'
  BY <1>5, <1>6, <1>8 DEF HeadInv, FlushRing, UseRing
<1>10. PICK h, g, e : Captured(s, h, g, e)
  BY DEF FramesInv
<1>11. f \in Frame /\ FrameOf(s, f, h) /\ Before(f) = e - Len(buffer[s]) /\ Upto(f) = e
  BY <1>8, <1>10, BufferedFact DEF FramesInv, f
<1>12. /\ ring \in [Source -> Seq(Frame)] /\ ring'[s] = Append(ring[s], f)
       /\ \A r \in Source \ {s} : ring'[r] = ring[r]
       /\ ring' \in [Source -> Seq(Frame)] /\ sent[s] \in Nat /\ queued[s] \in Nat
  BY <1>3, <1>11, SMT DEF FramesInv, TypeInv
<1>13. /\ \A u \in Thread : Ordered(plan[u], u)' /\ HeadInv(u)'
       /\ \A r \in Source : PassInv(r)'
  BY <1>1, <1>5, <1>7, <1>8, <1>9, <1>12, CallStep DEF FlushRing
<1>14. TypeInv' /\ ThreadInv'
  <2>1. TypeInv'
    BY <1>3, <1>12 DEF FramesInv, TypeInv, StreamSet, Features, Kernel, Mixed, FlushRing
  <2>2. ThreadInv'
    BY <1>3 DEF FramesInv, ThreadInv, Kernel, UseRing, Alive, FlushRing
  <2> QED
    BY <2>1, <2>2
<1>15. \A r \in Source : HeldAt(r)' <=> HeldAt(r)
  BY DEF HeldAt, Visited, FlushRing
<1>16. \A r \in Source \ {s} : Untouched(r)
  <2>1. \A r \in Source \ {s} : (Pushed(r)' <=> Pushed(r)) /\ plan'[r] = plan[r]
    BY <1>1, <1>5, CallPushed
  <2> QED
    BY <1>3, <1>12, <1>15, <2>1 DEF Untouched, Still, SameSource, FlushRing
<1>17. ~ Pushed(s) /\ Pushed(s)'
  BY <1>1, <1>5, <1>6, CallPushed, SmallFact
<1>18. PlanRows(plan[s], s, h, e)' /\ RowsInv(s, h, g)'
  BY <1>1, <1>5, <1>6, <1>8, <1>10, PlanKept DEF Captured, Run, FlushRing
<1>19. BufferInv(s, h, g, e)'
  BY <1>10 DEF Captured, BufferInv, Slice, Mixed, FlushRing
<1>20. RingInv(s, h, e)' /\ Reached(s, e)' = Reached(s, e)
  <2> DEFINE W == ring[s]
             V == ring'[s]
  <2>1. /\ W \in Seq(Frame) /\ Len(W) \in Nat /\ V = Append(W, f) /\ V \in Seq(Frame)
        /\ Len(V) = Len(W) + 1 /\ V[Len(V)] = f /\ V # <<>>
        /\ \A j \in 1 .. Len(W) : V[j] = W[j]
        /\ W # <<>> <=> Len(W) > 0
    BY <1>11, <1>12, SMT
  <2>2. Framed(s, e) = e - Len(buffer[s]) /\ Framed(s, e)' = e
    <3>1. e - 0 = e
      BY <1>10, SMT DEF Captured
    <3> QED
      BY <1>17, <3>1 DEF Framed, FlushRing
  <2> HIDE DEF V, W
  <2>3. /\ \A j \in 1 .. Len(W) : FrameOf(s, W[j], h)
        /\ \A j \in 1 .. Len(W) - 1 : Upto(W[j]) = Before(W[j + 1])
        /\ W # <<>> => Upto(W[Len(W)]) = Before(f)
        /\ sent[s] + Len(W) = queued[s]
        /\ HeldAt(s) => W # <<>>
    <3>1. /\ \A j \in 1 .. Len(W) : FrameOf(s, W[j], h)
          /\ \A j \in 1 .. Len(W) - 1 : Upto(W[j]) = Before(W[j + 1])
          /\ W # <<>> => Upto(W[Len(W)]) = Framed(s, e)
          /\ sent[s] + Len(W) = queued[s] + 0
          /\ HeldAt(s) => W # <<>>
      BY <1>10, <1>17 DEF Captured, RingInv, W
    <3>2. queued[s] + 0 = queued[s]
      <4>1. queued[s] \in Nat
        BY <1>12
      <4> QED
        BY <4>1, SMT
    <3> QED
      BY <1>11, <2>2, <3>1, <3>2
  <2>4. \A j \in 1 .. Len(V) : FrameOf(s, V[j], h)
    BY <1>11, <2>1, <2>3, SMT
  <2>5. ASSUME NEW j \in 1 .. Len(V) - 1
        PROVE  Upto(V[j]) = Before(V[j + 1])
    <3>1. CASE j = Len(W)
      BY <2>1, <2>3, <3>1, SMT
    <3>2. CASE j # Len(W)
      <4>1. j \in 1 .. Len(W) - 1 /\ j \in 1 .. Len(W) /\ j + 1 \in 1 .. Len(W)
        BY <2>1, <3>2, SMT
      <4> QED
        BY <2>1, <2>3, <4>1
    <3> QED
      BY <3>1, <3>2
  <2>6. Upto(V[Len(V)]) = e /\ sent[s] + Len(V) = queued[s] + 1
    <3>1. Upto(V[Len(V)]) = e
      BY <1>11, <2>1
    <3>2. /\ sent[s] \in Nat /\ queued[s] \in Nat /\ Len(W) \in Nat /\ Len(V) = Len(W) + 1
          /\ sent[s] + Len(W) = queued[s]
      BY <1>12, <2>1, <2>3
    <3>3. sent[s] + (Len(W) + 1) = queued[s] + 1
      <4>1. Counted(sent[s], Len(W), queued[s])
        BY <3>2 DEF Counted
      <4> QED
        BY <4>1, PlusOne
    <3> QED
      BY <3>1, <3>2, <3>3
  <2>7. sent'[s] = sent[s] /\ queued'[s] = queued[s] /\ UseRing'
    BY <1>8 DEF FlushRing, UseRing
  <2>8. RingInv(s, h, e)'
    BY <1>17, <2>1, <2>2, <2>4, <2>5, <2>6, <2>7 DEF RingInv, FrameOf, Slice, Mixed, Upto, Before,
       V
  <2>9. W # <<>> => V[1] = W[1]
    BY <2>1, SMT
  <2>10. W = <<>> => V[1] = f
    BY <2>1, SMT
  <2>11. Reached(s, e) = IF HeldAt(s) THEN Upto(W[1]) ELSE IF W # <<>> THEN Before(W[1])
                         ELSE Framed(s, e)
    BY DEF Reached, W
  <2>12. Reached(s, e)' = IF HeldAt(s) THEN Upto(V[1]) ELSE Before(V[1])
    BY <1>15, <2>1 DEF Reached, V, Upto, Before
  <2>13. Reached(s, e)' = Reached(s, e)
    BY <1>11, <2>2, <2>3, <2>9, <2>10, <2>11, <2>12
  <2> QED
    BY <2>8, <2>13
<1>21. AcceptedInv(s, g, e)'
  BY <1>3, <1>10, <1>20 DEF Captured, AcceptedInv, Expects, Position, FlushRing
<1>22. Captured(s, h, g, e)'
  BY <1>10, <1>18, <1>19, <1>20, <1>21 DEF Captured, Run
<1> QED
  BY <1>13, <1>14, <1>16, <1>22, Assemble

\* The frame is counted and the buffer reset.
LEMMA CountFrames ==
  ASSUME ExclusionInv, FramesInv, NEW t \in Thread, NEW s \in Source, CountFrame(t, s), mode' = mode
  PROVE  FramesInv'
<1> USE DEF sourceVars, ringVars, collectorVars, controlVars, exitVars
<1>1. /\ Inside(t, s) /\ plan[t][1].op = "count" /\ HeadInv(t) /\ plan[t][1].at = s
      /\ plan[t] # <<>>
  BY CallFact, InsideFact DEF CountFrame
<1>2. PICK R : /\ Substitutes(t, s, R, 0) /\ Ordered(R, t) /\ plan'[t] = R
               /\ R # <<>> => Link(plan[t][1], R[1], t)
  BY <1>1, DropFact DEF CountFrame
<1>3. R # <<>> => /\ R[1].at = s /\ R[1].op \in {"append", "flush", "wait", "unlock"}
                  /\ R[1].op = "unlock" => t # Control /\ t # Main
  BY <1>1, <1>2, SourceFact DEF Link, Pairs
<1>4. state[s] = "active" /\ buffer[s] # <<>>
  BY <1>1 DEF HeadInv
<1>5. /\ buffer'[s] = <<>> /\ queued'[s] = queued[s] + 1
      /\ sent[s] \in Nat /\ queued[s] \in Nat /\ buffer \in [Source -> Seq(Row)]
      /\ queued \in [Source -> Nat]
  BY DEF CountFrame, FramesInv, TypeInv
<1>6. HeadInv(t)'
  BY <1>2, <1>3, <1>4, <1>5 DEF CountFrame, HeadInv
<1>7. TypeInv' /\ ThreadInv'
  <2>1. buffer' \in [Source -> Seq(Row)] /\ queued' \in [Source -> Nat]
    BY <1>5, SMT DEF CountFrame
  <2>2. TypeInv'
    BY <2>1 DEF FramesInv, TypeInv, StreamSet, Features, Kernel, Mixed, CountFrame
  <2>3. ThreadInv'
    BY DEF FramesInv, ThreadInv, Kernel, UseRing, Alive, CountFrame
  <2> QED
    BY <2>2, <2>3
<1>8. \A r \in Source : HeldAt(r)' <=> HeldAt(r)
  BY DEF HeldAt, Visited, CountFrame
<1>9. Elsewhere(s)
  BY <1>5, <1>8 DEF Elsewhere, SameSource, CountFrame
<1>10. Pushed(s) /\ ~ Pushed(s)'
  BY <1>1, <1>2, CallPushed, SmallFact
<1>11. PICK h, g, e : Captured(s, h, g, e)
  BY DEF FramesInv
<1>12. PlanRows(plan[s], s, h, e)' /\ RowsInv(s, h, g)'
  <2>1. /\ state'[s] = state[s] /\ recording' = recording /\ state[s] # "ended"
        /\ plan[t][1].op \notin {"append", "end"}
    BY <1>1, <1>4 DEF CountFrame
  <2>2. /\ h \in Seq(Row) /\ e \in 0 .. Len(h)
        /\ PlanRows(plan[s], s, h, e) /\ RowsInv(s, h, g)
    BY <1>11 DEF Captured, Run
  <2>3. 0 \in {0, 1} /\ 0 # 1
    BY SMT
  <2> QED
    BY <1>1, <1>2, <2>1, <2>2, <2>3, PlanKept
<1>13. BufferInv(s, h, g, e)'
  <2>1. Slice(buffer[s], h, e - Len(buffer[s]))'
    <3>1. Slice(<<>>, h, e - Len(<<>>))
      BY <1>11, EmptySlice DEF Captured, Run
    <3> QED
      BY <1>5, <3>1 DEF Slice, Mixed
  <2> QED
    BY <1>11, <2>1 DEF Captured, BufferInv, CountFrame
<1>14. Framed(s, e) = e /\ Framed(s, e)' = e
  <2>1. e - 0 = e /\ Len(<<>>) = 0
    BY <1>11, SMT DEF Captured, Run
  <2> QED
    BY <1>5, <1>10, <2>1 DEF Framed
<1>15. Reached(s, e)' = Reached(s, e)
  BY <1>8, <1>14 DEF Reached, CountFrame, Upto, Before
<1>16. RingInv(s, h, e)'
  <2>1. Len(ring[s]) \in Nat
    BY SMT DEF FramesInv, TypeInv
  <2>2. sent[s] + Len(ring[s]) = queued[s] + 1
    BY <1>10, <1>11 DEF Captured, RingInv
  <2>3. sent'[s] + Len(ring'[s]) = queued'[s] + 0
    BY <1>5, <2>1, <2>2, SMT DEF CountFrame
  <2> QED
    <3>1. RingInv(s, h, e)
      BY <1>11 DEF Captured
    <3>2. (\A j \in 1 .. Len(ring[s]) : FrameOf(s, ring[s][j], h))'
      BY <3>1 DEF RingInv, FrameOf, Slice, Mixed, CountFrame
    <3>3. (\A j \in 1 .. Len(ring[s]) - 1 : Upto(ring[s][j]) = Before(ring[s][j + 1]))'
      BY <3>1 DEF RingInv, Upto, Before, CountFrame
    <3>4. (ring[s] # <<>> => Upto(ring[s][Len(ring[s])]) = Framed(s, e))'
      BY <1>14, <3>1 DEF RingInv, Upto, CountFrame
    <3>5. (/\ sent[s] + Len(ring[s]) = queued[s] + (IF Pushed(s) THEN 1 ELSE 0)
           /\ ~ UseRing => ring[s] = <<>>
           /\ HeldAt(s) => ring[s] # <<>>)'
      BY <1>8, <1>10, <2>3, <3>1 DEF RingInv, UseRing, CountFrame
    <3> QED
      BY <3>2, <3>3, <3>4, <3>5 DEF RingInv
<1>17. AcceptedInv(s, g, e)'
  BY <1>11, <1>15 DEF Captured, AcceptedInv, Expects, Position, CountFrame
<1>18. Captured(s, h, g, e)'
  BY <1>11, <1>12, <1>13, <1>16, <1>17 DEF Captured, Run
<1> QED
  BY <1>1, <1>2, <1>4, <1>6, <1>7, <1>9, <1>18, CallAssemble DEF CountFrame

-----------------------------------------------------------------------------
(* append. *)

\* Row e + 1 of n rows.
LEMMA RowAfter ==
  ASSUME NEW n \in Nat, NEW e \in 0 .. n, e + 1 \in 0 .. n
  PROVE  e \in Nat /\ e + 1 \in 1 .. n /\ (e + 1) - 1 = e
  BY SMT

\* The rows of a plan that starts with one.
Fronted(P, s, h, e) ==
  /\ Len(h) - e <= Len(P)
  /\ \A j \in 1 .. Len(h) - e :
       P[j] \in [op : {"append"}, at : {s}, row : Row] /\ Match(P[j].row, h[e + j])
  /\ \A i \in 1 .. Len(P) : P[i].op = "append" => i <= Len(h) - e

\* They are its first calls.
LEMMA Front ==
  ASSUME NEW s \in Source, NEW h \in Seq(Row), NEW e \in 0 .. Len(h), NEW P,
         PlanRows(P, s, h, e), P[1].op = "append"
  PROVE  Fronted(P, s, h, e)
<1>0. Offset(P) = 0
  BY DEF Offset
<1>1. /\ 0 + Len(h) - e <= Len(P)
      /\ \A j \in 1 .. Len(h) - e :
           /\ P[0 + j] \in [op : {"append"}, at : {s}, row : Row]
           /\ Match(P[0 + j].row, h[e + j])
      /\ \A i \in 1 .. Len(P) : P[i].op = "append" => i <= 0 + Len(h) - e
  BY <1>0 DEF PlanRows
<1>2. 0 + Len(h) - e = Len(h) - e
  BY SMT
<1>3. ASSUME NEW j \in 1 .. Len(h) - e
      PROVE  P[j] \in [op : {"append"}, at : {s}, row : Row] /\ Match(P[j].row, h[e + j])
  <2>1. 0 + j = j
    BY SMT
  <2>2. P[0 + j] = P[j]
    BY <2>1
  <2> QED
    BY <1>1, <2>2
<1> QED
  BY <1>1, <1>2, <1>3 DEF Fronted

\* The buffer is flushed before the row is appended.
LEMMA PlanFlush ==
  ASSUME NEW s \in Source, NEW h \in Seq(Row), NEW e \in 0 .. Len(h), NEW P,
         PlanRows(P, s, h, e), P[1].op = "append",
         NEW R, Replaces(R, P, 2), R[1].op = "flush", R[2] = P[1]
  PROVE  PlanRows(R, s, h, e)
<1> DEFINE n == Len(h) - e
<1>0. /\ Len(h) \in Nat /\ e \in Nat /\ n \in Nat /\ Len(P) \in Nat \ {0}
      /\ Len(R) = Len(P) + 1 /\ Len(R) \in Nat /\ R # <<>>
  BY SMT DEF Replaces
<1>1. Offset(P) = 0 /\ Offset(R) = 1
  BY <1>0 DEF Offset
<1>2. /\ n <= Len(P)
      /\ \A j \in 1 .. n : P[j] \in [op : {"append"}, at : {s}, row : Row] /\ Match(P[j].row, h[e + j])
      /\ \A i \in 1 .. Len(P) : P[i].op = "append" => i <= n
  BY Front DEF Fronted, n
<1>3. \A i \in 1 .. Len(P) : R[1 + i] = P[i]
  <2> TAKE i \in 1 .. Len(P)
  <2>1. CASE i = 1
    BY <2>1, SMT
  <2>2. CASE i # 1
    <3>1. 1 + i \in 1 .. Len(R) /\ 1 + i > 2 /\ (1 + i) - 2 + 1 = i
      BY <1>0, <2>2, SMT
    <3> QED
      BY <3>1 DEF Replaces
  <2> QED
    BY <2>1, <2>2
<1>4. Offset(R) + Len(h) - e = 1 + n
  BY <1>0, <1>1
<1> HIDE DEF n
<1>5. ASSUME NEW i \in 1 .. Len(R), R[i].op = "append"
      PROVE  i > 1 /\ i <= 1 + n
  <2>1. i # 1
    BY <1>5
  <2>2. i - 1 \in 1 .. Len(P) /\ R[1 + (i - 1)] = P[i - 1] /\ 1 + (i - 1) = i
    BY <1>0, <1>3, <2>1, SMT
  <2>3. i - 1 <= n
    BY <1>2, <1>5, <2>2
  <2> QED
    BY <1>0, <2>1, <2>3, SMT
<1>6. \A j \in 1 .. n : R[1 + j] = P[j]
  BY <1>0, <1>2, <1>3, SMT
<1>7. 1 + n <= Len(R)
  BY <1>0, <1>2, SMT
<1>8. n = Len(h) - e
  BY DEF n
<1> QED
  <2>1. Offset(R) + Len(h) - e <= Len(R)
    BY <1>4, <1>7
  <2>2. \A j \in 1 .. Len(h) - e :
          /\ R[Offset(R) + j] \in [op : {"append"}, at : {s}, row : Row]
          /\ Match(R[Offset(R) + j].row, h[e + j])
    BY <1>1, <1>2, <1>6, <1>8
  <2>3. \A i \in 1 .. Len(R) :
          R[i].op = "append" => i > Offset(R) /\ i <= Offset(R) + Len(h) - e
    BY <1>1, <1>4, <1>5
  <2> QED
    BY <2>1, <2>2, <2>3 DEF PlanRows

\* A row that does not fit makes its vCPU flush first, and append it then.
LEMMA FlushFirst ==
  ASSUME ExclusionInv, FramesInv, NEW s \in Source, AppendCall(s, s), NeedsFlush(s, Head(plan[s]).row),
         mode' = mode, Inside(s, s), plan[s][1].op = "append", state[s] = "active"
  PROVE  FramesInv'
<1> USE DEF sourceVars, ringVars, collectorVars, controlVars, exitVars
<1> DEFINE P == plan[s]
           Q == <<Call("flush", s)>>
           R == Q \o P
<1>0. s \in Thread /\ plan \in [Thread -> Seq(PlanCall)] /\ Ordered(P, s)
  BY SourceFact DEF ExclusionInv, ExclusionType, FramesInv
<1>1. /\ P \in Seq(PlanCall) /\ P # <<>> /\ Len(P) \in Nat \ {0} /\ DOMAIN P = 1 .. Len(P)
      /\ P[1].at = s
  BY <1>0, InsideFact
<1>2. plan' = [plan EXCEPT ![s] = R] /\ UNCHANGED sourceVars
  BY DEF AppendCall
<1>3. Q \in Seq(PlanCall) /\ Len(Q) = 1 /\ Q[1].at = s /\ Q[1].op = "flush"
  BY SMT DEF PlanCall, Op, Call
<1> HIDE DEF Q, P
<1>4. /\ R \in Seq(PlanCall) /\ Len(R) = Len(P) + 1 /\ R[1] = Q[1]
      /\ \A i \in 1 .. Len(R) : i > 1 => R[i] = P[i - 1]
  <2>0. \A A, B \in Seq(PlanCall) :
          LET C == A \o B
          IN  /\ C \in Seq(PlanCall) /\ Len(C) = Len(A) + Len(B)
              /\ \A i \in 1 .. Len(C) : C[i] = IF i <= Len(A) THEN A[i] ELSE B[i - Len(A)]
    BY SMT
  <2>1. /\ R \in Seq(PlanCall) /\ Len(R) = Len(Q) + Len(P)
        /\ \A i \in 1 .. Len(R) : R[i] = IF i <= Len(Q) THEN Q[i] ELSE P[i - Len(Q)]
    BY <1>1, <1>3, <2>0
  <2> HIDE DEF R
  <2> QED
    BY <1>1, <1>3, <2>1, SMT
<1> HIDE DEF R
<1>5. /\ Replaces(R, P, 2) /\ R[2] = P[1] /\ DOMAIN R = 1 .. Len(R)
  <2>1. Len(R) = 2 + Len(P) - 1 /\ R[2] = P[1] /\ DOMAIN R = 1 .. Len(R)
    BY <1>1, <1>4, SMT
  <2>2. ASSUME NEW i \in 1 .. Len(R), i > 2
        PROVE  R[i] = P[i - 2 + 1]
    BY <1>1, <1>4, <2>2, SMT
  <2> QED
    BY <1>1, <1>4, <2>1, <2>2 DEF Replaces
<1>6. Substitutes(s, s, R, 2)
  <2>1. \A i \in 1 .. 2 : R[i].at = s
    <3>1. 1 .. 2 = {1, 2}
      BY SMT
    <3> QED
      BY <1>1, <1>3, <1>4, <1>5, <3>1
  <2> QED
    BY <1>2, <1>5, <2>1 DEF Substitutes, P
<1>7. Ordered(R, s)
  <2>1. Link(R[1], R[2], s) /\ 1 .. 2 - 1 = {1}
    BY <1>1, <1>3, <1>4, <1>5, SMT DEF Link, Pairs, P
  <2>2. Len(P) >= 2 => Link(R[2], P[2], s)
    <3>1. Len(P) >= 2 => 1 \in 1 .. Len(P) - 1
      BY <1>1, SMT
    <3>2. Len(P) >= 2 => Link(P[1], P[1 + 1], s)
      BY <1>0, <3>1 DEF Ordered
    <3> QED
      BY <1>5, <3>2, SMT
  <2> QED
    BY <1>0, <1>5, <2>1, <2>2, OrderReplaced, SMT
<1>8. plan'[s] = R
  BY <1>0, <1>2
<1>9. HeadInv(s)'
  BY <1>2, <1>3, <1>4, <1>8 DEF HeadInv
<1>10. \A r \in Source : HeldAt(r)' <=> HeldAt(r)
  BY DEF HeldAt, Visited, AppendCall
<1>11. Elsewhere(s)
  BY <1>2, <1>10 DEF Elsewhere, SameSource, AppendCall
<1>12. TypeInv' /\ ThreadInv'
  <2>1. TypeInv'
    BY <1>2 DEF FramesInv, TypeInv, StreamSet, Features, Kernel, Mixed, AppendCall
  <2>2. ThreadInv'
    BY <1>2 DEF FramesInv, ThreadInv, Kernel, UseRing, Alive, AppendCall
  <2> QED
    BY <2>1, <2>2
<1>13. PICK h, g, e : Captured(s, h, g, e)
  BY DEF FramesInv
<1>14. Still(s)
  <2>1. Pushed(s)' <=> Pushed(s)
    BY <1>0, <1>3, <1>4, <1>6, CallPushed, SmallFact
  <2> QED
    BY <1>2, <1>10, <2>1 DEF Still, SameSource, AppendCall
<1>15. BufferInv(s, h, g, e)' /\ RingInv(s, h, e)' /\ AcceptedInv(s, g, e)'
  BY <1>13, <1>14, DataKept
<1>16. PlanRows(plan[s], s, h, e)'
  <2>1. PlanRows(R, s, h, e)
    BY <1>3, <1>4, <1>5, <1>13, PlanFlush DEF Captured, Run, P
  <2> QED
    BY <1>8, <2>1
<1>17. RowsInv(s, h, g)'
  <2>1. (\E i \in DOMAIN P : P[i].op = "end") => \E i \in DOMAIN R : R[i].op = "end"
    <3> SUFFICES ASSUME NEW i \in DOMAIN P, P[i].op = "end" PROVE \E j \in DOMAIN R : R[j].op = "end"
      OBVIOUS
    <3>1. i + 1 \in DOMAIN R /\ R[i + 1] = P[i]
      BY <1>1, <1>4, <1>5, SMT
    <3> QED
      BY <3>1
  <2> QED
    BY <1>2, <1>8, <1>13, <2>1 DEF Captured, RowsInv, P
<1>18. Captured(s, h, g, e)'
  BY <1>13, <1>15, <1>16, <1>17 DEF Captured, Run
<1> QED
  BY <1>0, <1>2, <1>6, <1>7, <1>9, <1>11, <1>12, <1>18, CallAssemble DEF AppendCall

\* Row e + 1 of the run as the plan has it, to be stamped with the context c.
Stamps(row, c, h, g, e) ==
  /\ Run(h, g) /\ e \in Nat /\ e + 1 \in 1 .. Len(h)
  /\ row \in Row /\ Match(row, h[e + 1]) /\ c = g[e].context

\* The row that append writes.
Stamped(row, c) == IF row.kind = "memory" THEN [row EXCEPT !.context = c] ELSE row

NextRow(row, h, e) == row = h[e + 1]

\* It is the next row of the run, with its context.
LEMMA StampedFact ==
  ASSUME NEW h, NEW g, NEW e, NEW row, NEW c, Stamps(row, c, h, g, e)
  PROVE  NextRow(Stamped(row, c), h, e)
<1> USE DEF Stamps, Stamped, NextRow
<1>1. h[e + 1] \in Row /\ Fits(g[(e + 1) - 1], h[e + 1], e + 1)
  BY SMT DEF Run
<1>2. (e + 1) - 1 = e
  BY SMT
<1>3. CASE row.kind = "memory"
  <2>1. h[e + 1].kind = "memory" /\ h[e + 1].context = c
    BY <1>1, <1>2, <1>3 DEF Match, Fits
  <2>2. row \in [kind : {"memory"}, context : Int] /\ h[e + 1] \in [kind : {"memory"}, context : Int]
    BY <1>1, <1>3, <2>1 DEF Row
  <2> QED
    BY <1>3, <2>1, <2>2
<1>4. CASE row.kind # "memory"
  BY <1>4 DEF Match
<1> QED
  BY <1>3, <1>4

\* Row e + 1 joins the buffer b, which it fits.
Grows(b, c, h, e) ==
  /\ e \in Nat /\ e + 1 \in 1 .. Len(h)
  /\ b \in Seq(Row) /\ Slice(b, h, e - Len(b)) /\ c = Append(b, h[e + 1])
  /\ b # <<>> => \/ b[1].kind = h[e + 1].kind
                 \/ Mixed /\ "register_schema" \notin {b[1].kind, h[e + 1].kind}

\* The buffer is then still a slice of the run.
LEMMA BufferGrows ==
  ASSUME NEW h, NEW g, Run(h, g), NEW e, NEW b, NEW c, Grows(b, c, h, e)
  PROVE  c \in Seq(Row) /\ Len(c) = Len(b) + 1 /\ Slice(c, h, (e + 1) - Len(c))
<1>0. /\ e \in Nat /\ e + 1 \in 1 .. Len(h)
      /\ b \in Seq(Row) /\ Slice(b, h, e - Len(b)) /\ c = Append(b, h[e + 1])
      /\ b # <<>> => \/ b[1].kind = h[e + 1].kind
                     \/ Mixed /\ "register_schema" \notin {b[1].kind, h[e + 1].kind}
  BY DEF Grows
<1> DEFINE k == e - Len(b)
           m == Len(b)
<1>1. m \in Nat /\ Len(h) \in Nat /\ h[e + 1] \in Row /\ k \in Nat /\ k + m = e
      /\ \A j \in 1 .. m : b[j] = h[k + j]
  BY <1>0, SMT DEF Run, Slice
<1>2. /\ c \in Seq(Row) /\ Len(c) = m + 1 /\ c[m + 1] = h[e + 1]
      /\ \A j \in 1 .. m : c[j] = b[j]
  BY <1>0, <1>1, SMT
<1>3. (b # <<>> <=> m > 0) /\ (e + 1) - (m + 1) = k /\ k + (m + 1) = e + 1
  BY <1>0, <1>1, SMT
<1>4. \A i \in 1 .. Len(h) : h[i].kind = "register_schema" <=> i = 1
  BY DEF Run, Fits
<1>a. Mixed \/ \A j \in 1 .. m : b[j].kind = b[1].kind
  BY <1>0 DEF Slice
<1> HIDE DEF k, m
<1>5. ASSUME NEW j \in 1 .. m + 1
      PROVE  c[j] = h[k + j]
  <2>1. CASE j = m + 1
    BY <1>2, <1>3, <2>1
  <2>2. CASE j # m + 1
    <3>1. j \in 1 .. m
      BY <1>1, <2>2, SMT
    <3> QED
      BY <1>1, <1>2, <3>1
  <2> QED
    BY <2>1, <2>2
<1>6. k = 0 => m + 1 <= 1
  <2> SUFFICES ASSUME k = 0, m > 0 PROVE FALSE
    BY <1>1, SMT
  <2>1. 1 \in 1 .. m /\ k + 1 = 1 /\ e + 1 # 1 /\ 1 \in 1 .. Len(h)
    BY <1>0, <1>1, SMT
  <2>2. b[1].kind = "register_schema"
    BY <1>1, <1>4, <2>1
  <2>3. h[e + 1].kind # "register_schema"
    BY <1>0, <1>4, <2>1
  <2> QED
    BY <1>0, <1>1, <1>3, <2>2, <2>3
<1>7. Mixed \/ \A j \in 1 .. m + 1 : c[j].kind = c[1].kind
  <2> SUFFICES ASSUME ~ Mixed, NEW j \in 1 .. m + 1 PROVE c[j].kind = c[1].kind
    OBVIOUS
  <2>1. CASE m = 0
    <3>1. j = 1
      BY <2>1, SMT
    <3> QED
      BY <3>1
  <2>2. CASE m > 0
    <3>1. c[1] = b[1] /\ b[1].kind = h[e + 1].kind
      BY <1>0, <1>1, <1>2, <1>3, <2>2, SMT
    <3>2. CASE j = m + 1
      BY <1>2, <3>1, <3>2
    <3>3. CASE j # m + 1
      <4>1. j \in 1 .. m
        BY <1>1, <3>3, SMT
      <4> QED
        BY <1>2, <1>a, <3>1, <4>1
    <3> QED
      BY <3>2, <3>3
  <2>3. m = 0 \/ m > 0
    BY <1>1, SMT
  <2> QED
    BY <2>1, <2>2, <2>3
<1>8. k + Len(c) <= Len(h)
  BY <1>0, <1>1, <1>2, <1>3, SMT
<1>9. Slice(c, h, k)
  BY <1>1, <1>2, <1>5, <1>6, <1>7, <1>8 DEF Slice
<1>10. (e + 1) - Len(c) = k
  BY <1>2, <1>3
<1> QED
  BY <1>2, <1>9, <1>10 DEF m

\* The first call of plan P appends row e + 1, and plan R the rows after it.
Appended(P, R, s, h, e) ==
  /\ e + 1 \in 0 .. Len(h) /\ P[1] \in [op : {"append"}, at : {s}, row : Row]
  /\ Match(P[1].row, h[e + 1])
  /\ PlanRows(R, s, h, e + 1)

\* The head of a plan is an append: it is the next row of the run.
LEMMA PlanAppend ==
  ASSUME NEW s \in Source, NEW h \in Seq(Row), NEW e \in 0 .. Len(h), NEW P,
         PlanRows(P, s, h, e), P[1].op = "append",
         NEW R, NEW q \in {0, 1}, Replaces(R, P, q), q = 1 => R[1].op = "flush"
  PROVE  Appended(P, R, s, h, e)
<1> DEFINE n == Len(h) - e
<1>0. /\ Len(h) \in Nat /\ e \in Nat /\ n \in Nat /\ Len(P) \in Nat \ {0} /\ 1 \in 1 .. Len(P)
      /\ Len(R) = q + Len(P) - 1 /\ Len(R) \in Nat /\ (R # <<>> <=> Len(R) > 0)
      /\ \A i \in 1 .. Len(R) : i > q => R[i] = P[i - q + 1]
  BY SMT DEF Replaces
<1>1. Offset(P) = 0
  BY DEF Offset
<1>2. /\ n <= Len(P)
      /\ \A j \in 1 .. n : P[j] \in [op : {"append"}, at : {s}, row : Row] /\ Match(P[j].row, h[e + j])
      /\ \A i \in 1 .. Len(P) : P[i].op = "append" => i <= n
  BY Front DEF Fronted, n
<1>3. n >= 1 /\ e + 1 \in 0 .. Len(h)
  BY <1>0, <1>2, SMT
<1> HIDE DEF n
<1>4. Offset(R) \in {0, 1} /\ Offset(R) >= q /\ (n >= 2 => Offset(R) = q) /\ Offset(R) <= Len(R)
  <2>1. CASE q = 1
    BY <1>0, <2>1, SMT DEF Offset
  <2>2. CASE q = 0
    <3>1. Offset(R) \in {0, 1} /\ Offset(R) <= Len(R)
      BY <1>0, SMT DEF Offset
    <3>2. n >= 2 => R[1] = P[2] /\ P[2].op = "append"
      BY <1>0, <1>2, <2>2, SMT
    <3> QED
      BY <2>2, <3>1, <3>2, SMT DEF Offset
  <2> QED
    BY <2>1, <2>2
<1>5. Len(h) - (e + 1) = n - 1 /\ Offset(R) + Len(h) - (e + 1) = Offset(R) + (n - 1)
  BY <1>0, <1>4, SMT DEF n
<1>6. Offset(R) + (n - 1) <= Len(R)
  BY <1>0, <1>2, <1>3, <1>4, SMT
<1>7. ASSUME NEW j \in 1 .. n - 1
      PROVE  /\ R[Offset(R) + j] \in [op : {"append"}, at : {s}, row : Row]
             /\ Match(R[Offset(R) + j].row, h[(e + 1) + j])
  <2>1. j + 1 \in 1 .. n /\ Offset(R) = q /\ q + j \in 1 .. Len(R) /\ q + j > q
        /\ (q + j) - q + 1 = j + 1 /\ e + (j + 1) = (e + 1) + j
    BY <1>0, <1>2, <1>4, SMT
  <2>2. R[q + j] = P[j + 1]
    BY <1>0, <2>1
  <2> QED
    BY <1>2, <2>1, <2>2
<1>8. ASSUME NEW i \in 1 .. Len(R), R[i].op = "append"
      PROVE  i > Offset(R) /\ i <= Offset(R) + (n - 1)
  <2>1. i > q
    BY <1>0, <1>8, SMT
  <2>2. i - q + 1 \in 1 .. Len(P) /\ P[i - q + 1].op = "append"
    BY <1>0, <1>8, <2>1, SMT
  <2>3. i - q + 1 <= n
    BY <1>2, <2>2
  <2> QED
    BY <1>0, <1>3, <1>4, <2>1, <2>3, SMT
<1>9. PlanRows(R, s, h, e + 1)
  BY <1>5, <1>6, <1>7, <1>8 DEF PlanRows
<1>10. P[1] \in [op : {"append"}, at : {s}, row : Row] /\ Match(P[1].row, h[e + 1])
  <2>1. 1 \in 1 .. n
    BY <1>0, <1>3, SMT
  <2> QED
    BY <1>2, <2>1
<1> QED
  BY <1>3, <1>9, <1>10 DEF Appended

\* A row that fits is written, and a full frame of blocks is flushed after it.
LEMMA AppendFits ==
  ASSUME ExclusionInv, FramesInv, NEW s \in Source, AppendCall(s, s), ~ NeedsFlush(s, Head(plan[s]).row),
         mode' = mode, Inside(s, s), plan[s][1].op = "append", state[s] = "active"
  PROVE  FramesInv'
<1> USE DEF sourceVars, ringVars, collectorVars, controlVars, exitVars
<1> DEFINE P == plan[s]
           row == P[1].row
           stamped == Stamped(row, context[s])
           fills == row.kind = "blocks" /\ Len(Append(buffer[s], stamped)) = FrameRows
           Q == IF fills THEN <<Call("flush", s)>> ELSE <<>>
           q == IF fills THEN 1 ELSE 0
<1>0. s \in Thread /\ plan \in [Thread -> Seq(PlanCall)] /\ Ordered(P, s)
  BY SourceFact DEF ExclusionInv, ExclusionType, FramesInv
<1>1. /\ P \in Seq(PlanCall) /\ P # <<>> /\ Len(P) \in Nat \ {0} /\ DOMAIN P = 1 .. Len(P)
      /\ P[1].at = s /\ P[1].op = "append" /\ Head(P) = P[1]
  BY <1>0, InsideFact
<1>2. /\ buffer' = [buffer EXCEPT ![s] = Append(buffer[s], stamped)]
      /\ next' = [next EXCEPT ![s] = IF row.kind = "register_schema" THEN @ ELSE @ + 1]
      /\ context' = [context EXCEPT ![s] = IF row.kind = "address_context" THEN next[s] ELSE @]
      /\ sampled' = IF row.kind = "registers" THEN sampled \cup {s} ELSE sampled
      /\ plan' = [plan EXCEPT ![s] = Q \o Tail(@)]
      /\ UNCHANGED <<state, recording>>
  BY <1>1 DEF AppendCall, Stamped
<1>3. Q \in Seq(PlanCall) /\ q \in {0, 1} /\ q \in Nat /\ Len(Q) = q
      /\ (\A i \in 1 .. q : Q[i].at = s /\ Q[i].op = "flush")
  <2>1. CASE fills
    <3>1. Call("flush", s) \in PlanCall /\ Call("flush", s).at = s /\ Call("flush", s).op = "flush"
      BY DEF PlanCall, Op, Call
    <3>2. \A x \in PlanCall : <<x>> \in Seq(PlanCall) /\ Len(<<x>>) = 1 /\ <<x>>[1] = x
      BY SMT
    <3>3. 1 \in {0, 1} /\ 1 \in Nat /\ 1 .. 1 = {1}
      BY SMT
    <3> QED
      BY <2>1, <3>1, <3>2, <3>3
  <2>2. CASE ~ fills
    <3>1. <<>> \in Seq(PlanCall) /\ Len(<<>>) = 0 /\ 0 \in {0, 1} /\ 0 \in Nat /\ 1 .. 0 = {}
      BY SMT
    <3>2. Q = <<>> /\ q = 0
      BY <2>2
    <3> HIDE DEF Q, q, fills
    <3> QED
      BY <3>1, <3>2, SMT
  <2> QED
    BY <2>1, <2>2
<1> HIDE DEF Q, q, fills
<1>4. PICK R : Substitutes(s, s, R, q) /\ plan'[s] = R /\ \A i \in 1 .. q : R[i] = Q[i]
  <2>1. (\A i \in 1 .. q : Q[i].at = s) /\ plan[s][1].op # "unlock"
    BY <1>1, <1>3
  <2>2. plan' = [plan EXCEPT ![s] = Q \o Tail(@)]
    BY <1>2
  <2>3. Splices(s, s, Q, q)
    BY <1>3, <2>1, <2>2 DEF Splices
  <2> QED
    BY <1>0, <2>3, SpliceFact, SMT
<1>5. Replaces(R, P, q) /\ (q = 1 => R[1].op = "flush" /\ R[1].at = s)
  <2>1. Replaces(R, P, q)
    BY <1>4 DEF Substitutes
  <2>2. 1 \in 1 .. 1
    BY SMT
  <2> QED
    BY <1>3, <1>4, <2>1, <2>2
<1> HIDE DEF P
<1>6. /\ Len(R) = q + Len(P) - 1 /\ Len(R) \in Nat /\ DOMAIN R = 1 .. Len(R)
      /\ R # <<>> <=> Len(R) > 0
      /\ \A i \in 1 .. Len(R) : i > q => R[i] = P[i - q + 1]
  BY <1>1, <1>3, <1>5, SMT DEF Replaces
<1>7. Len(P) >= 2 => P[2].op \in {"append", "flush"} /\ P[2].at = s
  <2>1. Len(P) >= 2 => 1 \in 1 .. Len(P) - 1
    BY <1>1, SMT
  <2>2. Len(P) >= 2 => Link(P[1], P[1 + 1], s)
    BY <1>0, <2>1 DEF Ordered
  <2> QED
    BY <1>1, <2>2, SourceFact, SMT DEF Link, Pairs
<1>8. Ordered(R, s)
  <2>1. q >= 1 /\ Len(P) >= 2 => Link(R[q], P[2], s)
    <3> SUFFICES ASSUME q = 1, Len(P) >= 2 PROVE Link(R[1], P[2], s)
      BY <1>3, SMT
    <3> QED
      BY <1>5, <1>7 DEF Link, Pairs
  <2>2. 1 .. q - 1 = {}
    BY <1>3, SMT
  <2> QED
    BY <1>0, <1>3, <1>5, <2>1, <2>2, OrderReplaced
<1>9. R # <<>> => R[1].op \in {"append", "flush"} /\ R[1].at = s
  <2>1. CASE q = 1
    BY <1>5, <2>1
  <2>2. CASE q = 0
    <3>1. R # <<>> => Len(P) >= 2 /\ R[1] = P[2]
      BY <1>1, <1>6, <2>2, SMT
    <3> QED
      BY <1>7, <3>1
  <2> QED
    BY <1>3, <2>1, <2>2
<1>10. HeadInv(s)'
  BY <1>2, <1>4, <1>9 DEF HeadInv
<1>11. PICK h, g, e : Captured(s, h, g, e)
  BY DEF FramesInv
<1>12. /\ e + 1 \in 0 .. Len(h) /\ row \in Row /\ Match(row, h[e + 1])
       /\ PlanRows(R, s, h, e + 1)
  <2>1. PlanRows(P, s, h, e) /\ h \in Seq(Row) /\ e \in 0 .. Len(h)
    BY <1>11 DEF Captured, Run, P
  <2> QED
    <3>1. q = 1 => R[1].op = "flush"
      BY <1>5
    <3>2. Appended(P, R, s, h, e)
      BY <1>1, <1>3, <1>5, <2>1, <3>1, PlanAppend
    <3> QED
      BY <3>2 DEF Appended
<1>13. /\ h \in Seq(Row) /\ Len(h) \in Nat /\ e \in Nat /\ e + 1 \in 1 .. Len(h)
       /\ g \in [0 .. Len(h) -> Local] /\ Run(h, g) /\ (e + 1) - 1 = e
  <2>1. h \in Seq(Row) /\ e \in 0 .. Len(h) /\ g \in [0 .. Len(h) -> Local] /\ Run(h, g)
    BY <1>11 DEF Captured, Run
  <2>2. Len(h) \in Nat
    BY <2>1, SeqFact
  <2>3. e \in Nat /\ e + 1 \in 1 .. Len(h) /\ (e + 1) - 1 = e
    BY <1>12, <2>1, <2>2, RowAfter
  <2> QED
    BY <2>1, <2>2, <2>3
<1>14. stamped = h[e + 1]
  <2>1. context[s] = g[e].context
    BY <1>11 DEF Captured, BufferInv
  <2> HIDE DEF row
  <2>2. Stamps(row, context[s], h, g, e)
    BY <1>12, <1>13, <2>1 DEF Stamps
  <2>3. NextRow(stamped, h, e)
    BY <2>2, StampedFact
  <2> QED
    BY <2>3 DEF NextRow
<1>15. row.kind = h[e + 1].kind
  BY <1>12 DEF Match
<1> HIDE DEF stamped, row
<1> DEFINE c == Append(buffer[s], h[e + 1])
<1>16. c \in Seq(Row) /\ Len(c) = Len(buffer[s]) + 1 /\ Slice(c, h, (e + 1) - Len(c))
       /\ buffer[s] \in Seq(Row) /\ Len(buffer[s]) \in Nat
  <2>1. buffer[s] \in Seq(Row) /\ Slice(buffer[s], h, e - Len(buffer[s]))
    BY <1>11 DEF Captured, BufferInv, FramesInv, TypeInv
  <2>2. buffer[s] # <<>> => \/ buffer[s][1].kind = h[e + 1].kind
                            \/ Mixed /\ "register_schema" \notin {buffer[s][1].kind, h[e + 1].kind}
    BY <1>1, <1>15 DEF NeedsFlush, row, P
  <2>3. c = Append(buffer[s], h[e + 1]) /\ Len(buffer[s]) \in Nat
    BY <2>1, SMT
  <2> HIDE DEF c
  <2>4. Grows(buffer[s], c, h, e)
    BY <1>13, <2>1, <2>2, <2>3 DEF Grows
  <2>5. Run(h, g)
    BY <1>13
  <2>6. c \in Seq(Row) /\ Len(c) = Len(buffer[s]) + 1 /\ Slice(c, h, (e + 1) - Len(c))
    BY <2>4, <2>5, BufferGrows
  <2> QED
    BY <2>1, <2>3, <2>6
<1> HIDE DEF c
<1>17. /\ buffer'[s] = c /\ \A r \in Source \ {s} : buffer'[r] = buffer[r]
       /\ buffer' \in [Source -> Seq(Row)]
  <2>1. buffer' = [buffer EXCEPT ![s] = c] /\ buffer \in [Source -> Seq(Row)]
    BY <1>2, <1>14 DEF FramesInv, TypeInv, c
  <2> QED
    BY <1>16, <2>1
<1>18. /\ h[e + 1].kind = "register_schema" <=> e = 0
       /\ g[e + 1] = Advance(g[e], h[e + 1], e + 1) /\ g[e] \in Local
  <2>1. /\ h[e + 1].kind = "register_schema" <=> e + 1 = 1
        /\ g[e + 1] = Advance(g[(e + 1) - 1], h[e + 1], e + 1)
    BY <1>13 DEF Run, Fits
  <2> QED
    BY <1>13, <2>1, SMT
<1>19. /\ next[s] = (IF e = 0 THEN 0 ELSE e - 1) /\ context[s] = g[e].context
       /\ s \in sampled <=> g[e].sampled
  BY <1>11 DEF Captured, BufferInv
<1>20. next \in [Source -> Nat] /\ context \in [Source -> Int] /\ sampled \subseteq Source
  BY DEF FramesInv, TypeInv
<1>21. /\ next' \in [Source -> Nat] /\ next'[s] = e
       /\ \A r \in Source \ {s} : next'[r] = next[r]
  <2>1. next' = [next EXCEPT ![s] = IF row.kind = "register_schema" THEN next[s] ELSE next[s] + 1]
    BY <1>2
  <2>2. (IF row.kind = "register_schema" THEN next[s] ELSE next[s] + 1) = e
    BY <1>13, <1>15, <1>18, <1>19, SMT
  <2>3. next' = [next EXCEPT ![s] = e]
    BY <2>1, <2>2
  <2> QED
    BY <1>13, <1>20, <2>3
<1>22. /\ context' \in [Source -> Int] /\ context'[s] = g[e + 1].context
       /\ \A r \in Source \ {s} : context'[r] = context[r]
  <2> DEFINE x == IF row.kind = "address_context" THEN next[s] ELSE context[s]
  <2>1. context' = [context EXCEPT ![s] = x]
    BY <1>2
  <2>2. x = g[e + 1].context
    <3>1. row.kind = "address_context" => next[s] = (e + 1) - 2
      <4>1. \A n \in Nat : n # 0 => n - 1 = (n + 1) - 2
        BY SMT
      <4>2. e \in Nat /\ (row.kind = "address_context" => e # 0)
        BY <1>13, <1>15, <1>18
      <4> QED
        BY <1>19, <4>1, <4>2
    <3> QED
      BY <1>15, <1>18, <1>19, <3>1, SMT DEF Advance
  <2>3. x \in Int
    BY <1>20, SMT
  <2> HIDE DEF x
  <2> QED
    BY <1>20, <2>1, <2>2, <2>3
<1>23. /\ sampled' \subseteq Source /\ (s \in sampled' <=> g[e + 1].sampled)
       /\ \A r \in Source \ {s} : r \in sampled' <=> r \in sampled
  <2>0. \A l, x, i : Advance(l, x, i).sampled <=> l.sampled \/ x.kind = "registers"
    BY DEF Advance
  <2>1. g[e + 1].sampled <=> g[e].sampled \/ h[e + 1].kind = "registers"
    BY <1>18, <2>0, SMT
  <2> QED
    BY <1>2, <1>15, <1>19, <1>20, <2>1
<1>24. \A r \in Source : HeldAt(r)' <=> HeldAt(r)
  BY DEF HeldAt, Visited, AppendCall
<1>25. Elsewhere(s)
  BY <1>2, <1>17, <1>21, <1>22, <1>23, <1>24 DEF Elsewhere, SameSource, AppendCall
<1>26. TypeInv' /\ ThreadInv'
  <2>1. TypeInv'
    BY <1>2, <1>17, <1>21, <1>22, <1>23 DEF FramesInv, TypeInv, StreamSet, Features, Kernel, Mixed,
       AppendCall
  <2>2. ThreadInv'
    BY DEF FramesInv, ThreadInv, Kernel, UseRing, Alive, AppendCall
  <2> QED
    BY <2>1, <2>2
<1>27. BufferInv(s, h, g, e + 1)'
  <2>1. next'[s] = IF e + 1 = 0 THEN 0 ELSE (e + 1) - 1
    BY <1>13, <1>21, SMT
  <2>2. Slice(buffer[s], h, (e + 1) - Len(buffer[s]))'
    BY <1>16, <1>17 DEF Slice, Mixed
  <2> QED
    BY <1>22, <1>23, <2>1, <2>2 DEF BufferInv
<1>28. ~ Pushed(s) /\ ~ Pushed(s)'
  <2>1. ~ (q >= 1 /\ R[1].op = "count") /\ plan[s][1].op # "count"
    BY <1>3, <1>5, SMT
  <2> QED
    BY <1>0, <1>4, <2>1, CallPushed
<1>29. Framed(s, e + 1)' = Framed(s, e)
  <2>1. (e + 1) - Len(c) = e - Len(buffer[s])
    BY <1>13, <1>16, SMT
  <2> QED
    BY <1>17, <1>28, <2>1 DEF Framed
<1>30. Reached(s, e + 1)' = Reached(s, e)
  BY <1>24, <1>29 DEF Reached, AppendCall, Upto, Before
<1>31. RingInv(s, h, e + 1)'
  BY <1>11, <1>24, <1>28, <1>29 DEF Captured, RingInv, FrameOf, Slice, Mixed, UseRing, Upto,
     Before, AppendCall
<1>32. AcceptedInv(s, g, e + 1)'
  BY <1>2, <1>11, <1>30 DEF Captured, AcceptedInv, Expects, Position, AppendCall
<1>33. PlanRows(plan[s], s, h, e + 1)'
  BY <1>4, <1>12
<1>34. RowsInv(s, h, g)'
  <2>1. (\E i \in DOMAIN P : P[i].op = "end") => \E i \in DOMAIN R : R[i].op = "end"
    <3> SUFFICES ASSUME NEW i \in DOMAIN P, P[i].op = "end" PROVE \E j \in DOMAIN R : R[j].op = "end"
      OBVIOUS
    <3>1. i # 1
      BY <1>1
    <3>2. i + q - 1 \in 1 .. Len(R) /\ i + q - 1 > q /\ (i + q - 1) - q + 1 = i
      BY <1>1, <1>3, <1>6, <3>1, SMT
    <3> DEFINE j == i + q - 1
    <3> HIDE DEF j
    <3>3. R[j] = P[i] /\ j \in DOMAIN R
      BY <1>6, <3>2 DEF j
    <3> QED
      BY <3>3
  <2> QED
    BY <1>2, <1>4, <1>11, <2>1 DEF Captured, RowsInv, P
<1>35. Captured(s, h, g, e + 1)'
  BY <1>12, <1>13, <1>27, <1>31, <1>32, <1>33, <1>34 DEF Captured, Run
<1>36. plan[s][1].op # "unlock" /\ state'[s] = state[s]
       /\ UNCHANGED <<mode, control, waiting, finishing>>
  BY <1>2 DEF AppendCall
<1> QED
  BY <1>0, <1>4, <1>8, <1>10, <1>25, <1>26, <1>35, <1>36, CallAssemble

\* Only a vCPU appends, to its own buffer.
LEMMA AppendFrames ==
  ASSUME ExclusionInv, FramesInv, NEW t \in Thread, NEW s \in Source, AppendCall(t, s), mode' = mode
  PROVE  FramesInv'
<1>1. Calls(t, "append", s)
  BY DEF AppendCall
<1>2. Inside(t, s) /\ plan[t][1].op = "append" /\ HeadInv(t) /\ Ordered(plan[t], t)
  BY <1>1, CallFact
<1>3. plan[t] # <<>> /\ plan[t][1].at = s /\ Len(plan[t]) \in Nat \ {0} /\ 1 \in 1 .. Len(plan[t])
  BY <1>2, InsideFact, SMT
<1>4. t = s
  BY <1>2, <1>3, InsideFact DEF Ordered
<1>5. state[s] = "active"
  BY <1>2, <1>3 DEF HeadInv
<1>6. CASE NeedsFlush(s, Head(plan[s]).row)
  BY <1>2, <1>4, <1>5, <1>6, FlushFirst
<1>7. CASE ~ NeedsFlush(s, Head(plan[s]).row)
  BY <1>2, <1>4, <1>5, <1>7, AppendFits
<1> QED
  BY <1>6, <1>7

-----------------------------------------------------------------------------
(* Failures, ends and frames that the Stream accepts. *)

\* A source that is not active fails the boundary; the stream is told.
LEMMA FailFrames ==
  ASSUME ExclusionInv, FramesInv, Alive, Fail("inactive"),
         UNCHANGED <<sourceVars, ringVars, plan, collectorVars, controlVars, closing, finishing, mode>>
  PROVE  FramesInv'
<1> USE DEF sourceVars, ringVars, collectorVars, controlVars
<1>1. stream \in StreamSet /\ stream.ending = "none"
  BY DEF FramesInv, TypeInv, ThreadInv
<1>2. stream' \in StreamSet /\ \A r \in Source : SameSource(stream, stream', r)
  BY <1>1, ErrorAccepted DEF Fail, Publish
<1>3. failure' = "inactive"
  BY DEF Fail
<1>4. TypeInv' /\ ThreadInv'
  <2>1. StreamSet' = StreamSet
    BY DEF StreamSet, Features, Kernel, Mixed
  <2>2. TypeInv'
    BY <1>2, <1>3, <2>1 DEF FramesInv, TypeInv
  <2>3. ThreadInv'
    BY <1>3 DEF FramesInv, ThreadInv, Alive, UseRing, Kernel
  <2> QED
    BY <2>2, <2>3
<1>5. ASSUME NEW r \in Source
      PROVE  Untouched(r)
  <2>1. (Pushed(r)' <=> Pushed(r)) /\ (HeldAt(r)' <=> HeldAt(r))
    BY DEF Pushed, HeldAt, Visited
  <2> QED
    BY <1>2, <2>1 DEF Untouched, Still
<1> QED
  BY <1>4, <1>5, StillStep DEF ExclusionInv, ExclusionType

\* A drain goes on with an active source and fails with any other.
LEMMA RequireFrames ==
  ASSUME ExclusionInv, FramesInv, NEW s \in Source, RequireActive(s), mode' = mode
  PROVE  FramesInv'
<1> USE DEF sourceVars, ringVars, collectorVars, controlVars, exitVars
<1> DEFINE t == Control
<1>0. t \in Thread
  BY SourceFact
<1> HIDE DEF t
<1>1. /\ Inside(t, s) /\ plan[t][1].op = "require" /\ HeadInv(t) /\ plan[t][1].at = s
      /\ plan[t] # <<>> /\ Alive
  BY <1>0, CallFact, InsideFact, SMT DEF RequireActive, t
<1>2. CASE state[s] # "active"
  BY <1>1, <1>2, FailFrames DEF RequireActive
<1>3. CASE state[s] = "active"
  <2>1. plan' = [plan EXCEPT ![t] = Tail(@)] /\ UNCHANGED <<failure, stream>>
    BY <1>3 DEF RequireActive, t
  <2>2. PICK R : /\ Substitutes(t, s, R, 0) /\ Ordered(R, t) /\ plan'[t] = R
                 /\ R # <<>> => Link(plan[t][1], R[1], t)
    BY <1>0, <1>1, <2>1, DropFact
  <2>3. R # <<>> => R[1].at = s /\ R[1].op = "flush"
    BY <1>1, <2>2 DEF Link, Pairs
  <2>4. HeadInv(t)'
    BY <1>3, <2>2, <2>3 DEF HeadInv, RequireActive
  <2>5. UNCHANGED <<sourceVars, ringVars, collectorVars, controlVars, exitVars, stream, mode>>
    BY <2>1 DEF RequireActive
  <2>6. t # s
    BY SourceFact DEF t
  <2> QED
    BY <1>0, <1>1, <2>2, <2>4, <2>5, <2>6, QuietCall, SMT
<1> QED
  BY <1>2, <1>3

\* end_source sends the end of a source when all its frames are accepted.
LEMMA EndFrames ==
  ASSUME ExclusionInv, FramesInv, NEW t \in Thread, NEW s \in Source, SendSourceEnd(t, s), mode' = mode
  PROVE  FramesInv'
<1> USE DEF sourceVars, ringVars, collectorVars, controlVars, exitVars
<1>1. /\ Inside(t, s) /\ plan[t][1].op = "end" /\ HeadInv(t) /\ plan[t][1].at = s
      /\ plan[t] # <<>> /\ Alive
  <2>1. Calls(t, "end", s)
    BY DEF SendSourceEnd
  <2> QED
    BY <2>1, CallFact, InsideFact
<1>2. PICK R : /\ Substitutes(t, s, R, 0) /\ Ordered(R, t) /\ plan'[t] = R
               /\ R # <<>> => Link(plan[t][1], R[1], t)
  BY <1>1, DropFact DEF SendSourceEnd
<1>3. R # <<>> => R[1].at = s /\ R[1].op = "unlock" /\ t # Control
  BY <1>1, <1>2 DEF Link, Pairs
<1>4. state[s] = "active" /\ buffer[s] = <<>> /\ ring[s] = <<>>
  BY <1>1 DEF HeadInv
<1>5. state'[s] = "ended" /\ state \in [Source -> {"unused", "active", "ended"}]
  BY DEF SendSourceEnd, FramesInv, TypeInv
<1>6. HeadInv(t)'
  BY <1>2, <1>3, <1>5 DEF HeadInv
<1>7. PICK h, g, e : Captured(s, h, g, e)
  BY DEF FramesInv
<1>8. \A r \in Source : HeldAt(r)' <=> HeldAt(r)
  BY DEF HeldAt, Visited, SendSourceEnd
<1>9. ~ Pushed(s) /\ ~ Pushed(s)' /\ ~ HeldAt(s)
  <2>1. ~ Pushed(s) /\ ~ Pushed(s)'
    BY <1>1, <1>2, CallPushed, SmallFact
  <2>2. ~ HeldAt(s)
    BY <1>4, <1>7 DEF Captured, RingInv
  <2> QED
    BY <2>1, <2>2
<1>10. h \in Seq(Row) /\ Len(h) \in Nat /\ e \in 0 .. Len(h) /\ e \in Nat /\ g \in [0 .. Len(h) -> Local]
  <2>1. h \in Seq(Row) /\ e \in 0 .. Len(h) /\ g \in [0 .. Len(h) -> Local]
    BY <1>7 DEF Captured, Run
  <2>2. Len(h) \in Nat
    BY <2>1, SeqFact
  <2>3. e \in Nat
    BY <2>1, <2>2, SMT
  <2> QED
    BY <2>1, <2>2, <2>3
<1>11. Reached(s, e) = e /\ Reached(s, e)' = e
  <2>1. Framed(s, e) = e /\ Framed(s, e)' = e
    <3>1. e - 0 = e /\ Len(<<>>) = 0
      BY <1>10, SMT
    <3> QED
      BY <1>4, <1>9, <3>1 DEF Framed, SendSourceEnd
  <2> QED
    BY <1>4, <1>8, <1>9, <2>1 DEF Reached, SendSourceEnd
<1>12. e = Len(h)
  <2> DEFINE P == plan[s]
  <2>1. P = <<>> \/ P[1].op = "end"
    BY <1>1, InsideFact
  <2>2. PlanRows(P, s, h, e) /\ Len(<<>>) = 0
    BY <1>7 DEF Captured
  <2>3. Offset(P) = 0
    BY <2>1 DEF Offset
  <2> HIDE DEF P
  <2>4. CASE P = <<>>
    BY <1>10, <2>2, <2>3, <2>4, SMT DEF PlanRows
  <2>5. CASE P[1].op = "end"
    <3> SUFFICES ASSUME e # Len(h) PROVE FALSE
      OBVIOUS
    <3>1. 1 \in 1 .. Len(h) - e
      BY <1>10, SMT
    <3>2. P[Offset(P) + 1].op = "append"
      BY <2>2, <3>1 DEF PlanRows
    <3> QED
      BY <2>3, <2>5, <3>2, SMT
  <2> QED
    BY <2>1, <2>4, <2>5
<1>13. stream \in StreamSet /\ stream.ending = "none" /\ Expects(stream, s, g, e) /\ s \notin stream.ended
  BY <1>1, <1>4, <1>7, <1>11 DEF FramesInv, TypeInv, ThreadInv, Captured, AcceptedInv
<1>14. stream.next[s] = next[s]
  <2>1. next[s] = IF e = 0 THEN 0 ELSE e - 1
    BY <1>7 DEF Captured, BufferInv
  <2>2. stream.next[s] \in Nat
    BY <1>13 DEF StreamSet
  <2> QED
    BY <1>10, <1>13, <2>1, <2>2, SMT DEF Expects, Position
<1>15. s \in stream.data => s \in stream.schema /\ s \in stream.sampled
  <2>1. s \in stream.data => e >= 2
    BY <1>13 DEF Expects
  <2>2. e >= 2 => g[e].sampled
    BY <1>7, <1>12 DEF Captured, RowsInv
  <2>3. e >= 2 => s \in stream.schema
    BY <1>10, <1>13, SMT DEF Expects, Position
  <2> QED
    BY <1>13, <2>1, <2>2, <2>3 DEF Expects
<1>16. /\ stream' \in StreamSet /\ stream'.ending = "none"
       /\ \A r \in Source \ {s} : SameSource(stream, stream', r)
       /\ stream'.next = stream.next /\ stream'.context = stream.context
       /\ stream'.schema = stream.schema /\ stream'.sampled = stream.sampled /\ s \in stream'.ended
  <2>1. stream' = Accept(stream, [kind |-> "source_end", source |-> s, sequence |-> stream.next[s]])
    BY <1>14 DEF SendSourceEnd, Publish
  <2> QED
    BY <1>13, <1>15, <2>1, EndAccepted
<1>17. TypeInv' /\ ThreadInv'
  <2>0. StreamSet' = StreamSet
    BY DEF StreamSet, Features, Kernel, Mixed
  <2>1. state' \in [Source -> {"unused", "active", "ended"}]
    BY <1>5 DEF SendSourceEnd
  <2>2. TypeInv'
    BY <1>16, <2>0, <2>1 DEF FramesInv, TypeInv, SendSourceEnd
  <2>3. ThreadInv'
    BY <1>16 DEF FramesInv, ThreadInv, Kernel, UseRing, Alive, SendSourceEnd
  <2> QED
    BY <2>2, <2>3
<1>18. Elsewhere(s)
  BY <1>5, <1>8, <1>16 DEF Elsewhere, SendSourceEnd
<1>19. PlanRows(plan[s], s, h, e)' /\ \A i \in DOMAIN plan'[s] : plan'[s][i].op = "unlock"
  <2>1. CASE t = s
    <3>1. Replaces(R, plan[s], 0) /\ plan'[s] = R
      BY <1>2, <2>1 DEF Substitutes
    <3>2. PlanRows(R, s, h, e)
      BY <1>1, <1>7, <1>10, <2>1, <3>1, PlanDrop, SMT DEF Captured
    <3>3. PlanRows(plan[s], s, h, e)'
      BY <3>1, <3>2
    <3>4. ASSUME NEW i \in DOMAIN R
          PROVE  R[i].op = "unlock"
      <4>1. /\ Len(R) = Len(plan[s]) - 1 /\ Len(plan[s]) \in Nat \ {0} /\ DOMAIN R = 1 .. Len(R)
            /\ \A j \in 1 .. Len(R) : R[j] = plan[s][j + 1]
            /\ DOMAIN plan[s] = 1 .. Len(plan[s]) /\ Len(R) \in Nat
        BY <3>1, Rest
      <4>2. R # <<>> /\ 1 \in 1 .. Len(R) /\ i \in 1 .. Len(R)
        <5>1. i \in 1 .. Len(R) /\ R \in Seq(PlanCall)
          BY <3>1, <3>4, <4>1 DEF Replaces
        <5>2. R # <<>>
          BY <3>4, EmptyFact
        <5> QED
          BY <5>1, <5>2, SeqFact
      <4>3. plan[s][2].op = "unlock" /\ 2 \in DOMAIN plan[s]
        BY <1>3, <4>1, <4>2, SMT
      <4>4. 2 = Len(plan[s])
        BY <4>3 DEF ExclusionInv, CpuInv
      <4>5. i = 1
        <5>1. Len(R) = 1
          BY <4>1, <4>4, SmallFact
        <5> QED
          BY <4>2, <5>1, SmallFact
      <4> QED
        BY <1>3, <4>2, <4>5
    <3> QED
      BY <3>1, <3>3, <3>4
  <2>2. CASE t # s
    <3>1. plan[s] = <<>> /\ plan'[s] = <<>> /\ plan'[s] = plan[s]
      <4>1. s \in Thread /\ plan \in [Thread -> Seq(PlanCall)]
        BY SourceFact DEF ExclusionInv, ExclusionType
      <4> QED
        <5>1. plan[s] = <<>>
          BY <1>1, <2>2, <4>1, InsideFact
        <5>2. plan'[s] = plan[s]
          BY <1>2, <2>2, <4>1 DEF Substitutes
        <5> QED
          BY <5>1, <5>2
    <3>2. PlanRows(plan[s], s, h, e)'
      BY <1>7, <3>1 DEF Captured
    <3> QED
      BY <3>1, <3>2, SMT
  <2> QED
    BY <2>1, <2>2
<1>20. RowsInv(s, h, g)'
  BY <1>4, <1>5, <1>7, <1>19 DEF Captured, RowsInv, SendSourceEnd
<1>21. BufferInv(s, h, g, e)'
  BY <1>7 DEF Captured, BufferInv, Slice, Mixed, SendSourceEnd
<1>22. RingInv(s, h, e)'
  <2>1. ring'[s] = <<>> /\ sent'[s] = sent[s] /\ queued'[s] = queued[s]
    BY <1>4 DEF SendSourceEnd
  <2>2. sent[s] + Len(ring[s]) = queued[s] + 0
    BY <1>7, <1>9 DEF Captured, RingInv
  <2>3. 1 .. Len(<<>>) = {} /\ 1 .. Len(<<>>) - 1 = {}
    BY SMT
  <2> QED
    BY <1>4, <1>8, <1>9, <2>1, <2>2, <2>3 DEF RingInv
<1>23. AcceptedInv(s, g, e)'
  BY <1>5, <1>11, <1>13, <1>16 DEF AcceptedInv, Expects, Position
<1>24. Captured(s, h, g, e)'
  BY <1>7, <1>19, <1>20, <1>21, <1>22, <1>23 DEF Captured, Run
<1> QED
  BY <1>1, <1>2, <1>4, <1>5, <1>6, <1>17, <1>18, <1>24, CallAssemble DEF SendSourceEnd

\* Without a ring the frame goes to the stream at once.
LEMMA DirectFrames ==
  ASSUME LeastMembers, ExclusionInv, FramesInv, NEW t \in Thread, NEW s \in Source, FlushDirect(t, s), mode' = mode
  PROVE  FramesInv'
<1> USE DEF sourceVars, ringVars, collectorVars, controlVars, exitVars
<1>1. /\ Inside(t, s) /\ plan[t][1].op = "flush" /\ HeadInv(t) /\ plan[t][1].at = s
      /\ plan[t] # <<>> /\ Alive
  <2>1. Calls(t, "flush", s)
    BY DEF FlushDirect
  <2> QED
    BY <2>1, CallFact, InsideFact
<1>2. PICK R : /\ Substitutes(t, s, R, 0) /\ Ordered(R, t) /\ plan'[t] = R
               /\ R # <<>> => Link(plan[t][1], R[1], t)
  BY <1>1, DropFact DEF FlushDirect
<1>3. R # <<>> => /\ R[1].at = s /\ R[1].op \in {"append", "flush", "wait", "unlock"}
                  /\ R[1].op = "unlock" => t # Control /\ t # Main
  BY <1>1, <1>2, SourceFact DEF Link, Pairs
<1>4. state[s] = "active" /\ buffer[s] # <<>> /\ ~ UseRing
  BY <1>1 DEF HeadInv, FlushDirect
<1>5. buffer'[s] = <<>> /\ buffer \in [Source -> Seq(Row)]
  BY DEF FlushDirect, FramesInv, TypeInv
<1>6. HeadInv(t)'
  BY <1>2, <1>3, <1>4, <1>5 DEF FlushDirect, HeadInv
<1>7. PICK h, g, e : Captured(s, h, g, e)
  BY DEF FramesInv
<1>8. \A r \in Source : HeldAt(r)' <=> HeldAt(r)
  BY DEF HeldAt, Visited, FlushDirect
<1>9. ~ Pushed(s) /\ ~ Pushed(s)' /\ ring[s] = <<>> /\ ~ HeldAt(s)
  <2>1. ~ Pushed(s) /\ ~ Pushed(s)'
    BY <1>1, <1>2, CallPushed, SmallFact
  <2>2. ring[s] = <<>> /\ ~ HeldAt(s)
    BY <1>4, <1>7 DEF Captured, RingInv
  <2> QED
    BY <2>1, <2>2
<1> DEFINE f == BufferedFrame(s)
<1>10. f \in Frame /\ FrameOf(s, f, h) /\ Before(f) = e - Len(buffer[s]) /\ Upto(f) = e
  BY <1>4, <1>7, BufferedFact DEF FramesInv
<1>11. stream' = Accept(stream, f)
  BY DEF FlushDirect, Publish
<1> HIDE DEF f
<1>12. Framed(s, e) = e - Len(buffer[s]) /\ Framed(s, e)' = e
  <2>1. e - 0 = e /\ Len(<<>>) = 0
    BY <1>7, SMT DEF Captured, Run
  <2> QED
    BY <1>5, <1>9, <2>1 DEF Framed
<1>13. Reached(s, e) = Before(f) /\ Reached(s, e)' = e
  BY <1>8, <1>9, <1>10, <1>12 DEF Reached, FlushDirect
<1>14. /\ stream' \in StreamSet /\ stream'.ending = "none" /\ stream'.ended = stream.ended
       /\ \A r \in Source \ {s} : SameSource(stream, stream', r)
       /\ Expects(stream', s, g, e)
  <2>1. stream \in StreamSet /\ stream.ending = "none"
    BY <1>1 DEF FramesInv, TypeInv, ThreadInv
  <2>2. s \notin stream.ended /\ Expects(stream, s, g, Before(f)) /\ Run(h, g)
    BY <1>4, <1>7, <1>13 DEF Captured, AcceptedInv
  <2> QED
    BY <1>10, <1>11, <2>1, <2>2, FrameAccepted
<1>15. TypeInv' /\ ThreadInv'
  <2>0. StreamSet' = StreamSet
    BY DEF StreamSet, Features, Kernel, Mixed
  <2>1. buffer' \in [Source -> Seq(Row)]
    BY <1>5, SMT DEF FlushDirect
  <2>2. TypeInv'
    BY <1>14, <2>0, <2>1 DEF FramesInv, TypeInv, FlushDirect
  <2>3. ThreadInv'
    BY <1>14 DEF FramesInv, ThreadInv, Kernel, UseRing, Alive, FlushDirect
  <2> QED
    BY <2>2, <2>3
<1>16. Elsewhere(s)
  BY <1>5, <1>8, <1>14 DEF Elsewhere, FlushDirect
<1>17. PlanRows(plan[s], s, h, e)' /\ RowsInv(s, h, g)'
  <2>1. state'[s] = state[s] /\ recording' = recording
    BY DEF FlushDirect
  <2>2. /\ h \in Seq(Row) /\ e \in 0 .. Len(h)
        /\ PlanRows(plan[s], s, h, e) /\ RowsInv(s, h, g)
    BY <1>7 DEF Captured, Run
  <2> QED
    <3>1. 0 \in {0, 1} /\ 0 # 1 /\ state[s] # "ended" /\ plan[t][1].op \notin {"append", "end"}
      BY <1>1, <1>4, SMT
    <3> QED
      BY <1>1, <1>2, <2>1, <2>2, <3>1, PlanKept
<1>18. BufferInv(s, h, g, e)'
  <2>1. Slice(buffer[s], h, e - Len(buffer[s]))'
    <3>1. Slice(<<>>, h, e - Len(<<>>))
      BY <1>7, EmptySlice DEF Captured, Run
    <3> QED
      BY <1>5, <3>1 DEF Slice, Mixed
  <2> QED
    BY <1>7, <2>1 DEF Captured, BufferInv, FlushDirect
<1>19. RingInv(s, h, e)'
  <2>1. ring'[s] = <<>> /\ sent'[s] = sent[s] /\ queued'[s] = queued[s]
    BY <1>9 DEF FlushDirect
  <2>2. sent[s] + Len(ring[s]) = queued[s] + 0
    BY <1>7, <1>9 DEF Captured, RingInv
  <2>3. 1 .. Len(<<>>) = {} /\ 1 .. Len(<<>>) - 1 = {}
    BY SMT
  <2> QED
    BY <1>8, <1>9, <2>1, <2>2, <2>3 DEF RingInv
<1>20. AcceptedInv(s, g, e)'
  <2>1. s \in stream.ended <=> state[s] = "ended"
    BY <1>7 DEF Captured, AcceptedInv
  <2> QED
    BY <1>4, <1>13, <1>14, <2>1 DEF AcceptedInv, Expects, Position, FlushDirect
<1>21. Captured(s, h, g, e)'
  BY <1>7, <1>17, <1>18, <1>19, <1>20 DEF Captured, Run
<1> QED
  BY <1>1, <1>2, <1>4, <1>6, <1>15, <1>16, <1>21, CallAssemble DEF FlushDirect
=============================================================================
