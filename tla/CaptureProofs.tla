--------------------------- MODULE CaptureProofs ----------------------------
(***************************************************************************)
(* Every frame of a capture is accepted, a complete capture has everything *)
(* and so has an action boundary, for every number of vCPUs, every ring,   *)
(* every frame size and every mode.                                        *)
(***************************************************************************)
EXTENDS CaptureExclusion, CaptureCallbacks, CaptureFrames

\* A step is a matter of logic, unless it cites SMT for arithmetic or sequences.
USE ZenonT(30)

-----------------------------------------------------------------------------
(* The collector. *)

\* It visits sources.
LEMMA VisitedFact ==
  ASSUME FramesInv
  PROVE  Visited \in Source /\ Cardinality(Source) \in Nat \ {0} /\ first + step \in Nat
<1>1. first \in Nat /\ step \in Nat /\ Cardinality(Source) \in Nat \ {0}
  BY SourceFact, SMT DEF FramesInv, TypeInv
<1>2. \A m \in Nat, n \in Nat \ {0} : m % n \in 0 .. n - 1
  BY SMT
<1>3. first + step \in Nat
  BY <1>1, SMT
<1>4. Visited \in 0 .. Cardinality(Source) - 1
  BY <1>1, <1>2, <1>3 DEF Visited
<1> QED
  BY <1>1, <1>3, <1>4, SourceFact

\* A frame that is in a ring.
LEMMA RingHead ==
  ASSUME FramesInv, NEW s \in Source, NEW h, NEW g, NEW e, Captured(s, h, g, e), ring[s] # <<>>
  PROVE  /\ ring[s] \in Seq(Frame) /\ Len(ring[s]) \in Nat \ {0}
         /\ ring[s][1] \in Frame /\ Head(ring[s]) = ring[s][1] /\ FrameOf(s, ring[s][1], h)
         /\ Run(h, g) /\ state[s] = "active" /\ s \notin stream.ended
<1>1. ring[s] \in Seq(Frame) /\ state[s] \in {"unused", "active", "ended"}
  BY DEF FramesInv, TypeInv
<1>2. \A P \in Seq(Frame) :
        P # <<>> => Len(P) \in Nat \ {0} /\ P[1] \in Frame /\ Head(P) = P[1] /\ 1 \in 1 .. Len(P)
  BY SMT
<1>3. /\ Len(ring[s]) \in Nat \ {0} /\ ring[s][1] \in Frame /\ Head(ring[s]) = ring[s][1]
      /\ 1 \in 1 .. Len(ring[s])
  BY <1>1, <1>2
<1>4. FrameOf(s, ring[s][1], h)
  BY <1>3 DEF Captured, RingInv
<1>5. h # <<>>
  <2> DEFINE f == ring[s][1]
  <2>1. h \in Seq(Row) /\ f \in Frame
    BY <1>3 DEF Captured, Run
  <2>2. CASE f.kind = "rows"
    <3>1. f.rows \in Seq(Row) /\ f.rows # <<>> /\ f.sequence \in Nat
          /\ f.sequence + 1 + Len(f.rows) <= Len(h)
      BY <1>4, <2>1, <2>2 DEF Frame, FrameOf, Slice
    <3> QED
      BY <2>1, <3>1, SMT
  <2>3. CASE f.kind # "rows"
    BY <1>4, <2>1, <2>3, SMT DEF FrameOf
  <2> QED
    BY <2>2, <2>3
<1>6. state[s] = "active"
  BY <1>1, <1>5 DEF Captured, RowsInv
<1> QED
  BY <1>1, <1>3, <1>4, <1>6 DEF Captured, AcceptedInv

\* Plans and what their heads need, while a ring that is not empty changes.
LEMMA RingStep ==
  ASSUME ExclusionInv, FramesInv, NEW s \in Source, ring[s] # <<>>,
         UNCHANGED <<plan, state, buffer, mode, control, waiting, finishing>>,
         \A r \in Source \ {s} : ring'[r] = ring[r]
  PROVE  /\ \A u \in Thread : Ordered(plan[u], u)' /\ HeadInv(u)'
         /\ \A r \in Source : PassInv(r)'
<1>1. ASSUME NEW u \in Thread
      PROVE  Ordered(plan[u], u)' /\ HeadInv(u)'
  <2>1. Ordered(plan[u], u) /\ HeadInv(u) /\ plan[u] \in Seq(PlanCall)
    BY DEF FramesInv, ExclusionInv, ExclusionType
  <2>2. Ordered(plan[u], u)'
    BY <2>1
  <2>3. plan[u] # <<>> => plan[u][1].at \in Source
    BY <2>1, SMT DEF PlanCall
  <2>4. HeadInv(u)'
    BY <2>1, <2>3 DEF HeadInv, UseRing
  <2> QED
    BY <2>2, <2>4
<1>2. ASSUME NEW r \in Source
      PROVE  PassInv(r)'
  <2>1. PassInv(r)
    BY DEF FramesInv
  <2> QED
    BY <2>1 DEF PassInv, Passed
<1> QED
  BY <1>1, <1>2

\* The collector sends the frame at the head of a ring.
LEMMA CollectFrames ==
  ASSUME LeastMembers, ExclusionInv, FramesInv, CollectFrame, mode' = mode
  PROVE  FramesInv'
<1> USE DEF sourceVars, ringVars, controlVars, exitVars
<1>1. PICK s \in Source : s = Visited
  BY VisitedFact
<1>2. /\ ring[s] # <<>> /\ ~ held /\ held' = TRUE /\ Alive /\ step < Cardinality(Source)
      /\ stream' = Accept(stream, Head(ring[s])) /\ Visited' = s
      /\ UNCHANGED <<sourceVars, ringVars, plan, first, step, collector, controlVars, exitVars, mode>>
  BY <1>1 DEF CollectFrame, Collecting, Publish, Visited
<1>3. PICK h, g, e : Captured(s, h, g, e)
  BY <1>1 DEF FramesInv
<1>0. PICK f : f = ring[s][1]
  OBVIOUS
<1>4. /\ f \in Frame /\ Head(ring[s]) = f /\ FrameOf(s, f, h) /\ Run(h, g)
      /\ state[s] = "active" /\ s \notin stream.ended
  BY <1>0, <1>2, <1>3, RingHead
<1>5. ~ HeldAt(s) /\ HeldAt(s)'
  BY <1>1, <1>2 DEF HeldAt
<1>6. Reached(s, e) = Before(f) /\ Reached(s, e)' = Upto(f)
  <2>1. ring'[s][1] = f
    BY <1>0, <1>2
  <2> QED
    BY <1>0, <1>2, <1>5, <2>1 DEF Reached, Upto
<1>7. Expects(stream, s, g, Before(f)) /\ stream \in StreamSet /\ stream.ending = "none"
  BY <1>2, <1>3, <1>6 DEF Captured, AcceptedInv, FramesInv, TypeInv, ThreadInv
<1>8. /\ stream' \in StreamSet /\ stream'.ending = "none" /\ stream'.ended = stream.ended
      /\ \A r \in Source \ {s} : SameSource(stream, stream', r)
      /\ Expects(stream', s, g, Upto(f))
  <2>1. stream' = Accept(stream, f)
    BY <1>2, <1>4
  <2> QED
    BY <1>4, <1>7, <2>1, FrameAccepted
<1>9. TypeInv'
  <2>1. StreamSet' = StreamSet
    BY <1>2, SMT DEF StreamSet, Features, Kernel, Mixed
  <2> QED
    BY <1>2, <1>8, <2>1 DEF FramesInv, TypeInv
<1>10. ThreadInv'
  BY <1>2, <1>8 DEF FramesInv, ThreadInv, Alive, UseRing, Kernel
<1>12. ASSUME NEW r \in Source \ {s}
       PROVE  Untouched(r)
  <2>1. ~ HeldAt(r) /\ ~ HeldAt(r)'
    BY <1>1, <1>2 DEF HeldAt
  <2>2. Pushed(r)' <=> Pushed(r)
    BY <1>2 DEF Pushed
  <2> QED
    BY <1>2, <1>8, <2>1, <2>2 DEF Untouched, Still
<1>13. Captured(s, h, g, e)'
  <2>1. Pushed(s)' <=> Pushed(s)
    BY <1>2 DEF Pushed
  <2>2. BufferInv(s, h, g, e) /\ RingInv(s, h, e) /\ AcceptedInv(s, g, e) /\ RowsInv(s, h, g)
    BY <1>3 DEF Captured
  <2>3. BufferInv(s, h, g, e)'
    BY <1>2, <2>2 DEF BufferInv, Slice, Mixed
  <2>4. RingInv(s, h, e)'
    <3>1. Framed(s, e)' = Framed(s, e)
      BY <1>2, <2>1 DEF Framed
    <3>2. \A x : FrameOf(s, x, h)' <=> FrameOf(s, x, h)
      BY <1>2 DEF FrameOf, Slice, Mixed
    <3> QED
      BY <1>2, <2>1, <2>2, <3>1, <3>2 DEF RingInv, UseRing, Upto, Before
  <2>5. AcceptedInv(s, g, e)'
    <3>1. Expects(stream, s, g, Reached(s, e))'
      BY <1>6, <1>8 DEF Expects, Position
    <3> QED
      BY <1>2, <1>4, <1>8, <3>1 DEF AcceptedInv
  <2>6. RowsInv(s, h, g)'
    BY <1>2, <2>2 DEF RowsInv
  <2>7. PlanRows(plan[s], s, h, e)'
    BY <1>2, <1>3 DEF Captured
  <2> QED
    BY <1>3, <2>3, <2>4, <2>5, <2>6, <2>7 DEF Captured, Run
<1>14. /\ \A u \in Thread : Ordered(plan[u], u)' /\ HeadInv(u)'
       /\ \A r \in Source : PassInv(r)'
  <2>1. UNCHANGED <<plan, state, buffer, mode, control, waiting, finishing, ring>>
    BY <1>2
  <2> QED
    BY <1>1, <1>2, <2>1, RingStep
<1> QED
  BY <1>1, <1>9, <1>10, <1>12, <1>13, <1>14, Assemble

\* The collector lets go of the frame it has sent.
LEMMA LetGoFrames ==
  ASSUME ExclusionInv, FramesInv, ReleaseFrame, mode' = mode
  PROVE  FramesInv'
<1> USE DEF sourceVars, ringVars, controlVars, exitVars
<1>1. PICK s \in Source : s = Visited
  BY VisitedFact
<1>2. /\ held /\ held' = FALSE /\ Alive /\ step < Cardinality(Source) /\ step' = step + 1
      /\ ring' = [ring EXCEPT ![s] = Tail(ring[s])] /\ sent' = [sent EXCEPT ![s] = sent[s] + 1]
      /\ UNCHANGED <<sourceVars, queued, plan, first, collector, controlVars, exitVars, stream, mode>>
  BY <1>1 DEF ReleaseFrame, Collecting
<1>3. PICK h, g, e : Captured(s, h, g, e)
  BY DEF FramesInv
<1>4. HeldAt(s) /\ \A r \in Source : ~ HeldAt(r)'
  BY <1>1, <1>2 DEF HeldAt
<1>5. ring[s] # <<>>
  BY <1>3, <1>4 DEF Captured, RingInv
<1>6. /\ ring[s] \in Seq(Frame) /\ Len(ring[s]) \in Nat \ {0} /\ state[s] = "active"
  BY <1>3, <1>5, RingHead
<1>7. PICK T : T = Tail(ring[s])
  OBVIOUS
<1>8. /\ T \in Seq(Frame) /\ Len(T) = Len(ring[s]) - 1 /\ (T = <<>> <=> Len(ring[s]) = 1)
      /\ \A i \in 1 .. Len(T) : T[i] = ring[s][i + 1]
  <2>1. /\ T \in Seq(Frame) /\ Len(T) = Len(ring[s]) - 1
        /\ \A i \in 1 .. Len(T) : T[i] = ring[s][i + 1]
    BY <1>5, <1>6, <1>7, SMT
  <2>2. T = <<>> <=> Len(T) = 0
    <3>1. \A Q \in Seq(Frame) : Q = <<>> <=> Len(Q) = 0
      BY SMT
    <3> QED
      BY <2>1, <3>1
  <2>3. T = <<>> <=> Len(ring[s]) = 1
    BY <1>6, <2>1, <2>2, SMT
  <2> QED
    BY <2>1, <2>3
<1>9. /\ ring \in [Source -> Seq(Frame)] /\ sent \in [Source -> Nat]
      /\ step \in 0 .. Cardinality(Source) /\ Cardinality(Source) \in Nat
  BY SourceFact DEF FramesInv, TypeInv
<1>10. /\ ring'[s] = T /\ sent'[s] = sent[s] + 1
       /\ \A r \in Source \ {s} : ring'[r] = ring[r] /\ sent'[r] = sent[r]
       /\ ring' \in [Source -> Seq(Frame)] /\ sent' \in [Source -> Nat]
       /\ step' \in 0 .. Cardinality(Source)
  BY <1>2, <1>7, <1>8, <1>9, SMT
<1>11. TypeInv'
  <2>1. StreamSet' = StreamSet
    BY <1>2, SMT DEF StreamSet, Features, Kernel, Mixed
  <2> QED
    BY <1>2, <1>10, <2>1 DEF FramesInv, TypeInv
<1>12. ThreadInv'
  BY <1>2 DEF FramesInv, ThreadInv, Alive, UseRing, Kernel
<1>13. \A r \in Source : Pushed(r)' <=> Pushed(r)
  BY <1>2 DEF Pushed
<1>14. ASSUME NEW r \in Source \ {s}
       PROVE  Untouched(r)
  <2>1. ~ HeldAt(r)
    BY <1>1 DEF HeldAt
  <2> QED
    BY <1>2, <1>4, <1>10, <1>13, <2>1, SameFact DEF Untouched, Still
<1>15. RingInv(s, h, e) /\ BufferInv(s, h, g, e) /\ AcceptedInv(s, g, e) /\ RowsInv(s, h, g)
  BY <1>3 DEF Captured
<1>16. Framed(s, e)' = Framed(s, e)
  BY <1>2, <1>13 DEF Framed
<1>17. RingInv(s, h, e)'
  <2>1. \A x : FrameOf(s, x, h)' <=> FrameOf(s, x, h)
    BY <1>2 DEF FrameOf, Slice, Mixed
  <2>2. \A i \in 1 .. Len(T) : FrameOf(s, T[i], h)
    <3>1. \A i \in 1 .. Len(T) : i + 1 \in 1 .. Len(ring[s])
      BY <1>6, <1>8, SMT
    <3> QED
      BY <1>8, <1>15, <3>1 DEF RingInv
  <2>3. \A i \in 1 .. Len(T) - 1 : Upto(T[i]) = Before(T[i + 1])
    <3>1. \A i \in 1 .. Len(T) - 1 :
            i \in 1 .. Len(T) /\ i + 1 \in 1 .. Len(T) /\ i + 1 \in 1 .. Len(ring[s]) - 1
      BY <1>6, <1>8, SMT
    <3> QED
      BY <1>8, <1>15, <3>1 DEF RingInv
  <2>4. T # <<>> => Upto(T[Len(T)]) = Framed(s, e)
    <3>1. T # <<>> => Len(T) \in 1 .. Len(T) /\ Len(T) + 1 = Len(ring[s])
      BY <1>6, <1>8, SMT
    <3> QED
      BY <1>5, <1>8, <1>15, <3>1 DEF RingInv
  <2>5. sent[s] + 1 + Len(T) = queued[s] + (IF Pushed(s) THEN 1 ELSE 0)
    <3>1. sent[s] + Len(ring[s]) = queued[s] + (IF Pushed(s) THEN 1 ELSE 0)
      BY <1>15 DEF RingInv
    <3> QED
      BY <1>6, <1>8, <1>9, <3>1, SMT
  <2>7. UseRing
    BY <1>5, <1>15 DEF RingInv
  <2>8. UseRing'
    BY <1>2, <2>7 DEF UseRing
  <2> QED
    BY <1>2, <1>4, <1>10, <1>13, <1>16, <2>1, <2>2, <2>3, <2>4, <2>5, <2>8 DEF RingInv, Upto,
       Before
<1>18. Reached(s, e)' = Reached(s, e)
  <2>1. Reached(s, e) = Upto(ring[s][1])
    BY <1>4 DEF Reached
  <2>2. CASE T = <<>>
    <3>1. Len(ring[s]) = 1
      BY <1>8, <2>2
    <3>2. Upto(ring[s][1]) = Framed(s, e)
      BY <1>5, <1>15, <3>1 DEF RingInv
    <3>3. Reached(s, e)' = Framed(s, e)'
      BY <1>4, <1>10, <2>2 DEF Reached
    <3> QED
      BY <1>16, <2>1, <3>2, <3>3
  <2>3. CASE T # <<>>
    <3>1. 1 \in 1 .. Len(T) /\ 1 \in 1 .. Len(ring[s]) - 1 /\ T[1] = ring[s][1 + 1]
      BY <1>6, <1>8, <2>3, SMT
    <3>2. Upto(ring[s][1]) = Before(T[1])
      BY <1>15, <3>1 DEF RingInv
    <3>3. Reached(s, e)' = Before(T[1])
      BY <1>4, <1>10, <2>3 DEF Reached, Before
    <3> QED
      BY <2>1, <3>2, <3>3
  <2> QED
    BY <2>2, <2>3
<1>19. Captured(s, h, g, e)'
  <2>1. BufferInv(s, h, g, e)'
    BY <1>2, <1>15 DEF BufferInv, Slice, Mixed
  <2>2. AcceptedInv(s, g, e)'
    BY <1>2, <1>15, <1>18 DEF AcceptedInv, Expects, Position
  <2>3. RowsInv(s, h, g)'
    BY <1>2, <1>6, <1>15 DEF RowsInv
  <2>4. PlanRows(plan[s], s, h, e)'
    BY <1>2, <1>3 DEF Captured
  <2> QED
    BY <1>3, <1>17, <2>1, <2>2, <2>3, <2>4 DEF Captured, Run
<1>20. /\ \A u \in Thread : Ordered(plan[u], u)' /\ HeadInv(u)'
       /\ \A r \in Source : PassInv(r)'
  <2>1. UNCHANGED <<plan, state, buffer, mode, control, waiting, finishing>>
    BY <1>2
  <2> QED
    BY <1>5, <1>10, <2>1, RingStep
<1> QED
  BY <1>11, <1>12, <1>14, <1>19, <1>20, Assemble

-----------------------------------------------------------------------------
(* The control thread and the exit handler. *)

\* A drain ends: the control thread asks for the next action.
LEMMA AskFrames ==
  ASSUME ExclusionInv, FramesInv, ControlRequest, mode' = mode
  PROVE  FramesInv'
<1>1. /\ Outside /\ plan' = plan /\ collector' = collector /\ failure' = failure
      /\ finishing' = finishing /\ Alive /\ control = "drain" /\ control' = "check"
      /\ plan[Control] = <<>>
  BY DEF Outside, ControlRequest, collectorVars, exitVars
<1>2. ASSUME NEW s \in Source
      PROVE  /\ state[s] = "active" /\ plan[s] = <<>> /\ buffer[s] = <<>> /\ ring[s] = <<>>
             /\ PassInv(s)
  <2>1. PassInv(s) /\ Passed(Control, s)
    BY <1>1, SMT DEF FramesInv, Passed
  <2> QED
    BY <1>1, <2>1 DEF PassInv
<1>3. stream \in StreamSet /\ stream.ending = "none" /\ Kernel
  BY <1>1 DEF FramesInv, TypeInv, ThreadInv
<1>4. \A r \in stream.data : r \in stream.schema /\ r \in stream.sampled
  <2> SUFFICES ASSUME NEW r \in stream.data
               PROVE  r \in stream.schema /\ r \in stream.sampled
    OBVIOUS
  <2>1. r \in Source
    BY <1>3 DEF StreamSet
  <2>2. PICK h, g, e : Captured(r, h, g, e)
    BY <2>1 DEF FramesInv
  <2>3. r \notin stream.ended
    BY <1>2, <2>1, <2>2 DEF Captured, AcceptedInv
  <2> QED
    BY <1>2, <2>1, <2>2, <2>3, DrainedFact
<1>5. /\ stream' \in StreamSet /\ stream'.ending = "none"
      /\ \A r \in Source : SameSource(stream, stream', r)
  <2>1. CASE closing
    BY <1>3, <2>1, SameFact DEF ControlRequest
  <2>2. CASE ~ closing
    <3>1. stream' = Accept(stream, [kind |-> "kernel_request"])
      BY <2>2 DEF ControlRequest, Publish
    <3> QED
      BY <1>3, <1>4, <3>1, RequestAccepted
  <2> QED
    BY <2>1, <2>2
<1>6. TypeInv'
  <2>1. collector' \in {"running", "done", "returned"} /\ failure' \in {"none", "inactive"}
    BY <1>1 DEF FramesInv, TypeInv
  <2> QED
    BY <1>1, <1>5, <2>1, OutsideTypes
<1>7. ThreadInv'
  BY <1>1, <1>3, <1>5 DEF FramesInv, ThreadInv, Outside, Alive, UseRing, Kernel
<1>8. \A r \in Source : Untouched(r)
  BY <1>1, <1>5, OutsideFact
<1>9. ASSUME NEW r \in Source
      PROVE  PassInv(r)'
  BY <1>1, <1>2 DEF PassInv, Passed, Outside, sourceVars, ringVars
<1> QED
  BY <1>1, <1>6, <1>7, <1>8, <1>9, QuietStep DEF Outside, ExclusionInv, ExclusionType

\* Every source has ended: the exit handler joins the collector and completes.
LEMMA ExitFrames ==
  ASSUME ExclusionInv, FramesInv, FinishCollector \/ FinishComplete, mode' = mode
  PROVE  FramesInv'
<1>1. /\ Outside /\ plan' = plan /\ failure' = failure /\ UNCHANGED <<control, waiting>> /\ Alive
      /\ finishing \in {"ending", "collector"}
      /\ \/ FinishCollector /\ finishing' = "collector" /\ stream' = stream
         \/ FinishComplete /\ finishing' = "done" /\ collector' = collector
  BY DEF Outside, FinishCollector, FinishComplete, collectorVars, controlVars
<1>2. plan[Main] = <<>>
  BY DEF FinishCollector, FinishComplete, ExclusionInv, StopInv
<1>3. ASSUME NEW s \in Source
      PROVE  PassInv(s) /\ state[s] # "active"
  <2>1. PassInv(s) /\ Passed(Main, s)
    BY <1>2, SMT DEF FramesInv, Passed
  <2> QED
    BY <1>1, <2>1 DEF PassInv
<1>4. stream \in StreamSet /\ stream.ending = "none"
  BY <1>1 DEF FramesInv, TypeInv, ThreadInv
<1>5. stream.seen \subseteq stream.ended
  <2> SUFFICES ASSUME NEW r \in stream.seen
               PROVE  r \in stream.ended
    OBVIOUS
  <2>1. r \in Source
    BY <1>4 DEF StreamSet
  <2>2. PICK h, g, e : Captured(r, h, g, e)
    BY <2>1 DEF FramesInv
  <2>3. state[r] \in {"unused", "active", "ended"}
    BY <2>1 DEF FramesInv, TypeInv
  <2> QED
    BY <1>3, <2>1, <2>2, <2>3 DEF Captured, AcceptedInv
<1>6. stream' \in StreamSet /\ \A r \in Source : SameSource(stream, stream', r)
  <2>1. CASE stream' = stream
    BY <1>4, <2>1, SameFact
  <2>2. CASE FinishComplete
    <3>1. stream' = Accept(stream, [kind |-> "complete"])
      BY <2>2 DEF FinishComplete, Publish
    <3> QED
      BY <1>4, <1>5, <3>1, CompleteAccepted
  <2> QED
    BY <1>1, <2>1, <2>2
<1>7. TypeInv'
  <2>1. collector' \in {"running", "done", "returned"} /\ failure' \in {"none", "inactive"}
    BY <1>1 DEF FramesInv, TypeInv, FinishCollector
  <2> QED
    BY <1>1, <1>6, <2>1, OutsideTypes
<1>8. ThreadInv'
  <2>1. CASE FinishCollector /\ stream' = stream
    BY <1>1, <1>4, <2>1, SMT DEF FramesInv, ThreadInv, Outside, Alive, UseRing, Kernel,
       FinishCollector
  <2>2. CASE FinishComplete /\ finishing' = "done" /\ collector' = collector
    BY <1>1, <2>2 DEF FramesInv, ThreadInv, Outside, Alive, UseRing, Kernel
  <2> QED
    BY <1>1, <2>1, <2>2
<1>9. \A r \in Source : Untouched(r)
  BY <1>1, <1>6, OutsideFact
<1>10. ASSUME NEW r \in Source
       PROVE  PassInv(r)'
  <2>1. PassInv(r)
    BY <1>3
  <2> QED
    BY <1>1, <2>1 DEF PassInv, Passed, Outside, sourceVars, ringVars
<1> QED
  BY <1>1, <1>7, <1>8, <1>9, <1>10, QuietStep DEF Outside, ExclusionInv, ExclusionType

-----------------------------------------------------------------------------
(* The first state. *)

\* The invariant holds when the capture starts.
LEMMA FramesInit == ASSUME Init PROVE FramesInv
<1>1. /\ stream \in StreamSet /\ stream.ending = "none" /\ stream.seen = {} /\ stream.data = {}
      /\ stream.ended = {} /\ stream.schema = {} /\ stream.sampled = {}
      /\ \A s \in Source : stream.next[s] = 0 /\ stream.context[s] = NoContext
  BY HelloAccepted DEF Init
<1>2. TypeInv
  <2>1. collector \in {"running", "done", "returned"}
    BY DEF Init
  <2>2. \A s \in Source : NoContext \in Int
    BY SMT DEF NoContext
  <2>3. step \in 0 .. Cardinality(Source) /\ first \in Nat /\ held \in BOOLEAN
    <3>1. step = 0 /\ first = 0 /\ held = FALSE
      BY DEF Init
    <3>2. 0 \in 0 .. Cardinality(Source) /\ 0 \in Nat
      BY SourceFact, SMT
    <3> QED
      BY <3>1, <3>2
  <2> QED
    BY <1>1, <2>1, <2>2, <2>3, SMT DEF Init, TypeInv
<1>3. ThreadInv
  BY <1>1 DEF Init, ThreadInv
<1>4. \A t \in Thread : plan[t] = <<>> /\ DOMAIN plan[t] = {} /\ Len(plan[t]) = 0
  BY SMT DEF Init
<1>5. \A t \in Thread : Ordered(plan[t], t) /\ HeadInv(t)
  <2>1. 1 .. 0 = {} /\ 1 .. 0 - 1 = {}
    BY SMT
  <2> QED
    BY <1>4, <2>1 DEF Ordered, HeadInv
<1>6. \A s \in Source : PassInv(s)
  <2>1. control # "drain" /\ ~ waiting /\ finishing = "no"
    BY DEF Init
  <2> QED
    BY <2>1 DEF PassInv
<1>7. ASSUME NEW s \in Source
      PROVE  \E h, g, e : Captured(s, h, g, e)
  <2> DEFINE g == [i \in 0 .. 0 |-> [context |-> NoContext, sampled |-> FALSE]]
  <2>1. /\ state[s] = "unused" /\ next[s] = 0 /\ buffer[s] = <<>> /\ context[s] = NoContext
        /\ ring[s] = <<>> /\ queued[s] = 0 /\ sent[s] = 0 /\ sampled = {} /\ recording = {}
        /\ held = FALSE
    BY DEF Init
  <2>2. plan[s] = <<>> /\ DOMAIN plan[s] = {} /\ \A t \in Thread : plan[t] = <<>>
    BY <1>4, SourceFact
  <2>3. Len(<<>>) = 0 /\ <<>> \in Seq(Row) /\ 1 .. 0 = {} /\ 1 .. 0 - 1 = {} /\ 0 \in 0 .. 0
    BY SMT
  <2>4. g[0] = [context |-> NoContext, sampled |-> FALSE] /\ g \in [0 .. 0 -> Local]
    BY SMT DEF Local, NoContext
  <2>5. g[0].context = NoContext /\ ~ g[0].sampled
    BY <2>4, SMT
  <2> HIDE DEF g
  <2>6. Run(<<>>, g)
    BY <2>3, <2>4 DEF Run
  <2>7. ~ Pushed(s) /\ ~ HeldAt(s)
    BY <2>1, <2>2 DEF Pushed, HeldAt
  <2>8. Framed(s, 0) = 0 /\ Reached(s, 0) = 0
    <3>0. Len(buffer[s]) = 0 /\ 0 - 0 = 0
      BY <2>1, SMT
    <3>1. Framed(s, 0) = 0
      BY <2>7, <3>0 DEF Framed
    <3> QED
      BY <2>1, <2>7, <3>1 DEF Reached
  <2>9. BufferInv(s, <<>>, g, 0)
    <3>1. Slice(<<>>, <<>>, 0)
      BY <2>3, SMT DEF Slice
    <3>2. 0 - Len(<<>>) = 0
      <4>1. Len(<<>>) = 0 /\ 0 - 0 = 0
        BY SMT
      <4> QED
        BY <4>1
    <3> QED
      BY <2>1, <2>5, <3>1, <3>2 DEF BufferInv
  <2>10. RingInv(s, <<>>, 0)
    BY <2>1, <2>3, <2>7 DEF RingInv
  <2>11. AcceptedInv(s, g, 0)
    BY <1>1, <2>1, <2>5, <2>8 DEF AcceptedInv, Expects, Position
  <2>12. PlanRows(plan[s], s, <<>>, 0)
    BY <2>2, <2>3, SMT DEF PlanRows, Offset
  <2>13. RowsInv(s, <<>>, g)
    BY <2>1, <2>2, <2>3, SMT DEF RowsInv
  <2>14. Captured(s, <<>>, g, 0)
    BY <2>3, <2>6, <2>9, <2>10, <2>11, <2>12, <2>13 DEF Captured
  <2> QED
    BY <2>14
<1> QED
  BY <1>2, <1>3, <1>5, <1>6, <1>7 DEF FramesInv

-----------------------------------------------------------------------------
(* Every step. *)

\* Every step keeps the invariant.
LEMMA FramesStep ==
  ASSUME LeastMembers, ExclusionInv, FramesInv, [Next /\ UNCHANGED mode]_<<vars, mode>>
  PROVE  FramesInv'
<1>1. CASE UNCHANGED <<vars, mode>>
  BY <1>1, StutterFrames
<1>2. CASE Next /\ mode' = mode
  <2>1. ASSUME NEW t \in Thread, Step(t)
        PROVE  FramesInv'
    <3>1. PICK s \in Source :
            \/ AppendCall(t, s) \/ FlushEmpty(t, s) \/ FlushRing(t, s) \/ CountFrame(t, s)
            \/ FlushDirect(t, s) \/ WaitForFrames(t, s) \/ SendSourceEnd(t, s)
            \/ Acquire(t, s) \/ Release(t, s)
      BY <2>1 DEF Step
    <3> QED
      BY <1>2, <3>1, AppendFrames, FlushEmptyFrames, PushFrames, CountFrames, DirectFrames,
         WaitFrames, EndFrames, AcquireFrames, ReleaseFrames
  <2>2. ASSUME NEW s \in Source, Callback(s)
        PROVE  FramesInv'
    BY <1>2, <2>2, StartFrames, BlockFrames, MemoryFrames, IdleFrames, SourceEndFrames DEF Callback
  <2>3. Control \in Thread /\ Main \in Thread /\ Source \subseteq Thread
    BY SourceFact
  <2>4. CASE ControlStep
    BY <1>2, <2>1, <2>3, <2>4, RequireFrames, WorldFrames, PollFrames, AskFrames DEF ControlStep
  <2>5. CASE MainStep
    BY <1>2, <2>1, <2>3, <2>5, EndIfActiveFrames, EndingFrames, ExitFrames DEF MainStep
  <2>6. CASE Collect
    BY <1>2, <2>6, PassFrames, CollectFrames, LetGoFrames DEF Collect
  <2>7. CASE WorldStop \/ WorldResume \/ FinishBegin
    BY <1>2, <2>7, WorldFrames
  <2>8. CASE Exited
    BY <1>2, <2>8, StutterFrames DEF Exited
  <2>9. ASSUME NEW s \in Source, Step(s) \/ Callback(s)
        PROVE  FramesInv'
    BY <2>1, <2>2, <2>3, <2>9
  <2> QED
    BY <1>2, <2>4, <2>5, <2>6, <2>7, <2>8, <2>9 DEF Next
<1> QED
  BY <1>1, <1>2

\* Every row of a source whose buffer and ring are empty is in the stream.
LEMMA PublishedFact ==
  ASSUME FramesInv, NEW s \in Source, plan[s] = <<>>, buffer[s] = <<>>, ring[s] = <<>>
  PROVE  stream.next[s] = next[s]
<1>1. PICK h, g, e : Captured(s, h, g, e)
  BY DEF FramesInv
<1>2. Expects(stream, s, g, e) /\ e = Len(h) /\ e \in Nat
  <2>1. Idle(s, h, g, e)
    BY <1>1, IdleFact
  <2> QED
    BY <1>1, <2>1, DrainedFact DEF Idle
<1>3. next[s] = (IF e = 0 THEN 0 ELSE e - 1)
  BY <1>1 DEF Captured, BufferInv
<1>4. /\ s \in stream.schema => stream.next[s] + 1 = e
      /\ s \notin stream.schema => e = 0 /\ stream.next[s] = 0
  BY <1>2 DEF Expects, Position
<1>5. stream.next[s] \in Nat
  BY DEF FramesInv, TypeInv, StreamSet
<1>6. CASE s \in stream.schema
  BY <1>2, <1>3, <1>4, <1>5, <1>6, SMT
<1>7. CASE s \notin stream.schema
  BY <1>3, <1>4, <1>7
<1> QED
  BY <1>6, <1>7

\* A complete frame is the last, after every row and every end.
LEMMA CompleteHolds ==
  ASSUME ExclusionInv, FramesInv
  PROVE  CompleteMeansEverything
<1>1. failure \notin {"full_ring", "undrained"}
  BY DEF FramesInv, TypeInv
<1>2. ASSUME finishing = "done", NEW s \in Source
      PROVE  stream.next[s] = next[s] /\ (state[s] # "unused" => s \in stream.ended)
  <2>1. plan[Main] = <<>>
    BY <1>2 DEF ExclusionInv, StopInv
  <2>2. PassInv(s) /\ Passed(Main, s)
    BY <2>1, SMT DEF FramesInv, Passed
  <2>3. state[s] # "active" /\ plan[s] = <<>>
    BY <1>2, <2>2 DEF PassInv
  <2>4. PICK h, g, e : Captured(s, h, g, e)
    BY DEF FramesInv
  <2>5. ring[s] = <<>>
    BY <2>3, <2>4, RingHead
  <2>6. state[s] \in {"unused", "active", "ended"} /\ buffer[s] \in Seq(Row)
    BY DEF FramesInv, TypeInv
  <2>7. buffer[s] = <<>>
    <3>1. CASE state[s] = "ended"
      BY <2>4, <3>1 DEF Captured, RowsInv
    <3>2. CASE state[s] = "unused"
      <4>1. e = Len(h) /\ h = <<>>
        <5>1. Idle(s, h, g, e)
          BY <2>3, <2>4, IdleFact
        <5> QED
          BY <3>2, <5>1 DEF Idle
      <4>2. e - Len(buffer[s]) \in Nat
        BY <2>4 DEF Captured, BufferInv, Slice
      <4>3. e = 0
        BY <4>1
      <4>4. Len(buffer[s]) = 0
        BY <2>6, <4>2, <4>3, SMT
      <4> QED
        BY <2>6, <4>4, SMT
    <3> QED
      BY <2>3, <2>6, <3>1, <3>2
  <2>8. stream.next[s] = next[s]
    BY <2>3, <2>5, <2>7, PublishedFact
  <2>9. state[s] # "unused" => s \in stream.ended
    BY <2>3, <2>4, <2>6 DEF Captured, AcceptedInv
  <2> QED
    BY <2>8, <2>9
<1> QED
  BY <1>1, <1>2 DEF CompleteMeansEverything

\* At an action boundary every source is drained.
LEMMA BoundaryHolds ==
  ASSUME ExclusionInv, FramesInv
  PROVE  BoundaryHasEverything
<1> SUFFICES ASSUME waiting, NEW s \in Source
             PROVE  stream.next[s] = next[s] /\ ring[s] = <<>>
  BY DEF BoundaryHasEverything
<1>1. plan[Control] = <<>>
  BY DEF ExclusionInv, StopInv
<1>2. PassInv(s) /\ Passed(Control, s)
  BY <1>1, SMT DEF FramesInv, Passed
<1>3. plan[s] = <<>> /\ buffer[s] = <<>> /\ ring[s] = <<>>
  BY <1>2 DEF PassInv
<1> QED
  BY <1>3, PublishedFact

-----------------------------------------------------------------------------
(* The theorems. *)

INSTANCE WellFoundedInduction

\* The naturals are well ordered.
LEMMA LeastMember ==
  LeastMembers
<1> SUFFICES ASSUME NEW S \in SUBSET Nat, S # {} PROVE \E x \in S : \A y \in S : x <= y
  BY DEF LeastMembers
<1>1. PICK R : IsWellFoundedOn(R, Nat) /\ \A i, j \in Nat : <<i, j>> \in R <=> i < j
  <2>1. \A i, j \in Nat : <<i, j>> \in OpToRel(<, Nat) <=> i < j
    BY DEF OpToRel
  <2> QED
    BY <2>1, NatLessThanWellFounded
<1>2. IsWellFoundedOn(R, Nat)
  BY <1>1
<1>3. PICK x \in S : \A y \in S : ~ (<<y, x>> \in R)
  BY <1>2, WFMin
<1>4. ASSUME NEW y \in S
      PROVE  x <= y
  <2>1. x \in Nat /\ y \in Nat
    OBVIOUS
  <2>2. <<y, x>> \in R <=> y < x
    BY <1>1, <2>1
  <2>3. ~ (y < x)
    BY <1>3, <2>2
  <2> QED
    BY <2>1, <2>3, SMT
<1> QED
  BY <1>4

\* The two invariants hold together in every reachable state.
LEMMA FramesAlways == Spec => [](ExclusionInv /\ FramesInv)
<1>1. Init => ExclusionInv /\ FramesInv
  BY ExclusionInit, FramesInit
<1>2. /\ ExclusionInv /\ FramesInv /\ [Next /\ UNCHANGED mode]_<<vars, mode>>
      => ExclusionInv' /\ FramesInv'
  <2>1. [Next /\ UNCHANGED mode]_<<vars, mode>> => [Next]_vars
    OBVIOUS
  <2> QED
    BY <2>1, ExclusionStep, FramesStep, LeastMember
<1> QED
  BY <1>1, <1>2, PTL DEF Spec

\* Every frame that a capture publishes is accepted by the worker's Stream.
THEOREM EveryFrameAcceptedTheorem == Spec => []EveryFrameAccepted
<1>1. ExclusionInv /\ FramesInv => EveryFrameAccepted
  BY DEF FramesInv, TypeInv, StreamSet, EveryFrameAccepted
<1> QED
  BY <1>1, FramesAlways, PTL

\* When the complete frame is published every captured row has been, and every
\* source that started has ended.
THEOREM CompleteMeansEverythingTheorem == Spec => []CompleteMeansEverything
<1>1. ExclusionInv /\ FramesInv => CompleteMeansEverything
  BY CompleteHolds
<1> QED
  BY <1>1, FramesAlways, PTL

\* While the worker waits at an action boundary every captured row has been
\* published.
THEOREM BoundaryHasEverythingTheorem == Spec => []BoundaryHasEverything
<1>1. ExclusionInv /\ FramesInv => BoundaryHasEverything
  BY BoundaryHolds
<1> QED
  BY <1>1, FramesAlways, PTL
=============================================================================
