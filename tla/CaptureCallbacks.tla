-------------------------- MODULE CaptureCallbacks --------------------------
(***************************************************************************)
(* The callbacks of a vCPU, and the calls that leave the rows of a source  *)
(* alone, keep the invariant behind the frames of a capture.               *)
(***************************************************************************)
EXTENDS CaptureCalls

\* A step is a matter of logic, unless it cites SMT for arithmetic or sequences.
USE ZenonT(30)

-----------------------------------------------------------------------------
(* Calls that leave the rows of a source alone. *)

\* An empty buffer is not flushed.
LEMMA FlushEmptyFrames ==
  ASSUME ExclusionInv, FramesInv, NEW t \in Thread, NEW s \in Source, FlushEmpty(t, s), mode' = mode
  PROVE  FramesInv'
<1> USE DEF sourceVars, ringVars, collectorVars, controlVars, exitVars
<1>1. /\ Inside(t, s) /\ plan[t][1].op = "flush" /\ HeadInv(t) /\ plan[t][1].at = s
      /\ plan[t] # <<>>
  BY CallFact, InsideFact DEF FlushEmpty
<1>2. PICK R : /\ Substitutes(t, s, R, 0) /\ Ordered(R, t) /\ plan'[t] = R
               /\ R # <<>> => Link(plan[t][1], R[1], t)
  BY <1>1, DropFact DEF FlushEmpty
<1>3. R # <<>> => /\ R[1].at = s /\ R[1].op \in {"append", "flush", "wait", "unlock"}
                  /\ R[1].op = "unlock" => t # Control /\ t # Main
  BY <1>1, <1>2, SourceFact DEF Link, Pairs
<1>4. state[s] = "active"
  BY <1>1 DEF HeadInv
<1>5. HeadInv(t)'
  BY <1>2, <1>3, <1>4 DEF FlushEmpty, HeadInv
<1> QED
  BY <1>1, <1>2, <1>5, QuietCall, SMT DEF FlushEmpty

\* A mutex is released.
LEMMA ReleaseFrames ==
  ASSUME ExclusionInv, FramesInv, NEW t \in Thread, NEW s \in Source, Release(t, s), mode' = mode
  PROVE  FramesInv'
<1> USE DEF sourceVars, ringVars, collectorVars, controlVars, exitVars
<1>1. Inside(t, s) /\ plan[t][1].op = "unlock"
  BY CallFact DEF Release
<1>2. PICK R : /\ Substitutes(t, s, R, 0) /\ Ordered(R, t) /\ plan'[t] = R
               /\ R # <<>> => Link(plan[t][1], R[1], t)
  BY <1>1, DropFact DEF Release
<1>3. HeadInv(t)'
  BY <1>1, <1>2 DEF HeadInv, Link, Pairs
<1> QED
  BY <1>1, <1>2, <1>3, QuietCall, SMT DEF Release

\* wait_for_frames returns when the ring is empty.
LEMMA WaitFrames ==
  ASSUME ExclusionInv, FramesInv, NEW t \in Thread, NEW s \in Source, WaitForFrames(t, s),
         mode' = mode
  PROVE  FramesInv'
<1> USE DEF sourceVars, ringVars, collectorVars, controlVars, exitVars
<1>1. /\ Inside(t, s) /\ plan[t][1].op = "wait" /\ HeadInv(t) /\ plan[t][1].at = s
      /\ plan[t] # <<>>
  BY CallFact, InsideFact, SMT DEF WaitForFrames
<1>2. UseRing => sent[s] = queued[s]
  BY <1>1, CollectorRuns DEF WaitForFrames
<1>3. plan' = [plan EXCEPT ![t] = Tail(@)] /\ UNCHANGED <<failure, stream>>
  BY <1>2 DEF WaitForFrames
<1>4. PICK R : /\ Substitutes(t, s, R, 0) /\ Ordered(R, t) /\ plan'[t] = R
               /\ R # <<>> => Link(plan[t][1], R[1], t)
  BY <1>1, <1>3, DropFact
<1>5. ring[s] = <<>>
  <2>1. PICK h, g, e : Captured(s, h, g, e)
    BY DEF FramesInv
  <2>2. ~ Pushed(s)
    BY <1>1, <1>4, CallPushed
  <2>3. ring[s] \in Seq(Frame) /\ sent[s] \in Nat /\ queued[s] \in Nat
    BY DEF FramesInv, TypeInv
  <2> QED
    BY <1>2, <2>1, <2>2, <2>3, SMT DEF Captured, RingInv
<1>6. R # <<>> => /\ R[1].at = s /\ R[1].op \in {"end", "unlock"}
                  /\ R[1].op = "unlock" => t = Control
  BY <1>1, <1>4 DEF Link, Pairs
<1>7. state[s] = "active" /\ buffer[s] = <<>>
  BY <1>1 DEF HeadInv
<1>8. HeadInv(t)'
  BY <1>4, <1>5, <1>6, <1>7, SourceFact DEF HeadInv, WaitForFrames
<1>9. UNCHANGED <<sourceVars, ringVars, collectorVars, controlVars, exitVars, stream, mode>>
  BY <1>3 DEF WaitForFrames
<1> QED
  BY <1>1, <1>4, <1>8, <1>9, QuietCall, SMT

\* The exit handler flushes, waits for and ends an active source.
LEMMA EndIfActiveFrames ==
  ASSUME ExclusionInv, FramesInv, NEW s \in Source, EndIfActive(s), mode' = mode
  PROVE  FramesInv'
<1> USE DEF sourceVars, ringVars, collectorVars, controlVars, exitVars
<1> DEFINE t == Main
           Q == IF state[s] = "active" THEN <<Call("flush", s), Call("wait", s), Call("end", s)>>
                ELSE <<>>
           q == IF state[s] = "active" THEN 3 ELSE 0
<1>0. t \in Thread /\ t # s /\ t # Control /\ t \notin Source
  BY SourceFact
<1>1. plan' = [plan EXCEPT ![t] = Q \o Tail(@)]
  BY DEF EndIfActive
<1>2. Q \in Seq(PlanCall) /\ Len(Q) = q /\ q \in Nat
  <2>1. Call("flush", s) \in PlanCall /\ Call("wait", s) \in PlanCall /\ Call("end", s) \in PlanCall
    BY DEF PlanCall, Op, Call
  <2> QED
    BY <2>1, SMT
<1>3. /\ \A i \in 1 .. q : Q[i].at = s
      /\ state[s] = "active" => Q[1].op = "flush" /\ Q[2].op = "wait" /\ Q[3].op = "end"
  BY SMT DEF Call
<1>4. t = Main
  OBVIOUS
<1> HIDE DEF t, Q
<1>5. /\ Inside(t, s) /\ plan[t][1].op = "end_active" /\ Ordered(plan[t], t)
      /\ plan[t][1].at = s /\ plan[t] # <<>> /\ Len(plan[t]) \in Nat
  BY <1>0, <1>4, CallFact, InsideFact DEF EndIfActive
<1>6. PICK R : Substitutes(t, s, R, q) /\ plan'[t] = R /\ \A i \in 1 .. q : R[i] = Q[i]
  <2>1. Splices(t, s, Q, q)
    BY <1>1, <1>2, <1>3, <1>5 DEF Splices
  <2> QED
    BY <1>0, <1>5, <2>1, SpliceFact, SMT
<1>7. Len(plan[t]) >= 2 => plan[t][2].op = "unlock" /\ plan[t][2].at = s
  <2> SUFFICES ASSUME Len(plan[t]) >= 2 PROVE plan[t][2].op = "unlock" /\ plan[t][2].at = s
    OBVIOUS
  <2>1. 1 \in 1 .. Len(plan[t]) - 1
    BY <1>5, SMT
  <2>2. Link(plan[t][1], plan[t][1 + 1], t)
    BY <1>5, <2>1 DEF Ordered
  <2> QED
    BY <1>5, <2>2, SMT DEF Link, Pairs
<1>8. CASE state[s] = "active"
  <2>1. q = 3 /\ R[1] = Q[1] /\ R[2] = Q[2] /\ R[3] = Q[3]
    BY <1>6, <1>8, SMT
  <2> HIDE DEF q
  <2>2. Link(R[1], R[2], t) /\ Link(R[2], R[3], t)
    BY <1>3, <1>8, <2>1, SMT DEF Link, Pairs
  <2>3. Len(plan[t]) >= 2 => Link(R[q], plan[t][2], t)
    BY <1>0, <1>3, <1>4, <1>7, <1>8, <2>1, SMT DEF Link, Pairs
  <2>4. \A i \in 1 .. q - 1 : Link(R[i], R[i + 1], t)
    <3>1. 1 .. q - 1 = {1, 2} /\ 1 + 1 = 2 /\ 2 + 1 = 3
      BY <2>1, SMT
    <3> QED
      BY <2>2, <3>1
  <2>5. \A i \in 1 .. q : R[i].op # "append"
    BY <1>3, <1>8, <2>1, SMT
  <2>6. Ordered(R, t)
    BY <1>2, <1>5, <1>6, <2>3, <2>4, <2>5, OrderReplaced DEF Substitutes
  <2>7. HeadInv(t)' /\ R[1].op # "count"
    <3>1. R[1].op = "flush" /\ R[1].at = s
      BY <1>3, <1>8, <2>1, SMT
    <3>2. plan'[t] = R /\ state' = state
      BY <1>6 DEF EndIfActive
    <3> QED
      BY <1>8, <3>1, <3>2 DEF HeadInv
  <2> QED
    BY <1>0, <1>5, <1>6, <2>6, <2>7, QuietCall DEF EndIfActive
<1>9. CASE state[s] # "active"
  <2>1. q = 0 /\ 1 .. 0 = {} /\ 1 .. 0 - 1 = {}
    BY <1>9, SMT
  <2> HIDE DEF q
  <2>2. Ordered(R, t)
    BY <1>2, <1>5, <1>6, <2>1, OrderReplaced, SMT DEF Substitutes
  <2>3. R # <<>> => R[1].op = "unlock" /\ R[1].at = s
    <3>1. R # <<>> => Len(plan[t]) >= 2 /\ R[1] = plan[t][2]
      <4>1. Replaces(R, plan[t], 0)
        BY <1>5, <1>6, <2>1 DEF Substitutes
      <4> QED
        BY <4>1, Second
    <3> QED
      BY <1>7, <3>1
  <2>4. HeadInv(t)'
    BY <1>0, <1>6, <1>9, <2>3 DEF HeadInv, EndIfActive
  <2> QED
    BY <1>0, <1>5, <1>6, <2>1, <2>2, <2>4, QuietCall, SMT DEF EndIfActive
<1> QED
  BY <1>8, <1>9

\* The control thread and the exit handler take the mutex of a source.
LEMMA AcquireFrames ==
  ASSUME ExclusionInv, FramesInv, NEW t \in Thread, NEW s \in Source, Acquire(t, s), mode' = mode
  PROVE  FramesInv'
<1> USE DEF sourceVars, ringVars, collectorVars, controlVars, exitVars
<1> DEFINE P == plan[t]
           R == Tail(P)
<1>1. plan \in [Thread -> Seq(PlanCall)] /\ Ordered(P, t)
  BY DEF ExclusionInv, ExclusionType, FramesInv
<1>2. /\ P \in Seq(PlanCall) /\ P # <<>> /\ Len(P) \in Nat \ {0} /\ DOMAIN P = 1 .. Len(P)
      /\ P[1].op = "lock" /\ P[1].at = s
  BY HeadCall DEF Acquire
<1>3. /\ R \in Seq(PlanCall) /\ Len(R) = 0 + Len(P) - 1 /\ Len(R) \in Nat /\ DOMAIN R = 1 .. Len(R)
      /\ \A i \in 1 .. Len(R) : i > 0 => R[i] = P[i - 0 + 1]
  BY <1>2, SMT
<1>4. plan'[t] = R /\ \A u \in Thread \ {t} : plan'[u] = plan[u]
  BY <1>1 DEF Acquire
<1> HIDE DEF R
<1>5. t \notin Source
  <2>1. t \in Source => CpuInv(t) /\ 1 \in DOMAIN P
    BY <1>2, SMT DEF ExclusionInv
  <2> QED
    BY <1>2, <2>1 DEF CpuInv
<1>6. Ordered(R, t)
  <2>1. Replaces(R, P, 0)
    BY <1>2, <1>3 DEF Replaces
  <2> QED
    BY <1>1, <2>1, OrderReplaced, SMT
<1>7. R # <<>> /\ 1 \in DOMAIN R /\ R[1].at = s /\ R[1].op \in {"require", "end_active"}
  <2>1. Len(P) >= 2 /\ 1 \in 1 .. Len(P) - 1
    BY <1>1, <1>2, <1>5, SMT DEF Ordered
  <2>2. Link(P[1], P[1 + 1], t)
    BY <1>1, <2>1 DEF Ordered
  <2>3. Len(R) >= 1 /\ R[1] = P[1 + 1]
    BY <1>2, <1>3, <2>1, SMT
  <2> QED
    <3>1. P[1 + 1].at = P[1].at /\ P[1 + 1].op \in {"require", "end_active"}
      BY <1>2, <2>2, AfterLock
    <3>2. R # <<>> /\ 1 \in DOMAIN R
      BY <1>3, <2>3, SMT
    <3> QED
      BY <1>2, <2>3, <3>1, <3>2
<1>8. ASSUME NEW u \in Thread
      PROVE  Ordered(plan[u], u)' /\ HeadInv(u)'
  <2>1. CASE u = t
    BY <1>4, <1>6, <1>7, <2>1, SMT DEF HeadInv, Ordered, Link, Pairs
  <2>2. CASE u # t
    <3>1. plan'[u] = plan[u] /\ plan[u] \in Seq(PlanCall) /\ Ordered(plan[u], u) /\ HeadInv(u)
      BY <1>1, <1>4, <2>2 DEF FramesInv
    <3>2. Ordered(plan[u], u)'
      BY <3>1
    <3>3. HeadInv(u)'
      BY <3>1 DEF HeadInv, Acquire, UseRing
    <3> QED
      BY <3>2, <3>3
  <2> QED
    BY <2>1, <2>2
<1>9. ASSUME NEW r \in Source, NEW u \in Thread, Passed(u, r)'
      PROVE  Passed(u, r)
  <2>1. CASE u # t
    BY <1>4, <1>9, <2>1 DEF Passed
  <2>2. CASE u = t
    <3>1. r # s
      BY <1>4, <1>7, <1>9, <2>2 DEF Passed
    <3>2. ASSUME NEW i \in 1 .. Len(P)
          PROVE  P[i].at # r
      <4>1. CASE i = 1
        BY <1>2, <3>1, <4>1
      <4>2. CASE i # 1
        <5>1. i - 1 \in DOMAIN R /\ R[i - 1] = P[i]
          BY <1>2, <1>3, <4>2, SMT
        <5> QED
          BY <1>4, <1>9, <2>2, <5>1 DEF Passed
      <4> QED
        BY <4>1, <4>2
    <3> QED
      BY <1>2, <2>2, <3>2 DEF Passed
  <2> QED
    BY <2>1, <2>2
<1>10. ASSUME NEW r \in Source
       PROVE  Pushed(r)' <=> Pushed(r)
  BY <1>2, <1>4, <1>7 DEF Pushed
<1>11. ASSUME NEW r \in Source
       PROVE  Untouched(r)
  <2>1. HeldAt(r)' <=> HeldAt(r)
    BY DEF HeldAt, Visited, Acquire
  <2>2. plan'[r] = plan[r]
    BY <1>4, <1>5, SourceFact
  <2> QED
    BY <1>10, <2>1, <2>2 DEF Untouched, Still, SameSource, Acquire
<1>12. \A r \in Source : PassInv(r)'
  <2> SUFFICES ASSUME NEW r \in Source PROVE PassInv(r)'
    OBVIOUS
  <2>1. PassInv(r) /\ Control \in Thread /\ Main \in Thread
    BY SourceFact DEF FramesInv
  <2> QED
    BY <1>9, <1>11, <2>1 DEF PassInv, Acquire, Untouched, Still
<1>13. TypeInv' /\ ThreadInv'
  BY DEF FramesInv, TypeInv, ThreadInv, StreamSet, Features, Kernel, Mixed, UseRing, Alive, Acquire
<1>14. \E h, g, e : Captured(s, h, g, e)'
  <2>1. PICK h, g, e : Captured(s, h, g, e)
    BY DEF FramesInv
  <2> QED
    BY <1>11, <2>1, Kept
<1> QED
  BY <1>8, <1>11, <1>12, <1>13, <1>14, Assemble

-----------------------------------------------------------------------------
(* The callbacks of a vCPU. *)

\* A row that fits extends a run.
LEMMA Extend ==
  ASSUME NEW h, NEW g, Run(h, g), NEW row \in Row, Fits(g[Len(h)], row, Len(h) + 1),
         h # <<>> /\ row.kind = "address_context" => h[Len(h)].kind # "address_context"
  PROVE  \E d : /\ Run(h \o <<row>>, d)
                /\ \A i \in 0 .. Len(h) : d[i] = g[i]
                /\ d[Len(h) + 1] = Advance(g[Len(h)], row, Len(h) + 1)
<1> DEFINE n == Len(h)
           c == h \o <<row>>
           d == [i \in 0 .. n + 1 |-> IF i <= n THEN g[i] ELSE Advance(g[n], row, n + 1)]
<1>1. n \in Nat /\ h \in Seq(Row) /\ g \in [0 .. n -> Local] /\ g[n] \in Local
  BY SMT DEF Run
<1>2. c \in Seq(Row) /\ Len(c) = n + 1 /\ c[n + 1] = row /\ \A i \in 1 .. n : c[i] = h[i]
  BY <1>1, SMT
<1>3. Advance(g[n], row, n + 1) \in Local
  BY <1>1, SMT DEF Advance, Local
<1>4. d \in [0 .. n + 1 -> Local] /\ d[n + 1] = Advance(g[n], row, n + 1)
      /\ \A i \in 0 .. n : d[i] = g[i]
  BY <1>1, <1>3, SMT
<1> HIDE DEF c, d
<1>5. d[0] = [context |-> NoContext, sampled |-> FALSE]
  <2>1. d[0] = g[0]
    BY <1>1, <1>4, SMT
  <2> QED
    BY <2>1 DEF Run
<1>6. ASSUME NEW i \in 1 .. n + 1
      PROVE  Fits(d[i - 1], c[i], i) /\ d[i] = Advance(d[i - 1], c[i], i)
  <2>1. CASE i = n + 1
    BY <1>1, <1>2, <1>4, <2>1, SMT
  <2>2. CASE i \in 1 .. n
    <3>1. i - 1 \in 0 .. n /\ i \in 0 .. n
      BY <1>1, <2>2, SMT
    <3>2. Fits(g[i - 1], h[i], i) /\ g[i] = Advance(g[i - 1], h[i], i)
      BY <2>2 DEF Run
    <3>3. d[i - 1] = g[i - 1] /\ d[i] = g[i] /\ c[i] = h[i]
      BY <1>2, <1>4, <2>2, <3>1
    <3> QED
      BY <3>2, <3>3
  <2> QED
    BY <1>1, <2>1, <2>2, SMT
<1>7. ASSUME NEW i \in 1 .. n
      PROVE  ~ (c[i].kind = "address_context" /\ c[i + 1].kind = "address_context")
  <2>1. CASE i = n
    <3>1. h # <<>> /\ c[n] = h[n] /\ c[n + 1] = row
      BY <1>1, <1>2, <2>1, SMT
    <3> QED
      BY <2>1, <3>1
  <2>2. CASE i \in 1 .. n - 1
    <3>1. i + 1 \in 1 .. n /\ c[i] = h[i] /\ c[i + 1] = h[i + 1]
      BY <1>1, <1>2, <2>2, SMT
    <3> QED
      BY <2>2, <3>1 DEF Run
  <2> QED
    BY <1>1, <2>1, <2>2, SMT
<1>8. Run(c, d)
  <2>1. (n + 1) - 1 = n
    BY <1>1, SMT
  <2> QED
    BY <1>2, <1>4, <1>5, <1>6, <1>7, <2>1 DEF Run
<1> QED
  BY <1>4, <1>8 DEF c

\* The run k goes on from h.
Extends(h, g, k, d) ==
  /\ Run(k, d)
  /\ Len(h) <= Len(k)
  /\ \A i \in 1 .. Len(h) : k[i] = h[i]
  /\ \A i \in 0 .. Len(h) : d[i] = g[i]

\* Rows that are planned change nothing of those that were captured.
LEMMA DataExtended ==
  ASSUME TypeInv, NEW s \in Source, NEW h, NEW g, NEW e, Captured(s, h, g, e),
         NEW k, NEW d, Extends(h, g, k, d)
  PROVE  BufferInv(s, k, d, e) /\ RingInv(s, k, e) /\ Expects(stream, s, d, Reached(s, e))
<1>1. /\ Run(h, g) /\ e \in 0 .. Len(h) /\ e \in Nat /\ Len(h) \in Nat /\ Len(k) \in Nat /\ Len(h) <= Len(k)
      /\ \A i \in 1 .. Len(h) : k[i] = h[i]
      /\ \A i \in 0 .. Len(h) : d[i] = g[i]
  BY SMT DEF Captured, Run, Extends
<1>2. ASSUME NEW b, NEW j, Slice(b, h, j)
      PROVE  Slice(b, k, j)
  <2>1. b \in Seq(Row) /\ j \in Nat /\ j + Len(b) <= Len(h) /\ Len(b) \in Nat
    BY <1>2, SMT DEF Slice
  <2>2. ASSUME NEW i \in 1 .. Len(b)
        PROVE  b[i] = k[j + i]
    <3>1. j + i \in 1 .. Len(h)
      BY <1>1, <2>1, SMT
    <3> QED
      BY <1>1, <1>2, <3>1 DEF Slice
  <2>3. j + Len(b) <= Len(k)
    BY <1>1, <2>1, SMT
  <2> QED
    BY <1>2, <2>1, <2>2, <2>3 DEF Slice
<1>3. d[e] = g[e]
  BY <1>1
<1>4. BufferInv(s, k, d, e)
  BY <1>2, <1>3 DEF Captured, BufferInv
<1>5. ASSUME NEW f, FrameOf(s, f, h)
      PROVE  FrameOf(s, f, k)
  BY <1>1, <1>2, <1>5, SMT DEF FrameOf
<1>6. RingInv(s, k, e)
  BY <1>5 DEF Captured, RingInv
<1>7. Reached(s, e) \in 0 .. Len(h)
  <2>1. ring[s] \in Seq(Frame) /\ buffer[s] \in Seq(Row) /\ Len(buffer[s]) \in Nat
    BY SMT DEF TypeInv
  <2>2. ring[s] # <<>> => Upto(ring[s][1]) \in 0 .. Len(h) /\ Before(ring[s][1]) \in 0 .. Len(h)
    <3> SUFFICES ASSUME ring[s] # <<>>
                 PROVE  Upto(ring[s][1]) \in 0 .. Len(h) /\ Before(ring[s][1]) \in 0 .. Len(h)
      OBVIOUS
    <3> DEFINE f == ring[s][1]
    <3>1. f \in Frame /\ 1 \in 1 .. Len(ring[s])
      BY <2>1, SMT
    <3>2. FrameOf(s, f, h)
      BY <3>1 DEF Captured, RingInv
    <3> HIDE DEF f
    <3>3. CASE f.kind = "rows"
      <4>1. /\ f.sequence \in Nat /\ f.rows \in Seq(Row) /\ Len(f.rows) \in Nat
            /\ f.sequence + 1 + Len(f.rows) <= Len(h)
        BY <3>1, <3>2, <3>3, SMT DEF Frame, FrameOf, Slice
      <4>2. Upto(f) = f.sequence + 1 + Len(f.rows) /\ Before(f) = f.sequence + 1
        BY <3>3 DEF Upto, Before
      <4>3. Upto(f) \in 0 .. Len(h) /\ Before(f) \in 0 .. Len(h)
        BY <1>1, <4>1, <4>2, SMT
      <4> QED
        BY <4>3 DEF f
    <3>4. CASE f.kind # "rows"
      BY <1>1, <3>2, <3>4, SMT DEF FrameOf, Upto, Before, f
    <3> QED
      BY <3>3, <3>4
  <2>3. Framed(s, e) \in 0 .. Len(h)
    <3>1. e - Len(buffer[s]) \in Nat
      BY DEF Captured, BufferInv, Slice
    <3> QED
      BY <1>1, <2>1, <3>1, SMT DEF Framed
  <2>4. HeldAt(s) => ring[s] # <<>>
    BY DEF Captured, RingInv
  <2> QED
    BY <2>2, <2>3, <2>4 DEF Reached
<1>8. d[Reached(s, e)] = g[Reached(s, e)]
  BY <1>1, <1>7
<1>9. Expects(stream, s, d, Reached(s, e))
  BY <1>8 DEF Captured, AcceptedInv, Expects
<1> QED
  BY <1>4, <1>6, <1>9

\* Nobody relies on the source being left alone.
Busy(s) ==
  /\ ~ (Passed(Control, s) /\ (control = "drain" \/ waiting))
  /\ ~ (Passed(Main, s) /\ finishing \in {"ending", "collector", "done"})

\* The plan R of a callback of s, whose rows are those of k after the first e.
Begins(s, R, k, d, e) ==
  /\ R \in Seq(PlanCall) /\ R # <<>> /\ Ordered(R, s)
  /\ R[1].op \in {"append", "flush"} /\ R[1].at = s
  /\ PlanRows(R, s, k, e)
  /\ k # <<>> /\ (k[Len(k)].kind = "address_context" => \E i \in DOMAIN R : R[i].op = "end")
  /\ Len(k) >= 2 \/ s \in recording' => d[Len(k)].sampled

\* A callback of s starts.
Started(s, R) ==
  /\ plan' = [plan EXCEPT ![s] = R] /\ state' = [state EXCEPT ![s] = "active"]
  /\ state[s] = "active" \/ (state[s] = "unused" /\ finishing = "no")
  /\ recording' \in {recording, recording \cup {s}}
  /\ UNCHANGED <<next, buffer, context, sampled, ringVars, collectorVars, controlVars, exitVars,
                 stream, mode>>

Takes(s, h, g, e, k, d, R) ==
  Captured(s, h, g, e) /\ Extends(h, g, k, d) /\ Begins(s, R, k, d, e) /\ Started(s, R)

\* A callback whose calls append a run that goes on keeps the invariant.
LEMMA CallbackStarts ==
  ASSUME ExclusionInv, FramesInv, NEW s \in Source, plan[s] = <<>>, NEW h, NEW g, NEW e,
         NEW k, NEW d, NEW R, Takes(s, h, g, e, k, d, R), Busy(s)
  PROVE  FramesInv'
<1>0. /\ Captured(s, h, g, e) /\ Extends(h, g, k, d) /\ Begins(s, R, k, d, e)
      /\ plan' = [plan EXCEPT ![s] = R] /\ state' = [state EXCEPT ![s] = "active"]
      /\ state[s] = "active" \/ (state[s] = "unused" /\ finishing = "no")
      /\ recording' \in {recording, recording \cup {s}}
      /\ UNCHANGED <<next, buffer, context, sampled, ringVars, collectorVars, controlVars, exitVars,
                     stream, mode>>
  BY DEF Takes, Started
<1> USE <1>0
<1> USE DEF ringVars, collectorVars, controlVars, exitVars
<1>1. plan \in [Thread -> Seq(PlanCall)] /\ s \in Thread
  BY SourceFact DEF ExclusionInv, ExclusionType
<1>2. plan'[s] = R /\ \A u \in Thread \ {s} : plan'[u] = plan[u]
  BY <1>1
<1>3. TypeInv /\ state \in [Source -> {"unused", "active", "ended"}] /\ recording \subseteq Source
  BY DEF FramesInv, TypeInv
<1>4. /\ state' \in [Source -> {"unused", "active", "ended"}] /\ state'[s] = "active"
      /\ \A r \in Source \ {s} : state'[r] = state[r]
      /\ recording' \subseteq Source
      /\ \A r \in Source \ {s} : r \in recording' <=> r \in recording
  BY <1>3
<1>5. TypeInv' /\ ThreadInv'
  <2>1. TypeInv'
    BY <1>4 DEF FramesInv, TypeInv, StreamSet, Features, Kernel, Mixed
  <2>2. ThreadInv'
    BY DEF FramesInv, ThreadInv, Kernel, UseRing, Alive
  <2> QED
    BY <2>1, <2>2
<1>6. ASSUME NEW u \in Thread
      PROVE  Ordered(plan[u], u)' /\ HeadInv(u)'
  <2>1. CASE u = s
    <3>1. Ordered(plan[u], u)'
      BY <1>2, <2>1 DEF Begins
    <3>2. HeadInv(u)'
      BY <1>2, <1>4, <2>1, SMT DEF Begins, HeadInv
    <3> QED
      BY <3>1, <3>2
  <2>2. CASE u # s
    <3>1. plan'[u] = plan[u] /\ plan[u] \in Seq(PlanCall) /\ Ordered(plan[u], u) /\ HeadInv(u)
      BY <1>1, <1>2, <2>2 DEF FramesInv
    <3>2. plan[u] # <<>> => plan[u][1].at \in Source
      BY <3>1, SMT DEF PlanCall
    <3>3. Ordered(plan[u], u)'
      BY <3>1
    <3>4. CASE plan[u] # <<>> /\ plan[u][1].at = s /\ state[s] = "unused"
      <4>1. u # Main
        BY <3>4 DEF ExclusionInv, StopInv
      <4> QED
        BY <3>1, <3>3, <3>4, <4>1 DEF HeadInv
    <3>5. CASE plan[u] = <<>> \/ plan[u][1].at # s \/ state[s] = "active"
      <4>1. plan[u] # <<>> => state'[plan[u][1].at] = state[plan[u][1].at]
        BY <1>4, <3>2, <3>5
      <4>2. HeadInv(u)'
        BY <3>1, <3>2, <4>1 DEF HeadInv, UseRing
      <4> QED
        BY <3>3, <4>2
    <3> QED
      BY <3>4, <3>5
  <2> QED
    BY <2>1, <2>2
<1>7. plan'[Control] = plan[Control] /\ plan'[Main] = plan[Main]
  BY <1>2, SourceFact
<1>8. ASSUME NEW r \in Source
      PROVE  PassInv(r)'
  <2>1. CASE r = s
    BY <1>7, <2>1 DEF PassInv, Passed, Busy
  <2>2. CASE r # s
    <3>1. PassInv(r) /\ plan'[r] = plan[r] /\ state'[r] = state[r]
      BY <1>2, <1>4, <2>2, SourceFact DEF FramesInv
    <3> QED
      BY <1>7, <3>1 DEF PassInv, Passed
  <2> QED
    BY <2>1, <2>2
<1>9. \A r \in Source : (Pushed(r)' <=> Pushed(r)) /\ (HeldAt(r)' <=> HeldAt(r))
  <2>1. \A r \in Source : Pushed(r)' <=> Pushed(r)
    BY <1>1, <1>2 DEF Pushed, Begins
  <2>2. \A r \in Source : HeldAt(r)' <=> HeldAt(r)
    BY DEF HeldAt, Visited
  <2> QED
    BY <2>1, <2>2
<1>10. \A r \in Source \ {s} : Untouched(r)
  BY <1>2, <1>4, <1>9, SourceFact DEF Untouched, Still, SameSource
<1>11. BufferInv(s, k, d, e) /\ RingInv(s, k, e) /\ Expects(stream, s, d, Reached(s, e))
  BY <1>3, DataExtended
<1>12. Framed(s, e)' = Framed(s, e) /\ Reached(s, e)' = Reached(s, e)
  BY <1>9 DEF Framed, Reached, Upto, Before
<1>13. BufferInv(s, k, d, e)'
  BY <1>11 DEF BufferInv, Slice, Mixed
<1>14. RingInv(s, k, e)'
  <2>1. (\A j \in 1 .. Len(ring[s]) : FrameOf(s, ring[s][j], k))'
    BY <1>11 DEF RingInv, FrameOf, Slice, Mixed
  <2>2. (\A j \in 1 .. Len(ring[s]) - 1 : Upto(ring[s][j]) = Before(ring[s][j + 1]))'
    BY <1>11 DEF RingInv, Upto, Before
  <2>3. (ring[s] # <<>> => Upto(ring[s][Len(ring[s])]) = Framed(s, e))'
    BY <1>11, <1>12 DEF RingInv, Upto
  <2>4. (/\ sent[s] + Len(ring[s]) = queued[s] + (IF Pushed(s) THEN 1 ELSE 0)
         /\ ~ UseRing => ring[s] = <<>>
         /\ HeldAt(s) => ring[s] # <<>>)'
    BY <1>9, <1>11 DEF RingInv, UseRing
  <2> QED
    BY <2>1, <2>2, <2>3, <2>4 DEF RingInv
<1>15. AcceptedInv(s, d, e)'
  <2>1. s \notin stream.ended
    BY DEF Captured, AcceptedInv
  <2> QED
    BY <1>4, <1>11, <1>12, <2>1 DEF AcceptedInv, Expects, Position
<1>16. PlanRows(plan[s], s, k, e)'
  BY <1>2 DEF Begins
<1>17. RowsInv(s, k, d)'
  <2>1. plan'[s] = R /\ state'[s] = "active" /\ k # <<>>
        /\ (k[Len(k)].kind = "address_context" => \E i \in DOMAIN R : R[i].op = "end")
        /\ (Len(k) >= 2 \/ s \in recording' => d[Len(k)].sampled)
    BY <1>2, <1>4 DEF Begins
  <2> QED
    BY <2>1 DEF RowsInv
<1>18. Run(k, d) /\ e \in 0 .. Len(k)
  <2>1. Run(k, d) /\ Len(h) <= Len(k) /\ e \in 0 .. Len(h)
    BY DEF Captured, Extends
  <2>2. h \in Seq(Row) /\ k \in Seq(Row)
    BY <2>1 DEF Captured, Run
  <2>3. Len(h) \in Nat /\ Len(k) \in Nat
    BY <2>2, SeqFact
  <2> QED
    BY <2>1, <2>3, SMT
<1>19. Captured(s, k, d, e)'
  BY <1>13, <1>14, <1>15, <1>16, <1>17, <1>18 DEF Captured, Run
<1> QED
  BY <1>5, <1>6, <1>8, <1>10, <1>19, Assemble

\* The rows of k after those of h are the first calls of R.
Goes(h, g, k, d, R, s) ==
  /\ Extends(h, g, k, d)
  /\ \A j \in 1 .. Len(k) - Len(h) :
       R[j] \in [op : {"append"}, at : {s}, row : Row] /\ Match(R[j].row, k[Len(h) + j])

Appends(c, s, row) == c \in [op : {"append"}, at : {s}, row : Row] /\ Match(c.row, row)

\* Call n of R appends a row that can follow those of k, and k with that row.
Follows(h, g, k, d, R, s, row, n) ==
  /\ Run(h, g) /\ Goes(h, g, k, d, R, s)
  /\ row \in Row /\ Fits(d[Len(k)], row, Len(k) + 1)
  /\ k # <<>> /\ row.kind = "address_context" => k[Len(k)].kind # "address_context"
  /\ n = Len(k) - Len(h) + 1 /\ Appends(R[n], s, row)

Further(h, g, k, d, R, s, row) ==
  \E c, b : /\ Goes(h, g, c, b, R, s) /\ Len(c) = Len(k) + 1 /\ c[Len(c)] = row
            /\ b[Len(c)] = Advance(d[Len(k)], row, Len(k) + 1)

\* One more row.
LEMMA OneMore ==
  ASSUME NEW h, NEW g, NEW k, NEW d, NEW R, NEW s, NEW row, NEW n, Follows(h, g, k, d, R, s, row, n)
  PROVE  Further(h, g, k, d, R, s, row)
<1>0. /\ Run(h, g) /\ Goes(h, g, k, d, R, s)
      /\ row \in Row /\ Fits(d[Len(k)], row, Len(k) + 1)
      /\ k # <<>> /\ row.kind = "address_context" => k[Len(k)].kind # "address_context"
      /\ n = Len(k) - Len(h) + 1 /\ Appends(R[n], s, row)
  BY DEF Follows
<1> USE <1>0
<1>1. /\ Run(k, d) /\ Len(h) \in Nat /\ Len(k) \in Nat /\ Len(h) <= Len(k) /\ k \in Seq(Row)
      /\ \A i \in 1 .. Len(h) : k[i] = h[i]
      /\ \A i \in 0 .. Len(h) : d[i] = g[i]
      /\ \A j \in 1 .. Len(k) - Len(h) : Appends(R[j], s, k[Len(h) + j])
  <2>1. /\ Run(k, d) /\ Len(h) <= Len(k)
        /\ \A i \in 1 .. Len(h) : k[i] = h[i]
        /\ \A i \in 0 .. Len(h) : d[i] = g[i]
    BY DEF Goes, Extends
  <2>2. h \in Seq(Row) /\ k \in Seq(Row)
    BY <2>1 DEF Run
  <2>3. Len(h) \in Nat /\ Len(k) \in Nat
    BY <2>2, SeqFact
  <2>4. \A j \in 1 .. Len(k) - Len(h) : Appends(R[j], s, k[Len(h) + j])
    BY DEF Goes, Appends
  <2> QED
    BY <2>1, <2>2, <2>3, <2>4
<1>2. PICK b : /\ Run(k \o <<row>>, b)
               /\ \A i \in 0 .. Len(k) : b[i] = d[i]
               /\ b[Len(k) + 1] = Advance(d[Len(k)], row, Len(k) + 1)
  BY <1>1, Extend
<1> DEFINE c == k \o <<row>>
<1>3. Len(c) = Len(k) + 1 /\ c[Len(k) + 1] = row /\ \A i \in 1 .. Len(k) : c[i] = k[i]
  BY <1>1, SMT
<1>4. Run(c, b)
  BY <1>2
<1> HIDE DEF c
<1>5. Extends(h, g, c, b)
  <2>1. Len(h) <= Len(c)
    BY <1>1, <1>3, SMT
  <2>2. \A i \in 1 .. Len(h) : c[i] = h[i]
    BY <1>1, <1>3, SMT
  <2>3. \A i \in 0 .. Len(h) : b[i] = g[i]
    BY <1>1, <1>2, SMT
  <2> QED
    BY <1>4, <2>1, <2>2, <2>3 DEF Extends
<1>6. ASSUME NEW j \in 1 .. Len(c) - Len(h)
      PROVE  Appends(R[j], s, c[Len(h) + j])
  <2>1. CASE j = n
    <3>1. Len(h) + j = Len(k) + 1
      BY <1>1, <2>1, SMT
    <3> QED
      BY <1>3, <2>1, <3>1
  <2>2. CASE j # n
    <3>1. j \in 1 .. Len(k) - Len(h) /\ Len(h) + j \in 1 .. Len(k)
      BY <1>1, <1>3, <2>2, SMT
    <3> QED
      BY <1>1, <1>3, <3>1
  <2> QED
    BY <2>1, <2>2
<1>7. Goes(h, g, c, b, R, s)
  BY <1>5, <1>6 DEF Goes, Appends
<1> QED
  BY <1>2, <1>3, <1>7 DEF Further

\* The plan of a callback is planned as PlanRows says.
LEMMA PlanStarts ==
  ASSUME NEW h, NEW g, Run(h, g), NEW k, NEW d, NEW R \in Seq(PlanCall), NEW s,
         Goes(h, g, k, d, R, s), R # <<>>, R[1].op # "count",
         R[1].op = "flush" => Len(k) = Len(h), Len(k) - Len(h) <= Len(R),
         \A i \in 1 .. Len(R) : R[i].op = "append" => i <= Len(k) - Len(h)
  PROVE  PlanRows(R, s, k, Len(h))
<1>1. Len(h) \in Nat /\ Len(k) \in Nat /\ Len(h) <= Len(k) /\ Len(R) \in Nat \ {0}
  BY SMT DEF Goes, Extends, Run
<1>2. CASE R[1].op = "flush"
  <2>1. Offset(R) = 1 /\ Len(k) = Len(h) /\ 1 .. Len(k) - Len(h) = {}
    BY <1>1, <1>2, SMT DEF Offset
  <2>2. \A i \in 1 .. Len(R) : R[i].op # "append"
    BY <1>1, <2>1, SMT
  <2> QED
    BY <1>1, <2>1, <2>2, SMT DEF PlanRows
<1>3. CASE R[1].op # "flush"
  <2>1. Offset(R) = 0 /\ \A j \in 1 .. Len(k) - Len(h) : Offset(R) + j = j
    BY <1>1, <1>3, SMT DEF Offset
  <2>2. \A j \in 1 .. Len(k) - Len(h) :
          /\ R[Offset(R) + j] \in [op : {"append"}, at : {s}, row : Row]
          /\ Match(R[Offset(R) + j].row, k[Len(h) + j])
    BY <2>1 DEF Goes
  <2>3. Offset(R) + Len(k) - Len(h) = Len(k) - Len(h)
    BY <1>1, <2>1, SMT
  <2>4. \A i \in 1 .. Len(R) :
          R[i].op = "append" => i > Offset(R) /\ i <= Offset(R) + Len(k) - Len(h)
    BY <1>1, <2>1, <2>3, SMT
  <2> QED
    BY <2>2, <2>3, <2>4 DEF PlanRows
<1> QED
  BY <1>2, <1>3

\* emit_context and sample_registers: the rows a callback begins with.
Count(b) == IF b THEN 1 ELSE 0

Opens(R, s, c, r) ==
  /\ c \in BOOLEAN /\ r \in BOOLEAN
  /\ r => c \/ context[s] # NoContext
  /\ c => Appends(R[1], s, ContextRow)
  /\ r => Appends(R[Count(c) + 1], s, RegisterRow(s))

Opened(h, g, R, s, c, r) ==
  \E k, d : /\ Goes(h, g, k, d, R, s) /\ Len(k) = Len(h) + (Count(c) + Count(r)) /\ Len(k) \in Nat
            /\ d[Len(k)].sampled <=> (s \in sampled \/ r)
            /\ c \/ context[s] # NoContext => d[Len(k)].context # NoContext

\* They follow the run of an active source, and leave a context and sampled
\* registers.
LEMMA Opening ==
  ASSUME NEW s \in Source, state[s] = "active", NEW h, NEW g, NEW e, Idle(s, h, g, e),
         NEW R, NEW c, NEW r, Opens(R, s, c, r)
  PROVE  Opened(h, g, R, s, c, r)
<1>a. /\ Run(h, g) /\ h # <<>> /\ h[Len(h)].kind # "address_context"
      /\ context[s] = g[Len(h)].context /\ (s \in sampled <=> g[Len(h)].sampled)
  BY DEF Idle
<1> USE <1>a
<1>0. h \in Seq(Row) /\ Len(h) \in Nat \ {0} /\ g \in [0 .. Len(h) -> Local] /\ NoContext = -1
  BY SMT DEF Run, NoContext
<1>1. Goes(h, g, h, g, R, s)
  <2>1. 1 .. Len(h) - Len(h) = {}
    BY <1>0, SMT
  <2> QED
    BY <1>0, <2>1, SMT DEF Goes, Extends
<1>2. PICK k, d : /\ Goes(h, g, k, d, R, s) /\ Len(k) = Len(h) + Count(c)
                  /\ d[Len(k)].sampled <=> s \in sampled
                  /\ c \/ context[s] # NoContext => d[Len(k)].context # NoContext
  <2>1. CASE c
    <3>1. ContextRow \in Row /\ ContextRow.kind = "address_context"
      BY DEF ContextRow, Row
    <3>2. Fits(g[Len(h)], ContextRow, Len(h) + 1)
      BY <1>0, <3>1, SMT DEF Fits
    <3>3. 1 = Len(h) - Len(h) + 1
      BY <1>0, SMT
    <3>4. Appends(R[1], s, ContextRow)
      BY <2>1 DEF Opens
    <3>5. PICK k, d : /\ Goes(h, g, k, d, R, s) /\ Len(k) = Len(h) + 1 /\ k[Len(k)] = ContextRow
                      /\ d[Len(k)] = Advance(g[Len(h)], ContextRow, Len(h) + 1)
      <4>1. Follows(h, g, h, g, R, s, ContextRow, 1)
        BY <1>1, <3>1, <3>2, <3>3, <3>4 DEF Follows
      <4>2. Further(h, g, h, g, R, s, ContextRow)
        BY <4>1, OneMore
      <4> QED
        BY <4>2 DEF Further
    <3>6. d[Len(k)].sampled <=> g[Len(h)].sampled
      <4>1. \A l, x, i : Advance(l, x, i).sampled <=> l.sampled \/ x.kind = "registers"
        BY DEF Advance
      <4> QED
        BY <3>1, <3>5, <4>1, SMT
    <3>7. d[Len(k)].context # NoContext
      <4>1. d[Len(k)].context = (Len(h) + 1) - 2
        BY <3>1, <3>5, SMT DEF Advance
      <4> QED
        BY <1>0, <4>1, SMT
    <3> QED
      BY <2>1, <3>5, <3>6, <3>7 DEF Count
  <2>2. CASE ~ c
    <3>1. Len(h) + 0 = Len(h)
      BY <1>0, SMT
    <3> QED
      BY <1>1, <2>2, <3>1 DEF Count
  <2> QED
    BY <2>1, <2>2
<1>3. CASE ~ r
  <2>1. Count(c) \in Nat /\ Count(r) = 0
    BY <1>3 DEF Count
  <2>2. Len(k) = Len(h) + (Count(c) + Count(r)) /\ Len(k) \in Nat
    BY <1>0, <1>2, <2>1, SMT
  <2> QED
    BY <1>2, <1>3, <2>2 DEF Opened
<1>4. CASE r
  <2>0. Count(c) \in Nat /\ Count(r) = 1 /\ Len(k) \in Nat \ {0}
    BY <1>0, <1>2, <1>4, SMT DEF Count
  <2>1. RegisterRow(s) \in Row /\ RegisterRow(s).kind = "registers"
        /\ (RegisterRow(s).baseline <=> s \notin sampled)
    BY DEF RegisterRow, Row
  <2>2. d[Len(k)].context # NoContext
    BY <1>2, <1>4 DEF Opens
  <2>3. Fits(d[Len(k)], RegisterRow(s), Len(k) + 1)
    BY <1>2, <2>0, <2>1, <2>2, SMT DEF Fits
  <2>4. Count(c) + 1 = Len(k) - Len(h) + 1 /\ Appends(R[Count(c) + 1], s, RegisterRow(s))
    BY <1>0, <1>2, <1>4, <2>0, SMT DEF Opens
  <2>5. PICK x, y : /\ Goes(h, g, x, y, R, s) /\ Len(x) = Len(k) + 1 /\ x[Len(x)] = RegisterRow(s)
                    /\ y[Len(x)] = Advance(d[Len(k)], RegisterRow(s), Len(k) + 1)
    <3>1. Follows(h, g, k, d, R, s, RegisterRow(s), Count(c) + 1)
      BY <1>2, <2>1, <2>3, <2>4 DEF Follows
    <3>2. Further(h, g, k, d, R, s, RegisterRow(s))
      BY <3>1, OneMore
    <3> QED
      BY <3>2 DEF Further
  <2>6. y[Len(x)].sampled
    <3>1. \A l, z, i : Advance(l, z, i).sampled <=> l.sampled \/ z.kind = "registers"
      BY DEF Advance
    <3> QED
      BY <2>1, <2>5, <3>1
  <2>7. y[Len(x)].context # NoContext
    BY <2>1, <2>2, <2>5, SMT DEF Advance
  <2>8. Len(x) = Len(h) + (Count(c) + Count(r)) /\ Len(x) \in Nat
    BY <1>0, <1>2, <2>0, <2>5, SMT
  <2> QED
    BY <1>4, <2>5, <2>6, <2>7, <2>8 DEF Opened
<1> QED
  BY <1>3, <1>4 DEF Opens

\* The rows of a callback, and then the block or the memory access it is for.
Closes(h, k, d, R, s, kind, n) ==
  /\ Len(k) >= 1 /\ d[Len(k)].sampled /\ kind \in {"blocks", "memory"}
  /\ kind = "blocks" => d[Len(k)].context # NoContext
  /\ n = Len(k) - Len(h) + 1
  /\ R[n] = AppendRow(s, IF kind = "blocks" THEN BlockRow ELSE MemoryRow)

Closed(h, g, k, R, s, kind) ==
  \E c, b : /\ Goes(h, g, c, b, R, s) /\ Len(c) = Len(k) + 1 /\ c[Len(c)].kind = kind
            /\ b[Len(c)].sampled

\* The block or the memory access goes on with the run.
LEMMA Closing ==
  ASSUME NEW s \in Source, NEW h, NEW g, Run(h, g), NEW k, NEW d, NEW R, Goes(h, g, k, d, R, s),
         NEW kind, NEW n, Closes(h, k, d, R, s, kind, n)
  PROVE  Closed(h, g, k, R, s, kind)
<1>0. /\ Len(k) >= 1 /\ d[Len(k)].sampled /\ kind \in {"blocks", "memory"}
      /\ kind = "blocks" => d[Len(k)].context # NoContext
      /\ n = Len(k) - Len(h) + 1
      /\ R[n] = AppendRow(s, IF kind = "blocks" THEN BlockRow ELSE MemoryRow)
  BY DEF Closes
<1> USE <1>0
<1> DEFINE l == d[Len(k)]
           row == IF kind = "blocks" THEN BlockRow ELSE [kind |-> "memory", context |-> l.context]
<1>1. Run(k, d) /\ Len(k) \in Nat
  BY SMT DEF Goes, Extends, Run
<1>2. l \in Local
  <2>1. Len(k) \in 0 .. Len(k) /\ d \in [0 .. Len(k) -> Local]
    BY <1>1, SMT DEF Run
  <2> QED
    BY <2>1
<1>3. row \in Row /\ row.kind = kind
  BY <1>2 DEF BlockRow, Row, Local
<1>4. Fits(l, row, Len(k) + 1)
  <2>1. Len(k) + 1 # 1
    BY <1>1, SMT
  <2> QED
    BY <1>3, <2>1 DEF Fits
<1>5. Appends(R[n], s, row)
  <2>1. BlockRow \in Row /\ MemoryRow \in Row /\ MemoryRow.kind = "memory"
    BY SMT DEF BlockRow, MemoryRow, Row, NoContext
  <2> QED
    BY <1>3, <2>1, SMT DEF Appends, AppendRow, Match
<1> HIDE DEF row, l
<1>6. PICK c, b : /\ Goes(h, g, c, b, R, s) /\ Len(c) = Len(k) + 1 /\ c[Len(c)] = row
                  /\ b[Len(c)] = Advance(d[Len(k)], row, Len(k) + 1)
  <2>1. k # <<>> /\ row.kind = "address_context" => k[Len(k)].kind # "address_context"
    BY <1>3
  <2>2. Follows(h, g, k, d, R, s, row, n)
    BY <1>3, <1>4, <1>5, <2>1 DEF Follows, l
  <2>3. Further(h, g, k, d, R, s, row)
    BY <2>2, OneMore
  <2> QED
    BY <2>3 DEF Further
<1>7. b[Len(c)].sampled
  <2>1. \A x, z, i : Advance(x, z, i).sampled <=> x.sampled \/ z.kind = "registers"
    BY DEF Advance
  <2> QED
    BY <1>6, <2>1
<1> QED
  BY <1>3, <1>6, <1>7 DEF Closed

\* The calls of emit_context and sample_registers, and the whole plan.
Prefix(C, s, c, r) ==
  /\ C \in Seq(PlanCall) /\ Len(C) = Count(c) + Count(r) /\ Opens(C, s, c, r)
  /\ \A i \in 1 .. Len(C) : C[i].op = "append" /\ C[i].at = s

Suffix(T, s) ==
  /\ T \in Seq(PlanCall) /\ T # <<>> /\ Ordered(T, s)
  /\ T[1].op \in {"append", "flush"} /\ T[1].at = s

Joins(R, C, T) ==
  /\ R \in Seq(PlanCall) /\ R # <<>> /\ Len(R) = Len(C) + Len(T)
  /\ \A i \in 1 .. Len(C) : R[i] = C[i]
  /\ \A i \in 1 .. Len(R) : i > Len(C) => R[i] = T[i - Len(C)]

\* The calls of Changes.
Chosen(C, s, c, r) ==
  C = (IF c THEN <<AppendRow(s, ContextRow)>> ELSE <<>>)
        \o (IF r THEN <<AppendRow(s, RegisterRow(s))>> ELSE <<>>)

\* The rows of Changes may come before any row of a callback.
LEMMA PrefixFact ==
  ASSUME NEW s \in Source, NEW c \in BOOLEAN, NEW r \in BOOLEAN, r => c \/ context[s] # NoContext,
         NEW C, Chosen(C, s, c, r)
  PROVE  Prefix(C, s, c, r)
<1> DEFINE x == AppendRow(s, ContextRow)
           y == AppendRow(s, RegisterRow(s))
<1>1. x \in PlanCall /\ x.op = "append" /\ x.at = s /\ Appends(x, s, ContextRow)
  BY DEF AppendRow, ContextRow, PlanCall, Op, Row, Appends, Match
<1>2. y \in PlanCall /\ y.op = "append" /\ y.at = s /\ Appends(y, s, RegisterRow(s))
  BY DEF AppendRow, RegisterRow, PlanCall, Op, Row, Appends, Match
<1>3. C = (IF c THEN <<x>> ELSE <<>>) \o (IF r THEN <<y>> ELSE <<>>)
  BY DEF Chosen
<1> HIDE DEF x, y
<1>4. /\ C \in Seq(PlanCall) /\ Len(C) = Count(c) + Count(r)
      /\ c => C[1] = x
      /\ r => C[Count(c) + 1] = y
      /\ \A i \in 1 .. Len(C) : C[i] = x \/ C[i] = y
  <2>1. CASE c /\ r
    <3>1. C = <<x>> \o <<y>>
      BY <1>3, <2>1
    <3>4. C \in Seq(PlanCall) /\ Len(C) = 2 /\ C[1] = x /\ C[2] = y
      BY <1>1, <1>2, <3>1, SMT
    <3> QED
      BY <2>1, <3>4, SMT DEF Count
  <2>2. CASE c /\ ~ r
    <3>1. C = <<x>>
      BY <1>1, <1>3, <2>2, SMT
    <3> QED
      BY <1>1, <2>2, <3>1, SMT DEF Count
  <2>3. CASE ~ c /\ r
    <3>1. C = <<y>>
      BY <1>2, <1>3, <2>3, SMT
    <3> QED
      BY <1>2, <2>3, <3>1, SMT DEF Count
  <2>4. CASE ~ c /\ ~ r
    <3>1. C = <<>>
      BY <1>3, <2>4, SMT
    <3>2. 1 .. 0 = {}
      BY SMT
    <3> QED
      BY <2>4, <3>1, <3>2, SMT DEF Count
  <2> QED
    BY <2>1, <2>2, <2>3, <2>4
<1>5. Opens(C, s, c, r)
  BY <1>1, <1>2, <1>4 DEF Opens
<1>6. \A i \in 1 .. Len(C) : C[i].op = "append" /\ C[i].at = s
  BY <1>1, <1>2, <1>4
<1> QED
  BY <1>4, <1>5, <1>6 DEF Prefix

\* The plan as a whole.
Joined(R, C, T, s, c, r) ==
  /\ Joins(R, C, T) /\ Opens(R, s, c, r) /\ Ordered(R, s)
  /\ R[1].op \in {"append", "flush"} /\ R[1].at = s
  /\ Len(C) = Count(c) + Count(r) /\ Len(C) \in 0 .. 2 /\ Len(T) \in Nat \ {0}
  /\ \A i \in 1 .. Len(C) : R[i].op = "append"

\* They and the rest of the calls make the plan of the callback.
LEMMA JoinFact ==
  ASSUME NEW s \in Source, NEW c, NEW r, NEW C, Prefix(C, s, c, r), NEW T, Suffix(T, s),
         NEW R, R = C \o T
  PROVE  Joined(R, C, T, s, c, r)
<1>1. /\ C \in Seq(PlanCall) /\ T \in Seq(PlanCall) /\ T # <<>> /\ Len(C) = Count(c) + Count(r)
      /\ c \in BOOLEAN /\ r \in BOOLEAN
  BY DEF Prefix, Suffix, Opens
<1>2. Len(C) \in 0 .. 2 /\ Len(C) \in Nat /\ Len(T) \in Nat \ {0}
  BY <1>1, SMT DEF Count
<1>3. Joins(R, C, T)
  <2>0. \A A, B \in Seq(PlanCall) :
          LET D == A \o B
          IN  /\ D \in Seq(PlanCall) /\ Len(D) = Len(A) + Len(B)
              /\ \A i \in 1 .. Len(D) : D[i] = IF i <= Len(A) THEN A[i] ELSE B[i - Len(A)]
    BY SMT
  <2>1. /\ R \in Seq(PlanCall) /\ Len(R) = Len(C) + Len(T)
        /\ \A i \in 1 .. Len(R) : R[i] = IF i <= Len(C) THEN C[i] ELSE T[i - Len(C)]
    BY <1>1, <2>0
  <2> QED
    BY <1>2, <2>1, SMT DEF Joins
<1>4. /\ Len(R) = Len(C) + Len(T) /\ (\A i \in 1 .. Len(C) : R[i] = C[i])
      /\ \A i \in 1 .. Len(R) : i > Len(C) => R[i] = T[i - Len(C)]
  BY <1>3 DEF Joins
<1>5. \A i \in 1 .. Len(C) : R[i].op = "append" /\ R[i].at = s
  BY <1>4 DEF Prefix
<1>6. R[Len(C) + 1] = T[1]
  <2>1. Len(C) + 1 \in 1 .. Len(R) /\ Len(C) + 1 > Len(C) /\ (Len(C) + 1) - Len(C) = 1
    BY <1>2, <1>4, SMT
  <2> QED
    BY <1>4, <2>1
<1>7. Opens(R, s, c, r)
  <2>1. c => 1 \in 1 .. Len(C)
    BY <1>1, <1>2, SMT DEF Count
  <2>2. r => Count(c) + 1 \in 1 .. Len(C)
    BY <1>1, <1>2, SMT DEF Count
  <2> QED
    BY <1>4, <2>1, <2>2 DEF Prefix, Opens
<1>8. ASSUME NEW i \in 1 .. Len(R) - 1
      PROVE  Link(R[i], R[i + 1], s)
  <2>1. CASE i < Len(C)
    <3>1. i \in 1 .. Len(C) /\ i + 1 \in 1 .. Len(C)
      BY <1>2, <2>1, SMT
    <3> QED
      BY <1>5, <3>1 DEF Link, Pairs
  <2>2. CASE i = Len(C)
    <3>1. i \in 1 .. Len(C) /\ R[i + 1] = T[1]
      BY <1>2, <1>6, <2>2, SMT
    <3>2. R[i].op = "append" /\ R[i].at = s /\ R[i + 1].op \in {"append", "flush"} /\ R[i + 1].at = s
      BY <1>5, <3>1 DEF Suffix
    <3> QED
      BY <3>2 DEF Link, Pairs
  <2>3. CASE i > Len(C)
    <3> DEFINE j == i - Len(C)
    <3>1. /\ j \in 1 .. Len(T) - 1 /\ i \in 1 .. Len(R) /\ i + 1 \in 1 .. Len(R)
          /\ i + 1 > Len(C) /\ (i + 1) - Len(C) = j + 1
      BY <1>2, <1>4, <2>3, SMT
    <3>2. R[i] = T[j] /\ R[i + 1] = T[j + 1]
      BY <1>4, <2>3, <3>1
    <3> HIDE DEF j
    <3> QED
      BY <3>1, <3>2 DEF Suffix, Ordered
  <2> QED
    BY <1>2, <2>1, <2>2, <2>3, SMT
<1>9. Ordered(R, s)
  BY <1>8 DEF Ordered
<1>10. R[1].op \in {"append", "flush"} /\ R[1].at = s
  <2>1. CASE Len(C) = 0
    <3>0. Len(C) + 1 = 1
      BY <2>1, SMT
    <3>1. R[1] = T[1]
      BY <1>6, <3>0
    <3> QED
      BY <3>1 DEF Suffix
  <2>2. CASE Len(C) # 0
    <3>1. 1 \in 1 .. Len(C)
      BY <1>2, <2>2, SMT
    <3> QED
      BY <1>5, <3>1
  <2> QED
    BY <2>1, <2>2
<1> QED
  BY <1>1, <1>2, <1>3, <1>5, <1>7, <1>9, <1>10 DEF Joined

\* While the world runs and nobody exits, nothing relies on a source being idle.
LEMMA RunningBusy ==
  ASSUME ExclusionInv, NEW s \in Source, Executes(s)
  PROVE  Busy(s)
BY DEF ExclusionInv, StopInv, Executes, Busy

\* A callback that ends in a block or in a memory access.
Hooked(s, c, r, C, kind, T) ==
  /\ Prefix(C, s, c, r) /\ kind \in {"blocks", "memory"} /\ (s \in sampled \/ r)
  /\ kind = "blocks" => c \/ context[s] # NoContext
  /\ T = <<AppendRow(s, IF kind = "blocks" THEN BlockRow ELSE MemoryRow)>>
  /\ Started(s, C \o T)

\* The place m of the row after b rows, which with a others before them are c.
Last(a, b, c, m) ==
  c >= 1 /\ c \in Nat /\ m = c - a + 1 /\ m \in 1 .. m /\ m > b /\ m - b = 1 /\ m \in Nat

\* That place is the next.
LEMMA LastPlace ==
  ASSUME NEW a \in Nat \ {0}, NEW b \in 0 .. 2, NEW c, c = a + b, NEW m, m = b + 1
  PROVE  Last(a, b, c, m)
  BY SMT DEF Last

\* A callback that ends in a block or in a memory access keeps the invariant.
LEMMA RowCallback ==
  ASSUME ExclusionInv, FramesInv, NEW s \in Source, Executes(s), NEW c, NEW r, NEW C, NEW kind, NEW T,
         Hooked(s, c, r, C, kind, T)
  PROVE  FramesInv'
<1>0. /\ Prefix(C, s, c, r) /\ kind \in {"blocks", "memory"} /\ (s \in sampled \/ r)
      /\ kind = "blocks" => c \/ context[s] # NoContext
      /\ T = <<AppendRow(s, IF kind = "blocks" THEN BlockRow ELSE MemoryRow)>>
      /\ Started(s, C \o T)
  BY DEF Hooked
<1> DEFINE x == AppendRow(s, IF kind = "blocks" THEN BlockRow ELSE MemoryRow)
<1>1. x \in PlanCall /\ x.op = "append" /\ x.at = s
  BY <1>0, SMT DEF AppendRow, BlockRow, MemoryRow, PlanCall, Op, Row, NoContext
<1>2. T = <<x>>
  BY <1>0
<1> HIDE DEF x
<1>3. T \in Seq(PlanCall) /\ Len(T) = 1 /\ T[1] = x
  BY <1>1, <1>2, SMT
<1>4. Suffix(T, s)
  <2>1. 1 .. Len(T) - 1 = {} /\ T # <<>>
    BY <1>3, SMT
  <2> QED
    BY <1>1, <1>3, <2>1 DEF Suffix, Ordered
<1> DEFINE R == C \o T
<1>6. Started(s, R) /\ R = C \o T
  BY <1>0
<1> HIDE DEF R
<1>5. /\ Joins(R, C, T) /\ Opens(R, s, c, r) /\ Ordered(R, s)
      /\ R[1].op \in {"append", "flush"} /\ R[1].at = s
      /\ Len(C) = Count(c) + Count(r) /\ Len(C) \in 0 .. 2
      /\ \A i \in 1 .. Len(C) : R[i].op = "append"
  <2>1. Prefix(C, s, c, r) /\ Suffix(T, s) /\ R = C \o T
    BY <1>0, <1>4, <1>6
  <2>2. Joined(R, C, T, s, c, r)
    BY <2>1, JoinFact
  <2> QED
    BY <2>2 DEF Joined
<1>7. PICK h, g, e : Captured(s, h, g, e)
  BY DEF FramesInv
<1>8. plan[s] = <<>> /\ state[s] = "active"
  BY DEF Executes
<1>a. Idle(s, h, g, e)
  BY <1>7, <1>8, IdleFact
<1>9. /\ Run(h, g) /\ Len(h) \in Nat \ {0} /\ e = Len(h)
      /\ h # <<>> /\ h[Len(h)].kind # "address_context"
      /\ context[s] = g[Len(h)].context /\ (s \in sampled <=> g[Len(h)].sampled)
  BY <1>8, <1>a DEF Idle
<1>10. PICK k, d : /\ Goes(h, g, k, d, R, s)
                   /\ Len(k) = Len(h) + (Count(c) + Count(r)) /\ Len(k) \in Nat
                   /\ d[Len(k)].sampled <=> (s \in sampled \/ r)
                   /\ c \/ context[s] # NoContext => d[Len(k)].context # NoContext
  <2>1. Opened(h, g, R, s, c, r)
    BY <1>5, <1>8, <1>a, Opening
  <2> QED
    BY <2>1 DEF Opened
<1> DEFINE n == Len(C) + 1
<1>11. n = Len(C) + 1
  OBVIOUS
<1> HIDE DEF n
<1>12. /\ Len(k) >= 1 /\ n = Len(k) - Len(h) + 1 /\ Len(k) \in Nat
       /\ n \in 1 .. Len(R) /\ n > Len(C) /\ n - Len(C) = 1 /\ Len(R) = n /\ Len(R) \in Nat
  <2>1. Len(R) = n
    BY <1>3, <1>5, <1>11 DEF Joins
  <2>2. Len(C) \in 0 .. 2 /\ Len(k) = Len(h) + Len(C)
    BY <1>5, <1>10
  <2>3. Last(Len(h), Len(C), Len(k), n)
    BY <1>9, <1>11, <2>2, LastPlace
  <2> QED
    BY <2>1, <2>3 DEF Last
<1>13. R[n] = x
  BY <1>3, <1>5, <1>12 DEF Joins
<1>14. PICK a, b : /\ Goes(h, g, a, b, R, s) /\ Len(a) = Len(k) + 1 /\ a[Len(a)].kind = kind
                   /\ b[Len(a)].sampled
  <2>1. d[Len(k)].sampled /\ (kind = "blocks" => d[Len(k)].context # NoContext)
    BY <1>0, <1>10
  <2>2. R[n] = AppendRow(s, IF kind = "blocks" THEN BlockRow ELSE MemoryRow)
    BY <1>13 DEF x
  <2> QED
    <3>1. Closes(h, k, d, R, s, kind, n)
      BY <1>0, <1>12, <2>1, <2>2 DEF Closes
    <3>2. Closed(h, g, k, R, s, kind)
      BY <1>9, <1>10, <3>1, Closing
    <3> QED
      BY <3>2 DEF Closed
<1>15. Extends(h, g, a, b)
  BY <1>14 DEF Goes
<1>16. R \in Seq(PlanCall) /\ R # <<>> /\ R[1].op = "append"
  <2>1. CASE Len(C) = 0
    <3>1. 0 + 1 = 1
      BY SMT
    <3>2. R[1] = x
      BY <1>11, <1>13, <2>1, <3>1
    <3> QED
      BY <1>1, <1>5, <3>2 DEF Joins
  <2>2. CASE Len(C) # 0
    <3>1. 1 \in 1 .. Len(C)
      BY <1>5, <2>2, SmallFact
    <3> QED
      BY <1>5, <3>1 DEF Joins
  <2> QED
    BY <2>1, <2>2
<1>17. Len(a) - Len(h) = Len(R)
  BY <1>9, <1>12, <1>14, SMT
<1>18. PlanRows(R, s, a, e)
  <2>1. Len(a) - Len(h) <= Len(R) /\ \A i \in 1 .. Len(R) : i <= Len(a) - Len(h)
    BY <1>12, <1>17, SMT
  <2>2. R[1].op # "count" /\ R[1].op # "flush"
    BY <1>16
  <2>3. PlanRows(R, s, a, Len(h))
    BY <1>9, <1>14, <1>16, <2>1, <2>2, PlanStarts
  <2> QED
    BY <1>9, <2>3
<1>19. Begins(s, R, a, b, e)
  <2>1. a # <<>>
    BY <1>12, <1>14, SMT
  <2>2. a[Len(a)].kind # "address_context"
    BY <1>0, <1>14
  <2> QED
    BY <1>0, <1>5, <1>14, <1>16, <1>18, <2>1, <2>2 DEF Begins
<1>20. Busy(s)
  BY RunningBusy
<1>21. Takes(s, h, g, e, a, b, R)
  BY <1>6, <1>7, <1>15, <1>19 DEF Takes
<1> QED
  BY <1>8, <1>20, <1>21, CallbackStarts

\* on_execute.
LEMMA BlockFrames ==
  ASSUME ExclusionInv, FramesInv, NEW s \in Source, BlockEntry(s), mode' = mode
  PROVE  FramesInv'
<1>1. PICK p, q \in BOOLEAN : plan' = [plan EXCEPT ![s] = Changes(s, p, q) \o <<AppendRow(s, BlockRow)>>]
  BY DEF BlockEntry
<1> DEFINE c == p \/ context[s] = NoContext
           r == q \/ s \notin sampled
           C == (IF c THEN <<AppendRow(s, ContextRow)>> ELSE <<>>)
                  \o (IF r THEN <<AppendRow(s, RegisterRow(s))>> ELSE <<>>)
           kind == "blocks"
           T == <<AppendRow(s, IF kind = "blocks" THEN BlockRow ELSE MemoryRow)>>
<1>2. Changes(s, p, q) = C
  BY DEF Changes
<1>3. Prefix(C, s, c, r)
  <2>1. c \in BOOLEAN /\ r \in BOOLEAN /\ (r => c \/ context[s] # NoContext)
    OBVIOUS
  <2>2. Chosen(C, s, c, r)
    BY DEF Chosen
  <2> HIDE DEF c, r, C
  <2> QED
    BY <2>1, <2>2, PrefixFact
<1>4. s \in sampled \/ r
  OBVIOUS
<1>5. kind = "blocks" => c \/ context[s] # NoContext
  OBVIOUS
<1>6. T = <<AppendRow(s, BlockRow)>>
  OBVIOUS
<1>7. kind \in {"blocks", "memory"} /\ T = <<AppendRow(s, IF kind = "blocks" THEN BlockRow ELSE MemoryRow)>>
  OBVIOUS
<1> HIDE DEF c, r, C, kind, T
<1>8. plan' = [plan EXCEPT ![s] = C \o T]
  BY <1>1, <1>2, <1>6
<1>9. Executes(s)
  BY DEF BlockEntry
<1>10. Started(s, C \o T)
  <2>1. state' = [state EXCEPT ![s] = "active"] /\ state[s] = "active"
    BY DEF BlockEntry, Executes, FramesInv, TypeInv
  <2> QED
    BY <1>8, <2>1 DEF Started, BlockEntry
<1>11. Hooked(s, c, r, C, kind, T)
  BY <1>3, <1>4, <1>5, <1>7, <1>10 DEF Hooked
<1> QED
  BY <1>9, <1>11, RowCallback

\* on_memory.
LEMMA MemoryFrames ==
  ASSUME ExclusionInv, FramesInv, NEW s \in Source, MemoryAccess(s), mode' = mode
  PROVE  FramesInv'
<1>1. PICK c \in BOOLEAN :
        plan' = [plan EXCEPT ![s] = (IF c THEN <<AppendRow(s, ContextRow)>> ELSE <<>>)
                                      \o <<AppendRow(s, MemoryRow)>>]
  BY DEF MemoryAccess
<1> DEFINE C == IF c THEN <<AppendRow(s, ContextRow)>> ELSE <<>>
           kind == "memory"
           T == <<AppendRow(s, IF kind = "blocks" THEN BlockRow ELSE MemoryRow)>>
<1>2. /\ plan' = [plan EXCEPT ![s] = C \o T] /\ kind \in {"blocks", "memory"} /\ kind # "blocks"
      /\ T = <<AppendRow(s, IF kind = "blocks" THEN BlockRow ELSE MemoryRow)>>
  BY <1>1
<1>3. Prefix(C, s, c, FALSE)
  <2> DEFINE x == AppendRow(s, ContextRow)
  <2>1. x \in PlanCall /\ x.op = "append" /\ x.at = s /\ Appends(x, s, ContextRow)
    BY DEF AppendRow, ContextRow, PlanCall, Op, Row, Appends, Match
  <2> HIDE DEF x
  <2>2. CASE c
    <3>1. C = <<x>>
      BY <2>2 DEF x
    <3>2. C \in Seq(PlanCall) /\ Len(C) = 1 /\ C[1] = x /\ \A i \in 1 .. Len(C) : C[i] = x
      BY <2>1, <3>1, SMT
    <3> HIDE DEF C
    <3> QED
      BY <2>1, <2>2, <3>2, SMT DEF Prefix, Opens, Count
  <2>3. CASE ~ c
    <3>1. C = <<>> /\ 1 .. 0 = {}
      BY <2>3, SMT
    <3> HIDE DEF C
    <3> QED
      BY <2>3, <3>1, SMT DEF Prefix, Opens, Count
  <2> QED
    BY <2>2, <2>3
<1> HIDE DEF C, kind, T
<1>4. Executes(s) /\ s \in recording
  BY DEF MemoryAccess
<1>5. s \in sampled
  <2>1. PICK h, g, e : Captured(s, h, g, e)
    BY DEF FramesInv
  <2>2. plan[s] = <<>>
    BY <1>4 DEF Executes
  <2>3. e = Len(h) /\ (s \in sampled <=> g[e].sampled)
    <3>1. Idle(s, h, g, e)
      BY <2>1, <2>2, IdleFact
    <3> QED
      BY <3>1 DEF Idle
  <2> QED
    BY <1>4, <2>1, <2>3 DEF Captured, RowsInv
<1>6. Started(s, C \o T)
  <2>1. state' = [state EXCEPT ![s] = "active"] /\ state[s] = "active"
    BY <1>4 DEF MemoryAccess, sourceVars, Executes, FramesInv, TypeInv
  <2> QED
    BY <1>2, <2>1 DEF Started, MemoryAccess, sourceVars
<1>7. Hooked(s, c, FALSE, C, kind, T)
  BY <1>2, <1>3, <1>5, <1>6 DEF Hooked
<1> QED
  BY <1>4, <1>7, RowCallback

\* on_idle.
LEMMA IdleFrames ==
  ASSUME ExclusionInv, FramesInv, NEW s \in Source, SourceIdle(s), mode' = mode
  PROVE  FramesInv'
<1> DEFINE R == <<Call("flush", s), Call("unlock", s)>>
<1>1. /\ R \in Seq(PlanCall) /\ Len(R) = 2 /\ R # <<>>
      /\ R[1].op = "flush" /\ R[1].at = s /\ R[2].op = "unlock" /\ R[2].at = s
  BY SMT DEF Call, PlanCall, Op
<1>2. plan' = [plan EXCEPT ![s] = R]
  BY DEF SourceIdle
<1> HIDE DEF R
<1>3. plan[s] = <<>> /\ state[s] = "active" /\ buffer[s] # <<>>
  BY DEF SourceIdle, Cold
<1>4. Busy(s)
  <2>1. PassInv(s)
    BY DEF FramesInv
  <2> QED
    BY <1>3, <2>1 DEF PassInv, Busy
<1>5. Started(s, R)
  <2>1. state' = [state EXCEPT ![s] = "active"]
    BY <1>3 DEF SourceIdle, sourceVars, FramesInv, TypeInv
  <2> QED
    BY <1>2, <1>3, <2>1 DEF Started, SourceIdle, sourceVars
<1>6. PICK h, g, e : Captured(s, h, g, e)
  BY DEF FramesInv
<1>7. Run(h, g) /\ Len(h) \in Nat /\ e = Len(h) /\ h # <<>> /\ h[Len(h)].kind # "address_context"
  <2>1. Idle(s, h, g, e)
    BY <1>3, <1>6, IdleFact
  <2> QED
    BY <1>3, <2>1 DEF Idle
<1>8. Extends(h, g, h, g) /\ Goes(h, g, h, g, R, s)
  <2>1. 1 .. Len(h) - Len(h) = {}
    BY <1>7, SMT
  <2> QED
    BY <1>7, <2>1, SMT DEF Extends, Goes
<1>9. PlanRows(R, s, h, e)
  <2>1. \A i \in 1 .. Len(R) : R[i].op # "append"
    <3>1. \A i \in 1 .. Len(R) : i = 1 \/ i = 2
      BY <1>1, SMT
    <3> QED
      BY <1>1, <3>1
  <2>2. Len(h) - Len(h) <= Len(R)
    BY <1>1, <1>7, SMT
  <2>3. PlanRows(R, s, h, Len(h))
    BY <1>1, <1>7, <1>8, <2>1, <2>2, PlanStarts
  <2> QED
    BY <1>7, <2>3
<1>10. Ordered(R, s)
  <2>1. s # Control /\ s # Main
    BY SourceFact
  <2>2. \A i \in 1 .. Len(R) - 1 : i = 1 /\ i + 1 = 2
    BY <1>1, SMT
  <2>3. Link(R[1], R[2], s)
    BY <1>1, <2>1 DEF Link, Pairs
  <2> QED
    BY <2>2, <2>3 DEF Ordered
<1>11. Len(h) >= 2 \/ s \in recording' => g[Len(h)].sampled
  BY <1>6 DEF SourceIdle, sourceVars, Captured, RowsInv
<1>12. Begins(s, R, h, g, e)
  BY <1>1, <1>7, <1>9, <1>10, <1>11 DEF Begins
<1>13. Takes(s, h, g, e, h, g, R)
  BY <1>5, <1>6, <1>8, <1>12 DEF Takes
<1> QED
  BY <1>3, <1>4, <1>13, CallbackStarts

\* on_vcpu_exit.
LEMMA SourceEndFrames ==
  ASSUME ExclusionInv, FramesInv, NEW s \in Source, SourceEnd(s), mode' = mode
  PROVE  FramesInv'
<1> DEFINE T == <<Call("flush", s), Call("wait", s), Call("end", s), Call("unlock", s)>>
<1>1. PICK p, q \in BOOLEAN : plan' = [plan EXCEPT ![s] = Changes(s, p, q) \o T]
  BY DEF SourceEnd
<1> DEFINE c == p \/ context[s] = NoContext
           r == q \/ s \notin sampled
           C == (IF c THEN <<AppendRow(s, ContextRow)>> ELSE <<>>)
                  \o (IF r THEN <<AppendRow(s, RegisterRow(s))>> ELSE <<>>)
<1>2. Changes(s, p, q) = C
  BY DEF Changes
<1>3. Prefix(C, s, c, r)
  <2>1. c \in BOOLEAN /\ r \in BOOLEAN /\ (r => c \/ context[s] # NoContext)
    OBVIOUS
  <2>2. Chosen(C, s, c, r)
    BY DEF Chosen
  <2> HIDE DEF c, r, C
  <2> QED
    BY <2>1, <2>2, PrefixFact
<1>4. s \in sampled \/ r
  OBVIOUS
<1>5. T \in Seq(PlanCall) /\ T # <<>> /\ Len(T) = 4
  BY SMT DEF Call, PlanCall, Op
<1>6. /\ T[1].op = "flush" /\ T[2].op = "wait" /\ T[3].op = "end" /\ T[4].op = "unlock"
      /\ T[1].at = s /\ T[2].at = s /\ T[3].at = s /\ T[4].at = s
  BY DEF Call
<1> HIDE DEF c, r, C, T
<1>7. Suffix(T, s)
  <2>1. s # Control /\ s # Main
    BY SourceFact
  <2>2. \A i \in 1 .. Len(T) - 1 : (i = 1 /\ i + 1 = 2) \/ (i = 2 /\ i + 1 = 3) \/ (i = 3 /\ i + 1 = 4)
    BY <1>5, SMT
  <2>3. Link(T[1], T[2], s) /\ Link(T[2], T[3], s) /\ Link(T[3], T[4], s)
    BY <1>6, <2>1 DEF Link, Pairs
  <2>4. Ordered(T, s)
    BY <2>2, <2>3 DEF Ordered
  <2> QED
    BY <1>5, <1>6, <2>4 DEF Suffix
<1> DEFINE R == C \o T
<1>8. R = C \o T /\ plan' = [plan EXCEPT ![s] = R]
  BY <1>1, <1>2
<1> HIDE DEF R
<1>9. Joined(R, C, T, s, c, r)
  BY <1>3, <1>7, <1>8, JoinFact
<1>10. /\ Joins(R, C, T) /\ Opens(R, s, c, r) /\ Ordered(R, s)
       /\ R[1].op \in {"append", "flush"} /\ R[1].at = s
       /\ Len(C) = Count(c) + Count(r) /\ Len(C) \in 0 .. 2
       /\ \A i \in 1 .. Len(C) : R[i].op = "append"
  BY <1>9 DEF Joined
<1>11. /\ R \in Seq(PlanCall) /\ R # <<>> /\ Len(R) = Len(C) + 4
       /\ \A i \in 1 .. Len(R) : i > Len(C) => R[i] = T[i - Len(C)]
  BY <1>5, <1>10 DEF Joins
<1>12. Executes(s)
  BY DEF SourceEnd
<1>13. plan[s] = <<>> /\ state[s] = "active"
  BY <1>12 DEF Executes
<1>14. Busy(s)
  BY <1>12, RunningBusy
<1>15. Started(s, R)
  <2>1. state' = [state EXCEPT ![s] = "active"]
    BY <1>13 DEF SourceEnd, sourceVars, FramesInv, TypeInv
  <2> QED
    BY <1>8, <1>13, <2>1 DEF Started, SourceEnd, sourceVars
<1>16. PICK h, g, e : Captured(s, h, g, e)
  BY DEF FramesInv
<1>a. Idle(s, h, g, e)
  BY <1>13, <1>16, IdleFact
<1>17. /\ Run(h, g) /\ Len(h) \in Nat \ {0} /\ e = Len(h)
       /\ h # <<>> /\ h[Len(h)].kind # "address_context"
       /\ context[s] = g[Len(h)].context /\ (s \in sampled <=> g[Len(h)].sampled)
  BY <1>13, <1>a DEF Idle
<1>18. PICK k, d : /\ Goes(h, g, k, d, R, s)
                   /\ Len(k) = Len(h) + (Count(c) + Count(r)) /\ Len(k) \in Nat
                   /\ d[Len(k)].sampled <=> (s \in sampled \/ r)
  <2>1. Opened(h, g, R, s, c, r)
    BY <1>10, <1>13, <1>a, Opening
  <2> QED
    BY <2>1 DEF Opened
<1>19. Extends(h, g, k, d)
  BY <1>18 DEF Goes
<1>21. Len(k) - Len(h) = Len(C) /\ Len(k) \in Nat \ {0} /\ Len(C) \in Nat
  <2>1. Len(C) \in 0 .. 2 /\ Len(k) = Len(h) + Len(C)
    BY <1>10, <1>18
  <2> QED
    BY <1>17, <2>1, SMT
<1>22. ASSUME NEW i \in 1 .. Len(R), i > Len(C)
       PROVE  R[i].op # "append"
  <2>1. R[i] = T[i - Len(C)]
    BY <1>11, <1>22
  <2>2. i - Len(C) \in 1 .. 4
    BY <1>11, <1>21, <1>22, SMT
  <2>3. \A j \in 1 .. 4 : j = 1 \/ j = 2 \/ j = 3 \/ j = 4
    BY SMT
  <2>4. \A j \in 1 .. 4 : T[j].op # "append"
    BY <1>6, <2>3
  <2> QED
    BY <2>1, <2>2, <2>4
<1>23. PlanRows(R, s, k, e)
  <2>1. Len(k) - Len(h) <= Len(R)
    BY <1>11, <1>21, SMT
  <2>2. \A i \in 1 .. Len(R) : R[i].op = "append" => i <= Len(k) - Len(h)
    BY <1>11, <1>21, <1>22, SMT
  <2>3. R[1].op = "flush" => Len(k) = Len(h)
    <3>1. Len(C) # 0 => 1 \in 1 .. Len(C)
      BY <1>21, SMT
    <3>2. Len(C) # 0 => R[1].op = "append"
      BY <1>10, <3>1
    <3> QED
      BY <1>17, <1>21, <3>2, SMT
  <2>4. R[1].op # "count"
    BY <1>10
  <2>5. PlanRows(R, s, k, Len(h))
    BY <1>11, <1>17, <1>18, <2>1, <2>2, <2>3, <2>4, PlanStarts
  <2> QED
    BY <1>17, <2>5
<1>24. \E i \in DOMAIN R : R[i].op = "end"
  <2>1. Len(C) + 3 \in 1 .. Len(R) /\ Len(C) + 3 > Len(C) /\ (Len(C) + 3) - Len(C) = 3
    BY <1>11, <1>21, SMT
  <2>2. R[Len(C) + 3] = T[3]
    BY <1>11, <2>1
  <2>3. DOMAIN R = 1 .. Len(R)
    BY <1>11, SMT
  <2> QED
    BY <1>6, <2>1, <2>2, <2>3
<1>25. Begins(s, R, k, d, e)
  <2>1. k # <<>>
    BY <1>21, SMT
  <2>2. d[Len(k)].sampled
    BY <1>4, <1>18
  <2> QED
    BY <1>10, <1>11, <1>23, <1>24, <2>1, <2>2 DEF Begins
<1>26. Takes(s, h, g, e, k, d, R)
  BY <1>15, <1>16, <1>19, <1>25 DEF Takes
<1> QED
  BY <1>13, <1>14, <1>26, CallbackStarts

\* on_vcpu_init.
LEMMA StartFrames ==
  ASSUME ExclusionInv, FramesInv, NEW s \in Source, SourceStart(s), mode' = mode
  PROVE  FramesInv'
<1> DEFINE row == [kind |-> "register_schema"]
           R == <<AppendRow(s, row), Call("flush", s), Call("unlock", s)>>
<1>0. row \in Row /\ row.kind = "register_schema"
  BY DEF Row
<1>1. /\ R \in Seq(PlanCall) /\ Len(R) = 3 /\ R # <<>>
      /\ R[1].op = "append" /\ R[1].at = s /\ Appends(R[1], s, row)
      /\ R[2].op = "flush" /\ R[2].at = s /\ R[3].op = "unlock" /\ R[3].at = s
  BY <1>0, SMT DEF AppendRow, Call, PlanCall, Op, Appends, Match
<1>2. plan' = [plan EXCEPT ![s] = R]
  BY DEF SourceStart
<1> HIDE DEF R, row
<1>3. plan[s] = <<>> /\ state[s] = "unused" /\ finishing = "no"
  BY DEF SourceStart, Cold
<1>4. Busy(s)
  <2>1. PassInv(s)
    BY DEF FramesInv
  <2> QED
    BY <1>3, <2>1 DEF PassInv, Busy
<1>5. Started(s, R)
  BY <1>2, <1>3 DEF Started, SourceStart
<1>6. PICK h, g, e : Captured(s, h, g, e)
  BY DEF FramesInv
<1>7. Run(h, g) /\ e = Len(h) /\ h = <<>>
  <2>1. Idle(s, h, g, e)
    BY <1>3, <1>6, IdleFact
  <2> QED
    BY <1>3, <2>1 DEF Idle
<1>8. /\ Len(h) = 0 /\ g[Len(h)] = [context |-> NoContext, sampled |-> FALSE]
      /\ 1 .. Len(h) - Len(h) = {} /\ 1 = Len(h) - Len(h) + 1 /\ Len(h) + 1 = 1
  <2>1. Len(h) = 0
    BY <1>7
  <2> QED
    BY <1>7, <2>1, SMT DEF Run
<1>9. Goes(h, g, h, g, R, s)
  BY <1>7, <1>8, SMT DEF Extends, Goes
<1>10. Fits(g[Len(h)], row, Len(h) + 1)
  BY <1>0, <1>8 DEF Fits
<1>11. PICK k, d : /\ Goes(h, g, k, d, R, s) /\ Len(k) = Len(h) + 1 /\ k[Len(k)] = row
  <2>1. 1 = Len(h) - Len(h) + 1 /\ Appends(R[1], s, row)
    BY <1>1, <1>8
  <2>2. h # <<>> /\ row.kind = "address_context" => h[Len(h)].kind # "address_context"
    BY <1>7
  <2>3. Run(h, g) /\ row \in Row
    BY <1>0, <1>7
  <2>4. Follows(h, g, h, g, R, s, row, 1)
    BY <1>9, <1>10, <2>1, <2>2, <2>3 DEF Follows
  <2>5. Further(h, g, h, g, R, s, row)
    BY <2>4, OneMore
  <2> QED
    BY <2>5 DEF Further
<1>12. Extends(h, g, k, d)
  BY <1>11 DEF Goes
<1>13. Len(k) = 1 /\ Len(k) - Len(h) = 1 /\ k # <<>>
  <2>1. Len(k) = 1
    BY <1>8, <1>11
  <2> QED
    BY <1>8, <2>1, SMT
<1>14. \A i \in 1 .. Len(R) : i = 1 \/ i = 2 \/ i = 3
  BY <1>1, SMT
<1>15. PlanRows(R, s, k, e)
  <2>1. \A i \in 1 .. Len(R) : R[i].op = "append" => i <= Len(k) - Len(h)
    BY <1>1, <1>13, <1>14, SMT
  <2>2. Len(k) - Len(h) <= Len(R) /\ R[1].op # "count" /\ R[1].op # "flush"
    BY <1>1, <1>13, SMT
  <2>3. PlanRows(R, s, k, Len(h))
    BY <1>1, <1>7, <1>11, <2>1, <2>2, PlanStarts
  <2> QED
    BY <1>7, <2>3
<1>16. Ordered(R, s)
  <2>1. s # Control /\ s # Main
    BY SourceFact
  <2>2. \A i \in 1 .. Len(R) - 1 : (i = 1 /\ i + 1 = 2) \/ (i = 2 /\ i + 1 = 3)
    BY <1>1, SMT
  <2>3. Link(R[1], R[2], s) /\ Link(R[2], R[3], s)
    BY <1>1, <2>1 DEF Link, Pairs
  <2> QED
    BY <2>2, <2>3 DEF Ordered
<1>17. s \notin recording
  <2>1. RowsInv(s, h, g)
    BY <1>6 DEF Captured
  <2> QED
    BY <1>8, <2>1, SMT DEF RowsInv
<1>18. Begins(s, R, k, d, e)
  <2>1. ~ (Len(k) >= 2 \/ s \in recording')
    BY <1>13, <1>17, SMT DEF SourceStart
  <2>2. k[Len(k)].kind # "address_context"
    BY <1>0, <1>11
  <2> QED
    BY <1>1, <1>13, <1>15, <1>16, <2>1, <2>2 DEF Begins
<1>19. Takes(s, h, g, e, k, d, R)
  BY <1>5, <1>6, <1>12, <1>18 DEF Takes
<1> QED
  BY <1>3, <1>4, <1>19, CallbackStarts
=============================================================================
