-------------------------- MODULE CaptureExclusion --------------------------
(***************************************************************************)
(* At most one thread is inside a source's buffer, for every number of     *)
(* vCPUs, every ring, every frame size and every way to start the plugin.  *)
(* Execution callbacks take no lock; the proof joins the cold mutexes, the *)
(* stopped world and the order of the exit handler.  The steps outside the *)
(* callbacks that leave the rows of the sources alone come last: they keep *)
(* the invariant behind the frames too.                                    *)
(***************************************************************************)
EXTENDS CaptureCalls

\* A step is a matter of logic, unless it cites SMT for arithmetic or sequences.
USE ZenonT(30)

-----------------------------------------------------------------------------
(* Plans. *)

\* Places move with the calls in front of them.
LEMMA Moved ==
  ASSUME NEW i \in Int, NEW j \in Int, NEW k \in Int, NEW m \in Int, NEW n \in Int,
         k + n - 1 <= j, j <= i - 1, m - 1 = i - n
  PROVE  j - n + 1 \in k .. m - 1
  BY SMT

\* A call that takes or releases no mutex, and that its thread replaces by other
\* such calls on the same source.
LEMMA Works ==
  ASSUME ExclusionInv, NEW t \in Thread, plan[t] # <<>>, Head(plan[t]).op \in Inner,
         NEW Q \in Seq(PlanCall),
         \A i \in DOMAIN Q : Q[i].at = Head(plan[t]).at /\ Q[i].op \in Inner,
         Head(plan[t]).op \in Free => \A i \in DOMAIN Q : Q[i].op \in Free,
         plan' = [plan EXCEPT ![t] = Q \o Tail(@)], lock' = lock,
         UNCHANGED controlVars, finishing' = finishing
  PROVE  ExclusionInv'
<1> DEFINE P == plan[t]
           R == Q \o Tail(P)
           n == Len(Q)
<1>1. plan \in [Thread -> Seq(PlanCall)] /\ P \in Seq(PlanCall)
  BY DEF ExclusionInv, ExclusionType
<1>2. /\ R \in Seq(PlanCall) /\ Len(P) \in Nat \ {0} /\ n \in Nat
      /\ Len(R) = n + Len(P) - 1 /\ DOMAIN R = 1 .. Len(R) /\ DOMAIN P = 1 .. Len(P)
      /\ DOMAIN Q = 1 .. n /\ Head(P) = P[1] /\ P[1] \in PlanCall
      /\ \A i \in 1 .. n : R[i] = Q[i]
      /\ \A i \in 1 .. Len(R) : i > n => R[i] = P[i - n + 1]
      /\ R # <<>> <=> Len(R) > 0
  BY <1>1, PlanFact
<1>3. plan'[t] = R /\ \A u \in Thread : u # t => plan'[u] = plan[u]
  BY <1>1
<1>4. plan' \in [Thread -> Seq(PlanCall)]
  BY <1>1, <1>2
<1>5. P # <<>> /\ P[1].op \in Inner
      /\ (\A i \in 1 .. n : Q[i].at = P[1].at /\ Q[i].op \in Inner)
      /\ (P[1].op \in Free => \A i \in 1 .. n : Q[i].op \in Free)
  BY <1>2
<1>6. n \in Nat /\ Len(P) \in Nat \ {0} /\ Len(R) \in Nat /\ Len(R) = n + Len(P) - 1
  BY <1>2, SMT
<1>a. ASSUME NEW i \in 1 .. Len(R), i > n
      PROVE  i - n + 1 \in 2 .. Len(P) /\ R[i] = P[i - n + 1]
  BY <1>2, <1>a, SMTT(30)
<1>b. ASSUME NEW i \in 1 .. Len(R), i <= n
      PROVE  /\ R[i].at = P[1].at /\ R[i].op \in Inner
             /\ P[1].op \in Free => R[i].op \in Free
  BY <1>2, <1>5, <1>b, SMT
<1> HIDE DEF P, R, n
<1>7. ASSUME NEW s \in Source
      PROVE  CpuInv(s)'
  <2>1. CpuInv(s) /\ world' = world /\ finishing' = finishing /\ lock'[s] = lock[s]
    BY <1>7 DEF ExclusionInv, controlVars
  <2>2. CASE s # t
    BY <2>1, <2>2, <1>3, SourceFact DEF CpuInv
  <2>3. CASE s = t
    <3>1. plan[s] = P /\ plan'[s] = R
      BY <1>3, <2>3 DEF P
    <3>2. lock[s] = s => Len(P) > 1 /\ P[Len(P)].op = "unlock" /\ Len(R) > n
                         /\ R[Len(R)] = P[Len(P)]
      BY <3>1, <2>1, <1>2, <1>5, SMTT(30) DEF CpuInv, Inner
    <3>3. \A i \in 1 .. Len(R) :
            /\ R[i].at = s /\ R[i].op # "lock"
            /\ R[i].op = "unlock" => i = Len(R) /\ lock[s] = s
      <4> SUFFICES ASSUME NEW i \in 1 .. Len(R)
                   PROVE  /\ R[i].at = s /\ R[i].op # "lock"
                          /\ R[i].op = "unlock" => i = Len(R) /\ lock[s] = s
        OBVIOUS
      <4>1. \A j \in 1 .. Len(P) : /\ P[j].at = s /\ P[j].op # "lock"
                                   /\ P[j].op = "unlock" => j = Len(P) /\ lock[s] = s
        BY <3>1, <2>1, <1>2 DEF CpuInv
      <4>2. CASE i > n
        <5> DEFINE m == i - n + 1
        <5>1. m \in 1 .. Len(P) /\ R[i] = P[m] /\ (m = Len(P) => i = Len(R))
          BY <4>2, <1>a, <1>6, SMT
        <5> HIDE DEF m
        <5> QED
          BY <4>1, <5>1
      <4>3. CASE i <= n
        BY <4>1, <4>3, <1>b, <1>6, SMT DEF Inner
      <4> QED
        BY <4>2, <4>3, <1>6, SMT
    <3>4. lock[s] # s /\ P # <<>> => \A i \in 1 .. Len(R) : R[i].op \in Free
      <4> SUFFICES ASSUME lock[s] # s, P # <<>>, NEW i \in 1 .. Len(R)
                   PROVE  R[i].op \in Free
        OBVIOUS
      <4>1. \A j \in 1 .. Len(P) : P[j].op \in Free
        BY <3>1, <2>1, <1>2 DEF CpuInv
      <4>2. CASE i > n
        BY <4>1, <4>2, <1>a, <1>6, SMTT(30)
      <4>3. CASE i <= n
        BY <4>1, <4>3, <1>b, <1>6, SMT
      <4> QED
        BY <4>2, <4>3, <1>6, SMT
    <3>5. DOMAIN R = 1 .. Len(R) /\ (lock[s] = s => R # <<>>) /\ P # <<>>
      BY <3>2, <1>2, <1>5, SMT
    <3>6. plan[s] # <<>> /\ lock[s] # s => world = "running" /\ finishing = "no"
      BY <2>1 DEF CpuInv
    <3> QED
      BY <3>1, <3>2, <3>3, <3>4, <3>5, <3>6, <2>1 DEF CpuInv
  <2> QED
    BY <2>2, <2>3
<1>8. ASSUME NEW u \in {Control, Main}
      PROVE  Guarded(u)'
  <2>1. Guarded(u) /\ u \in Thread
    BY <1>8, SourceFact DEF ExclusionInv
  <2>2. CASE u # t
    BY <2>1, <2>2, <1>3, SMT DEF Guarded, Covered, Locks, Unlocks
  <2>3. CASE u = t
    <3>1. plan[u] = P /\ plan'[u] = R
      BY <1>3, <2>3 DEF P
    <3> SUFFICES ASSUME NEW i \in 1 .. Len(R), R[i].op # "lock"
                 PROVE  Covered(u, i)'
      BY <3>1, <1>2 DEF Guarded
    <3> DEFINE s == R[i].at
    <3>2. lock[P[1].at] = u
      <4>1. Covered(u, 1)
        <5>1. 1 \in DOMAIN P /\ P[1].op # "lock"
          BY <1>2, <1>5, SMTT(30) DEF Inner
        <5> QED
          BY <5>1, <3>1, <2>1 DEF Guarded
      <4> QED
        BY <4>1, <3>1, SMT DEF Covered
    <3>3. CASE i <= n
      <4>1. s = P[1].at
        BY <3>3, <1>b
      <4>2. \A j \in 1 .. i - 1 : R[j].op # "unlock"
        BY <3>3, <1>b, <1>6, SMT DEF Inner
      <4>3. lock'[plan'[u][i].at] = u
        BY <4>1, <3>1, <3>2
      <4>4. \A j \in 1 .. i - 1 : plan'[u][j].op # "unlock"
        BY <4>2, <3>1
      <4> QED
        BY <4>3, <4>4 DEF Covered, Unlocks
    <3>4. CASE i > n
      <4> DEFINE m == i - n + 1
      <4>1. m \in 2 .. Len(P) /\ R[i] = P[m] /\ m - 1 = i - n
        BY <3>4, <1>a, <1>6, SMT
      <4> HIDE DEF m
      <4>2. Covered(u, m)
        <5>1. DOMAIN P = 1 .. Len(P)
          BY <1>2
        <5>2. m \in DOMAIN P /\ P[m].op # "lock"
          BY <5>1, <4>1, <1>6, SMT
        <5> QED
          BY <5>2, <3>1, <2>1 DEF Guarded
      <4>3. ASSUME NEW j \in 1 .. Len(R), R[j].op = "unlock", R[j].at = s
            PROVE  j > n /\ P[j - n + 1].op = "unlock" /\ P[j - n + 1].at = s
        <5>1. CASE j > n
          BY <5>1, <4>3, <1>a
        <5>2. CASE j <= n
          BY <5>2, <4>3, <1>b DEF Inner
        <5> QED
          BY <5>1, <5>2, <1>6, SMT
      <4>4. CASE lock[s] = u /\ \A j \in 1 .. m - 1 : ~ Unlocks(u, j, s)
        <5>1. ASSUME NEW j \in 1 .. i - 1, R[j].op = "unlock", R[j].at = s
              PROVE  FALSE
          <6>1. j > n /\ P[j - n + 1].op = "unlock" /\ P[j - n + 1].at = s
            BY <5>1, <4>3, <1>6, SMT
          <6>2. j - n + 1 \in 1 .. m - 1
            BY <6>1, <5>1, <4>1, <1>6, SMT
          <6> QED
            BY <6>1, <6>2, <4>4, <3>1 DEF Unlocks
        <5> QED
          BY <5>1, <4>4, <3>1 DEF Covered, Unlocks
      <4>5. CASE \E k \in 1 .. m - 1 : Locks(u, k, s) /\ \A j \in k .. m - 1 : ~ Unlocks(u, j, s)
        <5>1. PICK k \in 1 .. m - 1 : Locks(u, k, s) /\ \A j \in k .. m - 1 : ~ Unlocks(u, j, s)
          BY <4>5
        <5>2. k \in Int /\ i \in Int /\ k >= 2 /\ k <= i - n /\ i <= Len(R)
          <6>1. k # 1
            BY <5>1, <3>1, <1>5 DEF Locks, Inner
          <6> QED
            BY <6>1, <4>1, <1>6, SMT
        <5>3. k + n - 1 \in 1 .. i - 1 /\ k + n - 1 > n
              /\ (k + n - 1) - n + 1 = k /\ k + n - 1 \in 1 .. Len(R)
          BY <5>2, <1>6, SMT
        <5>4. R[k + n - 1] = P[k]
          BY <5>3, <1>a
        <5>5. ASSUME NEW j \in k + n - 1 .. i - 1, R[j].op = "unlock", R[j].at = s
              PROVE  FALSE
          <6>1. j > n /\ P[j - n + 1].op = "unlock" /\ P[j - n + 1].at = s
            BY <5>5, <5>3, <4>3, <1>6, SMT
          <6>2. j \in Int /\ k + n - 1 <= j /\ j <= i - 1
            BY <5>5, <5>2, <1>6, SMT
          <6>3. j - n + 1 \in k .. m - 1
            <7>1. m \in Int /\ n \in Int /\ m - 1 = i - n
              BY <4>1, <1>6, SMT
            <7> QED
              BY <6>2, <5>2, <7>1, Moved
          <6> QED
            BY <6>1, <6>3, <5>1, <3>1 DEF Unlocks
        <5> QED
          BY <5>1, <5>3, <5>4, <5>5, <3>1 DEF Covered, Locks, Unlocks
      <4> QED
        BY <4>2, <4>4, <4>5, <4>1, <3>1 DEF Covered
    <3> QED
      BY <3>3, <3>4, <1>6, SMT
  <2> QED
    BY <2>2, <2>3
<1>9. StopInv'
  BY <1>3, <1>5, SourceFact DEF ExclusionInv, StopInv, controlVars, P
<1>10. ExclusionType'
  BY <1>4 DEF ExclusionInv, ExclusionType, controlVars
<1> QED
  BY <1>7, <1>8, <1>9, <1>10 DEF ExclusionInv

\* A call at the head of a plan, replaced by the calls Q.
LEMMA Replaced ==
  ASSUME ExclusionInv, NEW t \in Thread, NEW s \in Source, NEW op \in Inner, Calls(t, op, s),
         NEW Q \in Seq(PlanCall), \A i \in DOMAIN Q : Q[i].at = s /\ Q[i].op \in Inner,
         op \in Free => \A i \in DOMAIN Q : Q[i].op \in Free,
         plan' = [plan EXCEPT ![t] = Q \o Tail(@)], lock' = lock,
         UNCHANGED controlVars, finishing' = finishing
  PROVE  ExclusionInv'
  BY Works DEF Calls

\* The same with no calls left, and with nothing changed.
LEMMA Dropped ==
  ASSUME ExclusionInv, NEW t \in Thread, NEW s \in Source, NEW op \in Inner, Calls(t, op, s),
         plan' = [plan EXCEPT ![t] = Tail(@)] \/ plan' = plan, lock' = lock,
         UNCHANGED controlVars, finishing' = finishing
  PROVE  ExclusionInv'
<1>1. CASE plan' = [plan EXCEPT ![t] = Tail(@)]
  <2>1. plan[t] \in Seq(PlanCall) /\ plan[t] # <<>>
    BY DEF ExclusionInv, ExclusionType, Calls
  <2>2. Tail(plan[t]) = <<>> \o Tail(plan[t])
    BY <2>1, SMT
  <2>3. plan' = [plan EXCEPT ![t] = <<>> \o Tail(@)]
    BY <1>1, <2>2
  <2>4. <<>> \in Seq(PlanCall) /\ DOMAIN <<>> = {}
    BY EmptyFact
  <2> QED
    BY <2>3, <2>4, Replaced
<1>2. CASE plan' = plan
  BY <1>2, SMT DEF ExclusionInv, ExclusionType, CpuInv, Guarded, Covered, Locks, Unlocks, StopInv,
     controlVars
<1> QED
  BY <1>1, <1>2

\* The same with one free call left.
LEMMA Single ==
  ASSUME ExclusionInv, NEW t \in Thread, NEW s \in Source, NEW op \in Inner, Calls(t, op, s),
         NEW c \in PlanCall, c.at = s, c.op \in Free,
         plan' = [plan EXCEPT ![t] = <<c>> \o Tail(@)], lock' = lock,
         UNCHANGED controlVars, finishing' = finishing
  PROVE  ExclusionInv'
<1> DEFINE Q == <<c>>
<1>1. Q \in Seq(PlanCall) /\ \A i \in DOMAIN Q : Q[i] = c
  BY SMT
<1>2. c.op \in Inner
  BY DEF Free, Inner, Op
<1>3. plan' = [plan EXCEPT ![t] = Q \o Tail(@)]
  OBVIOUS
<1> HIDE DEF Q
<1>4. \A i \in DOMAIN Q : Q[i].at = s /\ Q[i].op \in Inner /\ Q[i].op \in Free
  BY <1>1, <1>2
<1> QED
  BY <1>1, <1>3, <1>4, Replaced

-----------------------------------------------------------------------------
(* Every step keeps the buffers apart. *)

\* A row is appended, or the buffer flushed before it.
LEMMA AppendExclusion ==
  ASSUME ExclusionInv, NEW t \in Thread, NEW s \in Source, AppendCall(t, s)
  PROVE  ExclusionInv'
<1> DEFINE P == plan[t]
           flush == Call("flush", s)
<1>1. /\ P \in Seq(PlanCall) /\ P # <<>> /\ Head(P) \in PlanCall /\ Head(P).op = "append"
      /\ Head(P).at = s /\ flush \in PlanCall /\ flush.at = s /\ flush.op = "flush"
  BY SMTT(30) DEF ExclusionInv, ExclusionType, AppendCall, Calls, PlanCall, Call, Op
<1>2. lock' = lock /\ UNCHANGED controlVars /\ finishing' = finishing /\ Calls(t, "append", s)
  BY DEF AppendCall, exitVars
<1>3. \/ plan' = [plan EXCEPT ![t] = <<flush>> \o @]
      \/ plan' = [plan EXCEPT ![t] = <<flush>> \o Tail(@)]
      \/ plan' = [plan EXCEPT ![t] = <<>> \o Tail(@)]
  BY DEF AppendCall
<1> HIDE DEF flush
<1>4. CASE plan' = [plan EXCEPT ![t] = <<flush>> \o @]
  <2>1. <<flush>> \o P = <<flush, Head(P)>> \o Tail(P)
    BY <1>1, SMT
  <2> DEFINE Q == <<flush, Head(P)>>
  <2>2. plan' = [plan EXCEPT ![t] = Q \o Tail(@)]
    BY <1>4, <2>1
  <2>3. Q \in Seq(PlanCall) /\ \A i \in DOMAIN Q : Q[i] = flush \/ Q[i] = Head(P)
    BY <1>1, SMT
  <2> HIDE DEF P, Q
  <2>4. {"flush", "append"} \subseteq Free /\ Free \subseteq Inner
    BY DEF Inner, Op, Free
  <2>5. \A i \in DOMAIN Q : Q[i].at = s /\ Q[i].op \in Inner
    BY <1>1, <2>3, <2>4
  <2>6. "append" \in Free => \A i \in DOMAIN Q : Q[i].op \in Free
    BY <1>1, <2>3, <2>4
  <2>7. Q \in Seq(PlanCall) /\ "append" \in Inner
    BY <2>3, <2>4
  <2> QED
    BY <1>2, <2>2, <2>5, <2>6, <2>7, Replaced
<1>5. CASE plan' = [plan EXCEPT ![t] = <<flush>> \o Tail(@)]
  BY <1>1, <1>2, <1>5, Single DEF Inner, Op, Free
<1>6. CASE plan' = [plan EXCEPT ![t] = <<>> \o Tail(@)]
  <2>1. <<>> \in Seq(PlanCall) /\ DOMAIN <<>> = {}
    BY EmptyFact
  <2> QED
    BY <1>2, <1>6, <2>1, Replaced DEF Inner, Op, Free
<1> QED
  BY <1>3, <1>4, <1>5, <1>6

\* flush, frames_queued, wait_for_frames and the source_end header.
LEMMA FlushExclusion ==
  ASSUME ExclusionInv, NEW t \in Thread, NEW s \in Source,
         FlushEmpty(t, s) \/ FlushRing(t, s) \/ CountFrame(t, s) \/ FlushDirect(t, s)
         \/ WaitForFrames(t, s) \/ SendSourceEnd(t, s)
  PROVE  ExclusionInv'
<1>1. {"flush", "count", "wait", "end"} \subseteq Inner /\ {"flush", "count"} \subseteq Free
  BY DEF Inner, Op, Free
<1>2. CASE FlushEmpty(t, s)
  BY <1>1, <1>2, Dropped DEF FlushEmpty, exitVars
<1>3. CASE FlushRing(t, s)
  <2>1. /\ Calls(t, "flush", s) /\ lock' = lock /\ UNCHANGED controlVars
        /\ finishing' = finishing
        /\ plan' = [plan EXCEPT ![t] = <<Call("count", s)>> \o Tail(@)] \/ plan' = plan
    BY <1>3 DEF FlushRing, exitVars
  <2>2. CASE plan' = plan
    BY <2>1, <2>2, <1>1, Dropped
  <2>3. CASE plan' = [plan EXCEPT ![t] = <<Call("count", s)>> \o Tail(@)]
    <3>1. Call("count", s) \in PlanCall /\ Call("count", s).at = s /\ Call("count", s).op = "count"
      BY DEF PlanCall, Call, Op
    <3> QED
      BY <2>1, <2>3, <3>1, <1>1, Single
  <2> QED
    BY <2>1, <2>2, <2>3
<1>4. CASE CountFrame(t, s)
  BY <1>1, <1>4, Dropped DEF CountFrame, exitVars
<1>5. CASE FlushDirect(t, s)
  BY <1>1, <1>5, Dropped DEF FlushDirect, exitVars
<1>6. CASE WaitForFrames(t, s)
  BY <1>1, <1>6, Dropped DEF WaitForFrames, exitVars
<1>7. CASE SendSourceEnd(t, s)
  BY <1>1, <1>7, Dropped DEF SendSourceEnd, exitVars
<1> QED
  BY <1>2, <1>3, <1>4, <1>5, <1>6, <1>7

\* The two tests whether a source is active.
LEMMA ActiveExclusion ==
  ASSUME ExclusionInv, NEW s \in Source, RequireActive(s) \/ EndIfActive(s)
  PROVE  ExclusionInv'
<1>1. CASE RequireActive(s)
  BY <1>1, Dropped, SourceFact DEF RequireActive, exitVars, Inner, Op
<1>2. CASE EndIfActive(s)
  <2> DEFINE Q == IF state[s] = "active" THEN <<Call("flush", s), Call("wait", s), Call("end", s)>>
                  ELSE <<>>
  <2>1. /\ Calls(Main, "end_active", s) /\ lock' = lock /\ UNCHANGED controlVars
        /\ finishing' = finishing /\ plan' = [plan EXCEPT ![Main] = Q \o Tail(@)]
    BY <1>2 DEF EndIfActive, exitVars
  <2>2. Q \in Seq(PlanCall) /\ \A i \in DOMAIN Q : Q[i].at = s /\ Q[i].op \in Inner
    <3>1. CASE state[s] = "active"
      <4>1. Q = <<Call("flush", s), Call("wait", s), Call("end", s)>>
        BY <3>1
      <4>2. \A op \in {"flush", "wait", "end"} :
               Call(op, s) \in PlanCall /\ Call(op, s).at = s /\ Call(op, s).op \in Inner
        BY DEF PlanCall, Call, Op, Inner
      <4>3. \A a, b, c \in PlanCall :
               /\ <<a, b, c>> \in Seq(PlanCall)
               /\ \A i \in DOMAIN <<a, b, c>> : <<a, b, c>>[i] \in {a, b, c}
        BY SMT
      <4> HIDE DEF Q
      <4> QED
        BY <4>1, <4>2, <4>3, SMT
    <3>2. CASE state[s] # "active"
      BY <3>2, SMT
    <3> QED
      BY <3>1, <3>2
  <2> HIDE DEF Q
  <2>3. "end_active" \in Inner /\ "end_active" \notin Free
    BY DEF Inner, Op, Free
  <2> QED
    BY <2>1, <2>2, <2>3, Replaced, SourceFact
<1> QED
  BY <1>1, <1>2

\* A thread whose plan stays, and that keeps the mutexes it holds, stays guarded.
LEMMA Unmoved ==
  ASSUME ExclusionType, NEW u \in Thread, Guarded(u), plan'[u] = plan[u],
         \A r \in Source : lock[r] = u => lock'[r] = u
  PROVE  Guarded(u)'
<1>1. \A i \in DOMAIN plan[u] : plan[u][i].at \in Source
  BY SMT DEF ExclusionType, PlanCall
<1> SUFFICES ASSUME NEW i \in DOMAIN plan[u], plan[u][i].op # "lock"
             PROVE  Covered(u, i)'
  BY DEF Guarded
<1> DEFINE a == plan[u][i].at
<1>2. Covered(u, i) /\ a \in Source /\ \A j : /\ Unlocks(u, j, a)' <=> Unlocks(u, j, a)
                                              /\ Locks(u, j, a)' <=> Locks(u, j, a)
  BY <1>1 DEF Guarded, Unlocks, Locks
<1>3. CASE lock[a] = u /\ \A j \in 1 .. i - 1 : ~ Unlocks(u, j, a)
  BY <1>2, <1>3 DEF Covered
<1>4. CASE \E k \in 1 .. i - 1 : Locks(u, k, a) /\ \A j \in k .. i - 1 : ~ Unlocks(u, j, a)
  BY <1>2, <1>4 DEF Covered
<1> QED
  BY <1>2, <1>3, <1>4 DEF Covered

\* Taking and releasing a mutex.  Only the control thread and the exit handler
\* call lock; a vCPU releases at the end of its callback.
LEMMA Changed ==
  ASSUME ExclusionInv, NEW t \in Thread, NEW s \in Source, NEW v \in Thread \cup {Nobody},
         plan[t] # <<>>, plan' = [plan EXCEPT ![t] = Tail(@)], lock' = [lock EXCEPT ![s] = v],
         UNCHANGED controlVars, finishing' = finishing,
         lock[s] \in {t, Nobody}, v \in {t, Nobody},
         t \in Source => t = s /\ v = Nobody /\ Len(plan[t]) = 1,
         \/ t \in Source
         \/ plan[t][1].op = "lock" /\ plan[t][1].at = s /\ v = t
         \/ plan[t][1].op = "unlock" /\ plan[t][1].at = s /\ lock[s] = t
  PROVE  ExclusionInv'
<1> DEFINE P == plan[t]
           R == Tail(P)
<1>1. /\ P \in Seq(PlanCall) /\ P # <<>> /\ plan \in [Thread -> Seq(PlanCall)]
      /\ lock \in [Source -> Thread \cup {Nobody}]
  BY DEF ExclusionInv, ExclusionType
<1>2. /\ R \in Seq(PlanCall) /\ Len(P) \in Nat \ {0} /\ Len(R) = Len(P) - 1
      /\ DOMAIN R = 1 .. Len(R) /\ DOMAIN P = 1 .. Len(P)
      /\ \A i \in 1 .. Len(R) : R[i] = P[i + 1]
      /\ Len(P) = 1 => R = <<>>
  BY <1>1, SMT
<1>3. /\ plan'[t] = R /\ \A u \in Thread : u # t => plan'[u] = plan[u]
      /\ lock'[s] = v /\ \A r \in Source : r # s => lock'[r] = lock[r]
      /\ plan' \in [Thread -> Seq(PlanCall)] /\ lock' \in [Source -> Thread \cup {Nobody}]
  BY <1>1, <1>2
<1> HIDE DEF P, R
<1>4. ExclusionType'
  BY <1>3 DEF ExclusionInv, ExclusionType, controlVars
<1>5. ASSUME NEW r \in Source
      PROVE  CpuInv(r)'
  <2>1. CpuInv(r) /\ r \in Thread /\ r # Nobody
    BY SourceFact DEF ExclusionInv
  <2>2. CASE r = t
    <3>1. plan'[r] = <<>> /\ lock'[r] = Nobody
      BY <2>2, <1>2, <1>3 DEF P
    <3> QED
      BY <2>1, <3>1, SMT DEF CpuInv
  <2>3. CASE r # t
    <3>1. plan'[r] = plan[r] /\ ((lock'[r] = r) <=> (lock[r] = r))
      BY <2>1, <2>3, <1>3
    <3>2. world' = world
      BY DEF controlVars
    <3> QED
      BY <2>1, <3>1, <3>2 DEF CpuInv
  <2> QED
    BY <2>2, <2>3
<1>6. ASSUME NEW u \in {Control, Main}
      PROVE  Guarded(u)'
  <2>1. u \in Thread /\ u # Nobody /\ Guarded(u) /\ u \notin Source
    BY SourceFact DEF ExclusionInv
  <2>2. CASE u # t
    <3>1. plan'[u] = plan[u] /\ \A r \in Source : lock[r] = u => lock'[r] = u
      BY <2>1, <2>2, <1>3
    <3> QED
      BY <2>1, <3>1, Unmoved DEF ExclusionInv
  <2>3. CASE u = t
    <3>1. plan[u] = P /\ plan'[u] = R
      BY <1>3, <2>3 DEF P
    <3> SUFFICES ASSUME NEW i \in 1 .. Len(R), R[i].op # "lock"
                 PROVE  Covered(u, i)'
      BY <3>1, <1>2 DEF Guarded
    <3> DEFINE m == i + 1
               a == R[i].at
    <3>2. m \in 2 .. Len(P) /\ R[i] = P[m] /\ i \in Int /\ i = m - 1
      BY <1>2, SMTT(30)
    <3> HIDE DEF m
    <3>3. a \in Source /\ Covered(u, m)
      <4>1. m \in DOMAIN P /\ P[m] \in PlanCall /\ P[m].op # "lock"
        BY <3>2, <1>1, <1>2, SMTT(30)
      <4>2. P[m].at \in Source
        BY <4>1 DEF PlanCall
      <4> QED
        BY <4>1, <4>2, <2>1, <3>1, <3>2 DEF Guarded
    <3>4. ASSUME NEW j \in 1 .. i - 1, R[j].op = "unlock", R[j].at = a
          PROVE  j + 1 \in 2 .. m - 1 /\ Unlocks(u, j + 1, a)
      <4>1. j \in 1 .. Len(R) /\ j + 1 \in 2 .. m - 1
        BY <3>2, <1>2, SMTT(30)
      <4> QED
        BY <4>1, <3>1, <3>4, <1>2 DEF Unlocks
    <3>5. CASE lock[a] = u /\ \A j \in 1 .. m - 1 : ~ Unlocks(u, j, a)
      <4>1. ~ Unlocks(u, 1, a)
        BY <3>2, <3>5, SMTT(30)
      <4>2. lock'[a] = u
        BY <4>1, <3>1, <3>3, <3>5, <1>3, <2>1, <2>3 DEF Unlocks, P
      <4>3. ASSUME NEW j \in 1 .. i - 1, R[j].op = "unlock", R[j].at = a
            PROVE  FALSE
        BY <4>3, <3>4, <3>5, <3>2, SMTT(30)
      <4> QED
        BY <4>2, <4>3, <3>1 DEF Covered, Unlocks
    <3>6. CASE \E k \in 1 .. m - 1 : Locks(u, k, a) /\ \A j \in k .. m - 1 : ~ Unlocks(u, j, a)
      <4>1. PICK k \in 1 .. m - 1 : Locks(u, k, a) /\ \A j \in k .. m - 1 : ~ Unlocks(u, j, a)
        BY <3>6
      <4>2. k \in Int /\ 1 <= k /\ k <= m - 1
        BY <3>2, SMT
      <4>3. CASE k = 1
        <5>1. lock'[a] = u
          BY <4>1, <4>3, <3>1, <1>3, <2>1, <2>3 DEF Locks, P
        <5>2. ASSUME NEW j \in 1 .. i - 1, R[j].op = "unlock", R[j].at = a
              PROVE  FALSE
          BY <5>2, <4>1, <4>3, <3>4, <3>2, SMT
        <5> QED
          BY <5>1, <5>2, <3>1 DEF Covered, Unlocks
      <4>4. CASE k > 1
        <5> DEFINE l == k - 1
        <5>1. l \in 1 .. i - 1 /\ l \in 1 .. Len(R) /\ k = l + 1
          BY <4>2, <4>4, <3>2, <1>2, SMT
        <5> HIDE DEF l
        <5>2. R[l] = P[k]
          BY <5>1, <1>2
        <5>3. ASSUME NEW j \in l .. i - 1, R[j].op = "unlock", R[j].at = a
              PROVE  FALSE
          <6>1. j \in 1 .. i - 1 /\ j + 1 \in k .. m - 1
            BY <5>1, <4>2, <3>2, SMTT(30)
          <6> QED
            BY <6>1, <5>3, <4>1, <3>4
        <5> QED
          BY <5>1, <5>2, <5>3, <4>1, <3>1, ZenonT(40) DEF Covered, Locks, Unlocks
      <4> QED
        BY <4>2, <4>3, <4>4, SMTT(30)
    <3> QED
      BY <3>1, <3>2, <3>3, <3>5, <3>6 DEF Covered
  <2> QED
    BY <2>2, <2>3
<1>7. StopInv'
  <2>1. \A u \in {Control, Main} : plan'[u] # <<>> => plan[u] # <<>>
    BY <1>3, SourceFact, SMT DEF P
  <2> QED
    BY <2>1 DEF ExclusionInv, StopInv, controlVars
<1> QED
  BY <1>4, <1>5, <1>6, <1>7 DEF ExclusionInv

\* Taking and releasing a cold mutex.
LEMMA LockExclusion ==
  ASSUME ExclusionInv, NEW t \in Thread, NEW s \in Source, Acquire(t, s) \/ Release(t, s)
  PROVE  ExclusionInv'
<1> DEFINE P == plan[t]
<1>1. /\ P \in Seq(PlanCall) /\ P # <<>> /\ P[1].at = s /\ Len(P) \in Nat \ {0}
      /\ DOMAIN P = 1 .. Len(P) /\ UNCHANGED controlVars /\ finishing' = finishing
      /\ plan' = [plan EXCEPT ![t] = Tail(@)]
  BY HeadCall DEF Acquire, Release, exitVars
<1>2. t \in Source => CpuInv(t)
  BY DEF ExclusionInv
<1>3. t \notin Source => t \in {Control, Main} /\ Guarded(t)
  BY DEF ExclusionInv, Thread
<1>4. CASE Acquire(t, s)
  <2>1. P[1].op = "lock" /\ lock[s] = Nobody /\ lock' = [lock EXCEPT ![s] = t]
    BY <1>4, HeadCall DEF Acquire
  <2>2. t \notin Source
    BY <2>1, <1>1, <1>2, SMT DEF CpuInv
  <2>3. plan[t] # <<>> /\ plan[t][1].op = "lock" /\ plan[t][1].at = s
    BY <2>1, <1>1
  <2> QED
    BY <2>1, <2>2, <2>3, <1>1, Changed
<1>5. CASE Release(t, s)
  <2>1. P[1].op = "unlock" /\ lock' = [lock EXCEPT ![s] = Nobody]
    BY <1>5, HeadCall DEF Release
  <2>2. CASE t \in Source
    <3> HIDE DEF P
    <3>1. 1 \in DOMAIN P /\ plan[t] = P
      BY <1>1, SMT DEF P
    <3>2. t = s /\ lock[s] = t /\ Len(P) = 1
      BY <2>1, <2>2, <3>1, <1>1, <1>2 DEF CpuInv
    <3> QED
      BY <2>1, <2>2, <3>1, <3>2, <1>1, Changed
  <2>3. CASE t \notin Source
    <3>1. Covered(t, 1)
      BY <2>1, <2>3, <1>1, <1>3, SMT DEF Guarded
    <3>2. lock[s] = t
      BY <3>1, <1>1, SMT DEF Covered
    <3> QED
      BY <2>1, <2>3, <3>2, <1>1, Changed
  <2> QED
    BY <2>2, <2>3
<1> QED
  BY <1>4, <1>5

-----------------------------------------------------------------------------
(* The callbacks of a vCPU. *)

\* The calls on a source.
Own(s, ops) == {c \in PlanCall : c.at = s /\ c.op \in ops}

\* A vCPU between two callbacks starts one: with its mutex, which the last call
\* releases, or without it, in a running world.
LEMMA Starts ==
  ASSUME ExclusionInv, NEW s \in Source, plan[s] = <<>>, NEW R \in Seq(PlanCall),
         plan' = [plan EXCEPT ![s] = R], UNCHANGED controlVars, finishing' = finishing,
         \/ /\ lock[s] = Nobody /\ lock' = [lock EXCEPT ![s] = s]
            /\ \E Q \in Seq(Own(s, Inner)) : R = Q \o <<Call("unlock", s)>>
         \/ /\ lock' = lock /\ world = "running" /\ finishing = "no"
            /\ R \in Seq(Own(s, Free))
  PROVE  ExclusionInv'
<1>1. /\ plan \in [Thread -> Seq(PlanCall)] /\ lock \in [Source -> Thread \cup {Nobody}]
      /\ s \in Thread /\ CpuInv(s) /\ s \notin {Control, Main, Nobody}
  BY SourceFact DEF ExclusionInv, ExclusionType
<1>2. /\ plan' \in [Thread -> Seq(PlanCall)] /\ plan'[s] = R
      /\ \A u \in Thread : u # s => plan'[u] = plan[u]
  BY <1>1
<1>3. /\ lock' \in [Source -> Thread \cup {Nobody}]
      /\ \A r \in Source : r # s => lock'[r] = lock[r]
      /\ \A u \in Thread : lock[s] = u => lock'[s] = u
  <2>1. lock[s] = Nobody => \A u \in Thread : lock[s] # u
    BY SourceFact
  <2> QED
    BY <1>1, <2>1
<1>4. world' = world
  BY DEF controlVars
<1>5. CpuInv(s)'
  <2>1. CASE lock' = lock /\ world = "running" /\ finishing = "no" /\ R \in Seq(Own(s, Free))
    <3>1. lock'[s] # s
      BY <2>1, <1>1 DEF CpuInv
    <3>2. \A i \in DOMAIN R : R[i].at = s /\ R[i].op \in Free
      BY <2>1, SMTT(30) DEF Own
    <3> QED
      BY <2>1, <3>1, <3>2, <1>2, <1>4 DEF CpuInv, Free
  <2>2. ASSUME lock' = [lock EXCEPT ![s] = s], NEW Q \in Seq(Own(s, Inner)),
               R = Q \o <<Call("unlock", s)>>
        PROVE  CpuInv(s)'
    <3> DEFINE u == Call("unlock", s)
    <3>1. u.op = "unlock" /\ u.at = s
      BY DEF Call
    <3> HIDE DEF u
    <3>2. /\ Len(Q) \in Nat /\ Len(R) = Len(Q) + 1 /\ R[Len(R)] = u /\ R # <<>>
          /\ DOMAIN R = 1 .. Len(R)
          /\ \A i \in 1 .. Len(Q) : R[i] = Q[i] /\ Q[i] \in Own(s, Inner)
      BY <2>2, SMT DEF u
    <3>3. ASSUME NEW i \in 1 .. Len(R)
          PROVE  R[i].at = s /\ R[i].op # "lock" /\ (R[i].op = "unlock" => i = Len(R))
      <4>1. CASE i = Len(R)
        BY <4>1, <3>1, <3>2
      <4>2. CASE i # Len(R)
        <5>1. R[i] \in Own(s, Inner)
          BY <4>2, <3>2, SMT
        <5> QED
          BY <5>1 DEF Own, Inner
      <4> QED
        BY <4>1, <4>2
    <3>4. lock'[s] = s
      BY <2>2, <1>1
    <3> QED
      BY <3>1, <3>2, <3>3, <3>4, <1>2, SMT DEF CpuInv
  <2> QED
    BY <2>1, <2>2
<1>6. ASSUME NEW r \in Source, r # s
      PROVE  CpuInv(r)'
  BY <1>2, <1>3, <1>4, <1>6, SourceFact, SMT DEF ExclusionInv, CpuInv
<1>7. ASSUME NEW u \in {Control, Main}
      PROVE  Guarded(u)'
  <2>1. u \in Thread /\ Guarded(u) /\ plan'[u] = plan[u]
    BY <1>1, <1>2, SourceFact DEF ExclusionInv
  <2>2. \A r \in Source : lock[r] = u => lock'[r] = u
    BY <2>1, <1>3
  <2> QED
    BY <2>1, <2>2, Unmoved DEF ExclusionInv
<1>8. StopInv' /\ ExclusionType'
  <2>1. plan'[Control] = plan[Control] /\ plan'[Main] = plan[Main]
    BY <1>1, <1>2, SourceFact
  <2> QED
    BY <2>1, <1>2, <1>3 DEF ExclusionInv, ExclusionType, StopInv, controlVars
<1> QED
  BY <1>5, <1>6, <1>7, <1>8 DEF ExclusionInv

\* Rows are appended by calls of their source.
LEMMA ChangesFact ==
  ASSUME NEW s \in Source
  PROVE  /\ AppendRow(s, ContextRow) \in Own(s, Free) /\ AppendRow(s, RegisterRow(s)) \in Own(s, Free)
         /\ AppendRow(s, BlockRow) \in Own(s, Free) /\ AppendRow(s, MemoryRow) \in Own(s, Free)
         /\ AppendRow(s, [kind |-> "register_schema"]) \in Own(s, Free)
         /\ \A op \in Op : Call(op, s) \in PlanCall
         /\ Call("flush", s) \in Own(s, Free) /\ Call("wait", s) \in Own(s, Inner)
         /\ Call("end", s) \in Own(s, Inner)
         /\ Own(s, Free) \subseteq Own(s, Inner) /\ Own(s, Inner) \subseteq PlanCall
         /\ \A c, r \in BOOLEAN : Changes(s, c, r) \in Seq(Own(s, Free))
<1>1. ASSUME NEW row \in Row
      PROVE  AppendRow(s, row) \in Own(s, Free)
  BY DEF AppendRow, Own, Free, PlanCall
<1>2. /\ ContextRow \in Row /\ RegisterRow(s) \in Row /\ BlockRow \in Row
      /\ MemoryRow \in Row /\ [kind |-> "register_schema"] \in Row
  BY SMT DEF ContextRow, RegisterRow, BlockRow, MemoryRow, Row, NoContext
<1>3. /\ \A op \in Op : Call(op, s) \in PlanCall
      /\ Call("flush", s) \in Own(s, Free) /\ Call("wait", s) \in Own(s, Inner)
      /\ Call("end", s) \in Own(s, Inner)
      /\ Own(s, Free) \subseteq Own(s, Inner) /\ Own(s, Inner) \subseteq PlanCall
  BY DEF Call, Own, Op, PlanCall, Free, Inner
<1>4. ASSUME NEW c \in BOOLEAN, NEW r \in BOOLEAN
      PROVE  Changes(s, c, r) \in Seq(Own(s, Free))
  <2> DEFINE A == AppendRow(s, ContextRow)
             B == AppendRow(s, RegisterRow(s))
  <2>1. A \in Own(s, Free) /\ B \in Own(s, Free)
    BY <1>1, <1>2
  <2> HIDE DEF A, B
  <2>2. Changes(s, c, r) = (IF c \/ context[s] = NoContext THEN <<A>> ELSE <<>>)
                             \o (IF r \/ s \notin sampled THEN <<B>> ELSE <<>>)
    BY DEF Changes, A, B
  <2> QED
    BY <2>1, <2>2, SMT
<1> QED
  BY <1>1, <1>2, <1>3, <1>4

\* Execution callbacks, without a lock.
LEMMA ExecutionExclusion ==
  ASSUME ExclusionInv, NEW s \in Source, BlockEntry(s) \/ MemoryAccess(s)
  PROVE  ExclusionInv'
<1>1. /\ plan[s] = <<>> /\ world = "running" /\ finishing = "no" /\ lock' = lock
      /\ UNCHANGED controlVars /\ finishing' = finishing
  BY DEF BlockEntry, MemoryAccess, Executes, exitVars
<1>2. \E R \in Seq(Own(s, Free)) : plan' = [plan EXCEPT ![s] = R]
  <2>1. CASE BlockEntry(s)
    <3>1. PICK c \in BOOLEAN, r \in BOOLEAN :
            plan' = [plan EXCEPT ![s] = Changes(s, c, r) \o <<AppendRow(s, BlockRow)>>]
      BY <2>1 DEF BlockEntry
    <3>2. Changes(s, c, r) \o <<AppendRow(s, BlockRow)>> \in Seq(Own(s, Free))
      BY ChangesFact, SMT
    <3> QED
      BY <3>1, <3>2
  <2>2. CASE MemoryAccess(s)
    <3>1. PICK c \in BOOLEAN :
            plan' = [plan EXCEPT ![s] = (IF c THEN <<AppendRow(s, ContextRow)>> ELSE <<>>)
                                          \o <<AppendRow(s, MemoryRow)>>]
      BY <2>2 DEF MemoryAccess
    <3>2. (IF c THEN <<AppendRow(s, ContextRow)>> ELSE <<>>)
            \o <<AppendRow(s, MemoryRow)>> \in Seq(Own(s, Free))
      BY ChangesFact, SMT
    <3> QED
      BY <3>1, <3>2
  <2> QED
    BY <2>1, <2>2
<1>3. PICK R \in Seq(Own(s, Free)) : plan' = [plan EXCEPT ![s] = R]
  BY <1>2
<1>4. R \in Seq(PlanCall)
  BY ChangesFact, SMT
<1> QED
  BY <1>1, <1>3, <1>4, Starts

\* The init, idle and exit callbacks of a vCPU, under its cold mutex.
LEMMA ColdExclusion ==
  ASSUME ExclusionInv, NEW s \in Source, SourceStart(s) \/ SourceIdle(s) \/ SourceEnd(s)
  PROVE  ExclusionInv'
<1> DEFINE flush == Call("flush", s)
           unlock == Call("unlock", s)
<1>1. /\ plan[s] = <<>> /\ lock[s] = Nobody /\ lock' = [lock EXCEPT ![s] = s]
      /\ UNCHANGED controlVars /\ finishing' = finishing
  BY DEF SourceStart, SourceIdle, SourceEnd, Cold, Executes, exitVars
<1>2. flush \in Own(s, Inner) /\ unlock \in PlanCall /\ Own(s, Inner) \subseteq PlanCall
  BY ChangesFact DEF Op
<1>3. \E Q \in Seq(Own(s, Inner)) : plan' = [plan EXCEPT ![s] = Q \o <<unlock>>]
  <2>1. CASE SourceStart(s)
    <3> DEFINE A == AppendRow(s, [kind |-> "register_schema"])
    <3>1. A \in Own(s, Inner) /\ plan' = [plan EXCEPT ![s] = <<A, flush, unlock>>]
      BY <2>1, ChangesFact DEF SourceStart
    <3> HIDE DEF A, flush, unlock
    <3>2. <<A, flush, unlock>> = <<A, flush>> \o <<unlock>> /\ <<A, flush>> \in Seq(Own(s, Inner))
      BY <3>1, <1>2, SMT
    <3> QED
      BY <3>1, <3>2
  <2>2. CASE SourceIdle(s)
    <3>1. plan' = [plan EXCEPT ![s] = <<flush, unlock>>]
      BY <2>2 DEF SourceIdle
    <3> HIDE DEF flush, unlock
    <3>2. <<flush>> \in Seq(Own(s, Inner)) /\ <<unlock>> \in Seq(PlanCall)
      BY <1>2, SMT
    <3>3. <<flush, unlock>> = <<flush>> \o <<unlock>>
      <4> DEFINE L == <<flush>> \o <<unlock>>
      <4>1. L \in Seq(PlanCall) /\ Len(L) = 2 /\ L[1] = flush /\ L[2] = unlock
        BY <1>2, <3>2, SMT
      <4> HIDE DEF L
      <4>2. L = <<flush, unlock>>
        BY <4>1, SMT
      <4> QED
        BY <4>2 DEF L
    <3> QED
      BY <3>1, <3>2, <3>3
  <2>3. CASE SourceEnd(s)
    <3> DEFINE wait == Call("wait", s)
               end == Call("end", s)
    <3>1. PICK c \in BOOLEAN, r \in BOOLEAN :
            plan' = [plan EXCEPT ![s] = Changes(s, c, r) \o <<flush, wait, end, unlock>>]
      BY <2>3 DEF SourceEnd
    <3> DEFINE A == Changes(s, c, r)
    <3>2. A \in Seq(Own(s, Inner)) /\ wait \in Own(s, Inner) /\ end \in Own(s, Inner)
      <4>1. A \in Seq(Own(s, Free)) /\ Own(s, Free) \subseteq Own(s, Inner)
        BY ChangesFact
      <4> HIDE DEF A
      <4>2. A \in Seq(Own(s, Inner))
        BY <4>1, SMT
      <4> QED
        BY <4>2, ChangesFact
    <3> HIDE DEF flush, unlock, wait, end, A
    <3>3. /\ A \o <<flush, wait, end, unlock>> = (A \o <<flush, wait, end>>) \o <<unlock>>
          /\ A \o <<flush, wait, end>> \in Seq(Own(s, Inner))
      BY <3>2, <1>2, SMTT(30)
    <3> QED
      BY <3>1, <3>3 DEF A
  <2> QED
    BY <2>1, <2>2, <2>3
<1>4. PICK Q \in Seq(Own(s, Inner)) : plan' = [plan EXCEPT ![s] = Q \o <<unlock>>]
  BY <1>3
<1>5. Q \o <<unlock>> \in Seq(PlanCall)
  BY <1>2, SMT
<1> QED
  BY <1>1, <1>4, <1>5, Starts

-----------------------------------------------------------------------------
(* The drain of a boundary and the end of the sources: the same calls. *)

\* The places before it in its group.
LEMMA PlaceBefore ==
  ASSUME NEW n \in {3, 5}, NEW i \in Nat, NEW d \in 0 .. (i % n)
  PROVE  i - d \in Nat /\ (i - d) \div n = i \div n /\ (i - d) % n = (i % n) - d
<1>1. CASE n = 3
  BY <1>1, SMT
<1>2. CASE n = 5
  BY <1>2, SMT
<1> QED
  BY <1>1, <1>2

\* A list of L calls, call i being number P[i] of n on source Q[i], the n calls on
\* a source in a row: the first locks, and only the last unlocks.
Groups(R, n, L, Q, P) ==
  /\ n \in Nat /\ L \in Nat /\ DOMAIN R = 1 .. L
  /\ \A i \in 1 .. L :
       /\ P[i] \in 1 .. n /\ R[i].at = Q[i]
       /\ R[i].op = "lock" <=> P[i] = 1
       /\ R[i].op = "unlock" <=> P[i] = n
  /\ \A i \in 1 .. L : \A j \in Int :
       i - P[i] < j /\ j <= i => j \in 1 .. L /\ Q[j] = Q[i] /\ P[j] = P[i] - (i - j)

\* A list of groups lock, ..., unlock is covered call by call.
LEMMA Covers ==
  ASSUME NEW u, NEW n, NEW L, NEW Q, NEW P, NEW R, plan'[u] = R, Groups(R, n, L, Q, P)
  PROVE  Guarded(u)'
<1> USE DEF Groups
<1>1. ASSUME NEW i \in 1 .. L, R[i].op # "lock"
      PROVE  Covered(u, i)'
  <2> DEFINE k == i - P[i] + 1
  <2>0. P[i] \in 1 .. n /\ P[i] # 1 /\ i \in Int
    <3>1. R[i].op = "lock" <=> P[i] = 1
      OBVIOUS
    <3>2. i \in Int
      BY SMT
    <3> QED
      BY <1>1, <3>1, <3>2
  <2>1. P[i] \in 2 .. n /\ P[i] \in Int /\ i \in Int /\ k = i - P[i] + 1
        /\ k \in Int /\ i - P[i] < k /\ k < i
    BY <2>0, SMT
  <2> HIDE DEF k
  <2>2. k \in 1 .. i - 1 /\ R[k].op = "lock" /\ R[k].at = R[i].at
    <3>0. i - P[i] < k /\ k <= i /\ k \in Int
      BY <2>1, SMT
    <3>1. k \in 1 .. L /\ Q[k] = Q[i] /\ P[k] = P[i] - (i - k)
      BY <3>0
    <3>2. P[k] = 1 /\ k \in 1 .. i - 1
      BY <3>1, <2>1, SMT
    <3> QED
      BY <3>1, <3>2
  <2>3. ASSUME NEW j \in k .. i - 1
        PROVE  R[j].op # "unlock"
    <3>1. j \in Int /\ i - P[i] < j /\ j < i
      BY <2>1, SMT
    <3>2. j \in 1 .. L /\ P[j] = P[i] - (i - j)
      BY <3>1, SMT
    <3>3. P[j] # n
      BY <3>1, <3>2, <2>1, SMT
    <3> QED
      BY <3>2, <3>3
  <2>4. plan'[u][k].op = "lock" /\ plan'[u][k].at = plan'[u][i].at
    BY <2>2
  <2>5. \A j \in k .. i - 1 : plan'[u][j].op # "unlock"
    BY <2>3
  <2> QED
    BY <2>2, <2>4, <2>5 DEF Covered, Locks, Unlocks
<1> QED
  BY <1>1 DEF Guarded

\* InOrder builds such a list.
LEMMA Grouped ==
  ASSUME ExclusionType, NEW u \in Thread, NEW n \in {3, 5}, NEW G, NEW R, Group(G, n),
         Listed(R, G, n), plan' = [plan EXCEPT ![u] = R]
  PROVE  R \in Seq(PlanCall) /\ Guarded(u)'
<1> DEFINE L == n * Cardinality(Source)
           Q == [i \in 1 .. L |-> (i - 1) \div n]
           P == [i \in 1 .. L |-> ((i - 1) % n) + 1]
<1>1. n \in Nat \ {0} /\ L \in Nat /\ Source \subseteq Int
  BY SourceFact, SMT
<1>2. \A i \in 1 .. L : Q[i] \in Source /\ P[i] \in 1 .. n
  BY Place, SourceFact
<1>3. ASSUME NEW i \in 1 .. L, NEW j \in Int, i - P[i] < j, j <= i
      PROVE  j \in 1 .. L /\ Q[j] = Q[i] /\ P[j] = P[i] - (i - j)
  <2> DEFINE m == i - 1
             d == i - j
  <2>1. m \in Nat /\ d \in Int /\ 0 <= d /\ d < P[i] /\ j - 1 = m - d
    BY <1>1, <1>3, SMT
  <2>2. P[i] = (m % n) + 1 /\ Q[i] = m \div n /\ m % n \in Int
    BY <1>1, <2>1, SMT
  <2> HIDE DEF m, d
  <2>3. d \in 0 .. m % n
    BY <2>1, <2>2, SMT
  <2>4. m - d \in Nat /\ (m - d) \div n = m \div n /\ (m - d) % n = (m % n) - d
    BY <2>1, <2>3, PlaceBefore
  <2>5. j \in 1 .. L
    BY <2>1, <2>4, <1>1, <1>3, SMT
  <2>6. Q[j] = (j - 1) \div n /\ P[j] = ((j - 1) % n) + 1
    BY <2>5
  <2> QED
    BY <2>1, <2>2, <2>4, <2>5, <2>6, SMTT(30)
<1>4. \A i \in 1 .. L : R[i] = G[Q[i]][P[i]]
  BY DEF Listed
<1>5. R \in Seq(PlanCall) /\ DOMAIN R = 1 .. L
  <2>1. \A i \in 1 .. L : G[(i - 1) \div n][((i - 1) % n) + 1] \in PlanCall
    BY <1>2 DEF Group
  <2> QED
    BY <2>1, <1>1, SMTT(30) DEF Listed
<1> HIDE DEF L, Q, P
<1>6. plan'[u] = R
  BY DEF ExclusionType
<1>7. ASSUME NEW i \in 1 .. L
      PROVE  /\ R[i].at = Q[i]
             /\ R[i].op = "lock" <=> P[i] = 1
             /\ R[i].op = "unlock" <=> P[i] = n
  <2>1. Q[i] \in Source /\ P[i] \in 1 .. n /\ R[i] = G[Q[i]][P[i]]
    BY <1>2, <1>4
  <2> QED
    BY <2>1, SMTT(30) DEF Group
<1>8. Groups(R, n, L, Q, P)
  BY <1>1, <1>2, <1>3, <1>5, <1>7 DEF Groups
<1> QED
  BY <1>5, <1>6, <1>8, Covers

\* The control thread checks, polls, drains and requests.
LEMMA DrainExclusion ==
  ASSUME ExclusionInv, ControlPoll
  PROVE  ExclusionInv'
<1>1. /\ lock' = lock /\ finishing' = finishing /\ world' = world /\ waiting' = waiting
      /\ control = "poll" /\ UNCHANGED boundaries
  BY DEF ControlPoll, exitVars
<1>2. CASE command = 0 /\ control' = "check" /\ command' = command /\ plan' = plan
  <2>1. Guarded(Control)' /\ Guarded(Main)'
    BY <1>1, <1>2, SourceFact, Unmoved DEF ExclusionInv
  <2>2. \A s \in Source : CpuInv(s)'
    BY <1>1, <1>2 DEF ExclusionInv, CpuInv
  <2> QED
    BY <1>1, <1>2, <2>1, <2>2 DEF ExclusionInv, ExclusionType, StopInv
<1>3. CASE /\ command > 0 /\ command' = command - 1 /\ control' = "drain"
           /\ plan' = [plan EXCEPT ![Control] = InOrder(DrainCalls)]
  <2> DEFINE G == [s \in Source |-> DrainCalls(s)]
             R == InOrder(DrainCalls)
  <2>1. Group(G, 5)
    BY SMT DEF Group, DrainCalls, Call, PlanCall, Op
  <2>2. Listed(R, G, 5)
    <3>1. Len(DrainCalls(0)) = 5
      BY DEF DrainCalls
    <3>2. \A i \in 1 .. 5 * Cardinality(Source) : (i - 1) \div 5 \in Source
      BY Place, SourceFact
    <3> QED
      BY <3>1, <3>2 DEF InOrder, Listed
  <2> HIDE DEF G, R
  <2>3. ExclusionType /\ Control \in Thread /\ plan' = [plan EXCEPT ![Control] = R]
    BY <1>3, SourceFact DEF ExclusionInv, R
  <2>4. R \in Seq(PlanCall) /\ Guarded(Control)'
    BY <2>1, <2>2, <2>3, Grouped
  <2>5. /\ plan' \in [Thread -> Seq(PlanCall)]
        /\ \A u \in Thread : u # Control => plan'[u] = plan[u]
    BY <2>3, <2>4 DEF ExclusionType
  <2>6. ASSUME NEW s \in Source
        PROVE  CpuInv(s)'
    <3>1. plan'[s] = plan[s] /\ CpuInv(s)
      BY <2>5, SourceFact DEF ExclusionInv
    <3> QED
      BY <3>1, <1>1 DEF CpuInv
  <2>7. Guarded(Main)'
    BY <2>3, <2>5, <1>1, SourceFact, Unmoved DEF ExclusionInv
  <2>8. StopInv' /\ ExclusionType'
    <3>1. command = 1 /\ ~ waiting /\ world = "stopped"
      BY <1>1, <1>3, SMT DEF ExclusionInv, ExclusionType, StopInv
    <3>2. plan'[Main] = plan[Main]
      BY <2>5, SourceFact
    <3> QED
      BY <3>1, <3>2, <2>5, <1>1, <1>3, SMT DEF ExclusionInv, ExclusionType, StopInv
  <2> QED
    BY <2>4, <2>6, <2>7, <2>8 DEF ExclusionInv
<1> QED
  BY <1>2, <1>3 DEF ControlPoll

\* The exit handler ends the sources, stops the collector and completes.
LEMMA EndExclusion ==
  ASSUME ExclusionInv, FinishSources
  PROVE  ExclusionInv'
<1>1. /\ lock' = lock /\ finishing' = "ending" /\ UNCHANGED controlVars /\ finishing = "join"
      /\ control = "returned" /\ plan' = [plan EXCEPT ![Main] = InOrder(EndCalls)]
  BY DEF FinishSources
<1> DEFINE G == [s \in Source |-> EndCalls(s)]
           R == InOrder(EndCalls)
<1>2. Group(G, 3)
  BY SMT DEF Group, EndCalls, Call, PlanCall, Op
<1>3. Listed(R, G, 3)
  <2>1. Len(EndCalls(0)) = 3
    BY DEF EndCalls
  <2>2. \A i \in 1 .. 3 * Cardinality(Source) : (i - 1) \div 3 \in Source
    BY Place, SourceFact
  <2> QED
    BY <2>1, <2>2 DEF InOrder, Listed
<1> HIDE DEF G, R
<1>4. ExclusionType /\ Main \in Thread /\ plan' = [plan EXCEPT ![Main] = R]
  BY <1>1, SourceFact DEF ExclusionInv, R
<1>5. R \in Seq(PlanCall) /\ Guarded(Main)'
  BY <1>2, <1>3, <1>4, Grouped
<1>6. /\ plan' \in [Thread -> Seq(PlanCall)]
      /\ \A u \in Thread : u # Main => plan'[u] = plan[u]
  BY <1>4, <1>5 DEF ExclusionType
<1>7. \A s \in Source : CpuInv(s)'
  BY <1>6, <1>1, SourceFact, SMT DEF ExclusionInv, CpuInv, controlVars
<1>8. Guarded(Control)'
  BY <1>4, <1>6, <1>1, SourceFact, Unmoved DEF ExclusionInv
<1>9. StopInv' /\ ExclusionType'
  <2>1. plan'[Control] = plan[Control]
    BY <1>6, SourceFact
  <2> QED
    BY <2>1, <1>6, <1>1 DEF ExclusionInv, ExclusionType, StopInv, controlVars
<1> QED
  BY <1>5, <1>7, <1>8, <1>9 DEF ExclusionInv

\* The collector, the worker's stop and resume, and the rest of the control
\* thread and the exit handler touch no plan and no mutex.
LEMMA QuietExclusion ==
  ASSUME ExclusionInv,
         \/ Collect \/ ControlCheck \/ ControlRequest \/ FinishCollector \/ FinishComplete
         \/ WorldStop \/ WorldResume \/ FinishBegin \/ UNCHANGED vars
  PROVE  ExclusionInv'
<1>1. plan' = plan /\ lock' = lock
  BY DEF Collect, CollectNothing, CollectFrame, ReleaseFrame, EndPass, ControlCheck,
     ControlRequest, FinishCollector, FinishComplete, WorldStop, WorldResume, FinishBegin, vars
<1>2. Guarded(Control)' /\ Guarded(Main)'
  BY <1>1, SourceFact, Unmoved DEF ExclusionInv
<1>3. StopInv' /\ ExclusionType'
  <2> USE <1>1 DEF ExclusionInv, StopInv, ExclusionType, controlVars, exitVars
  <2>1. CASE Collect
    <3>1. UNCHANGED <<controlVars, finishing>>
      BY <2>1 DEF Collect, CollectNothing, CollectFrame, ReleaseFrame, EndPass
    <3> QED
      BY <3>1
  <2>2. CASE ControlCheck
    BY <2>2 DEF ControlCheck
  <2>3. CASE ControlRequest
    BY <2>3 DEF ControlRequest
  <2>4. CASE FinishCollector
    BY <2>4 DEF FinishCollector
  <2>5. CASE FinishComplete
    BY <2>5 DEF FinishComplete
  <2>6. CASE WorldStop
    BY <2>6, SMT DEF WorldStop
  <2>7. CASE WorldResume
    BY <2>7 DEF WorldResume
  <2>8. CASE FinishBegin
    BY <2>8 DEF FinishBegin
  <2>9. CASE UNCHANGED vars
    BY <2>9 DEF vars
  <2> QED
    BY <2>1, <2>2, <2>3, <2>4, <2>5, <2>6, <2>7, <2>8, <2>9
<1>4. \A s \in Source : plan[s] # <<>> /\ lock[s] # s => world' = "running" /\ finishing' = "no"
  <2>1. CASE WorldStop \/ FinishBegin
    BY <2>1 DEF WorldStop, FinishBegin, NoExecution
  <2>2. CASE \/ Collect \/ ControlCheck \/ ControlRequest \/ FinishCollector \/ FinishComplete
             \/ WorldResume \/ UNCHANGED vars
    BY <2>2 DEF ExclusionInv, CpuInv, Collect, CollectNothing, CollectFrame, ReleaseFrame, EndPass,
       ControlCheck, ControlRequest, FinishCollector, FinishComplete, WorldResume, vars,
       controlVars, exitVars
  <2> QED
    BY <2>1, <2>2
<1>5. \A s \in Source : CpuInv(s)'
  BY <1>1, <1>4 DEF ExclusionInv, CpuInv
<1> QED
  BY <1>2, <1>3, <1>5 DEF ExclusionInv

-----------------------------------------------------------------------------
(* The theorem. *)

\* No plan and no mutex at the start.
LEMMA ExclusionInit == ASSUME Init PROVE ExclusionInv
<1>1. \A t \in Thread : plan[t] = <<>> /\ DOMAIN plan[t] = {}
  BY SMT DEF Init
<1>2. ExclusionType
  <2>1. plan \in [Thread -> Seq(PlanCall)] /\ lock \in [Source -> Thread \cup {Nobody}]
    BY SMT DEF Init
  <2>2. control \in {"check", "poll", "drain", "returned"}
    BY DEF Init
  <2> QED
    BY <2>1, <2>2 DEF Init, ExclusionType
<1>3. StopInv /\ Guarded(Control) /\ Guarded(Main)
  BY <1>1, SourceFact DEF Init, StopInv, Guarded
<1>4. \A s \in Source : CpuInv(s)
  BY <1>1, SourceFact DEF Init, CpuInv
<1> QED
  BY <1>2, <1>3, <1>4 DEF ExclusionInv

\* Every step keeps the invariant.
LEMMA ExclusionStep == ASSUME ExclusionInv, [Next]_vars PROVE ExclusionInv'
<1>1. ASSUME NEW t \in Thread, Step(t)
      PROVE  ExclusionInv'
  BY <1>1, AppendExclusion, FlushExclusion, LockExclusion DEF Step
<1>2. ASSUME NEW s \in Source, Callback(s)
      PROVE  ExclusionInv'
  BY <1>2, ExecutionExclusion, ColdExclusion DEF Callback
<1>3. CASE ControlStep
  BY <1>1, <1>3, ActiveExclusion, DrainExclusion, QuietExclusion, SourceFact DEF ControlStep
<1>4. CASE MainStep
  BY <1>1, <1>4, ActiveExclusion, EndExclusion, QuietExclusion, SourceFact DEF MainStep
<1>5. CASE \/ Collect \/ WorldStop \/ WorldResume \/ FinishBegin \/ Exited \/ UNCHANGED vars
  BY <1>5, QuietExclusion DEF Exited
<1> QED
  BY <1>1, <1>2, <1>3, <1>4, <1>5, SourceFact DEF Next

\* What the invariant says of the calls that are about to run.
LEMMA ExclusionHolds == ASSUME ExclusionInv PROVE BufferExclusive
<1>1. \A s \in Source, t \in Thread : UsesBuffer(t, s) => Inside(t, s)
  BY DEF UsesBuffer, Inside
<1> QED
  BY <1>1, Alone DEF BufferExclusive

\* At most one thread is inside a source's buffer, for every number of vCPUs, ring
\* capacity, frame size and mode: execution callbacks append and flush without a
\* lock, the idle and end callbacks, the drain of an action boundary and the exit
\* handler hold the source's cold mutex, and no execution callback is under way
\* when the last two work on its source.
THEOREM BufferExclusiveTheorem == Spec => []BufferExclusive
<1>1. Init => ExclusionInv
  BY ExclusionInit
<1>2. ExclusionInv /\ [Next /\ UNCHANGED mode]_<<vars, mode>> => ExclusionInv'
  <2>1. [Next /\ UNCHANGED mode]_<<vars, mode>> => [Next]_vars
    OBVIOUS
  <2> QED
    BY <2>1, ExclusionStep
<1>3. ExclusionInv => BufferExclusive
  BY ExclusionHolds
<1> QED
  BY <1>1, <1>2, <1>3, PTL DEF Spec

-----------------------------------------------------------------------------
(* The steps outside the callbacks and the frames of a capture. *)

\* A step of the worker, the control thread or the exit handler that leaves the
\* sources, the rings and the collector alone.
Outside == UNCHANGED <<sourceVars, ringVars, first, step, held, mode>>

\* A step that leaves plans and sources alone.
LEMMA QuietStep ==
  ASSUME FramesInv, plan' = plan, mode' = mode, plan \in [Thread -> Seq(PlanCall)],
         TypeInv', ThreadInv', \A r \in Source : Untouched(r), \A r \in Source : PassInv(r)'
  PROVE  FramesInv'
<1>1. ASSUME NEW u \in Thread
      PROVE  Ordered(plan[u], u)' /\ HeadInv(u)'
  <2>1. Ordered(plan[u], u) /\ HeadInv(u)
    BY DEF FramesInv
  <2>2. Ordered(plan[u], u)'
    BY <2>1
  <2>3. plan[u] # <<>> => plan[u][1].at \in Source
    BY SMT DEF PlanCall
  <2>4. HeadInv(u)'
    BY <2>1, <2>3 DEF HeadInv, Untouched, Still, UseRing
  <2> QED
    BY <2>2, <2>4
<1>2. ASSUME NEW r \in Source
      PROVE  \E h, g, e : Captured(r, h, g, e)'
  <2>1. PICK h, g, e : Captured(r, h, g, e)
    BY DEF FramesInv
  <2> QED
    BY <2>1, Kept
<1> QED
  BY <1>1, <1>2 DEF FramesInv

\* Such a step leaves every source untouched.
LEMMA OutsideFact ==
  ASSUME FramesInv, Outside, plan' = plan, NEW w, stream' = w, \A r \in Source : SameSource(stream, w, r)
  PROVE  \A r \in Source : Untouched(r)
<1> USE DEF Outside, sourceVars, ringVars
<1>1. ASSUME NEW r \in Source
      PROVE  Untouched(r)
  <2>1. (Pushed(r)' <=> Pushed(r)) /\ (HeldAt(r)' <=> HeldAt(r))
    BY DEF Pushed, HeldAt, Visited
  <2> QED
    BY <2>1 DEF Untouched, Still
<1> QED
  BY <1>1

\* The types after such a step.
LEMMA OutsideTypes ==
  ASSUME FramesInv, Outside, collector' \in {"running", "done", "returned"},
         failure' \in {"none", "inactive"}, stream' \in StreamSet
  PROVE  TypeInv'
<1>1. StreamSet' = StreamSet
  BY DEF StreamSet, Features, Kernel, Mixed, Outside
<1> QED
  BY <1>1 DEF FramesInv, TypeInv, Outside, sourceVars, ringVars

\* The worker stops and resumes the world.
LEMMA WorldFrames ==
  ASSUME ExclusionInv, FramesInv, WorldStop \/ WorldResume \/ ControlCheck \/ FinishBegin, mode' = mode
  PROVE  FramesInv'
<1>1. /\ Outside /\ plan' = plan /\ stream' = stream /\ collector' = collector /\ failure' = failure
      /\ waiting' => waiting
      /\ control' = "drain" => control = "drain"
      /\ control' # "returned" => control # "returned"
      /\ finishing' \in {"ending", "collector", "done"} => finishing' = finishing
      /\ finishing \in {"collector", "done"} => finishing' = finishing
      /\ Alive
  BY SMT DEF Outside, WorldStop, WorldResume, ControlCheck, FinishBegin, collectorVars,
     controlVars, exitVars
<1>2. \A r \in Source : Untouched(r)
  BY <1>1, SameFact, OutsideFact
<1>3. TypeInv'
  <2>1. /\ collector' \in {"running", "done", "returned"} /\ failure' \in {"none", "inactive"}
        /\ stream' \in StreamSet
    BY <1>1 DEF FramesInv, TypeInv
  <2> QED
    BY <1>1, <2>1, OutsideTypes
<1>4. ThreadInv'
  BY <1>1 DEF FramesInv, ThreadInv, Outside, Alive, UseRing, Kernel
<1>5. ASSUME NEW r \in Source
      PROVE  PassInv(r)'
  <2>1. PassInv(r)
    BY DEF FramesInv
  <2> QED
    BY <1>1, <2>1 DEF PassInv, Passed, Outside, sourceVars, ringVars
<1> QED
  BY <1>1, <1>2, <1>3, <1>4, <1>5, QuietStep DEF Outside, ExclusionInv, ExclusionType

\* An empty ring, and the end of a pass.
LEMMA PassFrames ==
  ASSUME ExclusionInv, FramesInv, CollectNothing \/ EndPass, mode' = mode
  PROVE  FramesInv'
<1> USE DEF sourceVars, ringVars, controlVars, exitVars
<1>1. /\ UNCHANGED <<sourceVars, ringVars, plan, held, controlVars, exitVars, stream>>
      /\ Alive /\ held = FALSE
  <2>1. EndPass => ~ held
    BY SourceFact, SMT DEF EndPass, FramesInv, ThreadInv
  <2>2. held \in BOOLEAN
    BY DEF FramesInv, TypeInv
  <2>3. ~ held
    BY <2>1 DEF CollectNothing
  <2>4. held = FALSE
    BY <2>2, <2>3
  <2> QED
    BY <2>4 DEF CollectNothing, EndPass, Collecting
<1>2. first' \in Nat /\ step' \in 0 .. Cardinality(Source)
  <2>1. first \in Nat /\ step \in 0 .. Cardinality(Source) /\ Cardinality(Source) \in Nat \ {0}
    BY SourceFact DEF FramesInv, TypeInv
  <2>2. \A m \in Nat, n \in Nat \ {0} : m % n \in Nat
    BY Remainder
  <2>3. CASE CollectNothing
    <3>1. step' = step + 1 /\ first' = first /\ step < Cardinality(Source)
      BY <2>3 DEF CollectNothing, Collecting
    <3>2. step + 1 \in 0 .. Cardinality(Source)
      BY <2>1, <3>1, SMT
    <3> QED
      BY <2>1, <3>1, <3>2
  <2>4. CASE EndPass
    <3>1. first + 1 \in Nat
      BY <2>1, SMT
    <3> QED
      BY <2>1, <2>2, <2>4, <3>1, SMT DEF EndPass
  <2> QED
    BY <2>3, <2>4
<1>3. /\ collector' \in {"running", "done", "returned"}
      /\ collector' = collector \/ (collector = "done" /\ collector' = "returned")
  BY DEF CollectNothing, EndPass, FramesInv, TypeInv
<1>4. TypeInv'
  <2>1. StreamSet' = StreamSet
    BY DEF StreamSet, Features, Kernel, Mixed
  <2> QED
    BY <1>1, <1>2, <1>3, <2>1 DEF FramesInv, TypeInv
<1>5. ThreadInv'
  BY <1>1, <1>3 DEF FramesInv, ThreadInv, Alive, UseRing, Kernel
<1>6. ASSUME NEW r \in Source
      PROVE  Untouched(r)
  <2>1. (Pushed(r)' <=> Pushed(r)) /\ (HeldAt(r)' <=> HeldAt(r))
    BY <1>1 DEF Pushed, HeldAt
  <2> QED
    BY <1>1, <2>1, SameFact DEF Untouched, Still
<1> QED
  BY <1>1, <1>4, <1>5, <1>6, StillStep DEF ExclusionInv, ExclusionType

\* A list of calls on every source.
Lists(R, t) ==
  /\ R # <<>> /\ Ordered(R, t) /\ R[1].op = "lock"
  /\ \A s \in Source : \E i \in DOMAIN R : R[i].at = s

\* The next place of a list, in the same group or at the start of another one.
LEMMA NextPlace ==
  ASSUME NEW n \in {3, 5}, NEW i \in Nat \ {0}
  PROVE  \/ /\ ((i - 1) % n) + 1 < n
            /\ i % n = ((i - 1) % n) + 1 /\ i \div n = (i - 1) \div n
         \/ ((i - 1) % n) + 1 = n /\ i % n = 0
<1>1. CASE n = 3
  BY <1>1, SMT
<1>2. CASE n = 5
  BY <1>2, SMT
<1> QED
  BY <1>1, <1>2

\* The calls of a list, n on each source.
LEMMA ListedFact ==
  ASSUME NEW n \in {3, 5}, NEW G, NEW R, Group(G, n), Listed(R, G, n), NEW t \in {Control, Main},
         \A s \in Source : \A r \in 1 .. n - 1 : Link(G[s][r], G[s][r + 1], t),
         \A s \in Source : \A r \in 1 .. n : G[s][r].op # "append"
  PROVE  Lists(R, t)
<1> DEFINE L == n * Cardinality(Source)
<1>1. /\ n \in Nat \ {0} /\ L \in Nat \ {0} /\ Cardinality(Source) \in Nat \ {0}
      /\ Source = 0 .. Cardinality(Source) - 1 /\ t \notin Source
  BY SourceFact, SMT
<1>2. \A i \in 1 .. L : (i - 1) \div n \in Source /\ ((i - 1) % n) + 1 \in 1 .. n
  BY Place, SourceFact
<1>3. R = [i \in 1 .. L |-> G[(i - 1) \div n][((i - 1) % n) + 1]]
  BY DEF Listed
<1> HIDE DEF L
<1>4. DOMAIN R = 1 .. L /\ Len(R) = L /\ R # <<>>
  <2>1. \A i \in 1 .. L : G[(i - 1) \div n][((i - 1) % n) + 1] \in PlanCall
    BY <1>2 DEF Group
  <2>2. R \in Seq(PlanCall) /\ DOMAIN R = 1 .. L /\ Len(R) = L
    <3>1. R \in [1 .. L -> PlanCall]
      BY <1>3, <2>1
    <3> QED
      BY <1>1, <3>1, ListFact
  <2> QED
    BY <1>1, <2>2
<1>5. \A i \in 1 .. L : R[i] = G[(i - 1) \div n][((i - 1) % n) + 1]
  BY <1>3
<1>6. ASSUME NEW i \in 1 .. L - 1
      PROVE  Link(R[i], R[i + 1], t)
  <2>1. i \in 1 .. L /\ i + 1 \in 1 .. L /\ (i + 1) - 1 = i /\ i - 1 \in Nat /\ i = (i - 1) + 1
    BY <1>1, SMT
  <2> DEFINE q == (i - 1) \div n
             m == (i - 1) % n
  <2>2. /\ R[i] = G[q][m + 1] /\ R[i + 1] = G[i \div n][(i % n) + 1]
        /\ q \in Source /\ m + 1 \in 1 .. n
        /\ i \div n \in Source /\ (i % n) + 1 \in 1 .. n
    BY <1>2, <1>5, <2>1
  <2>3. \/ m + 1 < n /\ i % n = m + 1 /\ i \div n = q
        \/ m + 1 = n /\ i % n = 0
    <3>1. i \in Nat \ {0}
      BY <2>1, SMT
    <3> QED
      BY <3>1, NextPlace
  <2> HIDE DEF q, m
  <2>4. CASE m + 1 < n /\ i % n = m + 1 /\ i \div n = q
    <3>1. m + 1 \in 1 .. n - 1
      BY <1>1, <2>2, <2>4, SMT
    <3>2. R[i + 1] = G[q][(m + 1) + 1]
      BY <2>2, <2>4
    <3> QED
      BY <2>2, <3>1, <3>2
  <2>5. CASE m + 1 = n /\ i % n = 0
    <3>1. R[i].op = "unlock"
      <4>1. G[q][m + 1].op = "unlock"
        BY <2>2, <2>5 DEF Group
      <4> QED
        BY <2>2, <4>1
    <3>2. R[i + 1].op = "lock"
      <4>1. (i % n) + 1 = 1
        BY <2>5, SmallFact
      <4> QED
        BY <2>2, <4>1, SMT DEF Group
    <3> QED
      BY <3>1, <3>2 DEF Link, Pairs
  <2> QED
    BY <2>3, <2>4, <2>5
<1>7. \A i \in 1 .. L : R[i].op # "append"
  BY <1>2, <1>5
<1>8. ASSUME NEW s \in Source
      PROVE  \E i \in DOMAIN R : R[i].at = s
  <2> DEFINE i == n * s + 1
  <2>0. s \in Nat /\ s + 1 <= Cardinality(Source)
    BY <1>1, SMT
  <2>1. i \in 1 .. L /\ (i - 1) \div n = s /\ (i - 1) % n = 0
    <3>1. i - 1 = n * s /\ i \in Nat
      BY <1>1, <2>0, SMT
    <3>2. i \in 1 .. L
      <4>1. CASE n = 3
        BY <1>1, <2>0, <4>1, SMT DEF L
      <4>2. CASE n = 5
        BY <1>1, <2>0, <4>2, SMT DEF L
      <4> QED
        BY <4>1, <4>2
    <3>3. \A m \in Nat : (3 * m) \div 3 = m /\ (3 * m) % 3 = 0 /\ (5 * m) \div 5 = m /\ (5 * m) % 5 = 0
      BY SMT
    <3>4. (n * s) \div n = s /\ (n * s) % n = 0
      BY <2>0, <3>3
    <3> HIDE DEF i
    <3> QED
      BY <3>1, <3>2, <3>4
  <2> HIDE DEF i
  <2>2. R[i] = G[s][1]
    BY <1>5, <2>1, SMT
  <2>3. G[s][1].at = s
    BY <1>1, SMT DEF Group
  <2> QED
    BY <1>4, <2>1, <2>2, <2>3
<1>9. R[1].op = "lock"
  <2>1. 1 \in 1 .. L /\ (1 - 1) % n = 0
    BY <1>1, SMT
  <2>2. R[1] = G[(1 - 1) \div n][1] /\ (1 - 1) \div n \in Source
    BY <1>2, <1>5, <2>1, SMT
  <2> QED
    BY <1>1, <2>2, SMT DEF Group
<1>10. R[Len(R)].op = "unlock"
  <2>1. L \in 1 .. L /\ (L - 1) % n = n - 1
    <3>1. CASE n = 3
      BY <1>1, <3>1, SMT DEF L
    <3>2. CASE n = 5
      BY <1>1, <3>2, SMT DEF L
    <3> QED
      BY <1>1, <3>1, <3>2
  <2>2. R[L] = G[(L - 1) \div n][n] /\ (L - 1) \div n \in Source
    <3>1. (n - 1) + 1 = n
      BY <1>1, SMT
    <3> QED
      BY <1>2, <1>5, <2>1, <3>1
  <2> QED
    BY <1>1, <1>4, <2>2, SMT DEF Group
<1>11. Ordered(R, t)
  BY <1>1, <1>4, <1>6, <1>7, <1>10 DEF Ordered
<1> QED
  BY <1>4, <1>8, <1>9, <1>11 DEF Lists

\* The control thread or the exit handler starts on such a list.
LEMMA ListStep ==
  ASSUME ExclusionInv, FramesInv, NEW t \in {Control, Main}, plan[t] = <<>>, NEW R, Lists(R, t),
         plan' = [plan EXCEPT ![t] = R], Outside, stream' = stream, TypeInv', ThreadInv',
         t = Control => finishing' = finishing,
         t = Main => UNCHANGED <<control, waiting>>
  PROVE  FramesInv'
<1>1. /\ plan \in [Thread -> Seq(PlanCall)] /\ t \in Thread /\ t \notin Source
      /\ Control \in Thread /\ Main \in Thread /\ Control # Main /\ Source \subseteq Thread
  BY SourceFact DEF ExclusionInv, ExclusionType
<1>2. plan'[t] = R /\ \A u \in Thread \ {t} : plan'[u] = plan[u]
  BY <1>1
<1>3. ASSUME NEW r \in Source
      PROVE  Untouched(r)
  <2>1. Pushed(r)' => Pushed(r)
    BY <1>2 DEF Pushed, Lists
  <2>2. Pushed(r) => Pushed(r)'
    BY <1>2 DEF Pushed
  <2>3. HeldAt(r)' <=> HeldAt(r)
    BY DEF HeldAt, Visited, Outside
  <2>4. plan'[r] = plan[r]
    BY <1>1, <1>2
  <2> QED
    BY <2>1, <2>2, <2>3, <2>4, SameFact DEF Untouched, Still, Outside, sourceVars, ringVars
<1>4. ASSUME NEW u \in Thread
      PROVE  Ordered(plan[u], u)' /\ HeadInv(u)'
  <2>1. CASE u = t
    <3>1. Ordered(R, t) /\ R[1].op = "lock"
      BY DEF Lists
    <3>2. Ordered(plan[u], u)'
      BY <1>2, <2>1, <3>1
    <3>3. HeadInv(u)'
      BY <1>2, <2>1, <3>1 DEF HeadInv
    <3> QED
      BY <3>2, <3>3
  <2>2. CASE u # t
    <3>1. Ordered(plan[u], u) /\ HeadInv(u) /\ plan[u] \in Seq(PlanCall) /\ plan'[u] = plan[u]
      BY <1>1, <1>2, <2>2 DEF FramesInv
    <3>2. Ordered(plan[u], u)'
      BY <3>1
    <3>3. plan[u] # <<>> => plan[u][1].at \in Source
      BY <3>1, SMT DEF PlanCall
    <3>4. HeadInv(u)'
      BY <3>1, <3>3 DEF HeadInv, UseRing, Outside, sourceVars, ringVars
    <3> QED
      BY <3>2, <3>4
  <2> QED
    BY <2>1, <2>2
<1>5. ASSUME NEW r \in Source
      PROVE  PassInv(r)'
  <2>1. ~ Passed(t, r)'
    BY <1>2 DEF Passed, Lists
  <2>2. PassInv(r) /\ plan'[r] = plan[r]
    BY <1>1, <1>2 DEF FramesInv
  <2>3. CASE t = Control
    <3>1. plan'[Main] = plan[Main]
      BY <1>1, <1>2, <2>3
    <3> QED
      BY <2>1, <2>2, <2>3, <3>1 DEF PassInv, Passed, Outside, sourceVars, ringVars
  <2>4. CASE t = Main
    <3>1. plan'[Control] = plan[Control]
      BY <1>1, <1>2, <2>4
    <3> QED
      BY <2>1, <2>2, <2>4, <3>1, SMT DEF PassInv, Passed, Outside, sourceVars, ringVars
  <2> QED
    BY <2>3, <2>4
<1>6. ASSUME NEW r \in Source
      PROVE  \E h, g, e : Captured(r, h, g, e)'
  <2>1. PICK h, g, e : Captured(r, h, g, e)
    BY DEF FramesInv
  <2> QED
    BY <1>3, <2>1, Kept
<1> QED
  BY <1>4, <1>5, <1>6 DEF FramesInv

\* A drain starts, or a poll finds that the process closes.
LEMMA PollFrames ==
  ASSUME ExclusionInv, FramesInv, ControlPoll, mode' = mode
  PROVE  FramesInv'
<1>1. /\ Outside /\ stream' = stream /\ collector' = collector /\ failure' = failure
      /\ UNCHANGED <<waiting, finishing>> /\ Alive /\ control = "poll"
  BY DEF Outside, ControlPoll, collectorVars, exitVars
<1>2. TypeInv'
  <2>1. /\ collector' \in {"running", "done", "returned"} /\ failure' \in {"none", "inactive"}
        /\ stream' \in StreamSet
    BY <1>1 DEF FramesInv, TypeInv
  <2> QED
    BY <1>1, <2>1, OutsideTypes
<1>3. Kernel
  BY <1>1 DEF FramesInv, ThreadInv
<1>4. ThreadInv'
  BY <1>1, <1>3 DEF FramesInv, ThreadInv, Outside, Alive, UseRing, Kernel
<1>5. CASE control' = "check" /\ plan' = plan
  <2>1. \A r \in Source : Untouched(r)
    BY <1>1, <1>5, SameFact, OutsideFact
  <2>2. ASSUME NEW r \in Source
        PROVE  PassInv(r)'
    <3>1. PassInv(r)
      BY DEF FramesInv
    <3> QED
      BY <1>1, <1>5, <3>1 DEF PassInv, Passed, Outside, sourceVars, ringVars
  <2> QED
    BY <1>1, <1>2, <1>4, <1>5, <2>1, <2>2, QuietStep DEF Outside, ExclusionInv, ExclusionType
<1>6. CASE control' = "drain" /\ plan' = [plan EXCEPT ![Control] = InOrder(DrainCalls)]
  <2> DEFINE G == [s \in Source |-> DrainCalls(s)]
             R == InOrder(DrainCalls)
  <2>1. Group(G, 5)
    BY SMT DEF Group, DrainCalls, Call, PlanCall, Op
  <2>2. Listed(R, G, 5)
    <3>1. Len(DrainCalls(0)) = 5
      BY DEF DrainCalls
    <3>2. \A i \in 1 .. 5 * Cardinality(Source) : (i - 1) \div 5 \in Source
      BY Place, SourceFact
    <3> QED
      BY <3>1, <3>2 DEF InOrder, Listed
  <2>3. ASSUME NEW s \in Source
        PROVE  /\ \A r \in 1 .. 4 : Link(G[s][r], G[s][r + 1], Control)
               /\ \A r \in 1 .. 5 : G[s][r].op # "append"
    <3>1. /\ G[s][1].op = "lock" /\ G[s][2].op = "require" /\ G[s][3].op = "flush"
          /\ G[s][4].op = "wait" /\ G[s][5].op = "unlock"
          /\ \A r \in 1 .. 5 : G[s][r].at = s
      BY SMT DEF DrainCalls, Call
    <3>2. \A r \in 1 .. 5 : r = 1 \/ r = 2 \/ r = 3 \/ r = 4 \/ r = 5
      BY SMT
    <3>3. \A r \in 1 .. 4 : \/ (r = 1 /\ r + 1 = 2) \/ (r = 2 /\ r + 1 = 3) \/ (r = 3 /\ r + 1 = 4)
                           \/ (r = 4 /\ r + 1 = 5)
      BY SMT
    <3>4. 1 \in 1 .. 5 /\ 2 \in 1 .. 5 /\ 3 \in 1 .. 5 /\ 4 \in 1 .. 5 /\ 5 \in 1 .. 5
      BY SMT
    <3> HIDE DEF G
    <3>5. /\ Link(G[s][1], G[s][2], Control) /\ Link(G[s][2], G[s][3], Control)
          /\ Link(G[s][3], G[s][4], Control) /\ Link(G[s][4], G[s][5], Control)
      BY <3>1, <3>4 DEF Link, Pairs
    <3> QED
      BY <3>1, <3>2, <3>3, <3>5
  <2> HIDE DEF G, R
  <2>4. 5 - 1 = 4
    BY SMT
  <2>5. Lists(R, Control)
    BY <2>1, <2>2, <2>3, <2>4, ListedFact
  <2>6. plan[Control] = <<>> /\ plan' = [plan EXCEPT ![Control] = R]
    BY <1>1, <1>6 DEF ExclusionInv, StopInv, R
  <2> QED
    BY <1>1, <1>2, <1>4, <2>5, <2>6, SourceFact, ListStep
<1> QED
  BY <1>5, <1>6 DEF ControlPoll

\* The exit handler starts to end the sources.
LEMMA EndingFrames ==
  ASSUME ExclusionInv, FramesInv, FinishSources, mode' = mode
  PROVE  FramesInv'
<1>1. /\ Outside /\ stream' = stream /\ collector' = collector /\ failure' = failure
      /\ UNCHANGED <<waiting, control>> /\ Alive /\ finishing = "join" /\ finishing' = "ending"
      /\ plan' = [plan EXCEPT ![Main] = InOrder(EndCalls)]
  BY DEF Outside, FinishSources, collectorVars, controlVars
<1>2. TypeInv'
  <2>1. /\ collector' \in {"running", "done", "returned"} /\ failure' \in {"none", "inactive"}
        /\ stream' \in StreamSet
    BY <1>1 DEF FramesInv, TypeInv
  <2> QED
    BY <1>1, <2>1, OutsideTypes
<1>3. ThreadInv'
  BY <1>1 DEF FramesInv, ThreadInv, Outside, Alive, UseRing, Kernel
<1> DEFINE G == [s \in Source |-> EndCalls(s)]
           R == InOrder(EndCalls)
<1>4. Group(G, 3)
  BY SMT DEF Group, EndCalls, Call, PlanCall, Op
<1>5. Listed(R, G, 3)
  <2>1. Len(EndCalls(0)) = 3
    BY DEF EndCalls
  <2>2. \A i \in 1 .. 3 * Cardinality(Source) : (i - 1) \div 3 \in Source
    BY Place, SourceFact
  <2> QED
    BY <2>1, <2>2 DEF InOrder, Listed
<1>6. ASSUME NEW s \in Source
      PROVE  /\ \A r \in 1 .. 2 : Link(G[s][r], G[s][r + 1], Main)
             /\ \A r \in 1 .. 3 : G[s][r].op # "append"
  <2>1. /\ G[s][1].op = "lock" /\ G[s][2].op = "end_active" /\ G[s][3].op = "unlock"
        /\ G[s][1].at = s /\ G[s][2].at = s /\ G[s][3].at = s
    BY DEF EndCalls, Call
  <2>2. \A r \in 1 .. 3 : r = 1 \/ r = 2 \/ r = 3
    BY SMT
  <2>3. \A r \in 1 .. 2 : (r = 1 /\ r + 1 = 2) \/ (r = 2 /\ r + 1 = 3)
    BY SMT
  <2> HIDE DEF G
  <2>4. Link(G[s][1], G[s][2], Main) /\ Link(G[s][2], G[s][3], Main)
    BY <2>1, SourceFact DEF Link, Pairs
  <2> QED
    BY <2>1, <2>2, <2>3, <2>4
<1> HIDE DEF G, R
<1>7. 3 - 1 = 2
  BY SMT
<1>8. Lists(R, Main)
  BY <1>4, <1>5, <1>6, <1>7, ListedFact
<1>9. plan[Main] = <<>> /\ plan' = [plan EXCEPT ![Main] = R]
  BY <1>1 DEF ExclusionInv, StopInv, R
<1> QED
  BY <1>1, <1>2, <1>3, <1>8, <1>9, SourceFact, ListStep

\* A source that an empty plan of the control thread or exit handler has passed.
LEMMA DrainedFact ==
  ASSUME FramesInv, NEW s \in Source, NEW h, NEW g, NEW e, Captured(s, h, g, e), plan[s] = <<>>,
         buffer[s] = <<>>, ring[s] = <<>>
  PROVE  /\ Reached(s, e) = e /\ e = Len(h) /\ Expects(stream, s, g, e)
         /\ s \in stream.data => s \in stream.ended \/ (s \in stream.schema /\ s \in stream.sampled)
<1>1. e = Len(h) /\ e \in Nat
  <2>1. Idle(s, h, g, e)
    BY IdleFact
  <2> QED
    BY <2>1 DEF Idle
<1>2. Framed(s, e) = e
  <2>1. Len(buffer[s]) = 0
    BY SMT
  <2> QED
    BY <1>1, <2>1, SMT DEF Framed
<1>3. ~ HeldAt(s)
  BY DEF Captured, RingInv
<1>4. Reached(s, e) = e /\ Expects(stream, s, g, e)
  BY <1>2, <1>3 DEF Reached, Captured, AcceptedInv
<1>5. ASSUME s \in stream.data, s \notin stream.ended
      PROVE  s \in stream.schema /\ s \in stream.sampled
  <2>1. e >= 2 /\ Position(stream, s) = e /\ (s \in stream.sampled <=> g[e].sampled)
    BY <1>4, <1>5 DEF Expects
  <2>2. g[e].sampled
    BY <1>1, <2>1 DEF Captured, RowsInv
  <2>3. s \in stream.schema
    BY <2>1, SMT DEF Position
  <2> QED
    BY <2>1, <2>2, <2>3
<1> QED
  BY <1>1, <1>4, <1>5

\* Nothing changes.
LEMMA StutterFrames ==
  ASSUME ExclusionInv, FramesInv, UNCHANGED <<vars, mode>>
  PROVE  FramesInv'
<1> USE DEF vars, sourceVars, ringVars, collectorVars, controlVars, exitVars
<1>1. Outside /\ plan' = plan /\ stream' = stream /\ UNCHANGED <<mode, control, waiting, finishing>>
  BY DEF Outside
<1>2. \A r \in Source : Untouched(r)
  BY <1>1, SameFact, OutsideFact
<1>3. TypeInv'
  <2>1. /\ collector' \in {"running", "done", "returned"} /\ failure' \in {"none", "inactive"}
        /\ stream' \in StreamSet
    BY DEF FramesInv, TypeInv
  <2> QED
    BY <1>1, <2>1, OutsideTypes
<1>4. ThreadInv'
  BY DEF FramesInv, ThreadInv, Alive, UseRing, Kernel
<1> QED
  BY <1>1, <1>2, <1>3, <1>4, StillStep DEF ExclusionInv, ExclusionType
=============================================================================
