---------------------------- MODULE CaptureCalls ----------------------------
(***************************************************************************)
(* What a call of a plan does to the source it is about and to the others, *)
(* and what the Stream of the worker does with a frame: the facts that the *)
(* proofs about buffers and about frames share.                            *)
(***************************************************************************)
EXTENDS CaptureInvariant, TLAPS

\* A step is a matter of logic, unless it cites SMT for arithmetic or sequences.
USE ZenonT(30)

\* vCPUs, threads and nobody are told apart.
LEMMA SourceFact ==
  /\ Cardinality(Source) \in Nat \ {0} /\ 0 \in Source
  /\ Source = 0 .. Cardinality(Source) - 1
  /\ Control \notin Source /\ Main \notin Source /\ Nobody \notin Thread
  /\ Control # Main /\ Source \subseteq Int /\ Source \subseteq Thread
  /\ Control \in Thread /\ Main \in Thread
  BY SourceAssumption, SMT DEF Thread, Control, Main, Nobody

\* A sequence and its places.
LEMMA SeqFact ==
  ASSUME NEW S, NEW P \in Seq(S)
  PROVE  /\ Len(P) \in Nat /\ DOMAIN P = 1 .. Len(P)
         /\ P # <<>> => Len(P) \in Nat \ {0} /\ 1 \in 1 .. Len(P) /\ Len(P) \in 1 .. Len(P)
                         /\ Head(P) = P[1] /\ P[1] \in S /\ P[Len(P)] \in S
         /\ P = <<>> => Len(P) = 0
  BY SMT

\* A function on 1 .. n is a sequence.
LEMMA ListFact ==
  ASSUME NEW S, NEW n \in Nat, NEW P \in [1 .. n -> S]
  PROVE  P \in Seq(S) /\ Len(P) = n /\ DOMAIN P = 1 .. n
  BY SMT

\* No calls at all.
LEMMA EmptyFact ==
  ASSUME NEW S
  PROVE  <<>> \in Seq(S) /\ DOMAIN <<>> = {} /\ Len(<<>>) = 0
  BY SMT

\* Counting.
LEMMA PlusNothing == \A a \in Nat : a + 0 = a /\ a - 0 = a
  BY SMT

\* a and b together are c.
Counted(a, b, c) == a \in Nat /\ b \in Nat /\ a + b = c

\* One more.
LEMMA PlusOne ==
  ASSUME NEW a, NEW b, NEW c, Counted(a, b, c)
  PROVE  a + (b + 1) = c + 1
  BY SMT DEF Counted

\* Small numbers.
LEMMA SmallFact ==
  /\ ~ (0 >= 1) /\ 1 >= 1 /\ 2 >= 1 /\ 0 # 1 /\ 0 \in {0, 1} /\ 1 \in {0, 1}
  /\ 0 + 1 = 1 /\ 2 - 1 = 1 /\ 1 .. 0 = {}
  /\ \A i \in 1 .. 1 : i = 1
  /\ \A a \in 0 .. 2 : a # 0 => 1 \in 1 .. a
  BY SMT

\* More than one.
LEMMA TwoFact == \A a \in Nat \ {0} : a # 1 => a >= 2 /\ 1 \in 1 .. a - 1
  BY SMT

\* What is left of a division.
LEMMA Remainder == \A a \in Nat, b \in Nat \ {0} : a % b \in Nat
  BY SMT

\* Place i of a plan of a calls, of which the first becomes q calls.
LEMMA Shifted ==
  ASSUME NEW q \in Nat, NEW a \in Nat, NEW b, b = q + a - 1, NEW i \in 1 .. a, i # 1
  PROVE  i + q - 1 \in 1 .. b /\ i + q - 1 > q /\ (i + q - 1) - q + 1 = i
  BY SMT

\* Its second place.
LEMMA SecondShifted ==
  ASSUME NEW q \in Nat, NEW a \in Nat, NEW b, b = q + a - 1, a >= 2
  PROVE  q + 1 \in 1 .. b /\ q + 1 > q /\ (q + 1) - q + 1 = 2
  BY SMT

\* A plan whose first call is replaced by the calls Q.
LEMMA PlanFact ==
  ASSUME NEW P \in Seq(PlanCall), P # <<>>, NEW Q \in Seq(PlanCall), NEW R, R = Q \o Tail(P)
  PROVE  /\ R \in Seq(PlanCall) /\ Len(P) \in Nat \ {0} /\ Len(Q) \in Nat
         /\ Len(R) = Len(Q) + Len(P) - 1 /\ DOMAIN R = 1 .. Len(R) /\ DOMAIN P = 1 .. Len(P)
         /\ DOMAIN Q = 1 .. Len(Q) /\ Head(P) = P[1] /\ P[1] \in PlanCall
         /\ \A i \in 1 .. Len(Q) : R[i] = Q[i]
         /\ \A i \in 1 .. Len(R) : i > Len(Q) => R[i] = P[i - Len(Q) + 1]
         /\ R # <<>> <=> Len(R) > 0
<1>1. Tail(P) \in Seq(PlanCall) /\ Len(Tail(P)) = Len(P) - 1 /\ Len(P) \in Nat \ {0}
      /\ \A i \in 1 .. Len(P) - 1 : Tail(P)[i] = P[i + 1]
  BY SMT
<1>2. Len(Q) \in Nat /\ DOMAIN Q = 1 .. Len(Q)
  BY SMT
<1>3. R \in Seq(PlanCall) /\ Len(R) = Len(Q) + Len(P) - 1
      /\ \A i \in 1 .. Len(R) : R[i] = IF i <= Len(Q) THEN Q[i] ELSE Tail(P)[i - Len(Q)]
  BY <1>1, <1>2, SMT
<1>4. DOMAIN P = 1 .. Len(P) /\ Head(P) = P[1] /\ P[1] \in PlanCall
  BY <1>1, SMT
<1>5. DOMAIN R = 1 .. Len(R) /\ (R # <<>> <=> Len(R) > 0)
  BY <1>3, SMTT(30)
<1>6. ASSUME NEW i \in 1 .. Len(R), i > Len(Q)
      PROVE  R[i] = P[i - Len(Q) + 1]
  BY <1>1, <1>2, <1>3, <1>6, SMT
<1>7. ASSUME NEW i \in 1 .. Len(Q)
      PROVE  R[i] = Q[i]
  BY <1>1, <1>2, <1>3, <1>7, SMT
<1> QED
  BY <1>1, <1>2, <1>3, <1>4, <1>5, <1>6, <1>7

\* The call that a thread is about to make.
LEMMA HeadCall ==
  ASSUME ExclusionInv, NEW t \in Thread, NEW op, NEW s, Calls(t, op, s)
  PROVE  /\ plan[t] \in Seq(PlanCall) /\ plan[t] # <<>> /\ Len(plan[t]) \in Nat \ {0}
         /\ DOMAIN plan[t] = 1 .. Len(plan[t]) /\ plan[t][1].op = op /\ plan[t][1].at = s
<1>1. plan[t] \in Seq(PlanCall)
  BY DEF ExclusionInv, ExclusionType
<1>2. plan[t] # <<>> /\ Head(plan[t]).op = op /\ Head(plan[t]).at = s
  BY DEF Calls
<1>3. \A P \in Seq(PlanCall) :
        P # <<>> => Len(P) \in Nat \ {0} /\ DOMAIN P = 1 .. Len(P) /\ Head(P) = P[1]
  BY SMT
<1> QED
  BY <1>1, <1>2, <1>3

\* At most one thread is inside a source.
LEMMA Alone ==
  ASSUME ExclusionInv, NEW s \in Source, NEW t \in Thread, Inside(t, s),
         NEW u \in Thread, Inside(u, s)
  PROVE  t = u
<1> SUFFICES ASSUME t # u PROVE FALSE
  OBVIOUS
<1>1. ASSUME NEW v \in Thread, Inside(v, s)
      PROVE  /\ plan[v] # <<>> /\ 1 \in DOMAIN plan[v] /\ plan[v][1].at = s
             /\ plan[v][1].op # "lock"
  BY <1>1, SMTT(30) DEF Inside, ExclusionInv, ExclusionType
<1>2. ASSUME NEW v \in Source, Inside(v, s)
      PROVE  v = s
  <2>1. v \in Thread /\ CpuInv(v)
    BY SourceFact DEF ExclusionInv
  <2>2. 1 \in DOMAIN plan[v] /\ plan[v][1].at = s
    BY <2>1, <1>1, <1>2
  <2> QED
    BY <2>1, <2>2 DEF CpuInv
<1>3. ASSUME NEW v \in {Control, Main}, Inside(v, s)
      PROVE  lock[s] = v
  <2>1. Guarded(v) /\ v \in Thread
    BY SourceFact DEF ExclusionInv
  <2>2. Covered(v, 1)
    BY <2>1, <1>1, <1>3 DEF Guarded
  <2> QED
    BY <2>1, <2>2, <1>1, <1>3, SMTT(30) DEF Covered
<1>4. ASSUME Inside(s, s), lock[s] # s
      PROVE  world = "running" /\ finishing = "no"
  <2>1. s \in Thread /\ CpuInv(s)
    BY SourceFact DEF ExclusionInv
  <2>2. plan[s] # <<>>
    BY <1>1, <1>4, <2>1
  <2> QED
    BY <1>4, <2>1, <2>2 DEF CpuInv
<1>5. Inside(Control, s) => control = "drain" /\ world = "stopped"
  BY <1>1, SourceFact DEF ExclusionInv, ExclusionType, StopInv
<1>6. Inside(Main, s) => finishing = "ending"
  BY <1>1, SourceFact DEF ExclusionInv, StopInv
<1>7. t \in {s, Control, Main} /\ u \in {s, Control, Main}
  BY <1>2 DEF Thread
<1> QED
  BY <1>3, <1>4, <1>5, <1>6, <1>7, SourceFact, SMT

\* Place i of a list of groups of n calls.
LEMMA Place ==
  ASSUME NEW n \in {3, 5}, NEW N \in Nat, NEW i \in 1 .. n * N
  PROVE  /\ (i - 1) \div n \in 0 .. N - 1 /\ ((i - 1) % n) + 1 \in 1 .. n
         /\ i = n * ((i - 1) \div n) + ((i - 1) % n) + 1
<1>1. CASE n = 3
  BY <1>1, SMT
<1>2. CASE n = 5
  BY <1>2, SMT
<1> QED
  BY <1>1, <1>2

\* A list of the groups G[s].
Group(G, n) ==
  \A s \in Source : \A r \in 1 .. n :
    /\ G[s][r] \in PlanCall /\ G[s][r].at = s
    /\ G[s][r].op = "lock" <=> r = 1
    /\ G[s][r].op = "unlock" <=> r = n

Listed(R, G, n) ==
  R = [i \in 1 .. n * Cardinality(Source) |-> G[(i - 1) \div n][((i - 1) % n) + 1]]

-----------------------------------------------------------------------------
(* Plans and the rows they append. *)

\* Plan R is plan P with its first call replaced by q calls.
Replaces(R, P, q) ==
  /\ P \in Seq(PlanCall) /\ P # <<>> /\ R \in Seq(PlanCall) /\ q \in Nat
  /\ Len(R) = q + Len(P) - 1
  /\ \A i \in 1 .. Len(R) : i > q => R[i] = P[i - q + 1]

\* The calls of the plan after its first are still there, and those are all when
\* no call stands for the first.
Remains(R, P, q) ==
  /\ \A i \in DOMAIN P : i # 1 => \E j \in DOMAIN R : R[j] = P[i]
  /\ q = 0 => \A i \in DOMAIN R : \E j \in DOMAIN P : R[i] = P[j]

\* So it is in every plan in which q calls stand for the first.
LEMMA Remain ==
  ASSUME NEW P, NEW R, NEW q, Replaces(R, P, q)
  PROVE  Remains(R, P, q)
<1>1. /\ Len(P) \in Nat \ {0} /\ DOMAIN P = 1 .. Len(P) /\ DOMAIN R = 1 .. Len(R) /\ q \in Nat
      /\ Len(R) = q + Len(P) - 1 /\ \A i \in 1 .. Len(R) : i > q => R[i] = P[i - q + 1]
  BY SeqFact, SMTT(30) DEF Replaces
<1>2. ASSUME NEW i \in DOMAIN P, i # 1
      PROVE  i + q - 1 \in DOMAIN R /\ R[i + q - 1] = P[i]
  BY <1>1, <1>2, SMT
<1>3. ASSUME q = 0, NEW i \in DOMAIN R
      PROVE  i + 1 \in DOMAIN P /\ R[i] = P[i + 1]
  BY <1>1, <1>3, SMT
<1> QED
  BY <1>2, <1>3 DEF Remains

\* The second call of a plan becomes its first.
LEMMA Second ==
  ASSUME NEW P, NEW R, Replaces(R, P, 0), R # <<>>
  PROVE  Len(P) >= 2 /\ R[1] = P[2]
<1>1. Len(R) \in Nat \ {0} /\ Len(P) \in Nat /\ Len(R) = 0 + Len(P) - 1
      /\ \A i \in 1 .. Len(R) : i > 0 => R[i] = P[i - 0 + 1]
  BY SeqFact DEF Replaces
<1> QED
  BY <1>1, SMT

\* What comes after the taking of a mutex.
LEMMA AfterLock ==
  ASSUME NEW t, NEW a, NEW b, Link(a, b, t), a.op = "lock"
  PROVE  b.at = a.at /\ b.op \in {"require", "end_active"}
  BY SMT DEF Link, Pairs

\* The rest of a plan.
LEMMA Rest ==
  ASSUME NEW P, NEW R, Replaces(R, P, 0)
  PROVE  /\ Len(P) \in Nat \ {0} /\ DOMAIN P = 1 .. Len(P)
         /\ Len(R) \in Nat /\ DOMAIN R = 1 .. Len(R) /\ Len(R) = Len(P) - 1
         /\ \A j \in 1 .. Len(R) : R[j] = P[j + 1]
<1>1. /\ Len(P) \in Nat \ {0} /\ DOMAIN P = 1 .. Len(P) /\ Len(R) \in Nat /\ DOMAIN R = 1 .. Len(R)
      /\ Len(R) = 0 + Len(P) - 1 /\ \A j \in 1 .. Len(R) : j > 0 => R[j] = P[j - 0 + 1]
  BY SeqFact DEF Replaces
<1>2. 0 + Len(P) - 1 = Len(P) - 1 /\ \A j \in 1 .. Len(R) : j > 0 /\ j - 0 + 1 = j + 1
  BY <1>1, SMT
<1> QED
  BY <1>1, <1>2

\* Another call is made, or a flush becomes the count of its frame.
LEMMA PlanDrop ==
  ASSUME NEW s \in Source, NEW h \in Seq(Row), NEW e \in 0 .. Len(h), NEW P,
         PlanRows(P, s, h, e), P[1].op # "append",
         NEW R, NEW q \in {0, 1}, Replaces(R, P, q),
         q = 1 => P[1].op = "flush" /\ R[1].op = "count"
  PROVE  PlanRows(R, s, h, e)
<1> DEFINE n == Len(h) - e
<1>0. /\ Len(h) \in Nat /\ e \in Nat /\ n \in Nat /\ Len(P) \in Nat \ {0} /\ 1 \in 1 .. Len(P)
      /\ Len(R) = q + Len(P) - 1 /\ Len(R) \in Nat /\ (R # <<>> <=> Len(R) > 0) /\ P # <<>>
      /\ \A i \in 1 .. Len(R) : i > q => R[i] = P[i - q + 1]
  BY SMT DEF Replaces
<1>1. ASSUME n = 0
      PROVE  PlanRows(R, s, h, e)
  <2>1. Offset(P) \in {0, 1}
    BY DEF Offset
  <2>2. \A i \in 1 .. Len(P) : P[i].op # "append"
    BY <1>0, <1>1, <2>1, SMT DEF PlanRows
  <2>3. \A i \in 1 .. Len(R) : R[i].op # "append"
    <3> TAKE i \in 1 .. Len(R)
    <3>1. CASE i > q
      <4>1. R[i] = P[i - q + 1]
        BY <1>0, <3>1
      <4>2. i - q + 1 \in 1 .. Len(P)
        BY <1>0, <3>1, SMT
      <4> QED
        BY <2>2, <4>1, <4>2
    <3>2. CASE ~ (i > q)
      BY <1>0, <3>2, SMT
    <3> QED
      BY <3>1, <3>2
  <2>4. Offset(R) \in {0, 1} /\ Offset(R) <= Len(R)
    BY <1>0, SMT DEF Offset
  <2> QED
    BY <1>0, <1>1, <2>3, <2>4, SMT DEF PlanRows
<1>2. ASSUME n # 0
      PROVE  PlanRows(R, s, h, e)
  <2>1. Offset(P) = 1
    <3>1. Offset(P) = 0 => P[1].op = "append"
      <4>1. 1 \in 1 .. n
        BY <1>0, <1>2, SMT
      <4>2. P[Offset(P) + 1] \in [op : {"append"}, at : {s}, row : Row]
        BY <4>1 DEF PlanRows
      <4> QED
        BY <4>2, SMT
    <3> QED
      BY <3>1 DEF Offset
  <2>2. /\ 1 + n <= Len(P)
        /\ \A j \in 1 .. n :
             P[1 + j] \in [op : {"append"}, at : {s}, row : Row] /\ Match(P[1 + j].row, h[e + j])
        /\ \A i \in 1 .. Len(P) : P[i].op = "append" => i > 1 /\ i <= 1 + n
    BY <1>0, <2>1 DEF PlanRows
  <2>3. Offset(R) = q
    <3>1. CASE q = 1
      BY <1>0, <3>1, SMT DEF Offset
    <3>2. CASE q = 0
      <4>1. R[1] = P[2] /\ P[2].op = "append"
        BY <1>0, <1>2, <2>2, <3>2, SMTT(30)
      <4> QED
        BY <3>2, <4>1 DEF Offset
    <3> QED
      BY <3>1, <3>2
  <2>4. \A j \in 1 .. n : q + j \in 1 .. Len(R) /\ R[q + j] = P[1 + j]
    <3> TAKE j \in 1 .. n
    <3>1. q + j \in 1 .. Len(R) /\ q + j > q /\ (q + j) - q + 1 = 1 + j
      BY <1>0, <2>2, SMT
    <3> QED
      BY <1>0, <3>1
  <2>5. ASSUME NEW i \in 1 .. Len(R), R[i].op = "append"
        PROVE  i > q /\ i <= q + n
    <3>1. i > q
      BY <1>0, <2>5, SMT
    <3>2. i - q + 1 \in 1 .. Len(P) /\ R[i] = P[i - q + 1]
      BY <1>0, <3>1, SMT
    <3>3. i - q + 1 <= 1 + n
      BY <2>2, <2>5, <3>2
    <3> QED
      BY <1>0, <3>1, <3>3, SMT
  <2>6. q + n <= Len(R) /\ Offset(R) + Len(h) - e = q + n
    BY <1>0, <2>2, <2>3, SMT
  <2> QED
    BY <2>2, <2>3, <2>4, <2>5, <2>6 DEF PlanRows
<1> QED
  BY <1>1, <1>2

\* The calls that replace the head of a plan keep its order.
LEMMA OrderReplaced ==
  ASSUME NEW t, NEW P, Ordered(P, t), NEW R, NEW q \in Nat, Replaces(R, P, q),
         \A i \in 1 .. q - 1 : Link(R[i], R[i + 1], t),
         q >= 1 /\ Len(P) >= 2 => Link(R[q], P[2], t),
         t \notin Source => \A i \in 1 .. q : R[i].op # "append",
         t \notin Source /\ q >= 1 => P[1].op # "unlock"
  PROVE  Ordered(R, t)
<1>0. /\ Len(P) \in Nat \ {0} /\ Len(R) = q + Len(P) - 1 /\ Len(R) \in Nat /\ P # <<>>
      /\ (R # <<>> <=> Len(R) > 0)
      /\ \A i \in 1 .. Len(R) : i > q => R[i] = P[i - q + 1]
  BY SMT DEF Replaces
<1>1. ASSUME NEW i \in 1 .. Len(R) - 1
      PROVE  Link(R[i], R[i + 1], t)
  <2>1. CASE i < q
    BY <2>1, SMT
  <2>2. CASE i = q
    <3>1. Len(P) >= 2 /\ q + 1 \in 1 .. Len(R) /\ (q + 1) - q + 1 = 2 /\ q >= 1
      BY <1>0, <2>2, SMT
    <3>2. R[q + 1] = P[2]
      BY <1>0, <3>1, SMT
    <3> QED
      BY <2>2, <3>1, <3>2
  <2>3. CASE i > q
    <3>1. /\ i \in 1 .. Len(R) /\ i + 1 \in 1 .. Len(R) /\ i - q + 1 \in 1 .. Len(P) - 1
          /\ (i + 1) - q + 1 = (i - q + 1) + 1 /\ i + 1 > q
      BY <1>0, <2>3, SMT
    <3>2. R[i] = P[i - q + 1] /\ R[i + 1] = P[(i - q + 1) + 1]
      BY <1>0, <2>3, <3>1
    <3>3. Link(P[i - q + 1], P[(i - q + 1) + 1], t)
      BY <3>1 DEF Ordered
    <3> QED
      BY <3>2, <3>3
  <2> QED
    BY <1>0, <2>1, <2>2, <2>3, SMT
<1>2. ASSUME t \notin Source, NEW i \in 1 .. Len(R)
      PROVE  R[i].op # "append"
  <2>1. CASE i > q
    <3>1. i - q + 1 \in 1 .. Len(P) /\ R[i] = P[i - q + 1]
      BY <1>0, <2>1, SMT
    <3> QED
      BY <1>2, <3>1 DEF Ordered
  <2> QED
    BY <1>0, <1>2, <2>1, SMT
<1>3. ASSUME t \notin Source, R # <<>>
      PROVE  R[Len(R)].op = "unlock"
  <2>1. P[Len(P)].op = "unlock"
    BY <1>0, <1>3 DEF Ordered
  <2>2. Len(P) >= 2
    BY <1>0, <1>3, <2>1, SMT
  <2>3. Len(R) \in 1 .. Len(R) /\ Len(R) > q /\ Len(R) - q + 1 = Len(P)
    BY <1>0, <2>2, SMT
  <2>4. R[Len(R)] = P[Len(P)]
    BY <1>0, <2>3
  <2> QED
    BY <2>1, <2>4
<1> QED
  BY <1>1, <1>2, <1>3 DEF Ordered

-----------------------------------------------------------------------------
(* What a step leaves alone. *)

\* A step leaves alone the rows and frames of source s, and all that the
\* invariant says of it.
Still(s) ==
  /\ mode' = mode
  /\ Pushed(s)' <=> Pushed(s)
  /\ HeldAt(s)' <=> HeldAt(s)
  /\ state'[s] = state[s] /\ next'[s] = next[s] /\ buffer'[s] = buffer[s]
  /\ context'[s] = context[s] /\ ring'[s] = ring[s]
  /\ queued'[s] = queued[s] /\ sent'[s] = sent[s]
  /\ s \in sampled' <=> s \in sampled
  /\ SameSource(stream, stream', s)

Untouched(s) == Still(s) /\ plan'[s] = plan[s] /\ (s \in recording' <=> s \in recording)

\* Such steps keep what it says.
LEMMA DataKept ==
  ASSUME NEW s, NEW h, NEW g, NEW e, Captured(s, h, g, e), Still(s)
  PROVE  BufferInv(s, h, g, e)' /\ RingInv(s, h, e)' /\ AcceptedInv(s, g, e)'
<1> USE DEF Still
<1>1. Framed(s, e)' = Framed(s, e) /\ Reached(s, e)' = Reached(s, e)
  BY DEF Framed, Reached, Upto, Before
<1>2. BufferInv(s, h, g, e)'
  BY DEF Captured, BufferInv, Slice, Mixed
<1>3. RingInv(s, h, e)'
  <2>1. (\A j \in 1 .. Len(ring[s]) : FrameOf(s, ring[s][j], h))'
    BY DEF Captured, RingInv, FrameOf, Slice, Mixed
  <2>2. (\A j \in 1 .. Len(ring[s]) - 1 : Upto(ring[s][j]) = Before(ring[s][j + 1]))'
    BY DEF Captured, RingInv, Upto, Before
  <2>3. (ring[s] # <<>> => Upto(ring[s][Len(ring[s])]) = Framed(s, e))'
    BY <1>1 DEF Captured, RingInv, Upto
  <2>4. (/\ sent[s] + Len(ring[s]) = queued[s] + (IF Pushed(s) THEN 1 ELSE 0)
         /\ ~ UseRing => ring[s] = <<>>
         /\ HeldAt(s) => ring[s] # <<>>)'
    BY DEF Captured, RingInv, UseRing
  <2> QED
    BY <2>1, <2>2, <2>3, <2>4 DEF RingInv
<1>4. AcceptedInv(s, g, e)'
  BY <1>1 DEF Captured, AcceptedInv, Expects, Position, SameSource
<1> QED
  BY <1>2, <1>3, <1>4

\* So a captured source that a step leaves untouched stays captured.
LEMMA Kept ==
  ASSUME NEW s, NEW h, NEW g, NEW e, Captured(s, h, g, e), Untouched(s)
  PROVE  Captured(s, h, g, e)'
<1>1. BufferInv(s, h, g, e)' /\ RingInv(s, h, e)' /\ AcceptedInv(s, g, e)'
  BY DataKept DEF Untouched
<1>2. PlanRows(plan[s], s, h, e)'
  BY DEF Captured, Untouched
<1>3. RowsInv(s, h, g)'
  BY DEF Captured, RowsInv, Untouched, Still
<1> QED
  BY <1>1, <1>2, <1>3 DEF Captured, Run

\* A step that concerns source s alone.
LEMMA Assemble ==
  ASSUME FramesInv, NEW s \in Source, TypeInv', ThreadInv',
         \A u \in Thread : Ordered(plan[u], u)' /\ HeadInv(u)',
         \A r \in Source : PassInv(r)',
         \A r \in Source \ {s} : Untouched(r),
         \E h, g, e : Captured(s, h, g, e)'
  PROVE  FramesInv'
<1>1. ASSUME NEW r \in Source
      PROVE  \E h, g, e : Captured(r, h, g, e)'
  <2>1. CASE r # s
    <3>1. PICK h, g, e : Captured(r, h, g, e)
      BY DEF FramesInv
    <3> QED
      BY <2>1, <3>1, Kept
  <2> QED
    BY <2>1
<1> QED
  BY <1>1 DEF FramesInv

\* A step that leaves every plan and every source alone.
LEMMA StillStep ==
  ASSUME FramesInv, plan' = plan, UNCHANGED <<mode, control, waiting, finishing>>,
         TypeInv', ThreadInv', \A r \in Source : Untouched(r),
         plan \in [Thread -> Seq(PlanCall)]
  PROVE  FramesInv'
<1>1. ASSUME NEW u \in Thread
      PROVE  Ordered(plan[u], u)' /\ HeadInv(u)'
  <2>1. Ordered(plan[u], u) /\ HeadInv(u)
    BY DEF FramesInv
  <2>2. Ordered(plan[u], u)'
    BY <2>1
  <2>3. plan[u] # <<>> => plan[u][1].at \in Source
    BY SMT DEF PlanCall
  <2>4. HeadInv(u)'
    BY <2>1, <2>3 DEF HeadInv, Untouched, Still, UseRing
  <2> QED
    BY <2>2, <2>4
<1>2. ASSUME NEW r \in Source
      PROVE  PassInv(r)'
  <2>1. PassInv(r) /\ Untouched(r)
    BY DEF FramesInv
  <2> QED
    BY <2>1 DEF PassInv, Passed, Untouched, Still
<1>3. ASSUME NEW r \in Source
      PROVE  \E h, g, e : Captured(r, h, g, e)'
  <2>1. PICK h, g, e : Captured(r, h, g, e)
    BY DEF FramesInv
  <2> QED
    BY <2>1, Kept
<1> QED
  BY <1>1, <1>2, <1>3 DEF FramesInv

\* A step that leaves the stream alone leaves it alone for every source.
LEMMA SameFact ==
  ASSUME NEW r
  PROVE  SameSource(stream, stream, r)
BY DEF SameSource

-----------------------------------------------------------------------------
(* A call of thread t on source s that is replaced by q calls on s. *)

Substitutes(t, s, R, q) ==
  /\ plan' = [plan EXCEPT ![t] = R]
  /\ Replaces(R, plan[t], q)
  /\ \A i \in 1 .. q : R[i].at = s
  /\ plan[t][1].op = "unlock" => q = 0

\* The thread that is inside a source, and its plan.
LEMMA InsideFact ==
  ASSUME ExclusionInv, NEW t \in Thread, NEW s \in Source, Inside(t, s)
  PROVE  /\ plan[t] \in Seq(PlanCall) /\ plan[t] # <<>> /\ Len(plan[t]) \in Nat \ {0}
         /\ DOMAIN plan[t] = 1 .. Len(plan[t])
         /\ plan[t][1].at = s /\ plan[t][1].op # "lock" /\ Head(plan[t]) = plan[t][1]
         /\ t \in Source => t = s
         /\ t # s => plan[s] = <<>>
         /\ t = Control => control = "drain"
         /\ t = Main => finishing = "ending" /\ control = "returned" /\ plan[Control] = <<>>
<1>1. plan[t] \in Seq(PlanCall) /\ plan[t] # <<>> /\ Head(plan[t]).at = s
      /\ Head(plan[t]).op # "lock"
  BY DEF ExclusionInv, ExclusionType, Inside
<1>2. \A P \in Seq(PlanCall) :
        P # <<>> => Len(P) \in Nat \ {0} /\ DOMAIN P = 1 .. Len(P) /\ Head(P) = P[1]
  BY SMT
<1>3. Len(plan[t]) \in Nat \ {0} /\ DOMAIN plan[t] = 1 .. Len(plan[t])
      /\ Head(plan[t]) = plan[t][1]
  BY <1>1, <1>2
<1>4. t \in Source => t = s
  <2> SUFFICES ASSUME t \in Source PROVE t = s
    OBVIOUS
  <2>1. CpuInv(t) /\ 1 \in DOMAIN plan[t]
    BY <1>3, SMT DEF ExclusionInv
  <2> QED
    BY <1>1, <1>3, <2>1 DEF CpuInv
<1>5. t # s => plan[s] = <<>>
  <2> SUFFICES ASSUME t # s, plan[s] # <<>> PROVE FALSE
    OBVIOUS
  <2>1. s \in Thread /\ plan[s] \in Seq(PlanCall) /\ CpuInv(s)
    BY SourceFact DEF ExclusionInv, ExclusionType
  <2>2. Head(plan[s]) = plan[s][1] /\ 1 \in DOMAIN plan[s]
    BY <1>2, <2>1, SMT
  <2>3. Inside(s, s)
    BY <2>1, <2>2 DEF Inside, CpuInv
  <2> QED
    BY <2>1, <2>3, Alone
<1>6. StopInv
  BY DEF ExclusionInv
<1> QED
  BY <1>1, <1>3, <1>4, <1>5, <1>6, SourceFact DEF StopInv

\* Of the calls at the head of the plans, only those of t change.
LEMMA CallPushed ==
  ASSUME ExclusionInv, FramesInv, NEW t \in Thread, NEW s \in Source, Inside(t, s),
         NEW R, NEW q, Substitutes(t, s, R, q)
  PROVE  /\ Pushed(s) <=> plan[t][1].op = "count"
         /\ Pushed(s)' <=> q >= 1 /\ R[1].op = "count"
         /\ \A r \in Source \ {s} : (Pushed(r)' <=> Pushed(r)) /\ plan'[r] = plan[r]
<1>1. plan \in [Thread -> Seq(PlanCall)] /\ Ordered(plan[t], t)
  BY DEF ExclusionInv, ExclusionType, FramesInv
<1>2. /\ plan'[t] = R /\ \A u \in Thread \ {t} : plan'[u] = plan[u]
      /\ R \in Seq(PlanCall) /\ q \in Nat /\ Len(R) = q + Len(plan[t]) - 1
      /\ \A i \in 1 .. Len(R) : i > q => R[i] = plan[t][i - q + 1]
  BY <1>1 DEF Substitutes, Replaces
<1>3. q = 0 /\ R # <<>> => R[1].op # "count"
  <2> SUFFICES ASSUME q = 0, R # <<>> PROVE R[1].op # "count"
    OBVIOUS
  <2>1. Len(R) \in Nat \ {0} /\ 1 \in 1 .. Len(R)
    BY <1>2, SMT
  <2>2. R[1] = plan[t][2] /\ 1 \in 1 .. Len(plan[t]) - 1
    BY <1>2, <2>1, InsideFact, SMT
  <2>3. Link(plan[t][1], plan[t][1 + 1], t)
    BY <1>1, <2>2 DEF Ordered
  <2> QED
    BY <2>2, <2>3, SMT DEF Link, Pairs
<1>4. ASSUME NEW u \in Thread \ {t}, plan[u] # <<>>, plan[u][1].op = "count", plan[u][1].at = s
      PROVE  FALSE
  <2>1. plan[u] \in Seq(PlanCall)
    BY <1>1
  <2>2. Head(plan[u]) = plan[u][1]
    BY <1>4, <2>1, SMT
  <2>3. Inside(u, s)
    BY <1>4, <2>2 DEF Inside
  <2> QED
    BY <2>3, Alone
<1>5. q >= 1 => R # <<>> /\ R[1].at = s
  BY <1>2, InsideFact, SMT DEF Substitutes
<1>6. Pushed(s) <=> plan[t][1].op = "count"
  BY <1>4, InsideFact DEF Pushed
<1>7. Pushed(s)' <=> q >= 1 /\ R[1].op = "count"
  BY <1>2, <1>3, <1>4, <1>5, SMT DEF Pushed
<1>8. ASSUME NEW r \in Source \ {s}
      PROVE  (Pushed(r)' <=> Pushed(r)) /\ plan'[r] = plan[r]
  <2>1. plan'[r] = plan[r]
    BY <1>2, InsideFact, SourceFact, SMT
  <2>2. Pushed(r)' => Pushed(r)
    BY <1>2, <1>3, <1>5, SMT DEF Pushed
  <2>3. Pushed(r) => Pushed(r)'
    BY <1>2, InsideFact, SMT DEF Pushed
  <2> QED
    BY <2>1, <2>2, <2>3
<1> QED
  BY <1>6, <1>7, <1>8

\* A call finds its source as it needs it, if plan and source are as they were.
LEMMA HeadKept ==
  ASSUME NEW u, HeadInv(u), plan'[u] = plan[u], NEW S, plan[u][1].at \in S, mode' = mode,
         \A r \in S : state'[r] = state[r] /\ buffer'[r] = buffer[r] /\ ring'[r] = ring[r]
  PROVE  HeadInv(u)'
<1> SUFFICES ASSUME plan[u] # <<>> PROVE HeadInv(u)'
  BY DEF HeadInv
<1>1. PICK op, r : op = plan[u][1].op /\ r = plan[u][1].at
  OBVIOUS
<1>2. state'[r] = state[r] /\ buffer'[r] = buffer[r] /\ ring'[r] = ring[r] /\ (UseRing' <=> UseRing)
  BY <1>1 DEF UseRing
<1>3. /\ op \in {"append", "flush", "count", "wait", "end"} => state[r] = "active"
      /\ op = "count" => buffer[r] # <<>> /\ UseRing
      /\ op \in {"wait", "end"} => buffer[r] = <<>>
      /\ op = "end" => ring[r] = <<>>
      /\ op = "unlock" /\ u = Control => state[r] = "active" /\ buffer[r] = <<>> /\ ring[r] = <<>>
      /\ op = "unlock" /\ u = Main => state[r] # "active"
  BY <1>1 DEF HeadInv
<1>4. /\ op \in {"append", "flush", "count", "wait", "end"} => state'[r] = "active"
      /\ op = "count" => buffer'[r] # <<>> /\ UseRing'
      /\ op \in {"wait", "end"} => buffer'[r] = <<>>
      /\ op = "end" => ring'[r] = <<>>
      /\ op = "unlock" /\ u = Control => state'[r] = "active" /\ buffer'[r] = <<>> /\ ring'[r] = <<>>
      /\ op = "unlock" /\ u = Main => state'[r] # "active"
  BY <1>2, <1>3
<1>5. plan'[u][1].op = op /\ plan'[u][1].at = r
  BY <1>1
<1> QED
  BY <1>4, <1>5 DEF HeadInv

\* A thread goes on with its plan: order, heads and the sources that are done.
LEMMA CallStep ==
  ASSUME ExclusionInv, FramesInv, NEW t \in Thread, NEW s \in Source, Inside(t, s),
         NEW R, NEW q, Substitutes(t, s, R, q), Ordered(R, t), HeadInv(t)',
         UNCHANGED <<mode, control, waiting, finishing>>,
         \A r \in Source \ {s} :
           state'[r] = state[r] /\ buffer'[r] = buffer[r] /\ ring'[r] = ring[r],
         state'[s] \in {state[s], "ended"},
         plan[t][1].op = "unlock" => state'[s] = state[s],
         t \notin Source \/ plan[t][1].op = "unlock" =>
           (buffer[s] = <<>> => buffer'[s] = <<>> /\ ring'[s] = ring[s])
  PROVE  /\ \A u \in Thread : Ordered(plan[u], u)' /\ HeadInv(u)'
         /\ \A r \in Source : PassInv(r)'
<1>1. plan \in [Thread -> Seq(PlanCall)] /\ Ordered(plan[t], t) /\ HeadInv(t)
  BY DEF ExclusionInv, ExclusionType, FramesInv
<1>2. /\ plan'[t] = R /\ \A u \in Thread \ {t} : plan'[u] = plan[u]
      /\ R \in Seq(PlanCall) /\ q \in Nat /\ Len(R) = q + Len(plan[t]) - 1
      /\ \A i \in 1 .. Len(R) : i > q => R[i] = plan[t][i - q + 1]
      /\ \A i \in 1 .. q : R[i].at = s
  BY <1>1 DEF Substitutes, Replaces
<1>3. ASSUME NEW u \in Thread
      PROVE  Ordered(plan[u], u)' /\ HeadInv(u)'
  <2>1. CASE u = t
    BY <1>2, <2>1
  <2>2. CASE u # t
    <3>1. plan'[u] = plan[u] /\ plan[u] \in Seq(PlanCall) /\ Ordered(plan[u], u) /\ HeadInv(u)
      BY <1>1, <1>2, <2>2 DEF FramesInv
    <3>2. plan[u] # <<>> => plan[u][1].at \in Source /\ Head(plan[u]) = plan[u][1]
      BY <3>1, SMT DEF PlanCall
    <3>3. plan[u] # <<>> /\ plan[u][1].at = s => plan[u][1].op = "lock"
      BY <2>2, <3>2, Alone DEF Inside
    <3>4. HeadInv(u)'
      <4>1. CASE plan[u] = <<>>
        BY <3>1, <4>1 DEF HeadInv
      <4>2. CASE plan[u] # <<>> /\ plan[u][1].at = s
        BY <3>1, <3>3, <4>2 DEF HeadInv
      <4>3. CASE plan[u] # <<>> /\ plan[u][1].at # s
        <5>1. HeadInv(u) /\ plan'[u] = plan[u] /\ plan[u][1].at \in Source \ {s}
          BY <3>1, <3>2, <4>3
        <5>2. mode' = mode /\ \A r \in Source \ {s} :
                 state'[r] = state[r] /\ buffer'[r] = buffer[r] /\ ring'[r] = ring[r]
          BY SMT
        <5> QED
          BY <5>1, <5>2, HeadKept
      <4> QED
        BY <4>1, <4>2, <4>3
    <3> QED
      BY <3>1, <3>4
  <2> QED
    BY <2>1, <2>2
<1>4. ASSUME NEW u \in Thread, NEW r \in Source \ {s}, Passed(u, r)'
      PROVE  Passed(u, r)
  <2>1. CASE u # t
    BY <1>2, <1>4, <2>1 DEF Passed
  <2>2. CASE u = t
    <3>1. ASSUME NEW i \in 1 .. Len(plan[t]), plan[t][i].at = r
          PROVE  FALSE
      <4>1. i # 1
        BY <3>1, InsideFact, SMT
      <4>2. i + q - 1 \in 1 .. Len(R) /\ i + q - 1 > q /\ (i + q - 1) - q + 1 = i
        <5>1. Len(plan[t]) \in Nat
          BY <1>1, SeqFact
        <5> QED
          BY <1>2, <4>1, <5>1, Shifted
      <4>3. R[i + q - 1].at = r
        BY <1>2, <3>1, <4>2
      <4>4. DOMAIN R = 1 .. Len(R)
        BY <1>2, SMT
      <4> QED
        BY <1>2, <1>4, <2>2, <4>2, <4>3, <4>4 DEF Passed
    <3> QED
      BY <2>2, <3>1, InsideFact DEF Passed
  <2> QED
    BY <2>1, <2>2
<1>5. ASSUME NEW r \in Source \ {s}
      PROVE  PassInv(r)'
  <2>1. PassInv(r) /\ plan'[r] = plan[r] /\ Control \in Thread /\ Main \in Thread
    BY CallPushed, SourceFact DEF FramesInv
  <2>2. (Passed(Control, r)' => Passed(Control, r)) /\ (Passed(Main, r)' => Passed(Main, r))
    BY <1>4, <2>1
  <2>3. /\ control' = control /\ waiting' = waiting /\ finishing' = finishing
        /\ state'[r] = state[r] /\ buffer'[r] = buffer[r] /\ ring'[r] = ring[r]
    BY SMT
  <2> QED
    BY <2>1, <2>2, <2>3, SMT DEF PassInv
<1>6. ASSUME t \notin Source, Passed(t, s)'
      PROVE  plan[t][1].op = "unlock"
  <2> SUFFICES ASSUME plan[t][1].op # "unlock" PROVE FALSE
    OBVIOUS
  <2>1. Len(plan[t]) >= 2 /\ 1 \in 1 .. Len(plan[t]) - 1
    <3>1. Len(plan[t]) \in Nat \ {0} /\ plan[t] # <<>>
      BY InsideFact
    <3>2. plan[t][Len(plan[t])].op = "unlock"
      BY <1>1, <1>6, <3>1 DEF Ordered
    <3> QED
      BY <3>1, <3>2, TwoFact
  <2>2. plan[t][2].at = s
    <3>1. Link(plan[t][1], plan[t][1 + 1], t)
      BY <1>1, <2>1 DEF Ordered
    <3> QED
      BY <3>1, InsideFact, SMT DEF Link
  <2>3. q + 1 \in 1 .. Len(R) /\ q + 1 > q /\ (q + 1) - q + 1 = 2
    <3>1. Len(plan[t]) \in Nat
      BY <1>1, SeqFact
    <3> QED
      BY <1>2, <2>1, <3>1, SecondShifted
  <2>4. R[q + 1].at = s
    BY <1>2, <2>2, <2>3
  <2>5. DOMAIN R = 1 .. Len(R)
    BY <1>2, SMT
  <2> QED
    BY <1>2, <1>6, <2>3, <2>4, <2>5 DEF Passed
<1>7. PassInv(s)'
  <2>0. PassInv(s) /\ StopInv
    BY DEF FramesInv, ExclusionInv
  <2>1. CASE t = s
    <3>1. plan[s] # <<>> /\ plan'[Control] = plan[Control] /\ plan'[Main] = plan[Main]
      BY <1>2, <2>1, InsideFact, SourceFact
    <3> QED
      BY <2>0, <3>1 DEF PassInv, Passed
  <2>2. CASE t = Control
    <3>1. plan[s] = <<>> /\ plan'[s] = plan[s] /\ control = "drain" /\ finishing \in {"no", "join"}
      <4>1. finishing \in {"no", "join", "ending", "collector", "done"}
        BY DEF ExclusionInv, ExclusionType
      <4>2. s \in Thread /\ s # t
        BY <2>2, SourceFact
      <4>3. plan[s] = <<>> /\ control = "drain"
        BY <2>2, <4>2, InsideFact
      <4> QED
        BY <1>2, <2>0, <4>1, <4>2, <4>3 DEF StopInv
    <3>2. Passed(Control, s)' => /\ state'[s] = "active" /\ buffer'[s] = <<>> /\ ring'[s] = <<>>
      <4>1. t \notin Source /\ plan[t] # <<>> /\ plan[t][1].at = s
        BY <2>2, InsideFact, SourceFact
      <4>2. Passed(Control, s)' => /\ plan[t][1].op = "unlock"
                                   /\ state[s] = "active" /\ buffer[s] = <<>> /\ ring[s] = <<>>
        BY <1>1, <1>6, <2>2, <4>1 DEF HeadInv
      <4> QED
        BY <4>1, <4>2
    <3> QED
      BY <3>1, <3>2 DEF PassInv
  <2>3. CASE t = Main
    <3>1. plan[s] = <<>> /\ plan'[s] = plan[s] /\ control = "returned" /\ plan[Control] = <<>>
          /\ plan'[Control] = <<>>
      <4>1. s \in Thread /\ Control \in Thread /\ s # t /\ Control # t
        BY <2>3, SourceFact
      <4>2. plan[s] = <<>> /\ control = "returned" /\ plan[Control] = <<>>
        BY <2>3, <4>1, InsideFact
      <4> QED
        BY <1>2, <4>1, <4>2
    <3>2. Passed(Main, s)' => state'[s] # "active"
      <4>1. t \notin Source /\ plan[t] # <<>> /\ plan[t][1].at = s
        BY <2>3, InsideFact, SourceFact
      <4>2. Passed(Main, s)' => state[s] # "active" /\ plan[t][1].op = "unlock"
        BY <1>1, <1>6, <2>3, <4>1 DEF HeadInv
      <4> QED
        BY <4>2
    <3>3. Passed(Control, s)
      BY <3>1, SMT DEF Passed
    <3>4. waiting => state'[s] # "unused" /\ buffer'[s] = <<>> /\ ring'[s] = <<>>
      BY <2>0, <2>3, <3>1, <3>3, SourceFact DEF PassInv
    <3> QED
      BY <3>1, <3>2, <3>4 DEF PassInv
  <2> QED
    BY <2>1, <2>2, <2>3, InsideFact DEF Thread
<1> QED
  BY <1>3, <1>5, <1>7

\* The plan of a vCPU after a call that is neither an append nor the end.
LEMMA PlanKept ==
  ASSUME ExclusionInv, NEW t \in Thread, NEW s \in Source, Inside(t, s),
         NEW R, NEW q, Substitutes(t, s, R, q), plan[t][1].op \notin {"append", "end"},
         t = s => q \in {0, 1} /\ (q = 1 => plan[t][1].op = "flush" /\ R[1].op = "count"),
         NEW h \in Seq(Row), NEW g, NEW e \in 0 .. Len(h),
         PlanRows(plan[s], s, h, e), RowsInv(s, h, g),
         state'[s] = state[s], recording' = recording,
         state[s] = "ended" => buffer'[s] = buffer[s] /\ ring'[s] = ring[s]
  PROVE  PlanRows(plan[s], s, h, e)' /\ RowsInv(s, h, g)'
<1>1. plan \in [Thread -> Seq(PlanCall)]
  BY DEF ExclusionInv, ExclusionType
<1>2. /\ plan'[t] = R /\ \A u \in Thread \ {t} : plan'[u] = plan[u]
      /\ R \in Seq(PlanCall) /\ q \in Nat /\ Len(R) = q + Len(plan[t]) - 1
      /\ \A i \in 1 .. Len(R) : i > q => R[i] = plan[t][i - q + 1]
      /\ Replaces(R, plan[t], q)
  BY <1>1 DEF Substitutes, Replaces
<1>3. CASE t # s
  <2>1. plan'[s] = plan[s]
    BY <1>2, <1>3, SourceFact
  <2>2. PlanRows(plan[s], s, h, e)'
    BY <2>1
  <2>3. RowsInv(s, h, g)'
    BY <2>1 DEF RowsInv
  <2> QED
    BY <2>2, <2>3
<1>4. CASE t = s
  <2>0. /\ plan[s] # <<>> /\ Len(plan[s]) \in Nat \ {0} /\ DOMAIN plan[s] = 1 .. Len(plan[s])
        /\ DOMAIN R = 1 .. Len(R)
    BY <1>2, <1>4, InsideFact, SeqFact
  <2>1. PlanRows(R, s, h, e)
    BY <1>2, <1>4, PlanDrop
  <2>2. state[s] # "unused"
    BY <2>0 DEF RowsInv
  <2>a. Replaces(R, plan[s], q)
    BY <1>2, <1>4
  <2>b. Remains(R, plan[s], q)
    BY <2>a, Remain
  <2>3. (\E i \in DOMAIN plan[s] : plan[s][i].op = "end") => \E i \in DOMAIN R : R[i].op = "end"
    <3> SUFFICES ASSUME NEW i \in DOMAIN plan[s], plan[s][i].op = "end"
                 PROVE  \E j \in DOMAIN R : R[j].op = "end"
      OBVIOUS
    <3>1. i # 1
      BY <1>4
    <3>2. PICK j \in DOMAIN R : R[j] = plan[s][i]
      BY <2>b, <3>1 DEF Remains
    <3> QED
      BY <3>2
  <2>4. ASSUME state[s] = "ended", NEW i \in DOMAIN R
        PROVE  R[i].op = "unlock"
    <3>1. q = 0
      BY <1>4, <2>0, <2>4, SMT DEF RowsInv
    <3>2. PICK j \in DOMAIN plan[s] : R[i] = plan[s][j]
      BY <2>b, <3>1 DEF Remains
    <3> QED
      BY <2>4, <3>2 DEF RowsInv
  <2>5. plan'[s] = R
    BY <1>2, <1>4
  <2>6. PlanRows(plan[s], s, h, e)'
    BY <2>1, <2>5
  <2>7. RowsInv(s, h, g)'
    BY <2>2, <2>3, <2>4, <2>5 DEF RowsInv
  <2> QED
    BY <2>6, <2>7
<1> QED
  BY <1>3, <1>4

\* A call that changes nothing but the plan.
LEMMA QuietCall ==
  ASSUME ExclusionInv, FramesInv, NEW t \in Thread, NEW s \in Source, Inside(t, s),
         NEW R, NEW q, Substitutes(t, s, R, q), Ordered(R, t), HeadInv(t)',
         plan[t][1].op \notin {"append", "count", "end"}, t = s => q = 0,
         q >= 1 => R[1].op # "count",
         UNCHANGED <<sourceVars, ringVars, collectorVars, controlVars, exitVars, stream, mode>>
  PROVE  FramesInv'
<1> USE DEF sourceVars, ringVars, collectorVars, controlVars, exitVars
<1>1. /\ \A u \in Thread : Ordered(plan[u], u)' /\ HeadInv(u)'
      /\ \A r \in Source : PassInv(r)'
  BY CallStep
<1>2. TypeInv' /\ ThreadInv'
  BY DEF FramesInv, TypeInv, ThreadInv, StreamSet, Features, Kernel, Mixed, UseRing, Alive
<1>3. \A r \in Source : HeldAt(r)' <=> HeldAt(r)
  BY DEF HeldAt, Visited
<1>4. \A r \in Source \ {s} : Untouched(r)
  BY <1>3, CallPushed DEF Untouched, Still, SameSource
<1>5. PICK h, g, e : Captured(s, h, g, e)
  BY DEF FramesInv
<1>6. Pushed(s)' <=> Pushed(s)
  BY CallPushed
<1>7. PlanRows(plan[s], s, h, e)' /\ RowsInv(s, h, g)'
  BY <1>5, PlanKept, SMT DEF Captured, Run
<1>8. Still(s)
  BY <1>3, <1>6 DEF Still, SameSource
<1>9. BufferInv(s, h, g, e)' /\ RingInv(s, h, e)' /\ AcceptedInv(s, g, e)'
  BY <1>5, <1>8, DataKept
<1>12. Captured(s, h, g, e)'
  BY <1>5, <1>7, <1>9 DEF Captured, Run
<1> QED
  BY <1>1, <1>2, <1>4, <1>12, Assemble

\* The call that a thread makes, and the one that follows it.
LEMMA CallFact ==
  ASSUME ExclusionInv, FramesInv, NEW t \in Thread, NEW s \in Source, NEW op,
         Calls(t, op, s), op # "lock"
  PROVE  /\ Inside(t, s) /\ plan[t][1].op = op /\ Alive /\ plan \in [Thread -> Seq(PlanCall)]
         /\ Ordered(plan[t], t) /\ HeadInv(t) /\ Head(plan[t]) = plan[t][1]
<1>1. Inside(t, s)
  BY DEF Calls, Inside
<1> QED
  BY <1>1, InsideFact DEF Calls, ExclusionInv, ExclusionType, FramesInv

\* A call that is done leaves the rest of its plan.
LEMMA DropFact ==
  ASSUME ExclusionInv, FramesInv, NEW t \in Thread, NEW s \in Source, Inside(t, s),
         plan' = [plan EXCEPT ![t] = Tail(@)]
  PROVE  \E R : /\ Substitutes(t, s, R, 0) /\ Ordered(R, t) /\ plan'[t] = R
                /\ R # <<>> => Link(plan[t][1], R[1], t)
<1> DEFINE P == plan[t]
           R == Tail(P)
<1>1. plan \in [Thread -> Seq(PlanCall)] /\ Ordered(P, t)
  BY DEF ExclusionInv, ExclusionType, FramesInv
<1>2. P \in Seq(PlanCall) /\ P # <<>> /\ Len(P) \in Nat \ {0}
  BY InsideFact
<1>3. /\ R \in Seq(PlanCall) /\ Len(R) = 0 + Len(P) - 1
      /\ \A i \in 1 .. Len(R) : i > 0 => R[i] = P[i - 0 + 1]
  BY <1>2, SMT
<1>4. plan'[t] = R /\ plan' = [plan EXCEPT ![t] = R]
  BY <1>1
<1> HIDE DEF R
<1>5. Replaces(R, P, 0)
  BY <1>2, <1>3 DEF Replaces
<1>6. Substitutes(t, s, R, 0)
  <2>1. 1 .. 0 = {}
    BY SmallFact
  <2> QED
    BY <1>4, <1>5, <2>1 DEF Substitutes
<1>7. Ordered(R, t)
  BY <1>1, <1>5, OrderReplaced, SMT
<1>8. R # <<>> => Link(P[1], R[1], t)
  <2> SUFFICES ASSUME R # <<>> PROVE Link(P[1], R[1], t)
    OBVIOUS
  <2>1. Len(R) >= 1 /\ 1 \in 1 .. Len(P) - 1
    BY <1>2, <1>3, SMT
  <2>2. R[1] = P[1 + 1]
    BY <1>2, <1>3, <2>1, SMT
  <2> QED
    BY <1>1, <2>1, <2>2 DEF Ordered
<1> QED
  BY <1>4, <1>6, <1>7, <1>8

\* A thread continues with the q calls Q on the source it is inside.
Splices(t, s, Q, q) ==
  /\ Q \in Seq(PlanCall) /\ q \in Nat /\ Len(Q) = q
  /\ \A i \in 1 .. q : Q[i].at = s
  /\ plan[t][1].op # "unlock"
  /\ plan' = [plan EXCEPT ![t] = Q \o Tail(@)]

\* They take the place of its call.
LEMMA SpliceFact ==
  ASSUME ExclusionInv, NEW t \in Thread, NEW s \in Source, Inside(t, s),
         NEW Q, NEW q, Splices(t, s, Q, q)
  PROVE  \E R : Substitutes(t, s, R, q) /\ plan'[t] = R /\ \A i \in 1 .. q : R[i] = Q[i]
<1>0. /\ Q \in Seq(PlanCall) /\ q \in Nat /\ Len(Q) = q
      /\ \A i \in 1 .. q : Q[i].at = s
      /\ plan[t][1].op # "unlock" /\ plan' = [plan EXCEPT ![t] = Q \o Tail(plan[t])]
  BY DEF Splices
<1> DEFINE P == plan[t]
           R == Q \o Tail(P)
<1>1. plan \in [Thread -> Seq(PlanCall)] /\ P \in Seq(PlanCall) /\ P # <<>>
  BY InsideFact DEF ExclusionInv, ExclusionType
<1>3. plan'[t] = R /\ plan' = [plan EXCEPT ![t] = R] /\ R = Q \o Tail(P)
  BY <1>0, <1>1
<1> HIDE DEF R, P
<1>a. /\ R \in Seq(PlanCall) /\ Len(P) \in Nat \ {0} /\ Len(Q) \in Nat
      /\ Len(R) = Len(Q) + Len(P) - 1 /\ DOMAIN R = 1 .. Len(R) /\ DOMAIN P = 1 .. Len(P)
      /\ DOMAIN Q = 1 .. Len(Q) /\ Head(P) = P[1] /\ P[1] \in PlanCall
      /\ \A i \in 1 .. Len(Q) : R[i] = Q[i]
      /\ \A i \in 1 .. Len(R) : i > Len(Q) => R[i] = P[i - Len(Q) + 1]
      /\ R # <<>> <=> Len(R) > 0
  BY <1>0, <1>1, <1>3, PlanFact
<1>2. /\ R \in Seq(PlanCall) /\ Len(R) = q + Len(P) - 1
      /\ \A i \in 1 .. q : R[i] = Q[i]
      /\ \A i \in 1 .. Len(R) : i > q => R[i] = P[i - q + 1]
  BY <1>0, <1>a
<1>4. Replaces(R, P, q)
  BY <1>0, <1>1, <1>2 DEF Replaces
<1>5. Substitutes(t, s, R, q)
  BY <1>0, <1>2, <1>3, <1>4 DEF Substitutes, P
<1> QED
  BY <1>2, <1>3, <1>5

\* The rows of the buffer are in a frame: the buffer starts again, empty.
LEMMA EmptySlice ==
  ASSUME NEW h \in Seq(Row), NEW e \in 0 .. Len(h)
  PROVE  Slice(<<>>, h, e - Len(<<>>))
<1>1. Len(<<>>) = 0 /\ 1 .. 0 = {} /\ <<>> \in Seq(Row) /\ Len(h) \in Nat /\ e \in Nat /\ e - 0 = e
  BY SMT
<1> QED
  BY <1>1, SMT DEF Slice

\* A step leaves the other sources alone, but for the plans.
Elsewhere(s) ==
  \A r \in Source \ {s} :
    /\ HeldAt(r)' <=> HeldAt(r)
    /\ state'[r] = state[r] /\ next'[r] = next[r] /\ buffer'[r] = buffer[r]
    /\ context'[r] = context[r] /\ ring'[r] = ring[r]
    /\ queued'[r] = queued[r] /\ sent'[r] = sent[r]
    /\ r \in sampled' <=> r \in sampled
    /\ r \in recording' <=> r \in recording
    /\ SameSource(stream, stream', r)

\* A call on source s that changes its rows or frames.
LEMMA CallAssemble ==
  ASSUME ExclusionInv, FramesInv, NEW t \in Thread, NEW s \in Source, Inside(t, s),
         NEW R, NEW q, Substitutes(t, s, R, q), Ordered(R, t), HeadInv(t)',
         plan[t][1].op # "unlock", t \notin Source /\ buffer[s] = <<>> =>
           buffer'[s] = <<>> /\ ring'[s] = ring[s],
         state'[s] \in {state[s], "ended"},
         UNCHANGED <<mode, control, waiting, finishing>>,
         TypeInv', ThreadInv', Elsewhere(s), \E h, g, e : Captured(s, h, g, e)'
  PROVE  FramesInv'
<1>1. \A r \in Source \ {s} :
        state'[r] = state[r] /\ buffer'[r] = buffer[r] /\ ring'[r] = ring[r]
  BY DEF Elsewhere
<1>2. /\ \A u \in Thread : Ordered(plan[u], u)' /\ HeadInv(u)'
      /\ \A r \in Source : PassInv(r)'
  BY <1>1, CallStep
<1>3. \A r \in Source \ {s} : (Pushed(r)' <=> Pushed(r)) /\ plan'[r] = plan[r]
  BY CallPushed
<1>4. \A r \in Source \ {s} : Untouched(r)
  BY <1>3 DEF Elsewhere, Untouched, Still
<1> QED
  BY <1>2, <1>4, Assemble

\* Every row of the run is appended, and none of an active source ends it with
\* an address context.
Idle(s, h, g, e) ==
  /\ Run(h, g) /\ h \in Seq(Row) /\ Len(h) \in Nat /\ e = Len(h) /\ g[Len(h)] \in Local
  /\ context[s] = g[Len(h)].context /\ (s \in sampled <=> g[Len(h)].sampled)
  /\ state[s] = "active" =>
       h # <<>> /\ Len(h) \in Nat \ {0} /\ h[Len(h)].kind # "address_context"
  /\ state[s] = "unused" => h = <<>>

\* So it is between callbacks.
LEMMA IdleFact ==
  ASSUME FramesInv, NEW s \in Source, plan[s] = <<>>, NEW h, NEW g, NEW e, Captured(s, h, g, e)
  PROVE  Idle(s, h, g, e)
<1>1. Run(h, g) /\ h \in Seq(Row) /\ Len(h) \in Nat /\ e \in 0 .. Len(h) /\ g \in [0 .. Len(h) -> Local]
  BY SMT DEF Captured, Run
<1>2. e = Len(h)
  <2>1. Offset(<<>>) = 0 /\ Len(<<>>) = 0
    BY DEF Offset
  <2>2. Offset(<<>>) + Len(h) - e <= Len(<<>>)
    BY DEF Captured, PlanRows
  <2> QED
    BY <1>1, <2>1, <2>2, SMT
<1>3. g[e] \in Local
  BY <1>1
<1>4. context[s] = g[e].context /\ (s \in sampled <=> g[e].sampled)
  BY DEF Captured, BufferInv
<1>5. state[s] = "active" => h # <<>> /\ h[Len(h)].kind # "address_context"
  <2>1. DOMAIN plan[s] = {}
    BY SMT
  <2> QED
    BY <2>1 DEF Captured, RowsInv
<1>6. h # <<>> => Len(h) \in Nat \ {0}
  BY <1>1, SeqFact
<1>7. state[s] = "unused" => h = <<>>
  BY DEF Captured, RowsInv
<1> QED
  BY <1>1, <1>2, <1>3, <1>4, <1>5, <1>6, <1>7 DEF Idle

\* While anybody is inside a source its frames are collected.
LEMMA CollectorRuns ==
  ASSUME ExclusionInv, FramesInv, NEW t \in Thread, NEW s \in Source, Inside(t, s), UseRing
  PROVE  collector = "running"
<1> SUFFICES ASSUME finishing \in {"collector", "done"} PROVE FALSE
  BY DEF FramesInv, TypeInv, ThreadInv
<1>1. StopInv /\ PassInv(s)
  BY DEF ExclusionInv, FramesInv
<1>2. control = "returned" /\ plan[Main] = <<>>
  BY <1>1 DEF StopInv
<1>3. plan[s] = <<>>
  BY <1>1, <1>2, SMT DEF PassInv, Passed
<1>4. t = s \/ t = Control \/ t = Main
  BY InsideFact DEF Thread
<1>5. plan[t] # <<>> /\ (t = Control => control = "drain")
  BY InsideFact
<1> QED
  BY <1>2, <1>3, <1>4, <1>5

-----------------------------------------------------------------------------
(* What the Stream does with the frames of a capture. *)

\* The features of the hello decide which checks apply.
LEMMA FeatureFact ==
  ASSUME NEW st \in StreamSet
  PROVE  /\ Has(st, "registers") /\ Has(st, "memory") /\ Has(st, "address_context")
         /\ Has(st, "system_memory")
         /\ ~ Has(st, "executable_layout") /\ ~ Has(st, "stdio")
         /\ ~ Has(st, "transition_windows") /\ ~ Has(st, "observation_reduction")
         /\ ~ Has(st, "context_filter")
         /\ Has(st, "mixed") <=> Mixed
         /\ Has(st, "kernel") <=> Kernel
<1>1. st.features = Features
  BY DEF StreamSet
<1> QED
  BY <1>1 DEF Has, Features

\* An open stream takes the frames that belong to no source.
LEMMA PlainAccepted ==
  ASSUME NEW st \in StreamSet, st.ending = "none"
  PROVE  /\ Accept(st, [kind |-> "error"]) = [st EXCEPT !.ending = "error"]
         /\ Accept(st, [kind |-> "kernel_request"]) = AcceptKernelRequest(st)
         /\ Accept(st, [kind |-> "complete"]) = AcceptComplete(st)
<1>1. st.ok /\ st.started
  BY DEF StreamSet
<1> QED
  BY <1>1, FeatureFact DEF Accept

\* The failure that ends the process.
LEMMA ErrorAccepted ==
  ASSUME NEW st \in StreamSet, st.ending = "none"
  PROVE  LET w == Accept(st, [kind |-> "error"])
         IN  w \in StreamSet /\ \A r \in Source : SameSource(st, w, r)
<1> DEFINE w == [st EXCEPT !.ending = "error"]
<1>1. w \in StreamSet /\ \A r \in Source : SameSource(st, w, r)
  BY DEF StreamSet, SameSource
<1> QED
  BY <1>1, PlainAccepted

\* A source's name enters the sets of the Stream.
LEMMA StreamSets ==
  ASSUME NEW st \in StreamSet, NEW A \in SUBSET Source
  PROVE  /\ [st EXCEPT !.ended = A] \in StreamSet /\ [st EXCEPT !.seen = A] \in StreamSet
         /\ [st EXCEPT !.data = A] \in StreamSet /\ [st EXCEPT !.sampled = A] \in StreamSet
         /\ [st EXCEPT !.sourceData = TRUE] \in StreamSet
<1>1. [st EXCEPT !.ended = A] \in StreamSet
  BY DEF StreamSet
<1>2. [st EXCEPT !.seen = A] \in StreamSet
  BY DEF StreamSet
<1>3. [st EXCEPT !.data = A] \in StreamSet
  BY DEF StreamSet
<1>4. [st EXCEPT !.sampled = A] \in StreamSet
  BY DEF StreamSet
<1>5. [st EXCEPT !.sourceData = TRUE] \in StreamSet
  BY DEF StreamSet
<1> QED
  BY <1>1, <1>2, <1>3, <1>4, <1>5

\* Frames of a source that has not ended.
LEMMA SourceFrame ==
  ASSUME NEW st \in StreamSet, st.ending = "none", NEW f, f.source \notin st.ended
  PROVE  /\ f.kind = "register_schema" => Accept(st, f) = AcceptSchema(st, f)
         /\ f.kind = "rows" => Accept(st, f) = AcceptRows(st, f)
         /\ f.kind = "source_end" => Accept(st, f) = AcceptSourceEnd(st, f)
<1>1. st.ok /\ st.started
  BY DEF StreamSet
<1>2. f.kind \in {"register_schema", "rows", "source_end"} => Accept(st, f) = AcceptSourceFrame(st, f)
  BY <1>1, FeatureFact DEF Accept
<1>3. /\ f.kind = "register_schema" => AcceptSourceFrame(st, f) = AcceptSchema(st, f)
      /\ f.kind = "rows" => AcceptSourceFrame(st, f) = AcceptRows(st, f)
      /\ f.kind = "source_end" => AcceptSourceFrame(st, f) = AcceptSourceEnd(st, f)
  BY <1>1, FeatureFact DEF AcceptSourceFrame
<1> QED
  BY <1>2, <1>3

\* The end of a source whose rows have all been accepted.
LEMMA EndAccepted ==
  ASSUME NEW st \in StreamSet, st.ending = "none", NEW s \in Source, s \notin st.ended,
         s \in st.data => s \in st.schema /\ s \in st.sampled
  PROVE  LET w == Accept(st, [kind |-> "source_end", source |-> s, sequence |-> st.next[s]])
         IN  /\ w \in StreamSet /\ w.ending = "none"
             /\ \A r \in Source \ {s} : SameSource(st, w, r)
             /\ w.next = st.next /\ w.context = st.context
             /\ w.schema = st.schema /\ w.sampled = st.sampled /\ s \in w.ended
<1> DEFINE f == [kind |-> "source_end", source |-> s, sequence |-> st.next[s]]
           w == [st EXCEPT !.ended = @ \cup {s}, !.seen = @ \cup {s},
                           !.data = @ \cup {s}, !.sourceData = TRUE]
<1>0. w \in StreamSet /\ w.ending = "none"
  <2> DEFINE v == [st EXCEPT !.ended = st.ended \cup {s}]
             x == [v EXCEPT !.seen = st.seen \cup {s}]
             y == [x EXCEPT !.data = st.data \cup {s}]
  <2>1. st.ended \cup {s} \in SUBSET Source /\ st.seen \cup {s} \in SUBSET Source
        /\ st.data \cup {s} \in SUBSET Source
    BY DEF StreamSet
  <2>2. v \in StreamSet
    BY <2>1, StreamSets
  <2>3. x \in StreamSet
    BY <2>1, <2>2, StreamSets
  <2>4. y \in StreamSet
    BY <2>1, <2>3, StreamSets
  <2>5. [y EXCEPT !.sourceData = TRUE] \in StreamSet
    BY <2>4, StreamSets
  <2>6. w = [y EXCEPT !.sourceData = TRUE] /\ w.ending = "none"
    BY DEF StreamSet
  <2> QED
    BY <2>5, <2>6
<1>1. /\ \A r \in Source \ {s} : SameSource(st, w, r)
      /\ w.next = st.next /\ w.context = st.context
      /\ w.schema = st.schema /\ w.sampled = st.sampled /\ s \in w.ended
  BY DEF StreamSet, SameSource
<1>2. AcceptSourceEnd(st, f) = w
  BY FeatureFact DEF AcceptSourceEnd, BaselineMissing
<1>3. Accept(st, f) = w
  BY <1>2, SourceFrame
<1> HIDE DEF w
<1> QED
  BY <1>0, <1>1, <1>3

\* The schema of a source without rows.
LEMMA SchemaAccepted ==
  ASSUME NEW st \in StreamSet, st.ending = "none", NEW s \in Source,
         s \notin st.ended, s \notin st.data
  PROVE  LET w == Accept(st, [kind |-> "register_schema", source |-> s])
         IN  /\ w \in StreamSet /\ w.ending = "none"
             /\ \A r \in Source \ {s} : SameSource(st, w, r)
             /\ w.next = st.next /\ w.context = st.context /\ w.data = st.data
             /\ w.ended = st.ended /\ w.sampled = st.sampled /\ s \in w.schema
<1> DEFINE f == [kind |-> "register_schema", source |-> s]
           w == [st EXCEPT !.schema = @ \cup {s}, !.seen = @ \cup {s}]
<1>1. /\ w \in StreamSet /\ w.ending = "none"
      /\ \A r \in Source \ {s} : SameSource(st, w, r)
      /\ w.next = st.next /\ w.context = st.context /\ w.data = st.data
      /\ w.ended = st.ended /\ w.sampled = st.sampled /\ s \in w.schema
  <2>1. w \in StreamSet
    BY DEF StreamSet
  <2>2. /\ w.schema = st.schema \cup {s} /\ w.seen = st.seen \cup {s} /\ w.ending = st.ending
        /\ w.next = st.next /\ w.context = st.context /\ w.data = st.data
        /\ w.ended = st.ended /\ w.sampled = st.sampled
    BY DEF StreamSet
  <2> HIDE DEF w
  <2>3. \A r \in Source \ {s} : SameSource(st, w, r)
    BY <2>2 DEF SameSource
  <2> QED
    BY <2>1, <2>2, <2>3
<1>2. AcceptSchema(st, f) = w
  BY FeatureFact DEF AcceptSchema
<1>3. Accept(st, f) = w
  BY <1>2, SourceFrame
<1> HIDE DEF w
<1> QED
  BY <1>1, <1>3

\* Stream st has accepted n rows of s and is now w.
RowsDone(st, w, s, n, l) ==
  /\ w \in StreamSet /\ w.ending = "none"
  /\ \A r \in Source \ {s} : SameSource(st, w, r)
  /\ w.schema = st.schema /\ w.ended = st.ended
  /\ w.next[s] = st.next[s] + n
  /\ w.context[s] = l.context
  /\ s \in w.sampled <=> l.sampled
  /\ n > 0 => s \in w.data /\ s \in w.seen

\* Row i of a source comes next.
RowNext(st, s, l, row, i) ==
  /\ st \in StreamSet /\ st.ending = "none" /\ s \in st.schema /\ st.next[s] = i - 2
  /\ st.context[s] = l.context /\ (s \in st.sampled <=> l.sampled)
  /\ row \in Row /\ l \in Local /\ i \in Int /\ i # 1 /\ Fits(l, row, i)

\* One row that fits.
LEMMA RowAccepted ==
  ASSUME NEW st, NEW s \in Source, NEW l, NEW row, NEW i, RowNext(st, s, l, row, i)
  PROVE  RowsDone(st, AcceptRow(st, s, row), s, 1, Advance(l, row, i))
<1>0. /\ st \in StreamSet /\ st.ending = "none" /\ s \in st.schema /\ st.next[s] = i - 2
      /\ st.context[s] = l.context /\ (s \in st.sampled <=> l.sampled)
      /\ row \in Row /\ l \in Local /\ i \in Int /\ i # 1 /\ Fits(l, row, i)
  BY DEF RowNext
<1> DEFINE N == [st.next EXCEPT ![s] = st.next[s] + 1]
           C == [st.context EXCEPT ![s] = Advance(l, row, i).context]
           D == IF row.kind = "registers" THEN st.sampled \cup {s} ELSE st.sampled
           w == [st EXCEPT !.next = N, !.seen = st.seen \cup {s}, !.data = st.data \cup {s},
                           !.sourceData = TRUE, !.context = C, !.sampled = D, !.filterRows = 0]
<1>1. N \in [Source -> Nat] /\ C \in [Source -> Int] /\ D \in SUBSET Source
      /\ st.seen \cup {s} \in SUBSET Source /\ st.data \cup {s} \in SUBSET Source
  BY <1>0, SMT DEF StreamSet, Advance, Local
<1>2. AfterRow(st, s, row) = w
  <2>1. st.filterRows = 0 /\ ~ Has(st, "context_filter") /\ st.context \in [Source -> Int]
        /\ st.next \in [Source -> Nat]
    BY <1>0, FeatureFact DEF StreamSet
  <2> QED
    BY <1>0, <2>1 DEF AfterRow, Advance
<1>3. RowAllowed(st, s, row)
  <2>1. row.kind \in {"address_context", "blocks", "register_schema", "registers", "memory"}
    BY <1>0 DEF Row
  <2>2. ~ BaselineMissing(st, s, row.kind)
    BY <1>0, <2>1 DEF BaselineMissing, Fits
  <2>3. row.kind = "registers" => (row.baseline <=> s \notin st.sampled)
    BY <1>0 DEF Fits
  <2> QED
    BY <1>0, <2>1, <2>2, <2>3, FeatureFact DEF RowAllowed, Fits
<1> HIDE DEF N, C, D
<1>4. w \in StreamSet
  BY <1>0, <1>1 DEF StreamSet
<1>5. st.ok
  BY <1>0 DEF StreamSet
<1>6. AcceptRow(st, s, row) = w
  BY <1>2, <1>3, <1>5 DEF AcceptRow
<1>7. /\ w.next = N /\ w.seen = st.seen \cup {s} /\ w.data = st.data \cup {s} /\ w.context = C
      /\ w.sampled = D /\ w.ending = "none" /\ w.ended = st.ended /\ w.schema = st.schema
  BY <1>0 DEF StreamSet
<1> HIDE DEF w
<1>8. /\ N[s] = st.next[s] + 1 /\ C[s] = Advance(l, row, i).context
      /\ s \in D <=> Advance(l, row, i).sampled
      /\ \A r \in Source \ {s} : N[r] = st.next[r] /\ C[r] = st.context[r]
                                 /\ (r \in D <=> r \in st.sampled)
  <2>1. st.next \in [Source -> Nat] /\ st.context \in [Source -> Int]
    BY <1>0 DEF StreamSet
  <2> QED
    BY <1>0, <2>1 DEF N, C, D, Advance
<1> QED
  BY <1>4, <1>6, <1>7, <1>8 DEF RowsDone, SameSource

\* The loop over the rows of a frame: f holds the Stream after each row.
EachRow(f, n, st, s, rows) ==
  f = [i \in 0 .. n |-> IF i = 0 THEN st ELSE AcceptRow(f[i - 1], s, rows[i])]

\* The loop has a Stream after each row.
LEMMA LoopExists ==
  ASSUME LeastMembers, NEW st, NEW s, NEW rows, NEW n \in Nat
  PROVE  \E f : EachRow(f, n, st, s, rows)
<1> DEFINE S == {m \in Nat : ~ \E f : EachRow(f, m, st, s, rows)}
<1> SUFFICES ASSUME S # {} PROVE FALSE
  OBVIOUS
<1>1. PICK m \in S : \A k \in S : m <= k
  <2>1. S \in SUBSET Nat
    OBVIOUS
  <2> HIDE DEF S
  <2> QED
    BY <2>1 DEF LeastMembers
<1>2. m # 0
  <2> DEFINE f == [i \in 0 .. 0 |-> st]
  <2>1. EachRow(f, 0, st, s, rows)
    BY SMT DEF EachRow
  <2> QED
    BY <2>1
<1>3. m - 1 \in Nat /\ m - 1 \notin S
  BY <1>1, <1>2, SMT
<1>4. PICK f : EachRow(f, m - 1, st, s, rows)
  BY <1>3
<1> DEFINE e == [i \in 0 .. m |-> IF i = m THEN AcceptRow(f[m - 1], s, rows[m]) ELSE f[i]]
<1>5. EachRow(e, m, st, s, rows)
  <2>1. ASSUME NEW i \in 0 .. m
        PROVE  e[i] = IF i = 0 THEN st ELSE AcceptRow(e[i - 1], s, rows[i])
    BY <1>2, <1>3, <1>4, SMT DEF EachRow
  <2>2. e = [i \in 0 .. m |-> e[i]]
    OBVIOUS
  <2> HIDE DEF e
  <2> QED
    BY <2>1, <2>2 DEF EachRow
<1> QED
  BY <1>1, <1>5

\* AcceptEach returns the Stream after the last row.
LEMMA LoopIs ==
  ASSUME LeastMembers, NEW st, NEW s, NEW rows, Len(rows) \in Nat
  PROVE  \E f : EachRow(f, Len(rows), st, s, rows) /\ AcceptEach(st, s, rows) = f[Len(rows)]
<1> DEFINE f == CHOOSE f : f = [i \in 0 .. Len(rows) |->
                                  IF i = 0 THEN st ELSE AcceptRow(f[i - 1], s, rows[i])]
<1>1. EachRow(f, Len(rows), st, s, rows)
  <2>1. PICK x : EachRow(x, Len(rows), st, s, rows)
    BY LoopExists
  <2>2. f = [i \in 0 .. Len(rows) |-> IF i = 0 THEN st ELSE AcceptRow(f[i - 1], s, rows[i])]
    BY <2>1 DEF EachRow
  <2> HIDE DEF f
  <2> QED
    BY <2>2 DEF EachRow
<1>2. AcceptEach(st, s, rows) = f[Len(rows)]
  BY DEF AcceptEach
<1> QED
  BY <1>1, <1>2

\* Row m of n rows that follow row k of N.
Placed(k, m, n, N) ==
  /\ m \in Nat /\ m > 0 /\ m # 0 /\ m \in 0 .. n
  /\ k + m \in 1 .. N /\ k + m # 1 /\ k + m \in Int /\ (k + m) - 1 = k + (m - 1)
  /\ k + (m - 1) \in 0 .. N /\ (k - 1) + (m - 1) = (k + m) - 2

\* Its place in the run.
LEMMA RowPlace ==
  ASSUME NEW k \in Nat \ {0}, NEW n \in Nat, NEW N \in Nat, k + n <= N, NEW m \in 1 .. n
  PROVE  Placed(k, m, n, N)
  BY SMT DEF Placed

\* The rows before row m, and row m.
LEMMA OneRowMore ==
  ASSUME NEW st \in StreamSet, NEW s \in Source, NEW m \in Nat, m > 0,
         NEW w, NEW l, RowsDone(st, w, s, m - 1, l), NEW v, NEW p, RowsDone(w, v, s, 1, p)
  PROVE  RowsDone(st, v, s, m, p)
<1>1. \A r \in Source \ {s} : SameSource(st, v, r)
  <2>1. \A r \in Source \ {s} : SameSource(st, w, r) /\ SameSource(w, v, r)
    BY DEF RowsDone
  <2> QED
    BY <2>1 DEF SameSource
<1>2. v.next[s] = st.next[s] + m
  <2>1. st.next[s] \in Nat
    BY DEF StreamSet
  <2>2. v.next[s] = (st.next[s] + (m - 1)) + 1
    BY DEF RowsDone
  <2>3. (st.next[s] + (m - 1)) + 1 = st.next[s] + m
    BY <2>1, SMT
  <2> QED
    BY <2>2, <2>3
<1>3. 1 > 0
  BY SMT
<1> QED
  BY <1>1, <1>2, <1>3 DEF RowsDone

\* Before the first row.
LEMMA NoRow ==
  ASSUME NEW st \in StreamSet, st.ending = "none", NEW s \in Source, NEW l,
         st.context[s] = l.context, s \in st.sampled <=> l.sampled
  PROVE  RowsDone(st, st, s, 0, l)
<1>1. st.next[s] \in Nat
  BY DEF StreamSet
<1>2. st.next[s] + 0 = st.next[s] /\ ~ (0 > 0)
  BY <1>1, SMT
<1> QED
  BY <1>2 DEF RowsDone, SameSource

\* Rows k + 1, ..., k + Len(rows) of a run, one after the other.
LEMMA EachAccepted ==
  ASSUME LeastMembers, NEW st \in StreamSet, st.ending = "none", NEW s \in Source, s \in st.schema,
         NEW h, NEW g, Run(h, g), NEW k \in Nat \ {0}, NEW rows \in Seq(Row),
         k + Len(rows) <= Len(h), \A j \in 1 .. Len(rows) : rows[j] = h[k + j],
         st.next[s] = k - 1, st.context[s] = g[k].context, s \in st.sampled <=> g[k].sampled
  PROVE  RowsDone(st, AcceptEach(st, s, rows), s, Len(rows), g[k + Len(rows)])
<1>0. Len(rows) \in Nat /\ Len(h) \in Nat
  BY SMT DEF Run
<1>1. PICK f : EachRow(f, Len(rows), st, s, rows) /\ AcceptEach(st, s, rows) = f[Len(rows)]
  BY <1>0, LoopIs
<1> DEFINE S == {m \in 0 .. Len(rows) : ~ RowsDone(st, f[m], s, m, g[k + m])}
<1> SUFFICES ASSUME S # {} PROVE FALSE
  <2>1. Len(rows) \in 0 .. Len(rows)
    BY <1>0, SMT
  <2> QED
    BY <1>1, <2>1
<1>2. PICK m \in S : \A j \in S : m <= j
  <2>1. S \subseteq Nat
    <3>1. 0 .. Len(rows) \subseteq Nat
      BY <1>0, SMT
    <3> QED
      BY <3>1
  <2> HIDE DEF S
  <2> QED
    BY <2>1 DEF LeastMembers
<1>3. m # 0
  <2>1. f[0] = st
    <3>1. 0 \in 0 .. Len(rows)
      BY <1>0, SMT
    <3> QED
      BY <1>1, <3>1 DEF EachRow
  <2>2. RowsDone(st, st, s, 0, g[k + 0])
    <3>1. k + 0 = k
      BY PlusNothing
    <3> QED
      BY <3>1, NoRow
  <2> QED
    BY <2>1, <2>2
<1>4. m - 1 \in 0 .. Len(rows) /\ m - 1 \notin S /\ m \in 1 .. Len(rows)
  BY <1>2, <1>3, SMT
<1>p. Placed(k, m, Len(rows), Len(h))
  BY <1>0, <1>4, RowPlace
<1> DEFINE w == f[m - 1]
           l == g[k + (m - 1)]
           row == h[k + m]
<1>5. RowsDone(st, w, s, m - 1, l)
  BY <1>4
<1>6. f[m] = AcceptRow(w, s, row)
  <2>1. rows[m] = row
    BY <1>4
  <2>2. m \in 0 .. Len(rows) /\ m # 0
    BY <1>p DEF Placed
  <2> QED
    BY <1>1, <2>1, <2>2 DEF EachRow
<1>7. /\ k + m \in 1 .. Len(h) /\ k + m # 1 /\ (k + m) - 1 = k + (m - 1)
      /\ row \in Row /\ l \in Local
      /\ Fits(l, row, k + m) /\ g[k + m] = Advance(l, row, k + m)
  <2>1. k + m \in 1 .. Len(h) /\ k + m # 1 /\ (k + m) - 1 = k + (m - 1)
        /\ k + (m - 1) \in 0 .. Len(h)
    BY <1>p DEF Placed
  <2>2. row \in Row /\ l \in Local
    <3>1. h \in Seq(Row) /\ g \in [0 .. Len(h) -> Local]
      BY DEF Run
    <3>2. \A x \in Seq(Row) : \A i \in 1 .. Len(x) : x[i] \in Row
      BY SMT
    <3> QED
      BY <2>1, <3>1, <3>2
  <2>3. Fits(g[(k + m) - 1], row, k + m) /\ g[k + m] = Advance(g[(k + m) - 1], row, k + m)
    BY <2>1 DEF Run
  <2> QED
    BY <2>1, <2>2, <2>3
<1>8. RowsDone(w, f[m], s, 1, g[k + m])
  <2>1. w \in StreamSet /\ w.ending = "none" /\ s \in w.schema /\ w.context[s] = l.context
        /\ (s \in w.sampled <=> l.sampled) /\ w.next[s] = (k + m) - 2
    BY <1>5, <1>p DEF RowsDone, Placed
  <2> HIDE DEF w, l, row
  <2>2. k + m \in Int
    BY <1>p DEF Placed
  <2> QED
    <3>1. RowNext(w, s, l, row, k + m)
      BY <1>7, <2>1, <2>2 DEF RowNext
    <3>2. RowsDone(w, AcceptRow(w, s, row), s, 1, Advance(l, row, k + m))
      BY <3>1, RowAccepted
    <3> QED
      BY <1>6, <1>7, <3>2
<1>9. RowsDone(st, f[m], s, m, g[k + m])
  <2> HIDE DEF w, l, row
  <2> QED
    BY <1>5, <1>8, <1>p, OneRowMore DEF Placed
<1> QED
  BY <1>2, <1>9

\* The next frame of a run is accepted: sequence numbers, kinds, contexts and
\* baselines are what the Stream asks for.
LEMMA FrameAccepted ==
  ASSUME LeastMembers, NEW st \in StreamSet, st.ending = "none", NEW s \in Source, s \notin st.ended,
         NEW h, NEW g, Run(h, g), NEW f \in Frame, FrameOf(s, f, h),
         Expects(st, s, g, Before(f))
  PROVE  LET w == Accept(st, f)
         IN  /\ w \in StreamSet /\ w.ending = "none" /\ w.ended = st.ended
             /\ \A r \in Source \ {s} : SameSource(st, w, r)
             /\ Expects(w, s, g, Upto(f))
<1>1. CASE f.kind = "register_schema"
  <2>1. f = [kind |-> "register_schema", source |-> s] /\ Before(f) = 0 /\ Upto(f) = 1
        /\ Len(h) >= 1
    BY <1>1 DEF Frame, FrameOf, Before, Upto
  <2>2. s \notin st.schema /\ s \notin st.data /\ st.next[s] = 0
    <3>1. st.next[s] \in Nat
      BY DEF StreamSet
    <3>2. st.next[s] + 1 # 0 /\ ~ (0 >= 2)
      BY <3>1, SMT
    <3> QED
      BY <2>1, <3>2 DEF Expects, Position
  <2>3. g[1].context = g[0].context /\ (g[1].sampled <=> g[0].sampled)
    <3>1. 1 \in 1 .. Len(h) /\ 1 - 1 = 0
      BY <2>1, SMT DEF Run
    <3>2. Fits(g[0], h[1], 1) /\ g[1] = Advance(g[0], h[1], 1)
      BY <3>1 DEF Run
    <3>3. h[1].kind = "register_schema" /\ g[0] \in Local
      BY <3>1, <3>2, SMT DEF Fits, Run
    <3> QED
      BY <3>2, <3>3 DEF Advance, Local
  <2> DEFINE w == Accept(st, f)
  <2>4. /\ w \in StreamSet /\ w.ending = "none" /\ w.ended = st.ended
        /\ \A r \in Source \ {s} : SameSource(st, w, r)
        /\ w.next = st.next /\ w.context = st.context /\ w.data = st.data
        /\ w.sampled = st.sampled /\ s \in w.schema
    BY <2>1, <2>2, SchemaAccepted
  <2> HIDE DEF w
  <2>5. Expects(w, s, g, 1)
    <3>1. 0 + 1 = 1
      BY SMT
    <3>2. st.context[s] = g[0].context /\ (s \in st.sampled <=> g[0].sampled)
      BY <2>1 DEF Expects
    <3> QED
      BY <2>2, <2>3, <2>4, <3>1, <3>2 DEF Expects, Position
  <2> QED
    BY <2>1, <2>4, <2>5 DEF w
<1>2. CASE f.kind = "rows"
  <2> DEFINE k == f.sequence + 1
             n == Len(f.rows)
             w == Accept(st, f)
  <2>1. /\ f.source = s /\ f.sequence \in Nat /\ f.rows \in Seq(Row) /\ f.rows # <<>>
        /\ k \in Nat \ {0} /\ n \in Nat \ {0} /\ Slice(f.rows, h, k)
        /\ Before(f) = k /\ Upto(f) = k + n
    BY <1>2, SMT DEF Frame, FrameOf, Before, Upto
  <2>2. s \in st.schema /\ st.next[s] = f.sequence
    <3>1. st.next[s] \in Nat
      BY DEF StreamSet
    <3>2. Position(st, s) = f.sequence + 1
      BY <2>1 DEF Expects
    <3>3. f.sequence + 1 # 0 /\ (st.next[s] + 1 = f.sequence + 1 => st.next[s] = f.sequence)
      BY <2>1, <3>1, SMT
    <3> QED
      BY <3>2, <3>3 DEF Position
  <2>3. Accept(st, f) = AcceptRows(st, f)
    BY <1>2, <2>1, SourceFrame
  <2>4. Mixed \/ \E x \in {f.rows[i].kind : i \in DOMAIN f.rows} :
                    {f.rows[i].kind : i \in DOMAIN f.rows} = {x}
    <3> SUFFICES ASSUME ~ Mixed
                 PROVE  \E x \in {f.rows[i].kind : i \in DOMAIN f.rows} :
                          {f.rows[i].kind : i \in DOMAIN f.rows} = {x}
      OBVIOUS
    <3>1. \A j \in 1 .. n : f.rows[j].kind = f.rows[1].kind
      BY <2>1 DEF Slice
    <3>2. 1 \in 1 .. n /\ DOMAIN f.rows = 1 .. n
      BY <2>1, SeqFact
    <3>3. {f.rows[i].kind : i \in DOMAIN f.rows} = {f.rows[1].kind}
      BY <3>1, <3>2
    <3> QED
      BY <3>3
  <2>5. \A i \in 1 .. n - 1 :
          "address_context" \notin {f.rows[i].kind} \cap {f.rows[i + 1].kind}
    <3> HIDE DEF k, n
    <3> SUFFICES ASSUME NEW i \in 1 .. n - 1
                 PROVE  "address_context" \notin {f.rows[i].kind} \cap {f.rows[i + 1].kind}
      OBVIOUS
    <3>1. Len(h) \in Nat /\ k + n <= Len(h)
      BY <2>1, SeqFact DEF Slice, Run, n
    <3>2. k + i \in 1 .. Len(h) - 1 /\ i \in 1 .. n /\ i + 1 \in 1 .. n
          /\ k + (i + 1) = (k + i) + 1
      BY <2>1, <3>1, SMT
    <3>3. f.rows[i] = h[k + i] /\ f.rows[i + 1] = h[(k + i) + 1]
      BY <2>1, <3>2 DEF Slice, n
    <3>4. ~ (h[k + i].kind = "address_context" /\ h[(k + i) + 1].kind = "address_context")
      BY <3>2 DEF Run
    <3> QED
      BY <3>3, <3>4
  <2>6. Accept(st, f) = AcceptEach(st, s, f.rows)
    BY <2>1, <2>2, <2>3, <2>4, <2>5, FeatureFact DEF AcceptRows
  <2>7. RowsDone(st, w, s, n, g[k + n])
    <3>1. k + n <= Len(h) /\ \A j \in 1 .. n : f.rows[j] = h[k + j]
      BY <2>1 DEF Slice
    <3>2. st.next[s] = k - 1 /\ st.context[s] = g[k].context
          /\ (s \in st.sampled <=> g[k].sampled)
      <4>1. (f.sequence + 1) - 1 = f.sequence
        BY <2>1, SMT
      <4> QED
        BY <2>1, <2>2, <4>1 DEF Expects
    <3> HIDE DEF k
    <3>3. RowsDone(st, AcceptEach(st, s, f.rows), s, Len(f.rows), g[k + Len(f.rows)])
      BY <2>1, <2>2, <3>1, <3>2, EachAccepted
    <3> QED
      BY <2>6, <3>3
  <2> HIDE DEF w
  <2>8. Expects(w, s, g, k + n)
    <3>1. (f.sequence + n) + 1 = k + n /\ k + n >= 2
      BY <2>1, SMT
    <3>2. /\ s \in w.schema /\ w.next[s] = f.sequence + n
          /\ w.context[s] = g[k + n].context /\ (s \in w.sampled <=> g[k + n].sampled)
      BY <2>2, <2>7 DEF RowsDone
    <3> HIDE DEF k, n
    <3> QED
      BY <3>1, <3>2 DEF Expects, Position
  <2> QED
    BY <2>1, <2>7, <2>8 DEF RowsDone, w
<1> QED
  BY <1>1, <1>2 DEF Frame

\* An action boundary, when the registers of every source with rows are sampled.
LEMMA RequestAccepted ==
  ASSUME NEW st \in StreamSet, st.ending = "none", Kernel,
         \A r \in st.data : r \in st.schema /\ r \in st.sampled
  PROVE  LET w == Accept(st, [kind |-> "kernel_request"])
         IN  w \in StreamSet /\ w.ending = "none" /\ \A r \in Source : SameSource(st, w, r)
<1> DEFINE w == [st EXCEPT !.expected = FALSE]
<1>1. w \in StreamSet /\ w.ending = "none" /\ \A r \in Source : SameSource(st, w, r)
  BY DEF StreamSet, SameSource
<1>2. AcceptKernelRequest(st) = w
  <2>1. Has(st, "transition_windows") = FALSE
    BY FeatureFact, SMT DEF Has
  <2> QED
    BY <2>1, FeatureFact DEF AcceptKernelRequest
<1>3. Accept(st, [kind |-> "kernel_request"]) = w
  BY <1>2, PlainAccepted
<1> HIDE DEF w
<1> QED
  BY <1>1, <1>3

\* The end of the trace, when every source that was seen has ended.
LEMMA CompleteAccepted ==
  ASSUME NEW st \in StreamSet, st.ending = "none", st.seen \subseteq st.ended
  PROVE  LET w == Accept(st, [kind |-> "complete"])
         IN  w \in StreamSet /\ \A r \in Source : SameSource(st, w, r)
<1> DEFINE w == [st EXCEPT !.ending = "complete"]
<1>1. w \in StreamSet /\ \A r \in Source : SameSource(st, w, r)
  BY DEF StreamSet, SameSource
<1>2. st.declared = {}
  BY DEF StreamSet
<1>3. AcceptComplete(st) = w
  BY <1>2, FeatureFact DEF AcceptComplete
<1>4. Accept(st, [kind |-> "complete"]) = w
  BY <1>3, PlainAccepted
<1> HIDE DEF w
<1> QED
  BY <1>1, <1>4

\* The Stream takes the hello.
LEMMA HelloAccepted ==
  LET w == Accept(NewStream, [kind |-> "hello", features |-> Features])
  IN  /\ w \in StreamSet /\ w.ending = "none" /\ w.seen = {} /\ w.data = {} /\ w.ended = {}
      /\ w.schema = {} /\ w.sampled = {}
      /\ \A s \in Source : w.next[s] = 0 /\ w.context[s] = NoContext
<1> DEFINE f == [kind |-> "hello", features |-> Features]
           w == [NewStream EXCEPT !.started = TRUE, !.features = Features]
<1>1. FeaturesAllowed(Features)
  BY DEF FeaturesAllowed, Features
<1>2. NewStream.ok /\ NewStream.ending = "none" /\ ~ NewStream.started
  BY DEF NewStream
<1>3. f.kind = "hello" /\ f.features = Features
  OBVIOUS
<1> HIDE DEF f
<1>4. AcceptFirst(NewStream, f) = w
  BY <1>1, <1>3 DEF AcceptFirst
<1>5. Accept(NewStream, f) = w
  BY <1>2, <1>4 DEF Accept
<1>6. NoContext = -1
  BY DEF NoContext
<1>7. /\ w \in StreamSet /\ w.ending = "none" /\ w.seen = {} /\ w.data = {} /\ w.ended = {}
      /\ w.schema = {} /\ w.sampled = {}
      /\ \A s \in Source : w.next[s] = 0 /\ w.context[s] = NoContext
  <2> DEFINE v == NewStream
             F == [ok : {TRUE}, started : {FALSE}, ending : {"none"}, features : {{}},
                   layout : {FALSE}, sourceData : {FALSE}, next : [Source -> Nat],
                   seen : {{}}, data : {{}}, ended : {{}}, schema : {{}}, sampled : {{}},
                   context : [Source -> Int], window : {1}, expected : {FALSE}, keys : {{}},
                   counted : [Source -> {0}], filterSeen : {FALSE}, filterRows : {0},
                   projected : [Source -> {0}], lastBlock : [Source -> {-1}],
                   summarised : {{}}, declared : {{}}]
  <2>1. v \in F /\ \A s \in Source : v.next[s] = 0 /\ v.context[s] = NoContext
    <3>1. /\ [s \in Source |-> 0] \in [Source -> Nat] /\ [s \in Source |-> 0] \in [Source -> {0}]
          /\ [s \in Source |-> -1] \in [Source -> Int] /\ [s \in Source |-> -1] \in [Source -> {-1}]
      BY SMT
    <3> QED
      BY <1>6, <3>1 DEF NewStream
  <2> HIDE DEF v
  <2>2. w = [v EXCEPT !.started = TRUE, !.features = Features]
    BY DEF v
  <2>3. w \in StreamSet
    <3>1. ASSUME NEW x \in F, NEW y, y = [x EXCEPT !.started = TRUE, !.features = Features]
          PROVE  y \in StreamSet
      BY <3>1, ZenonT(30) DEF StreamSet
    <3> HIDE DEF w, F
    <3> QED
      BY <2>1, <2>2, <3>1
  <2>4. /\ w.ending = "none" /\ w.seen = {} /\ w.data = {} /\ w.ended = {}
        /\ w.schema = {} /\ w.sampled = {} /\ w.next = v.next /\ w.context = v.context
    BY <2>1, <2>2
  <2> HIDE DEF w
  <2> QED
    BY <2>1, <2>3, <2>4, SMT
<1> QED
  BY <1>5, <1>7 DEF f
=============================================================================
