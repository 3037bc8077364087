-------------------------- MODULE CaptureInvariant --------------------------
(***************************************************************************)
(* The invariants behind a capture: who is inside a source, and what the   *)
(* rows, the frames and the Stream of a source have to do with each other. *)
(***************************************************************************)
EXTENDS Capture

\* The rows a vCPU appends, and the calls of a plan.
Row ==
  [kind : {"address_context", "blocks", "register_schema"}]
    \cup [kind : {"registers"}, baseline : BOOLEAN]
    \cup [kind : {"memory"}, context : Int]

Op == {"append", "flush", "count", "wait", "end", "lock", "unlock", "require", "end_active"}

PlanCall == [op : Op, at : Source] \cup [op : {"append"}, at : Source, row : Row]

\* What an execution callback does without a lock, and what never changes one.
Free == {"append", "flush", "count"}

Inner == Op \ {"lock", "unlock"}

ExclusionType ==
  /\ plan \in [Thread -> Seq(PlanCall)]
  /\ lock \in [Source -> Thread \cup {Nobody}]
  /\ command \in {0, 1}
  /\ waiting \in BOOLEAN
  /\ world \in {"running", "stopped"}
  /\ control \in {"check", "poll", "drain", "returned"}
  /\ finishing \in {"no", "join", "ending", "collector", "done"}

\* The calls of a vCPU concern its own source.  It holds its mutex from the start
\* of a cold callback to the unlock at its end; without the mutex it executes, in
\* a running world and before the exit handler.
CpuInv(s) ==
  /\ \A i \in DOMAIN plan[s] :
       /\ plan[s][i].at = s /\ plan[s][i].op # "lock"
       /\ plan[s][i].op = "unlock" => i = Len(plan[s]) /\ lock[s] = s
  /\ lock[s] = s => plan[s] # <<>> /\ plan[s][Len(plan[s])].op = "unlock"
  /\ plan[s] # <<>> /\ lock[s] # s =>
       /\ world = "running" /\ finishing = "no"
       /\ \A i \in DOMAIN plan[s] : plan[s][i].op \in Free

\* Call i of thread t is made under the mutex of its source: t holds the mutex,
\* or takes it before that call, and does not release it in between.
Locks(t, j, s) == plan[t][j].op = "lock" /\ plan[t][j].at = s

Unlocks(t, j, s) == plan[t][j].op = "unlock" /\ plan[t][j].at = s

Covered(t, i) ==
  LET s == plan[t][i].at
  IN  \/ lock[s] = t /\ \A j \in 1 .. i - 1 : ~ Unlocks(t, j, s)
      \/ \E k \in 1 .. i - 1 : Locks(t, k, s) /\ \A j \in k .. i - 1 : ~ Unlocks(t, j, s)

Guarded(t) == \A i \in DOMAIN plan[t] : plan[t][i].op # "lock" => Covered(t, i)

\* The control thread drains a stopped world that nobody may resume, and the exit
\* handler ends the sources when the control thread has returned.
StopInv ==
  /\ world = "running" => command = 0 /\ ~ waiting /\ control # "drain"
  /\ control = "drain" => command = 0 /\ ~ waiting
  /\ waiting => command = 0
  /\ plan[Control] # <<>> => control = "drain"
  /\ plan[Main] # <<>> => finishing = "ending"
  /\ finishing \in {"ending", "collector", "done"} => control = "returned"

ExclusionInv ==
  /\ ExclusionType
  /\ \A s \in Source : CpuInv(s)
  /\ Guarded(Control) /\ Guarded(Main)
  /\ StopInv

\* Thread t is about to make a call on s that is not the taking of its mutex.
Inside(t, s) == plan[t] # <<>> /\ Head(plan[t]).at = s /\ Head(plan[t]).op # "lock"

-----------------------------------------------------------------------------
(* Rows, frames and the Stream. *)

\* What a source's rows have established: its current address context and
\* whether its registers have been sampled.
Local == [context : Int, sampled : BOOLEAN]

\* Row i of a source, the schema being row 1: the sequence number of row i + 2
\* is i.
Fits(l, row, i) ==
  /\ row.kind = "register_schema" <=> i = 1
  /\ row.kind \in {"blocks", "memory"} => l.sampled
  /\ row.kind \in {"blocks", "registers"} => l.context # NoContext
  /\ row.kind = "registers" => (row.baseline <=> ~ l.sampled)
  /\ row.kind = "memory" => row.context = l.context

Advance(l, row, i) ==
  [context |-> IF row.kind = "address_context" THEN i - 2 ELSE l.context,
   sampled |-> l.sampled \/ row.kind = "registers"]

\* The rows h of a source, and what is established after each.
Run(h, g) ==
  /\ h \in Seq(Row)
  /\ g \in [0 .. Len(h) -> Local]
  /\ g[0] = [context |-> NoContext, sampled |-> FALSE]
  /\ \A i \in 1 .. Len(h) : Fits(g[i - 1], h[i], i) /\ g[i] = Advance(g[i - 1], h[i], i)
  /\ \A i \in 1 .. Len(h) - 1 :
       ~ (h[i].kind = "address_context" /\ h[i + 1].kind = "address_context")

\* The rows b are those of h after the first k, and fit one frame.
Slice(b, h, k) ==
  /\ b \in Seq(Row) /\ k \in Nat /\ k + Len(b) <= Len(h)
  /\ \A j \in 1 .. Len(b) : b[j] = h[k + j]
  /\ k = 0 => Len(b) <= 1
  /\ Mixed \/ \A j \in 1 .. Len(b) : b[j].kind = b[1].kind

\* A frame of source s, the rows before it and the rows up to its end.
Frame ==
  [kind : {"register_schema"}, source : Source]
    \cup [kind : {"rows"}, source : Source, sequence : Nat, rows : Seq(Row)]

FrameOf(s, f, h) ==
  /\ f.source = s
  /\ IF f.kind = "rows" THEN f.rows # <<>> /\ Slice(f.rows, h, f.sequence + 1) ELSE Len(h) >= 1

Before(f) == IF f.kind = "rows" THEN f.sequence + 1 ELSE 0

Upto(f) == IF f.kind = "rows" THEN f.sequence + 1 + Len(f.rows) ELSE 1

\* A frame is in the ring and its rows are still in the buffer; the collector
\* has sent the frame at the head of the ring.
Pushed(s) == \E t \in Thread : plan[t] # <<>> /\ plan[t][1].op = "count" /\ plan[t][1].at = s

HeldAt(s) == held /\ Visited = s

\* Of the e rows that source s has captured, those that are in frames; the rows
\* that a Stream has accepted.
Framed(s, e) == e - (IF Pushed(s) THEN 0 ELSE Len(buffer[s]))

Position(st, s) == IF s \in st.schema THEN st.next[s] + 1 ELSE 0

BufferInv(s, h, g, e) ==
  /\ next[s] = (IF e = 0 THEN 0 ELSE e - 1)
  /\ context[s] = g[e].context
  /\ s \in sampled <=> g[e].sampled
  /\ Slice(buffer[s], h, e - Len(buffer[s]))

RingInv(s, h, e) ==
  /\ \A j \in 1 .. Len(ring[s]) : FrameOf(s, ring[s][j], h)
  /\ \A j \in 1 .. Len(ring[s]) - 1 : Upto(ring[s][j]) = Before(ring[s][j + 1])
  /\ ring[s] # <<>> => Upto(ring[s][Len(ring[s])]) = Framed(s, e)
  /\ sent[s] + Len(ring[s]) = queued[s] + (IF Pushed(s) THEN 1 ELSE 0)
  /\ ~ UseRing => ring[s] = <<>>
  /\ HeldAt(s) => ring[s] # <<>>

\* Stream st has accepted the first n rows of source s, and nothing else of it
\* but its end.
Expects(st, s, g, n) ==
  /\ Position(st, s) = n
  /\ s \notin st.schema => st.next[s] = 0
  /\ st.context[s] = g[n].context
  /\ s \in st.sampled <=> g[n].sampled
  /\ s \in st.data => n >= 2 \/ s \in st.ended

Reached(s, e) ==
  IF HeldAt(s) THEN Upto(ring[s][1])
  ELSE IF ring[s] # <<>> THEN Before(ring[s][1])
  ELSE Framed(s, e)

AcceptedInv(s, g, e) ==
  /\ Expects(stream, s, g, Reached(s, e))
  /\ s \in stream.seen => state[s] # "unused"
  /\ s \in stream.ended <=> state[s] = "ended"

\* The rows of h after the first e are those its callback has still to append; a
\* memory row gets its context when it is appended.
Match(planned, row) ==
  planned = row \/ (planned.kind = "memory" /\ row.kind = "memory")

Offset(P) == IF P # <<>> /\ P[1].op \in {"flush", "count"} THEN 1 ELSE 0

PlanRows(P, s, h, e) ==
  /\ Offset(P) + Len(h) - e <= Len(P)
  /\ \A j \in 1 .. Len(h) - e :
       /\ P[Offset(P) + j] \in [op : {"append"}, at : {s}, row : Row]
       /\ Match(P[Offset(P) + j].row, h[e + j])
  /\ \A i \in 1 .. Len(P) :
       P[i].op = "append" => i > Offset(P) /\ i <= Offset(P) + Len(h) - e

RowsInv(s, h, g) ==
  /\ Len(h) >= 2 \/ s \in recording => g[Len(h)].sampled
  /\ state[s] = "unused" => h = <<>> /\ plan[s] = <<>>
  /\ state[s] # "unused" => h # <<>>
  /\ h # <<>> /\ h[Len(h)].kind = "address_context" /\ state[s] # "ended" =>
       \E i \in DOMAIN plan[s] : plan[s][i].op = "end"
  /\ state[s] = "ended" =>
       /\ buffer[s] = <<>> /\ ring[s] = <<>>
       /\ \A i \in DOMAIN plan[s] : plan[s][i].op = "unlock"

\* Which call comes after which in a plan.
Pairs(t) ==
  {<<"append", "append">>, <<"flush", "append">>, <<"count", "append">>,
   <<"append", "flush">>, <<"flush", "flush">>, <<"count", "flush">>, <<"require", "flush">>,
   <<"flush", "wait">>, <<"count", "wait">>, <<"wait", "end">>,
   <<"lock", "require">>, <<"lock", "end_active">>, <<"unlock", "lock">>}
  \cup (IF t = Control THEN {<<"wait", "unlock">>}
        ELSE IF t = Main THEN {<<"end", "unlock">>, <<"end_active", "unlock">>}
        ELSE {<<"flush", "unlock">>, <<"count", "unlock">>, <<"end", "unlock">>})

Link(a, b, t) == <<a.op, b.op>> \in Pairs(t) /\ (a.op # "unlock" => b.at = a.at)

Ordered(P, t) ==
  /\ \A i \in 1 .. Len(P) - 1 : Link(P[i], P[i + 1], t)
  /\ t \notin Source => /\ \A i \in 1 .. Len(P) : P[i].op # "append"
                        /\ P # <<>> => P[Len(P)].op = "unlock"

\* The call that comes next finds its source as it needs it.
HeadInv(t) ==
  plan[t] # <<>> =>
    LET op == plan[t][1].op
        s == plan[t][1].at
    IN  /\ op \in {"append", "flush", "count", "wait", "end"} => state[s] = "active"
        /\ op = "count" => buffer[s] # <<>> /\ UseRing
        /\ op \in {"wait", "end"} => buffer[s] = <<>>
        /\ op = "end" => ring[s] = <<>>
        /\ op = "unlock" /\ t = Control =>
             state[s] = "active" /\ buffer[s] = <<>> /\ ring[s] = <<>>
        /\ op = "unlock" /\ t = Main => state[s] # "active"

\* The control thread and the exit handler are done with s.
Passed(t, s) == \A i \in DOMAIN plan[t] : plan[t][i].at # s

PassInv(s) ==
  /\ Passed(Control, s) /\ (control = "drain" \/ waiting) =>
       /\ state[s] # "unused" /\ plan[s] = <<>> /\ buffer[s] = <<>> /\ ring[s] = <<>>
       /\ control = "drain" => state[s] = "active"
  /\ Passed(Main, s) /\ finishing \in {"ending", "collector", "done"} =>
       state[s] # "active" /\ plan[s] = <<>>

StreamSet ==
  [ok : {TRUE}, started : {TRUE}, ending : {"none", "error", "complete"},
   features : {Features}, layout : {FALSE}, sourceData : BOOLEAN,
   next : [Source -> Nat],
   seen : SUBSET Source, data : SUBSET Source, ended : SUBSET Source,
   schema : SUBSET Source, sampled : SUBSET Source,
   context : [Source -> Int],
   window : {1}, expected : {FALSE}, keys : {{}},
   counted : [Source -> {0}],
   filterSeen : {FALSE}, filterRows : {0},
   projected : [Source -> {0}],
   lastBlock : [Source -> {-1}],
   summarised : {{}}, declared : {{}}]

TypeInv ==
  /\ mode \in Modes
  /\ state \in [Source -> {"unused", "active", "ended"}]
  /\ next \in [Source -> Nat]
  /\ buffer \in [Source -> Seq(Row)]
  /\ context \in [Source -> Int]
  /\ sampled \subseteq Source /\ recording \subseteq Source
  /\ ring \in [Source -> Seq(Frame)]
  /\ queued \in [Source -> Nat] /\ sent \in [Source -> Nat]
  /\ first \in Nat /\ step \in 0 .. Cardinality(Source) /\ held \in BOOLEAN
  /\ collector \in {"running", "done", "returned"}
  /\ failure \in {"none", "inactive"}
  /\ stream \in StreamSet

ThreadInv ==
  /\ held => step < Cardinality(Source)
  /\ collector = "returned" => ~ UseRing \/ finishing \in {"collector", "done"}
  /\ collector = "done" => finishing \in {"collector", "done"}
  /\ Alive => stream.ending = "none"
  /\ control # "returned" => Kernel

Captured(s, h, g, e) ==
  /\ Run(h, g)
  /\ e \in 0 .. Len(h)
  /\ BufferInv(s, h, g, e)
  /\ RingInv(s, h, e)
  /\ AcceptedInv(s, g, e)
  /\ PlanRows(plan[s], s, h, e)
  /\ RowsInv(s, h, g)

FramesInv ==
  /\ TypeInv
  /\ ThreadInv
  /\ \A t \in Thread : Ordered(plan[t], t) /\ HeadInv(t)
  /\ \A s \in Source : PassInv(s)
  /\ \A s \in Source : \E h, g, e : Captured(s, h, g, e)

\* The Stream says the same of source r.
SameSource(st, w, r) ==
  /\ w.next[r] = st.next[r] /\ w.context[r] = st.context[r]
  /\ r \in w.seen <=> r \in st.seen
  /\ r \in w.data <=> r \in st.data
  /\ r \in w.ended <=> r \in st.ended
  /\ r \in w.schema <=> r \in st.schema
  /\ r \in w.sampled <=> r \in st.sampled

\* A nonempty set of naturals has a least member.
LeastMembers == \A S \in SUBSET Nat : S # {} => \E x \in S : \A y \in S : x <= y
=============================================================================
