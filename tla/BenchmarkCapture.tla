--------------------------- MODULE BenchmarkCapture ---------------------------
(***************************************************************************)
(* The capture benchmark (python/cpu2tensor/examples/benchmark_capture.py):*)
(* run_case starts a process group, drains its trace pipe through a        *)
(* TraceCounter while a waiter thread waits for the exit, and gives up     *)
(* after a timeout; benchmark repeats the cases in turn.                   *)
(*                                                                         *)
(* The child and what it writes are external.  A frame has two parts, its  *)
(* header and its payload, so that a read may end inside one.              *)
(***************************************************************************)
EXTENDS Integers, Sequences, FiniteSets, FiniteSetsExt

CONSTANTS
    Sources,      \* trace sources of the child
    MaxFrames,    \* frames the child writes at most, a bound of the model
    MaxEvents,    \* events among them at most, another one
    PipeParts,    \* parts the pipe holds
    Repeats       \* repeats of the manifest

Cases == <<"baseline", "traced">>

VARIABLES
    pc,        \* of run_case: "start", "select", "finally", "returned"
    runs,      \* how many runs of each case report["runs"] has
    child,     \* [alive, code, holder]: a descendant that keeps the pipe open,
               \* "group" in the process group of the child, "away" after a setsid
    waiter,    \* the waiter thread: "none", "waiting", "done"
    doneByte,  \* wait_child has written to the done pipe
    watched,   \* the descriptors registered with the selector
    stream,    \* the frames the child has begun to write
    written,   \* parts written to the trace pipe
    consumed,  \* parts read from it
    counter,   \* the TraceCounter
    status     \* result["status"]

bvars == <<pc, runs, child, waiter, doneByte, watched, stream, written, consumed, counter,
           status>>

Name == {Cases[i] : i \in DOMAIN Cases}
Total == MapThenSumSet(LAMBDA c : runs[c], Name)
Finished == Total = Repeats * Len(Cases)

\* Every repeat starts with the next case.
Case == Cases[1 + (((Total % Len(Cases)) + (Total \div Len(Cases))) % Len(Cases))]

NoChild == [alive |-> FALSE, code |-> 0, holder |-> "none"]
NewCounter == [started |-> FALSE, complete |-> FALSE, layout |-> FALSE, seen |-> FALSE,
               data |-> FALSE, mixed |-> FALSE, next |-> <<>>, ended |-> {}, events |-> 0,
               bad |-> FALSE]

\* run_case's locals before the child is started.
Fresh ==
    /\ pc' = "start" /\ child' = NoChild
    /\ waiter' = "none" /\ doneByte' = FALSE /\ watched' = {} /\ stream' = <<>>
    /\ written' = 0 /\ consumed' = 0 /\ counter' = NewCounter /\ status' = "failed"

BInit ==
    /\ pc = "start" /\ runs = [c \in Name |-> 0] /\ child = NoChild
    /\ waiter = "none" /\ doneByte = FALSE /\ watched = {} /\ stream = <<>>
    /\ written = 0 /\ consumed = 0 /\ counter = NewCounter /\ status = "failed"

\* The frames of a kind and of a source, and the events they carry.
Indices(k) == {i \in DOMAIN stream : stream[i].kind = k}
Events(s) == {i \in DOMAIN stream : stream[i].kind \in {"data", "mixed", "end"} /\ stream[i].source = s}
Count(set) == MapThenSumSet(LAMBDA i : stream[i].count, set)
Written(s) == Count(Events(s))

\* The frames a child may write next: a source's schema once, its next event or
\* one after a gap; "other" is an error frame or one the benchmark does not know
\* (external).
ChildFrame ==
    LET more == IF Count(UNION {Events(s) : s \in Sources}) < MaxEvents THEN {1} ELSE {}
    IN  [kind : {"hello"}, interactive : {FALSE}, layout : {FALSE}, mixed : {FALSE}]
          \cup [kind : {"hello"}, interactive : BOOLEAN, layout : {TRUE}, mixed : {TRUE}]
          \cup [kind : {"layout", "other"}]
          \cup [kind : {"complete"}, code : {0, 1}]
          \cup [kind : {"schema"}, source : Sources \ {stream[i].source : i \in Indices("schema")}]
          \cup UNION {[kind : {"data"}, source : {s}, count : more,
                       sequence : {Written(s), Written(s) + 1}] : s \in Sources}
          \cup UNION {[kind : {"mixed"}, source : {s}, count : more,
                       sequence : {Written(s)}] : s \in Sources}
          \cup UNION {[kind : {"end"}, source : {s}, count : {0},
                       sequence : {Written(s), Written(s) + 1}] : s \in Sources}

\* The next event of a source; the first frame of a source announces it.
Expected(c, s) == IF s \in DOMAIN c.next THEN c.next[s] ELSE 0
Announced(c, s) == [x \in DOMAIN c.next \cup {s} |-> Expected(c, x)]

\* A fault: frames are counted without the progress of their sources.
AcceptFraming(c, f) ==
    LET bad == [c EXCEPT !.bad = TRUE]
    IN  CASE c.complete \/ (~c.started /\ f.kind # "hello") -> bad
          [] ~c.complete /\ ~c.started /\ f.kind = "hello" ->
               [c EXCEPT !.started = TRUE, !.layout = f.layout, !.mixed = f.mixed]
          [] ~c.complete /\ c.started ->
               CASE f.kind \in {"hello", "other"} -> bad
                 [] f.kind = "complete" -> [c EXCEPT !.complete = TRUE]
                 [] f.kind \in {"layout", "schema"} -> c
                 [] f.kind \in {"data", "mixed", "end"} ->
                      [c EXCEPT !.next = [Announced(c, f.source) EXCEPT ![f.source] = @ + f.count],
                                !.events = @ + IF f.kind = "end" THEN 0 ELSE f.count]
\* TraceCounter.accept and accept_mixed: the counter after a frame, "bad" when
\* it raises.  A mixed frame is its runs; its count must be their sum.
Accept(c, f) ==
    LET bad == [c EXCEPT !.bad = TRUE]
        announced == [c EXCEPT !.next = Announced(c, f.source)]
    IN  CASE c.complete \/ (~c.started /\ f.kind # "hello") -> bad
          [] ~c.complete /\ ~c.started /\ f.kind = "hello" ->
               IF f.interactive THEN bad
               ELSE [c EXCEPT !.started = TRUE, !.layout = f.layout, !.mixed = f.mixed]
          [] ~c.complete /\ c.started ->
               CASE f.kind \in {"hello", "other"} -> bad
                 [] f.kind = "layout" ->
                      IF ~c.layout \/ c.seen \/ c.data THEN bad ELSE [c EXCEPT !.seen = TRUE]
                 [] f.kind \in {"complete", "data", "mixed", "end"} /\ c.layout /\ ~c.seen -> bad
                 [] f.kind = "complete" /\ (c.layout => c.seen) ->
                      IF f.code = 0 /\ DOMAIN c.next = c.ended
                      THEN [c EXCEPT !.complete = TRUE] ELSE bad
                 [] f.kind = "schema" -> IF f.source \in c.ended THEN bad ELSE announced
                 [] f.kind \in {"data", "mixed", "end"} /\ (c.layout => c.seen) ->
                      IF \/ f.source \in c.ended \/ f.sequence # Expected(c, f.source)
                         \/ f.kind = "mixed" /\ (~c.mixed \/ f.count = 0)
                      THEN bad
                      ELSE [announced EXCEPT
                              !.data = TRUE, !.next[f.source] = @ + f.count,
                              !.ended = IF f.kind = "end" THEN @ \cup {f.source} ELSE @,
                              !.events = @ + IF f.kind = "end" THEN 0 ELSE f.count]

\* TraceCounter.feed: the whole frames among the parts read so far.
RECURSIVE Feed(_, _, _)
Feed(c, from, to) ==
    IF from = to \/ c.bad THEN c ELSE Feed(Accept(c, stream[from + 1]), from + 1, to)

\* TraceCounter.finish.
Sealed(c) == consumed % 2 = 0 /\ c.complete /\ c.events > 0

\* Popen, the selector's registrations and the waiter thread.
StartCase ==
    /\ pc = "start" /\ ~Finished
    /\ pc' = "select"
    /\ child' = [NoChild EXCEPT !.alive = TRUE]
    /\ watched' = {"exit"} \cup IF Case = "traced" THEN {"trace"} ELSE {}
    /\ waiter' = "waiting"
    /\ UNCHANGED <<runs, doneByte, stream, written, consumed, counter, status>>

\* The command cannot be started.
StartFails ==
    /\ pc = "start" /\ ~Finished
    /\ pc' = "finally"
    /\ UNCHANGED <<runs, child, waiter, doneByte, watched, stream, written, consumed, counter, status>>

\* The child writes one part (external).
ChildWrites ==
    /\ child.alive /\ pc = "select" /\ "trace" \in watched /\ written - consumed < PipeParts
    /\ \/ written % 2 = 1 /\ UNCHANGED stream
       \/ /\ written % 2 = 0 /\ Len(stream) < MaxFrames
          /\ \E f \in ChildFrame : stream' = Append(stream, f)
    /\ written' = written + 1
    /\ UNCHANGED <<pc, runs, child, waiter, doneByte, watched, consumed, counter, status>>

\* The child exits; a descendant may keep its end of the pipe (external).
ChildExits ==
    /\ child.alive
    /\ \E code \in {0, 1}, holder \in {"none", "group", "away"} :
         /\ Case = "baseline" => holder = "none"
         /\ child' = [alive |-> FALSE, code |-> code, holder |-> holder]
    /\ UNCHANGED <<pc, runs, waiter, doneByte, watched, stream, written, consumed, counter, status>>

DescendantEnds ==
    /\ child.holder # "none"
    /\ child' = [child EXCEPT !.holder = "none"]
    /\ UNCHANGED <<pc, runs, waiter, doneByte, watched, stream, written, consumed, counter, status>>

\* wait_child: reap, record the exit, and write the byte.
WaitChild ==
    /\ waiter = "waiting" /\ ~child.alive
    /\ waiter' = "done" /\ doneByte' = TRUE
    /\ UNCHANGED <<pc, runs, child, watched, stream, written, consumed, counter, status>>

\* Nobody reads the trace any more; the model forgets it.
Abandoned == stream' = <<>> /\ written' = 0 /\ consumed' = 0 /\ counter' = NewCounter

\* The loop checks the clock before every select; the timeout may pass at any
\* time while a descriptor is still watched.
TimesOut ==
    /\ pc = "select" /\ watched # {}
    /\ status' = "timeout" /\ pc' = "finally" /\ Abandoned
    /\ UNCHANGED <<runs, child, waiter, doneByte, watched>>

ReadExit ==
    /\ pc = "select" /\ "exit" \in watched /\ doneByte
    /\ doneByte' = FALSE /\ watched' = watched \ {"exit"}
    /\ UNCHANGED <<pc, runs, child, waiter, stream, written, consumed, counter, status>>

\* A read takes any number of the parts in the pipe; an invalid frame raises.
ReadTrace ==
    /\ pc = "select" /\ "trace" \in watched
    /\ \E n \in (consumed + 1)..written :
         LET c == Feed(counter, consumed \div 2, n \div 2)
         IN  IF c.bad THEN pc' = "finally" /\ Abandoned
             ELSE consumed' = n /\ counter' = c /\ UNCHANGED <<pc, stream, written>>
    /\ UNCHANGED <<runs, child, waiter, doneByte, watched, status>>

ReadEnd ==
    /\ pc = "select" /\ "trace" \in watched
    /\ consumed = written /\ ~child.alive /\ child.holder = "none"
    /\ watched' = watched \ {"trace"}
    /\ UNCHANGED <<pc, runs, child, waiter, doneByte, stream, written, consumed, counter, status>>

\* Both descriptors are at their end: join the waiter, then judge the run.
JudgeRun ==
    /\ pc = "select" /\ watched = {} /\ waiter = "done"
    /\ \E text \in BOOLEAN :
         status' = IF child.code = 0 /\ (Case = "traced" => Sealed(counter)) /\ text
                   THEN "ok" ELSE "failed"
    /\ pc' = "finally"
    /\ UNCHANGED <<runs, child, waiter, doneByte, watched, stream, written, consumed, counter>>

\* A fault: the group is left alone, the waiter waits for it.
FinallyWaits ==
    /\ pc = "finally" /\ waiter \in {"none", "done"}
    /\ pc' = "returned"
    /\ UNCHANGED <<runs, child, waiter, doneByte, watched, stream, written, consumed, counter, status>>
\* stop_group's SIGKILL reaches the process group, not who has left it.
InGroup == child.alive \/ child.holder = "group"

\* The finally block: kill the group of a run that is not ok, join the waiter,
\* close the descriptors.
Finally ==
    /\ pc = "finally"
    /\ \/ /\ status # "ok" /\ InGroup
          /\ child' = [alive |-> FALSE, code |-> IF child.alive THEN 9 ELSE child.code,
                       holder |-> IF child.holder = "group" THEN "none" ELSE child.holder]
          /\ UNCHANGED pc
       \/ /\ status = "ok" \/ ~InGroup
          /\ waiter \in {"none", "done"}
          /\ pc' = "returned" /\ UNCHANGED child
    /\ UNCHANGED <<runs, waiter, doneByte, watched, stream, written, consumed, counter, status>>

\* benchmark appends the result and goes on with the next case.
NextCase ==
    /\ pc = "returned"
    /\ runs' = [runs EXCEPT ![Case] = @ + 1]
    /\ Fresh

BNext ==
    \/ StartCase \/ StartFails \/ ChildWrites \/ ChildExits \/ DescendantEnds \/ WaitChild
    \/ TimesOut \/ ReadExit \/ ReadTrace \/ ReadEnd \/ JudgeRun \/ Finally \/ NextCase

\* Once the program has begun, it and its waiter thread keep running, and time
\* passes.
BFairness ==
    /\ WF_bvars(\/ ReadExit \/ ReadTrace \/ ReadEnd \/ JudgeRun \/ Finally \/ NextCase
                \/ StartCase /\ Total > 0)
    /\ WF_bvars(WaitChild) /\ WF_bvars(TimesOut)

-----------------------------------------------------------------------------
\* What a sealed trace is, said of the whole stream at once.
WholeTrace ==
    /\ Indices("hello") = {1} /\ Indices("complete") = {Len(stream)} /\ Indices("other") = {}
    /\ \A s \in {stream[i].source : i \in Indices("schema") \cup Indices("data")
                                          \cup Indices("mixed") \cup Indices("end")} :
         /\ \E i \in Events(s) : stream[i].kind = "end" /\ \A j \in Events(s) \ {i} : j < i
         /\ \A i \in Events(s) : stream[i].sequence = Count({j \in Events(s) : j < i})
    /\ Indices("layout") # {} =>
         Cardinality(Indices("layout")) = 1 /\ \A i \in Indices("data") \cup Indices("mixed") \cup Indices("end") :
                                                  \A j \in Indices("layout") : j < i
    /\ Indices("mixed") # {} => stream[1].mixed

\* A benchmark row that counts is a whole run: an "ok" traced run exited
\* cleanly, its pipe was drained to the end, and what was drained is a sealed
\* trace with every source's events in order; a run that is not ok leaves no
\* process of its group behind (run_case, TraceCounter, stop_group).
OkMeansSealed ==
    /\ pc = "returned" /\ status = "ok" /\ Case = "traced" =>
         /\ child.code = 0 /\ consumed = written /\ WholeTrace
         /\ counter.events = Count(Indices("data") \cup Indices("mixed")) /\ counter.events > 0
    /\ pc = "returned" /\ status # "ok" => ~InGroup

\* Whatever the child and its descendants do, a benchmark that has begun comes
\* to an end (the timeout, stop_group, the waiter's join), and by then every case
\* has been run as often as every other, although the cases take turns in going
\* first: the medians summarize compares are of the same number of runs.
BenchmarkEnds == pc = "select" ~> Finished /\ \A c \in Name : runs[c] = Repeats
=============================================================================
