------------------------------ MODULE PoolRead ------------------------------
(***************************************************************************)
(* One pool reads one worker's trace (pool.py): the generator _read with    *)
(* its opportunistic read-ahead of mixed frames, the collator, the terminal *)
(* frames and the classification of every way the connection can end.       *)
(*                                                                         *)
(* The worker and the socket are external.  Frames arrive whole, in order;  *)
(* the connection may end cleanly, inside a frame or by a reset, and a peer *)
(* that sends nothing makes the next receive time out.  A frame is valid or *)
(* not for the native Stream, which is modelled in TraceStream.             *)
(***************************************************************************)
EXTENDS Batching, FiniteSets

CONSTANTS
  Source,           \* vCPUs of the run
  GroupFrames,      \* _CONTEXT_GROUP_FRAMES
  MaxRows,          \* bound on the row frames of each source, per kind of run
  MaxInFlight,      \* bound on the frames in the socket, per kind of run; with
                    \* none the worker sends only to a reader that waits
  Named             \* sources with register schemas

Modes == {"plain", "collated", "context", "reduced", "interactive"}

VARIABLES
  worker,      \* what the worker has sent: mode, rows, names, ends, terminal
  socket,      \* frames not received, whether part of a frame follows, the peer
  at,          \* where _read is
  local,       \* its locals: hello, data, frames, pending, deferred, invalid, ...
  decoded,     \* decoded frames not handled yet
  outbox,      \* batches of this handler the consumer has not asked for yet
  collator,    \* the BatchCollator
  summaries,   \* pending_summaries
  outcome,     \* _outcome
  received,    \* history: rows received ahead of any invalid frame
  delivered    \* history: rows of each source, and summaries, the consumer has

poolVars == <<worker, socket, at, local, decoded, outbox, collator, summaries, outcome,
          received, delivered>>

NoFrame == [kind |-> "none"]
Frame(kind, source, detail) ==
  [kind |-> kind, source |-> source, detail |-> detail, row |-> 0, names |-> 0,
   bytes |-> 0, valid |-> TRUE]

NoOutcome == [reason |-> "none", complete |-> FALSE]

PoolInit ==
  /\ \E mode \in Modes :
       worker = [mode |-> mode, hello |-> FALSE, layout |-> FALSE, rows |-> [s \in Source |-> 0],
                 names |-> [s \in Source |-> 0], summed |-> {}, ended |-> {},
                 terminal |-> "none", invalid |-> FALSE]
  /\ socket = [frames |-> <<>>, partial |-> FALSE, peer |-> "open"]
  /\ at = "unread"
  /\ local = [hello |-> FALSE, data |-> FALSE, grouping |-> FALSE,
              names |-> [s \in Source |-> 0], frames |-> <<>>, pending |-> NoFrame,
              deferred |-> "none", invalid |-> FALSE, ended |-> "none"]
  /\ decoded = <<>>
  /\ outbox = <<>>
  /\ collator = NewCollator
  /\ summaries = <<>>
  /\ outcome = NoOutcome
  /\ received = [s \in Source |-> 0]
  /\ delivered = [rows |-> [s \in Source |-> <<>>], summaries |-> 0]

readerVars == <<at, local, decoded, outbox, collator, summaries, outcome, received, delivered>>

-----------------------------------------------------------------------------
(* The worker, external.  It may fail, or be cut off, after any frame. *)

CanSend ==
  /\ at \notin {"unread", "connecting", "ended"}
  /\ socket.peer = "open"
  /\ worker.terminal = "none" /\ ~worker.invalid
  /\ \/ Len(socket.frames) < MaxInFlight[worker.mode]
     \/ at = "receiving" /\ socket.frames = <<>>

Sends(frame, update) ==
  /\ CanSend
  /\ socket' = [socket EXCEPT !.frames = Append(@, frame)]
  /\ worker' = update
  /\ UNCHANGED readerVars

SendHello ==
  /\ ~worker.hello
  /\ Sends(Frame("hello", WorkerWide, worker.mode), [worker EXCEPT !.hello = TRUE])

RowKind ==
  CASE worker.mode = "context" -> "mixed" [] worker.mode = "reduced" -> "reduced" [] OTHER -> "rows"

SendRow(s, bytes) ==
  /\ worker.hello /\ s \notin worker.ended \cup worker.summed
  /\ worker.rows[s] < MaxRows[worker.mode][s]
  /\ Sends([Frame(RowKind, s, "none") EXCEPT !.row = worker.rows[s] + 1, !.bytes = bytes,
                                        !.names = worker.names[s]],
           [worker EXCEPT !.rows[s] = @ + 1])

SendSchema(s) ==
  /\ worker.hello /\ worker.mode \in {"plain", "collated"} /\ s \in Named \ worker.ended
  /\ worker.rows[s] = worker.names[s]
  /\ worker.names[s] < 2
  /\ Sends(Frame("schema", s, "none"), [worker EXCEPT !.names[s] = @ + 1])

SendLayout ==
  /\ worker.hello /\ worker.mode \in {"plain", "collated"}
  /\ ~worker.layout
  /\ \A s \in Source : worker.rows[s] = 0 /\ worker.names[s] = 0 /\ s \notin worker.ended
  /\ Sends(Frame("layout", WorkerWide, "none"), [worker EXCEPT !.layout = TRUE])

SendSummary(s) ==
  /\ worker.hello /\ worker.mode = "reduced" /\ s \notin worker.summed \cup worker.ended
  /\ Sends(Frame("summary", s, "none"), [worker EXCEPT !.summed = @ \cup {s}])

SendSourceEnd(s) ==
  /\ worker.hello /\ s \notin worker.ended
  /\ worker.mode = "reduced" => s \in worker.summed
  /\ Sends(Frame("end", s, "none"), [worker EXCEPT !.ended = @ \cup {s}])

SendComplete(exit) ==
  /\ worker.hello /\ worker.ended = Source
  /\ Sends(Frame("complete", WorkerWide, exit), [worker EXCEPT !.terminal = exit])

SendError == Sends(Frame("error", WorkerWide, "capture_failure"),
                   [worker EXCEPT !.terminal = "capture_failure"])

\* The report repeats the progress the worker has relayed; the client also has
\* to refuse one that does not.
SendReport(honest) ==
  Sends(Frame("report", WorkerWide,
              [hello |-> worker.hello = honest, data |-> \E s \in Source : worker.rows[s] > 0]),
        [worker EXCEPT !.terminal = IF honest THEN "max_run_deadline" ELSE "lie"])

\* A frame the Stream refuses, such as one that follows a lost frame.
SendInvalid(kind) ==
  Sends([Frame(kind, CHOOSE s \in Source : TRUE, "none") EXCEPT !.valid = FALSE],
        [worker EXCEPT !.invalid = TRUE])

PeerEnds(end, partial) ==
  /\ at \notin {"unread", "connecting", "ended"}
  /\ socket.peer = "open"
  /\ MaxInFlight[worker.mode] = 0 => at = "receiving"
  /\ partial => CanSend
  /\ socket' = [socket EXCEPT !.peer = end, !.partial = partial]
  /\ UNCHANGED <<worker, readerVars>>

Worker ==
  \/ SendHello \/ SendLayout \/ SendError
  \/ \E s \in Source : SendSchema(s) \/ SendSummary(s) \/ SendSourceEnd(s)
  \/ \E s \in Source, bytes \in {1, 3} : (worker.mode # "collated" => bytes = 1) /\ SendRow(s, bytes)
  \/ \E exit \in {"complete", "target_exit"} : SendComplete(exit)
  \/ \E honest \in BOOLEAN : SendReport(honest)
  \/ \E kind \in {"mixed", "end"} : SendInvalid(kind)
  \/ \E end \in {"closed", "reset"}, partial \in BOOLEAN : PeerEnds(end, partial)

-----------------------------------------------------------------------------
(* The handlers at the end of _read. *)

\* _make_outcome; the boundaries of the capture window are left out.
MakeOutcome(reason, transport, complete) ==
  [reason |-> reason, transport |-> transport, complete |-> complete,
   hello |-> local.hello, data |-> local.data]

\* The outcome each exception leaves; other exceptions leave none.
Raised(cause) ==
  CASE cause = "closed" -> MakeOutcome("unknown_disconnection", "clean", FALSE)
    [] cause = "truncated" -> MakeOutcome("truncated_stream", "clean", FALSE)
    [] cause = "timeout" -> MakeOutcome("client_timeout", "timeout", FALSE)
    [] cause = "reset" -> MakeOutcome("unknown_disconnection", "reset", FALSE)
    [] cause = "refused" -> MakeOutcome("connection_failure", "error", FALSE)
    [] OTHER -> NoOutcome

\* finally: self.close().
Raise(cause) ==
  /\ outcome' = IF Raised(cause) = NoOutcome THEN outcome ELSE Raised(cause)
  /\ at' = "ended"
  /\ local' = [local EXCEPT !.ended = cause]
  /\ UNCHANGED <<decoded, outbox, collator, summaries, delivered>>

-----------------------------------------------------------------------------
(* Receiving. *)

Read ==
  /\ at = "unread"
  /\ at' = "connecting"
  /\ UNCHANGED <<worker, socket, local, decoded, outbox, collator, summaries, outcome, received,
                 delivered>>

Connect ==
  /\ at = "connecting"
  /\ \/ /\ at' = "receiving"
        /\ UNCHANGED <<local, decoded, outbox, collator, summaries, outcome, delivered>>
     \/ \E cause \in {"refused", "timeout"} : Raise(cause)
  /\ UNCHANGED <<worker, socket, received>>

IsRow(frame) == frame.kind \in {"rows", "mixed", "reduced"}

\* History: a row counts unless an invalid frame came before it.
Count(frame) ==
  received' = IF IsRow(frame) /\ frame.valid THEN [received EXCEPT ![frame.source] = @ + 1]
              ELSE received

\* How a receive fails when no whole frame is left.
Failure ==
  CASE socket.peer = "open" -> "timeout"
    [] socket.peer = "reset" -> "reset"
    [] OTHER -> IF socket.partial THEN "truncated" ELSE "closed"

NextFrame == IF local.pending # NoFrame THEN local.pending ELSE Head(socket.frames)

\* A single frame is decoded at once; a mixed frame may open a group.
Receive ==
  /\ at = "receiving"
  /\ local.pending # NoFrame \/ socket.frames # <<>>
  /\ local' = [local EXCEPT !.pending = NoFrame, !.deferred = "none", !.invalid = FALSE,
                            !.frames = <<NextFrame>>]
  /\ IF local.pending # NoFrame THEN UNCHANGED <<socket, received>>
     ELSE socket' = [socket EXCEPT !.frames = Tail(@)] /\ Count(NextFrame)
  /\ at' = IF local.grouping /\ NextFrame.kind = "mixed" THEN "grouping" ELSE "decoding"
  /\ UNCHANGED <<worker, decoded, outbox, collator, summaries, outcome, delivered>>

ReceiveFails ==
  /\ at = "receiving"
  /\ local.pending = NoFrame /\ socket.frames = <<>>
  /\ Raise(Failure)
  /\ UNCHANGED <<worker, socket, received>>

\* The wire observer raises on a frame: the frame is lost with the read.
ObserverRaises ==
  /\ at = "receiving"
  /\ local.pending = NoFrame /\ socket.frames # <<>>
  /\ Raise("observer")
  /\ socket' = [socket EXCEPT !.frames = Tail(@)]
  /\ UNCHANGED <<worker, received>>

\* The next frame joins the group if all of it is in the socket.
ReadAhead ==
  /\ at = "grouping"
  /\ Len(local.frames) < GroupFrames
  /\ socket.frames # <<>>
  /\ LET following == Head(socket.frames) IN
     /\ IF following.kind = "mixed"
        THEN local' = [local EXCEPT !.frames = Append(@, following)] /\ UNCHANGED at
        ELSE local' = [local EXCEPT !.pending = following] /\ at' = "decoding"
     /\ Count(following)
  /\ socket' = [socket EXCEPT !.frames = Tail(@)]
  /\ UNCHANGED <<worker, decoded, outbox, collator, summaries, outcome, delivered>>

\* A failure of the read-ahead waits for the frames that came before it.
ReadAheadFails ==
  /\ at = "grouping"
  /\ Len(local.frames) < GroupFrames
  /\ \/ /\ socket.frames = <<>> /\ socket.peer = "reset"
        /\ local' = [local EXCEPT !.deferred = "reset"]
        /\ UNCHANGED socket
     \/ /\ socket.frames # <<>>
        /\ local' = [local EXCEPT !.deferred = "observer"]
        /\ socket' = [socket EXCEPT !.frames = Tail(@)]
  /\ at' = "decoding"
  /\ UNCHANGED <<worker, decoded, outbox, collator, summaries, outcome, received, delivered>>

\* The group is full, or nothing whole is ready.
ReadAheadEnds ==
  /\ at = "grouping"
  /\ \/ Len(local.frames) = GroupFrames
     \/ socket.frames = <<>> /\ socket.peer # "reset"
  /\ at' = "decoding"
  /\ UNCHANGED <<worker, socket, local, decoded, outbox, collator, summaries, outcome, received,
                 delivered>>

-----------------------------------------------------------------------------
(* Decoding, by the native module. *)

\* The batch of one or more row frames of a source; other frames that carry
\* data have no rows of a source.
BatchOf(frames) ==
  [source |-> IF frames[1].kind = "layout" THEN WorkerWide ELSE frames[1].source,
   rows |-> IF IsRow(frames[1])
            THEN [i \in DOMAIN frames |-> [row |-> frames[i].row, names |-> frames[i].names]]
            ELSE <<>>,
   names |-> 0,
   bytes |-> FoldLeft(LAMBDA total, f : total + f.bytes, 0, frames)]

\* The frames of a group before the first invalid one, one item per source in
\* the order the sources appear.
Grouped(frames) ==
  LET sources == ToSet([i \in DOMAIN frames |-> frames[i].source])
      FirstOf(s) == CHOOSE i \in DOMAIN frames :
                      frames[i].source = s /\ \A j \in 1 .. i - 1 : frames[j].source # s
      order == SetToSortSeq(sources, LAMBDA a, b : FirstOf(a) < FirstOf(b))
  IN [i \in DOMAIN order |->
        LET own == SelectSeq(frames, LAMBDA f : f.source = order[i])
        IN [frame |-> own[1], batch |-> BatchOf(own)]]

ValidPrefix(frames) ==
  LET bad == {i \in DOMAIN frames : ~frames[i].valid}
  IN IF bad = {} THEN frames ELSE SubSeq(frames, 1, (CHOOSE i \in bad : \A j \in bad : i <= j) - 1)

\* A fault: a group with an invalid frame is refused as a whole.
DecodeAllOrNothing ==
  /\ at = "decoding"
  /\ IF \E i \in DOMAIN local.frames : ~local.frames[i].valid
     THEN Raise("invalid")
     ELSE /\ decoded' = Grouped(local.frames)
          /\ at' = "handling"
          /\ UNCHANGED <<local, outbox, collator, summaries, outcome, delivered>>
  /\ UNCHANGED <<worker, socket, received>>

\* A lone frame that is refused raises at once; a group yields its valid prefix.
Decode ==
  /\ at = "decoding"
  /\ decoded' = Grouped(ValidPrefix(local.frames))
  /\ local' = [local EXCEPT !.invalid = ValidPrefix(local.frames) # local.frames, !.frames = <<>>]
  /\ at' = "handling"
  /\ UNCHANGED <<worker, socket, outbox, collator, summaries, outcome, received, delivered>>

-----------------------------------------------------------------------------
(* Handling the decoded frames. *)

Next1 == decoded[1].frame
Handling(kind) == at = "handling" /\ outbox = <<>> /\ decoded # <<>> /\ Next1.kind = kind

\* The frame is handled; batches wait for the consumer.
Handled(batches) ==
  /\ decoded' = Tail(decoded)
  /\ outbox' = batches

HandleHello ==
  /\ Handling("hello")
  /\ IF Next1.detail = "interactive"
     THEN Raise("wrong_client")
     ELSE /\ local' = [local EXCEPT !.hello = TRUE, !.grouping = Next1.detail = "context"]
          /\ Handled(<<>>)
          /\ UNCHANGED <<at, collator, summaries, outcome, delivered>>
  /\ UNCHANGED <<worker, socket, received>>

HandleSchema ==
  /\ Handling("schema")
  /\ local' = [local EXCEPT !.names[Next1.source] = @ + 1]
  /\ Handled(<<>>)
  /\ UNCHANGED <<worker, socket, at, collator, summaries, outcome, received, delivered>>

NamesOf(frame) == IF frame.kind = "layout" THEN 0 ELSE local.names[frame.source]

\* The names known so far go with the batch; it passes the collator if there is
\* one.
HandleData ==
  /\ at = "handling" /\ outbox = <<>> /\ decoded # <<>>
  /\ Next1.kind \in {"rows", "mixed", "layout"}
  /\ local' = [local EXCEPT !.data = TRUE]
  /\ LET batch == [decoded[1].batch EXCEPT !.names = NamesOf(Next1)]
         added == Add(collator, batch)
     IN IF worker.mode = "collated"
        THEN collator' = added.to /\ Handled(added.ready)
        ELSE Handled(<<batch>>) /\ UNCHANGED collator
  /\ UNCHANGED <<worker, socket, at, summaries, outcome, received, delivered>>

\* Rows of a reduced observation go round the collator.
HandleReduced ==
  /\ Handling("reduced")
  /\ local' = [local EXCEPT !.data = TRUE]
  /\ Handled(<<decoded[1].batch>>)
  /\ UNCHANGED <<worker, socket, at, collator, summaries, outcome, received, delivered>>

\* A fault: a summary is handed out when it arrives.
HandleSummaryAtOnce ==
  /\ Handling("summary")
  /\ local' = [local EXCEPT !.data = TRUE]
  /\ Handled(<<decoded[1].batch>>)
  /\ UNCHANGED <<worker, socket, at, collator, summaries, outcome, received, delivered>>

HandleSummary ==
  /\ Handling("summary")
  /\ local' = [local EXCEPT !.data = TRUE]
  /\ summaries' = Append(summaries, decoded[1].batch)
  /\ Handled(<<>>)
  /\ UNCHANGED <<worker, socket, at, collator, outcome, received, delivered>>

HandleSourceEnd ==
  /\ Handling("end")
  /\ LET ended == EndSource(collator, Next1.source)
     IN collator' = ended.to /\ Handled(ended.ready)
  /\ UNCHANGED <<worker, socket, at, local, summaries, outcome, received, delivered>>

\* The collator is emptied before the outcome is known.
HandleComplete ==
  /\ Handling("complete")
  /\ collator' = Finish(collator).to
  /\ Handled(Finish(collator).ready)
  /\ at' = "completing"
  /\ local' = [local EXCEPT !.ended = Next1.detail]
  /\ UNCHANGED <<worker, socket, summaries, outcome, received, delivered>>

\* A failed exit raises; a successful one hands out the summaries.
Complete ==
  /\ at = "completing" /\ outbox = <<>>
  /\ outcome' = MakeOutcome(local.ended, "not_observed", TRUE)
  /\ IF local.ended = "complete"
     THEN outbox' = summaries /\ at' = IF summaries = <<>> THEN "ended" ELSE "summing"
     ELSE at' = "ended" /\ UNCHANGED outbox
  /\ UNCHANGED <<worker, socket, local, decoded, collator, summaries, received, delivered>>

HandleError ==
  /\ Handling("error")
  /\ outcome' = MakeOutcome(Next1.detail, "not_observed", FALSE)
  /\ at' = "ended"
  /\ local' = [local EXCEPT !.ended = Next1.detail]
  /\ Handled(<<>>)
  /\ UNCHANGED <<worker, socket, collator, summaries, received, delivered>>

\* _raise_reported_terminal: the report must agree with what was received, and
\* nothing may follow it.  How the connection ends is recorded, not the reason.
HandleReport ==
  /\ Handling("report")
  /\ IF local.hello # Next1.detail.hello \/ local.data # Next1.detail.data
     THEN Raise("contradiction")
     ELSE IF socket.frames # <<>> \/ socket.partial
     THEN Raise("trailing")
     ELSE /\ outcome' = MakeOutcome("max_run_deadline", Raised(Failure).transport, FALSE)
          /\ at' = "ended"
          /\ local' = [local EXCEPT !.ended = "max_run_deadline"]
          /\ Handled(<<>>)
          /\ UNCHANGED <<collator, summaries, delivered>>
  /\ UNCHANGED <<worker, socket, received>>

EndOfFrames ==
  /\ at = "handling" /\ outbox = <<>> /\ decoded = <<>>
  /\ IF local.invalid THEN Raise("invalid")
     ELSE IF local.deferred # "none" THEN Raise(local.deferred)
     ELSE at' = "receiving" /\ UNCHANGED <<local, decoded, outbox, collator, summaries, outcome, delivered>>
  /\ UNCHANGED <<worker, socket, received>>

-----------------------------------------------------------------------------
(* The consumer. *)

\* The consumer takes the batch the generator is suspended at.
Take ==
  /\ outbox # <<>> /\ at # "ended"
  /\ LET batch == Head(outbox) IN
     delivered' = IF batch.rows = <<>> /\ batch.source # WorkerWide
                  THEN [delivered EXCEPT !.summaries = @ + 1]
                  ELSE IF batch.source = WorkerWide THEN delivered
                  ELSE [delivered EXCEPT !.rows[batch.source] =
                          @ \o [i \in DOMAIN batch.rows |-> batch.rows[i].row]]
  /\ outbox' = Tail(outbox)
  /\ at' = IF at = "summing" /\ Len(outbox) = 1 THEN "ended" ELSE at
  /\ UNCHANGED <<worker, socket, local, decoded, collator, summaries, outcome, received>>

\* The consumer leaves its loop: the generator is closed and closes the pool.
Abandon ==
  /\ outbox # <<>> /\ at # "ended"
  /\ at' = "ended"
  /\ local' = [local EXCEPT !.ended = "abandoned"]
  /\ UNCHANGED <<worker, socket, decoded, outbox, collator, summaries, outcome, received, delivered>>

Reader ==
  \/ Read \/ Connect \/ Receive \/ ReceiveFails \/ ObserverRaises
  \/ ReadAhead \/ ReadAheadFails \/ ReadAheadEnds \/ Decode
  \/ HandleHello \/ HandleSchema \/ HandleData \/ HandleReduced \/ HandleSummary
  \/ HandleSourceEnd \/ HandleComplete \/ Complete \/ HandleError \/ HandleReport
  \/ EndOfFrames \/ Take \/ Abandon

PoolNext == Worker \/ Reader

PoolSpec == PoolInit /\ [][PoolNext]_poolVars

-----------------------------------------------------------------------------
UpTo(n) == [i \in 1 .. n |-> i]

\* Nothing that was received ahead of a failure is lost: when _read ends by
\* itself, the consumer has every valid row received, in order and once, except
\* the rows that wait in the collator of an incomplete trace.
PrefixDelivered ==
  at = "ended" /\ local.ended # "abandoned" =>
    \A s \in Source : delivered.rows[s] \o PendingRows(collator, s) = UpTo(received[s])

Transport == {"unknown_disconnection", "truncated_stream", "client_timeout", "connection_failure"}

\* An outcome is complete only when the consumer has every row the worker sent,
\* and a summary is handed out only after that.
\* "Why a trace stopped, without depending on its socket symptom": a reason taken
\* from the connection means that the worker's last word never arrived, a
\* truncated stream that the peer ended inside a frame, and any other reason is
\* the worker's own, reached after every frame before it.
OutcomeTrue ==
  /\ outcome.complete \/ delivered.summaries > 0 =>
       /\ outcome.complete /\ worker.ended = Source
       /\ \A s \in Source : delivered.rows[s] = UpTo(worker.rows[s])
  /\ at = "ended" /\ outcome # NoOutcome =>
       /\ outcome.reason \in Transport => worker.terminal = "none"
       /\ outcome.reason = "truncated_stream" <=> outcome.transport = "clean" /\ socket.partial
       /\ outcome.reason \notin Transport => outcome.reason = worker.terminal /\ socket.frames = <<>>
       /\ outcome.data <=> \E s \in Source : worker.layout \/ received[s] > 0 \/ s \in worker.summed

\* The collator's counters are the sum of what it holds, and between two batches
\* no limit is reached: not per source, not over all sources.  Every register row
\* that leaves it finds its name in the mapping of its batch, however it was merged.
CollatorSound ==
  /\ collator.pendingBytes = TensorBytes(FlattenSeq(collator.sources))
  /\ collator.pendingFrames = Len(FlattenSeq(collator.sources))
  /\ collator.pendingBytes < 2 * TargetBytes /\ collator.pendingFrames < MaxPendingFrames
  /\ \A i \in DOMAIN collator.sources : collator.sources[i] # <<>> /\ ~SourceFull(collator.sources[i])
  /\ \A i \in DOMAIN outbox : \A j \in DOMAIN outbox[i].rows : outbox[i].rows[j].names <= outbox[i].names

=============================================================================
