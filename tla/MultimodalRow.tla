---------------------------- MODULE MultimodalRow -----------------------------
(***************************************************************************)
(* One admitted execution on its way into the masked model: the admission  *)
(* checks of hardware_multimodal_experiment.py, the fixed-width tokens of  *)
(* hardware_multimodal_features.py, and the training masks and scoring     *)
(* plans of hardware_multimodal.py.                                        *)
(*                                                                         *)
(* Feature values are abstracted: a token is the set of bytes or samples   *)
(* it was computed from, with its time bounds.  Times are in units of the  *)
(* model, bounds are rounded as float32 tensors round them, positions      *)
(* count from 0 as in the code.                                            *)
(***************************************************************************)
EXTENDS Integers, Sequences, FiniteSets, FiniteSetsExt

CONSTANTS
    Segments,       \* SEGMENTS: tokens of PT and of PEBS, each
    MaximumSpan,    \* maximum_span of make_training_masks
    MaskAttempts,   \* spans drawn before the fallback (32 in the code)
    Precision,      \* significant bits of a float32 (24 in the code)
    TargetCpu,      \* the CPU the workload is pinned to
    Captures        \* what the capture may return, sets of lanes

Modality == {"pt", "pebs", "pmu"}
Position(m) == IF m = "pmu" THEN {0} ELSE 0..(Segments - 1)

VARIABLES
    captured,  \* the batches of PerfMultimodalCapture.stop, by thread
    row,       \* the model batch of the execution, by thread, or NoRow
    masks,     \* the tokens hidden in this training step
    done,      \* the lanes and modalities whose mask is made
    stage      \* "captured", "rejected", "masking", "trained", "scored", "raised"

rvars == <<captured, row, masks, done, stage>>

NoRow == <<>>

RInit ==
    /\ captured \in Captures
    /\ row = NoRow /\ masks = NoRow /\ done = {} /\ stage = "captured"

\* _validate_envelope: the four stamps of a capture, in order and not empty.
ValidEnvelope(e) == e[1] <= e[2] /\ e[2] < e[3] /\ e[3] <= e[4]

\* _validate_status and the source checks of _validate_capture: every source
\* was requested, delivered, lost nothing and was never multiplexed.
ValidStatus(lane) == \A s \in DOMAIN lane.status : lane.status[s] = "complete"

\* _validate_capture: the target's own thread is there, samples are exact and
\* on the target's CPU, and the trace is not empty.
ValidateCapture(lanes, pid) ==
    /\ pid \in DOMAIN lanes
    /\ \A t \in DOMAIN lanes :
         /\ ValidStatus(lanes[t])
         /\ \A i \in DOMAIN lanes[t].samples :
              lanes[t].samples[i].exact /\ lanes[t].samples[i].cpu = TargetCpu
    /\ \E t \in DOMAIN lanes : lanes[t].pt > 0

\* A fault: equal segments, without the remainder of the trace.
SegmentTruncated(length, i) ==
    {b \in 0..(length - 1) : b >= (length \div Segments) * i /\ b < (length \div Segments) * (i + 1)}
\* _pt_features: the bytes of segment i of a trace.
Segment(length, i) ==
    {b \in 0..(length - 1) : b >= (length * i) \div Segments /\ b < (length * (i + 1)) \div Segments}

\* _pebs_features: the segment of a timestamp; the last instant of the
\* envelope belongs to the last one.
Bucket(time, e) ==
    LET s == ((time - e[1]) * Segments) \div (e[4] - e[1])
    IN  IF s < Segments - 1 THEN s ELSE Segments - 1

Samples(lane, i) == {k \in DOMAIN lane.samples : Bucket(lane.samples[k].time, lane.envelope) = i}

\* _pebs_features refuses samples of another thread, of two CPUs, or outside
\* the envelope.
ValidSamples(t, lane) ==
    /\ \A k \in DOMAIN lane.samples :
         /\ lane.samples[k].tid = t
         /\ lane.samples[k].time \in lane.envelope[1]..lane.envelope[4]
    /\ \A j, k \in DOMAIN lane.samples : lane.samples[j].cpu = lane.samples[k].cpu

\* The tokens of a lane: what each was computed from, none when unavailable.
Tokens(lane) ==
    [m \in Modality |-> [i \in Position(m) |->
        CASE m = "pt" -> Segment(lane.pt, i)
          [] m = "pebs" -> Samples(lane, i)
          [] m = "pmu" -> {0}]]

\* n / d rounded to an integer, half to even.
HalfEven(n, d) ==
    LET q == n \div d
        r == n % d
    IN  IF 2 * r > d \/ (2 * r = d /\ q % 2 = 1) THEN q + 1 ELSE q

\* The distance of the floats around x, and the float nearest to x: a time that
\* is stored in a float32 tensor.
Grain(x) == Min({2 ^ k : k \in {k \in 0..x : x < 2 ^ (Precision + k)}})
Float(x) == Grain(x) * HalfEven(x, Grain(x))

Times(lane, i) == {lane.samples[k].time - lane.envelope[1] : k \in Samples(lane, i)}

\* The time bounds of a lane's tokens: PT and PMU carry the whole envelope
\* because byte order is no clock, PEBS its own first and last sample.
Bounds(lane) ==
    LET whole == <<0, Float(lane.envelope[4] - lane.envelope[1])>>
    IN  [m \in Modality |-> [i \in Position(m) |->
           IF m # "pebs" THEN whole
           ELSE IF Times(lane, i) = {} THEN <<>>
           ELSE <<Float(Min(Times(lane, i))), Float(Max(Times(lane, i)))>>]]

\* featurize_hardware_capture: one envelope for all lanes, valid lanes, and
\* at least one observation in each; the counters are always one.
Featurizable(lanes) ==
    /\ DOMAIN lanes # {}
    /\ \A t \in DOMAIN lanes :
         ValidEnvelope(lanes[t].envelope) /\ ValidStatus(lanes[t]) /\ ValidSamples(t, lanes[t])
    /\ \A t, u \in DOMAIN lanes : lanes[t].envelope = lanes[u].envelope

\* _validate_lanes: a lane with samples carries its CPU as evidence.
ValidateLanes(lanes) ==
    \A t \in DOMAIN lanes : \A k \in DOMAIN lanes[t].samples : lanes[t].samples[k].cpu = TargetCpu

Available(lane, m) == {i \in DOMAIN lane.tokens[m] : lane.tokens[m][i] # {}}

\* HardwareMultimodalBatch.__post_init__: available tokens have ordered finite
\* bounds and every lane has a token.
ValidBatch(b) ==
    \A t \in DOMAIN b :
      /\ \E m \in Modality : Available(b[t], m) # {}
      /\ \A m \in Modality : \A i \in Available(b[t], m) :
           b[t].bounds[m][i] # <<>> /\ b[t].bounds[m][i][1] <= b[t].bounds[m][i][2]

\* The body of collect's attempt: validate, featurize, validate the lanes.
Featurize ==
    /\ stage = "captured"
    /\ IF /\ ValidateCapture(captured.lanes, captured.pid)
          /\ Featurizable(captured.lanes) /\ ValidateLanes(captured.lanes)
       THEN /\ row' = [t \in DOMAIN captured.lanes |->
                         [tokens |-> Tokens(captured.lanes[t]), bounds |-> Bounds(captured.lanes[t])]]
            /\ masks' = [t \in DOMAIN captured.lanes |-> [m \in Modality |-> {}]]
            /\ stage' = IF ValidBatch(row') THEN "masking" ELSE "raised"
       ELSE stage' = "rejected" /\ UNCHANGED <<row, masks>>
    /\ UNCHANGED <<captured, done>>

\* timestamp_misalignment: the bounds of a lane's available PEBS tokens in
\* reverse, everything else as it was.
Misaligned(lane) ==
    LET p == Available(lane, "pebs")
        mirror(i) == CHOOSE j \in p : Cardinality({x \in p : x < i}) = Cardinality({x \in p : x > j})
    IN  [lane EXCEPT !.bounds["pebs"] = [i \in DOMAIN @ |-> IF i \in p THEN @[mirror(i)] ELSE @[i]]]

\* round(count * 0.3), and at least one.
MaskTarget(count) == Max({1, HalfEven(3 * count, 10)})

\* The lanes and modalities that have tokens and no mask yet.
Unmasked == {x \in (DOMAIN row) \X Modality : Available(row[x[1]], x[2]) # {}} \ done

\* The spans a draw may take: a start and a length, cut at the last token.
Spans(m) ==
    {{i \in Position(m) : start <= i /\ i < start + span} : <<start, span>> \in Position(m) \X (1..MaximumSpan)}

\* make_training_masks may hide one modality of the row in all its lanes.
HideModality ==
    /\ stage = "masking" /\ done = {}
    /\ \E m \in Modality :
         /\ masks' = [t \in DOMAIN row |-> [masks[t] EXCEPT ![m] = Available(row[t], m)]]
         /\ done' = (DOMAIN row) \X {m}
    /\ UNCHANGED <<captured, row, stage>>

\* A fault: nothing is hidden where the spans missed every token.
FallbackNone(t, m) == {}
\* Without a hit the first available token is hidden.
Fallback(t, m) == {Min(Available(row[t], m))}

\* make_training_masks draws spans for the next lane and modality until
\* enough tokens are hidden or the attempts are used up.
RECURSIVE Drawn(_, _, _, _)
Drawn(t, m, hidden, n) ==
    IF Cardinality(hidden) >= MaskTarget(Cardinality(Available(row[t], m))) \/ n = MaskAttempts
    THEN {IF hidden = {} THEN Fallback(t, m) ELSE hidden}
    ELSE UNION {Drawn(t, m, hidden \cup (s \cap Available(row[t], m)), n + 1) : s \in Spans(m)}

DrawSpans ==
    /\ stage = "masking" /\ Unmasked # {}
    /\ LET x == CHOOSE x \in Unmasked : TRUE
       IN  /\ \E hidden \in Drawn(x[1], x[2], {}, 0) : masks' = [masks EXCEPT ![x[1]][x[2]] = hidden]
           /\ done' = done \cup {x}
    /\ UNCHANGED <<captured, row, stage>>

Hidden == {x \in (DOMAIN row) \X Modality : masks[x[1]][x[2]] # {}}

\* forward and masked_reconstruction_loss refuse hidden tokens that are not
\* available, and a step that hides nothing.
TrainStep ==
    /\ stage = "masking" /\ Unmasked = {}
    /\ stage' = IF /\ Hidden # {}
                   /\ \A x \in Hidden : masks[x[1]][x[2]] \subseteq Available(row[x[1]], x[2])
                THEN "trained" ELSE "raised"
    /\ UNCHANGED <<captured, row, masks, done>>

\* multimodal_anomaly_score: the even tokens, the odd ones and the whole of PT
\* and of PEBS, and the counters, each hidden in all lanes at once.
Plans ==
    {<<m, [t \in DOMAIN row |-> {i \in Available(row[t], m) : i % 2 = parity}]>>
       : <<m, parity>> \in {"pt", "pebs"} \X {0, 1}}
      \cup {<<m, [t \in DOMAIN row |-> Available(row[t], m)]>> : m \in Modality}

\* The evaluation scores the row as it is and with its PEBS times reversed.
Score ==
    /\ stage = "trained"
    /\ stage' = IF ValidBatch([t \in DOMAIN row |-> Misaligned(row[t])]) THEN "scored" ELSE "raised"
    /\ masks' = [t \in DOMAIN row |-> [m \in Modality |-> UNION {p[2][t] : p \in {q \in Plans : q[1] = m}}]]
    /\ UNCHANGED <<captured, row, done>>

RNext == Featurize \/ HideModality \/ DrawSpans \/ TrainStep \/ Score

-----------------------------------------------------------------------------
\* The order of the observations of a lane: byte positions, sample times.
Order(lane, m, x) == IF m = "pebs" THEN lane.samples[x].time ELSE x

\* The fixed-width row is the capture, whatever its lengths: every byte and
\* every sample is in exactly one token of its kind, and what is in a later
\* token is later.  The bounds of the PEBS tokens never go backwards and never
\* leave the bounds of the PT and PMU tokens, although all of them are rounded.
\* A row that is kept stands on no lost, multiplexed or inexact observation and
\* on none of another thread or CPU (_pt_features, _pebs_features,
\* _validate_capture).
TokensExact ==
    row # NoRow =>
      \A t \in DOMAIN row :
        LET lane == captured.lanes[t]
            whole == [pt |-> 0..(lane.pt - 1), pebs |-> DOMAIN lane.samples, pmu |-> {0}]
            tokens == row[t].tokens
            bounds == row[t].bounds
        IN  /\ ValidStatus(lane)
            /\ \A k \in DOMAIN lane.samples :
                 lane.samples[k].tid = t /\ lane.samples[k].cpu = TargetCpu /\ lane.samples[k].exact
            /\ \A m \in Modality :
                 /\ UNION {tokens[m][i] : i \in Position(m)} = whole[m]
                 /\ \A i, j \in Position(m) : i < j =>
                      \A x \in tokens[m][i], y \in tokens[m][j] : Order(lane, m, x) < Order(lane, m, y)
            /\ \A i \in Available(row[t], "pebs") :
                 /\ bounds["pebs"][i][2] <= bounds["pmu"][0][2]
                 /\ \A j \in Available(row[t], "pebs") :
                      i < j => bounds["pebs"][i][2] <= bounds["pebs"][j][1]

\* Training and scoring see every modality, and not only that: no step raises;
\* a training step has a target in each lane and modality that has tokens, and
\* unless it hides a modality as a whole it hides less than a span more than the
\* fraction asked for; the scoring plans hide every available token and no other,
\* and each leaves something of the execution to predict from
\* (make_training_masks, multimodal_anomaly_score, _validate_capture).
EveryModalityUsed ==
    /\ stage # "raised"
    /\ stage = "trained" =>
         \A t \in DOMAIN row : \A m \in Modality :
           LET all == Available(row[t], m)
           IN  /\ all # {} => masks[t][m] # {}
               /\ \/ masks[t][m] = all
                  \/ Cardinality(masks[t][m]) < MaskTarget(Cardinality(all)) + MaximumSpan
    /\ stage = "scored" =>
         /\ \A t \in DOMAIN row : \A m \in Modality : masks[t][m] = Available(row[t], m)
         /\ \A p \in Plans : \E t \in DOMAIN row, m \in Modality :
              Available(row[t], m) \ (IF m = p[1] THEN p[2][t] ELSE {}) # {}
=============================================================================
