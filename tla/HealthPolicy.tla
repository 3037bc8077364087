----------------------------- MODULE HealthPolicy -----------------------------
(***************************************************************************)
(* The health policy of a long pretraining campaign: decide_health of      *)
(* python/cpu2tensor/examples/hardware_pretraining_health.py, applied to   *)
(* the records of a campaign one after the other.                          *)
(*                                                                         *)
(* The trainer that executes the actions and the reporter that writes the  *)
(* records are external.  A record is judged later than it is written, so  *)
(* it may carry a lineage the trainer has left.  The measurements of a     *)
(* record are kept as the comparisons the policy makes of them.            *)
(***************************************************************************)
EXTENDS Integers, Sequences, FiniteSets

CONSTANTS
    Checkpoint,     \* identifiers of remote checkpoints
    MaxElapsed,     \* maximum_elapsed_seconds, in units of the model
    Cooldown,       \* loader_adjustment_interval_seconds, in the same units
    MaxRecords,     \* records of one campaign, a bound of the model
    InitialBatch    \* microbatch sizes a campaign may start with

MaxWorkers == 8
MaxPrefetch == 8
MaxViews == 2
LowWindows == 2
None == "none"

VARIABLES
    health,   \* the controller's durable HealthState
    trainer,  \* what the trainer runs (external)
    phase,    \* "running", "abort", or "raised" (an invalid record or state)
    judged,   \* number of records judged
    last,     \* the previous decision's action
    history   \* what really happened, for the properties

hvars == <<health, trainer, phase, judged, last, history>>

NoAction == [kind |-> None]

\* A record may be judged after the trainer has moved on to another lineage.
Lineages == {ran[1] : ran \in history.ran}

\* The fields the policy reads, by cadence (CADENCE_FIELDS), as comparisons.
Record(c) ==
    CASE c = 60 ->
           [cadence : {60}, valid : {TRUE}, trusted : BOOLEAN, lineage : Lineages,
            elapsed : 0..MaxElapsed, spot : {"no", "active", "overdue"}, starved : BOOLEAN]
      [] c = 300 ->
           [cadence : {300}, valid : {TRUE}, trusted : BOOLEAN, lineage : Lineages,
            elapsed : {0}, low : BOOLEAN]
      [] c = 900 ->
           [cadence : {900}, valid : {TRUE}, trusted : {TRUE}, lineage : Lineages,
            elapsed : {0}, checkpoint : Checkpoint, verified : BOOLEAN,
            views : {trainer.views, MaxViews + 1}, nonfinite : BOOLEAN, oom : BOOLEAN,
            fresh : BOOLEAN]
      [] OTHER ->
           [cadence : {c}, valid : BOOLEAN, trusted : BOOLEAN, lineage : Lineages,
            elapsed : {0}]

HInit ==
    /\ \E batch \in InitialBatch :
         /\ health = [lineage |-> <<>>, workers |-> MaxWorkers - 1, prefetch |-> 3,
                      micro |-> batch, accumulation |-> 1, halvings |-> 0, views |-> 1,
                      oom |-> 0, numerical |-> 0, low |-> 0, adjusted |-> -1,
                      checkpoint |-> None, spot |-> FALSE]
         /\ trainer = [lineage |-> <<>>, micro |-> batch, accumulation |-> 1,
                       halvings |-> 0, views |-> 1, workers |-> MaxWorkers - 1]
         /\ history = [batch |-> batch, low |-> 0, newest |-> None, adjusted |-> -1,
                       ran |-> {<< <<>>, batch, 1, 0 >>}, paced |-> TRUE, current |-> TRUE]
    /\ phase = "running" /\ judged = 0 /\ last = NoAction

\* HealthState.__post_init__, which every replace() runs again.
ValidState(s) ==
    /\ s.workers \in 1..MaxWorkers /\ s.prefetch \in 1..MaxPrefetch
    /\ s.micro >= 1 /\ s.accumulation >= 1 /\ s.views \in 1..MaxViews
    /\ s.oom \in {0, 1} /\ s.numerical \in {0, 1} /\ s.low >= 0

\* The gates of a record's own measurements, by cadence.
Measured(r, s) ==
    \/ r.cadence = 300 /\ r.low /\ s.low + 1 >= LowWindows
    \/ /\ r.cadence = 900
       /\ \/ ~r.verified \/ r.views > MaxViews
          \/ r.nonfinite /\ s.numerical = 1
          \/ r.oom /\ (s.oom = 1 \/ s.micro % 2 = 1)
    \/ r.cadence = 60 /\ (r.spot = "overdue" \/ (r.spot = "active" /\ s.checkpoint = None))

\* A fault: a record of another lineage is judged like one of this lineage.
AbortsAnyLineage(r, s) == ~r.trusted \/ r.elapsed >= MaxElapsed \/ Measured(r, s)
\* The hard-abort gates.  "trusted" stands for the hashes, liveness, loss,
\* migration, drift, runway, age and spend gates of the record's cadence.
Aborts(r, s) == ~r.trusted \/ r.lineage # s.lineage \/ r.elapsed >= MaxElapsed \/ Measured(r, s)

\* What the gates' block keeps of a record, whatever is decided: the count of
\* thin windows, the newest verified checkpoint, the end of an interruption.
Remembered(r, s) ==
    [s EXCEPT !.low = IF r.cadence # 300 THEN @ ELSE IF r.low THEN @ + 1 ELSE 0,
              !.checkpoint = IF r.cadence = 900 /\ r.verified THEN r.checkpoint ELSE @,
              !.spot = IF r.cadence = 60 /\ r.spot = "no" THEN FALSE ELSE @]

\* _lineage_action: a recovery continues under a lineage of its own.
Lineage(s, suffix) == [s EXCEPT !.lineage = Append(@, suffix)]

Decision(status, action, next) == [status |-> status, action |-> action, next |-> next]

Restore(r, s) ==
    Decision("adjust", [kind |-> "restore_spot_trainer", checkpoint |-> s.checkpoint],
             [Remembered(r, s) EXCEPT !.spot = TRUE])

Numerical(r, s) ==
    Decision("adjust", [kind |-> "restore_and_halve", checkpoint |-> r.checkpoint],
             [Lineage(Remembered(r, s), "numerical-recovery-1")
                EXCEPT !.halvings = s.halvings + 1, !.numerical = 1])

OutOfMemory(r, s) ==
    Decision("adjust", [kind |-> "reduce_microbatch"],
             [Lineage(Remembered(r, s), "oom-recovery-1")
                EXCEPT !.micro = s.micro \div 2, !.accumulation = s.accumulation * 2,
                       !.oom = 1])

\* Without fresh data the shards are masked anew, at most MaxViews times.
Replay(r, s) ==
    LET views == IF s.views > r.views THEN s.views ELSE r.views
    IN  IF views < MaxViews
        THEN Decision("adjust", [kind |-> "reuse_shards", views |-> views + 1],
                      [Remembered(r, s) EXCEPT !.views = views + 1])
        ELSE Decision("adjust", [kind |-> "hold_for_fresh_data"], Remembered(r, s))

Least(a, b) == IF a < b THEN a ELSE b

Loader(r, s) ==
    LET workers == Least(s.workers + 1, MaxWorkers)
        prefetch == Least(s.prefetch * 2, MaxPrefetch)
        cooled == s.adjusted = -1 \/ r.elapsed - s.adjusted >= Cooldown
    IN  IF r.starved /\ cooled /\ (workers # s.workers \/ prefetch # s.prefetch)
        THEN Decision("adjust", [kind |-> "increase_loader", workers |-> workers],
                      [Remembered(r, s) EXCEPT !.workers = workers, !.prefetch = prefetch,
                                             !.adjusted = r.elapsed])
        ELSE Decision("continue", NoAction, Remembered(r, s))

\* decide_health: the gates suppress every action; otherwise at most one, in
\* a fixed order.
DecideHealth(r, s) ==
    CASE Aborts(r, s) -> Decision("abort", NoAction, Remembered(r, s))
      [] ~Aborts(r, s) /\ r.cadence = 60 ->
            IF r.spot = "active" /\ ~s.spot THEN Restore(r, s) ELSE Loader(r, s)
      [] ~Aborts(r, s) /\ r.cadence = 900 ->
            IF r.nonfinite THEN Numerical(r, s)
            ELSE IF r.oom THEN OutOfMemory(r, s)
            ELSE IF ~r.fresh THEN Replay(r, s)
            ELSE Decision("continue", NoAction, Remembered(r, s))
      [] OTHER -> Decision("continue", NoAction, Remembered(r, s))

\* What the trainer runs after an action (external).
Executed(action, next) ==
    [trainer EXCEPT !.lineage = next.lineage, !.micro = next.micro,
                    !.accumulation = next.accumulation, !.halvings = next.halvings,
                    !.views = IF action.kind = "reuse_shards" THEN action.views ELSE @,
                    !.workers = IF action.kind = "increase_loader" THEN action.workers ELSE @]

\* The ghosts the properties compare the controller's memory with.
Recorded(r, d) ==
    LET grows == d.action.kind = "increase_loader"
    IN  [history EXCEPT
           !.low = IF r.cadence # 300 THEN @ ELSE IF r.low THEN @ + 1 ELSE 0,
           !.newest = IF r.cadence = 900 /\ r.verified THEN r.checkpoint ELSE @,
           !.paced = @ /\ (grows /\ history.adjusted >= 0
                           => r.elapsed - history.adjusted >= Cooldown),
           !.current = @ /\ (d.action # NoAction => r.lineage = trainer.lineage),
           !.adjusted = IF grows THEN r.elapsed ELSE @,
           !.ran = @ \cup {<<d.next.lineage, d.next.micro, d.next.accumulation,
                             d.next.halvings>>}]

\* The controller judges a record; an invalid one is refused as a whole.
Judge ==
    /\ phase = "running" /\ judged < MaxRecords
    /\ judged' = judged + 1
    /\ \E c \in {60, 300, 900, 1800} : \E r \in Record(c) :
         IF ~r.valid
         THEN phase' = "raised" /\ UNCHANGED <<health, trainer, last, history>>
         ELSE LET d == DecideHealth(r, health)
              IN  /\ health' = d.next /\ last' = d.action
                  /\ phase' = IF d.status = "abort" THEN "abort" ELSE "running"
                  /\ trainer' = IF d.status = "adjust" THEN Executed(d.action, d.next)
                                ELSE trainer
                  /\ history' = Recorded(r, d)

HNext == Judge

-----------------------------------------------------------------------------
\* Recovery is bounded and leaves a trace: the state passes its own
\* validation, the effective batch never changes, and no lineage ever ran under
\* two settings (HealthState, "reduce_microbatch_preserve_effective_batch",
\* _lineage_action).  No action is taken on the word of a record that was written
\* under a lineage the trainer has left ("unexpected_lineage").  What the
\* controller carries from record to record is what happened: every restore
\* names the newest verified checkpoint, two thin windows in a row end the
\* campaign whatever records lie between them, and the loader grows no faster
\* than its interval.
RecoveryBounded ==
    /\ ValidState(health)
    /\ health.micro * health.accumulation = history.batch
    /\ trainer.views <= MaxViews /\ trainer.workers <= MaxWorkers
    /\ \A x, y \in history.ran : x[1] = y[1] => x = y
    /\ history.current
    /\ last.kind \in {"restore_spot_trainer", "restore_and_halve"} =>
         last.checkpoint = history.newest /\ last.checkpoint # None
    /\ history.low >= LowWindows => phase = "abort"
    /\ history.paced

=============================================================================
