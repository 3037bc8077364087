------------------------------ MODULE Experiment ------------------------------
(***************************************************************************)
(* The hardware experiments as campaigns over an artifact directory:       *)
(* make_plan, collect, load_dataset and train_and_evaluate of              *)
(* hardware_multimodal_experiment.py, and the raw-trace benchmark of       *)
(* hardware_triage_benchmark.py.                                           *)
(*                                                                         *)
(* A process may stop at any point (a capture error, a failed check, a     *)
(* crash) and be started again on the same directory, with another seed.   *)
(* A file is identified by the run that wrote it, which is what its hash   *)
(* tells apart; a row is the execution it was captured from, so that a     *)
(* model is the set of executions it has learned from.                     *)
(***************************************************************************)
EXTENDS Integers, Sequences, FiniteSets

CONSTANTS
    Family, Repetition,            \* the executions are their pairs
    TrainingRows, CalibrationRows, \* per familiar family
    HeldoutCount,                  \* heldout_family_count
    Retries,                       \* capture_retries
    MaxRuns                        \* processes started, a bound of the model

ASSUME PlanAssumption ==
    /\ TrainingRows > 0 /\ CalibrationRows > 0
    /\ Cardinality(Repetition) > TrainingRows + CalibrationRows
    /\ HeldoutCount > 0 /\ HeldoutCount < Cardinality(Family)

VARIABLES
    disk,   \* the artifact directory: shards, manifest, checkpoints, report
    proc    \* the running process

evars == <<disk, proc>>

Execution == Family \X Repetition
Models == <<"marginal", "pt-pca", "fused", "span-only">>
Missing == [by |-> 0]
IdleProcess(run) == [pc |-> "idle", run |-> run]

EInit ==
    /\ disk = [raw |-> [e \in Execution |-> Missing], derived |-> [e \in Execution |-> Missing],
               manifest |-> Missing, model |-> [m \in 1..Len(Models) |-> Missing],
               corpus |-> Missing, triage |-> Missing, report |-> Missing, decision |-> Missing]
    /\ proc = IdleProcess(0)

Orders == {o \in [1..Cardinality(Repetition) -> Repetition] :
             \A i, j \in DOMAIN o : i # j => o[i] # o[j]}

\* A fault: the training rows are dealt before the family is looked at.
PartitionAnyFamily(heldout, family, ordinal) ==
    CASE ordinal <= TrainingRows -> "training"
      [] ordinal > TrainingRows /\ family \in heldout -> "heldout_family"
      [] ordinal > TrainingRows /\ family \notin heldout ->
           IF ordinal <= TrainingRows + CalibrationRows THEN "calibration"
           ELSE "familiar_validation"
\* make_plan: the partition of the ordinal-th execution of a family.
Partition(heldout, family, ordinal) ==
    CASE family \in heldout -> "heldout_family"
      [] family \notin heldout ->
           IF ordinal <= TrainingRows THEN "training"
           ELSE IF ordinal <= TrainingRows + CalibrationRows THEN "calibration"
           ELSE "familiar_validation"

\* The plan of one seed: families held out whole, repetitions shuffled.
MakePlan(heldout, order) ==
    [e \in Execution |->
       Partition(heldout, e[1], CHOOSE i \in DOMAIN order[e[1]] : order[e[1]][i] = e[2])]

Rows(plan, name) == {e \in Execution : plan[e] = name}

Fails == proc' = IdleProcess(proc.run)
Goes(pc) == proc' = [proc EXCEPT !.pc = pc]

\* collect refuses an artifact that holds a sealed manifest.
MayCollect == disk.manifest = Missing

\* run: collect, with or without training after it.
StartCollect ==
    /\ proc.pc = "idle" /\ proc.run < MaxRuns
    /\ \E heldout \in {h \in SUBSET Family : Cardinality(h) = HeldoutCount},
          order \in [Family -> Orders], train \in BOOLEAN :
         proc' = IF MayCollect
                 THEN [pc |-> "capture", run |-> proc.run + 1, heldout |-> heldout,
                       plan |-> MakePlan(heldout, order), train |-> train,
                       todo |-> Execution, current |-> <<>>, attempt |-> 0]
                 ELSE IdleProcess(proc.run + 1)
    /\ UNCHANGED disk

\* One attempt: the next execution of the plan, captured and featurized, or
\* the previous one again.  A rejected capture is retried, an execution that
\* fails for another reason ends the process.
Attempt ==
    /\ proc.pc = "capture" /\ proc.todo # {}
    /\ \E e \in IF proc.attempt = 0 THEN proc.todo ELSE {proc.current} :
         \/ proc' = [proc EXCEPT !.pc = "raw", !.current = e, !.attempt = 0]
         \/ IF proc.attempt < Retries
            THEN proc' = [proc EXCEPT !.current = e, !.attempt = @ + 1]
            ELSE Fails
    /\ UNCHANGED disk

\* _atomic_torch_save of the raw capture, then of the tensors derived from it,
\* which name the raw file's hash.
SaveRaw ==
    /\ proc.pc = "raw"
    /\ disk' = [disk EXCEPT !.raw[proc.current] = [by |-> proc.run]]
    /\ Goes("derived")

SaveDerived ==
    /\ proc.pc = "derived"
    /\ disk' = [disk EXCEPT !.derived[proc.current] =
                  [by |-> proc.run, raw |-> disk.raw[proc.current].by,
                   partition |-> proc.plan[proc.current]]]
    /\ proc' = [proc EXCEPT !.pc = "capture", !.todo = @ \ {proc.current}, !.current = <<>>]

\* A fault: the manifest is written while shards are missing.
SealEarly ==
    /\ proc.pc = "capture" /\ proc.todo # Execution
    /\ disk' = [disk EXCEPT !.manifest =
                  [by |-> proc.run, plan |-> proc.plan, heldout |-> proc.heldout,
                   raw |-> [e \in Execution |-> proc.run],
                   derived |-> [e \in Execution |-> proc.run]]]
    /\ IF proc.train THEN proc' = [pc |-> "load", run |-> proc.run] ELSE Fails
\* The manifest is written last, with the hashes of every shard.
Seal ==
    /\ proc.pc = "capture" /\ proc.todo = {}
    /\ disk' = [disk EXCEPT !.manifest =
                  [by |-> proc.run, plan |-> proc.plan, heldout |-> proc.heldout,
                   raw |-> [e \in Execution |-> proc.run],
                   derived |-> [e \in Execution |-> proc.run]]]
    /\ IF proc.train THEN proc' = [pc |-> "load", run |-> proc.run] ELSE Fails

StartTrain ==
    /\ proc.pc = "idle" /\ proc.run < MaxRuns
    /\ proc' = [pc |-> "load", run |-> proc.run + 1]
    /\ UNCHANGED disk

\* load_dataset: every shard has the manifest's hash and the identity of its
\* entry.
Loadable ==
    /\ disk.manifest # Missing
    /\ \A e \in Execution :
         /\ disk.raw[e].by = disk.manifest.raw[e]
         /\ disk.derived[e].by = disk.manifest.derived[e]
         /\ disk.derived[e].raw = disk.manifest.raw[e]
         /\ disk.derived[e].partition = disk.manifest.plan[e]

\* _partition refuses an empty partition.
Load ==
    /\ proc.pc = "load"
    /\ IF Loadable /\ \A n \in {"training", "calibration", "familiar_validation", "heldout_family"} :
                        Rows(disk.manifest.plan, n) # {}
       THEN proc' = [pc |-> "fit", run |-> proc.run, plan |-> disk.manifest.plan,
                     at |-> 1, model |-> Missing, scored |-> {}]
       ELSE Fails
    /\ UNCHANGED disk

\* MarginalBaseline.fit, PtPcaBaseline.fit, or train_masked_model, which fits
\* the normalization on the rows it trains on.  Both baselines are fitted before
\* the first is saved; a fit leaves nothing on the disk.
Fit ==
    /\ proc.pc = "fit"
    /\ proc' = [proc EXCEPT !.pc = "calibrate",
                  !.model = [by |-> proc.run, fitted |-> Rows(proc.plan, "training"),
                             frozen |-> FALSE, threshold |-> {}]]
    /\ UNCHANGED disk

\* freeze_multimodal_model and calibrate_multimodal_threshold, or the quantile
\* of _baseline_report.
Calibrate ==
    /\ proc.pc = "calibrate"
    /\ proc' = [proc EXCEPT !.pc = "save", !.model.frozen = TRUE,
                  !.model.threshold = Rows(proc.plan, "calibration")]
    /\ UNCHANGED disk

\* save_frozen_multimodal_model refuses a model that can still change.
SaveModel ==
    /\ proc.pc = "save"
    /\ IF proc.model.frozen
       THEN disk' = [disk EXCEPT !.model[proc.at] = proc.model] /\ Goes("reload")
       ELSE Fails /\ UNCHANGED disk

\* The checkpoint must load and score as the model in memory does.
Reloads == disk.model[proc.at] = proc.model

\* The familiar and the held-out rows are scored, whole and per family.
ReloadAndScore ==
    /\ proc.pc = "reload"
    /\ IF Reloads
       THEN proc' = [proc EXCEPT !.pc = IF proc.at < Len(Models) THEN "fit" ELSE "report",
                       !.at = IF @ < Len(Models) THEN @ + 1 ELSE @,
                       !.scored = Rows(proc.plan, "familiar_validation")
                                    \cup Rows(proc.plan, "heldout_family")]
       ELSE Fails
    /\ UNCHANGED disk

\* report.json is replaced last.
Report ==
    /\ proc.pc = "report"
    /\ disk' = [disk EXCEPT !.report = [by |-> proc.run, manifest |-> disk.manifest.by,
                                        scored |-> proc.scored, model |-> disk.model]]
    /\ Fails

\* hardware_triage_benchmark.run: the rows of a family are dealt in the order
\* they were captured.
StartTriage ==
    /\ proc.pc = "idle" /\ proc.run < MaxRuns
    /\ \E heldout \in {h \in SUBSET Family : Cardinality(h) = HeldoutCount},
          order \in [Family -> Orders] :
         proc' = [pc |-> "corpus", run |-> proc.run + 1, heldout |-> heldout,
                  plan |-> MakePlan(heldout, order), order |-> order]
    /\ UNCHANGED disk

\* The corpus and the checkpoint are written in place: a process that stops
\* while it writes leaves a file that does not load.
SaveCorpus ==
    /\ proc.pc = "corpus"
    /\ \/ disk' = [disk EXCEPT !.corpus = [by |-> proc.run]] /\ Goes("triage")
       \/ disk' = [disk EXCEPT !.corpus = Missing] /\ Fails

SaveTriage ==
    /\ proc.pc = "triage"
    /\ \/ /\ disk' = [disk EXCEPT !.triage =
                        [by |-> proc.run, corpus |-> disk.corpus.by,
                         fitted |-> Rows(proc.plan, "training"),
                         threshold |-> Rows(proc.plan, "calibration"), heldout |-> proc.heldout]]
          /\ Goes("decide")
       \/ disk' = [disk EXCEPT !.triage = Missing] /\ Fails

\* What a model of the plan is fitted on, calibrated with and judged on.
Judged(plan) ==
    [fitted |-> Rows(plan, "training"), threshold |-> Rows(plan, "calibration"),
     validation |-> Rows(plan, "familiar_validation"), heldout |-> Rows(plan, "heldout_family")]

\* leave_one_family_out: a model of its own for each family, held out alone
\* from rows dealt in the same order; their worst rate decides.
LeaveOneFamilyOut(order) == [f \in Family |-> Judged(MakePlan({f}, order))]

\* The report, once the checkpoint was loaded again.  Its table of families
\* ("family") scores every row of a family with the saved model, those it was
\* fitted on included.
Decide ==
    /\ proc.pc = "decide"
    /\ IF disk.triage.by = proc.run
       THEN disk' = [disk EXCEPT !.decision =
                       [by |-> proc.run, corpus |-> disk.corpus.by, triage |-> disk.triage.by,
                        saved |-> Judged(proc.plan), one_out |-> LeaveOneFamilyOut(proc.order),
                        family |-> [f \in Family |-> {e \in Execution : e[1] = f}]]]
       ELSE UNCHANGED disk
    /\ Fails

Crash == proc.pc # "idle" /\ Fails /\ UNCHANGED disk

ENext ==
    \/ StartCollect \/ Attempt \/ SaveRaw \/ SaveDerived \/ Seal
    \/ StartTrain \/ Load \/ Fit \/ Calibrate \/ SaveModel \/ ReloadAndScore \/ Report
    \/ StartTriage \/ SaveCorpus \/ SaveTriage \/ Decide \/ Crash

-----------------------------------------------------------------------------
\* A sealed artifact stays usable: once the manifest is there, load_dataset
\* succeeds, whatever was left by earlier processes and whatever is started,
\* stopped or crashes later (collect's refusal, manifest last, atomic saves).
SealedLoads == disk.manifest # Missing => Loadable

\* Learned from some rows, calibrated on others, and none of either from a
\* family of the held-out ones.
Honest(m, heldout) ==
    /\ m.fitted # {} /\ m.threshold # {}
    /\ \A e \in m.fitted \cup m.threshold : e[1] \notin heldout

\* The rates an experiment is decided by are rates on unseen rows.  No held-out
\* family reached a checkpoint, neither its weights nor its threshold, whichever
\* process wrote it and whatever was started or crashed since.  What a report
\* calls familiar validation was neither fitted nor calibrated on, what it calls
\* held out is not even of a family the model knows, and neither is empty; so too
\* for each of the models whose worst rate is the GO of the raw-trace benchmark
\* (make_plan, _train_one, _baseline_report, _split_rows, leave_one_family_out).
\* The benchmark's table of families is no such rate and is not meant here: it
\* includes the rows the model was fitted on.
EvaluationUnseen ==
    LET Unseen(j) ==
          /\ Honest(j, {e[1] : e \in j.heldout})
          /\ j.validation # {} /\ j.heldout # {}
          /\ j.validation \cap (j.fitted \cup j.threshold) = {}
    IN  /\ \A i \in DOMAIN disk.model :
             disk.model[i] # Missing => Honest(disk.model[i], disk.manifest.heldout)
        /\ disk.triage # Missing => Honest(disk.triage, disk.triage.heldout)
        /\ disk.report # Missing =>
             \A i \in DOMAIN disk.report.model :
               LET m == disk.report.model[i]
               IN  /\ m.by = disk.report.by
                   /\ disk.report.scored \cap (m.fitted \cup m.threshold) = {}
                   /\ \E e \in disk.report.scored : e[1] \in disk.manifest.heldout
        /\ disk.decision # Missing =>
             Unseen(disk.decision.saved) /\ \A f \in Family : Unseen(disk.decision.one_out[f])
=============================================================================
