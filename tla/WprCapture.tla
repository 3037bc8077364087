------------------------------ MODULE WprCapture ------------------------------
(***************************************************************************)
(* WprCapture (python/cpu2tensor/windows_hardware.py): one Windows         *)
(* Performance Recorder session per capture.  The recorder and the file    *)
(* system are external: every call of them succeeds or fails, and a        *)
(* command that fails or is interrupted may or may not have had its        *)
(* effect.                                                                 *)
(***************************************************************************)
EXTENDS Naturals

CONSTANT MaxCalls  \* calls of __enter__ and close(), a bound

VARIABLES
    object,   \* the capture object: started, stopped, directory
    session,  \* the recorder: "none", "live" after a -start that succeeded,
              \* "stray" after one that did not and began recording all the same
    etl,      \* the ETL file: "none", "empty", "written"
    stage,    \* the caller's position
    calls     \* calls of __enter__ and close() so far

wvars == <<object, session, etl, stage, calls>>

WInit ==
    /\ object = [started |-> FALSE, stopped |-> FALSE, directory |-> FALSE]
    /\ session = "none" /\ etl = "none" /\ stage = "new" /\ calls = 0

\* __enter__ raises before its try: the directory cannot be created, or the
\* profile in it cannot be written and committed.
Unprepared == object' = [object EXCEPT !.directory = TRUE] \/ UNCHANGED object

\* -start fails or is interrupted: close() removes the directory if it can.
StartFailed ==
    /\ session' \in {session, IF session = "none" THEN "stray" ELSE session}
    /\ \E removed \in BOOLEAN : object' = [object EXCEPT !.directory = ~removed]

\* A fault: a session that was started is not marked as started.
WEnterOptimistic ==
    /\ stage \notin {"running", "batch", "failed"} /\ ~object.started /\ ~object.stopped
    /\ calls < MaxCalls /\ calls' = calls + 1
    /\ \/ Unprepared /\ stage' = "aborted" /\ UNCHANGED session
       \/ StartFailed /\ stage' = "aborted"
       \/ /\ session = "none" /\ session' = "live"
          /\ object' = [object EXCEPT !.directory = TRUE]
          /\ stage' = "running"
    /\ UNCHANGED etl
\* __enter__, of a new object or of one that was never stopped: directory,
\* profile, -start, which the recorder refuses while it has a session.
WEnter ==
    /\ stage \notin {"running", "batch", "failed"} /\ ~object.started /\ ~object.stopped
    /\ calls < MaxCalls /\ calls' = calls + 1
    /\ \/ Unprepared /\ stage' = "aborted" /\ UNCHANGED session
       \/ StartFailed /\ stage' = "aborted"
       \/ /\ session = "none" /\ session' = "live"
          /\ object' = [object EXCEPT !.directory = TRUE, !.started = TRUE]
          /\ stage' = "running"
    /\ UNCHANGED etl

\* stop(): it can be tried once; the ETL is read when -stop succeeded.
WStop ==
    /\ stage = "running" /\ object.started /\ ~object.stopped /\ object.directory
    /\ \/ \E contents \in {"empty", "written"} :
             /\ session' = "none" /\ etl' = contents
             /\ object' = [object EXCEPT !.stopped = TRUE, !.started = FALSE]
             /\ stage' = IF contents = "written" THEN "batch" ELSE "failed"
       \/ /\ session' \in {session, "none"}
          /\ object' = [object EXCEPT !.stopped = TRUE]
          /\ stage' = "failed"
          /\ UNCHANGED etl
    /\ UNCHANGED calls

\* close(), from __exit__ (the block may raise before stop) or called by hand,
\* after __enter__ or close() raised too: cancel a started session, and remove
\* the directory in any case.  Either may fail; what did is tried again next time.
WClose ==
    /\ stage # "new" /\ (stage \in {"aborted", "raised", "left"} => calls < MaxCalls)
    /\ calls' = calls + 1
    /\ \E cancelled, removed \in BOOLEAN :
         /\ object' = [object EXCEPT !.started = @ /\ ~cancelled, !.directory = @ /\ ~removed]
         /\ session' \in IF ~object.started THEN {session}
                         ELSE IF cancelled THEN {"none"} ELSE {session, "none"}
         /\ stage' = IF object'.started \/ object'.directory THEN "raised" ELSE "left"
    /\ UNCHANGED etl

WNext == WEnter \/ WStop \/ WClose

\* A session the object started is always one it can still cancel, whatever
\* fails and however often __enter__ and close() are called; a close() that
\* returns leaves neither it nor the directory behind, and an ETL is handed out
\* only when the recorder had ended its session (WprCapture.close: "_started"
\* survives a failed -cancel).
SessionOwned ==
    /\ session = "live" => object.started
    /\ stage = "left" => session # "live" /\ ~object.directory
    /\ stage = "batch" => session = "none" /\ etl = "written"
=============================================================================
