-------------------------- MODULE HardwareWorkflow --------------------------
(***************************************************************************)
(* The Temporal workflow that drives the hardware pipeline one canonical   *)
(* step at a time (temporal/workflow.py), the activity attempts that run a *)
(* step in a child process (temporal/activities.py, temporal/step_runner.py)*)
(* and what they leave on disk.  Workflow code runs between two awaits     *)
(* without interruption, so an action of the workflow goes from one await  *)
(* to the next; signals are handled at the awaits.                         *)
(*                                                                         *)
(* A child is a process of its own session.  It takes the lock of the run  *)
(* directory, loads the checkpoint, writes newer ones and ends; when its   *)
(* worker is lost it lives on, while the server starts the next attempt.   *)
(* Progress versions, texts, the manifest's contents and checkpoints of    *)
(* releases that wrote no receipt are left out.                            *)
(***************************************************************************)
EXTENDS Integers, FiniteSets

CONSTANTS
    NSteps,          \* length of CANONICAL_STEPS (17)
    RetryAttempts,   \* retry_attempts of the input
    Starts,          \* the start indexes of the input (resume_from_step)
    DirectCancels,   \* may Temporal itself cancel the workflow (once)?
    ReadFailures,    \* may the read activities fail for want of a worker?
    MaxGen           \* bound on the generations a child may add on its way

ASSUME StepsAssumption == NSteps \in Nat \ {0}
ASSUME AttemptsAssumption == RetryAttempts \in Nat \ {0}
ASSUME StartsAssumption == Starts \subseteq 0 .. NSteps - 1
ASSUME FaultsAssumption == DirectCancels \in BOOLEAN /\ ReadFailures \in BOOLEAN
ASSUME GenAssumption == MaxGen \in Nat

VARIABLES
    pc,          \* the await the workflow is at, or "ended"
    handler,     \* TRUE once an except clause of run has been entered
    idx, start,  \* the step in hand, from 1; the index the run started at
    paused, cancel,  \* _paused, _cancel_requested
    direct,      \* "no", or "sent" once Temporal has cancelled the workflow
    late,        \* at most 60 seconds are left before the deadline
    status,      \* status of the progress query
    term,        \* terminal status the workflow is heading for
    summary,     \* last_summary: completed_steps, receipt, has result path
    comp,        \* outcome of the compensation, "none" before it
    result,      \* how the workflow ended
    act,         \* the step activity: state, attempt, cancel request, output
    kids,        \* child processes, at most one of which has a live worker
    disk,        \* pipeline_state.json (cut: the resume invalidated what
                 \* follows its step) and pipeline_result.json
    recovery     \* completed_steps of temporal_recovery.json, NoRecord before

wfVars == <<pc, handler, idx, start, paused, cancel, direct, late, status,
            term, summary, comp, result>>
diskVars == <<disk, recovery>>
vars == <<wfVars, act, kids, diskVars>>

NoRecord == -1
Idle == [st |-> "idle", att |-> 0, cancel |-> FALSE, out |-> "none",
         steps |-> 0]
Outputs == {"reached", "stopped"}     \* what a child's result file can say

TypeOK ==
    /\ pc \in {"loop", "await", "compensate", "final", "reconcile", "ended"}
    /\ handler \in BOOLEAN /\ paused \in BOOLEAN /\ cancel \in BOOLEAN
    /\ late \in BOOLEAN /\ direct \in {"no", "sent"}
    /\ idx \in 1 .. NSteps + 1 /\ start \in Starts
    /\ status \in {"running", "paused", "cancel_requested", "checkpointed",
                   "cancelled", "timed_out", "stopped", "failed", "completed"}
    /\ term \in {"none", "cancelled", "timed_out", "stopped", "failed",
                 "completed", "interrupted"}
    /\ summary \in [completed : 0 .. NSteps, gen : Nat, path : BOOLEAN]
    /\ comp \in {"none", "preserved_for_resume", "compensation_failed"}
    /\ result \in {"none", "cancelled", "timed_out", "stopped", "failed",
                   "completed", "raised"}
    /\ act \in [st : {"idle", "queued", "running", "ok", "failed", "cancelled"},
                att : 0 .. RetryAttempts, cancel : BOOLEAN,
                out : Outputs \cup {"none"}, steps : 0 .. NSteps]
    /\ kids \subseteq [goal : 1 .. NSteps, att : 1 .. RetryAttempts,
                       phase : {"queued", "running"}, gen : Nat]
    /\ disk \in [gen : Nat, steps : 0 .. NSteps, cut : BOOLEAN,
                 result : {"none", "old", "new"}]
    /\ recovery \in {NoRecord} \cup 0 .. NSteps

-----------------------------------------------------------------------------
(* A run that resumes finds the checkpoint, and perhaps the result, of an    *)
(* earlier workflow; signals may be handled before the first task.           *)
Init ==
    /\ pc = "loop" /\ handler = FALSE /\ late = FALSE /\ direct = "no"
    /\ start \in Starts /\ idx = start + 1
    /\ paused \in BOOLEAN /\ cancel = FALSE
    /\ status = "running" /\ term = "none" /\ comp = "none" /\ result = "none"
    /\ summary = [completed |-> start, gen |-> 0, path |-> FALSE]
    /\ act = Idle /\ kids = {} /\ recovery = NoRecord
    /\ disk \in IF start = 0
                THEN {[gen |-> 0, steps |-> 0, cut |-> TRUE, result |-> "none"]}
                ELSE [gen : {1}, steps : start .. NSteps, cut : {FALSE},
                      result : {"none", "old"}]

(* The condition a paused workflow waits for.                                *)
MayLeavePause == ~paused \/ cancel

AtAwait == pc \notin {"loop", "ended"} \/ (pc = "loop" /\ idx <= NSteps /\ ~MayLeavePause)

RequestPause ==
    /\ AtAwait /\ ~paused
    /\ paused' = TRUE /\ status' = "paused"
    /\ UNCHANGED <<pc, handler, idx, start, cancel, direct, late, term, summary,
                   comp, result, act, kids, diskVars>>

RequestResume ==
    /\ AtAwait /\ paused
    /\ paused' = FALSE /\ status' = "running"
    /\ UNCHANGED <<pc, handler, idx, start, cancel, direct, late, term, summary,
                   comp, result, act, kids, diskVars>>

RequestCancel ==
    /\ AtAwait /\ ~cancel
    /\ cancel' = TRUE /\ paused' = FALSE /\ status' = "cancel_requested"
    /\ act' = IF act.st \in {"queued", "running"}
              THEN [act EXCEPT !.cancel = TRUE] ELSE act
    /\ UNCHANGED <<pc, handler, idx, start, direct, late, term, summary, comp,
                   result, kids, diskVars>>

-----------------------------------------------------------------------------
(* The main loop of run, from one await to the next.                         *)
Compensate(t) == pc' = "compensate" /\ term' = t

Deadline ==
    /\ ~late /\ pc # "ended"
    /\ late' = TRUE
    /\ UNCHANGED <<pc, handler, idx, start, paused, cancel, direct, status, term,
                   summary, comp, result, act, kids, diskVars>>

MutNextStepDeadline ==
    /\ pc = "loop" /\ (~paused \/ cancel) /\ idx <= NSteps
    /\ IF cancel THEN Compensate("cancelled") /\ UNCHANGED <<status, act>>
       ELSE IF late THEN pc' = "final" /\ term' = "timed_out" /\ UNCHANGED <<status, act>>
       ELSE /\ pc' = "await" /\ status' = "running"
            /\ act' = [Idle EXCEPT !.st = "queued", !.att = 1]
            /\ UNCHANGED term
    /\ UNCHANGED <<handler, idx, start, paused, cancel, direct, late, summary,
                   comp, result, kids, diskVars>>


NextStep ==
    /\ pc = "loop" /\ MayLeavePause /\ idx <= NSteps
    /\ IF cancel THEN Compensate("cancelled") /\ UNCHANGED <<status, act>>
       ELSE IF late THEN Compensate("timed_out") /\ UNCHANGED <<status, act>>
       ELSE /\ pc' = "await" /\ status' = "running"
            /\ act' = [Idle EXCEPT !.st = "queued", !.att = 1]
            /\ UNCHANGED term
    /\ UNCHANGED <<handler, idx, start, paused, cancel, direct, late, summary,
                   comp, result, kids, diskVars>>

Complete ==
    /\ pc = "loop" /\ idx > NSteps
    /\ pc' = "final" /\ term' = "completed" /\ status' = "completed"
    /\ UNCHANGED <<handler, idx, start, paused, cancel, direct, late, summary,
                   comp, result, act, kids, diskVars>>

(* The receipt is read from disk when the activity builds its summary, the    *)
(* other fields are what the child reported.                                 *)
Summary == [completed |-> act.steps, gen |-> disk.gen,
            path |-> act.out = "stopped" \/ idx = NSteps]

MutAfterStep ==
    IF cancel THEN Compensate("cancelled") /\ UNCHANGED idx
    ELSE pc' = "loop" /\ idx' = idx + 1 /\ UNCHANGED term

AfterStep ==
    IF cancel THEN Compensate("cancelled") /\ UNCHANGED idx
    ELSE IF act.out = "stopped" THEN Compensate("stopped") /\ UNCHANGED idx
    ELSE pc' = "loop" /\ idx' = idx + 1 /\ UNCHANGED term

StepReturned ==
    /\ pc = "await" /\ act.st = "ok"
    /\ summary' = Summary /\ status' = "checkpointed" /\ act' = Idle
    /\ AfterStep
    /\ UNCHANGED <<handler, start, paused, cancel, direct, late, comp, result,
                   kids, diskVars>>

StepFailed ==
    /\ pc = "await" /\ act.st \in {"failed", "cancelled"}
    /\ pc' = "reconcile" /\ handler' = TRUE /\ act' = Idle
    /\ UNCHANGED <<idx, start, paused, cancel, direct, late, status, term,
                   summary, comp, result, kids, diskVars>>

-----------------------------------------------------------------------------
(* Reconciliation, compensation and the final result.  Each awaits an        *)
(* activity that may fail whatever it reads.                                 *)
Latest == [completed |-> disk.steps, gen |-> disk.gen, path |-> TRUE]

Reconciled == IF disk.gen = 0 \/ disk.gen < summary.gen THEN summary ELSE Latest

MutAfterReconcile == Compensate("failed")

AfterReconcile == Compensate(IF cancel THEN "cancelled" ELSE "failed")

ReadCheckpoint ==
    /\ pc = "reconcile"
    /\ summary' \in {Reconciled} \cup (IF ReadFailures THEN {summary} ELSE {})
    /\ AfterReconcile
    /\ UNCHANGED <<handler, idx, start, paused, cancel, direct, late, status,
                   comp, result, act, kids, diskVars>>

(* A failed workflow returns its own dictionary, an interrupted one raises,   *)
(* the others go on to read the result file.                                  *)
CompensateRun ==
    /\ pc = "compensate"
    /\ \/ comp' = "preserved_for_resume" /\ recovery' = summary.completed
       \/ comp' = "compensation_failed" /\ UNCHANGED recovery
    /\ status' = IF term = "interrupted" THEN "cancelled" ELSE term
    /\ \/ term = "failed" /\ pc' = "ended" /\ result' = "failed"
       \/ term = "interrupted" /\ pc' = "ended" /\ result' = "raised"
       \/ term \notin {"failed", "interrupted"} /\ pc' = "final" /\ UNCHANGED result
    /\ UNCHANGED <<handler, idx, start, paused, cancel, direct, late, term,
                   summary, act, kids, disk>>

MutRaiseActivityError == pc' = "reconcile" /\ handler' = TRUE /\ UNCHANGED result

(* An exception in the body of run enters the handler, one in the handler    *)
(* leaves run.                                                               *)
RaiseActivityError ==
    IF handler THEN pc' = "ended" /\ result' = "raised" /\ UNCHANGED handler
    ELSE pc' = "reconcile" /\ handler' = TRUE /\ UNCHANGED result

ReadResult ==
    /\ pc = "final"
    /\ \/ /\ ~summary.path \/ disk.result # "none"
          /\ pc' = "ended" /\ result' = term /\ UNCHANGED handler
       \/ summary.path /\ (ReadFailures \/ disk.result = "none") /\ RaiseActivityError
    /\ UNCHANGED <<idx, start, paused, cancel, direct, late, status, term,
                   summary, comp, act, kids, diskVars>>

(* Temporal's own cancellation reaches the await the workflow is at: it asks *)
(* the step activity to stop, and is an exception at the other awaits.       *)
DirectCancel ==
    /\ DirectCancels /\ direct = "no" /\ AtAwait
    /\ direct' = "sent"
    /\ \/ /\ pc = "await"
          /\ act' = IF act.st \in {"queued", "running"}
                    THEN [act EXCEPT !.cancel = TRUE] ELSE act
          /\ UNCHANGED <<pc, handler, term, result>>
       \/ /\ pc \in {"loop", "compensate"} /\ ~handler
          /\ Compensate(IF cancel THEN "cancelled" ELSE "interrupted")
          /\ handler' = TRUE /\ UNCHANGED <<result, act>>
       \/ /\ pc = "compensate" /\ handler
          /\ pc' = "ended" /\ result' = "raised" /\ UNCHANGED <<handler, term, act>>
       \/ pc = "final" /\ summary.path /\ RaiseActivityError /\ UNCHANGED <<term, act>>
       \/ pc = "reconcile" /\ AfterReconcile /\ UNCHANGED <<handler, result, act>>
    /\ UNCHANGED <<idx, start, paused, cancel, late, status, summary, comp, kids,
                   diskVars>>

-----------------------------------------------------------------------------
(* The server and the worker's side of the step activity.                    *)
Current(k) == act.st = "running" /\ k.att = act.att /\ k.goal = idx

MutRetryUnbounded == act' = [act EXCEPT !.st = "queued", !.att = @ + 2]
MutRetry == act' = [act EXCEPT !.st = "queued"]

(* After an error the policy allows another attempt, unless the error is     *)
(* permanent or the schedule-to-close budget is spent.                       *)
Retry == act' = [act EXCEPT !.st = "queued", !.att = @ + 1]
Fail == act' = [act EXCEPT !.st = "failed"]
TransientError == (act.att < RetryAttempts /\ ~act.cancel /\ Retry) \/ Fail

AttemptBegins ==
    /\ act.st = "queued" /\ ~act.cancel
    /\ \/ /\ act' = [act EXCEPT !.st = "running"]
          /\ kids' = kids \cup {[goal |-> idx, att |-> act.att, phase |-> "queued",
                                 gen |-> 0]}
       \/ (TransientError \/ Fail) /\ UNCHANGED kids
    /\ UNCHANGED <<wfVars, diskVars>>

CancelQueued ==
    /\ act.st = "queued" /\ act.cancel
    /\ act' = [act EXCEPT !.st = "cancelled"]
    /\ UNCHANGED <<wfVars, kids, diskVars>>

(* The attempt kills its child when its own timeout passes or the            *)
(* cancellation comes with a heartbeat.                                      *)
KillChild ==
    /\ act.st = "running"
    /\ kids' = {k \in kids : ~Current(k)}
    /\ \/ act.cancel /\ act' = [act EXCEPT !.st = "cancelled"]
       \/ TransientError
    /\ UNCHANGED <<wfVars, diskVars>>

(* The worker is lost and its heartbeats stop; the child survives.           *)
WorkerLost ==
    /\ act.st = "running"
    /\ TransientError
    /\ UNCHANGED <<wfVars, kids, diskVars>>

-----------------------------------------------------------------------------
MutLockFree == TRUE

(* The child process: ratsnest_run_pcb_pipeline_until under the lock of the  *)
(* run directory.                                                            *)
LockFree == \A k \in kids : k.phase # "running"

TakeLock(k) ==
    /\ k.phase = "queued" /\ LockFree
    /\ kids' = (kids \ {k}) \cup {[k EXCEPT !.phase = "running", !.gen = disk.gen]}
    /\ UNCHANGED <<wfVars, act, diskVars>>

(* One accepted step, or a rollback to a shorter prefix; the first write of  *)
(* a resumed run drops what follows its resume step.  The write is refused   *)
(* when another writer came in between.                                      *)
WriteCheckpoint(k) ==
    /\ k.phase = "running" /\ disk.gen < MaxGen /\ k.gen = disk.gen
    /\ disk.cut => disk.steps < k.goal \/ k.goal = NSteps
    /\ \E s \in 0 .. k.goal :
          /\ s <= (IF disk.cut THEN disk.steps ELSE start) + 1
          /\ disk' = [disk EXCEPT !.gen = @ + 1, !.steps = s, !.cut = TRUE]
    /\ kids' = (kids \ {k}) \cup {[k EXCEPT !.gen = @ + 1]}
    /\ UNCHANGED <<wfVars, act, recovery>>

MutReportWritten(k, out) == out = "stopped" /\ k.goal < NSteps

(* The full report, with its result file, is built for the last step and for *)
(* every stop; an intermediate step that is reached leaves none.             *)
ReportWritten(k, out) == out = "stopped" \/ k.goal = NSteps

ChildEnds(k) ==
    /\ k.phase = "running" /\ k.gen = disk.gen /\ disk.cut
    /\ kids' = kids \ {k}
    /\ \E out \in Outputs :
          /\ out = "reached" => disk.steps >= k.goal
          /\ disk' = [disk EXCEPT !.gen = @ + 1,
                                  !.result = IF ReportWritten(k, out) THEN "new" ELSE @]
          /\ act' = IF Current(k) THEN [act EXCEPT !.st = "ok", !.out = out, !.steps = disk.steps]
                    ELSE act
    /\ UNCHANGED <<wfVars, recovery>>

(* An error result: classified by _transient_error.                          *)
ChildFails(k) ==
    /\ k.phase = "running"
    /\ kids' = kids \ {k}
    /\ IF Current(k) THEN TransientError \/ Fail ELSE UNCHANGED act
    /\ UNCHANGED <<wfVars, diskVars>>

-----------------------------------------------------------------------------
Signal == RequestPause \/ RequestResume \/ RequestCancel

Workflow == NextStep \/ Complete \/ StepReturned \/ StepFailed \/ ReadCheckpoint
            \/ CompensateRun \/ ReadResult

Server == AttemptBegins \/ CancelQueued \/ KillChild \/ WorkerLost

Child == \E k \in kids : TakeLock(k) \/ WriteCheckpoint(k) \/ ChildEnds(k) \/ ChildFails(k)

Done == pc = "ended" /\ act.st = "idle" /\ kids = {} /\ UNCHANGED vars

Next == Signal \/ Deadline \/ DirectCancel \/ Workflow \/ Server \/ Child \/ Done

Spec == Init /\ [][Next]_vars

(* Temporal keeps running workflow tasks and starting attempts, and every    *)
(* attempt is ended by its timeout; nothing is assumed of the children.      *)
FairSpec == Spec /\ WF_vars(Workflow) /\ WF_vars(AttemptBegins)
                 /\ WF_vars(CancelQueued) /\ WF_vars(KillChild)

-----------------------------------------------------------------------------
(* A workflow that reports completion (workflow.py:464) has the last step    *)
(* committed and returns a report written by this run, not the file an       *)
(* earlier run left in the directory, whatever was retried in between.       *)
CompletedIsReported ==
    result \in {"completed", "stopped"} =>
        /\ result = "completed" => summary.completed = NSteps
        /\ summary.path /\ disk.result = "new"

(* However the workflow ends before its last step (a deadline, a stop, a     *)
(* failure, a cancellation, an exception that leaves run), the saga's        *)
(* compensation has been tried first.  Temporal's own cancellation can still *)
(* cut a compensation short that an except clause is awaiting.               *)
Compensated ==
    pc = "ended" /\ result # "completed" => comp # "none" \/ direct = "sent"

(* A cancellation that was signalled while a step runs or the workflow waits *)
(* at a step boundary decides how it ends: neither the step's own outcome,   *)
(* nor a failing activity, nor a resume, pause or deadline replaces it.      *)
CancelHonoured ==
    [](cancel /\ pc \in {"loop", "await"} =>
           [](result \in {"none", "cancelled", "raised"}))

(* The lock of the run directory, held by children that outlive their        *)
(* worker, makes the compare-and-swap of the checkpoint never fail for its   *)
(* holder: what a child loaded is what is on disk when it writes.            *)
OneWriter == \A k \in kids : k.phase = "running" => k.gen = disk.gen

(* Over lost workers, orphaned children, signals and a deadline, the         *)
(* workspace has one writer and the outcome is what the files say.           *)
WorkflowSound == TypeOK /\ CompletedIsReported /\ Compensated /\ OneWriter

(* A signalled cancellation ends the workflow, even when it is paused again  *)
(* afterwards or a child hangs on the lock of an orphaned one.               *)
CancelEnds == cancel ~> pc = "ended"

(* A workflow that is not left paused ends: attempts, timeouts and the       *)
(* deadline bound every wait.                                                *)
Ends == (<>[]~paused) => <>(pc = "ended")

(* "The compensation result (including a compensation failure) is attached   *)
(* to the terminal Temporal result rather than silently discarded"           *)
(* (docs/RATSNESTPRO_LANGGRAPH_TEMPORAL_ARCHITECTURE.md): a workflow that    *)
(* compensated returns a result.                                             *)
CompensationAttached == comp # "none" => result # "raised"
=============================================================================
