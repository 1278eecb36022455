----------------------- MODULE HardwareWorkflowProofs -----------------------
(***************************************************************************)
(* The hardware workflow, for any number of steps, attempts, orphaned      *)
(* children and checkpoints: the run directory has one writer, a workflow  *)
(* that reports completion returns this run's report, and every other end  *)
(* has been compensated.                                                   *)
(***************************************************************************)
EXTENDS HardwareWorkflow, TLAPS

Kids == [goal : 1 .. NSteps, att : 1 .. RetryAttempts, phase : {"queued", "running"}, gen : Nat]
Acts == [st : {"idle", "queued", "running", "ok", "failed", "cancelled"}, att : 0 .. RetryAttempts,
         cancel : BOOLEAN, out : Outputs \cup {"none"}, steps : 0 .. NSteps]
Disks == [gen : Nat, steps : 0 .. NSteps, cut : BOOLEAN, result : {"none", "old", "new"}]

(* The report of the last step is this run's.                              *)
Reported == summary.completed = NSteps /\ summary.path /\ disk.result = "new"

(* An activity is in hand exactly at its await; the body of run is left    *)
(* only through compensation, or to report completion.                     *)
Flow ==
  /\ act.st # "idle" <=> pc = "await"
  /\ pc = "await" => idx <= NSteps /\ act.att >= 1
  /\ pc \in {"loop", "await"} => ~handler
  /\ pc = "loop" /\ idx > NSteps => ~cancel
  /\ pc = "compensate" => term \in {"cancelled", "timed_out", "stopped", "failed", "interrupted"}
  /\ pc = "final" => term \in {"cancelled", "timed_out", "stopped", "completed"}
  /\ pc = "final" /\ comp = "none" => term = "completed" /\ ~handler
  /\ pc # "ended" => result = "none"

(* What a returned activity, and the terminal status it leads to, say of   *)
(* the files.                                                              *)
Reports ==
  /\ act.st = "ok" /\ act.out = "stopped" => disk.result = "new"
  /\ act.st = "ok" /\ act.out # "stopped" => act.steps >= idx
  /\ act.st = "ok" /\ idx = NSteps => disk.result = "new"
  /\ pc = "loop" /\ idx > NSteps => Reported
  /\ pc = "final" /\ term = "completed" => Reported
  /\ pc \in {"compensate", "final"} /\ term = "stopped" => summary.path /\ disk.result = "new"

OneRunning == \A j, k \in kids : j.phase = "running" /\ k.phase = "running" => j = k

IInv == TypeOK /\ Flow /\ Reports /\ CompletedIsReported /\ Compensated /\ OneRunning /\ OneWriter

(* The part of the invariant about the workflow's own variables.           *)
Told == Flow /\ Reports /\ CompletedIsReported /\ Compensated
-----------------------------------------------------------------------------
LEMMA Types ==
  ASSUME TypeOK
  PROVE  /\ act \in Acts /\ disk \in Disks
         /\ \A k \in kids : k \in Kids
         /\ idx \in 1 .. NSteps + 1 /\ NSteps \in Nat \ {0} /\ RetryAttempts \in Nat \ {0}
BY StepsAssumption, AttemptsAssumption DEF TypeOK, Acts, Disks, Kids

LEMMA SignalKeeps ==
  ASSUME TypeOK, Told, Signal
  PROVE  TypeOK' /\ Told' /\ UNCHANGED <<kids, disk>>
<1>1. CASE RequestPause
  <2>1. TypeOK'
    BY <1>1 DEF RequestPause, TypeOK, diskVars
  <2>2. Told'
    BY <1>1 DEF RequestPause, Told, Flow, Reports, Reported, CompletedIsReported, Compensated, diskVars
  <2>. QED
    BY <1>1, <2>1, <2>2 DEF RequestPause, diskVars
<1>2. CASE RequestResume
  <2>1. TypeOK'
    <3>1. paused' \in BOOLEAN
      BY <1>2, Zenon DEF RequestResume
    <3>2. /\ status' = "running"
          /\ UNCHANGED <<pc, handler, idx, start, cancel, direct, late, term, summary,
                         comp, result, act, kids, disk, recovery>>
      BY <1>2 DEF RequestResume, diskVars
    <3>. QED
      BY <3>1, <3>2 DEF TypeOK
  <2>2. Told'
    BY <1>2 DEF RequestResume, Told, Flow, Reports, Reported, CompletedIsReported, Compensated, diskVars
  <2>. QED
    BY <1>2, <2>1, <2>2 DEF RequestResume, diskVars
<1>3. CASE RequestCancel
  <2>1. act' \in Acts /\ act'.st = act.st /\ act'.att = act.att /\ act'.out = act.out
        /\ act'.steps = act.steps
    BY <1>3, Types DEF RequestCancel, Acts
  <2>2. TypeOK'
    <3>1. cancel' \in BOOLEAN /\ paused' \in BOOLEAN
      BY <1>3, Zenon DEF RequestCancel
    <3>2. /\ status' = "cancel_requested"
          /\ UNCHANGED <<pc, handler, idx, start, direct, late, term, summary, comp, result, kids, disk, recovery>>
      BY <1>3 DEF RequestCancel, diskVars
    <3>. QED
      BY <2>1, <3>1, <3>2 DEF TypeOK, Acts
  <2>3. Flow'
    <3>1. UNCHANGED <<pc, handler, idx, comp, term, result>> /\ cancel' = TRUE /\ AtAwait
      BY <1>3 DEF RequestCancel
    <3>2. ~(pc = "loop" /\ idx > NSteps)
      BY <3>1, Types DEF AtAwait
    <3>. QED
      BY <2>1, <3>1, <3>2 DEF Told, Flow
  <2>4. Reports' /\ CompletedIsReported' /\ Compensated'
    BY <1>3, <2>1 DEF RequestCancel, Told, Reports, Reported, CompletedIsReported, Compensated, diskVars
  <2>. QED
    BY <1>3, <2>2, <2>3, <2>4 DEF RequestCancel, Told, diskVars
<1>. QED
  BY <1>1, <1>2, <1>3 DEF Signal

LEMMA DeadlineKeeps ==
  ASSUME TypeOK, Told, Deadline
  PROVE  TypeOK' /\ Told' /\ UNCHANGED <<kids, disk>>
BY DEF Deadline, TypeOK, Told, Flow, Reports, Reported, CompletedIsReported, Compensated, diskVars

LEMMA DirectCancelKeeps ==
  ASSUME TypeOK, Told, DirectCancel
  PROVE  TypeOK' /\ Told' /\ UNCHANGED <<kids, disk>>
<1>1. UNCHANGED <<idx, start, paused, cancel, late, status, summary, comp, kids, disk, recovery>> /\ direct' = "sent"
  BY DEF DirectCancel, diskVars
<1>2. CASE pc = "await" /\ act' = (IF act.st \in {"queued", "running"} THEN [act EXCEPT !.cancel = TRUE] ELSE act)
           /\ UNCHANGED <<pc, handler, term, result>>
  <2>1. act' \in Acts /\ act'.st = act.st /\ act'.att = act.att /\ act'.out = act.out
        /\ act'.steps = act.steps
    BY <1>2, Types DEF Acts
  <2>2. TypeOK'
    BY <1>1, <1>2, <2>1 DEF TypeOK, Acts
  <2>3. Told'
    BY <1>1, <1>2, <2>1 DEF Told, Flow, Reports, Reported, CompletedIsReported, Compensated
  <2>. QED
    BY <1>1, <2>2, <2>3
<1>3. CASE /\ pc \in {"loop", "compensate"} /\ ~handler
           /\ Compensate(IF cancel THEN "cancelled" ELSE "interrupted")
           /\ handler' = TRUE /\ UNCHANGED <<result, act>>
  BY <1>1, <1>3 DEF Compensate, TypeOK, Told, Flow, Reports, Reported, CompletedIsReported, Compensated
<1>4. CASE /\ pc = "compensate" /\ handler
           /\ pc' = "ended" /\ result' = "raised" /\ UNCHANGED <<handler, term, act>>
  BY <1>1, <1>4 DEF TypeOK, Told, Flow, Reports, Reported, CompletedIsReported, Compensated
<1>5. CASE pc = "final" /\ summary.path /\ RaiseActivityError /\ UNCHANGED <<term, act>>
  <2>1. CASE handler
    <3>1. pc' = "ended" /\ result' = "raised" /\ handler' = handler
      BY <1>5, <2>1 DEF RaiseActivityError
    <3>2. TypeOK'
      BY <1>1, <1>5, <3>1 DEF TypeOK
    <3>3. Told'
      BY <1>1, <1>5, <3>1 DEF Told, Flow, Reports, Reported, CompletedIsReported, Compensated
    <3>. QED
      BY <1>1, <3>2, <3>3
  <2>2. CASE ~handler
    <3>1. pc' = "reconcile" /\ result' = result /\ handler' = TRUE
      BY <1>5, <2>2 DEF RaiseActivityError
    <3>2. TypeOK'
      BY <1>1, <1>5, <3>1 DEF TypeOK
    <3>3. Told'
      BY <1>1, <1>5, <3>1 DEF Told, Flow, Reports, Reported, CompletedIsReported, Compensated
    <3>. QED
      BY <1>1, <3>2, <3>3
  <2>. QED
    BY <2>1, <2>2
<1>6. CASE pc = "reconcile" /\ AfterReconcile /\ UNCHANGED <<handler, result, act>>
  BY <1>1, <1>6 DEF AfterReconcile, Compensate, TypeOK, Told, Flow, Reports, Reported, CompletedIsReported, Compensated
<1>. QED
  BY <1>2, <1>3, <1>4, <1>5, <1>6 DEF DirectCancel

LEMMA NextStepKeeps ==
  ASSUME TypeOK, Told, NextStep \/ Complete
  PROVE  TypeOK' /\ Told' /\ UNCHANGED <<kids, disk>>
<1>1. CASE NextStep /\ (cancel \/ late)
  BY <1>1 DEF NextStep, Compensate, TypeOK, Told, Flow, Reports, Reported, CompletedIsReported, Compensated, diskVars
<1>2. CASE NextStep /\ ~cancel /\ ~late
  <2>1. act' \in Acts /\ act'.st = "queued" /\ act'.att = 1
    <3>1. act' = [st |-> "queued", att |-> 1, cancel |-> FALSE, out |-> "none", steps |-> 0]
      BY <1>2 DEF NextStep, Idle
    <3>. QED
      BY <3>1, Types DEF Acts
  <2>2. TypeOK'
    BY <1>2, <2>1 DEF NextStep, TypeOK, Acts, diskVars
  <2>3. Told'
    BY <1>2, <2>1 DEF NextStep, Told, Flow, Reports, Reported, CompletedIsReported, Compensated, diskVars
  <2>. QED
    BY <1>2, <2>2, <2>3 DEF NextStep, diskVars
<1>3. CASE Complete
  BY <1>3, Types DEF Complete, TypeOK, Told, Flow, Reports, Reported, CompletedIsReported, Compensated, diskVars
<1>. QED
  BY <1>1, <1>2, <1>3 DEF NextStep

LEMMA StepReturnedKeeps ==
  ASSUME TypeOK, Told, StepReturned \/ StepFailed
  PROVE  TypeOK' /\ Told' /\ UNCHANGED <<kids, disk>>
<1>0. Idle \in Acts /\ Idle.st = "idle"
  BY StepsAssumption, AttemptsAssumption DEF Idle, Acts
<1>1. CASE StepReturned
  <2>1. /\ pc = "await" /\ act.st = "ok" /\ act' = Idle /\ status' = "checkpointed"
        /\ UNCHANGED <<handler, start, paused, cancel, direct, late, comp, result, kids, disk, recovery>>
    BY <1>1 DEF StepReturned, diskVars
  <2>2. /\ summary' \in [completed : 0 .. NSteps, gen : Nat, path : BOOLEAN]
        /\ summary'.completed = act.steps
        /\ summary'.path <=> (act.out = "stopped" \/ idx = NSteps)
    <3>1. (act.out = "stopped" \/ idx = NSteps) \in BOOLEAN
      OBVIOUS
    <3>. QED
      BY <1>1, <3>1, Types DEF StepReturned, Summary, Acts, Disks
  <2>3. CASE cancel
    <3>1. pc' = "compensate" /\ term' = "cancelled" /\ idx' = idx
      BY <1>1, <2>3 DEF StepReturned, AfterStep, Compensate
    <3>2. TypeOK'
      BY <1>0, <2>1, <2>2, <3>1 DEF TypeOK, Acts
    <3>3. Told'
      BY <1>0, <2>1, <2>2, <3>1 DEF Told, Flow, Reports, Reported, CompletedIsReported, Compensated
    <3>. QED
      BY <2>1, <3>2, <3>3
  <2>4. CASE ~cancel /\ act.out = "stopped"
    <3>1. pc' = "compensate" /\ term' = "stopped" /\ idx' = idx
      BY <1>1, <2>4 DEF StepReturned, AfterStep, Compensate
    <3>2. TypeOK'
      BY <1>0, <2>1, <2>2, <3>1 DEF TypeOK, Acts
    <3>3. Told'
      BY <1>0, <2>1, <2>2, <2>4, <3>1 DEF Told, Flow, Reports, Reported, CompletedIsReported, Compensated
    <3>. QED
      BY <2>1, <3>2, <3>3
  <2>5. CASE ~cancel /\ act.out # "stopped"
    <3>1. pc' = "loop" /\ term' = term /\ idx' = idx + 1
      BY <1>1, <2>5 DEF StepReturned, AfterStep
    <3>2. idx \in 1 .. NSteps
      BY <2>1, Types DEF Told, Flow
    <3>3. TypeOK'
      BY <1>0, <2>1, <2>2, <3>1, <3>2, Types DEF TypeOK, Acts
    <3>4. idx' > NSteps => Reported'
      <4>. SUFFICES ASSUME idx' > NSteps PROVE Reported'
        OBVIOUS
      <4>1. idx = NSteps
        BY <3>1, <3>2, Types
      <4>2. act.steps = NSteps
        BY <2>1, <2>5, <4>1, Types DEF Told, Reports, Acts
      <4>. QED
        BY <2>1, <2>2, <4>1, <4>2 DEF Told, Reports, Reported
    <3>5. Flow'
      BY <1>0, <2>1, <2>5, <3>1 DEF Told, Flow
    <3>6. Reports' /\ CompletedIsReported' /\ Compensated'
      BY <1>0, <2>1, <3>1, <3>4 DEF Told, Flow, Reports, CompletedIsReported, Compensated
    <3>. QED
      BY <2>1, <3>3, <3>5, <3>6 DEF Told
  <2>. QED
    BY <2>3, <2>4, <2>5
<1>2. CASE StepFailed
  <2>1. TypeOK'
    BY <1>0, <1>2 DEF StepFailed, TypeOK, Acts, diskVars
  <2>2. Told'
    BY <1>0, <1>2 DEF StepFailed, Told, Flow, Reports, Reported, CompletedIsReported, Compensated, diskVars
  <2>. QED
    BY <1>2, <2>1, <2>2 DEF StepFailed, diskVars
<1>. QED
  BY <1>1, <1>2

LEMMA ReadCheckpointKeeps ==
  ASSUME TypeOK, Told, ReadCheckpoint
  PROVE  TypeOK' /\ Told' /\ UNCHANGED <<kids, disk>>
<1>1. summary' \in [completed : 0 .. NSteps, gen : Nat, path : BOOLEAN]
  <2>1. Latest \in [completed : 0 .. NSteps, gen : Nat, path : BOOLEAN]
    BY Types DEF Latest, Disks
  <2>2. summary' = summary \/ summary' = Latest
    BY DEF ReadCheckpoint, Reconciled
  <2>. QED
    BY <2>1, <2>2 DEF TypeOK
<1>2. pc = "reconcile" /\ pc' = "compensate" /\ term' \in {"cancelled", "failed"}
  BY DEF ReadCheckpoint, AfterReconcile, Compensate
<1>3. UNCHANGED <<handler, idx, start, paused, cancel, direct, late, status, comp, result, act, kids, disk, recovery>>
  BY DEF ReadCheckpoint, diskVars
<1>4. TypeOK'
  BY <1>1, <1>2, <1>3 DEF TypeOK
<1>5. Told'
  BY <1>2, <1>3 DEF Told, Flow, Reports, Reported, CompletedIsReported, Compensated
<1>. QED
  BY <1>3, <1>4, <1>5

LEMMA CompensateRunKeeps ==
  ASSUME TypeOK, Told, CompensateRun
  PROVE  TypeOK' /\ Told' /\ UNCHANGED <<kids, disk>>
<1>1. /\ pc = "compensate" /\ comp' \in {"preserved_for_resume", "compensation_failed"}
      /\ recovery' \in {recovery, summary.completed}
      /\ UNCHANGED <<handler, idx, start, paused, cancel, direct, late, term, summary, act, kids, disk>>
  BY DEF CompensateRun
<1>2. term \in {"cancelled", "timed_out", "stopped", "failed", "interrupted"}
  BY <1>1 DEF Told, Flow
<1>3. /\ status' \in {"cancelled", "timed_out", "stopped", "failed"}
      /\ \/ pc' = "ended" /\ result' \in {"failed", "raised"}
         \/ pc' = "final" /\ result' = result /\ term \in {"cancelled", "timed_out", "stopped"}
  BY <1>2 DEF CompensateRun
<1>4. TypeOK'
  BY <1>1, <1>3 DEF TypeOK
<1>5. Told'
  BY <1>1, <1>3 DEF Told, Flow, Reports, Reported, CompletedIsReported, Compensated
<1>. QED
  BY <1>1, <1>4, <1>5

LEMMA ReadResultKeeps ==
  ASSUME TypeOK, Told, ReadResult
  PROVE  TypeOK' /\ Told' /\ UNCHANGED <<kids, disk>>
<1>1. /\ pc = "final"
      /\ UNCHANGED <<idx, start, paused, cancel, direct, late, status, term, summary, comp, act, kids, disk, recovery>>
  BY DEF ReadResult, diskVars
<1>2. term \in {"cancelled", "timed_out", "stopped", "completed"}
  BY <1>1 DEF Told, Flow
<1>3. CASE pc' = "ended" /\ result' = term /\ UNCHANGED handler
  <2>1. TypeOK'
    BY <1>1, <1>2, <1>3 DEF TypeOK
  <2>2. Told'
    BY <1>1, <1>2, <1>3 DEF Told, Flow, Reports, Reported, CompletedIsReported, Compensated
  <2>. QED
    BY <1>1, <2>1, <2>2
<1>4. CASE RaiseActivityError
  <2>1. CASE handler
    <3>1. pc' = "ended" /\ result' = "raised" /\ handler' = handler
      BY <1>4, <2>1 DEF RaiseActivityError
    <3>2. TypeOK'
      BY <1>1, <3>1 DEF TypeOK
    <3>3. Told'
      BY <1>1, <2>1, <3>1 DEF Told, Flow, Reports, Reported, CompletedIsReported, Compensated
    <3>. QED
      BY <1>1, <3>2, <3>3
  <2>2. CASE ~handler
    <3>1. pc' = "reconcile" /\ result' = result /\ handler' = TRUE
      BY <1>4, <2>2 DEF RaiseActivityError
    <3>2. TypeOK'
      BY <1>1, <3>1 DEF TypeOK
    <3>3. Told'
      BY <1>1, <3>1 DEF Told, Flow, Reports, Reported, CompletedIsReported, Compensated
    <3>. QED
      BY <1>1, <3>2, <3>3
  <2>. QED
    BY <2>1, <2>2
<1>. QED
  BY <1>3, <1>4 DEF ReadResult
-----------------------------------------------------------------------------
(* What the worker's side may do to the activity.                          *)
Attempt ==
  /\ act' \in Acts /\ act.st \in {"queued", "running"} /\ act'.att >= 1
  /\ act'.st \in {"queued", "running", "failed", "cancelled"}

LEMMA AttemptKeeps ==
  ASSUME TypeOK, Told, Attempt \/ UNCHANGED act, UNCHANGED <<wfVars, diskVars>>, kids' \subseteq Kids
  PROVE  TypeOK' /\ Told'
<1>1. TypeOK'
  BY DEF TypeOK, Attempt, Acts, Kids, wfVars, diskVars
<1>2. Told'
  BY DEF Attempt, Told, Flow, Reports, Reported, CompletedIsReported, Compensated, wfVars, diskVars
<1>. QED
  BY <1>1, <1>2

LEMMA ErrorIsAttempt ==
  ASSUME TypeOK, Told, act.st \in {"queued", "running"}, TransientError \/ Fail
  PROVE  Attempt
<1>1. act.att >= 1 /\ act \in Acts
  BY Types DEF Told, Flow
<1>2. CASE act.att < RetryAttempts /\ Retry
  <2>1. act.att \in Nat /\ act.att + 1 \in 0 .. RetryAttempts /\ act.att + 1 >= 1
    BY <1>1, <1>2, Types DEF Acts
  <2>2. act' = [act EXCEPT !.st = "queued", !.att = act.att + 1]
    BY <1>2 DEF Retry
  <2>. QED
    BY <1>1, <2>1, <2>2 DEF Attempt, Acts
<1>3. CASE Fail
  BY <1>1, <1>3 DEF Fail, Attempt, Acts
<1>. QED
  BY <1>2, <1>3 DEF TransientError

LEMMA ServerKeeps ==
  ASSUME TypeOK, Told, OneRunning, OneWriter, Server
  PROVE  TypeOK' /\ Told' /\ OneRunning' /\ OneWriter'
<1>1. UNCHANGED <<wfVars, diskVars>>
  BY DEF Server, AttemptBegins, CancelQueued, KillChild, WorkerLost
<1>2. act \in Acts /\ kids \subseteq Kids
  BY Types
<1>3. CASE AttemptBegins
  <2>. DEFINE n == [goal |-> idx, att |-> act.att, phase |-> "queued", gen |-> 0]
  <2>1. pc = "await" /\ idx <= NSteps /\ act.att >= 1
    BY <1>3 DEF AttemptBegins, Told, Flow
  <2>2. n \in Kids
    BY <1>2, <2>1, Types DEF Kids, Acts
  <2>3. n.phase # "running"
    OBVIOUS
  <2>4. Attempt /\ kids' \in {kids, kids \cup {n}}
    <3>1. CASE act' = [act EXCEPT !.st = "running"] /\ kids' = kids \cup {n}
      BY <1>2, <1>3, <2>1, <3>1 DEF Attempt, Acts, AttemptBegins
    <3>2. CASE (TransientError \/ Fail) /\ UNCHANGED kids
      BY <1>3, <3>2, ErrorIsAttempt DEF AttemptBegins
    <3>. QED
      BY <1>3, <3>1, <3>2 DEF AttemptBegins
  <2>. HIDE DEF n
  <2>5. TypeOK' /\ Told'
    BY <1>1, <1>2, <2>2, <2>4, AttemptKeeps
  <2>6. OneRunning' /\ OneWriter'
    BY <1>1, <2>3, <2>4 DEF OneRunning, OneWriter, diskVars
  <2>. QED
    BY <2>5, <2>6
<1>4. CASE CancelQueued
  <2>1. pc = "await" /\ act.att >= 1
    BY <1>4 DEF CancelQueued, Told, Flow
  <2>2. Attempt /\ UNCHANGED kids
    BY <1>2, <1>4, <2>1 DEF CancelQueued, Attempt, Acts
  <2>3. TypeOK' /\ Told'
    BY <1>1, <1>2, <2>2, AttemptKeeps
  <2>. QED
    BY <1>1, <2>2, <2>3 DEF OneRunning, OneWriter, diskVars
<1>5. CASE KillChild \/ WorkerLost
  <2>1. pc = "await" /\ act.att >= 1 /\ act.st = "running" /\ kids' \subseteq kids
    BY <1>5 DEF KillChild, WorkerLost, Told, Flow
  <2>2. Attempt
    <3>1. CASE act' = [act EXCEPT !.st = "cancelled"]
      BY <1>2, <2>1, <3>1 DEF Attempt, Acts
    <3>2. CASE TransientError
      BY <2>1, <3>2, ErrorIsAttempt
    <3>. QED
      BY <1>5, <3>1, <3>2 DEF KillChild, WorkerLost
  <2>3. TypeOK' /\ Told'
    BY <1>1, <1>2, <2>1, <2>2, AttemptKeeps
  <2>. QED
    BY <1>1, <2>1, <2>3 DEF OneRunning, OneWriter, diskVars
<1>. QED
  BY <1>3, <1>4, <1>5 DEF Server
-----------------------------------------------------------------------------
LEMMA TakeLockKeeps ==
  ASSUME TypeOK, Told, OneRunning, OneWriter, NEW k \in kids, TakeLock(k)
  PROVE  TypeOK' /\ Told' /\ OneRunning' /\ OneWriter'
<1>. DEFINE n == [k EXCEPT !.phase = "running", !.gen = disk.gen]
<1>1. n \in Kids /\ n.phase = "running" /\ n.gen = disk.gen
  BY Types DEF Kids, Disks
<1>2. kids' = (kids \ {k}) \cup {n} /\ UNCHANGED <<wfVars, act, diskVars>>
  BY DEF TakeLock
<1>3. \A j \in kids : j.phase # "running"
  BY DEF TakeLock, LockFree
<1>4. TypeOK' /\ Told'
  BY <1>1, <1>2, Types, AttemptKeeps
<1>. HIDE DEF n
<1>5. OneRunning' /\ OneWriter'
  BY <1>1, <1>2, <1>3 DEF OneRunning, OneWriter, diskVars
<1>. QED
  BY <1>4, <1>5

LEMMA WriteCheckpointKeeps ==
  ASSUME TypeOK, Told, OneRunning, OneWriter, NEW k \in kids, WriteCheckpoint(k)
  PROVE  TypeOK' /\ Told' /\ OneRunning' /\ OneWriter'
<1>. DEFINE n == [k EXCEPT !.gen = @ + 1]
<1>1. k \in Kids /\ disk \in Disks /\ k.phase = "running" /\ k.gen = disk.gen
  BY Types DEF WriteCheckpoint
<1>2. n \in Kids /\ n.phase = "running" /\ n.gen = disk.gen + 1
  BY <1>1 DEF Kids
<1>3. kids' = (kids \ {k}) \cup {n} /\ UNCHANGED <<wfVars, act, recovery>>
  BY DEF WriteCheckpoint
<1>4. PICK s \in 0 .. k.goal : disk' = [disk EXCEPT !.gen = @ + 1, !.steps = s, !.cut = TRUE]
  BY DEF WriteCheckpoint
<1>5. s \in 0 .. NSteps
  BY <1>1, <1>4, Types DEF Kids
<1>6. disk' \in Disks /\ disk'.gen = disk.gen + 1 /\ disk'.result = disk.result
  <2>1. disk' = [disk EXCEPT !.gen = disk.gen + 1, !.steps = s, !.cut = TRUE]
    BY <1>4
  <2>2. disk.gen + 1 \in Nat
    BY <1>1 DEF Disks
  <2>. QED
    BY <1>1, <1>5, <2>1, <2>2 DEF Disks
<1>. HIDE DEF n
<1>7. kids' \subseteq Kids
  BY <1>2, <1>3, Types
<1>8. TypeOK'
  BY <1>3, <1>6, <1>7 DEF TypeOK, Kids, Disks, wfVars
<1>9. Told'
  BY <1>3, <1>6 DEF Told, Flow, Reports, Reported, CompletedIsReported, Compensated, wfVars
<1>10. OneRunning' /\ OneWriter'
  BY <1>1, <1>2, <1>3, <1>6 DEF OneRunning, OneWriter
<1>. QED
  BY <1>8, <1>9, <1>10

LEMMA ChildEndsKeeps ==
  ASSUME TypeOK, Told, OneRunning, OneWriter, NEW k \in kids, ChildEnds(k)
  PROVE  TypeOK' /\ Told' /\ OneRunning' /\ OneWriter'
<1>1. PICK out \in Outputs :
        /\ out = "reached" => disk.steps >= k.goal
        /\ disk' = [disk EXCEPT !.gen = @ + 1, !.result = IF ReportWritten(k, out) THEN "new" ELSE @]
        /\ act' = IF Current(k) THEN [act EXCEPT !.st = "ok", !.out = out, !.steps = disk.steps] ELSE act
  BY DEF ChildEnds
<1>2. /\ k \in Kids /\ disk \in Disks /\ act \in Acts /\ k.phase = "running" /\ kids' = kids \ {k}
      /\ UNCHANGED <<wfVars, recovery>>
  BY Types DEF ChildEnds
<1>3. /\ disk' \in Disks
      /\ disk.result = "new" => disk'.result = "new"
      /\ ReportWritten(k, out) => disk'.result = "new"
  <2>. DEFINE w == IF ReportWritten(k, out) THEN "new" ELSE disk.result
  <2>1. disk' = [disk EXCEPT !.gen = disk.gen + 1, !.result = w]
    BY <1>1
  <2>2. disk.gen + 1 \in Nat /\ w \in {"none", "old", "new"}
    BY <1>2 DEF Disks
  <2>3. (disk.result = "new" => w = "new") /\ (ReportWritten(k, out) => w = "new")
    OBVIOUS
  <2>. HIDE DEF w
  <2>. QED
    BY <1>2, <2>1, <2>2, <2>3 DEF Disks
<1>4. kids' \subseteq Kids
  BY <1>2, Types
<1>5. OneRunning' /\ OneWriter'
  BY <1>2 DEF OneRunning, OneWriter
<1>6. CASE Current(k)
  <2>1. act.st = "running" /\ k.goal = idx
    BY <1>6 DEF Current
  <2>2. act' \in Acts /\ act'.st = "ok" /\ act'.out = out /\ act'.steps = disk.steps /\ act'.att = act.att
    BY <1>1, <1>2, <1>6 DEF Acts, Disks
  <2>3. TypeOK'
    BY <1>2, <1>3, <1>4, <2>2 DEF TypeOK, Acts, Kids, Disks, wfVars
  <2>4. Flow'
    BY <1>2, <2>1, <2>2 DEF Told, Flow, wfVars
  <2>5. /\ out = "stopped" => disk'.result = "new"
        /\ out # "stopped" => act'.steps >= idx
        /\ idx = NSteps => disk'.result = "new"
    BY <1>1, <1>3, <2>1, <2>2 DEF Outputs, ReportWritten
  <2>6. Reports' /\ CompletedIsReported' /\ Compensated'
    BY <1>2, <1>3, <2>1, <2>2, <2>5 DEF Told, Flow, Reports, Reported, CompletedIsReported, Compensated, wfVars
  <2>. QED
    BY <1>5, <2>3, <2>4, <2>6 DEF Told
<1>7. CASE ~Current(k)
  <2>1. UNCHANGED act
    BY <1>1, <1>7
  <2>2. TypeOK'
    BY <1>2, <1>3, <1>4, <2>1 DEF TypeOK, Acts, Kids, Disks, wfVars
  <2>3. Told'
    BY <1>2, <1>3, <2>1 DEF Told, Flow, Reports, Reported, CompletedIsReported, Compensated, wfVars
  <2>. QED
    BY <1>5, <2>2, <2>3
<1>. QED
  BY <1>6, <1>7

LEMMA ChildFailsKeeps ==
  ASSUME TypeOK, Told, OneRunning, OneWriter, NEW k \in kids, ChildFails(k)
  PROVE  TypeOK' /\ Told' /\ OneRunning' /\ OneWriter'
<1>1. kids' \subseteq Kids /\ kids' \subseteq kids /\ UNCHANGED <<wfVars, diskVars>>
  BY Types DEF ChildFails
<1>2. Attempt \/ UNCHANGED act
  <2>1. CASE Current(k)
    BY <2>1, ErrorIsAttempt DEF ChildFails, Current
  <2>2. CASE ~Current(k)
    BY <2>2 DEF ChildFails
  <2>. QED
    BY <2>1, <2>2
<1>3. TypeOK' /\ Told'
  BY <1>1, <1>2, AttemptKeeps
<1>. QED
  BY <1>1, <1>3 DEF OneRunning, OneWriter, diskVars
-----------------------------------------------------------------------------
LEMMA Start ==
  ASSUME Init
  PROVE  IInv
<1>1. start \in 0 .. NSteps - 1 /\ start + 1 \in 1 .. NSteps /\ NSteps \in Nat \ {0}
  BY StartsAssumption, StepsAssumption DEF Init
<1>2. disk \in Disks
  <2>1. CASE start = 0
    <3>1. disk = [gen |-> 0, steps |-> 0, cut |-> TRUE, result |-> "none"]
      BY <2>1 DEF Init
    <3>. QED
      BY <1>1, <3>1 DEF Disks
  <2>2. CASE start # 0
    <3>1. disk \in [gen : {1}, steps : start .. NSteps, cut : {FALSE}, result : {"none", "old"}]
      BY <2>2 DEF Init
    <3>2. \A n \in start .. NSteps : n \in 0 .. NSteps
      BY <1>1
    <3>3. PICK g \in {1}, n \in start .. NSteps, c \in {FALSE}, w \in {"none", "old"} :
             disk = [gen |-> g, steps |-> n, cut |-> c, result |-> w]
      BY <3>1
    <3>4. c \in BOOLEAN
      BY <3>3, Zenon
    <3>. QED
      BY <3>2, <3>3, <3>4 DEF Disks
  <2>. QED
    BY <2>1, <2>2
<1>3. act \in Acts /\ act.st = "idle"
  BY <1>1, AttemptsAssumption DEF Init, Idle, Acts
<1>4. TypeOK
  <2>1. /\ summary \in [completed : 0 .. NSteps, gen : Nat, path : BOOLEAN]
        /\ idx \in 1 .. NSteps + 1
    BY <1>1 DEF Init
  <2>2. act \in Acts /\ disk \in Disks
    BY <1>2, <1>3
  <2>. QED
    BY <2>1, <2>2 DEF Init, TypeOK, Acts, Disks
<1>5. Told
  BY <1>1, <1>3 DEF Init, Told, Flow, Reports, CompletedIsReported, Compensated
<1>6. OneRunning /\ OneWriter
  BY DEF Init, OneRunning, OneWriter
<1>. QED
  BY <1>4, <1>5, <1>6 DEF IInv, Told

LEMMA WorkflowKeeps ==
  ASSUME TypeOK, Told, Signal \/ Deadline \/ DirectCancel \/ Workflow
  PROVE  TypeOK' /\ Told' /\ UNCHANGED <<kids, disk>>
BY SignalKeeps, DeadlineKeeps, DirectCancelKeeps, NextStepKeeps, StepReturnedKeeps,
   ReadCheckpointKeeps, CompensateRunKeeps, ReadResultKeeps DEF Workflow

LEMMA Kept ==
  ASSUME IInv, [Next]_vars
  PROVE  IInv'
<1>1. TypeOK /\ Told /\ OneRunning /\ OneWriter
  BY DEF IInv, Told
<1>2. CASE Signal \/ Deadline \/ DirectCancel \/ Workflow
  <2>1. TypeOK' /\ Told' /\ UNCHANGED <<kids, disk>>
    BY <1>1, <1>2, WorkflowKeeps
  <2>. QED
    BY <1>1, <2>1 DEF IInv, Told, OneRunning, OneWriter
<1>3. CASE Server
  BY <1>1, <1>3, ServerKeeps DEF IInv, Told
<1>4. CASE Child
  BY <1>1, <1>4, TakeLockKeeps, WriteCheckpointKeeps, ChildEndsKeeps, ChildFailsKeeps
  DEF Child, IInv, Told
<1>5. CASE UNCHANGED vars
  BY <1>5 DEF IInv, vars, wfVars, diskVars, TypeOK, Flow, Reports, Reported, CompletedIsReported,
              Compensated, OneRunning, OneWriter
<1>. QED
  BY <1>2, <1>3, <1>4, <1>5 DEF Next, Done

(* Over lost workers, children that outlive them, failing activities,      *)
(* signals, a deadline and Temporal's own cancellation: a checkpoint is    *)
(* never refused to the holder of the lock, a workflow that reports        *)
(* completion returns this run's report of all steps, and every other end  *)
(* was compensated.                                                        *)
THEOREM HardwareSound == Spec => []WorkflowSound
<1>1. Init => IInv
  BY Start
<1>2. IInv /\ [Next]_vars => IInv'
  BY Kept
<1>3. IInv => WorkflowSound
  BY DEF IInv, WorkflowSound
<1>. QED
  BY <1>1, <1>2, <1>3, PTL DEF Spec
-----------------------------------------------------------------------------
(* A cancellation that was signalled at a step or at a step boundary.      *)
Cancelling ==
  /\ cancel /\ result \in {"none", "cancelled", "raised"}
  /\ pc \in {"compensate", "final"} => term = "cancelled"

LEMMA CancellingStays ==
  ASSUME IInv, Cancelling, [Next]_vars
  PROVE  Cancelling'
<1>1. TypeOK /\ Told
  BY DEF IInv, Told
<1>2. CASE Signal
  BY <1>2 DEF Signal, RequestPause, RequestResume, RequestCancel, Cancelling
<1>3. CASE Deadline
  BY <1>3 DEF Deadline, Cancelling
<1>4. CASE DirectCancel
  BY <1>4 DEF DirectCancel, Compensate, AfterReconcile, RaiseActivityError, Cancelling
<1>5. CASE NextStep \/ Complete
  BY <1>1, <1>5 DEF NextStep, Complete, Compensate, Cancelling, Told, Flow
<1>6. CASE StepReturned \/ StepFailed
  BY <1>6 DEF StepReturned, AfterStep, StepFailed, Compensate, Cancelling
<1>7. CASE ReadCheckpoint
  BY <1>7 DEF ReadCheckpoint, AfterReconcile, Compensate, Cancelling
<1>8. CASE CompensateRun
  BY <1>8 DEF CompensateRun, Cancelling
<1>9. CASE ReadResult
  BY <1>9 DEF ReadResult, RaiseActivityError, Cancelling
<1>10. CASE Server
  BY <1>10 DEF Server, AttemptBegins, CancelQueued, KillChild, WorkerLost, wfVars, Cancelling
<1>11. CASE Child
  BY <1>11 DEF Child, TakeLock, WriteCheckpoint, ChildEnds, ChildFails, wfVars, Cancelling
<1>12. CASE UNCHANGED vars
  BY <1>12 DEF vars, wfVars, Cancelling
<1>. QED
  BY <1>2, <1>3, <1>4, <1>5, <1>6, <1>7, <1>8, <1>9, <1>10, <1>11, <1>12 DEF Next, Workflow, Done

(* A cancellation signalled while a step runs or the workflow waits at a   *)
(* step boundary decides how it ends.                                      *)
THEOREM CancellationDecides == Spec => CancelHonoured
<1>1. Init => IInv
  BY Start
<1>2. IInv /\ [Next]_vars => IInv'
  BY Kept
<1>3. IInv /\ cancel /\ pc \in {"loop", "await"} => Cancelling
  BY DEF IInv, Flow, Cancelling
<1>4. IInv /\ Cancelling /\ [Next]_vars => Cancelling'
  BY CancellingStays
<1>5. Cancelling => result \in {"none", "cancelled", "raised"}
  BY DEF Cancelling
<1>. QED
  BY <1>1, <1>2, <1>3, <1>4, <1>5, PTL DEF Spec, CancelHonoured
=============================================================================
