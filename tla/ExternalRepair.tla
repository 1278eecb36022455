--------------------------- MODULE ExternalRepair ---------------------------
(***************************************************************************)
(* Repair delegated to the external agent: the caller (a2a_client.py), the *)
(* agent's task table, its pool of one worker and the worker process       *)
(* (a2a_agent.py), and the token allowance the tasks of a project share.   *)
(*                                                                         *)
(* A message is identified by the digest of the snapshot it carries.  The  *)
(* snapshot holds the checkpoint generation and the pass counter, which    *)
(* every launch of a repair pass advances: the n-th launch of the caller   *)
(* sends message n.                                                        *)
(***************************************************************************)
EXTENDS Naturals, Sequences

CONSTANTS
  Launches,  \* repair passes the caller may launch
  Estimate,  \* tokens reserved for a model call
  Limit,     \* max_llm_tokens of the allowance
  Crashes,   \* stops of the agent's service
  Cancels    \* cancel requests

ASSUME ExternalConstants ==
  /\ Launches \in Nat \ {0} /\ Estimate \in Nat \ {0}
  /\ Limit \in Nat /\ Crashes \in Nat /\ Cancels \in Nat

Msgs == 1 .. Launches
Active == {"submitted", "working"}
Terminal == {"completed", "failed", "canceled", "input-required"}

VARIABLES
  caller,   \* [pc, msg, gen]: what the caller does, the message it waits for
  task,     \* the state column of the task table
  improved, \* does the completed result carry an improved candidate?
  pool,     \* tasks submitted to the pool of one worker
  worker,   \* [pc, msg]: the worker process
  starts,   \* how often each task's process was started
  charged,  \* tokens column of the budget table
  consumed, \* tokens the provider has counted
  up,       \* is the agent's service running?
  faults    \* [crashes, cancels] so far

vars == <<caller, task, improved, pool, worker, starts, charged, consumed, up, faults>>
agent == <<improved, pool, worker, starts, charged, consumed>>

Idle == [pc |-> "idle", msg |-> 1]

Init ==
  /\ caller = [pc |-> "idle", msg |-> 0, gen |-> 0]
  /\ task = [m \in Msgs |-> "none"]
  /\ improved = [m \in Msgs |-> FALSE]
  /\ pool = <<>>
  /\ worker = Idle
  /\ starts = [m \in Msgs |-> 0]
  /\ charged = 0
  /\ consumed = 0
  /\ up = TRUE
  /\ faults = [crashes |-> 0, cancels |-> 0]
-----------------------------------------------------------------------------
(* The message/send handler.                                               *)
Busy == \E m \in Msgs : task[m] \in Active

MutAdmit(m) ==
  /\ task' = [task EXCEPT ![m] = "submitted"]
  /\ pool' = Append(pool, m)

MutAdmitBusy(m) ==
  IF task[m] # "none"
  THEN UNCHANGED <<task, pool>>
  ELSE task' = [task EXCEPT ![m] = "submitted"] /\ pool' = Append(pool, m)

(* A known message answers with its task and runs nothing; a new one is    *)
(* refused while any task is active, else stored and given to the pool.    *)
Admit(m) ==
  IF task[m] # "none" \/ Busy
  THEN UNCHANGED <<task, pool>>
  ELSE task' = [task EXCEPT ![m] = "submitted"] /\ pool' = Append(pool, m)

Refused(m) == task[m] = "none" /\ Busy

(* delegate: the snapshot is collected and sent.  A refusal is an RPC      *)
(* error; a transport error leaves the caller not knowing what happened.   *)
Launch ==
  LET m == caller.gen + 1 IN
  /\ caller.pc \in {"idle", "timeout", "refused", "outage", "ended"}
  /\ caller.gen < Launches
  /\ \/ /\ up
        /\ Admit(m)
        /\ caller' = [pc |-> IF Refused(m) THEN "refused" ELSE "poll", msg |-> m, gen |-> m]
     \/ /\ up /\ Admit(m)
        /\ caller' = [pc |-> "outage", msg |-> m, gen |-> m]
     \/ /\ caller' = [pc |-> "outage", msg |-> m, gen |-> m]
        /\ UNCHANGED <<task, pool>>
  /\ UNCHANGED <<improved, worker, starts, charged, consumed, up, faults>>

(* The same message delivered once more.                                   *)
Redeliver(m) ==
  /\ up
  /\ m <= caller.gen
  /\ Admit(m)
  /\ UNCHANGED <<caller, improved, worker, starts, charged, consumed, up, faults>>

(* The caller's loop: a terminal state is collected, else the deadline or  *)
(* a transport error ends the wait.                                        *)
Collect ==
  /\ caller.pc = "poll" /\ up
  /\ task[caller.msg] \in Terminal
  /\ caller' = [caller EXCEPT !.pc =
       IF task[caller.msg] = "completed" /\ improved[caller.msg] THEN "grade" ELSE "ended"]
  /\ UNCHANGED <<agent, task, up, faults>>

GiveUp ==
  /\ caller.pc = "poll"
  /\ caller' = [caller EXCEPT !.pc = IF up THEN "timeout" ELSE "outage"]
  /\ up => task[caller.msg] \in Active
  /\ UNCHANGED <<agent, task, up, faults>>

(* The caller's own checks decide about the candidate.                     *)
Grade(accepted) ==
  /\ caller.pc = "grade"
  /\ caller' = [caller EXCEPT !.pc = IF accepted THEN "committed" ELSE "ended"]
  /\ UNCHANGED <<agent, task, up, faults>>
-----------------------------------------------------------------------------
(* tasks/cancel: only an active task, and without stopping its process.    *)
Cancel(m) ==
  /\ up
  /\ faults.cancels < Cancels
  /\ task[m] \in Active
  /\ task' = [task EXCEPT ![m] = "canceled"]
  /\ faults' = [faults EXCEPT !.cancels = @ + 1]
  /\ UNCHANGED <<caller, agent, up>>

MutSettle(m, state) == task' = [task EXCEPT ![m] = state]

(* UPDATE ... WHERE state != 'canceled'.                                   *)
Settle(m, state) == task' = [task EXCEPT ![m] = IF @ = "canceled" THEN @ ELSE state]

(* run_task: the pool's thread starts the process of the next task.        *)
StartProcess ==
  /\ up
  /\ worker.pc = "idle" /\ pool # <<>>
  /\ worker' = [pc |-> "begin", msg |-> Head(pool)]
  /\ pool' = Tail(pool)
  /\ starts' = [starts EXCEPT ![Head(pool)] = @ + 1]
  /\ UNCHANGED <<caller, task, improved, charged, consumed, up, faults>>

(* work, first part.                                                       *)
Begin ==
  /\ worker.pc = "begin"
  /\ IF task[worker.msg] = "canceled"
     THEN worker' = Idle /\ UNCHANGED task
     ELSE /\ worker' = [worker EXCEPT !.pc = "think"]
          /\ task' = [task EXCEPT ![worker.msg] = IF @ = "submitted" THEN "working" ELSE @]
  /\ UNCHANGED <<caller, improved, pool, starts, charged, consumed, up, faults>>

MutReserve ==
  /\ worker.pc = "think"
  /\ task[worker.msg] # "canceled"
  /\ charged + Estimate <= Limit
  /\ worker' = [worker EXCEPT !.pc = "call"]
  /\ UNCHANGED <<caller, task, improved, pool, starts, charged, consumed, up, faults>>

(* complete: a canceled task raises; else the estimate must fit into the   *)
(* allowance and is charged before the provider is called.                 *)
Reserve ==
  /\ worker.pc = "think"
  /\ task[worker.msg] # "canceled"
  /\ charged + Estimate <= Limit
  /\ charged' = charged + Estimate
  /\ worker' = [worker EXCEPT !.pc = "call"]
  /\ UNCHANGED <<caller, task, improved, pool, starts, consumed, up, faults>>

(* The provider answers and reports what it used, or reports nothing: then *)
(* the reservation is the charge.                                          *)
Reply(used, reported) ==
  /\ worker.pc = "call"
  /\ used <= Estimate
  /\ consumed' = consumed + used
  /\ charged' = IF reported THEN charged + used - Estimate ELSE charged
  /\ worker' = [worker EXCEPT !.pc = "think"]
  /\ UNCHANGED <<caller, task, improved, pool, starts, up, faults>>

(* The call fails: whatever it used, the reservation stays.  Like an       *)
(* exhausted allowance, a cancellation seen by complete and any other      *)
(* exception of the session it ends the work; a retained snapshot that     *)
(* can be packaged still makes the task a completed one.                   *)
ProviderFails(used, state) ==
  /\ worker.pc = "call"
  /\ used <= Estimate
  /\ consumed' = consumed + used
  /\ Settle(worker.msg, state)
  /\ worker' = [worker EXCEPT !.pc = "exit"]
  /\ UNCHANGED <<caller, improved, pool, starts, charged, up, faults>>

Raises(state) ==
  /\ worker.pc = "think"
  /\ state = "input-required" => charged + Estimate > Limit
  /\ Settle(worker.msg, state)
  /\ worker' = [worker EXCEPT !.pc = "exit"]
  /\ UNCHANGED <<caller, improved, pool, starts, charged, consumed, up, faults>>

(* repair_snapshot returns: the session's result, unless canceled.         *)
Returns(better) ==
  /\ worker.pc = "think"
  /\ task[worker.msg] # "canceled"
  /\ Settle(worker.msg, "completed")
  /\ improved' = [improved EXCEPT ![worker.msg] = better]
  /\ worker' = [worker EXCEPT !.pc = "exit"]
  /\ UNCHANGED <<caller, pool, starts, charged, consumed, up, faults>>

ProcessExits ==
  /\ worker.pc = "exit"
  /\ worker' = Idle
  /\ UNCHANGED <<caller, task, improved, pool, starts, charged, consumed, up, faults>>

(* The 900 seconds are over, or the process died: run_task marks the task  *)
(* failed, even one whose result the process has just stored.              *)
ProcessFails ==
  /\ worker.pc # "idle"
  /\ Settle(worker.msg, "failed")
  /\ worker' = Idle
  /\ consumed' = IF worker.pc = "call" THEN consumed + Estimate ELSE consumed
  /\ UNCHANGED <<caller, improved, pool, starts, charged, up, faults>>

(* The service stops with its pool and its worker process.                 *)
Crash ==
  /\ up
  /\ faults.crashes < Crashes
  /\ up' = FALSE
  /\ pool' = <<>>
  /\ worker' = Idle
  /\ consumed' = IF worker.pc = "call" THEN consumed + Estimate ELSE consumed
  /\ faults' = [faults EXCEPT !.crashes = @ + 1]
  /\ UNCHANGED <<caller, task, improved, starts, charged>>

MutLifespan ==
  /\ ~up
  /\ up' = TRUE
  /\ UNCHANGED <<caller, agent, task, faults>>

(* lifespan: "A process crash is not permission to repeat a possibly paid  *)
(* call": what was active has failed.                                      *)
Lifespan ==
  /\ ~up
  /\ up' = TRUE
  /\ task' = [m \in Msgs |-> IF task[m] \in Active THEN "failed" ELSE task[m]]
  /\ UNCHANGED <<caller, agent, faults>>

Next ==
  \/ Launch \/ Collect \/ GiveUp
  \/ \E m \in Msgs : Redeliver(m) \/ Cancel(m)
  \/ \E b \in BOOLEAN : Grade(b) \/ Returns(b)
  \/ StartProcess \/ Begin \/ Reserve
  \/ \E n \in 0 .. Estimate :
       \/ \E b \in BOOLEAN : Reply(n, b)
       \/ \E s \in {"failed", "completed"} : ProviderFails(n, s)
  \/ \E s \in {"failed", "completed", "input-required"} : Raises(s)
  \/ ProcessExits \/ ProcessFails \/ Crash \/ Lifespan

Spec == Init /\ [][Next]_vars

(* The pool runs what it was given, a process is killed after 900 seconds, *)
(* and the service is restarted.                                           *)
FairSpec ==
  Spec /\ WF_vars(StartProcess) /\ WF_vars(ProcessFails) /\ WF_vars(Lifespan)
-----------------------------------------------------------------------------
(* The tables and the worker have their types; the allowance is never      *)
(* overdrawn and the pool holds no task twice.                             *)
TypeOK ==
  /\ task \in [Msgs -> Active \cup Terminal \cup {"none"}]
  /\ improved \in [Msgs -> BOOLEAN] /\ starts \in [Msgs -> Nat]
  /\ worker.pc \in {"idle", "begin", "think", "call", "exit"} /\ worker.msg \in Msgs
  /\ caller.pc \in {"idle", "poll", "timeout", "refused", "outage", "grade", "ended", "committed"}
  /\ charged \in 0 .. Limit /\ consumed \in Nat /\ up \in BOOLEAN
  /\ Len(pool) <= Launches

(* A paid task is never executed twice, whatever is redelivered and        *)
(* whatever crashes.                                                       *)
RunsOnce == \A m \in Msgs : starts[m] <= 1

(* The allowance covers what the provider counted, through failed calls,   *)
(* killed workers and crashes of the service during a call.                *)
SpendCovered == consumed <= charged

(* At most one task is being executed or waits for it: a result column is  *)
(* never written by two live tasks.                                        *)
OneActive == \A m, n \in Msgs : (task[m] \in Active /\ task[n] \in Active) => m = n

(* Redelivered messages, killed workers and a restart neither repeat work  *)
(* nor overspend the allowance nor let two tasks share the agent.          *)
ExternalSound == TypeOK /\ RunsOnce /\ SpendCovered /\ OneActive

(* A cancelled task stays cancelled though its process goes on.            *)
CanceledStays == [][\A m \in Msgs : task[m] = "canceled" => task'[m] = "canceled"]_vars

(* Every admitted task reaches a terminal state, so that the agent takes   *)
(* messages again.                                                         *)
TaskSettles == \A m \in Msgs : (task[m] \in Active) ~> (task[m] \in Terminal)

(* a2a_client.py: "external repair is still running; retry attaches to the *)
(* same task".  A later launch is not turned away by the caller's own task *)
(* it gave up waiting for.                                                 *)
RetryAttaches ==
  [][(caller.pc = "timeout" /\ caller'.pc = "refused") => task[caller.msg] \notin Active]_vars
=============================================================================
