-------------------------- MODULE RedisRunRegistry --------------------------
(***************************************************************************)
(* The process side of src/service/redis_run_registry.py: the asyncio task *)
(* that executes a run (_execute), its lease loop and cancellation watch,  *)
(* and the requests that start, resume and cancel runs, on several service *)
(* instances that share the Redis state of RunStore.                       *)
(*                                                                         *)
(* A step is the code between two awaits on Redis, the script at its end   *)
(* included, so anything may happen between two scripts of one task.  The  *)
(* tasks of a run are numbered by the token the script that granted the    *)
(* execution returned; the token a task presents is that of the handle it  *)
(* loaded afterwards.                                                      *)
(***************************************************************************)
EXTENDS RunStore

CONSTANTS
    HeartbeatEvery,  \* lease_seconds / 3, in clock ticks
    MaxData,         \* bound on the events a producer adds to a stream
    MaxFaults,       \* bound on the Redis calls that raise
    LoopFaults,      \* may the load at the head of the lease loop raise?
    Prompt,          \* do event loops keep up with the clock? (see Tick)
    Horizon          \* the last tick at which a process may stop or a call fail

ASSUME HeartbeatAssumption == HeartbeatEvery \in Nat \ {0}
ASSUME RegistryBounds == MaxData \in Nat /\ MaxFaults \in Nat /\ Horizon \in Nat
ASSUME SwitchAssumption == LoopFaults \in BOOLEAN /\ Prompt \in BOOLEAN

VARIABLES
    task,      \* task[r][g]: the task granted run r with token g
    instance,  \* "up", "closing" (shutdown was called) or "down"
    faults,    \* how many Redis calls raised
    asked      \* the runs whose cancellation a client requested (history)

vars == <<storeVars, task, instance, faults, asked>>

Tokens1 == 1..MaxFence

\* Where a task stands in _execute: its try block, then its except clauses.
TryBlock == {"slot", "produce", "tail", "finish", "seal", "commit"}
Handlers == {"handler", "error", "errorDone", "errorCommit", "released"}
Causes == {"timeout", "cancel", "error"}

Task == [inst : Instances \cup {NoInstance}, fence : Nat,
         pc : TryBlock \cup Handlers \cup {"none", "load", "ended"},
         why : Causes \cup Terminal \cup {"none"},
         emitted : BOOLEAN, erred : BOOLEAN, named : BOOLEAN,
         loop : {"off", "sleep", "beat"}, due : Nat]
NoTask == [inst |-> NoInstance, fence |-> 0, pc |-> "none", why |-> "none",
           emitted |-> FALSE, erred |-> FALSE, named |-> FALSE,
           loop |-> "off", due |-> 0]
Ended == [NoTask EXCEPT !.pc = "ended"]
Alive(t) == t.pc \in TryBlock \cup Handlers

\* The status a task ends its run with, and the event key of its error event.
TargetOf(why) == CASE why = "timeout" -> "timed_out"
                   [] why = "cancel"  -> "cancelled"
                   [] OTHER           -> "failed"
CodeOf(why) == CASE why = "timeout" -> "run_timeout"
                 [] why = "cancel"  -> "run_cancelled"
                 [] OTHER           -> "internal_error"

\* The task has left its producer, whose bookkeeping nobody reads any more.
Left(t) == [t EXCEPT !.erred = FALSE, !.named = FALSE]

\* An exception reaches a task: the try block has a clause for each cause; one
\* raised inside a clause ends the task.
Raise(t, why) == IF t.pc \in TryBlock
                 THEN [Left(t) EXCEPT !.pc = "handler", !.why = why]
                 ELSE Ended

Set(r, g, t) == task' = [task EXCEPT ![r][g] = t]

MayFail == faults < MaxFaults /\ clock <= Horizon
Fail == MayFail /\ faults' = faults + 1

\* The call took effect and the task goes on as t, or the reply never reached
\* it: the connection failed, or the timeout of the producer expired meanwhile.
Reply(r, g, t) ==
    \/ Set(r, g, t) /\ UNCHANGED faults
    \/ Set(r, g, Raise(task[r][g], "error")) /\ Fail
    \/ /\ task[r][g].pc = "produce"
       /\ Set(r, g, Raise(task[r][g], "timeout"))
       /\ UNCHANGED faults

Init ==
    /\ StoreInit
    /\ task = [r \in Runs |-> [g \in Tokens1 |-> NoTask]]
    /\ instance = [i \in Instances |-> "up"]
    /\ faults = 0
    /\ asked = {}

-----------------------------------------------------------------------------
(***************************************************************************)
(* Requests                                                                *)
(***************************************************************************)

\* start: the script grants the execution, to a handle still to be loaded.
Start(r, i) ==
    /\ instance[i] = "up"
    /\ Create(r, i) \/ TakeOver(r, i)
    /\ Set(r, fence[r] + 1, [NoTask EXCEPT !.inst = i, !.pc = "load"])
    /\ UNCHANGED <<instance, faults, asked>>

\* resume: like start, but the handle gets the token the script returned.
ResumeRun(r, i) ==
    /\ instance[i] = "up"
    /\ \E p \in Responses, n \in Interactions : Resume(r, i, p, n)
    /\ Set(r, fence[r] + 1, [NoTask EXCEPT !.inst = i, !.pc = "load", !.fence = fence[r] + 1])
    /\ UNCHANGED <<instance, faults, asked>>

\* record.run_id of a handle: set_run_id does nothing when it is there.
MutNamed(r) == FALSE
Named(r) == runId[r] # 0

\* The end of start and of resume: _load_handle, then create_task.  If the load
\* raises, the run stays granted and nobody executes it.
LoadHandle(r, g) ==
    LET t == task[r][g] IN
    /\ t.pc = "load"
    /\ \/ /\ Set(r, g, [t EXCEPT !.pc = "slot",
                                 !.fence = IF @ = 0 THEN fence[r] ELSE @,
                                 !.emitted = emitted[r],
                                 !.named = Named(r),
                                 !.loop = "sleep",
                                 !.due = clock + HeartbeatEvery])
          /\ UNCHANGED faults
       \/ Set(r, g, Ended) /\ Fail
    /\ UNCHANGED <<storeVars, instance, asked>>

\* _tasks[r] of instance i: the task it created last.
Newest(r, i, g) ==
    /\ task[r][g].inst = i /\ Alive(task[r][g])
    /\ \A h \in Tokens1 : task[r][h].inst = i /\ Alive(task[r][h]) => h <= g

\* cancel: the script, then task.cancel() if the task is local.
CancelRun(r, i) ==
    /\ instance[i] = "up"
    /\ Cancel(r)
    /\ task' = [task EXCEPT ![r] = [g \in Tokens1 |->
                  IF Newest(r, i, g) THEN Raise(@[g], "cancel") ELSE @[g]]]
    /\ asked' = asked \cup {r}
    /\ UNCHANGED <<instance, faults>>

\* The deployment keeps an instance up: a replacement is one with another id.
Another(i) == \E j \in Instances \ {i} : instance[j] = "up"

\* shutdown, once the server has drained its requests.
Shutdown(i) ==
    /\ instance[i] = "up"
    /\ clock <= Horizon
    /\ Another(i)
    /\ \A r \in Runs, g \in Tokens1 : task[r][g].inst = i => task[r][g].pc # "load"
    /\ instance' = [instance EXCEPT ![i] = "closing"]
    /\ task' = [r \in Runs |-> [g \in Tokens1 |->
                  IF Newest(r, i, g) THEN Raise(task[r][g], "cancel") ELSE task[r][g]]]
    /\ UNCHANGED <<storeVars, faults, asked>>

\* The process is gone, after a shutdown or without one.
Crash(i) ==
    /\ instance[i] # "down"
    /\ clock <= Horizon
    /\ Another(i)
    /\ instance' = [instance EXCEPT ![i] = "down"]
    /\ task' = [r \in Runs |-> [g \in Tokens1 |->
                  IF task[r][g].inst = i THEN Ended ELSE task[r][g]]]
    /\ UNCHANGED <<storeVars, faults, asked>>

-----------------------------------------------------------------------------
(***************************************************************************)
(* _execute                                                                *)
(***************************************************************************)

\* _wait_for_running_slot: the loop while the slots are taken changes nothing.
AcquireSlot(r, g) ==
    LET t == task[r][g] IN
    /\ t.pc = "slot"
    /\ \/ /\ AcquireRunning(r, t.inst, t.fence)
          /\ Reply(r, g, [t EXCEPT !.pc = "produce"])
       \/ /\ ~(Owns(r, t.inst, t.fence) /\ status[r] = "queued")
          /\ Set(r, g, Raise(t, IF status[r] \in Terminal THEN "cancel" ELSE "error"))
          /\ UNCHANGED <<storeVars, faults>>
    /\ UNCHANGED <<instance, asked>>

\* What the producer of service.py does to its run while the graph executes.
NameRun(r, g) ==
    LET t == task[r][g] IN
    /\ t.pc = "produce" /\ ~t.named
    /\ SetRunId(r, t.inst, t.fence)
    /\ Reply(r, g, [t EXCEPT !.named = TRUE])
    /\ UNCHANGED <<instance, asked>>

EmitData(r, g) ==
    LET t == task[r][g] IN
    /\ t.pc = "produce" /\ r \in StreamRuns
    /\ Len(events[r]) < MaxData
    /\ AppendEvent(r, t.inst, t.fence, "data", NoKey)
    /\ Reply(r, g, t)
    /\ UNCHANGED <<instance, asked>>

FailStream(r, g) ==
    LET t == task[r][g] IN
    /\ t.pc = "produce" /\ r \in StreamRuns /\ ~t.erred
    /\ MarkStreamFailed(r, t.inst, t.fence)
    /\ Reply(r, g, [t EXCEPT !.erred = TRUE])
    /\ UNCHANGED <<instance, asked>>

\* The generator ends: it yields DONE, or the graph stopped at an interrupt and
\* the producer publishes it.  The tail writes nothing more to the run.
EmitDone(r, g) ==
    LET t == task[r][g] IN
    /\ t.pc = "produce" /\ r \in StreamRuns
    /\ AppendEvent(r, t.inst, t.fence, "done", NoKey)
    /\ Reply(r, g, [Left(t) EXCEPT !.pc = "tail", !.emitted = TRUE])
    /\ UNCHANGED <<instance, asked>>

Interrupt(r, g) ==
    LET t == task[r][g] IN
    /\ t.pc = "produce" /\ r \in StreamRuns /\ ~t.erred
    /\ \E n \in Interactions : PauseForInput(r, t.inst, t.fence, n)
    /\ Reply(r, g, [Left(t) EXCEPT !.pc = "tail"])
    /\ UNCHANGED <<instance, asked>>

Return(r, g) ==
    /\ task[r][g].pc \in {"produce", "tail"}
    /\ Set(r, g, [Left(task[r][g]) EXCEPT !.pc = "finish"])
    /\ UNCHANGED <<storeVars, instance, faults, asked>>

\* The timeout of the producer expires, or it raises: by itself, or because a
\* write was refused to a task that no longer owns the run.
Interrupted(r, g) ==
    /\ \/ /\ task[r][g].pc \in {"produce", "tail"}
          /\ Set(r, g, Raise(task[r][g], "timeout"))
       \/ /\ task[r][g].pc = "produce"
          /\ Set(r, g, Raise(task[r][g], "error"))
    /\ UNCHANGED <<storeVars, instance, faults, asked>>

\* After the producer: the refreshed handle decides.
MutOutcome(r) == IF failed[r] THEN "failed" ELSE status[r]
Outcome(r) == IF failed[r] THEN "failed" ELSE "completed"

Finish(r, g) ==
    LET t == task[r][g]
        stays == Owns(r, t.inst, t.fence) /\ status[r] # "waiting_for_input"
        unsealed == r \in StreamRuns /\ ~emitted[r]
    IN
    /\ t.pc = "finish"
    /\ \/ ~stays /\ Set(r, g, Ended)
       \/ stays /\ unsealed /\ Set(r, g, [t EXCEPT !.pc = "seal"])
       \/ stays /\ ~unsealed /\ Set(r, g, [t EXCEPT !.pc = "commit", !.why = Outcome(r)])
    /\ UNCHANGED <<storeVars, instance, faults, asked>>

\* DONE under its key, then the second refresh.
Seal(r, g) ==
    LET t == task[r][g] IN
    /\ t.pc = "seal"
    /\ \/ /\ AppendEvent(r, t.inst, t.fence, "done", DoneKey(t.fence))
          /\ Reply(r, g, [t EXCEPT !.pc = "commit", !.emitted = TRUE, !.why = Outcome(r)])
       \/ /\ ~CanAppend(r, t.inst, t.fence, "done")
          /\ Set(r, g, Raise(t, "error"))
          /\ UNCHANGED <<storeVars, faults>>
    /\ UNCHANGED <<instance, asked>>

Commit(r, g) ==
    LET t == task[r][g] IN
    /\ t.pc = "commit"
    /\ \/ /\ Transition(r, t.inst, t.fence, t.why)
          /\ Reply(r, g, Ended)
       \/ /\ ~(Owns(r, t.inst, t.fence) /\ status[r] \notin Terminal)
          /\ Set(r, g, IF Owns(r, t.inst, t.fence) /\ status[r] = t.why
                       THEN Ended ELSE Raise(t, "error"))
          /\ UNCHANGED <<storeVars, faults>>
    /\ UNCHANGED <<instance, asked>>

\* The except clauses.  A cancellation during shutdown only gives the lease up;
\* a heartbeat in flight may still follow.
MutClosing(t) == FALSE
Closing(t) == t.why = "cancel" /\ instance[t.inst] = "closing"

Handle(r, g) ==
    LET t == task[r][g] IN
    /\ t.pc = "handler"
    /\ ~Closing(t)
    /\ Set(r, g, IF \/ ~Owns(r, t.inst, t.fence)
                    \/ status[r] = "waiting_for_input"
                    \/ t.why = "cancel" /\ status[r] \in Terminal
                 THEN Ended
                 ELSE [t EXCEPT !.pc = IF r \in StreamRuns THEN "error" ELSE "errorCommit"])
    /\ UNCHANGED <<storeVars, instance, faults, asked>>

MutGiveUp(r, g) ==
    LET t == task[r][g] IN
    /\ t.pc = "handler" /\ Closing(t)
    /\ lease' = [lease EXCEPT ![r] = 0]
    /\ Set(r, g, [t EXCEPT !.pc = "released"])
    /\ UNCHANGED <<clock, status, owner, fence, emitted, failed, runId, interaction,
                   streamVars, answered, indexVars, instance, faults, asked>>

GiveUp(r, g) ==
    LET t == task[r][g] IN
    /\ t.pc = "handler" /\ Closing(t)
    /\ \/ ReleaseLease(r, t.inst, t.fence)
       \/ ~(Owns(r, t.inst, t.fence) /\ status[r] \in Pending) /\ UNCHANGED storeVars
    /\ Set(r, g, [t EXCEPT !.pc = "released"])
    /\ UNCHANGED <<instance, faults, asked>>

Leave(r, g) ==
    /\ task[r][g].pc = "released"
    /\ Set(r, g, Ended)
    /\ UNCHANGED <<storeVars, instance, faults, asked>>

\* _append_terminal_error: the error, then DONE unless this task knows of one.
AppendError(r, g) ==
    LET t == task[r][g]
        next == [t EXCEPT !.pc = IF t.emitted THEN "errorCommit" ELSE "errorDone"]
    IN
    /\ t.pc = "error"
    /\ \/ /\ AppendEvent(r, t.inst, t.fence, "error", ErrorKey(CodeOf(t.why)))
          /\ Reply(r, g, next)
       \/ /\ ~CanAppend(r, t.inst, t.fence, "error")
          /\ Set(r, g, [t EXCEPT !.pc = "errorCommit"])
          /\ UNCHANGED <<storeVars, faults>>
    /\ UNCHANGED <<instance, asked>>

AppendErrorDone(r, g) ==
    LET t == task[r][g]
        next == [t EXCEPT !.pc = "errorCommit", !.emitted = TRUE]
    IN
    /\ t.pc = "errorDone"
    /\ \/ /\ AppendEvent(r, t.inst, t.fence, "done", DoneKey(t.fence))
          /\ Reply(r, g, next)
       \/ /\ ~CanAppend(r, t.inst, t.fence, "done")
          /\ Set(r, g, IF Owns(r, t.inst, t.fence) /\ status[r] = "waiting_for_input"
                       THEN Ended ELSE [t EXCEPT !.pc = "errorCommit"])
          /\ UNCHANGED <<storeVars, faults>>
    /\ UNCHANGED <<instance, asked>>

CommitError(r, g) ==
    LET t == task[r][g] IN
    /\ t.pc = "errorCommit"
    /\ \/ Transition(r, t.inst, t.fence, TargetOf(t.why))
       \/ ~(Owns(r, t.inst, t.fence) /\ status[r] \notin Terminal) /\ UNCHANGED storeVars
    /\ Set(r, g, Ended)
    /\ UNCHANGED <<instance, faults, asked>>

\* A Redis call of the task raises before it takes effect.
RedisError(r, g) ==
    /\ task[r][g].pc \in TryBlock \cup Handlers
    /\ Fail
    /\ Set(r, g, Raise(task[r][g], "error"))
    /\ UNCHANGED <<storeVars, instance, asked>>

-----------------------------------------------------------------------------
(***************************************************************************)
(* The helpers of a task, and time                                         *)
(***************************************************************************)

\* _lease_loop, up to the heartbeat.  The load is outside the loop's try: when
\* it raises, the loop is gone and the task goes on.
LoopLoad(r, g) ==
    LET t == task[r][g] IN
    /\ Alive(t) /\ t.pc # "released" /\ t.loop = "sleep" /\ clock >= t.due
    /\ \/ /\ Set(r, g, [t EXCEPT !.loop =
                    IF status[r] = "waiting_for_input" THEN "off" ELSE "beat",
                                 !.due = IF status[r] = "waiting_for_input" THEN 0 ELSE @])
          /\ UNCHANGED faults
       \/ LoopFaults /\ Set(r, g, [t EXCEPT !.loop = "off", !.due = 0]) /\ Fail
    /\ UNCHANGED <<storeVars, instance, asked>>

\* The heartbeat: refused or failed, it cancels the task.
MutStopOwner(t) == [t EXCEPT !.loop = "off", !.due = 0]
StopOwner(t) == Raise([t EXCEPT !.loop = "off", !.due = 0], "cancel")

LoopBeat(r, g) ==
    LET t == task[r][g] IN
    /\ Alive(t) /\ t.loop = "beat"
    /\ \/ /\ Heartbeat(r, t.inst, t.fence)
          /\ \/ /\ Set(r, g, [t EXCEPT !.loop = "sleep", !.due = clock + HeartbeatEvery])
                /\ UNCHANGED faults
             \/ Set(r, g, StopOwner(t)) /\ Fail
       \/ /\ ~(Owns(r, t.inst, t.fence) /\ status[r] \in Pending)
          /\ Set(r, g, StopOwner(t))
          /\ UNCHANGED <<storeVars, faults>>
       \/ /\ Fail
          /\ Set(r, g, StopOwner(t))
          /\ UNCHANGED storeVars
    /\ UNCHANGED <<instance, asked>>

\* _cancellation_watch
Watch(r, g) ==
    /\ Alive(task[r][g])
    /\ status[r] \in Terminal
    /\ Set(r, g, Raise(task[r][g], "cancel"))
    /\ UNCHANGED <<storeVars, instance, faults, asked>>

\* Time passes.  Under Prompt no event loop lags behind: a handle is loaded, and
\* a heartbeat sent, within the tick in which it is due.
Tick ==
    /\ Advance
    /\ Prompt => \A r \in Runs, g \in Tokens1 :
                    /\ task[r][g].pc # "load"
                    /\ Alive(task[r][g]) /\ task[r][g].loop # "off" => task[r][g].due > clock
    /\ UNCHANGED <<task, instance, faults, asked>>

-----------------------------------------------------------------------------
Execute(r, g) ==
    \/ LoadHandle(r, g) \/ AcquireSlot(r, g) \/ Return(r, g) \/ Interrupted(r, g)
    \/ Finish(r, g) \/ Seal(r, g) \/ Commit(r, g) \/ Handle(r, g) \/ GiveUp(r, g)
    \/ Leave(r, g)
    \/ AppendError(r, g) \/ AppendErrorDone(r, g) \/ CommitError(r, g)

Produce(r, g) ==
    \/ NameRun(r, g) \/ EmitData(r, g) \/ FailStream(r, g) \/ EmitDone(r, g)
    \/ Interrupt(r, g)

Loop(r, g) == LoopLoad(r, g) \/ LoopBeat(r, g)

Next ==
    \/ \E r \in Runs, i \in Instances : Start(r, i) \/ ResumeRun(r, i) \/ CancelRun(r, i)
    \/ \E i \in Instances : Shutdown(i) \/ Crash(i)
    \/ \E r \in Runs, g \in Tokens1 :
          Execute(r, g) \/ Produce(r, g) \/ Loop(r, g) \/ RedisError(r, g) \/ Watch(r, g)
    \/ Tick

Spec == Init /\ [][Next]_vars

\* A task that can go on does (its producer has a timeout), its lease loop is
\* scheduled, time passes, and the control plane's reconciliation keeps calling
\* start for a run that has not ended.
Fairness ==
    /\ \A r \in Runs, g \in Tokens1 : WF_vars(Execute(r, g)) /\ WF_vars(Loop(r, g))
    /\ \A r \in Runs : WF_vars(\E i \in Instances : Start(r, i))
    /\ WF_vars(Tick)

LiveSpec == Spec /\ Fairness

-----------------------------------------------------------------------------
(***************************************************************************)
(* Properties                                                              *)
(***************************************************************************)

\* The task table, the process states and the counters keep their type.
RegistryTypeOK ==
    /\ task \in [Runs -> [Tokens1 -> Task]]
    /\ instance \in [Instances -> {"up", "closing", "down"}]
    /\ faults \in 0..MaxFaults
    /\ asked \subseteq Runs

Producing(r) == {g \in Tokens1 : task[r][g].pc = "produce"}

\* No split brain: a run has at most one task in its producer, across instances,
\* crashes, take-overs and failed heartbeats.  The lease loop promises it: it
\* stops the producer before the lease can be acquired by someone else.
SingleProducer == \A r \in Runs : Cardinality(Producing(r)) <= 1

\* At most MaxConcurrent runs that have not been cancelled are in their producer
\* at a time, in the whole deployment: the index the slots are counted on drops a
\* run only when its producer has stopped, or its lease ran out with the owner.
ProducerLimit ==
    Cardinality({r \in Runs : status[r] \in Pending /\ Producing(r) # {}}) <= MaxConcurrent

\* Two live tasks of one instance never hold the same token, though start loads
\* its handle in a second call, after the script that granted the execution.
TokenUnique ==
    \A r \in Runs : \A g, h \in Tokens1 :
        /\ g # h
        /\ Alive(task[r][g]) /\ Alive(task[r][h])
        /\ task[r][g].inst = task[r][h].inst
        => task[r][g].fence # task[r][h].fence

\* Nobody executes beside somebody else: neither two producers of a run nor two
\* tasks that Redis cannot tell apart.
ExclusiveExecution == SingleProducer /\ TokenUnique

\* As long as Redis answers, a run ends as cancelled only if a client asked for
\* it: redeployments, crashes and take-overs never turn into a cancellation.
CancelledByRequest ==
    \A r \in Runs : status[r] = "cancelled" /\ faults = 0 => r \in asked

\* A streamed run never ends without a DONE of its last executor in the stream,
\* whatever calls failed on the way.
TerminalHasDone ==
    \A r \in StreamRuns : status[r] \in Terminal => HasDone(events[r], fence[r])

\* Once DONE is written the run ends with nothing behind it.
DoneIsLast ==
    \A r \in StreamRuns :
        status[r] \in Terminal => events[r][Len(events[r])].kind = "done"

\* Every run that was accepted ends, or waits for its user, although processes
\* stop and calls fail: somebody takes over what they left behind.  (The clock of
\* the model stops; a lease granted shortly before outlives it.)
Settles ==
    \A r \in Runs :
        status[r] \in Pending ~>
            status[r] \notin Pending \/ (clock = MaxClock /\ lease[r] > clock)

\* What the tasks do to Redis is what RunStore allows: its theorems apply.
ImplementsStore == StoreSpec

=============================================================================
