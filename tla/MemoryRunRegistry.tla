------------------------- MODULE MemoryRunRegistry -------------------------
(***************************************************************************)
(* service/run_registry.py: the registry of agent runs that lives in one   *)
(* process.  asyncio runs one callback at a time, and no lock here is held *)
(* across a suspension, so an action is what happens between two           *)
(* suspensions of a task.  A run has one task per generation: resume       *)
(* starts another task while the one that paused may still be on its way   *)
(* out (outcome memory, the advisory unlock of serialize_thread_run).      *)
(***************************************************************************)
EXTENDS Naturals, Sequences, FiniteSets, SequencesExt

CONSTANTS
  Runs, StreamRuns,       \* requests; those of kind "stream"
  Answers,                \* response_request_ids: bound on the resumptions of a run
  MaxConcurrent, MaxQueued,
  Buffer,                 \* event_buffer_size
  MaxData                 \* bound on the events a generation writes

VARIABLES
  rec,     \* rec[r]: the RunRecord
  task,    \* task[r]: the asyncio tasks of r's generations
  sub,     \* sub[r]: the one subscription to r
  late     \* runs that an earlier generation, failing late, ended

vars == <<rec, task, sub, late>>

Terminal == {"completed", "failed", "cancelled", "timed_out"}
NoSub == [pc |-> "off", cursor |-> 0, batch |-> 0, ends |-> FALSE, got |-> <<>>]

\* A fresh RunRecord; "absent" stands for no record at all.  log holds
\* every event ever appended, the deque its last Buffer ones; by is the generation
\* that ended the run.
Record(status) ==
  [status |-> status, gen |-> 1, log |-> <<>>, emitted |-> FALSE, broken |-> FALSE,
   done |-> FALSE, answered |-> {}, by |-> 0]

Init ==
  /\ rec = [r \in Runs |-> Record("absent")]
  /\ task = [r \in Runs |-> <<>>]
  /\ sub = [r \in Runs |-> NoSub]
  /\ late = {}

Task(pc) == [pc |-> pc, cut |-> FALSE, data |-> 0]
Live(t) == t.pc # "over"
Newest(r) == Len(rec[r].log)
Oldest(r) == IF Newest(r) > Buffer THEN Newest(r) - Buffer + 1 ELSE 1

\* Runs that occupy a place: neither ended nor waiting for their user.
Pending == {r \in Runs : rec[r].status \in {"queued", "running"}}

Start(r) ==
  /\ rec[r].status = "absent"
  /\ Cardinality(Pending) < MaxConcurrent + MaxQueued
  /\ rec' = [rec EXCEPT ![r] = Record("queued")]
  /\ task' = [task EXCEPT ![r] = <<Task("new")>>]
  /\ sub' = [sub EXCEPT ![r] = NoSub]
  /\ UNCHANGED late

To(r, g, pc) == task' = [task EXCEPT ![r][g].pc = pc]

\* append_event; the deque forgets the oldest events.
Append1(rc, kind) ==
  [rc EXCEPT !.log = Append(@, kind), !.emitted = @ \/ kind = "done"]

\* _emit_terminal_stream_error: the error, and a DONE unless there is one.
WithError(r, rc) ==
  IF r \notin StreamRuns THEN rc
  ELSE LET e == Append1(rc, "error") IN IF e.emitted THEN e ELSE Append1(e, "done")

\* A task sets a terminal status; finally sets done.
Finish(r, g, rc) ==
  /\ rec' = [rec EXCEPT ![r] = [rc EXCEPT !.done = TRUE, !.by = g]]
  /\ To(r, g, "over")
  /\ UNCHANGED sub

Leave(r, g) == To(r, g, "over") /\ UNCHANGED <<rec, sub, late>>

\* The coroutine's first step.  A task cancelled before it never enters the try
\* of _execute: nobody sets a status.
Enter(r, g) ==
  /\ task[r][g].pc = "new"
  /\ To(r, g, IF task[r][g].cut THEN "over" ELSE "sem")
  /\ UNCHANGED <<rec, sub, late>>

Inside == UNION {{<<r, g>> : g \in {h \in DOMAIN task[r] : task[r][h].pc \in {"run", "paused"}}}
                   : r \in Runs}

\* The semaphore is granted; a stale generation and a run that has ended leave.
Acquire(r, g) ==
  /\ task[r][g].pc = "sem" /\ ~task[r][g].cut
  /\ Cardinality(Inside) < MaxConcurrent
  /\ IF rec[r].gen # g \/ rec[r].status # "queued"
     THEN Leave(r, g)
     ELSE /\ rec' = [rec EXCEPT ![r].status = "running"]
          /\ To(r, g, "run")
          /\ UNCHANGED <<sub, late>>

\* The producer writes: tokens, an event that is too large, its own DONE last.
Produce(r, g) ==
  /\ r \in StreamRuns /\ task[r][g].pc = "run" /\ ~task[r][g].cut /\ ~rec[r].emitted
  /\ task[r][g].data < MaxData
  /\ task' = [task EXCEPT ![r][g].data = @ + 1]
  /\ \E kind \in {"data", "done", "oversize"} :
       rec' = [rec EXCEPT ![r] =
                 [Append1(rec[r], IF kind = "oversize" THEN "error" ELSE kind)
                    EXCEPT !.broken = @ \/ kind = "oversize"]]
  /\ UNCHANGED <<sub, late>>

\* pause_for_input: the question is an event; the task has yet to return.
Pause(r, g) ==
  /\ task[r][g].pc = "run" /\ ~task[r][g].cut
  /\ rec[r].status = "running" /\ ~rec[r].emitted
  /\ rec' = [rec EXCEPT ![r] = [Append1(rec[r], "question") EXCEPT !.status = "waiting", !.done = FALSE]]
  /\ To(r, g, "paused")
  /\ UNCHANGED <<sub, late>>

MutReturns(r, g) ==
  /\ task[r][g].pc \in {"run", "paused"} /\ ~task[r][g].cut
  /\ IF rec[r].status = "waiting"
     THEN Leave(r, g)
     ELSE LET rc == IF r \in StreamRuns /\ ~rec[r].emitted THEN Append1(rec[r], "done") ELSE rec[r]
          IN /\ Finish(r, g, [rc EXCEPT !.status = IF rc.broken THEN "failed" ELSE "completed"])
             /\ UNCHANGED late

\* The producer returns.
Returns(r, g) ==
  /\ task[r][g].pc \in {"run", "paused"} /\ ~task[r][g].cut
  /\ IF rec[r].gen # g \/ rec[r].status = "waiting"
     THEN Leave(r, g)
     ELSE LET rc == IF r \in StreamRuns /\ ~rec[r].emitted THEN Append1(rec[r], "done") ELSE rec[r]
          IN /\ Finish(r, g, [rc EXCEPT !.status = IF rc.broken THEN "failed" ELSE "completed"])
             /\ UNCHANGED late

\* The producer raises or its time is over; the except clauses look at the
\* status and not at the generation.
Raises(r, g) ==
  /\ task[r][g].pc \in {"run", "paused"} /\ ~task[r][g].cut
  /\ IF rec[r].status = "waiting"
     THEN Leave(r, g)
     ELSE \E s \in {"timed_out", "failed"} :
            /\ Finish(r, g, WithError(r, [rec[r] EXCEPT !.status = s]))
            /\ late' = IF rec[r].gen # g THEN late \cup {r} ELSE late

\* CancelledError reaches a task in the semaphore, its producer or its way out.
Interrupted(r, g) ==
  /\ task[r][g].pc \in {"sem", "run", "paused"} /\ task[r][g].cut
  /\ Finish(r, g, WithError(r, [rec[r] EXCEPT !.status = "cancelled"]))
  /\ UNCHANGED late

Execute(r, g) ==
  \/ Enter(r, g) \/ Acquire(r, g) \/ Produce(r, g) \/ Pause(r, g)
  \/ Returns(r, g) \/ Raises(r, g) \/ Interrupted(r, g)

\* resume: the answer is bound, the next generation starts; no place is asked for.
Resume(r, a) ==
  /\ rec[r].status = "waiting" /\ a \notin rec[r].answered
  /\ rec' = [rec EXCEPT ![r] = [rec[r] EXCEPT !.status = "queued", !.gen = @ + 1, !.done = FALSE,
                                             !.answered = @ \cup {a}]]
  /\ task' = [task EXCEPT ![r] = Append(@, Task("new"))]
  /\ UNCHANGED <<sub, late>>

\* cancel: the newest task is interrupted; a waiting run without one is ended here.
Cancel(r) ==
  /\ rec[r].status \notin Terminal \cup {"absent"}
  /\ LET g == rec[r].gen IN
     IF Live(task[r][g])
     THEN /\ ~task[r][g].cut
          /\ task' = [task EXCEPT ![r][g].cut = TRUE]
          /\ UNCHANGED <<rec, sub, late>>
     ELSE /\ rec[r].status = "waiting"
          /\ rec' = [rec EXCEPT ![r] = [WithError(r, [rec[r] EXCEPT !.status = "cancelled"])
                                          EXCEPT !.done = TRUE, !.by = g]]
          /\ UNCHANGED <<task, sub, late>>

\* shutdown interrupts the newest task of every run.
Shutdown ==
  /\ \E r \in Runs : \E g \in DOMAIN task[r] : g = rec[r].gen /\ Live(task[r][g]) /\ ~task[r][g].cut
  /\ task' = [r \in Runs |-> [g \in DOMAIN task[r] |->
                [task[r][g] EXCEPT !.cut = @ \/ (g = rec[r].gen /\ task[r][g].pc # "over")]]]
  /\ UNCHANGED <<rec, sub, late>>

\* _cleanup_locked: a run that ended long ago is forgotten with its events.
Cleanup(r) ==
  /\ rec[r].done /\ rec[r].status \in Terminal
  /\ \A g \in DOMAIN task[r] : ~Live(task[r][g])
  /\ sub[r].pc \in {"off", "closed", "gap"}
  /\ rec' = [rec EXCEPT ![r] = Record("absent")]
  /\ task' = [task EXCEPT ![r] = <<>>]
  /\ sub' = [sub EXCEPT ![r] = NoSub]
  /\ late' = late \ {r}

-----------------------------------------------------------------------------
\* subscribe: a position ahead of the run or no longer buffered is a replay_gap.
Subscribe(r, from) ==
  /\ r \in StreamRuns /\ rec[r].status # "absent" /\ sub[r].pc = "off"
  /\ sub' = [sub EXCEPT ![r] =
               [NoSub EXCEPT !.cursor = from, !.batch = from,
                  !.pc = IF from > Newest(r) \/ (Newest(r) > 0 /\ from < Oldest(r) - 1)
                         THEN "gap" ELSE "poll"]]
  /\ UNCHANGED <<rec, task, late>>

\* One look under the condition: the batch, and whether the run stands still.
Poll(r) ==
  /\ sub[r].pc = "poll"
  /\ LET still == rec[r].status \in Terminal \cup {"waiting"} IN
     /\ sub[r].cursor < Newest(r) \/ still
     /\ sub' = [sub EXCEPT ![r].pc = "deliver", ![r].batch = Newest(r), ![r].ends = still,
                           ![r].cursor = IF @ < Oldest(r) - 1 THEN Oldest(r) - 1 ELSE @]
  /\ UNCHANGED <<rec, task, late>>

\* One event is yielded; the client may be slow.  After the batch the subscription
\* ends only if the run stood still then and nothing was appended since.
Deliver(r) ==
  /\ sub[r].pc = "deliver"
  /\ sub' = [sub EXCEPT ![r] =
       IF sub[r].cursor < sub[r].batch
       THEN [sub[r] EXCEPT !.cursor = @ + 1, !.got = Append(@, sub[r].cursor + 1)]
       ELSE [sub[r] EXCEPT !.pc = IF sub[r].ends /\ sub[r].cursor >= Newest(r) THEN "closed" ELSE "poll"]]
  /\ UNCHANGED <<rec, task, late>>

Next ==
  \E r \in Runs :
    \/ Start(r) \/ Cancel(r) \/ Cleanup(r) \/ Poll(r) \/ Deliver(r)
    \/ \E g \in DOMAIN task[r] : Execute(r, g)
    \/ \E a \in Answers : Resume(r, a)
    \/ \E from \in 0 .. 1 : Subscribe(r, from)
    \/ Shutdown

Spec == Init /\ [][Next]_vars

-----------------------------------------------------------------------------
TypeOK ==
  /\ \A r \in Runs : /\ rec[r].status \in Terminal \cup {"absent", "queued", "running", "waiting"}
                     /\ rec[r].status # "absent" => Len(task[r]) = rec[r].gen
                     /\ rec[r].gen = 1 + Cardinality(rec[r].answered)
                     /\ sub[r].pc \in {"off", "gap", "poll", "deliver", "closed"}
  /\ late \subseteq Runs

(* wait_terminal waits for done: it is set exactly when the run has ended,  *)
(* by its current generation or a cancellation and never by one that paused *)
(* and is still on its way out, and a streamed run that ended has its DONE.                 *)
EndIsAnnounced ==
  \A r \in Runs \ late :
    /\ rec[r].done <=> rec[r].status \in Terminal
    /\ rec[r].done /\ rec[r].status # "cancelled" => rec[r].by = rec[r].gen
    /\ rec[r].done /\ r \in StreamRuns => "done" \in Range(rec[r].log)

(* At most one task of a run is at work for the current generation and, as  *)
(* long as no earlier one interfered, it is the run's own.                  *)
OneAtWork ==
  \A r \in Runs \ late :
    /\ rec[r].status = "running" => task[r][rec[r].gen].pc = "run"
    /\ \A g \in DOMAIN task[r] : task[r][g].pc = "run" => g = rec[r].gen

(* A run without live tasks has ended, waits for its user, or was cancelled *)
(* before its task's first step.                                            *)
Accounted ==
  \A r \in Runs \ late :
    rec[r].status \in {"queued", "running"} =>
      \/ \E g \in DOMAIN task[r] : Live(task[r][g])
      \/ rec[r].status = "queued" /\ task[r][rec[r].gen].cut

(* Events are delivered in order; a subscription ends only where the run    *)
(* ended or paused, with its last event delivered.                          *)
Delivered ==
  \A r \in StreamRuns :
    /\ \A i, j \in DOMAIN sub[r].got : i < j => sub[r].got[i] < sub[r].got[j]
    /\ sub[r].pc = "closed" /\ sub[r].got # <<>> =>
         /\ sub[r].cursor = Last(sub[r].got)
         /\ rec[r].log[sub[r].cursor] \in {"done", "error", "question"}

MemorySound == TypeOK /\ EndIsAnnounced /\ OneAtWork /\ Accounted /\ Delivered
=============================================================================
