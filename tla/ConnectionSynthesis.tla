------------------------ MODULE ConnectionSynthesis ------------------------
(***************************************************************************)
(* Block-wise connection synthesis: SchConnectionsStep._propose_batched    *)
(* (orchestration/pipeline.py) over the checkpoint of                      *)
(* orchestration/connection_synthesis.py.                                  *)
(*                                                                         *)
(* Each batch of the plan is answered by a model call with an additive     *)
(* delta that is merged as one transaction or rejected.  Calls are charged *)
(* to the checkpoint and the checkpoint is saved before they are made; a   *)
(* save may fail without notice, the process may stop, and the step may be *)
(* run again with the same or with other inputs.                           *)
(*                                                                         *)
(* What the model answers is free: any batch, any base revision, any       *)
(* disposition of any logical pin.                                         *)
(***************************************************************************)
EXTENDS Integers, Sequences, FiniteSets

CONSTANTS
  Topologies,    \* topology artifacts
  Selections,    \* selection artifacts
  Legacy(_),     \* what the schema-1 fingerprint saw of a topology
  OneGround(_),  \* the topology has one ground domain and no tie
  PlanOf(_, _),  \* plan_connection_batches of the two artifacts
  Logical,       \* logical pins an answer may name
  PartOf(_),     \* the part a logical pin names
  Physical(_),   \* the physical pin it resolves to, or NoPin
  PinsOf(_),     \* the physical pins of a part
  NoPin,
  None,          \* no checkpoint, no report, nothing returned
  Rails,         \* nets of a new aggregate: rails and ground
  NewNets,       \* other nets an answer may create or extend
  ArtifactFirst, \* ctx.artifact_first
  Required,      \* LlmMode.REQUIRED rather than AUTO
  MergeRetries,  \* ctx.connection_batch_merge_retries
  RoundLimit,    \* ctx.connection_max_llm_invocations
  TotalLimit,    \* ctx.connection_max_total_llm_invocations
  Tries,         \* attempts of propose_structured (3 in the code)
  Queries,       \* looks at the project one try may ask for (6 in the code)
  Answers(_, _), \* bound: the deltas a call may return for a batch and revision
  MaxRounds,     \* bound: how often the step runs
  MaxCrashes,    \* bound: how often the process stops
  MaxLost,       \* bound: how many saves fail
  StartVersions  \* schema versions of a checkpoint left by an earlier process

VARIABLES
  inputs,   \* the accepted topology and selection
  cp,       \* state.connection_synthesis_checkpoint
  disk,     \* the checkpoint of the last save
  pc,       \* where the step is
  at,       \* the batch in work, its attempts and the tries of its call
  out,      \* what the last run of the step returned
  paid,     \* calls made for the synthesis in progress
  fault     \* stops and failed saves so far

vars == <<inputs, cp, disk, pc, at, out, paid, fault>>

NoConnect == "no-connect"
Nets == Rails \cup NewNets
Plan == PlanOf(inputs.topo, inputs.sel)
Parts(plan) == UNION {plan[i].owned \cup plan[i].shared : i \in DOMAIN plan}
Pins(plan) == UNION {PinsOf(r) : r \in Parts(plan)}

\* ConnectionDelta: nets to create, a target for some logical pins.
Delta(batch, base, create, target) ==
  [batch |-> batch, base |-> base, create |-> create, target |-> target]

EmptyDelta(batch, base) == Delta(batch, base, {}, [l \in {} |-> None])

Named(d, n) == {l \in DOMAIN d.target : d.target[l] = n}

(* new_connection_checkpoint: no pin is on a net, no batch is tried.       *)
NewCheckpoint(topo, sel) ==
  LET plan == PlanOf(topo, sel) IN
  [schema |-> 2, topo |-> topo, sel |-> sel, plan |-> plan,
   nets |-> Rails, net |-> [p \in {} |-> None], nc |-> {}, rev |-> 0,
   calls |-> 0, round |-> 0,
   status |-> [i \in DOMAIN plan |-> "pending"],
   delta |-> [i \in DOMAIN plan |-> None]]

Completed(c) == {i \in DOMAIN c.plan : c.status[i] = "completed"}

(* The validators of ConnectionSynthesisCheckpoint.                        *)
Consistent(c) ==
  /\ DOMAIN c.status = DOMAIN c.plan
  /\ c.rev = Cardinality(Completed(c))
  /\ c.round <= c.calls
  /\ \A i \in Completed(c) : c.delta[i] # None /\ \A j \in 1..i : j \in Completed(c)
  /\ \A p \in DOMAIN c.net : c.net[p] \in c.nets

Matches(c, in) ==
  Consistent(c) /\ c.schema = 2 /\ c.topo = in.topo /\ c.sel = in.sel

MutResumable(c, in) ==
  IF Matches(c, in) THEN c
  ELSE IF Consistent(c) /\ c.schema = 1 /\ Legacy(c.topo) = Legacy(in.topo) /\ c.sel = in.sel
       THEN [c EXCEPT !.schema = 2, !.topo = in.topo]
       ELSE None
(* prepare_resumable_connection_checkpoint: a schema-1 checkpoint saw only *)
(* part of the topology and is reused when the rest cannot matter.         *)
Resumable(c, in) ==
  IF Matches(c, in) THEN c
  ELSE IF /\ Consistent(c)
          /\ c.schema = 1
          /\ Legacy(c.topo) = Legacy(in.topo) /\ c.sel = in.sel
          /\ OneGround(in.topo)
          /\ PlanOf(in.topo, in.sel) = c.plan
       THEN [c EXCEPT !.schema = 2, !.topo = in.topo]
       ELSE None
-----------------------------------------------------------------------------
(* merge_connection_delta                                                  *)

\* The nets the aggregate and a delta give to a physical pin.
NetsOf(c, d, p) ==
  (IF p \in DOMAIN c.net THEN {c.net[p]} ELSE {})
    \cup {d.target[l] : l \in {m \in DOMAIN d.target :
                               Physical(m) = p /\ d.target[m] # NoConnect}}

Unconnected(c, d) == c.nc \cup {Physical(l) : l \in Named(d, NoConnect)}

Touched(c, d) == DOMAIN c.net \cup {Physical(l) : l \in DOMAIN d.target \ Named(d, NoConnect)}

\* A delta that repeats a merged one changes nothing; its batch must exist.
Repeats(c, d) ==
  d.batch \in Completed(c) /\ c.delta[d.batch] = <<d.create, d.target>>

MutAllowed(c, d) ==
  LET b == c.plan[d.batch] IN
  \A l \in DOMAIN d.target : PartOf(l) \in b.owned \cup b.shared
\* Only owned and shared parts may be connected, only owned ones left open.
Allowed(c, d) ==
  LET b == c.plan[d.batch] IN
  \A l \in DOMAIN d.target :
    IF d.target[l] = NoConnect THEN PartOf(l) \in b.owned
    ELSE PartOf(l) \in b.owned \cup b.shared

MutAdditiveNoPin(c, d) ==
  /\ d.create \cap c.nets = {}
  /\ \A l \in DOMAIN d.target : d.target[l] \in c.nets \cup d.create \cup {NoConnect}
  /\ \A p \in Touched(c, d) : Cardinality(NetsOf(c, d, p)) = 1
  /\ Touched(c, d) \cap Unconnected(c, d) = {}
MutAdditive(c, d) ==
  /\ d.create \cap c.nets = {}
  /\ \A l \in DOMAIN d.target : d.target[l] \in c.nets \cup d.create \cup {NoConnect}
  /\ \A l \in DOMAIN d.target : Physical(l) # NoPin
\* Nothing accepted is created again, moved to another net or left open.
Additive(c, d) ==
  /\ d.create \cap c.nets = {}
  /\ \A l \in DOMAIN d.target : d.target[l] \in c.nets \cup d.create \cup {NoConnect}
  /\ \A l \in DOMAIN d.target : Physical(l) # NoPin
  /\ \A p \in Touched(c, d) : Cardinality(NetsOf(c, d, p)) = 1
  /\ Touched(c, d) \cap Unconnected(c, d) = {}

MutOwnedPins(c, d) == TRUE
\* Every pin the batch owns is connected or explicitly left open.
OwnedPins(c, d) ==
  UNION {PinsOf(r) : r \in c.plan[d.batch].owned} \subseteq Touched(c, d) \cup Unconnected(c, d)

Merges(c, d) ==
  /\ d.batch \in DOMAIN c.plan
  /\ 1..(d.batch - 1) \subseteq Completed(c)
  /\ d.batch \notin Completed(c)
  /\ d.base = c.rev
  /\ Allowed(c, d)
  /\ Additive(c, d)
  /\ OwnedPins(c, d)

Merge(c, d) ==
  [c EXCEPT !.nets = @ \cup d.create,
            !.net  = [p \in Touched(c, d) |-> CHOOSE n \in NetsOf(c, d, p) : TRUE],
            !.nc   = Unconnected(c, d),
            !.rev  = @ + 1,
            !.status[d.batch] = "completed",
            !.delta[d.batch] = <<d.create, d.target>>]

Failed(c, i) == [c EXCEPT !.status[i] = "failed"]
-----------------------------------------------------------------------------
Idle == [batch |-> 0, attempts |-> 0, tries |-> 0, turns |-> 0]

\* Nothing has been returned yet, or what the last run of the step returned.
Returned(kind, c) == [kind |-> kind, cp |-> c]

(* _persist_connection_progress: a failed save is not noticed.             *)
Persist(c, report) ==
  \/ disk' = [cp |-> c, report |-> report] /\ UNCHANGED fault
  \/ /\ fault.lost < MaxLost
     /\ fault' = [fault EXCEPT !.lost = @ + 1]
     /\ UNCHANGED disk

\* Checkpoints an earlier process left: new ones, or the first batch merged.
Left(in, version) ==
  LET new == [NewCheckpoint(in.topo, in.sel) EXCEPT !.schema = version]
  IN {new} \cup {Merge(new, d) : d \in {e \in Answers(1, 0) : Merges(new, e)}}

Inputs == [topo : Topologies, sel : Selections]

Init ==
  /\ inputs \in Inputs
  /\ cp = None
  /\ disk \in [cp : {None} \cup UNION {Left(in, v) : in \in Inputs, v \in StartVersions},
               report : {None}]
  /\ pc = "stopped"
  /\ at = Idle
  /\ out = Returned(None, None)
  /\ paid = 0
  /\ fault = [stops |-> 0, lost |-> 0, rounds |-> 0]

(* restore_pipeline_state: work that may continue is taken from the file.  *)
Restore(in) ==
  /\ pc = "stopped"
  /\ inputs' = in
  /\ cp' = IF disk.cp = None \/ disk.report = "final" THEN None
           ELSE Resumable(disk.cp, in)
  /\ pc' = "ready"
  /\ UNCHANGED <<disk, at, out, paid, fault>>

\* An upstream step is run again, its artifact replaced and the state saved.
Replan(in) ==
  /\ pc = "ready" /\ in # inputs
  /\ inputs' = in
  /\ disk' = [disk EXCEPT !.cp = cp]
  /\ UNCHANGED <<cp, pc, at, out, paid, fault>>

MutStart ==
  LET kept == None
      c == [(IF kept = None THEN NewCheckpoint(inputs.topo, inputs.sel) ELSE kept)
              EXCEPT !.round = 0]
  IN /\ pc = "ready" /\ fault.rounds < MaxRounds
     /\ cp' = c
     /\ paid' = IF kept = None THEN 0 ELSE paid
     /\ pc' = "batch"
     /\ at' = [Idle EXCEPT !.batch = 1]
     /\ out' = Returned(None, None)
     /\ \/ disk' = [cp |-> c, report |-> disk.report] /\ fault' = [fault EXCEPT !.rounds = @ + 1]
        \/ /\ fault.lost < MaxLost
           /\ fault' = [fault EXCEPT !.rounds = @ + 1, !.lost = @ + 1]
           /\ UNCHANGED disk
     /\ UNCHANGED inputs
(* The step starts: it resumes the checkpoint or plans anew, and opens a   *)
(* new round.                                                              *)
Start ==
  LET kept == IF cp = None THEN None ELSE Resumable(cp, inputs)
      c == [(IF kept = None THEN NewCheckpoint(inputs.topo, inputs.sel) ELSE kept)
              EXCEPT !.round = 0]
  IN /\ pc = "ready" /\ fault.rounds < MaxRounds
     /\ cp' = c
     /\ paid' = IF kept = None THEN 0 ELSE paid
     /\ pc' = "batch"
     /\ at' = [Idle EXCEPT !.batch = 1]
     /\ out' = Returned(None, None)
     /\ \/ disk' = [cp |-> c, report |-> disk.report] /\ fault' = [fault EXCEPT !.rounds = @ + 1]
        \/ /\ fault.lost < MaxLost
           /\ fault' = [fault EXCEPT !.rounds = @ + 1, !.lost = @ + 1]
           /\ UNCHANGED disk
     /\ UNCHANGED inputs

Exhausted(c) == c.calls >= TotalLimit \/ c.round >= RoundLimit

MutReport(c) == "open"
\* Whether another round could still pay for a call.
Report(c) == IF c.calls < TotalLimit THEN "open" ELSE "final"

(* best_effort_partial in artifact-first mode; otherwise the error leaves  *)
(* the step.                                                               *)
GiveUp(c) ==
  /\ cp' = c
  /\ pc' = "ready"
  /\ at' = Idle
  /\ IF ArtifactFirst
     THEN Persist(c, Report(c)) /\ out' = Returned("partial", c)
     ELSE UNCHANGED <<disk, fault>> /\ out' = Returned("raised", c)
  /\ UNCHANGED <<inputs, paid>>

\* A batch that is already merged is not asked for again.
SkipCompleted ==
  /\ pc = "batch" /\ at.batch \in Completed(cp)
  /\ at' = [Idle EXCEPT !.batch = at.batch + 1]
  /\ UNCHANGED <<inputs, cp, disk, pc, out, paid, fault>>

InWork == pc = "batch" /\ at.batch \in DOMAIN cp.plan \ Completed(cp)

NoBudget == InWork /\ Exhausted(cp) /\ GiveUp(cp)

Ask ==
  /\ InWork /\ ~Exhausted(cp)
  /\ at' = [at EXCEPT !.attempts = @ + 1, !.tries = 1, !.turns = 0]
  /\ pc' = "call"
  /\ UNCHANGED <<inputs, cp, disk, out, paid, fault>>

Charged(c) == [c EXCEPT !.calls = @ + 1, !.round = @ + 1]

MutCall ==
  /\ pc = "call" /\ ~Exhausted(cp)
  /\ cp' = Charged(cp)
  /\ Persist(cp, disk.report)
  /\ paid' = paid + 1
  /\ pc' = "answer"
  /\ UNCHANGED <<inputs, at, out>>
(* before_connection_attempt: the charge is saved, then the call is made.  *)
Call ==
  /\ pc = "call" /\ ~Exhausted(cp)
  /\ cp' = Charged(cp)
  /\ Persist(Charged(cp), disk.report)
  /\ paid' = paid + 1
  /\ pc' = "answer"
  /\ UNCHANGED <<inputs, at, out>>

\* The proposal could not be had: an error where a model is required.
NoProposal(c) == GiveUp(IF ArtifactFirst THEN Failed(c, at.batch) ELSE c)

\* The delta is merged, repeats a merged one, or is rejected as a whole.
Receive(d) ==
  \/ /\ Merges(cp, d)
     /\ cp' = Merge(cp, d)
     /\ Persist(Merge(cp, d), disk.report)
     /\ at' = [Idle EXCEPT !.batch = at.batch + 1]
     /\ pc' = "batch"
     /\ UNCHANGED <<inputs, out, paid>>
  \/ /\ d.batch \in DOMAIN cp.plan /\ Repeats(cp, d)
     /\ Persist(cp, disk.report)
     /\ at' = [Idle EXCEPT !.batch = at.batch + 1]
     /\ pc' = "batch"
     /\ UNCHANGED <<inputs, cp, out, paid>>
  \/ /\ ~Merges(cp, d)
     /\ ~(d.batch \in DOMAIN cp.plan /\ Repeats(cp, d))
     /\ IF at.attempts > MergeRetries THEN GiveUp(Failed(cp, at.batch))
        ELSE /\ cp' = Failed(cp, at.batch)
             /\ Persist(Failed(cp, at.batch), disk.report)
             /\ pc' = "batch"
             /\ UNCHANGED <<inputs, at, out, paid>>

MutTryFailed ==
  IF at.tries < Tries
  THEN /\ at' = [at EXCEPT !.turns = 0]
       /\ pc' = "call"
       /\ UNCHANGED <<inputs, cp, disk, out, paid, fault>>
  ELSE IF Required THEN NoProposal(cp)
       ELSE Receive(EmptyDelta(at.batch, cp.rev))
\* One try of propose_structured failed: the next, or what follows the last.
TryFailed ==
  IF at.tries < Tries
  THEN /\ at' = [at EXCEPT !.tries = @ + 1, !.turns = 0]
       /\ pc' = "call"
       /\ UNCHANGED <<inputs, cp, disk, out, paid, fault>>
  ELSE IF Required THEN NoProposal(cp)
       ELSE Receive(EmptyDelta(at.batch, cp.rev))

\* The budget ran out between two calls of one attempt.
CallRefused == pc = "call" /\ Exhausted(cp) /\ TryFailed

Answered(d) == pc = "answer" /\ Receive(d)

\* The request failed or its output did not validate.
AnswerLost == pc = "answer" /\ TryFailed

\* The model asks to look at the project first; each look is another call.
Observe ==
  /\ pc = "answer" /\ at.turns < Queries
  /\ at' = [at EXCEPT !.turns = @ + 1]
  /\ pc' = "call"
  /\ UNCHANGED <<inputs, cp, disk, out, paid, fault>>

\* The engineering deadline passed: no further try.
Deadline == pc = "call" /\ NoProposal(cp)

MutPending(c) == FALSE
Pending(c) == Completed(c) # DOMAIN c.plan

Finish ==
  /\ pc = "batch" /\ at.batch > Len(cp.plan)
  /\ \/ Pending(cp) /\ GiveUp(cp)
     \/ /\ ~Pending(cp)
        /\ out' = Returned("complete", cp)
        /\ cp' = None
        /\ Persist(None, "final")
        /\ pc' = "ready"
        /\ at' = Idle
        /\ UNCHANGED <<inputs, paid>>

\* The worker process stops.
Crash ==
  /\ pc # "stopped" /\ fault.stops < MaxCrashes
  /\ fault' = [fault EXCEPT !.stops = @ + 1]
  /\ cp' = None
  /\ pc' = "stopped"
  /\ at' = Idle
  /\ out' = Returned(None, None)
  /\ UNCHANGED <<inputs, disk, paid>>

\* What a running step does by itself; a call is answered or lost.
Advance ==
  \/ SkipCompleted \/ NoBudget \/ Ask \/ Call \/ CallRefused
  \/ AnswerLost \/ Observe \/ Finish

Next ==
  \/ Start
  \/ Advance
  \/ Deadline
  \/ cp # None /\ \E d \in Answers(at.batch, cp.rev) : Answered(d)
  \/ \E in \in Inputs : Restore(in) \/ Replan(in)
  \/ Crash

Spec == Init /\ [][Next]_vars

(* A running step goes on: it computes, or waits for a call whose client   *)
(* has a time limit, after which the answer is lost.                       *)
FairSpec == Spec /\ WF_vars(Advance)
-----------------------------------------------------------------------------
Checkpoint(c) ==
  /\ c.topo \in Topologies /\ c.sel \in Selections
  /\ c.nets \subseteq Nets
  /\ DOMAIN c.net \subseteq Pins(c.plan) /\ c.nc \subseteq Pins(c.plan)
  /\ \A i \in DOMAIN c.plan : c.status[i] \in {"pending", "failed", "completed"}

TypeOK ==
  /\ inputs \in Inputs
  /\ pc \in {"stopped", "ready", "batch", "call", "answer"}
  /\ cp # None => Checkpoint(cp)
  /\ disk.cp # None => Checkpoint(disk.cp)
  /\ disk.report \in {None, "open", "final"}
  /\ out.kind \in {None, "partial", "raised", "complete"}
  /\ at.attempts \in 0..(MergeRetries + 1) /\ at.tries \in 0..Tries /\ at.turns \in 0..Queries

\* The step is executing.
Running == pc \in {"batch", "call", "answer"}

(* Whatever the model answers and wherever the process stopped, the        *)
(* checkpoint in work and the saved one satisfy the contract's validators  *)
(* (merged batches are a prefix, the revision counts them) and no pin is   *)
(* both on a net and left open: a reload never discards work as            *)
(* inconsistent.                                                           *)
CheckpointsValid ==
  \A c \in {cp, disk.cp} \ {None} : Consistent(c) /\ DOMAIN c.net \cap c.nc = {}

(* A finished synthesis connects or leaves open every physical pin of      *)
(* every part, each exactly once, although batches may be answered out of  *)
(* turn, repeated, rejected and resumed after a stop.                      *)
CompleteDisposes ==
  out.kind = "complete" =>
    /\ DOMAIN out.cp.net \cup out.cp.nc = Pins(out.cp.plan)
    /\ DOMAIN out.cp.net \cap out.cp.nc = {}

(* Calls are charged before they are made and the charge survives a stop:  *)
(* one synthesis never makes more calls than its total limit, over all its *)
(* rounds and restarts, unless a save was lost.                            *)
PaidWithinLimit == paid <= TotalLimit \/ fault.lost > 0

(* The work in progress belongs to the inputs of the step: a checkpoint    *)
(* of another topology or selection, or one whose batches would be dealt   *)
(* out differently today, is never continued.                              *)
WorkFitsInputs ==
  Running => cp.topo = inputs.topo /\ cp.sel = inputs.sel /\ cp.plan = Plan

Extends(c, old) ==
  /\ \A p \in DOMAIN old.net : p \in DOMAIN c.net /\ c.net[p] = old.net[p]
  /\ old.nc \subseteq c.nc
  /\ Completed(old) \subseteq Completed(c)

(* Accepted connectivity is never lost or moved while it can be continued: *)
(* each save of a checkpoint for the same inputs extends the one before,   *)
(* across rejected answers, rounds and restarts (unless a save was lost).  *)
KeepAccepted ==
  (/\ disk' # disk /\ fault'.lost = 0
   /\ disk.cp # None /\ disk.report # "final"
   /\ Matches(disk.cp, inputs) /\ inputs' = inputs)
  => Extends(IF disk'.cp = None THEN out'.cp ELSE disk'.cp, disk.cp)
KeepsAccepted == [][KeepAccepted]_vars

(* Every run of the step returns: retries, tries and looks at the project  *)
(* are bounded, whatever the model answers.                                *)
StepReturns == Running ~> ~Running
=============================================================================
