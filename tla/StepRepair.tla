----------------------------- MODULE StepRepair -----------------------------
(***************************************************************************)
(* One pipeline step with its local repair loop (PipelineStepBase.run,     *)
(* orchestration/pipeline.py): propose an artifact, run its gate, and      *)
(* while the gate fails ask for repairs within the run's budgets, keeping  *)
(* the best artifact and the project files that belong to it.              *)
(*                                                                         *)
(* Steps run one after the other and may be run again, a repair may raise, *)
(* and the process may stop; only what was saved survives.  What a repair  *)
(* produces is free: its score, the origin of its failures and which       *)
(* failure they are.                                                       *)
(***************************************************************************)
EXTENDS Integers, Sequences, FiniteSets

CONSTANTS
  Steps,          \* the steps
  Saves,          \* steps whose artifact is saved before each repair
  Custom,         \* steps with a repair of their own
  Deterministic,  \* of these, the ones that repeat the same patch
  Allowed,        \* steps with allow_artifact_first_design_repair
  MaxScore,       \* bound: weight of the failed error checks of one gate
  Origins,        \* origins of a failure: "design", "harness", "external"
  Failures,       \* failure identities
  ArtifactFirst, DraftFirst, RepairRelease, AheEnabled,
  RepairAttempts,   \* ctx.repair_attempts
  DesignAttempts,   \* ctx.design_repair_attempts
  MaxTotal,         \* ctx.max_total_repair_attempts
  MaxSame,          \* ctx.max_same_failure_retries
  MaxDesignStep,    \* ctx.max_design_repair_attempts_per_step
  MaxDesignTotal,   \* ctx.max_total_design_repair_attempts
  HardLimit,        \* attempts of one loop (12 in the code)
  Learned,          \* what strategy_score may say: "none", "high", "low"
  MaxRuns,          \* bound: how often a step is run
  MaxCrashes,       \* bound: how often the process stops
  MaxStarted        \* bound: how far started repairs are counted

VARIABLES
  step,     \* the step in work
  pc,       \* where it is
  best,     \* best artifact so far
  first,    \* the score of the proposal
  loop,     \* attempt, stagnation, the budgets and the kind of the records
  files,    \* the artifact the project files belong to
  snaps,    \* file snapshots that exist
  history,  \* state.repair_history: how many records of each kind
  saved,    \* the history of the last save, and a candidate it holds
  started,  \* repairs that were started, by kind
  count     \* runs and stops so far

vars == <<step, pc, best, first, loop, files, snaps, history, saved, started, count>>

Kinds == {"design", "harness"}
Record == [kind : Kinds, step : Steps, failure : Failures]
NoRecords == [r \in Record |-> 0]

Artifact == [id : 0..1, score : 0..MaxScore, origin : Origins, failure : Failures]
Idle == [attempt |-> 0, stagnant |-> 0, budget |-> 0, limit |-> 0, kind |-> "harness"]

CountRecords(hist, P(_)) == LET S == {r \in Record : P(r)} IN
  IF S = {} THEN 0
  ELSE LET sum[T \in SUBSET S] ==
             IF T = {} THEN 0
             ELSE LET r == CHOOSE x \in T : TRUE IN hist[r] + sum[T \ {r}]
       IN sum[S]

DesignRecords(hist) == CountRecords(hist, LAMBDA r : r.kind = "design")
StepRecords(hist, s) == CountRecords(hist, LAMBDA r : r.kind = "design" /\ r.step = s)
HarnessRecords(hist) == CountRecords(hist, LAMBDA r : r.kind = "harness")
SameFailure(hist, f) == CountRecords(hist, LAMBDA r : r.kind = "harness" /\ r.failure = f)
-----------------------------------------------------------------------------
Blocked(a) == a.score > 0
ProvenHarness(a) == Blocked(a) /\ a.origin = "harness"

HarnessScope(a) == ~ArtifactFirst \/ ProvenHarness(a)
DesignScope(s, a) ==
  ArtifactFirst /\ ~ProvenHarness(a)
    /\ (RepairRelease \/ (s \in Allowed /\ DesignAttempts > 0))

\* needs_prerequisite_repair: the draft cannot be drawn without this step.
Prerequisite(s, a) == DraftFirst /\ Blocked(a) /\ a.origin = "design"

CanRepair(s, a, llm, tool) ==
  /\ Blocked(a)
  /\ DraftFirst => Prerequisite(s, a)
  /\ a.origin # "external"
  /\ ~tool
  /\ HarnessScope(a) \/ DesignScope(s, a)
  /\ AheEnabled \/ DesignScope(s, a)
  /\ s \in Custom \/ llm
  /\ (IF DesignScope(s, a) THEN DesignAttempts ELSE RepairAttempts) > 0

Least(x, y) == IF x <= y THEN x ELSE y
Most(x, y) == IF x >= y THEN x ELSE y

MutRemaining(hist, s, a) ==
  IF DesignScope(s, a)
  THEN Most(0, MaxDesignStep - StepRecords(hist, s))
  ELSE Most(0, Least(MaxTotal - HarnessRecords(hist), MaxSame - SameFailure(hist, a.failure)))
MutRemainingHarness(hist, s, a) == Most(0, MaxSame - SameFailure(hist, a.failure))
\* What is left of the run's budgets for this step and failure.
Remaining(hist, s, a) ==
  IF DesignScope(s, a)
  THEN Least(Most(0, MaxDesignTotal - DesignRecords(hist)),
             Most(0, MaxDesignStep - StepRecords(hist, s)))
  ELSE Most(0, Least(MaxTotal - HarnessRecords(hist),
                     MaxSame - SameFailure(hist, a.failure)))

\* Attempts without progress, adjusted by what earlier runs learned.
Stagnation(hist, s, a, learned) ==
  LET left == Remaining(hist, s, a)
      base == Least(IF DesignScope(s, a) THEN DesignAttempts ELSE RepairAttempts, left)
  IN CASE base > 0 /\ learned = "high" -> Least(base + 1, left)
       [] base > 0 /\ learned = "low"  -> Most(1, base - 1)
       [] OTHER -> base

MutAttemptLimit(hist, s, a) == Remaining(hist, s, a)
AttemptLimit(hist, s, a) ==
  LET hard == Least(HardLimit, Remaining(hist, s, a))
  IN IF Prerequisite(s, a) THEN Least(1, hard) ELSE hard

Loop(hist, s, a, learned) ==
  [attempt |-> 0, stagnant |-> 0, budget |-> Stagnation(hist, s, a, learned),
   limit |-> AttemptLimit(hist, s, a),
   kind |-> IF DesignScope(s, a) THEN "design" ELSE "harness"]
-----------------------------------------------------------------------------
NoCandidate == [step |-> 0, art |-> [id |-> 0, score |-> 0, origin |-> "design",
                                     failure |-> CHOOSE f \in Failures : TRUE]]

Init ==
  /\ step = 0 /\ pc = "idle"
  /\ best = NoCandidate.art /\ first = 0
  /\ loop = Idle /\ files = 0 /\ snaps = 0
  /\ history = NoRecords
  /\ saved = [history |-> NoRecords, candidate |-> NoCandidate]
  /\ started = [k \in Kinds |-> 0]
  /\ count = [runs |-> 0, stops |-> 0]

\* The gate's result decides whether the loop is entered.
Gate(s, a, llm, tool, learned) ==
  /\ step' = s /\ best' = a /\ first' = a.score /\ files' = a.id
  /\ IF CanRepair(s, a, llm, tool)
     THEN pc' = "loop" /\ loop' = Loop(history, s, a, learned)
     ELSE pc' = "done" /\ loop' = Idle

(* A step is run: it proposes, or takes up the candidate of the last save. *)
Propose(s, a, llm, tool, learned) ==
  /\ pc = "idle" /\ count.runs < MaxRuns
  /\ Gate(s, a, llm, tool, learned)
  /\ count' = [count EXCEPT !.runs = @ + 1]
  /\ UNCHANGED <<snaps, history, saved, started>>

Resume(llm, learned) ==
  /\ pc = "resume"
  /\ Gate(saved.candidate.step, saved.candidate.art, llm, FALSE, learned)
  /\ UNCHANGED <<snaps, history, saved, started, count>>

Goes == loop.attempt < loop.limit /\ loop.stagnant < loop.budget

\* Save the best artifact, snapshot the files, and ask for a repair.
Attempt ==
  /\ pc = "loop" /\ Goes
  /\ saved' = IF step \in Saves
              THEN [history |-> history, candidate |-> [step |-> step, art |-> best]]
              ELSE saved
  /\ snaps' = snaps + 1
  /\ loop' = [loop EXCEPT !.attempt = @ + 1]
  /\ started' = [started EXCEPT ![loop.kind] = Least(@ + 1, MaxStarted)]
  /\ pc' = "repair"
  /\ UNCHANGED <<step, best, first, files, history, count>>

\* The repair works on the project files before it has returned.
Works ==
  /\ pc = "repair" /\ files = best.id
  /\ files' = 1 - best.id
  /\ UNCHANGED <<step, pc, best, first, loop, snaps, history, saved, started, count>>

Recorded == [history EXCEPT ![[kind |-> loop.kind, step |-> step, failure |-> best.failure]] = @ + 1]

\* _restore_candidate_files and _discard_candidate_files.
Undo == files' = best.id /\ snaps' = snaps - 1
Keep(a) == files' = a.id /\ snaps' = snaps - 1

Improves(a) == a.score < best.score

(* A better artifact becomes the new baseline; its stagnation count starts *)
(* again.                                                                  *)
Improved(a) ==
  /\ pc = "repair" /\ Improves(a) /\ a.id = 1 - best.id
  /\ history' = Recorded
  /\ Keep(a)
  /\ best' = a
  /\ loop' = [loop EXCEPT !.stagnant = 0]
  /\ pc' = IF a.score = 0 THEN "done" ELSE "loop"
  /\ UNCHANGED <<step, first, saved, started, count>>

MutRejected(a) ==
  /\ pc = "repair" /\ ~Improves(a)
  /\ history' = Recorded
  /\ snaps' = snaps - 1 /\ UNCHANGED files
  /\ loop' = [loop EXCEPT !.stagnant = @ + 1]
  /\ pc' = IF step \in Custom \cap Deterministic THEN "done" ELSE "loop"
  /\ UNCHANGED <<step, best, first, saved, started, count>>
\* Otherwise the files go back; a deterministic repair is not repeated.
Rejected(a) ==
  /\ pc = "repair" /\ ~Improves(a)
  /\ history' = Recorded
  /\ Undo
  /\ loop' = [loop EXCEPT !.stagnant = @ + 1]
  /\ pc' = IF step \in Custom \cap Deterministic THEN "done" ELSE "loop"
  /\ UNCHANGED <<step, best, first, saved, started, count>>

MutRepairError ==
  /\ pc = "repair"
  /\ UNCHANGED history
  /\ Undo
  /\ loop' = [loop EXCEPT !.attempt = @ - 1]
  /\ pc' = "loop"
  /\ UNCHANGED <<step, best, first, saved, started, count>>
\* An unusable answer ends the loop with the best artifact.
RepairError ==
  /\ pc = "repair"
  /\ history' = Recorded
  /\ Undo
  /\ pc' = "done"
  /\ UNCHANGED <<step, best, first, loop, saved, started, count>>

\* Any other error leaves the step; the caller may run it again.
RepairRaises ==
  /\ pc = "repair"
  /\ Undo
  /\ pc' = "idle" /\ loop' = Idle
  /\ UNCHANGED <<step, best, first, history, saved, started, count>>

LoopEnds ==
  /\ pc = "loop" /\ ~Goes
  /\ pc' = "done"
  /\ UNCHANGED <<step, best, first, loop, files, snaps, history, saved, started, count>>

\* The result is appended and the state saved with it.
Complete ==
  /\ pc = "done"
  /\ saved' = [history |-> history, candidate |-> NoCandidate]
  /\ pc' = "idle" /\ loop' = Idle
  /\ UNCHANGED <<step, best, first, files, snaps, history, started, count>>

(* The process stops: snapshots stay behind, the next one starts from the  *)
(* last save.                                                              *)
Crash ==
  /\ pc # "idle" /\ pc # "resume" /\ count.stops < MaxCrashes
  /\ count' = [count EXCEPT !.stops = @ + 1]
  /\ history' = saved.history
  /\ pc' = IF saved.candidate.step = 0 THEN "idle" ELSE "resume"
  /\ loop' = Idle
  /\ snaps' = 0
  /\ UNCHANGED <<step, best, first, files, saved, started>>

Advance == Attempt \/ RepairError \/ LoopEnds \/ Complete

Next ==
  \/ Advance \/ Works \/ RepairRaises \/ Crash
  \/ \E a \in Artifact, s \in Steps, llm, tool \in BOOLEAN, learned \in Learned :
       a.id = 0 /\ Propose(s, a, llm, tool, learned)
  \/ \E llm \in BOOLEAN, learned \in Learned : Resume(llm, learned)
  \/ \E a \in Artifact : Improved(a) \/ Rejected(a)

Spec == Init /\ [][Next]_vars

\* A running step goes on; a repair call that does not answer fails.
FairSpec == Spec /\ WF_vars(Advance)
-----------------------------------------------------------------------------
TypeOK ==
  /\ step \in Steps \cup {0}
  /\ pc \in {"idle", "resume", "loop", "repair", "done"}
  /\ best \in Artifact /\ first \in 0..MaxScore /\ files \in 0..1 /\ snaps \in 0..1
  /\ loop.attempt \in 0..HardLimit /\ loop.stagnant \in 0..HardLimit
  /\ history \in [Record -> Nat] /\ saved.history \in [Record -> Nat]

(* Whatever a repair did to the project before it was rejected or failed,  *)
(* outside a repair the files belong to the best artifact, no snapshot is  *)
(* left, and the artifact is at least as good as the proposal.             *)
BestMatchesFiles ==
  pc \in {"loop", "done"} => files = best.id /\ snaps = 0 /\ best.score <= first

(* The records of a run never exceed its budgets, although every run of a  *)
(* step computes what is left from the history and a repaired failure can  *)
(* turn into another one.                                                  *)
BudgetsHold ==
  /\ DesignRecords(history) <= MaxDesignTotal
  /\ HarnessRecords(history) <= MaxTotal
  /\ \A s \in Steps : StepRecords(history, s) <= MaxDesignStep

(* The cap on design repairs of a run bounds the repairs that are started, *)
(* also when the process stops and the run goes on from its last save.     *)
DesignCapAbsolute == started["design"] <= MaxDesignTotal

(* One failure is retried at most max_same_failure_retries times.          *)
SameFailureBounded == \A f \in Failures : SameFailure(history, f) <= MaxSame

(* A step that runs ends, however many repairs make progress.              *)
StepEnds == pc \in {"loop", "repair", "done"} ~> pc \in {"idle", "resume"}
=============================================================================
