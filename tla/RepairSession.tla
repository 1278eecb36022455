---------------------------- MODULE RepairSession ----------------------------
(***************************************************************************)
(* One strong-repair session (repair/session.py, run_session) on its       *)
(* trusted host (_BoardHost, ProjectHost): the model proposes, the host    *)
(* executes on an isolated candidate, grades it with its own checks, keeps *)
(* the best verified candidate and commits it if it improves the live      *)
(* project.                                                                *)
(*                                                                         *)
(* A candidate is a pair: the CAD files and the upstream artifacts that go *)
(* with them.  Its grade is a fact about the pair; which grade each pair   *)
(* has is chosen in the initial state.                                     *)
(***************************************************************************)
EXTENDS Integers, FiniteSets

CONSTANTS
  Boards,    \* contents of the CAD files; 0 is the original
  Plans,     \* contents of the upstream artifacts; 0 is the original
  Joint,     \* host.joint: upstream edits are admitted
  Patience,  \* non-improving edits before a rollback (3)
  MaxTurns,  \* limits.max_turns
  Meddling   \* may somebody else edit the live project meanwhile?

Pairs == Boards \X Plans
Original == <<0, 0>>

(* CandidateAssessment: error and connection counts, and whether an        *)
(* immutable constraint is broken beyond repair or repairably.             *)
Grades == [errors : 0 .. 1, open : 0 .. 1, broken : {"no", "soft", "hard"}]

VARIABLES
  pc,        \* "turn", "finish", "commit", "write", "done"
  grade,     \* what the host's checks find in each pair
  live,      \* the live project: a pair, or Newer once somebody edited it
  cand,      \* the isolated candidate
  saved,     \* best.pcb.snapshot with best_artifacts
  best,      \* the assessment of the best candidate
  last,      \* host.last: the assessment cached for a board, or none
  stagnant,  \* consecutive edits that improved nothing
  seen,      \* proposals already executed on a candidate
  turn,      \* turns used
  outcome    \* "none", "kept", "committed", "refused", "overwrote"

vars == <<pc, grade, live, cand, saved, best, last, stagnant, seen, turn, outcome>>

NoGrade == [board |-> 0, grade |-> [errors |-> 0, open |-> 0, broken |-> "no"], valid |-> FALSE]
Newer == <<-1, 0>>

Improves(a, b) ==
  /\ a.broken = "no"
  /\ a.errors <= b.errors /\ a.open <= b.open
  /\ <<a.errors, a.open>> # <<b.errors, b.open>>

Clean(a) == a.errors = 0 /\ a.open = 0

Init ==
  /\ pc = "turn"
  /\ grade \in {g \in [Pairs -> Grades] :
                  g[Original].errors = 1 /\ g[Original].open = 1 /\ g[Original].broken # "hard"}
  /\ live = Original
  /\ cand = Original
  /\ saved = Original
  /\ best = grade[Original]
  /\ last = NoGrade
  /\ stagnant = 0
  /\ seen = {}
  /\ turn = 0
  /\ outcome = "none"
-----------------------------------------------------------------------------
(* assess: the cached assessment when it was made for these board bytes,   *)
(* else a fresh one from the checks.                                       *)
Assess(pair, cache) ==
  IF cache.valid /\ cache.board = pair[1] THEN cache.grade ELSE grade[pair]

Cached(pair, g) == [board |-> pair[1], grade |-> g, valid |-> TRUE]

(* An edit through execute_joint drops the cached assessment: upstream     *)
(* artifacts may have changed under the same board.                        *)
Edited(cache) == NoGrade

Turn == pc = "turn" /\ turn < MaxTurns /\ turn' = turn + 1

(* Queries, invalid proposals and repeated proposals use a turn up.        *)
Observe ==
  /\ Turn
  /\ UNCHANGED <<pc, grade, live, cand, saved, best, last, stagnant, seen, outcome>>

(* Stop, an exhausted budget or the time limit: the best found so far      *)
(* counts.                                                                 *)
Stop ==
  /\ pc = "turn"
  /\ pc' = "finish"
  /\ UNCHANGED <<grade, live, cand, saved, best, last, stagnant, seen, turn, outcome>>

MutCheckpoint(pair) == <<pair[1], saved[2]>>

(* checkpoint_candidate: the files and the artifacts that go with them.    *)
Checkpoint(pair) == pair

(* A completion claim is graded afresh; only a clean candidate ends the    *)
(* session.                                                                *)
ReportComplete ==
  LET g == grade[cand]
      better == Improves(g, best)
  IN
  /\ Turn
  /\ best' = IF better THEN g ELSE best
  /\ saved' = IF better THEN Checkpoint(cand) ELSE saved
  /\ last' = Cached(cand, g)
  /\ pc' = IF Clean(g) /\ g.broken = "no" THEN "finish" ELSE "turn"
  /\ UNCHANGED <<grade, live, cand, stagnant, seen, outcome>>

MutRollback ==
  /\ cand' = <<saved[1], cand[2]>>
  /\ last' = NoGrade

(* rollback_candidate: files and artifacts together.                       *)
Rollback ==
  /\ cand' = saved
  /\ last' = NoGrade

(* The program failed or the candidate was rejected: nothing of it stays.  *)
ExecutionFails(target) ==
  /\ Turn
  /\ <<cand, target>> \notin seen
  /\ seen' = seen \cup {<<cand, target>>}
  /\ Rollback
  /\ UNCHANGED <<pc, grade, live, saved, best, stagnant, outcome>>

Allowed(target) ==
  /\ target # cand
  /\ Joint \/ target[2] = cand[2]

MutWorse(target, g) ==
  IF g.broken = "hard"
  THEN Rollback /\ stagnant' = 0
  ELSE stagnant' = stagnant + 1 /\ cand' = target /\ last' = Cached(target, g)

(* An edit that improves nothing stays in the candidate for the next turn, *)
(* unless it broke an immutable constraint or patience is used up.         *)
Worse(target, g) ==
  IF g.broken = "hard" \/ stagnant + 1 >= Patience
  THEN Rollback /\ stagnant' = 0
  ELSE stagnant' = stagnant + 1 /\ cand' = target /\ last' = Cached(target, g)

(* An executed edit: graded, kept as the best, continued or rolled back.   *)
Execute(target) ==
  LET g == Assess(target, IF target[2] = cand[2] THEN last ELSE Edited(last)) IN
  /\ Turn
  /\ Allowed(target)
  /\ <<cand, target>> \notin seen
  /\ seen' = seen \cup {<<cand, target>>}
  /\ IF Improves(g, best)
     THEN /\ best' = g /\ saved' = Checkpoint(target) /\ cand' = target
          /\ last' = Cached(target, g) /\ stagnant' = 0
          /\ pc' = IF Clean(g) THEN "finish" ELSE "turn"
     ELSE /\ Worse(target, g)
          /\ pc' = IF Clean(best) THEN "finish" ELSE "turn"
          /\ UNCHANGED <<best, saved>>
  /\ UNCHANGED <<grade, live, outcome>>

TurnLimit ==
  /\ pc = "turn" /\ turn = MaxTurns
  /\ pc' = "finish"
  /\ UNCHANGED <<grade, live, cand, saved, best, last, stagnant, seen, turn, outcome>>
-----------------------------------------------------------------------------
(* The session always returns to the verified best, and commits it only    *)
(* when it improves the assessment it started from.                        *)
Finish ==
  /\ pc = "finish"
  /\ Rollback
  /\ IF Improves(best, grade[Original])
     THEN pc' = "commit" /\ UNCHANGED outcome
     ELSE pc' = "done" /\ outcome' = "kept"
  /\ UNCHANGED <<grade, live, saved, best, stagnant, seen, turn>>

MutCommit ==
  /\ pc = "commit"
  /\ pc' = "write"
  /\ last' = Cached(cand, Assess(cand, last))
  /\ UNCHANGED <<grade, live, cand, saved, best, stagnant, seen, turn, outcome>>

(* commit, first part: refused when the live project changed or the        *)
(* candidate, graded once more, breaks a constraint.                       *)
Commit ==
  /\ pc = "commit"
  /\ IF live = Original /\ Assess(cand, last).broken = "no"
     THEN pc' = "write" /\ UNCHANGED outcome
     ELSE pc' = "done" /\ outcome' = "refused"
  /\ last' = Cached(cand, Assess(cand, last))
  /\ UNCHANGED <<grade, live, cand, saved, best, stagnant, seen, turn>>

(* Second part, after the checks ran: the live files are replaced.         *)
Write ==
  /\ pc = "write"
  /\ live' = cand
  /\ outcome' = IF live = Original THEN "committed" ELSE "overwrote"
  /\ pc' = "done"
  /\ UNCHANGED <<grade, cand, saved, best, last, stagnant, seen, turn>>

(* Somebody else saves the live project.                                   *)
Meddle ==
  /\ Meddling
  /\ pc # "done" /\ live = Original
  /\ live' = Newer
  /\ UNCHANGED <<pc, grade, cand, saved, best, last, stagnant, seen, turn, outcome>>

Next ==
  \/ Observe \/ Stop \/ ReportComplete \/ TurnLimit \/ Finish \/ Commit \/ Write \/ Meddle
  \/ \E target \in Pairs : Execute(target) \/ ExecutionFails(target)

Spec == Init /\ [][Next]_vars
-----------------------------------------------------------------------------
(* Every component of the session has its type.                            *)
TypeOK ==
  /\ pc \in {"turn", "finish", "commit", "write", "done"}
  /\ grade \in [Pairs -> Grades] /\ best \in Grades /\ last.grade \in Grades
  /\ {cand, saved} \subseteq Pairs /\ live \in Pairs \cup {Newer}
  /\ stagnant \in 0 .. Patience - 1 /\ turn \in 0 .. MaxTurns
  /\ outcome \in {"none", "kept", "committed", "refused", "overwrote"}

(* The snapshot the session returns to is the pair the best assessment was *)
(* made for: never a board with the artifacts of another candidate, never  *)
(* a cached verdict about other artifacts.                                 *)
BestIsSaved == best = grade[saved]

(* What reaches the live project improves on what the session found there, *)
(* by the host's own checks, and breaks no constraint.                     *)
CommitImproves ==
  outcome = "committed" => /\ Improves(grade[live], grade[Original])
                           /\ live = saved

(* Whatever is tried, graded, cached and rolled back, a session keeps and  *)
(* commits what was assessed.                                              *)
SessionSound == TypeOK /\ BestIsSaved /\ CommitImproves

(* pipeline_adapter.py: "live PCB changed; refusing stale candidate        *)
(* commit".  An edit by somebody else is never overwritten.                *)
RefusesStaleCommit == outcome # "overwrote"
=============================================================================
