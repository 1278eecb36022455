------------------------------ MODULE MCRepair ------------------------------
(***************************************************************************)
(* Repair, safety: the loop of a step, the external agent, a session and   *)
(* draft finalization with the local and with the external host.           *)
(***************************************************************************)
EXTENDS ExternalRepair, Repair, Integers, FiniteSets, TLC

VARIABLES
  mode, boards, files, snaps, journal, ledger, receipt, st, ck, way, ghost,
  step, first, loop, history, started, count

Host(contents, plans, patience, turns) ==
  [boards |-> contents, plans |-> plans, joint |-> TRUE, patience |-> patience, turns |-> turns, meddling |-> TRUE]
TwoFiles == Host({0, 1}, {0, 1}, 1, 2)
OneFile == Host({0, 1}, {0}, 2, 3)

Board == INSTANCE DraftFinalization WITH
  Modes <- {"board"}, Tokens <- {"t1", "t2"}, MaxPasses <- 1,
  MaxSessions <- 1, Refunds <- 1, MaxVersion <- 3, MaxLaunches <- 3,
  MaxCrashes <- 1

Project == INSTANCE DraftFinalization WITH
  Modes <- {"project"}, Tokens <- {"t1"}, MaxPasses <- 3, MaxSessions <- 1,
  Refunds <- 1, MaxVersion <- 3, MaxLaunches <- 3, MaxCrashes <- 1

Step == INSTANCE StepRepair WITH
  Steps <- {1, 2}, Saves <- {1}, Custom <- {1}, Allowed <- {1, 2},
  MaxScore <- 2, DraftFirst <- FALSE, RepairRelease <- FALSE,
  AheEnabled <- TRUE, RepairAttempts <- 2, DesignAttempts <- 2,
  MaxTotal <- 3, MaxSame <- 2, MaxStarted <- 4, Deterministic <- {1},
  Origins <- {"design", "harness", "external"}, Failures <- {"a"},
  ArtifactFirst <- TRUE, MaxDesignStep <- 3, MaxDesignTotal <- 4,
  HardLimit <- 2, Learned <- {"none", "high", "low"}, MaxRuns <- 3,
  MaxCrashes <- 0

Harness == INSTANCE StepRepair WITH
  Steps <- {1, 2}, Saves <- {1}, Custom <- {1}, Allowed <- {1, 2},
  MaxScore <- 2, DraftFirst <- FALSE, RepairRelease <- FALSE,
  AheEnabled <- TRUE, RepairAttempts <- 2, DesignAttempts <- 2,
  MaxTotal <- 3, MaxSame <- 2, MaxStarted <- 4, Deterministic <- {},
  Origins <- {"design"}, Failures <- {"a", "b"}, ArtifactFirst <- FALSE,
  MaxDesignStep <- 2, MaxDesignTotal <- 3, HardLimit <- 4,
  Learned <- {"none", "high"}, MaxRuns <- 2, MaxCrashes <- 1

(* The initial state chooses the component; the variables it does not have *)
(* stay blank.                                                             *)
SuiteInit ==
  \/ /\ part = "external" /\ Init
     /\ pc = 0 /\ grade = 0 /\ live = 0 /\ cand = 0 /\ saved = 0
     /\ best = 0 /\ last = 0 /\ stagnant = 0 /\ seen = 0 /\ turn = 0
     /\ outcome = 0 /\ mode = 0 /\ boards = 0 /\ files = 0 /\ snaps = 0
     /\ journal = 0 /\ ledger = 0 /\ receipt = 0 /\ st = 0 /\ ck = 0
     /\ way = 0 /\ ghost = 0 /\ step = 0 /\ first = 0 /\ loop = 0
     /\ history = 0 /\ started = 0 /\ count = 0
  \/ /\ part = "session" /\ Session(JointHost)!Init /\ Init
     /\ mode = 0 /\ boards = 0 /\ files = 0 /\ snaps = 0 /\ journal = 0
     /\ ledger = 0 /\ receipt = 0 /\ st = 0 /\ ck = 0 /\ way = 0
     /\ ghost = 0 /\ step = 0 /\ first = 0 /\ loop = 0 /\ history = 0
     /\ started = 0 /\ count = 0
  \/ /\ part = "patient" /\ Session(PatientHost)!Init /\ Init
     /\ mode = 0 /\ boards = 0 /\ files = 0 /\ snaps = 0 /\ journal = 0
     /\ ledger = 0 /\ receipt = 0 /\ st = 0 /\ ck = 0 /\ way = 0
     /\ ghost = 0 /\ step = 0 /\ first = 0 /\ loop = 0 /\ history = 0
     /\ started = 0 /\ count = 0
  \/ /\ part = "board" /\ Board!Init /\ Init
     /\ grade = 0 /\ live = 0 /\ cand = 0 /\ saved = 0 /\ best = 0
     /\ last = 0 /\ stagnant = 0 /\ seen = 0 /\ turn = 0 /\ outcome = 0
     /\ step = 0 /\ first = 0 /\ loop = 0 /\ history = 0 /\ started = 0
     /\ count = 0
  \/ /\ part = "project" /\ Project!Init /\ Init
     /\ grade = 0 /\ live = 0 /\ cand = 0 /\ saved = 0 /\ best = 0
     /\ last = 0 /\ stagnant = 0 /\ seen = 0 /\ turn = 0 /\ outcome = 0
     /\ step = 0 /\ first = 0 /\ loop = 0 /\ history = 0 /\ started = 0
     /\ count = 0
  \/ /\ part = "step" /\ Step!Init /\ Init
     /\ grade = 0 /\ live = 0 /\ cand = 0 /\ last = 0 /\ stagnant = 0
     /\ seen = 0 /\ turn = 0 /\ outcome = 0 /\ mode = 0 /\ boards = 0
     /\ journal = 0 /\ ledger = 0 /\ receipt = 0 /\ st = 0 /\ ck = 0
     /\ way = 0 /\ ghost = 0
  \/ /\ part = "harness" /\ Harness!Init /\ Init
     /\ grade = 0 /\ live = 0 /\ cand = 0 /\ last = 0 /\ stagnant = 0
     /\ seen = 0 /\ turn = 0 /\ outcome = 0 /\ mode = 0 /\ boards = 0
     /\ journal = 0 /\ ledger = 0 /\ receipt = 0 /\ st = 0 /\ ck = 0
     /\ way = 0 /\ ghost = 0

SuiteNext ==
  \/ /\ part = "external" /\ Next
     /\ UNCHANGED <<part, pc, grade, live, cand, saved, best, last,
                     stagnant, seen, turn, outcome, mode, boards, files,
                     snaps, journal, ledger, receipt, st, ck, way, ghost,
                     step, first, loop, history, started, count>>
  \/ /\ part = "session" /\ Session(JointHost)!Next
     /\ UNCHANGED <<part, vars, mode, boards, files, snaps, journal,
                     ledger, receipt, st, ck, way, ghost, step, first, loop,
                     history, started, count>>
  \/ /\ part = "patient" /\ Session(PatientHost)!Next
     /\ UNCHANGED <<part, vars, mode, boards, files, snaps, journal,
                     ledger, receipt, st, ck, way, ghost, step, first, loop,
                     history, started, count>>
  \/ /\ part = "board" /\ Board!Next
     /\ UNCHANGED <<part, vars, grade, live, cand, saved, best, last,
                     stagnant, seen, turn, outcome, step, first, loop,
                     history, started, count>>
  \/ /\ part = "project" /\ Project!Next
     /\ UNCHANGED <<part, vars, grade, live, cand, saved, best, last,
                     stagnant, seen, turn, outcome, step, first, loop,
                     history, started, count>>
  \/ /\ part = "step" /\ Step!Next
     /\ UNCHANGED <<part, vars, grade, live, cand, last, stagnant, seen,
                     turn, outcome, mode, boards, journal, ledger, receipt,
                     st, ck, way, ghost>>
  \/ /\ part = "harness" /\ Harness!Next
     /\ UNCHANGED <<part, vars, grade, live, cand, last, stagnant, seen,
                     turn, outcome, mode, boards, journal, ledger, receipt,
                     st, ck, way, ghost>>

suiteVars ==
  <<part, vars, pc, grade, live, cand, saved, best, last, stagnant, seen,
    turn, outcome, mode, boards, files, snaps, journal, ledger, receipt, st,
    ck, way, ghost, step, first, loop, history, started, count>>

SuiteSpec == SuiteInit /\ [][SuiteNext]_suiteVars
-----------------------------------------------------------------------------
Drafting(ofBoard, ofProject) == (part = "board" => ofBoard) /\ (part = "project" => ofProject)

(* Whenever no launch is under way the live CAD files and the artifacts    *)
(* that describe them belong together; a run reported as verified has a    *)
(* design without errors; crashes, refunds and replayed answers buy no     *)
(* more sessions and passes than were granted.                             *)
DraftSound == Drafting(Board!DraftSound, Project!DraftSound)

(* The best attempt the repair loop returns to is the one on disk, and     *)
(* attempts stay within the budgets of the step and of the run.            *)
RepairLoopSound ==
  /\ part = "step"    => Step!TypeOK /\ Step!BestMatchesFiles /\ Step!BudgetsHold
  /\ part = "harness" => Harness!BestMatchesFiles /\ Harness!BudgetsHold
=============================================================================
