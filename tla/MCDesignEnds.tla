---------------------------- MODULE MCDesignEnds ----------------------------
(***************************************************************************)
(* Liveness of the design pipeline: the runner, connection synthesis, the  *)
(* repair loop of a step and draft finalization return, and so does a      *)
(* request to the sandbox broker that runs the scripts of repairs.         *)
(***************************************************************************)
EXTENDS SandboxBroker, Integers, Sequences, FiniteSets, TLC

CONSTANTS NoPin, Nothing

VARIABLES
  part,  \* the component whose behaviour this is
  pc, st, ck, files, snaps, until, tries, after, req, count, inputs, cp,
  disk, place, out, paid, fault, step, best, first, loop, history, saved,
  started, mode, boards, journal, ledger, receipt, way, ghost

\* A hub u with pins u1, u2 and two resistors; the plan is the planner's.
Planner == INSTANCE ConnectionPlan
  WITH NBlocks <- 2, TargetPins <- 1, MaxBatches <- 3, UnknownPins <- 2,
       HubPins <- 2, DirectPinLimit <- 2, DirectTokens <- 4, BaseTokens <- 1,
       TokensPerPin <- 1

MCRef(n) == CASE n = 1 -> "r" [] n = 2 -> "s" [] n = 3 -> "u"
MCSelection(topo, chosen) ==
  << Planner!Part(3, 1, 2, {}, [b \in 1..2 |-> 0], TRUE),
     Planner!Part(1, 1, 1, IF topo = "t2" THEN {2} ELSE {1}, [b \in 1..2 |-> 0], FALSE) >>
  \o (IF chosen = "small" THEN <<>>
      ELSE << Planner!Part(2, 1, 1, IF topo = "t1" THEN {2} ELSE {1},
                           [b \in 1..2 |-> 0], FALSE) >>)
MCPlans ==
  [in \in {"t1", "t2", "t3"} \X {"small", "large"} |->
     LET made == Planner!Plan(MCSelection(in[1], in[2]))
     IN [i \in DOMAIN made |-> [owned  |-> {MCRef(n) : n \in made[i].owned},
                                shared |-> {MCRef(n) : n \in made[i].shared}]]]
MCPlanOf(topo, chosen) == MCPlans[topo, chosen]
\* t1 and t2 differ in typed ownership, t3 from t1 in its ground domains.
MCLegacy(topo) == "same"
MCOneGround(topo) == topo # "t3"

\* u1a and u1b are two names of one pin; x names no pin.
MCLogical == {"r1", "s1", "u1a", "u1b", "u2", "x"}
MCPartOf(l) == CASE l = "r1" -> "r" [] l = "s1" -> "s" [] OTHER -> "u"
MCPhysical(l) ==
  CASE l \in {"u1a", "u1b"} -> "u1" [] l = "x" -> NoPin [] OTHER -> l
MCPinsOf(r) == CASE r = "r" -> {"r1"} [] r = "s" -> {"s1"} [] r = "u" -> {"u1", "u2"}

\* Answers name one or two pins: owned ones, shared ones, aliases, unknown ones.
Targets ==
  UNION {[ls -> {"gnd", "no-connect"}] :
           ls \in {{"r1"}, {"s1", "u1a"}, {"u1b", "u2"}, {"r1", "x"}}}
    \cup [{"u1a", "u1b"} -> {"gnd", "sig"}]
MCDelta(b, rev, new, t) == [batch |-> b, base |-> rev, create |-> new, target |-> t]
MCAnswers(nr, rev) ==
  {MCDelta(b, rev, new, t) : b \in 1..3, new \in {{}, {"sig"}}, t \in Targets}
    \cup {MCDelta(nr, rev + 1, {}, t) : t \in [{"r1"} -> {"gnd"}]}

Pipeline == INSTANCE PipelineRunner WITH
  N <- 3, MaxScore <- 1, Kinds <- {"design", "external", "hard"},
  Agentic <- TRUE, ExecRetries <- 1, MaxReplans <- 1, MaxInter <- 1,
  Arts <- {1}, DraftFirst <- FALSE, RepairRelease <- TRUE, Capture <- TRUE,
  MaxTurnsStep <- 2, MaxTurns <- 1, MaxLaunches <- 1, MaxTokens <- 0,
  Failing <- {3}, Saving <- {}, Raising <- {3}, CrashPoints <- {}

Connect == INSTANCE ConnectionSynthesis WITH
  None <- Nothing, Legacy <- MCLegacy, OneGround <- MCOneGround,
  PlanOf <- MCPlanOf, Logical <- MCLogical, PartOf <- MCPartOf,
  Physical <- MCPhysical, PinsOf <- MCPinsOf, Answers <- MCAnswers,
  Rails <- {"gnd"}, NewNets <- {"sig"}, MergeRetries <- 1, RoundLimit <- 3,
  Tries <- 2, Topologies <- {"t1"}, Selections <- {"small", "large"},
  ArtifactFirst <- TRUE, Required <- FALSE, TotalLimit <- 4, Queries <- 2,
  MaxRounds <- 2, MaxCrashes <- 0, MaxLost <- 0, StartVersions <- {},
  at <- place

Harness == INSTANCE StepRepair WITH
  Steps <- {1, 2}, Saves <- {1}, Custom <- {1}, Allowed <- {1, 2},
  MaxScore <- 2, DraftFirst <- FALSE, RepairRelease <- FALSE,
  AheEnabled <- TRUE, RepairAttempts <- 2, DesignAttempts <- 2,
  MaxTotal <- 3, MaxSame <- 2, MaxStarted <- 4, Deterministic <- {},
  Origins <- {"design"}, Failures <- {"a", "b"}, ArtifactFirst <- FALSE,
  MaxDesignStep <- 2, MaxDesignTotal <- 3, HardLimit <- 4,
  Learned <- {"none", "high"}, MaxRuns <- 2, MaxCrashes <- 1

Draft == INSTANCE DraftFinalization WITH
  Refunds <- 0, MaxVersion <- 3, MaxLaunches <- 2, MaxCrashes <- 1,
  MaxSessions <- 1, MaxPasses <- 2, Tokens <- {"t1"},
  Modes <- {"board", "project"}

(* The initial state chooses the component; the variables it does not have *)
(* stay blank.                                                             *)
SuiteInit ==
  \/ /\ part = "sandbox" /\ Init
     /\ pc = 0 /\ st = 0 /\ ck = 0 /\ files = 0 /\ snaps = 0 /\ until = 0
     /\ tries = 0 /\ after = 0 /\ req = 0 /\ count = 0 /\ inputs = 0
     /\ cp = 0 /\ disk = 0 /\ place = 0 /\ out = 0 /\ paid = 0
     /\ fault = 0 /\ step = 0 /\ best = 0 /\ first = 0 /\ loop = 0
     /\ history = 0 /\ saved = 0 /\ started = 0 /\ mode = 0 /\ boards = 0
     /\ journal = 0 /\ ledger = 0 /\ receipt = 0 /\ way = 0 /\ ghost = 0
  \/ /\ part = "pipeline" /\ Pipeline!Init /\ Init
     /\ inputs = 0 /\ cp = 0 /\ disk = 0 /\ place = 0 /\ out = 0
     /\ paid = 0 /\ fault = 0 /\ step = 0 /\ best = 0 /\ first = 0
     /\ loop = 0 /\ history = 0 /\ saved = 0 /\ started = 0 /\ mode = 0
     /\ boards = 0 /\ journal = 0 /\ ledger = 0 /\ receipt = 0 /\ way = 0
     /\ ghost = 0
  \/ /\ part = "connect" /\ Connect!Init /\ Init
     /\ st = 0 /\ ck = 0 /\ files = 0 /\ snaps = 0 /\ until = 0
     /\ tries = 0 /\ after = 0 /\ req = 0 /\ count = 0 /\ step = 0
     /\ best = 0 /\ first = 0 /\ loop = 0 /\ history = 0 /\ saved = 0
     /\ started = 0 /\ mode = 0 /\ boards = 0 /\ journal = 0
     /\ ledger = 0 /\ receipt = 0 /\ way = 0 /\ ghost = 0
  \/ /\ part = "harness" /\ Harness!Init /\ Init
     /\ st = 0 /\ ck = 0 /\ until = 0 /\ tries = 0 /\ after = 0
     /\ req = 0 /\ inputs = 0 /\ cp = 0 /\ disk = 0 /\ place = 0
     /\ out = 0 /\ paid = 0 /\ fault = 0 /\ mode = 0 /\ boards = 0
     /\ journal = 0 /\ ledger = 0 /\ receipt = 0 /\ way = 0 /\ ghost = 0
  \/ /\ part = "draft" /\ Draft!Init /\ Init
     /\ until = 0 /\ tries = 0 /\ after = 0 /\ req = 0 /\ count = 0
     /\ inputs = 0 /\ cp = 0 /\ disk = 0 /\ place = 0 /\ out = 0
     /\ paid = 0 /\ fault = 0 /\ step = 0 /\ best = 0 /\ first = 0
     /\ loop = 0 /\ history = 0 /\ saved = 0 /\ started = 0

SuiteNext ==
  \/ /\ part = "sandbox" /\ Next
     /\ UNCHANGED <<part, pc, st, ck, files, snaps, until, tries, after,
                     req, count, inputs, cp, disk, place, out, paid, fault,
                     step, best, first, loop, history, saved, started, mode,
                     boards, journal, ledger, receipt, way, ghost>>
  \/ /\ part = "pipeline" /\ Pipeline!Next
     /\ UNCHANGED <<part, vars, inputs, cp, disk, place, out, paid, fault,
                     step, best, first, loop, history, saved, started, mode,
                     boards, journal, ledger, receipt, way, ghost>>
  \/ /\ part = "connect" /\ Connect!Next
     /\ UNCHANGED <<part, vars, st, ck, files, snaps, until, tries, after,
                     req, count, step, best, first, loop, history, saved,
                     started, mode, boards, journal, ledger, receipt, way,
                     ghost>>
  \/ /\ part = "harness" /\ Harness!Next
     /\ UNCHANGED <<part, vars, st, ck, until, tries, after, req, inputs,
                     cp, disk, place, out, paid, fault, mode, boards,
                     journal, ledger, receipt, way, ghost>>
  \/ /\ part = "draft" /\ Draft!Next
     /\ UNCHANGED <<part, vars, until, tries, after, req, count, inputs,
                     cp, disk, place, out, paid, fault, step, best, first,
                     loop, history, saved, started>>

suiteVars ==
  <<part, vars, pc, st, ck, files, snaps, until, tries, after, req, count,
    inputs, cp, disk, place, out, paid, fault, step, best, first, loop,
    history, saved, started, mode, boards, journal, ledger, receipt, way,
    ghost>>

SuiteSpec == SuiteInit /\ [][SuiteNext]_suiteVars

pipelineVars == Pipeline!vars
connectVars == Connect!vars
harnessVars == Harness!vars
draftVars == Draft!vars

\* Each component's own fairness; see its module.
SuiteFair ==
  /\ SuiteSpec
  /\ \A r \in Requests : WF_vars(part = "sandbox" /\ at[r] # 0 /\ Step(r))
  /\ WF_pipelineVars(part = "pipeline" /\ Pipeline!Step)
  /\ WF_connectVars(part = "connect" /\ Connect!Advance)
  /\ WF_harnessVars(part = "harness" /\ Harness!Advance)
  /\ WF_draftVars(part = "draft" /\ Draft!Advance)
-----------------------------------------------------------------------------
Working ==
  CASE part = "pipeline" -> pc \in {"loop", "ran", "gate", "decide", "save"}
    [] part = "connect"  -> Connect!Running
    [] part = "harness"  -> pc \notin {"idle", "resume"}
    [] part = "draft"    -> pc # "idle"
    [] part = "sandbox"  -> ~free

(* A call of the runner returns: retries, repair turns, replans and        *)
(* rollbacks run out, whatever the steps return; a run of connection       *)
(* synthesis returns, whatever the model answers; the repair loop of a     *)
(* step and a launch of draft finalization end; the sandbox broker's only  *)
(* slot is given back.                                                     *)
DesignEnds == Working ~> ~Working
=============================================================================
