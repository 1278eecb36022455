----------------------------- MODULE MCServices -----------------------------
(***************************************************************************)
(* The hardware workflow, the agent graph that starts and awaits it, and   *)
(* the verdict of the reviewer on the project it leaves behind.            *)
(***************************************************************************)
EXTENDS HardwareWorkflow, TLC

VARIABLES
  part,  \* the component whose behaviour this is
  run, g, pend, spaces, wf, answers, stray, asked, files, erc, drc, waivers,
  approval, tool, work, hardware, phase, calls, verdict, published, source,
  learned, runs, edits, faults


\* Two schematics, one with a part that is not released; two boards, one with
\* a warning to waive, one that needs the fan-out approval.
Sheet1 == [id |-> 1, parts |-> ("H1" :> "proven" @@ "U1" :> "proven"), errors |-> 0,
           warns |-> {"binding"}, bound |-> TRUE, alike |-> FALSE, audit |-> TRUE]
Sheet2 == [Sheet1 EXCEPT !.id = 2, !.parts["U1"] = "open"]
Board1 == [id |-> 1, refs |-> {"H1"}, bad |-> <<{}>>, errors |-> 0, warns |-> ("silk" :> 1),
           alike |-> FALSE, audit |-> TRUE, kept |-> TRUE]
Board2 == [Board1 EXCEPT !.id = 2, !.bad = <<{"width"}>>, !.warns = ("footprint" :> 1),
                         !.alike = TRUE]

Graph == INSTANCE AgentGraph WITH
  NSteps <- 2,
  Modes <- {"build", "review", "research", "parts", "diagnose", "clarify",
     "unsupported"},
  MaxRequests <- 1, MaxAnswers <- 1, MaxWorkflows <- 3, Outages <- TRUE,
  Cancels <- TRUE, Crashes <- {"node", "started", "asked"}, disk <- spaces

Turns == INSTANCE AgentGraph WITH
  NSteps <- 2, Modes <- {"build", "diagnose"}, MaxRequests <- 2,
  MaxAnswers <- 1, MaxWorkflows <- 3, Outages <- FALSE, Cancels <- FALSE,
  Crashes <- {}, disk <- spaces

Verdict == INSTANCE ReleaseReview WITH
  Modes <- {"build", "review"}, Reqs <- {1}, Boards <- {Board1, Board2},
  Sheets <- {Sheet1, Sheet2},
  Works <- {[sheet |-> Sheet1, board |-> Board2, issues |-> FALSE]},
  Holes <- {"H1"}, Waivable <- {"silk"}, BlockRefs <- {{"U1"}},
  Stamps <- {1, 2}, Governed <- TRUE, MaxRuns <- 1, MaxEdits <- 1,
  MaxFaults <- 1, mode <- asked, result <- verdict

(* The initial state chooses the component; the variables it does not have *)
(* stay blank.                                                             *)
SuiteInit ==
  \/ /\ part = "workflow" /\ Init
     /\ run = 0 /\ g = 0 /\ pend = 0 /\ spaces = 0 /\ wf = 0
     /\ answers = 0 /\ stray = 0 /\ asked = 0 /\ files = 0 /\ erc = 0
     /\ drc = 0 /\ waivers = 0 /\ approval = 0 /\ tool = 0 /\ work = 0
     /\ hardware = 0 /\ phase = 0 /\ calls = 0 /\ verdict = 0
     /\ published = 0 /\ source = 0 /\ learned = 0 /\ runs = 0
     /\ edits = 0 /\ faults = 0
  \/ /\ part = "graph" /\ Graph!Init /\ Init /\ start = 0 /\ paused = FALSE
     /\ asked = 0 /\ files = 0 /\ erc = 0 /\ drc = 0 /\ waivers = 0
     /\ approval = 0 /\ tool = 0 /\ work = 0 /\ hardware = 0 /\ phase = 0
     /\ calls = 0 /\ verdict = 0 /\ published = 0 /\ source = 0
     /\ learned = 0 /\ runs = 0 /\ edits = 0 /\ faults = 0
  \/ /\ part = "turns" /\ Turns!Init /\ Init /\ start = 0 /\ paused = FALSE
     /\ asked = 0 /\ files = 0 /\ erc = 0 /\ drc = 0 /\ waivers = 0
     /\ approval = 0 /\ tool = 0 /\ work = 0 /\ hardware = 0 /\ phase = 0
     /\ calls = 0 /\ verdict = 0 /\ published = 0 /\ source = 0
     /\ learned = 0 /\ runs = 0 /\ edits = 0 /\ faults = 0
  \/ /\ part = "review" /\ Verdict!Init /\ Init /\ start = 0 /\ paused = FALSE
     /\ run = 0 /\ g = 0 /\ pend = 0 /\ spaces = 0 /\ wf = 0
     /\ answers = 0 /\ stray = 0

SuiteNext ==
  \/ /\ part = "workflow" /\ Next
     /\ UNCHANGED <<part, run, g, pend, spaces, wf, answers, stray, asked,
                     files, erc, drc, waivers, approval, tool, work,
                     hardware, phase, calls, verdict, published, source,
                     learned, runs, edits, faults>>
  \/ /\ part = "graph" /\ Graph!Next
     /\ UNCHANGED <<part, vars, asked, files, erc, drc, waivers, approval,
                     tool, work, hardware, phase, calls, verdict, published,
                     source, learned, runs, edits, faults>>
  \/ /\ part = "turns" /\ Turns!Next
     /\ UNCHANGED <<part, vars, asked, files, erc, drc, waivers, approval,
                     tool, work, hardware, phase, calls, verdict, published,
                     source, learned, runs, edits, faults>>
  \/ /\ part = "review" /\ Verdict!Next
     /\ UNCHANGED <<part, vars, run, g, pend, spaces, wf, answers, stray>>

suiteVars ==
  <<part, vars, run, g, pend, spaces, wf, answers, stray, asked, files, erc,
    drc, waivers, approval, tool, work, hardware, phase, calls, verdict,
    published, source, learned, runs, edits, faults>>

SuiteSpec == SuiteInit /\ [][SuiteNext]_suiteVars
-----------------------------------------------------------------------------
(* However a run crashes, is taken over, cancelled or answered, a          *)
(* workspace is worked on by one workflow not yet asked to stop; and over  *)
(* two requests a build is a success only for the design on disk.          *)
GraphSound ==
  /\ part = "graph" => Graph!TypeOK /\ Graph!OneLiveWorkflow
  /\ part = "turns" => Turns!SuccessIsCurrent

(* A project the reviewer passes deserves it, and the memory learns no more *)
(* than what passed.                                                       *)
ReviewSound == part = "review" => Verdict!ReviewSound

(* A workflow that starts from nothing does so on grounded architecture,   *)
(* after the parts and with no decision of the user outstanding.           *)
FreshStartGrounded == [][part = "turns" => Turns!GroundedStart]_suiteVars
=============================================================================
