------------------------------ MODULE MCDesign ------------------------------
(***************************************************************************)
(* The design pipeline, safety: component selection, the runner in four    *)
(* settings and connection synthesis in two.                               *)
(***************************************************************************)
EXTENDS DesignProofs, Integers, Sequences, TLC

CONSTANTS NoPin, Nothing

VARIABLES inputs, cp, disk, at, out, paid, fault  \* connection synthesis

\* A processor u (x, its variant xa or the order code xb) and a connector or
\* mounting hole j; x may be uninstalled, the sheet of xa renames its pins.
Symbol(lib, dev, fp) == [lib |-> lib, dev |-> dev, fp |-> fp, nums |-> {}, names |-> 0]
X == Symbol("device", "x", "qfp")
XA == Symbol("device", "xa", "none")
Header == Symbol("connector", "unnamed", "none")
Resistor == Symbol("primitive", "unnamed", "none")
Mounting == Symbol("mechanical", "unnamed", "hole")
File(nums, names) == [nums |-> nums, names |-> names]
OnShelf == {X, XA, Header, Resistor, Mounting}
Outlines == {"qfp", "pad2", "big", "hole"}
Installed1 ==
  [sym |-> [s \in OnShelf |-> IF s = Mounting THEN File({}, 1)
                              ELSE File({1, 2}, IF s.lib = "device" THEN 2 ELSE 1)],
   fp  |-> [f \in Outlines |-> File(CASE f = "hole" -> {} [] f = "big" -> {1, 2, 3}
                                      [] OTHER -> {1, 2}, 1)]]
Installations == {Installed1, [Installed1 EXCEPT !.sym[X] = Missing]}
DataSheets ==
  [d \in Devices |-> [nums |-> {1, 2}, names |-> IF d = "xa" THEN 3 ELSE 2, fps |-> {"qfp"}]]
Offer(role, sym, fp, val, asked) ==
  [role |-> role, sym |-> sym, fp |-> fp, val |-> val, req |-> asked, mode |-> Unnamed]
Offers ==
  [r \in PartRefs |->
     IF r = "u" THEN {Offer("processor", X, "qfp", "xb", Unnamed), Offer("ic", XA, "qfp", "xa", "x")}
     ELSE {Offer("connector", Header, "pad2", "plain", Unnamed),
           Offer("hole", Mounting, "hole", "plain", Unnamed)}]
Demands ==
  {[dev |-> "xb", mode |-> "fixed", equiv |-> FALSE],
   [dev |-> "xa", mode |-> "capability", equiv |-> TRUE]}
Replacement ==
  [ref |-> "u", req |-> "xb", sym |-> XA, fp |-> "qfp", val |-> "xa", rel |-> "equivalent",
   covered |-> TRUE, rev |-> 0]
PinTable == [ref |-> "u", req |-> "xb", fp |-> "qfp", nums |-> {1, 2}, names |-> 2]
Launches ==
  {[Stripped EXCEPT !.first = TRUE, !.specs = {PinTable}],
   [Stripped EXCEPT !.fetch = TRUE, !.approved = {Replacement}, !.signed = TRUE]}
Catalogue == ("plain" :> "r100") @@ ("xa" :> "xa")
OrderCodes == {<<"xa", "x">>, <<"xb", "x">>}
AllFamilies == {"processor", "ic", "connector", "passive", "hole"} \X Outlines
ASSUME LaunchesAssumption == FairReplacements
\* A hub u with pins u1, u2 and two resistors; the plan is the planner's.
Planner == INSTANCE ConnectionPlan
  WITH NBlocks <- 2, TargetPins <- 1, MaxBatches <- 3, UnknownPins <- 2,
       HubPins <- 2, DirectPinLimit <- 2, DirectTokens <- 4, BaseTokens <- 1,
       TokensPerPin <- 1

MCRef(n) == CASE n = 1 -> "r" [] n = 2 -> "s" [] n = 3 -> "u"
MCSelection(topo, chosen) ==
  << Planner!Part(3, 1, 2, {}, [b \in 1..2 |-> 0], TRUE),
     Planner!Part(1, 1, 1, IF topo = "t2" THEN {2} ELSE {1}, [b \in 1..2 |-> 0], FALSE) >>
  \o (IF chosen = "small" THEN <<>>
      ELSE << Planner!Part(2, 1, 1, IF topo = "t1" THEN {2} ELSE {1},
                           [b \in 1..2 |-> 0], FALSE) >>)
MCPlans ==
  [in \in {"t1", "t2", "t3"} \X {"small", "large"} |->
     LET made == Planner!Plan(MCSelection(in[1], in[2]))
     IN [i \in DOMAIN made |-> [owned  |-> {MCRef(n) : n \in made[i].owned},
                                shared |-> {MCRef(n) : n \in made[i].shared}]]]
MCPlanOf(topo, chosen) == MCPlans[topo, chosen]
\* t1 and t2 differ in typed ownership, t3 from t1 in its ground domains.
MCLegacy(topo) == "same"
MCOneGround(topo) == topo # "t3"

\* u1a and u1b are two names of one pin; x names no pin.
MCLogical == {"r1", "s1", "u1a", "u1b", "u2", "x"}
MCPartOf(l) == CASE l = "r1" -> "r" [] l = "s1" -> "s" [] OTHER -> "u"
MCPhysical(l) ==
  CASE l \in {"u1a", "u1b"} -> "u1" [] l = "x" -> NoPin [] OTHER -> l
MCPinsOf(r) == CASE r = "r" -> {"r1"} [] r = "s" -> {"s1"} [] r = "u" -> {"u1", "u2"}

\* Answers name one or two pins: owned ones, shared ones, aliases, unknown ones.
Targets ==
  UNION {[ls -> {"gnd", "no-connect"}] :
           ls \in {{"r1"}, {"s1", "u1a"}, {"u1b", "u2"}, {"r1", "x"}}}
    \cup [{"u1a", "u1b"} -> {"gnd", "sig"}]
MCDelta(b, rev, new, t) == [batch |-> b, base |-> rev, create |-> new, target |-> t]
MCAnswers(nr, rev) ==
  {MCDelta(b, rev, new, t) : b \in 1..3, new \in {{}, {"sig"}}, t \in Targets}
    \cup {MCDelta(nr, rev + 1, {}, t) : t \in [{"r1"} -> {"gnd"}]}

Strict ==
  [n |-> 3, arts |-> {1, 2}, score |-> 1, kinds |-> {"design"}, draft |-> FALSE, release |-> TRUE,
   agentic |-> TRUE, capture |-> TRUE, retries |-> 0, stepTurns |-> 2, turns |-> 2,
   replans |-> 1, inter |-> 1, launches |-> 1, tokens |-> 0, failing |-> {2, 3},
   saving |-> {}, raising |-> {}, crashes |-> {}]
Draft ==
  [n |-> 3, arts |-> {1, 2}, score |-> 1, kinds |-> {"design"}, draft |-> TRUE, release |-> FALSE,
   agentic |-> TRUE, capture |-> TRUE, retries |-> 0, stepTurns |-> 2, turns |-> 2,
   replans |-> 1, inter |-> 1, launches |-> 4, tokens |-> 2, failing |-> {2, 3},
   saving |-> {2}, raising |-> {2, 3}, crashes |-> {"running", "unsaved"}]
Resumed ==
  [n |-> 3, arts |-> {1}, score |-> 1, kinds |-> {"design"}, draft |-> FALSE, release |-> TRUE,
   agentic |-> TRUE, capture |-> FALSE, retries |-> 0, stepTurns |-> 1, turns |-> 1,
   replans |-> 1, inter |-> 1, launches |-> 3, tokens |-> 1, failing |-> {3},
   saving |-> {}, raising |-> {2}, crashes |-> {"running", "unsaved"}]
\* Two continuations of one step: the loader refuses the newer one after a
\* rollback to a baseline of the older.
Retried ==
  [n |-> 2, arts |-> {1}, score |-> 1, kinds |-> {"design"}, draft |-> FALSE, release |-> TRUE,
   agentic |-> TRUE, capture |-> TRUE, retries |-> 0, stepTurns |-> 2, turns |-> 1,
   replans |-> 0, inter |-> 1, launches |-> 4, tokens |-> 2, failing |-> {},
   saving |-> {}, raising |-> {1}, crashes |-> {"running", "unsaved"}]
ASSUME RunnersAssumption ==
  /\ Pipeline!RunnerConstants /\ Drafts!RunnerConstants
  /\ Resumes!RunnerConstants /\ Rollbacks!RunnerConstants

Connect == INSTANCE ConnectionSynthesis WITH
  None <- Nothing, Legacy <- MCLegacy, OneGround <- MCOneGround,
  PlanOf <- MCPlanOf, Logical <- MCLogical, PartOf <- MCPartOf,
  Physical <- MCPhysical, PinsOf <- MCPinsOf, Answers <- MCAnswers,
  Rails <- {"gnd"}, NewNets <- {"sig"}, MergeRetries <- 1, RoundLimit <- 3,
  Tries <- 2, Topologies <- {"t1"}, Selections <- {"small", "large"},
  ArtifactFirst <- TRUE, Required <- TRUE, TotalLimit <- 4, Queries <- 1,
  MaxRounds <- 2, MaxCrashes <- 1, MaxLost <- 1, StartVersions <- {}

Reconnect == INSTANCE ConnectionSynthesis WITH
  None <- Nothing, Legacy <- MCLegacy, OneGround <- MCOneGround,
  PlanOf <- MCPlanOf, Logical <- MCLogical, PartOf <- MCPartOf,
  Physical <- MCPhysical, PinsOf <- MCPinsOf, Answers <- MCAnswers,
  Rails <- {"gnd"}, NewNets <- {"sig"}, MergeRetries <- 1, RoundLimit <- 3,
  Tries <- 2, Topologies <- {"t1", "t2", "t3"}, Selections <- {"large"},
  ArtifactFirst <- FALSE, Required <- FALSE, TotalLimit <- 3, Queries <- 1,
  MaxRounds <- 2, MaxCrashes <- 1, MaxLost <- 0, StartVersions <- {1, 2}

(* The initial state chooses the component; the variables it does not have *)
(* stay blank.                                                             *)
SuiteInit ==
  \/ /\ part = "select" /\ Init
     /\ pc = 0 /\ st = 0 /\ ck = 0 /\ files = 0 /\ snaps = 0 /\ until = 0
     /\ tries = 0 /\ after = 0 /\ req = 0 /\ count = 0 /\ inputs = 0
     /\ cp = 0 /\ disk = 0 /\ at = 0 /\ out = 0 /\ paid = 0 /\ fault = 0
  \/ /\ part = "pipeline" /\ Pipeline!Init /\ Init /\ library = Installed1 /\ wanted.dev = "xa" /\ settings.first
     /\ inputs = 0 /\ cp = 0 /\ disk = 0 /\ at = 0 /\ out = 0 /\ paid = 0
     /\ fault = 0
  \/ /\ part = "drafts" /\ Drafts!Init /\ Init /\ library = Installed1 /\ wanted.dev = "xa" /\ settings.first
     /\ inputs = 0 /\ cp = 0 /\ disk = 0 /\ at = 0 /\ out = 0 /\ paid = 0
     /\ fault = 0
  \/ /\ part = "resumes" /\ Resumes!Init /\ Init /\ library = Installed1 /\ wanted.dev = "xa" /\ settings.first
     /\ inputs = 0 /\ cp = 0 /\ disk = 0 /\ at = 0 /\ out = 0 /\ paid = 0
     /\ fault = 0
  \/ /\ part = "rollbacks" /\ Rollbacks!Init /\ Init /\ library = Installed1 /\ wanted.dev = "xa" /\ settings.first
     /\ inputs = 0 /\ cp = 0 /\ disk = 0 /\ at = 0 /\ out = 0 /\ paid = 0
     /\ fault = 0
  \/ /\ part = "connect" /\ Connect!Init /\ Init /\ library = Installed1 /\ wanted.dev = "xa" /\ settings.first
     /\ st = 0 /\ ck = 0 /\ files = 0 /\ snaps = 0 /\ until = 0
     /\ tries = 0 /\ after = 0 /\ req = 0 /\ count = 0
  \/ /\ part = "reconnect" /\ Reconnect!Init /\ Init /\ library = Installed1 /\ wanted.dev = "xa" /\ settings.first
     /\ st = 0 /\ ck = 0 /\ files = 0 /\ snaps = 0 /\ until = 0
     /\ tries = 0 /\ after = 0 /\ req = 0 /\ count = 0

SuiteNext ==
  \/ /\ part = "select" /\ Next
     /\ UNCHANGED <<part, pc, st, ck, files, snaps, until, tries, after,
                     req, count, inputs, cp, disk, at, out, paid, fault>>
  \/ /\ part = "pipeline" /\ Pipeline!Next
     /\ UNCHANGED <<part, vars, inputs, cp, disk, at, out, paid, fault>>
  \/ /\ part = "drafts" /\ Drafts!Next
     /\ UNCHANGED <<part, vars, inputs, cp, disk, at, out, paid, fault>>
  \/ /\ part = "resumes" /\ Resumes!Next
     /\ UNCHANGED <<part, vars, inputs, cp, disk, at, out, paid, fault>>
  \/ /\ part = "rollbacks" /\ Rollbacks!Next
     /\ UNCHANGED <<part, vars, inputs, cp, disk, at, out, paid, fault>>
  \/ /\ part = "connect" /\ Connect!Next
     /\ UNCHANGED <<part, vars, st, ck, files, snaps, until, tries, after,
                     req, count>>
  \/ /\ part = "reconnect" /\ Reconnect!Next
     /\ UNCHANGED <<part, vars, st, ck, files, snaps, until, tries, after,
                     req, count>>

suiteVars ==
  <<part, vars, pc, st, ck, files, snaps, until, tries, after, req, count,
    inputs, cp, disk, at, out, paid, fault>>

SuiteSpec == SuiteInit /\ [][SuiteNext]_suiteVars
-----------------------------------------------------------------------------
(* Every checkpoint of the synthesis describes a netlist of its own        *)
(* inputs, work is kept only for the inputs it was made for, a synthesis   *)
(* reported complete has disposed of every pin of the plan, and over       *)
(* stops and lost saves the paid calls stay within the limit.              *)
SynthesisSound ==
  /\ part = "connect"   => Connect!TypeOK /\ Connect!CheckpointsValid
                            /\ Connect!CompleteDisposes /\ Connect!PaidWithinLimit
  /\ part = "reconnect" => Reconnect!CheckpointsValid /\ Reconnect!CompleteDisposes
                            /\ Reconnect!WorkFitsInputs

(* A save never drops what an earlier one had accepted.                    *)
KeepsAccepted == [][part = "connect" => Connect!KeepAccepted]_suiteVars
=============================================================================
