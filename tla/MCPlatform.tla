----------------------------- MODULE MCPlatform -----------------------------
(***************************************************************************)
(* Components around the pipeline and the services.                        *)
(***************************************************************************)
EXTENDS BoardRelease, Platform, Integers, Sequences, FiniteSets, TLC

VARIABLES
  parts, plan, obs, first, results, report, store, exit, events, gap, run, audit, shelf, earned, board, backup,
  spare, routed, base, route, ses, at, entry, calls, job, todo, free,
  placed, unplaced, zones, frame, critical, baseline, manifest, written,
  best, before

EvalPlans ==
  {<<[category |-> "eda", arm |-> "single", pair |-> "p", release |-> "any", replay |-> "none"],
     [category |-> "eda", arm |-> "multi", pair |-> "p", release |-> "any", replay |-> "none"]>>,
   <<[category |-> "other", arm |-> "none", pair |-> "none", release |-> "yes", replay |-> "same"]>>,
   <<[category |-> "other", arm |-> "none", pair |-> "none", release |-> "no", replay |-> "conflict"]>>,
   <<[category |-> "eda", arm |-> "single", pair |-> "p", release |-> "any", replay |-> "none"]>>}
CallPlans ==
  {<<[category |-> "other", arm |-> "none", pair |-> "none", release |-> "any", replay |-> "none"]>>}
Trial(mode, required, identity, pinned, paths, bundle) ==
  [mode |-> mode, required |-> required, identity |-> identity, pinned |-> pinned,
   plan |-> paths, bundle |-> bundle]
Core == <<"core", "holdout">>
Trials ==
  {Trial("local", "local", TRUE, TRUE, {"low"}, {"low"}),
   Trial("job", "job", TRUE, TRUE, {"generator"}, {"generator"}),
   Trial("local", "local", TRUE, TRUE, {"generator"}, {"generator"}),
   Trial("local", "job", TRUE, TRUE, {"low"}, {"low"}),
   Trial("local", "local", FALSE, TRUE, {"low"}, {"low"}),
   Trial("job", "job", TRUE, FALSE, {"low"}, {"low"}),
   Trial("local", "local", TRUE, TRUE, {"low"}, {"low", "denied"})}

Wired(open, gaps, errs, narrow) ==
  [kind |-> "board", open |-> open, gaps |-> gaps, errs |-> errs, narrow |-> narrow,
   planes |-> FALSE, stale |-> FALSE]
RouterSetup(budget, nets, explicit, adaptive, planes, repairs) ==
  [budget |-> budget, critical |-> nets, explicit |-> explicit, adaptive |-> adaptive,
   planes |-> planes, calls |-> repairs]
RouterSetups ==
  {RouterSetup(1, FALSE, TRUE, FALSE, TRUE, 2), RouterSetup(3, TRUE, TRUE, TRUE, FALSE, 0),
   RouterSetup(2, TRUE, FALSE, FALSE, FALSE, 1)}
RouterBoards == {Wired(2, 2, {}, TRUE), Wired(1, 0, {"e"}, FALSE), Wired(0, 0, {}, FALSE)}

Made(errs, silk, dead, sound) ==
  [print |-> 1, errs |-> errs, silk |-> silk, dead |-> dead, sound |-> sound, applied |-> <<>>]

ReleaseBoards ==
  {Made({}, 1, 1, TRUE), Made({"drill", "open"}, 0, 0, FALSE), Made({"clearance"}, 0, 0, TRUE)}
ReleaseBatches == <<"k">>

Box(x1, y1, x2, y2) == [x1 |-> x1, y1 |-> y1, x2 |-> x2, y2 |-> y2]
Zone(names, target, group, words, x1, y1, x2, y2) ==
  [names |-> names, target |-> target, group |-> group, words |-> words, x1 |-> x1, y1 |-> y1, x2 |-> x2, y2 |-> y2]
LayoutSetup(refs, partitions, existing, resumed, spacing, rounds) ==
  [refs |-> refs, width |-> 10, height |-> 8, edge |-> 0, clear |-> 1, channel |-> 0, margin |-> 2, spacing |-> spacing,
   kind |-> [u |-> "mcu", c |-> "decoupling", j |-> "connector", r |-> "support", h |-> "hole", g |-> "hole"],
   group |-> [u |-> "digital", c |-> "", j |-> "connector", r |-> "", h |-> "mounting_hole", g |-> "mounting_hole"],
   words |-> [u |-> {"core"}, c |-> {"core"}, j |-> {"input"}, r |-> {"input", "core"}, h |-> {"hole"}, g |-> {"hole"}],
   near |-> [u |-> <<>>, c |-> [u |-> 2], j |-> <<>>, r |-> [u |-> 1, j |-> 3], h |-> <<>>, g |-> <<>>],
   passive |-> {"c", "r", "h", "g"}, rail |-> {"u", "c"},
   pad |-> [u |-> <<1, 0>>, c |-> <<0, 0>>, j |-> <<0, 0>>, r |-> <<0, 0>>, h |-> <<0, 0>>, g |-> <<0, 0>>],
   boxes |-> [u |-> {Box(-1, -1, 1, 1)}, c |-> {Box(0, 0, 1, 1)}, j |-> {Box(0, 0, 1, 2), Box(0, 0, 2, 1)}, r |-> {Box(0, 0, 1, 1)},
              h |-> {Box(0, 0, 1, 1)}, g |-> {Box(0, 0, 1, 1)}],
   limit |-> [crystal |-> 3, decoupling |-> 3, memory |-> 4, support |-> 4],
   fp |-> [u |-> "a", c |-> "a", j |-> "a", r |-> "a", h |-> "a", g |-> "a"],
   partitions |-> partitions, existing |-> existing, resumed |-> resumed, calls |-> rounds, moves |-> {<<8, 6>>, <<5, 2>>}]
At(x, y) == [x |-> x, y |-> y, turns |-> 0]
On(x, y, f) == [x |-> x, y |-> y, turns |-> 0, fp |-> f]
Plain == <<Zone({}, "", "digital", {}, 3, 1, 8, 7), Zone({}, "j", "connector", {}, 0, 0, 2, 8)>>
Holes == <<Zone({}, "", "mounting_hole", {}, 0, 0, 3, 3), Zone({}, "", "mounting_hole", {}, 7, 5, 10, 8)>>
Four == <<"u", "c", "j", "r">>
Cramped == <<Zone({}, "u", "digital", {}, 0, 0, 1, 1), Zone({"c", "j"}, "", "", {}, 0, 0, 4, 8), Zone({"c"}, "u", "", {}, 0, 0, 9, 8), Zone({}, "j", "connector", {}, 8, 0, 10, 8)>>
LayoutSetups == {LayoutSetup(Four, {Plain}, <<>>, <<>>, 2, 1),
       LayoutSetup(Four, {Cramped}, <<>>, <<>>, 2, 0),
       LayoutSetup(<<"u", "c", "h", "g">>, {Holes, Plain}, <<>>, <<>>, 2, 0),
       LayoutSetup(Four, {Plain}, <<>>, <<>>, 9, 0),
       LayoutSetup(Four, {Plain}, <<>>, [u |-> At(7,4), c |-> At(2,6), j |-> At(1,2), r |-> At(8,6)], 2, 1),
       LayoutSetup(Four, {Plain}, <<>>, [u |-> At(7,4), c |-> At(8,5), j |-> At(1,2), r |-> At(5,4)], 2, 1),
       LayoutSetup(Four, {Plain}, [u |-> On(7,4,"b"), c |-> On(6,6,"a"), j |-> On(1,2,"a"), r |-> On(8,4,"a")], <<>>, 2, 0)}

Courtyards(w, h) == {Box(-(w \div 2), -(h \div 2), w - w \div 2, h - h \div 2)}
PackJob(mode, order, anchor, region, onEdge, seeds, priority, keep) ==
  [mode |-> mode, width |-> 9, height |-> 8, edge |-> 1, pad |-> 1, margin |-> 2, weight |-> 2,
   boxes |-> [u |-> Courtyards(3, 2), c |-> Courtyards(1, 1), k |-> {Box(0, 0, 3, 1), Box(0, 0, 1, 3)},
              d |-> Courtyards(1, 2)],
   target |-> [u |-> <<4, 4>>, k |-> <<6, 2>>], region |-> region, onEdge |-> onEdge, fixed |-> {},
   anchor |-> anchor, order |-> order, priority |-> priority, seeds |-> seeds, keep |-> keep]
PackJobs ==
  {PackJob("rects", <<"u", "c", "k", "d">>, [c |-> "u", d |-> "c"], <<>>, {"d"}, <<>>, {"k"}, TRUE),
   PackJob("rects", <<"u", "c", "d">>, [c |-> "d", d |-> "c"], [c |-> Box(1, 1, 4, 7)], {}, <<>>, {}, TRUE),
   PackJob("shapes", <<"u", "c", "k", "d">>, [c |-> "u", d |-> "c"], <<>>, {"d"}, [d |-> At(2, 2)], {"k"}, TRUE),
   PackJob("shapes", <<"u", "c", "k">>, [c |-> "u"], <<>>, {"c"}, <<>>, {"u"}, FALSE)}

Cases == INSTANCE ConnectionPlanCases WITH
  NBlocks <- 2, TargetPins <- 3, MaxBatches <- 2, UnknownPins <- 2,
  HubPins <- 4, DirectPinLimit <- 5, DirectTokens <- 9, BaseTokens <- 1,
  TokensPerPin <- 1, MaxParts <- 3, Sizes <- {1, 2, 5}, Claimable <- {1},
  Roles <- {1, 2}, sel <- parts

Places == INSTANCE MemoryRunRegistry WITH
  MaxConcurrent <- 1, MaxQueued <- 1, Buffer <- 3, MaxData <- 1,
  Answers <- {1}, Runs <- {1, 2}, StreamRuns <- {}, late <- waiting

Live == INSTANCE LiveEvaluation WITH
  Tools <- {"t"}, Facts <- {"complete", "erc"},
  Results <- {{"complete"}, {"complete", "erc"}}, Plans <- EvalPlans,
  MaxEvents <- 2

Calls == INSTANCE LiveEvaluation WITH
  Tools <- {"t"}, Facts <- {"complete", "erc"},
  Results <- {{"complete"}, {"complete", "erc"}}, Plans <- CallPlans,
  MaxEvents <- 4

Gaps == INSTANCE CapabilityGaps WITH
  Window <- 3, MaxFaults <- 2, Modules <- {}, Refs <- {"u"}, Runs <- {1, 2},
  Project <- <<"a", "b">>, Governed <- {1, 2}, MaxEvents <- 4

Affected == INSTANCE CapabilityGaps WITH
  Window <- 2, MaxFaults <- 0, Modules <- {}, Refs <- {"u", "v"},
  Runs <- {1, 2}, Project <- <<"a", "b">>, Governed <- {1, 2},
  MaxEvents <- 2

Again == INSTANCE CapabilityGaps WITH
  Window <- 2, MaxFaults <- 0, Modules <- {}, Refs <- {"u"},
  Runs <- {1, 2, 3}, Project <- <<"a", "b", "a">>, Governed <- {1, 2, 3},
  MaxEvents <- 2

Shelf == INSTANCE CapabilityGaps WITH
  Window <- 2, MaxFaults <- 1, Modules <- {"m", "n"}, Refs <- {"u"},
  Runs <- {1, 2}, Project <- <<"a", "b">>, Governed <- {1}, MaxEvents <- 2

Routing == INSTANCE SignalRouting WITH
  MaxOpen <- 2, Errors <- {"e"}, Setups <- RouterSetups,
  Routed <- RouterBoards, art <- routed, pc <- at

Layout == INSTANCE BoardLayout WITH
  Jobs <- {}, Setups <- LayoutSetups, pc <- at

Packing == INSTANCE CourtyardPacking WITH
  Jobs <- PackJobs

(* The initial state chooses the component; the variables it does not have *)
(* stay blank.                                                             *)
SuiteInit ==
  \/ /\ part = "release" /\ Init
     /\ parts = 0 /\ rec = 0 /\ task = 0 /\ sub = 0 /\ waiting = 0
     /\ stream = 0 /\ added = 0 /\ given = 0 /\ pend = 0 /\ idle = 0
     /\ topic = 0 /\ relay = 0 /\ faults = 0 /\ plan = 0 /\ obs = 0
     /\ first = 0 /\ results = 0 /\ report = 0 /\ store = 0 /\ exit = 0
     /\ setup = 0 /\ wf = 0 /\ ex = 0 /\ client = 0 /\ cp = 0
     /\ events = 0 /\ gap = 0 /\ run = 0 /\ audit = 0 /\ shelf = 0
     /\ earned = 0 /\ board = 0 /\ backup = 0 /\ spare = 0 /\ routed = 0
     /\ base = 0 /\ route = 0 /\ ses = 0 /\ at = 0 /\ entry = 0
     /\ calls = 0 /\ job = 0 /\ todo = 0 /\ free = 0 /\ placed = 0
     /\ unplaced = 0 /\ zones = 0 /\ frame = 0 /\ critical = 0
     /\ baseline = 0 /\ manifest = 0 /\ written = 0 /\ best = 0
     /\ before = 0
  \/ /\ part = "plan" /\ Cases!Init /\ Init /\ pcb = Made({}, 1, 1, TRUE) /\ sel.proven
     /\ rec = 0 /\ task = 0 /\ sub = 0 /\ waiting = 0 /\ stream = 0
     /\ added = 0 /\ given = 0 /\ pend = 0 /\ idle = 0 /\ topic = 0
     /\ relay = 0 /\ faults = 0 /\ plan = 0 /\ obs = 0 /\ first = 0
     /\ results = 0 /\ report = 0 /\ store = 0 /\ exit = 0 /\ setup = 0
     /\ wf = 0 /\ ex = 0 /\ client = 0 /\ cp = 0 /\ events = 0 /\ gap = 0
     /\ run = 0 /\ audit = 0 /\ shelf = 0 /\ earned = 0 /\ board = 0
     /\ backup = 0 /\ spare = 0 /\ routed = 0 /\ base = 0 /\ route = 0
     /\ ses = 0 /\ at = 0 /\ entry = 0 /\ calls = 0 /\ job = 0
     /\ todo = 0 /\ free = 0 /\ placed = 0 /\ unplaced = 0 /\ zones = 0
     /\ frame = 0 /\ critical = 0 /\ baseline = 0 /\ manifest = 0
     /\ written = 0 /\ best = 0 /\ before = 0
  \/ /\ part = "memory" /\ Memory!Init /\ Init /\ pcb = Made({}, 1, 1, TRUE) /\ sel.proven
     /\ parts = 0 /\ stream = 0 /\ added = 0 /\ given = 0 /\ pend = 0
     /\ idle = 0 /\ topic = 0 /\ relay = 0 /\ faults = 0 /\ plan = 0
     /\ obs = 0 /\ first = 0 /\ results = 0 /\ report = 0 /\ store = 0
     /\ exit = 0 /\ setup = 0 /\ wf = 0 /\ ex = 0 /\ client = 0 /\ cp = 0
     /\ events = 0 /\ gap = 0 /\ run = 0 /\ audit = 0 /\ shelf = 0
     /\ earned = 0 /\ board = 0 /\ backup = 0 /\ spare = 0 /\ routed = 0
     /\ base = 0 /\ route = 0 /\ ses = 0 /\ at = 0 /\ entry = 0
     /\ calls = 0 /\ job = 0 /\ todo = 0 /\ free = 0 /\ placed = 0
     /\ unplaced = 0 /\ zones = 0 /\ frame = 0 /\ critical = 0
     /\ baseline = 0 /\ manifest = 0 /\ written = 0 /\ best = 0
     /\ before = 0
  \/ /\ part = "places" /\ Places!Init /\ Init /\ pcb = Made({}, 1, 1, TRUE) /\ sel.proven
     /\ parts = 0 /\ stream = 0 /\ added = 0 /\ given = 0 /\ pend = 0
     /\ idle = 0 /\ topic = 0 /\ relay = 0 /\ faults = 0 /\ plan = 0
     /\ obs = 0 /\ first = 0 /\ results = 0 /\ report = 0 /\ store = 0
     /\ exit = 0 /\ setup = 0 /\ wf = 0 /\ ex = 0 /\ client = 0 /\ cp = 0
     /\ events = 0 /\ gap = 0 /\ run = 0 /\ audit = 0 /\ shelf = 0
     /\ earned = 0 /\ board = 0 /\ backup = 0 /\ spare = 0 /\ routed = 0
     /\ base = 0 /\ route = 0 /\ ses = 0 /\ at = 0 /\ entry = 0
     /\ calls = 0 /\ job = 0 /\ todo = 0 /\ free = 0 /\ placed = 0
     /\ unplaced = 0 /\ zones = 0 /\ frame = 0 /\ critical = 0
     /\ baseline = 0 /\ manifest = 0 /\ written = 0 /\ best = 0
     /\ before = 0
  \/ /\ part = "audit" /\ Outbox!Init /\ Init /\ pcb = Made({}, 1, 1, TRUE) /\ sel.proven
     /\ parts = 0 /\ rec = 0 /\ task = 0 /\ sub = 0 /\ waiting = 0
     /\ plan = 0 /\ obs = 0 /\ first = 0 /\ results = 0 /\ report = 0
     /\ store = 0 /\ exit = 0 /\ setup = 0 /\ wf = 0 /\ ex = 0
     /\ client = 0 /\ cp = 0 /\ events = 0 /\ gap = 0 /\ run = 0
     /\ audit = 0 /\ shelf = 0 /\ earned = 0 /\ board = 0 /\ backup = 0
     /\ spare = 0 /\ routed = 0 /\ base = 0 /\ route = 0 /\ ses = 0
     /\ at = 0 /\ entry = 0 /\ calls = 0 /\ job = 0 /\ todo = 0
     /\ free = 0 /\ placed = 0 /\ unplaced = 0 /\ zones = 0 /\ frame = 0
     /\ critical = 0 /\ baseline = 0 /\ manifest = 0 /\ written = 0
     /\ best = 0 /\ before = 0
  \/ /\ part = "eval" /\ Live!Init /\ Init /\ pcb = Made({}, 1, 1, TRUE) /\ sel.proven
     /\ parts = 0 /\ rec = 0 /\ task = 0 /\ sub = 0 /\ waiting = 0
     /\ stream = 0 /\ added = 0 /\ given = 0 /\ pend = 0 /\ idle = 0
     /\ topic = 0 /\ relay = 0 /\ faults = 0 /\ setup = 0 /\ wf = 0
     /\ ex = 0 /\ client = 0 /\ cp = 0 /\ events = 0 /\ gap = 0
     /\ run = 0 /\ audit = 0 /\ shelf = 0 /\ earned = 0 /\ board = 0
     /\ backup = 0 /\ spare = 0 /\ routed = 0 /\ base = 0 /\ route = 0
     /\ ses = 0 /\ at = 0 /\ entry = 0 /\ calls = 0 /\ job = 0
     /\ todo = 0 /\ free = 0 /\ placed = 0 /\ unplaced = 0 /\ zones = 0
     /\ frame = 0 /\ critical = 0 /\ baseline = 0 /\ manifest = 0
     /\ written = 0 /\ best = 0 /\ before = 0
  \/ /\ part = "calls" /\ Calls!Init /\ Init /\ pcb = Made({}, 1, 1, TRUE) /\ sel.proven
     /\ parts = 0 /\ rec = 0 /\ task = 0 /\ sub = 0 /\ waiting = 0
     /\ stream = 0 /\ added = 0 /\ given = 0 /\ pend = 0 /\ idle = 0
     /\ topic = 0 /\ relay = 0 /\ faults = 0 /\ setup = 0 /\ wf = 0
     /\ ex = 0 /\ client = 0 /\ cp = 0 /\ events = 0 /\ gap = 0
     /\ run = 0 /\ audit = 0 /\ shelf = 0 /\ earned = 0 /\ board = 0
     /\ backup = 0 /\ spare = 0 /\ routed = 0 /\ base = 0 /\ route = 0
     /\ ses = 0 /\ at = 0 /\ entry = 0 /\ calls = 0 /\ job = 0
     /\ todo = 0 /\ free = 0 /\ placed = 0 /\ unplaced = 0 /\ zones = 0
     /\ frame = 0 /\ critical = 0 /\ baseline = 0 /\ manifest = 0
     /\ written = 0 /\ best = 0 /\ before = 0
  \/ /\ part = "trial" /\ Evolve!Init /\ Init /\ pcb = Made({}, 1, 1, TRUE) /\ sel.proven
     /\ parts = 0 /\ rec = 0 /\ task = 0 /\ sub = 0 /\ waiting = 0
     /\ stream = 0 /\ added = 0 /\ given = 0 /\ pend = 0 /\ idle = 0
     /\ topic = 0 /\ relay = 0 /\ faults = 0 /\ plan = 0 /\ obs = 0
     /\ first = 0 /\ results = 0 /\ report = 0 /\ store = 0 /\ exit = 0
     /\ events = 0 /\ gap = 0 /\ run = 0 /\ audit = 0 /\ shelf = 0
     /\ earned = 0 /\ board = 0 /\ backup = 0 /\ spare = 0 /\ routed = 0
     /\ base = 0 /\ route = 0 /\ ses = 0 /\ at = 0 /\ entry = 0
     /\ calls = 0 /\ job = 0 /\ todo = 0 /\ free = 0 /\ placed = 0
     /\ unplaced = 0 /\ zones = 0 /\ frame = 0 /\ critical = 0
     /\ baseline = 0 /\ manifest = 0 /\ written = 0 /\ best = 0
     /\ before = 0
  \/ /\ part = "gaps" /\ Gaps!Init /\ Init /\ pcb = Made({}, 1, 1, TRUE) /\ sel.proven
     /\ parts = 0 /\ rec = 0 /\ task = 0 /\ sub = 0 /\ waiting = 0
     /\ stream = 0 /\ added = 0 /\ given = 0 /\ pend = 0 /\ idle = 0
     /\ topic = 0 /\ relay = 0 /\ plan = 0 /\ obs = 0 /\ first = 0
     /\ results = 0 /\ report = 0 /\ store = 0 /\ exit = 0 /\ setup = 0
     /\ wf = 0 /\ ex = 0 /\ client = 0 /\ cp = 0 /\ board = 0
     /\ backup = 0 /\ spare = 0 /\ routed = 0 /\ base = 0 /\ route = 0
     /\ ses = 0 /\ at = 0 /\ entry = 0 /\ calls = 0 /\ job = 0
     /\ todo = 0 /\ free = 0 /\ placed = 0 /\ unplaced = 0 /\ zones = 0
     /\ frame = 0 /\ critical = 0 /\ baseline = 0 /\ manifest = 0
     /\ written = 0 /\ best = 0 /\ before = 0
  \/ /\ part = "refs" /\ Affected!Init /\ Init /\ pcb = Made({}, 1, 1, TRUE) /\ sel.proven
     /\ parts = 0 /\ rec = 0 /\ task = 0 /\ sub = 0 /\ waiting = 0
     /\ stream = 0 /\ added = 0 /\ given = 0 /\ pend = 0 /\ idle = 0
     /\ topic = 0 /\ relay = 0 /\ plan = 0 /\ obs = 0 /\ first = 0
     /\ results = 0 /\ report = 0 /\ store = 0 /\ exit = 0 /\ setup = 0
     /\ wf = 0 /\ ex = 0 /\ client = 0 /\ cp = 0 /\ board = 0
     /\ backup = 0 /\ spare = 0 /\ routed = 0 /\ base = 0 /\ route = 0
     /\ ses = 0 /\ at = 0 /\ entry = 0 /\ calls = 0 /\ job = 0
     /\ todo = 0 /\ free = 0 /\ placed = 0 /\ unplaced = 0 /\ zones = 0
     /\ frame = 0 /\ critical = 0 /\ baseline = 0 /\ manifest = 0
     /\ written = 0 /\ best = 0 /\ before = 0
  \/ /\ part = "again" /\ Again!Init /\ Init /\ pcb = Made({}, 1, 1, TRUE) /\ sel.proven
     /\ parts = 0 /\ rec = 0 /\ task = 0 /\ sub = 0 /\ waiting = 0
     /\ stream = 0 /\ added = 0 /\ given = 0 /\ pend = 0 /\ idle = 0
     /\ topic = 0 /\ relay = 0 /\ plan = 0 /\ obs = 0 /\ first = 0
     /\ results = 0 /\ report = 0 /\ store = 0 /\ exit = 0 /\ setup = 0
     /\ wf = 0 /\ ex = 0 /\ client = 0 /\ cp = 0 /\ board = 0
     /\ backup = 0 /\ spare = 0 /\ routed = 0 /\ base = 0 /\ route = 0
     /\ ses = 0 /\ at = 0 /\ entry = 0 /\ calls = 0 /\ job = 0
     /\ todo = 0 /\ free = 0 /\ placed = 0 /\ unplaced = 0 /\ zones = 0
     /\ frame = 0 /\ critical = 0 /\ baseline = 0 /\ manifest = 0
     /\ written = 0 /\ best = 0 /\ before = 0
  \/ /\ part = "modules" /\ Shelf!Init /\ Init /\ pcb = Made({}, 1, 1, TRUE) /\ sel.proven
     /\ parts = 0 /\ rec = 0 /\ task = 0 /\ sub = 0 /\ waiting = 0
     /\ stream = 0 /\ added = 0 /\ given = 0 /\ pend = 0 /\ idle = 0
     /\ topic = 0 /\ relay = 0 /\ plan = 0 /\ obs = 0 /\ first = 0
     /\ results = 0 /\ report = 0 /\ store = 0 /\ exit = 0 /\ setup = 0
     /\ wf = 0 /\ ex = 0 /\ client = 0 /\ cp = 0 /\ board = 0
     /\ backup = 0 /\ spare = 0 /\ routed = 0 /\ base = 0 /\ route = 0
     /\ ses = 0 /\ at = 0 /\ entry = 0 /\ calls = 0 /\ job = 0
     /\ todo = 0 /\ free = 0 /\ placed = 0 /\ unplaced = 0 /\ zones = 0
     /\ frame = 0 /\ critical = 0 /\ baseline = 0 /\ manifest = 0
     /\ written = 0 /\ best = 0 /\ before = 0
  \/ /\ part = "routing" /\ Routing!Init /\ Init /\ pcb = Made({}, 1, 1, TRUE) /\ sel.proven
     /\ parts = 0 /\ rec = 0 /\ task = 0 /\ sub = 0 /\ waiting = 0
     /\ stream = 0 /\ added = 0 /\ given = 0 /\ pend = 0 /\ idle = 0
     /\ topic = 0 /\ relay = 0 /\ faults = 0 /\ plan = 0 /\ obs = 0
     /\ first = 0 /\ results = 0 /\ report = 0 /\ store = 0 /\ exit = 0
     /\ wf = 0 /\ ex = 0 /\ client = 0 /\ cp = 0 /\ events = 0 /\ gap = 0
     /\ run = 0 /\ audit = 0 /\ shelf = 0 /\ earned = 0 /\ job = 0
     /\ todo = 0 /\ free = 0 /\ placed = 0 /\ unplaced = 0 /\ zones = 0
     /\ frame = 0 /\ critical = 0 /\ baseline = 0 /\ manifest = 0
     /\ written = 0 /\ best = 0 /\ before = 0
  \/ /\ part = "layout" /\ Layout!Init /\ Init /\ pcb = Made({}, 1, 1, TRUE) /\ sel.proven
     /\ parts = 0 /\ rec = 0 /\ task = 0 /\ sub = 0 /\ waiting = 0
     /\ stream = 0 /\ added = 0 /\ given = 0 /\ pend = 0 /\ idle = 0
     /\ topic = 0 /\ relay = 0 /\ faults = 0 /\ obs = 0 /\ first = 0
     /\ results = 0 /\ report = 0 /\ store = 0 /\ exit = 0 /\ wf = 0
     /\ ex = 0 /\ client = 0 /\ cp = 0 /\ events = 0 /\ gap = 0
     /\ run = 0 /\ audit = 0 /\ shelf = 0 /\ earned = 0 /\ backup = 0
     /\ spare = 0 /\ routed = 0 /\ base = 0 /\ route = 0 /\ ses = 0
     /\ entry = 0
  \/ /\ part = "packing" /\ Packing!PackInit /\ Init /\ pcb = Made({}, 1, 1, TRUE) /\ sel.proven
     /\ parts = 0 /\ rec = 0 /\ task = 0 /\ sub = 0 /\ waiting = 0
     /\ stream = 0 /\ added = 0 /\ given = 0 /\ pend = 0 /\ idle = 0
     /\ topic = 0 /\ relay = 0 /\ faults = 0 /\ plan = 0 /\ obs = 0
     /\ first = 0 /\ results = 0 /\ report = 0 /\ store = 0 /\ exit = 0
     /\ setup = 0 /\ wf = 0 /\ ex = 0 /\ client = 0 /\ cp = 0
     /\ events = 0 /\ gap = 0 /\ run = 0 /\ audit = 0 /\ shelf = 0
     /\ earned = 0 /\ board = 0 /\ backup = 0 /\ spare = 0 /\ routed = 0
     /\ base = 0 /\ route = 0 /\ ses = 0 /\ at = 0 /\ entry = 0
     /\ calls = 0 /\ zones = 0 /\ frame = 0 /\ critical = 0
     /\ baseline = 0 /\ manifest = 0 /\ written = 0 /\ best = 0
     /\ before = 0

SuiteNext ==
  \/ /\ part = "release" /\ Next
     /\ UNCHANGED <<part, parts, rec, task, sub, waiting, stream, added,
                     given, pend, idle, topic, relay, faults, plan, obs,
                     first, results, report, store, exit, setup, wf, ex,
                     client, cp, events, gap, run, audit, shelf, earned,
                     board, backup, spare, routed, base, route, ses, at,
                     entry, calls, job, todo, free, placed, unplaced, zones,
                     frame, critical, baseline, manifest, written, best,
                     before>>
  \/ /\ part = "plan" /\ Cases!Next
     /\ UNCHANGED <<part, vars, rec, task, sub, waiting, stream, added,
                     given, pend, idle, topic, relay, faults, plan, obs,
                     first, results, report, store, exit, setup, wf, ex,
                     client, cp, events, gap, run, audit, shelf, earned,
                     board, backup, spare, routed, base, route, ses, at,
                     entry, calls, job, todo, free, placed, unplaced, zones,
                     frame, critical, baseline, manifest, written, best,
                     before>>
  \/ /\ part = "memory" /\ Memory!Next
     /\ UNCHANGED <<part, vars, parts, stream, added, given, pend, idle,
                     topic, relay, faults, plan, obs, first, results,
                     report, store, exit, setup, wf, ex, client, cp, events,
                     gap, run, audit, shelf, earned, board, backup, spare,
                     routed, base, route, ses, at, entry, calls, job, todo,
                     free, placed, unplaced, zones, frame, critical,
                     baseline, manifest, written, best, before>>
  \/ /\ part = "places" /\ Places!Next
     /\ UNCHANGED <<part, vars, parts, stream, added, given, pend, idle,
                     topic, relay, faults, plan, obs, first, results,
                     report, store, exit, setup, wf, ex, client, cp, events,
                     gap, run, audit, shelf, earned, board, backup, spare,
                     routed, base, route, ses, at, entry, calls, job, todo,
                     free, placed, unplaced, zones, frame, critical,
                     baseline, manifest, written, best, before>>
  \/ /\ part = "audit" /\ Outbox!Next
     /\ UNCHANGED <<part, vars, parts, rec, task, sub, waiting, plan, obs,
                     first, results, report, store, exit, setup, wf, ex,
                     client, cp, events, gap, run, audit, shelf, earned,
                     board, backup, spare, routed, base, route, ses, at,
                     entry, calls, job, todo, free, placed, unplaced, zones,
                     frame, critical, baseline, manifest, written, best,
                     before>>
  \/ /\ part = "eval" /\ Live!Next
     /\ UNCHANGED <<part, vars, parts, rec, task, sub, waiting, stream,
                     added, given, pend, idle, topic, relay, faults, setup,
                     wf, ex, client, cp, events, gap, run, audit, shelf,
                     earned, board, backup, spare, routed, base, route, ses,
                     at, entry, calls, job, todo, free, placed, unplaced,
                     zones, frame, critical, baseline, manifest, written,
                     best, before>>
  \/ /\ part = "calls" /\ Calls!Next
     /\ UNCHANGED <<part, vars, parts, rec, task, sub, waiting, stream,
                     added, given, pend, idle, topic, relay, faults, setup,
                     wf, ex, client, cp, events, gap, run, audit, shelf,
                     earned, board, backup, spare, routed, base, route, ses,
                     at, entry, calls, job, todo, free, placed, unplaced,
                     zones, frame, critical, baseline, manifest, written,
                     best, before>>
  \/ /\ part = "trial" /\ Evolve!Next
     /\ UNCHANGED <<part, vars, parts, rec, task, sub, waiting, stream,
                     added, given, pend, idle, topic, relay, faults, plan,
                     obs, first, results, report, store, exit, events, gap,
                     run, audit, shelf, earned, board, backup, spare,
                     routed, base, route, ses, at, entry, calls, job, todo,
                     free, placed, unplaced, zones, frame, critical,
                     baseline, manifest, written, best, before>>
  \/ /\ part = "gaps" /\ Gaps!Next
     /\ UNCHANGED <<part, vars, parts, rec, task, sub, waiting, stream,
                     added, given, pend, idle, topic, relay, plan, obs,
                     first, results, report, store, exit, setup, wf, ex,
                     client, cp, board, backup, spare, routed, base, route,
                     ses, at, entry, calls, job, todo, free, placed,
                     unplaced, zones, frame, critical, baseline, manifest,
                     written, best, before>>
  \/ /\ part = "refs" /\ Affected!Next
     /\ UNCHANGED <<part, vars, parts, rec, task, sub, waiting, stream,
                     added, given, pend, idle, topic, relay, plan, obs,
                     first, results, report, store, exit, setup, wf, ex,
                     client, cp, board, backup, spare, routed, base, route,
                     ses, at, entry, calls, job, todo, free, placed,
                     unplaced, zones, frame, critical, baseline, manifest,
                     written, best, before>>
  \/ /\ part = "again" /\ Again!Next
     /\ UNCHANGED <<part, vars, parts, rec, task, sub, waiting, stream,
                     added, given, pend, idle, topic, relay, plan, obs,
                     first, results, report, store, exit, setup, wf, ex,
                     client, cp, board, backup, spare, routed, base, route,
                     ses, at, entry, calls, job, todo, free, placed,
                     unplaced, zones, frame, critical, baseline, manifest,
                     written, best, before>>
  \/ /\ part = "modules" /\ Shelf!Next
     /\ UNCHANGED <<part, vars, parts, rec, task, sub, waiting, stream,
                     added, given, pend, idle, topic, relay, plan, obs,
                     first, results, report, store, exit, setup, wf, ex,
                     client, cp, board, backup, spare, routed, base, route,
                     ses, at, entry, calls, job, todo, free, placed,
                     unplaced, zones, frame, critical, baseline, manifest,
                     written, best, before>>
  \/ /\ part = "routing" /\ Routing!Next
     /\ UNCHANGED <<part, vars, parts, rec, task, sub, waiting, stream,
                     added, given, pend, idle, topic, relay, faults, plan,
                     obs, first, results, report, store, exit, wf, ex,
                     client, cp, events, gap, run, audit, shelf, earned,
                     job, todo, free, placed, unplaced, zones, frame,
                     critical, baseline, manifest, written, best, before>>
  \/ /\ part = "layout" /\ Layout!Next
     /\ UNCHANGED <<part, vars, parts, rec, task, sub, waiting, stream,
                     added, given, pend, idle, topic, relay, faults, obs,
                     first, results, report, store, exit, wf, ex, client,
                     cp, events, gap, run, audit, shelf, earned, backup,
                     spare, routed, base, route, ses, entry>>
  \/ /\ part = "packing" /\ Packing!Pack
     /\ UNCHANGED <<part, vars, parts, rec, task, sub, waiting, stream,
                     added, given, pend, idle, topic, relay, faults, plan,
                     obs, first, results, report, store, exit, setup, wf,
                     ex, client, cp, events, gap, run, audit, shelf, earned,
                     board, backup, spare, routed, base, route, ses, at,
                     entry, calls, zones, frame, critical, baseline,
                     manifest, written, best, before>>

suiteVars ==
  <<part, vars, parts, rec, task, sub, waiting, stream, added, given, pend,
    idle, topic, relay, faults, plan, obs, first, results, report, store,
    exit, setup, wf, ex, client, cp, events, gap, run, audit, shelf, earned,
    board, backup, spare, routed, base, route, ses, at, entry, calls, job,
    todo, free, placed, unplaced, zones, frame, critical, baseline,
    manifest, written, best, before>>

SuiteSpec == SuiteInit /\ [][SuiteNext]_suiteVars
-----------------------------------------------------------------------------
(* Every part with pins is owned by exactly one batch, none of its own     *)
(* parts is a boundary of a batch, batches own only parts with known pins, *)
(* the plan stays within its cap and ignores the order of the listing.     *)
PlanSound ==
  part = "plan" => Cases!PlanPartitions /\ Cases!PlanIgnoresOrder /\ Cases!BatchesMergeable

(* The registry in memory, for two runs that compete for one place and one  *)
(* slot.                                                                   *)
PlacesSound == part = "places" => Places!MemorySound

(* A live evaluation approves a build only if every case ran and no release *)
(* was called ready without intact files behind it; its report is what was  *)
(* graded, a tool call is counted once and the arms are compared on pairs.  *)
EvaluationSound ==
  (part = "eval" => Live!EvaluationSound) /\ (part = "calls" => Calls!EvaluationSound)

(* Sealed suites are run, as README.md says of the production overlay.      *)
SealedSuitesRun == part = "trial" => Evolve!SealedSuitesRun

(* Capability gaps and the collector's candidates go back to observations   *)
(* of two projects and name only what their own project observed; only      *)
(* modules of reviewed, released runs are offered again.                    *)
GapsSound ==
  /\ part = "gaps" => Gaps!GapsSound
  /\ part = "refs" => Affected!GapsSound
  /\ part = "again" => Again!GapsSound
  /\ part = "modules" => Shelf!GapsSound

(* Copper repairs leave the board no worse than they found it and report    *)
(* what the DRC finds on it; a rejected candidate leaves no trace; the best *)
(* invocation of the router is retained with the SES file it wrote itself.  *)
RoutingSound == part = "routing" => Routing!RoutingSound

(* Packed courtyards are apart and on the board, free room is not lost, no  *)
(* part is forgotten; a layout that is done is the one that was checked;    *)
(* repairs bring no clash and no two zones claim one part.                  *)
LayoutSound == (part = "layout" => Layout!LayoutSound) /\ (part = "packing" => Packing!PackingSound)
=============================================================================
