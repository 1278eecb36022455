--------------------------- MODULE SignalRouting ---------------------------
(***************************************************************************)
(* The signal routing step of the design pipeline: the portfolio of        *)
(* Freerouting invocations from the unrouted board, of which the best is   *)
(* retained, and the copper repairs.  Every repair edits the one board     *)
(* file in place, keeps a copy beside it and asks KiCad's DRC whether the  *)
(* edit may stay.  The router, the DRC and the zone filler are external    *)
(* processes that may fail at any call.  A board is what the DRC and the   *)
(* physical audit see of it; where tracks run is left to the searches.     *)
(***************************************************************************)
EXTENDS Integers, FiniteSets

CONSTANTS
  MaxOpen,   \* bound on open connections of a board
  Errors,    \* other DRC errors a board may have
  Setups,    \* what a run asks of the router, and the bound on its repairs
  Routed     \* boards the router may leave

VARIABLES
  setup,
  board,     \* the .kicad_pcb file
  backup,    \* its copy while a repair is at work
  spare,     \* its copy while a candidate is tried
  art,       \* RouteResult
  base,      \* what the last accepted DRC said
  route,     \* invocations of the router
  ses,       \* the SES file beside the board
  pc,
  entry,     \* board and artifact the repair at work was called with (ghost)
  calls

vars == <<setup, board, backup, spare, art, base, route, ses, pc, entry, calls>>

NoFile == [kind |-> "none"]
\* open: unconnected items, gaps: those a local repair can start from,
\* stale: zone fills older than the tracks.
Board(open, gaps, errs, narrow, planes, stale) ==
  [kind |-> "board", open |-> open, gaps |-> gaps, errs |-> errs, narrow |-> narrow, planes |-> planes,
   stale |-> stale]
Panels ==
  {Board(k, g * k, e, n, p # "none", p = "stale") :
     k \in 0..MaxOpen, g \in {0, 1}, e \in SUBSET Errors, n \in BOOLEAN, p \in {"none", "poured", "stale"}}
Unrouted == Board(MaxOpen, MaxOpen, {}, FALSE, FALSE, FALSE)

(* ------------------------------ KiCad's DRC ----------------------------- *)

Unreadable == [ok |-> FALSE, open |-> 0, gaps |-> 0, errs |-> {"unreadable"}, inv |-> {}, won |-> FALSE]

\* _routing_physical_invariant_blockers
Blockers(b) == IF b.narrow THEN {"minimum_track_width"} ELSE {}

\* _read_drc_snapshot: an item without usable end points is still open.
Snapshot(b) ==
  [ok |-> TRUE, open |-> b.open, gaps |-> b.gaps, errs |-> b.errs, inv |-> Blockers(b), won |-> FALSE]

\* _run_kicad_drc_snapshot
DRC(b) == {Unreadable, Snapshot(b)}

\* _synchronize_route_result_with_drc
Synchronized(a, s) == IF s.ok THEN [a EXCEPT !.open = s.open] ELSE a

\* _refill_copper_zones: only fills older than the tracks change anything.
Refilled(b) ==
  IF b.stale
  THEN {c \in Panels : c.planes = b.planes /\ c.narrow = b.narrow /\ ~c.stale}
  ELSE {b}

(* ------------------------- The router's worker -------------------------- *)

NoOutcome == [ok |-> FALSE, open |-> -2, layers |-> 0]
Failed(n) == [ok |-> FALSE, open |-> -1, layers |-> n]
Route0 == [stage |-> "none", tries |-> 0, left |-> {}, again |-> FALSE, last |-> NoOutcome, best |-> NoOutcome,
           file |-> NoFile, bestSes |-> "none", layers |-> 2, seen |-> {}]

Outcome(o) == route' = [route EXCEPT !.last = o, !.seen = @ \cup {o}]

\* autoroute starts the worker on the unrouted board; the SES of an earlier
\* invocation is deleted before the first pass.
Invoke ==
  /\ pc = "invoke"
  /\ route.tries < setup.budget
  /\ route' = [route EXCEPT !.tries = @ + 1, !.left = IF setup.critical THEN {"critical", "all"} ELSE {"all"},
                            !.again = FALSE]
  /\ board' = Unrouted
  /\ ses' = "none"
  /\ pc' = "pass"
  /\ UNCHANGED <<setup, backup, spare, art, base, entry, calls>>

\* Without tools, or when a class does not bind, nothing is started.
NotInvoked ==
  /\ pc = "invoke"
  /\ route.tries < setup.budget
  /\ route' = [route EXCEPT !.tries = @ + 1, !.last = Failed(route.layers), !.seen = @ \cup {Failed(route.layers)}]
  /\ board' = Unrouted
  /\ pc' = "score"
  /\ UNCHANGED <<setup, backup, spare, art, base, ses, entry, calls>>

\* The budget is spent: the candidate is none and the last outcome stays.
BudgetSpent ==
  /\ pc = "invoke"
  /\ route.tries >= setup.budget
  /\ pc' = "retain"
  /\ UNCHANGED <<setup, board, backup, spare, art, base, route, ses, entry, calls>>

CriticalPass ==
  /\ pc = "pass" /\ "critical" \in route.left
  /\ route' = [route EXCEPT !.left = @ \ {"critical"}]
  /\ \E b \in Routed : board' = b
  /\ UNCHANGED <<setup, backup, spare, art, base, ses, pc, entry, calls>>

\* A router that livelocks on the critical traces is run once more over the
\* prepared board in one pass.
SinglePass ==
  /\ pc = "pass" /\ setup.critical /\ ~route.again
  /\ route' = [route EXCEPT !.left = {"all"}, !.again = TRUE]
  /\ board' = Unrouted
  /\ UNCHANGED <<setup, backup, spare, art, base, ses, pc, entry, calls>>

\* The pass over all nets leaves a SES file of its own, which is imported;
\* the router may count fewer open connections than the DRC.
FullPass ==
  /\ pc = "pass" /\ route.left = {"all"}
  /\ \E b \in Routed, k \in 0..MaxOpen :
       k <= b.open /\ board' = b /\ Outcome([ok |-> TRUE, open |-> k, layers |-> route.layers])
  /\ ses' = "fresh"
  /\ pc' = "score"
  /\ UNCHANGED <<setup, backup, spare, art, base, entry, calls>>

\* A pass fails, a SES cannot be imported or the worker runs out of time: the
\* board may hold traces, and the SES of the failed pass.
PassFails ==
  /\ pc = "pass"
  /\ Outcome(Failed(route.layers))
  /\ ses' \in {ses, "fresh"}
  /\ pc' = "score"
  /\ UNCHANGED <<setup, board, backup, spare, art, base, entry, calls>>

(* ----------------------------- The portfolio ---------------------------- *)

Rank(o) == IF o.ok THEN 0 ELSE IF o = NoOutcome THEN 2 ELSE 1
Count(o) == IF o.open >= 0 THEN o.open ELSE MaxOpen + 1
Better(o, p) == Rank(o) < Rank(p) \/ (Rank(o) = Rank(p) /\ Count(o) < Count(p))
Ties(o, p) == Rank(o) = Rank(p) /\ Count(o) = Count(p)

Begin ==
  /\ pc = "start"
  /\ route' = [Route0 EXCEPT !.stage = "requested",
       !.layers = IF ~setup.explicit /\ ses # "none" THEN 4 ELSE 2]
  /\ pc' = "invoke"
  /\ UNCHANGED <<setup, board, backup, spare, art, base, ses, entry, calls>>

\* The portfolio: more layers, then more passes or the fab's minimum rules.
NextStage(r) ==
  LET open == r.last.ok /\ r.last.open > 0 IN
  IF ~open \/ r.stage \notin {"requested", "escalation"} THEN "done"
  ELSE IF r.stage = "requested" /\ ~setup.explicit /\ r.layers < 4 THEN "escalation"
  ELSE IF setup.adaptive THEN "fab_min"
  ELSE IF r.last.layers >= 4 \/ setup.explicit THEN "extended"
  ELSE "done"

\* route_once retains the best outcome with its files; of two alike the one
\* with more tracks.
Score(kept) ==
  /\ Better(route.last, route.best) => kept
  /\ kept => Better(route.last, route.best) \/ Ties(route.last, route.best)

Retain ==
  /\ pc = "score"
  /\ \E kept \in BOOLEAN :
       /\ Score(kept)
       /\ LET r == IF kept THEN [route EXCEPT !.best = route.last, !.file = board, !.bestSes = ses] ELSE route
              s == NextStage(r)
          IN /\ route' = [r EXCEPT !.stage = s, !.layers = IF s = "escalation" THEN 4 ELSE r.last.layers]
             /\ pc' = IF s = "done" THEN "retain" ELSE "invoke"
  /\ UNCHANGED <<setup, board, backup, spare, art, base, ses, entry, calls>>

\* The best files are put back and the planned planes are poured.
PutBack ==
  /\ pc = "retain"
  /\ board' = route.file /\ ses' = route.bestSes
  /\ art' = [method |-> IF route.best.ok THEN "freerouting" ELSE "error", open |-> route.best.open,
             layers |-> route.best.layers, note |-> calls]
  /\ route' = [Route0 EXCEPT !.best = route.best, !.seen = route.seen]
  /\ backup' = NoFile
  /\ pc' = "pour"
  /\ UNCHANGED <<setup, spare, base, entry, calls>>

(* -------------------------- Planes and stitching ------------------------ *)

\* _plane_stitch_worker works on copies and hands over a monotonic gain only.
Stitched(b) ==
  {c \in Panels : /\ c.errs \subseteq b.errs /\ c.open <= b.open
                  /\ c.narrow = b.narrow /\ c.planes /\ ~c.stale
                  /\ c.open < b.open \/ ~b.planes}

\* _repair_power_plane_gaps: what the worker leaves stays only if it says so.
Poured(accepted, c) ==
  \/ accepted /\ c \in Stitched(board)
  \/ ~accepted /\ c = board

\* The worker may write the board and then fail its last DRC: the copy is put
\* back, and the artifact stays.
Pour ==
  /\ pc = "pour"
  /\ \E accepted \in BOOLEAN, c \in Panels :
       /\ Poured(accepted, c)
       /\ accepted => setup.planes /\ art.open >= 0
       /\ board' = c
       /\ \E s \in DRC(c) : /\ art' = Synchronized(IF accepted THEN [art EXCEPT !.open = c.open] ELSE art, s)
  /\ route' = Route0
  /\ pc' = IF entry.kind = "relocate" THEN "judge" ELSE "rest"
  /\ UNCHANGED <<setup, backup, spare, base, ses, entry, calls>>

(* ---------------------------- Entry of a repair ------------------------- *)

Tools == {"batch", "connectivity", "width", "relocate", "local"}
NoEntry == [kind |-> "none", board |-> NoFile, art |-> [method |-> "none", open |-> 0, layers |-> 0, note |-> 0],
            ses |-> "none", rejected |-> FALSE]

\* repair_applicable, and the repair the recovery tool names.
Call(tool) ==
  /\ pc = "rest" /\ calls < setup.calls
  /\ art.method = "freerouting"
  /\ art.open > 0 \/ board.narrow \/ (setup.planes /\ ~board.planes)
  /\ entry' = [kind |-> tool, board |-> board, art |-> art, ses |-> ses, rejected |-> FALSE]
  /\ calls' = calls + 1
  /\ pc' = CASE tool = "batch"        -> "batch"
             [] tool = "width"        -> "width"
             [] tool = "relocate"     -> "relocate"
             [] tool = "local"        -> IF board.narrow THEN "width" ELSE "gaps"
             [] tool = "connectivity" -> "gaps"
  /\ UNCHANGED <<setup, board, backup, spare, art, base, route, ses>>

Return(a) == art' = a /\ pc' = "rest"
Unchanged == Return(art)

(* ----------------------- _repair_drc_connectivity_gaps ------------------ *)

\* After a search without gain: the local repair goes on to the widths, and
\* from there to the planes.
OnWith(next) == IF entry.kind = "local" THEN next ELSE "rest"

GapsBegin ==
  /\ pc = "gaps"
  /\ backup' = board
  /\ \/ board.planes /\ board' \in Refilled(board) /\ pc' = "baseline"
     \/ ~board.planes /\ board' = board /\ pc' = "baseline"
     \/ board.planes /\ board' \in {board} \cup Refilled(board) /\ pc' = "undo"
  /\ UNCHANGED <<setup, spare, art, base, route, ses, entry, calls>>

\* Without a gap to start from the artifact takes the DRC's count, and the
\* refilled board stays.
GapsBaseline ==
  /\ pc = "baseline"
  /\ \E s \in DRC(board) :
       /\ base' = s
       /\ \/ ~s.ok /\ pc' = "undo" /\ UNCHANGED <<backup, art>>
          \/ /\ s.ok /\ s.gaps = 0
             /\ backup' = NoFile
             /\ art' = IF s.open < art.open THEN [Synchronized(art, s) EXCEPT !.note = calls] ELSE art
             /\ pc' = IF s.open < art.open THEN "rest" ELSE OnWith("width")
          \/ s.ok /\ s.gaps > 0 /\ pc' = "normalize" /\ UNCHANGED <<backup, art>>
  /\ UNCHANGED <<setup, board, spare, route, ses, entry, calls>>

\* Segments a planned pour owns are taken out if the DRC does not mind.
Normalize ==
  /\ pc = "normalize"
  /\ pc' = "search"
  /\ \/ UNCHANGED <<board, base>>
     \/ /\ board.planes /\ setup.planes
        /\ \E c \in Panels :
             /\ c.planes /\ c.narrow = board.narrow /\ ~c.stale
             /\ \/ c.open <= base.open /\ c.errs \subseteq base.errs /\ board' = c /\ base' = [Snapshot(c) EXCEPT !.inv = base.inv]
                \/ board' = backup /\ base' = base
  /\ UNCHANGED <<setup, backup, spare, art, route, ses, entry, calls>>

\* The searches propose tracks on one layer, a hop to another and a path over
\* all: what the board becomes with one of them is up to the DRC.
Patched(b) ==
  {c \in Panels : c.planes = b.planes /\ ~c.stale}

GapsTry ==
  /\ pc = "search" /\ base.gaps > 0
  /\ spare' = board
  /\ board' \in Patched(board)
  /\ pc' = "tried"
  /\ UNCHANGED <<setup, backup, art, base, route, ses, entry, calls>>

MutAccept(s) == s.ok /\ s.open < base.open /\ s.inv \subseteq base.inv

\* Only a board with fewer open connections and nothing new may stay.
Accept(s) ==
  /\ s.ok /\ s.open < base.open
  /\ s.errs \subseteq base.errs /\ s.inv \subseteq base.inv

Judge(c, s) ==
  \/ Accept(s) /\ board' = c /\ base' = [s EXCEPT !.won = TRUE]
  \/ ~Accept(s) /\ board' = spare /\ UNCHANGED base

\* A signal path may cut a poured plane in two: the plane is repaired inside
\* the candidate before it is judged.
GapsJudge ==
  /\ pc = "tried"
  /\ \E s \in DRC(board) :
       \/ Judge(board, s)
       \/ /\ s.ok /\ board.planes /\ setup.planes
          /\ s.open >= base.open /\ s.errs \subseteq base.errs
          /\ \E accepted \in BOOLEAN, c \in Panels :
               /\ Poured(accepted, c)
               /\ \E t \in DRC(c) : Judge(c, t)
  /\ spare' = NoFile
  /\ pc' = "search"
  /\ UNCHANGED <<setup, backup, art, route, ses, entry, calls>>

\* The searches or the time are used up.  repair takes the artifact only if it
\* counts fewer open connections than its own; copper that was won stays.
GapsEnd ==
  /\ pc = "search"
  /\ backup' = NoFile
  /\ board' = IF base.won THEN board ELSE backup
  /\ IF base.won /\ base.open < art.open
     THEN Return([art EXCEPT !.open = base.open, !.note = calls])
     ELSE pc' = OnWith("width") /\ UNCHANGED art
  /\ UNCHANGED <<setup, spare, base, route, ses, entry, calls>>

GapsFail ==
  /\ pc \in {"search", "tried"}
  /\ board' = backup /\ backup' = NoFile /\ spare' = NoFile
  /\ pc' = OnWith("width")
  /\ UNCHANGED <<setup, art, base, route, ses, entry, calls>>

Undo ==
  /\ pc = "undo"
  /\ board' = backup /\ backup' = NoFile
  /\ pc' = OnWith("width")
  /\ UNCHANGED <<setup, spare, art, base, route, ses, entry, calls>>

(* --------------------- _repair_undersized_physical_tracks --------------- *)

\* The board with its narrow tracks widened, or escape chains rerouted.
Widened(b) == {c \in Panels : c.planes = b.planes /\ c.stale = b.planes}

WidthAccepted(s, c) ==
  s.ok /\ ~c.narrow /\ s.open <= base.open /\ s.errs \subseteq base.errs /\ s.inv \subseteq base.inv

WidthBegin ==
  /\ pc = "width"
  /\ \E s \in DRC(board) :
       /\ base' = s
       /\ IF board.narrow /\ s.ok THEN pc' = "widen" /\ backup' = board
                                  ELSE pc' = OnWith("planes") /\ backup' = NoFile
  /\ UNCHANGED <<setup, board, spare, art, route, ses, entry, calls>>

\* Widening is tried first, rerouting the escapes from the same board next; a
\* local repair that was called for its widths ends here.
Widen ==
  /\ pc = "widen"
  /\ \E c \in Widened(backup) : \E s \in DRC(c) :
       \/ /\ WidthAccepted(s, c)
          /\ board' = c
          /\ Return([art EXCEPT !.note = calls])
       \/ /\ board' = backup
          /\ art' = art
          /\ pc' = IF entry.board.narrow THEN "rest" ELSE OnWith("planes")
  /\ backup' = NoFile
  /\ UNCHANGED <<setup, spare, base, route, ses, entry, calls>>

(* ------------------------ Planes, batches, relocation ------------------- *)

Planes ==
  /\ pc = "planes"
  /\ \E accepted \in BOOLEAN, c \in Panels :
       /\ Poured(accepted, c)
       /\ accepted => setup.planes /\ art.open >= 0 /\ ~board.narrow
       /\ board' = c
       /\ IF accepted THEN Return([art EXCEPT !.open = c.open, !.note = calls]) ELSE Unchanged
  /\ UNCHANGED <<setup, backup, spare, base, route, ses, entry, calls>>

\* apply_cad_action_batch replaces the board atomically, or leaves it when
\* its fingerprint, the worker or the candidate is not what was planned.
Batch ==
  /\ pc = "batch"
  /\ \E s \in DRC(board) :
       /\ base' = s
       /\ \/ UNCHANGED board /\ Unchanged /\ UNCHANGED entry
          \/ /\ s.ok
             /\ \E c \in Routed, fresh \in BOOLEAN :
                  LET d == IF fresh THEN c ELSE [c EXCEPT !.stale = c.planes] IN
                  /\ board' = d
                  /\ \E t \in DRC(d) :
                       IF t.ok /\ t.errs \subseteq s.errs
                       THEN Return([Synchronized(art, t) EXCEPT !.note = calls]) /\ UNCHANGED entry
                       ELSE Unchanged /\ entry' = [entry EXCEPT !.rejected = TRUE]
  /\ UNCHANGED <<setup, backup, spare, route, ses, calls>>

\* _repair_route_endpoint_placement: a legal place for a small end point is
\* found, the board is written again and routed from the start.
Relocate ==
  /\ pc = "relocate"
  /\ \/ Unchanged /\ UNCHANGED backup
     \/ backup' = board /\ pc' = "start" /\ UNCHANGED art
  /\ UNCHANGED <<setup, board, spare, base, route, ses, entry, calls>>

KeepRelocation == art.open < entry.art.open

RelocateJudge ==
  /\ pc = "judge"
  /\ IF KeepRelocation
     THEN UNCHANGED <<board, ses, art>>
     ELSE board' = entry.board /\ ses' = entry.ses /\ art' = entry.art
  /\ backup' = NoFile
  /\ pc' = "rest"
  /\ UNCHANGED <<setup, spare, base, route, entry, calls>>

Init ==
  /\ setup \in Setups
  /\ board = Unrouted /\ backup = NoFile /\ spare = NoFile
  /\ art = NoEntry.art /\ base = Unreadable
  /\ route = Route0 /\ ses \in {"none", "old"}
  /\ pc = "start" /\ entry = NoEntry /\ calls = 0

Next ==
  \/ Begin \/ Invoke \/ NotInvoked \/ BudgetSpent
  \/ CriticalPass \/ SinglePass \/ FullPass \/ PassFails \/ Retain \/ PutBack \/ Pour
  \/ \E tool \in Tools : Call(tool)
  \/ GapsBegin \/ GapsBaseline \/ Normalize \/ GapsTry \/ GapsJudge \/ GapsEnd \/ GapsFail \/ Undo
  \/ WidthBegin \/ Widen \/ Planes \/ Batch \/ Relocate \/ RelocateJudge

Spec == Init /\ [][Next]_vars

(* ------------------------------ Properties ------------------------------ *)

TypeOK ==
  /\ board \in Panels /\ backup \in Panels \cup {NoFile} /\ spare \in Panels \cup {NoFile}
  /\ art.open \in -2..MaxOpen /\ art.layers \in {0, 2, 4}
  /\ ses \in {"none", "old", "fresh"} /\ calls \in 0..setup.calls

NoWorse(b, c) == b.open <= c.open /\ b.errs \subseteq c.errs /\ (b.narrow => c.narrow)
Repaired == pc = "rest" /\ entry.kind # "none" /\ ~entry.rejected

\* A repair that edits copper leaves the board no worse than it found it,
\* whatever failed on the way and whichever candidates were tried inside; if
\* the artifact is as it was and was right about the board, so is the board;
\* an artifact it changed counts what the DRC finds on the board.  Zone fills
\* older than the tracks show what they hid when they are refilled.
CopperMonotonic ==
  (Repaired /\ entry.kind \in {"local", "connectivity", "width"} /\ ~entry.board.stale) =>
    /\ NoWorse(board, entry.board)
    /\ (art = entry.art /\ art.open = entry.board.open) => board = entry.board
    /\ (art # entry.art /\ art.open # entry.art.open) => art.open = board.open

\* A batch or relocation that is not kept leaves no trace, and neither may add
\* errors of another kind or open connections, respectively.
WholesaleKept ==
  /\ (Repaired /\ entry.kind = "batch") => (art = entry.art /\ board = entry.board) \/ board.errs \subseteq entry.board.errs
  /\ (Repaired /\ entry.kind = "relocate") =>
       (art = entry.art /\ board = entry.board /\ ses = entry.ses) \/ art.open < entry.art.open

\* The files of the best invocation are what the step ends with, and the SES
\* of a finished routing comes from an invocation of this step.
BestRetained ==
  /\ pc \in {"retain", "pour"} => \A o \in route.seen : ~Better(o, route.best)
  /\ pc = "retain" => route.file # NoFile /\ (route.best.ok => route.file.open >= route.best.open)
  /\ (pc = "rest" /\ art.method = "freerouting") => ses = "fresh"

\* Copies are gone when the step stands still.
NoCopiesLeft == pc = "rest" => backup = NoFile /\ spare = NoFile

RoutingSound == TypeOK /\ CopperMonotonic /\ WholesaleKept /\ BestRetained /\ NoCopiesLeft
=============================================================================
