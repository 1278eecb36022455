----------------------------- MODULE BoardLayout -----------------------------
(***************************************************************************)
(* The layout steps of the design pipeline: a partition into zones that a  *)
(* model proposes, targets for the critical parts, the packed placement    *)
(* with its repairs, and the board file with its baseline and constraint   *)
(* manifest.  A part is its kind, the words of its role, the neighbours the *)
(* pin map gives it, its courtyard and its supply pads.                     *)
(***************************************************************************)
EXTENDS CourtyardPacking

CONSTANT Setups   \* selections, and the partitions a model proposes for them

VARIABLES
  setup,
  zones,      \* BoardPartition, bound
  frame,      \* what its readers derive from it
  critical,   \* placements of LAYOUT_CRITICAL
  plan,       \* placements of LAYOUT_GENERAL
  board,      \* the .kicad_pcb file: placements with the footprint written
  baseline,   \* its unrouted copy
  manifest,   \* constraints beside the board
  written,    \* PcbWriteResult
  best,       \* candidates of the shape packer
  before,     \* plan and board before the repair at work
  pc,
  calls

vars == <<packing, setup, zones, frame, critical, plan, board, baseline, manifest, written, best, before, pc, calls>>
steps == <<setup, zones, frame, critical, plan, board, baseline, manifest, written, best, before, pc, calls>>

Nothing == <<>>
Refs == Elements(setup.refs)
Of(kinds) == {r \in Refs : setup.kind[r] \in kinds}
Listed(S) == Sorted(S, LAMBDA a, b : Index(setup.refs, a) < Index(setup.refs, b))

(* -------------------------- Zones and constraints ----------------------- *)

\* bind_zone_targets: targets given once, then names that mention one free
\* reference, then groups of equal size in reading order.  References are
\* listed in their natural order.
Bound(zs) ==
  LET Given(i) == zs[i].target \in Refs /\ \A j \in 1..i - 1 : zs[j].target # zs[i].target
      named[k \in 0..Len(zs)] ==
        IF k = 0 THEN [i \in DOMAIN zs |-> IF Given(i) THEN zs[i].target ELSE ""]
        ELSE LET p == named[k - 1]
                 m == zs[k].names \ {p[i] : i \in DOMAIN p}
             IN IF p[k] = "" /\ Cardinality(m) = 1 THEN [p EXCEPT ![k] = CHOOSE r \in m : TRUE] ELSE p
      p == named[Len(zs)]
      Loose(g) == {r \in Refs : setup.group[r] = g} \ {p[i] : i \in DOMAIN p}
      Vacant(g) == {i \in DOMAIN zs : zs[i].group = g /\ p[i] = ""}
      Above(i, j) == \/ zs[i].y1 + zs[i].y2 < zs[j].y1 + zs[j].y2
                     \/ zs[i].y1 + zs[i].y2 = zs[j].y1 + zs[j].y2 /\ zs[i].x1 + zs[i].x2 < zs[j].x1 + zs[j].x2
      Paired(g) == g # "" /\ Cardinality(Loose(g)) >= 2 /\ Cardinality(Loose(g)) = Cardinality(Vacant(g))
  IN [i \in DOMAIN zs |->
        IF p[i] = "" /\ Paired(zs[i].group)
        THEN [zs[i] EXCEPT !.target = Listed(Loose(zs[i].group))[Index(Sorted(Vacant(zs[i].group), Above), i)]]
        ELSE [zs[i] EXCEPT !.target = p[i]]]

\* _exact_zones: names that are a reference have been bound by then.
Exact(zs) == {r \in Refs : \E i \in DOMAIN zs : zs[i].target = r}
ZoneOf(zs, r) == zs[CHOOSE i \in DOMAIN zs : zs[i].target = r]

\* _zone_edge: the one edge a zone touches.
EdgesOf(z) ==
  {e \in {"left", "right", "top", "bottom"} :
     /\ e = "left" => z.x1 <= 0
     /\ e = "right" => z.x2 >= setup.width
     /\ e = "top" => z.y1 <= 0
     /\ e = "bottom" => z.y2 >= setup.height}
EdgeOf(z) == IF Cardinality(EdgesOf(z)) = 1 THEN CHOOSE e \in EdgesOf(z) : TRUE ELSE ""
EdgeDistance(e, x, y) ==
  CASE e = "left" -> x [] e = "right" -> setup.width - x [] e = "top" -> y [] e = "bottom" -> setup.height - y
EdgeLimit(z, e) == IF e \in {"left", "top"} THEN EdgeDistance(e, z.x2, z.y2) ELSE EdgeDistance(e, z.x1, z.y1)

\* _non_overlapping_order along x or y.
InOrder(zs, axis) ==
  LET Lo(r) == IF axis = "x" THEN ZoneOf(zs, r).x1 ELSE ZoneOf(zs, r).y1
      Hi(r) == IF axis = "x" THEN ZoneOf(zs, r).x2 ELSE ZoneOf(zs, r).y2
      Before(a, b) == \/ Lo(a) < Lo(b)
                      \/ Lo(a) = Lo(b) /\ (Hi(a) < Hi(b) \/ (Hi(a) = Hi(b) /\ Index(setup.refs, a) < Index(setup.refs, b)))
      s == Sorted(Exact(zs), Before)
  IN IF \A i \in 1..Len(s) - 1 : Hi(s[i]) <= Lo(s[i + 1]) THEN s ELSE <<>>

Opposite(e, f) == {e, f} \in {{"left", "right"}, {"top", "bottom"}}

\* compile_placement_constraints
Compiled(zs) ==
  LET onEdge == {r \in Exact(zs) : setup.kind[r] = "connector" /\ EdgeOf(ZoneOf(zs, r)) # ""}
      E(r) == EdgeOf(ZoneOf(zs, r))
      Axis(r) == IF E(r) \in {"left", "right"} THEN "x" ELSE "y"
      Rule(kind, refs, axis, zone) == [kind |-> kind, refs |-> refs, axis |-> axis, zone |-> zone]
      axis == IF InOrder(zs, "x") # <<>> THEN "x" ELSE "y"
  IN {Rule("in_zone", <<r>>, "", ZoneOf(zs, r)) : r \in Exact(zs)}
     \cup {Rule("edge", <<r>>, E(r), ZoneOf(zs, r)) : r \in onEdge}
     \cup {Rule("opposite_edges", <<q[1], q[2]>>, Axis(q[1]), Nothing) : q \in
             {q \in onEdge \X onEdge : Index(setup.refs, q[1]) < Index(setup.refs, q[2]) /\ Opposite(E(q[1]), E(q[2]))}}
     \cup {Rule("ordered", s, axis, Nothing) : s \in
             {InOrder(zs, axis)} \ (IF Cardinality(Exact(zs)) >= 3 THEN {<<>>} ELSE {InOrder(zs, axis)})}

\* placement_constraint_violations; a rule about a part that is not placed
\* is not evaluated.
Violated(rules, at) ==
  {c \in rules :
     /\ Elements(c.refs) \subseteq DOMAIN at
     /\ LET a == at[c.refs[1]]
            Pos(r) == IF c.axis = "x" THEN at[r].x ELSE at[r].y
        IN CASE c.kind = "in_zone" ->
                  ~(c.zone.x1 <= a.x /\ a.x <= c.zone.x2 /\ c.zone.y1 <= a.y /\ a.y <= c.zone.y2)
             [] c.kind = "edge" -> EdgeDistance(c.axis, a.x, a.y) > EdgeLimit(c.zone, c.axis)
             [] c.kind = "opposite_edges" -> Pos(c.refs[1]) = Pos(c.refs[2])
             [] c.kind = "ordered" -> \E i \in 1..Len(c.refs) - 1 : Pos(c.refs[i]) >= Pos(c.refs[i + 1])}

\* allowed_origin_regions
RegionsOf(zs) == [r \in Exact(zs) |-> Rect(ZoneOf(zs, r).x1, ZoneOf(zs, r).y1, ZoneOf(zs, r).x2, ZoneOf(zs, r).y2)]

(* --------------------------- Functional anchors ------------------------- *)

\* _functional_anchor_refs: passives and jumpers anchor nothing.
Eligible == Refs \ setup.passive
Support == {"support"}
Close == {"crystal", "decoupling", "memory", "support"}
Connected(r) == setup.kind[r] \in {"support", "decoupling"}

\* _functional_anchor_ref among the parts with a target: the owner before an
\* endpoint, then shared words, electrical strength and kind.
AnchorChoices(r, targets, wired) ==
  {c \in (targets \cap Eligible) \ {r} :
     /\ setup.kind[c] \notin {"decoupling", "crystal", "support"}
     /\ setup.kind[c] = "connector" => wired
     /\ wired => c \in DOMAIN setup.near[r]
     /\ wired \/ setup.words[r] \cap setup.words[c] # {}}
AnchorKey(r, c, wired) ==
  <<IF setup.kind[r] = "support" /\ setup.kind[c] \in {"connector", "button"} THEN 1 ELSE 0,
    -Cardinality(setup.words[r] \cap setup.words[c]),
    IF wired THEN -setup.near[r][c] ELSE 0,
    CASE setup.kind[c] = "connector" -> 0 [] setup.kind[c] = "mcu" -> 1 [] OTHER -> 2,
    Index(setup.refs, c)>>
Anchor(r, targets, wired) ==
  LET choices == AnchorChoices(r, targets, wired)
      mcus == Of({"mcu"}) \cap targets
  IN IF choices # {}
     THEN CHOOSE c \in choices : \A d \in choices \ {c} : Lexical(AnchorKey(r, c, wired), AnchorKey(r, d, wired))
     ELSE IF wired \/ mcus = {} THEN "" ELSE Listed(mcus)[1]

Centre(z) == <<(z.x1 + z.x2) \div 2, (z.y1 + z.y2) \div 2>>

\* _resolved_zone_targets: the bound zone, the zone of the owner, or the one
\* zone that suits best; a tie is an ambiguity and gives no target.
Suiting(zs, r) ==
  LET Score(i) == (IF setup.group[r] # "" /\ zs[i].group = setup.group[r] THEN 100 ELSE 0)
                    + Cardinality(setup.words[r] \cap zs[i].words)
      top == {i \in DOMAIN zs : Score(i) > 0 /\ \A j \in DOMAIN zs : Score(j) <= Score(i)}
  IN top
Owner(zs, r) == IF setup.kind[r] \in Close THEN Anchor(r, Exact(zs), TRUE) ELSE ""
Unclear(zs) == {r \in Refs \ Exact(zs) : Owner(zs, r) = "" /\ Cardinality(Suiting(zs, r)) > 1}
TargetsOf(zs) ==
  LET own == {r \in Refs \ Exact(zs) : Owner(zs, r) # ""}
      fit == {r \in Refs \ (Exact(zs) \cup own) : Cardinality(Suiting(zs, r)) = 1}
  IN [r \in Exact(zs) \cup own \cup fit |->
        IF r \in Exact(zs) THEN Centre(ZoneOf(zs, r))
        ELSE IF r \in own THEN Centre(ZoneOf(zs, Owner(zs, r)))
        ELSE Centre(zs[CHOOSE i \in Suiting(zs, r) : TRUE])]

(* ----------------------------- The partition ---------------------------- *)

\* LayoutPartitionStep.check: the outline, zones inside it, targets that are
\* parts and a zone for every mounting hole.
PartitionOk(zs) ==
  /\ \A i \in DOMAIN zs : zs[i].x1 >= 0 /\ zs[i].y1 >= 0 /\ zs[i].x2 <= setup.width /\ zs[i].y2 <= setup.height
  /\ \A i \in DOMAIN zs : zs[i].target # "" => zs[i].target \in Refs
  /\ \A i, j \in DOMAIN zs : zs[i].target = zs[j].target /\ zs[i].target # "" => i = j
  /\ Of({"hole"}) \subseteq Exact(zs)

\* A proposal that fails its checks is asked for again.  Every reader binds
\* the partition again, _placement_constraints twice: a name that mentioned
\* two free parts may by then mention one.
Partition ==
  /\ pc = "partition"
  /\ \E zs \in setup.partitions :
       \E b \in {Bound(zs)} : \E c \in {Bound(b)} : \E d \in {Bound(c)} :
         /\ PartitionOk(b) /\ zones' = b
         /\ frame' = [targets |-> TargetsOf(c), ambiguous |-> Unclear(c),
                      rules |-> Compiled(d), regions |-> RegionsOf(d)]
  /\ pc' = IF plan = Nothing THEN "critical" ELSE "check"
  /\ UNCHANGED <<packing, setup, critical, plan, board, baseline, manifest, written, best, before, calls>>

(* --------------------------- The critical parts ------------------------- *)

\* _grid_cells; the nearest cell, the first in rows where two are as near.
Cells == {<<x, y>> : x \in {x \in 1..setup.width - 1 : x % setup.spacing = 1 % setup.spacing},
                     y \in {y \in 1..setup.height - 1 : y % setup.spacing = 1 % setup.spacing}}
RowBefore(c, d) == c[2] < d[2] \/ (c[2] = d[2] /\ c[1] < d[1])
Nearest(cells, t) ==
  CHOOSE c \in cells : \A d \in cells \ {c} :
    LET dc == Square(c[1], c[2], t[1], t[2])
        dd == Square(d[1], d[2], t[1], t[2])
    IN dc < dd \/ (dc = dd /\ RowBefore(c, d))
Leftmost(cells, left) ==
  CHOOSE c \in cells : \A d \in cells \ {c} :
    (IF left THEN c[1] < d[1] ELSE c[1] > d[1]) \/ (c[1] = d[1] /\ c[2] < d[2])

Middle == <<setup.width \div 2, setup.height \div 2>>
TargetOr(t, r, default) == IF r \in DOMAIN t THEN t[r] ELSE default

\* LayoutCriticalStep.propose: anchors near their zones, connectors at an
\* edge, then the parts that must be close to their anchors.
CriticalAnchors == [r \in Of({"crystal", "memory", "decoupling"}) |-> Anchor(r, Eligible, Connected(r))]
CriticalOrder ==
  LET close == Listed(Of({"crystal"})) \o Listed(Of({"memory"})) \o Listed(Of({"decoupling"}))
      served == {CriticalAnchors[r] : r \in DOMAIN CriticalAnchors} \ {""}
      first == Listed(Of({"mcu"})) \o Listed(served \ (Of({"mcu"}) \cup Of({"connector"})))
  IN first \o Listed(Of({"connector"})) \o SelectSeq(close, LAMBDA r : r \notin Elements(first))
CriticalStep(at, r) ==
  LET cells == Cells \ {<<at[q].x, at[q].y>> : q \in DOMAIN at}
      zone == TargetOr(frame.targets, r, Middle)
      a == IF r \in DOMAIN CriticalAnchors THEN CriticalAnchors[r] ELSE ""
      near == IF a \in DOMAIN at THEN <<at[a].x, at[a].y>> ELSE zone
      c == IF setup.kind[r] = "connector" THEN Leftmost(cells, "input" \in setup.words[r]) ELSE Nearest(cells, near)
  IN [q \in DOMAIN at \cup {r} |-> IF q = r THEN [x |-> c[1], y |-> c[2], turns |-> 0] ELSE at[q]]
CriticalPlan ==
  LET o == CriticalOrder
      upto[i \in 0..Len(o)] == IF i = 0 THEN <<>> ELSE CriticalStep(upto[i - 1], o[i])
  IN upto[Len(o)]

\* _decoupling_pad_target: origin at which the supply pads would meet, and
\* the square of their distance now.
Pad(at, r) ==
  LET b == Rotated(Rect(setup.pad[r][1], setup.pad[r][2], setup.pad[r][1], setup.pad[r][2]), at[r].turns)
  IN <<b.x1, b.y1>>
PadOwners(at, r) ==
  LET o == Anchor(r, DOMAIN at, TRUE)
  IN {a \in (setup.rail \cap DOMAIN at \cap Eligible) \ {r} : o = "" \/ a = o}
PadPull(at, r) ==
  LET p == Pad(at, r)
      Spot(a) == <<at[a].x + Pad(at, a)[1], at[a].y + Pad(at, a)[2]>>
      Gap(a) == Square(at[r].x + p[1], at[r].y + p[2], Spot(a)[1], Spot(a)[2])
      near == CHOOSE a \in PadOwners(at, r) : \A b \in PadOwners(at, r) : Gap(a) <= Gap(b)
  IN [spot |-> <<Spot(near)[1] - p[1], Spot(near)[2] - p[2]>>, gap |-> Gap(near)]
HasPads(at, r) == setup.kind[r] = "decoupling" /\ r \in setup.rail /\ PadOwners(at, r) # {}

Limit(r) ==
  CASE setup.kind[r] = "crystal" -> setup.limit.crystal
    [] setup.kind[r] = "decoupling" -> setup.limit.decoupling
    [] setup.kind[r] = "memory" -> setup.limit.memory
    [] OTHER -> setup.limit.support

\* near_functional_anchor: squared distance to what a part must be close to.
Reach(at, r) ==
  LET a == Anchor(r, DOMAIN at, Connected(r))
      mcus == Of({"mcu"}) \cap DOMAIN at
      To(q) == Square(at[r].x, at[r].y, at[q].x, at[q].y)
  IN IF HasPads(at, r) THEN PadPull(at, r).gap
     ELSE IF a # "" THEN To(a)
     ELSE IF mcus = {} THEN 0 ELSE CHOOSE d \in {To(q) : q \in mcus} : \A q \in mcus : d <= To(q)
TooFar(at, kinds) == {r \in Of(kinds) \cap DOMAIN at : Reach(at, r) > Limit(r) * Limit(r)}

CriticalErrors(at) ==
  {e \in {"edge", "crystal", "decoupling", "memory"} :
     \/ e = "edge" /\ \E r \in Of({"connector"}) \cap DOMAIN at :
          \A side \in {"left", "right", "top", "bottom"} : EdgeDistance(side, at[r].x, at[r].y) > setup.margin
     \/ e \in {"crystal", "decoupling", "memory"} /\ TooFar(at, {e}) # {}}

\* With more parts than cells min() of nothing raises.
Critical ==
  /\ pc = "critical"
  /\ Len(CriticalOrder) <= Cardinality(Cells)
  /\ critical' = CriticalPlan
  /\ pc' = "general"
  /\ UNCHANGED <<packing, setup, zones, frame, plan, board, baseline, manifest, written, best, before, calls>>
CellsExhausted ==
  /\ pc = "critical"
  /\ Len(CriticalOrder) > Cardinality(Cells)
  /\ pc' = "failed"
  /\ UNCHANGED <<packing, setup, zones, frame, critical, plan, board, baseline, manifest, written, best, before, calls>>

(* ------------------------------- Checking ------------------------------- *)

\* _placement_geometry_violations on real courtyards.
Clashes(at) ==
  {{r, q} : r, q \in DOMAIN at} \
    {c \in {{r, q} : r, q \in DOMAIN at} :
       \A r, q \in c : r = q \/ ~Collide(Shape(setup.boxes[r], at[r], 0), Shape(setup.boxes[q], at[q], 0), setup.clear)}
Outside(at) ==
  {r \in DOMAIN at : \E b \in Shape(setup.boxes[r], at[r], 0) :
     ~Inside(b, Rect(setup.edge, setup.edge, setup.width - setup.edge, setup.height - setup.edge))}

FarSupport(at) ==
  {r \in Of(Support) \cap DOMAIN at :
     LET a == Anchor(r, DOMAIN at, TRUE)
     IN a # "" /\ Far(at[r].x, at[r].y, at[a].x, at[a].y, setup.limit.support)}

\* LayoutGeneralStep.check, errors only.
Errors(at) ==
  CriticalErrors(at) \cup
  {e \in {"all_parts_placed", "local_support", "constraints", "ambiguous"} :
     \/ e = "all_parts_placed" /\ ~(Refs \subseteq DOMAIN at)
     \/ e = "local_support" /\ FarSupport(at) # {}
     \/ e = "constraints" /\ Violated(frame.rules, at) # {}
     \/ e = "ambiguous" /\ frame.ambiguous # {}}

(* -------------------------------- Packing ------------------------------- *)

Corner(i) ==
  <<<<setup.edge + 2, setup.edge + 2>>, <<setup.width - setup.edge - 2, setup.edge + 2>>>>[((i - 1) % 2) + 1]
Mounting ==
  LET holes == Listed(Of({"hole"}))
  IN [r \in Of({"hole"}) |-> IF r \in DOMAIN frame.regions THEN <<(frame.regions[r].x1 + frame.regions[r].x2) \div 2, (frame.regions[r].y1 + frame.regions[r].y2) \div 2>>
                              ELSE Corner(Index(holes, r))]

\* A hole is seeded where zone and outline leave room for its courtyard.
Seeds ==
  LET Low(r) == LET b == Bounds(setup.boxes[r]) IN
        [x |-> Greatest(setup.edge - b.x1, IF r \in DOMAIN frame.regions THEN frame.regions[r].x1 ELSE 0),
         y |-> Greatest(setup.edge - b.y1, IF r \in DOMAIN frame.regions THEN frame.regions[r].y1 ELSE 0)]
      High(r) == LET b == Bounds(setup.boxes[r]) IN
        [x |-> Least(setup.width - setup.edge - b.x2, IF r \in DOMAIN frame.regions THEN frame.regions[r].x2 ELSE setup.width),
         y |-> Least(setup.height - setup.edge - b.y2, IF r \in DOMAIN frame.regions THEN frame.regions[r].y2 ELSE setup.height)]
  IN [r \in {r \in Of({"hole"}) : Low(r).x <= High(r).x /\ Low(r).y <= High(r).y} |->
        [x |-> Clamp(Mounting[r][1], Low(r).x, High(r).x), y |-> Clamp(Mounting[r][2], Low(r).y, High(r).y),
         turns |-> 0]]

\* Targets of the first pass, and of the second from where parts came to be.
Pulled(t, at) ==
  LET Here(q) == IF q \in DOMAIN at THEN <<at[q].x, at[q].y>> ELSE t[q]
      all == DOMAIN t \cup DOMAIN at
      near == {r \in Of(Close) : Anchor(r, all, Connected(r)) # ""}
  IN [r \in DOMAIN t \cup near |-> IF r \in near THEN Here(Anchor(r, all, Connected(r))) ELSE t[r]]
FirstTargets ==
  LET seeds == Seeds
      base == [r \in DOMAIN frame.targets \cup DOMAIN critical \cup Of({"hole"}) |->
                 IF r \in DOMAIN seeds THEN <<seeds[r].x, seeds[r].y>>
                 ELSE IF r \in Of({"hole"}) THEN Mounting[r]
                 ELSE IF r \in DOMAIN critical THEN <<critical[r].x, critical[r].y>>
                 ELSE frame.targets[r]]
  IN Pulled(base, <<>>)
Dependencies(t) ==
  [r \in {r \in Of(Close) : Anchor(r, DOMAIN t, Connected(r)) \notin {"", r}} |-> Anchor(r, DOMAIN t, Connected(r))]

PriorityOrder ==
  Listed(Of({"hole"})) \o Listed(Of({"mcu"})) \o Listed(Of({"memory"})) \o Listed(Of({"connector"}))
Order == PriorityOrder \o Listed(Refs \ Elements(PriorityOrder))

\* emit_group: every root with what depends on it behind it, larger groups
\* first; a cycle without a root follows in the order of the selection.
GroupArea(dep, r) ==
  LET n == Len(Order)
      down[i \in 0..n] ==
        IF i = 0 THEN {r} ELSE down[i - 1] \cup {q \in DOMAIN dep : dep[q] \in down[i - 1]}
      sum[i \in 0..n] ==
        IF i = 0 THEN 0 ELSE sum[i - 1] + (IF Order[i] \in down[n] THEN Area(setup.boxes[Order[i]]) ELSE 0)
  IN sum[n]
DependencyOrder(dep) ==
  LET Heavier(a, b) == \/ GroupArea(dep, a) > GroupArea(dep, b)
                       \/ GroupArea(dep, a) = GroupArea(dep, b) /\ Index(Order, a) < Index(Order, b)
      Ahead(a, b) == LET pa == a \in Elements(PriorityOrder)
                         pb == b \in Elements(PriorityOrder)
                     IN (pa /\ ~pb) \/ (pa = pb /\ Heavier(a, b))
      Kids(r) == Sorted({q \in DOMAIN dep : dep[q] = r}, Heavier)
      walk[i \in Nat] ==
        IF i = 0 THEN [out |-> <<>>, stack |-> Sorted(Refs \ DOMAIN dep, Ahead) \o Order]
        ELSE LET w == walk[i - 1]
                 r == Head(w.stack)
             IN IF w.stack = <<>> THEN w
                ELSE IF r \in Elements(w.out) THEN [w EXCEPT !.stack = Tail(@)]
                ELSE [out |-> Append(w.out, r), stack |-> Kids(r) \o Tail(w.stack)]
  IN walk[3 * Len(Order)].out

Job(mode, targets, order, profile) ==
  [mode |-> mode, width |-> setup.width, height |-> setup.height, edge |-> setup.edge,
   pad |-> IF mode = "rects" THEN setup.clear + setup.channel ELSE setup.clear, margin |-> setup.margin,
   boxes |-> setup.boxes, target |-> targets, region |-> frame.regions, onEdge |-> Of({"connector", "hole"}),
   fixed |-> Of({"hole"}), anchor |-> Dependencies(targets), order |-> order,
   priority |-> Elements(PriorityOrder), seeds |-> IF mode = "rects" THEN <<>> ELSE Seeds, keep |-> profile.keep,
   weight |-> profile.weight]

Profiles ==
  <<[keep |-> TRUE, weight |-> 3], [keep |-> FALSE, weight |-> 3], [keep |-> TRUE, weight |-> 1], [keep |-> TRUE, weight |-> 0]>>

Load(j) ==
  /\ job' = j
  /\ todo' = Start(j).todo
  /\ placed' = Start(j).placed
  /\ free' = {Board(j)}
  /\ unplaced' = {}

(* --------------------- Placement of the whole selection ------------------ *)

Places(b) == [r \in DOMAIN b |-> [x |-> b[r].x, y |-> b[r].y, turns |-> b[r].turns]]

\* Grid spots around t within a limit at which r clashes with nothing.
Spots(at, r, t, turnsSet, limit) ==
  {[x |-> x, y |-> y, turns |-> q] : x \in t[1] - limit..t[1] + limit, y \in t[2] - limit..t[2] + limit, q \in turnsSet}
LegalSpots(at, r, t, turnsSet, limit) ==
  {c \in Spots(at, r, t, turnsSet, limit) :
     LET s == Shape(setup.boxes[r], c, 0)
     IN /\ ~Far(c.x, c.y, t[1], t[2], limit) /\ (c.x # t[1] \/ c.y # t[2])
        /\ \A b \in s : Inside(b, Rect(setup.edge, setup.edge, setup.width - setup.edge, setup.height - setup.edge))
        /\ \A q \in DOMAIN at \ {r} : ~Collide(s, Shape(setup.boxes[q], at[q], 0), setup.clear)}
Closest(cands, t, here) ==
  LET Key(c) == <<Square(c.x, c.y, t[1], t[2]), Square(c.x, c.y, here.x, here.y), c.y, c.x, c.turns>>
  IN CHOOSE c \in cands : \A d \in cands \ {c} : Lexical(Key(c), Key(d))

MutRelocated(at, r, t, turnsSet, limit) ==
  LET c == Spots(at, r, t, turnsSet, limit) IN [at EXCEPT ![r] = Closest(c, t, at[r])]
Relocated(at, r, t, turnsSet, limit) ==
  LET c == LegalSpots(at, r, t, turnsSet, limit)
  IN IF c = {} THEN at ELSE [at EXCEPT ![r] = Closest(c, t, at[r])]

\* _repair_proximity_placements: in the order of the selection, each part
\* that is too far goes to the nearest free spot around what it serves.
MovedClose(at, r) ==
  LET a == Anchor(r, DOMAIN at, Connected(r))
      t == IF HasPads(at, r) THEN PadPull(at, r).spot ELSE <<at[a].x, at[a].y>>
      gap == IF HasPads(at, r) THEN PadPull(at, r).gap ELSE Square(at[r].x, at[r].y, t[1], t[2])
  IN IF r \notin DOMAIN at \cap Of(Close) \/ (a = "" /\ ~HasPads(at, r)) \/ gap <= Limit(r) * Limit(r)
     THEN at ELSE Relocated(at, r, t, {at[r].turns}, Limit(r))
Tightened(at) ==
  LET upto[i \in 0..Len(setup.refs)] ==
        IF i = 0 THEN at
        ELSE LET p == upto[i - 1] IN IF setup.refs[i] \in DOMAIN p THEN MovedClose(p, setup.refs[i]) ELSE p
  IN upto[Len(setup.refs)]

\* _repair_substitution_overlaps: support parts under a changed footprint.
MadeRoom(at, changed) ==
  LET movable == {r \in Of(Support) \cap DOMAIN at : \E q \in changed : q # r /\ {r, q} \in Clashes(at)}
      s == Listed(movable)
      upto[i \in 0..Len(s)] ==
        IF i = 0 THEN at
        ELSE LET p == upto[i - 1]
                 a == Anchor(s[i], DOMAIN p, TRUE)
             IN IF a = "" THEN p
                ELSE Relocated(p, s[i], <<p[a].x, p[a].y>>, 0..3, setup.limit.support)
  IN upto[Len(s)]

\* _recover_layout_from_existing_board
Recovered ==
  LET changed == {r \in Refs : board[r].fp # setup.fp[r]}
  IN MadeRoom(Places(board), changed)
Legal(at) == Errors(at) = {} /\ Clashes(at) = {} /\ Outside(at) = {}
Recoverable ==
  board # Nothing /\ DOMAIN board = Refs /\ \E at \in {Recovered} : Legal(at)

Recover ==
  /\ pc = "general" /\ Recoverable
  /\ plan' = Recovered
  /\ pc' = "check"
  /\ UNCHANGED <<packing, setup, zones, frame, critical, board, baseline, manifest, written, best, before, calls>>

FirstPass ==
  /\ pc = "general" /\ ~Recoverable
  /\ \E t \in {FirstTargets} : \E j \in {Job("rects", t, Order, Profiles[1])} : Load(j)
  /\ pc' = "first"
  /\ UNCHANGED <<setup, zones, frame, critical, plan, board, baseline, manifest, written, best, before, calls>>

SecondPass ==
  /\ pc = "first" /\ todo = <<>>
  /\ \E t \in {Pulled(job.target, placed)} : \E j \in {Job("rects", t, Order, Profiles[1])} : Load(j)
  /\ pc' = "second"
  /\ UNCHANGED <<setup, zones, frame, critical, plan, board, baseline, manifest, written, best, before, calls>>

\* What MaxRects could not do the shape packer tries with four profiles.
Attempt == [at |-> placed, missing |-> Cardinality(unplaced)]
ShapePass ==
  /\ pc \in {"second", "shapes"} /\ todo = <<>> /\ Len(best) < Len(Profiles)
  /\ pc = "second" => unplaced # {} \/ Errors(placed) # {}
  /\ best' = IF pc = "second" THEN <<>> ELSE Append(best, Attempt)
  /\ pc' = "shapes"
  /\ IF Len(best') = Len(Profiles) THEN UNCHANGED packing
     ELSE \E o \in {DependencyOrder(job.anchor)} :
            \E j \in {Job("shapes", job.target, o, Profiles[Len(best') + 1])} : Load(j)
  /\ UNCHANGED <<setup, zones, frame, critical, plan, board, baseline, manifest, written, before, calls>>

\* The fewest unplaced parts, then the fewest errors.
Packed ==
  /\ todo = <<>>
  /\ \/ pc = "second" /\ unplaced = {} /\ Errors(placed) = {} /\ plan' = placed
     \/ /\ pc = "shapes" /\ Len(best) = Len(Profiles)
        /\ \E keys \in {[i \in DOMAIN best |-> <<best[i].missing, Cardinality(Errors(best[i].at))>>]} :
             \E i \in DOMAIN best : (\A k \in DOMAIN best : ~Lexical(keys[k], keys[i])) /\ plan' = best[i].at
  /\ best' = <<>>
  /\ pc' = "check"
  /\ UNCHANGED <<packing, setup, zones, frame, critical, board, baseline, manifest, written, before, calls>>

PackStep == pc \in {"first", "second", "shapes"} /\ Pack /\ UNCHANGED steps

GeneralOk ==
  /\ pc = "check" /\ Errors(plan) = {}
  /\ pc' = "write"
  /\ UNCHANGED <<packing, setup, zones, frame, critical, plan, board, baseline, manifest, written, best, before, calls>>

\* LayoutGeneralStep.repair: repack when parts or zones are wrong, or when
\* moving what is too far changes nothing or leaves errors.
Repair ==
  /\ pc = "check" /\ Errors(plan) # {} /\ calls > 0
  /\ calls' = calls - 1
  /\ \E t \in {Tightened(plan)} :
        IF Errors(plan) \cap {"all_parts_placed", "constraints", "ambiguous"} = {} /\ t # plan /\ Errors(t) = {}
        THEN plan' = t /\ pc' = "check" /\ before' = [plan |-> plan, board |-> board]
        ELSE UNCHANGED plan /\ before' = Nothing /\ pc' = IF critical = Nothing THEN "critical" ELSE "general"
  /\ UNCHANGED <<packing, setup, zones, frame, critical, board, baseline, manifest, written, best>>

GiveUp ==
  /\ pc = "check" /\ Errors(plan) # {} /\ calls = 0
  /\ pc' = "failed"
  /\ UNCHANGED <<packing, setup, zones, frame, critical, plan, board, baseline, manifest, written, best, before, calls>>

(* ----------------------------- The board file --------------------------- *)

\* LayoutWriteStep.propose; a footprint the writer refuses is left out.
Write ==
  /\ pc = "write"
  /\ \E refused \in {{}} \cup {{r} : r \in DOMAIN plan} :
       /\ board' = [r \in DOMAIN plan \ refused |->
                      [x |-> plan[r].x, y |-> plan[r].y, turns |-> plan[r].turns, fp |-> setup.fp[r]]]
       /\ written' = [clashes |-> Clashes(plan), outside |-> Outside(plan), count |-> Cardinality(DOMAIN plan \ refused)]
  /\ baseline' = board'
  /\ manifest' = frame.rules
  /\ pc' = "written"
  /\ UNCHANGED <<packing, setup, zones, frame, critical, plan, best, before, calls>>

WriteOk(w) == w.clashes = {} /\ w.outside = {}
Done ==
  /\ pc = "written" /\ WriteOk(written)
  /\ pc' = "done"
  /\ UNCHANGED <<packing, setup, zones, frame, critical, plan, board, baseline, manifest, written, best, before, calls>>

\* A typed CAD batch moves a part on the board.
CadBatch ==
  /\ pc = "written" /\ ~WriteOk(written) /\ calls > 0
  /\ calls' = calls - 1
  /\ before' = [plan |-> plan, board |-> board]
  /\ \E r \in DOMAIN board, to \in setup.moves : board' = [board EXCEPT ![r].x = to[1], ![r].y = to[2]]
  /\ pc' = "applied"
  /\ UNCHANGED <<packing, setup, zones, frame, critical, plan, baseline, manifest, written, best>>

\* The candidate becomes plan and baseline if it passes the layout checks;
\* otherwise the transaction around the repair restores the files.
Adopt ==
  /\ pc = "applied"
  /\ DOMAIN board = Refs /\ Errors(Places(board)) = {}
  /\ plan' = Places(board)
  /\ baseline' = board
  /\ written' = [clashes |-> Clashes(plan'), outside |-> Outside(plan'), count |-> Cardinality(DOMAIN board)]
  /\ pc' = "written"
  /\ UNCHANGED <<packing, setup, zones, frame, critical, board, manifest, best, before, calls>>
Reject ==
  /\ pc = "applied"
  /\ ~(DOMAIN board = Refs /\ Errors(Places(board)) = {})
  /\ board' = before.board
  /\ pc' = "written"
  /\ UNCHANGED <<packing, setup, zones, frame, critical, plan, baseline, manifest, written, best, before, calls>>

Init ==
  /\ setup \in Setups
  /\ zones = Nothing /\ frame = Nothing /\ critical = Nothing /\ baseline = Nothing /\ written = Nothing
  /\ plan = setup.resumed /\ board = setup.existing
  /\ manifest = {} /\ best = <<>> /\ before = Nothing
  /\ pc = "partition" /\ calls = setup.calls
  /\ job = Nothing /\ todo = <<>> /\ free = {} /\ placed = <<>> /\ unplaced = {}

Next ==
  \/ Partition \/ Critical \/ CellsExhausted
  \/ Recover \/ FirstPass \/ SecondPass \/ ShapePass \/ Packed \/ PackStep
  \/ GeneralOk \/ Repair \/ GiveUp
  \/ Write \/ Done \/ CadBatch \/ Adopt \/ Reject

Spec == Init /\ [][Next]_vars

(* ------------------------------ Properties ------------------------------ *)

(* While parts are packed the packer's promises hold.                       *)
Packs == pc \in {"first", "second", "shapes"} => PackingSound

(* A layout that is done is the one that was checked: the file, its         *)
(* baseline and the plan agree, the manifest holds the rules of the zones   *)
(* and the board keeps them, no courtyard clashes and none leaves the board. *)
DoneIsChecked ==
  pc = "done" =>
    /\ baseline = board /\ \A r \in DOMAIN board : Places(board)[r] = plan[r]
    /\ Errors(plan) = {} /\ Clashes(Places(board)) = {} /\ Outside(Places(board)) = {}
    /\ manifest = frame.rules /\ Violated(manifest, Places(board)) = {}

(* A placement repair brings no clash that was not there.                   *)
RepairsClashNothing ==
  (pc = "check" /\ before # Nothing) => Clashes(plan) \subseteq Clashes(before.plan)

(* Whatever a model proposes, no two zones claim one part and a zone claims *)
(* only parts there are.                                                    *)
ZonesClaimOnce ==
  \A zs \in setup.partitions :
    LET b == Bound(zs)
    IN \A i, j \in DOMAIN b :
         b[i].target # "" => b[i].target \in Refs /\ (b[i].target = b[j].target => i = j)

LayoutSound == Packs /\ DoneIsChecked /\ RepairsClashNothing /\ ZonesClaimOnce

=============================================================================
