-------------------------- MODULE CourtyardPacking --------------------------
(***************************************************************************)
(* How the layout steps put courtyards on a board: the MaxRects packer with *)
(* its list of free rectangles, and the grid packer for concave courtyards. *)
(* Coordinates are integers (grid units), a rectangle is the half-open      *)
(* [x1, x2) x [y1, y2).  MaxRects chooses the candidate of least score, a   *)
(* sum with float weights; here any candidate that no other beats in every  *)
(* term of the sum may be chosen.  The grid packer's score is rounded.      *)
(***************************************************************************)
EXTENDS Integers, Sequences, FiniteSets

CONSTANT Jobs   \* what may be packed, see Job

VARIABLES
  job,        \* what is being packed
  todo,       \* references still to be packed, in order
  free,       \* free rectangles of the MaxRects packer
  placed,     \* placements so far
  unplaced    \* references for which there was no candidate

packing == <<job, todo, free, placed, unplaced>>

(* ------------------------------- Geometry ------------------------------- *)

Rect(x1, y1, x2, y2) == [x1 |-> x1, y1 |-> y1, x2 |-> x2, y2 |-> y2]

\* _rotated_bbox: a quarter turn is 90 degrees.
Turned(b) == Rect(b.y1, -b.x2, b.y2, -b.x1)
Rotated(b, turns) ==
  CASE turns = 0 -> b
    [] turns = 1 -> Turned(b)
    [] turns = 2 -> Rect(-b.x2, -b.y2, -b.x1, -b.y1)
    [] turns = 3 -> Rect(-b.y2, b.x1, -b.y1, b.x2)

Grown(b, pad) == Rect(b.x1 - pad, b.y1 - pad, b.x2 + pad, b.y2 + pad)
Moved(b, x, y) == Rect(b.x1 + x, b.y1 + y, b.x2 + x, b.y2 + y)

\* _boxes_overlap
Overlap(a, b, margin) ==
  /\ a.x1 - margin < b.x2 /\ b.x1 - margin < a.x2
  /\ a.y1 - margin < b.y2 /\ b.y1 - margin < a.y2

Inside(a, b) == a.x1 >= b.x1 /\ a.y1 >= b.y1 /\ a.x2 <= b.x2 /\ a.y2 <= b.y2
Empty(a) == a.x1 >= a.x2 \/ a.y1 >= a.y2

\* The padded courtyard rectangles of a placed part.
Shape(boxes, at, pad) == {Moved(Grown(Rotated(b, at.turns), pad), at.x, at.y) : b \in boxes}

Collide(s, t, margin) == \E a \in s, b \in t : Overlap(a, b, margin)

(* ---------------------------- Free rectangles --------------------------- *)

\* What is left of a free rectangle when u is used: whole, or up to four
\* strips that may overlap one another.
Strips(f, u) ==
  IF ~Overlap(f, u, 0)
  THEN {[of |-> f, side |-> "whole", at |-> f]}
  ELSE {s \in {[of |-> f, side |-> "left", at |-> [f EXCEPT !.x2 = u.x1]],
               [of |-> f, side |-> "right", at |-> [f EXCEPT !.x1 = u.x2]],
               [of |-> f, side |-> "below", at |-> [f EXCEPT !.y2 = u.y1]],
               [of |-> f, side |-> "above", at |-> [f EXCEPT !.y1 = u.y2]]} :
          /\ s.side = "left" => u.x1 > f.x1
          /\ s.side = "right" => u.x2 < f.x2
          /\ s.side = "below" => u.y1 > f.y1
          /\ s.side = "above" => u.y2 < f.y2}

\* _prune_free_rectangles drops a strip inside another one of the list; of
\* two equal strips it would drop both.
Pruned(strips) ==
  {s.at : s \in {s \in strips : ~Empty(s.at) /\ \A t \in strips \ {s} : ~Inside(s.at, t.at)}}

\* _split_free_rectangles
Split(rects, u) == Pruned(UNION {Strips(f, u) : f \in rects})

(* ------------------------------ The MaxRects ---------------------------- *)

\* A job: the outline, the margin to its edge, the padding, the boxes of the
\* parts, soft targets, hard regions and the order asked for.
Board(j) == Rect(j.edge, j.edge, j.width - j.edge, j.height - j.edge)

Bounds(boxes) ==
  Rect(CHOOSE v \in {b.x1 : b \in boxes} : \A b \in boxes : v <= b.x1,
       CHOOSE v \in {b.y1 : b \in boxes} : \A b \in boxes : v <= b.y1,
       CHOOSE v \in {b.x2 : b \in boxes} : \A b \in boxes : v >= b.x2,
       CHOOSE v \in {b.y2 : b \in boxes} : \A b \in boxes : v >= b.y2)

Least(a, b) == IF a < b THEN a ELSE b
Greatest(a, b) == IF a < b THEN b ELSE a
Clamp(v, low, high) == Least(Greatest(v, low), high)

Square(ax, ay, bx, by) == (ax - bx) * (ax - bx) + (ay - by) * (ay - by)
Far(ax, ay, bx, by, limit) == Square(ax, ay, bx, by) > limit * limit

\* Region, edge and fixed-target rules of a part's origin.
Allowed(j, ref, x, y, target) ==
  /\ ref \in DOMAIN j.region => /\ j.region[ref].x1 <= x /\ x <= j.region[ref].x2
                                /\ j.region[ref].y1 <= y /\ y <= j.region[ref].y2
  /\ ref \in j.onEdge => \/ x <= j.margin \/ j.width - x <= j.margin
                         \/ y <= j.margin \/ j.height - y <= j.margin
  /\ (ref \in j.fixed /\ target # <<>>) => ~Far(x, y, target[1], target[2], j.margin)

Target(j, ref) == IF ref \in DOMAIN j.target THEN j.target[ref] ELSE <<>>

\* One candidate in free rectangle f: at its corner or as near to the target
\* as it allows.
Fit(j, ref, f, turns, wish) ==
  LET b == Grown(Rotated(Bounds(j.boxes[ref]), turns), j.pad)
      w == b.x2 - b.x1
      h == b.y2 - b.y1
      t == Target(j, ref)
      dx == IF wish THEN Clamp(t[1] - w \div 2, f.x1, f.x2 - w) ELSE f.x1
      dy == IF wish THEN Clamp(t[2] - h \div 2, f.y1, f.y2 - h) ELSE f.y1
  IN [x |-> dx - b.x1, y |-> dy - b.y1, turns |-> turns,
      fits |-> w <= f.x2 - f.x1 /\ h <= f.y2 - f.y1,
      used |-> Rect(dx, dy, dx + w, dy + h),
      terms |-> <<IF t = <<>> THEN 0 ELSE Square(2 * dx + w, 2 * dy + h, 2 * t[1], 2 * t[2]),
                  Least(f.x2 - f.x1 - w, f.y2 - f.y1 - h), Greatest(f.x2 - f.x1 - w, f.y2 - f.y1 - h)>>]

RectCandidates(j, ref) ==
  {c \in {Fit(j, ref, f, turns, wish) :
            f \in free, turns \in {0, 1}, wish \in {FALSE} \cup {Target(j, ref) # <<>>}} :
     c.fits /\ Allowed(j, ref, c.x, c.y, Target(j, ref))}

\* Candidates that no other one beats in every term of the score.
Undominated(cands) ==
  {c \in cands : ~\E d \in cands :
     d.terms # c.terms /\ \A i \in DOMAIN c.terms : d.terms[i] <= c.terms[i]}
\* Candidates of least score, then lowest, then leftmost.
Lexical(s, t) == \E i \in DOMAIN s : s[i] < t[i] /\ \A j \in 1..i - 1 : s[j] = t[j]
First(cands) == {c \in cands : ~\E d \in cands : Lexical(d.terms, c.terms)}

Placement(c) == [x |-> c.x, y |-> c.y, turns |-> c.turns]
Extended(ref, c) == [r \in DOMAIN placed \cup {ref} |-> IF r = ref THEN Placement(c) ELSE placed[r]]

PlaceRect ==
  /\ job.mode = "rects" /\ todo # <<>>
  /\ \E c \in Undominated(RectCandidates(job, Head(todo))) :
       placed' = Extended(Head(todo), c) /\ free' = Split(free, c.used)
  /\ todo' = Tail(todo)
  /\ UNCHANGED <<job, unplaced>>

(* --------------------------- The shape packer --------------------------- *)

Occupied(j) == UNION {Shape(j.boxes[r], placed[r], j.pad) : r \in DOMAIN placed}

\* A part with an anchor that is placed is drawn to the anchor instead.
Drawn(j, ref) ==
  IF ref \in DOMAIN j.anchor /\ j.anchor[ref] \in DOMAIN placed
  THEN <<placed[j.anchor[ref]].x, placed[j.anchor[ref]].y>>
  ELSE Target(j, ref)

\* Scored by a sum of the distance and of what the packed parts would span.
ShapeCandidates(j, ref) ==
  LET taken == Occupied(j)
      Cand(turns, x, y) ==
        LET s == Shape(j.boxes[ref], [x |-> x, y |-> y, turns |-> turns], j.pad)
            span == Bounds(taken \cup s)
            t == Drawn(j, ref)
        IN [x |-> x, y |-> y, turns |-> turns, shape |-> s,
            terms |-> <<j.weight * (IF t = <<>> THEN 0 ELSE Square(x, y, t[1], t[2]))
                          + (span.x2 - span.x1) * (span.y2 - span.y1), y, x>>]
  IN {c \in {Cand(turns, x, y) : turns \in {0, 1}, x \in 0..j.width, y \in 0..j.height} :
        /\ \A b \in c.shape : Inside(b, Board(j))
        /\ Allowed(j, ref, c.x, c.y, Drawn(j, ref))
        /\ ~Collide(c.shape, taken, 0)}

PlaceShape ==
  /\ job.mode = "shapes" /\ todo # <<>>
  /\ \E c \in First(ShapeCandidates(job, Head(todo))) :
       placed' = Extended(Head(todo), c)
  /\ todo' = Tail(todo)
  /\ UNCHANGED <<job, free, unplaced>>

NoRoom ==
  /\ todo # <<>>
  /\ job.mode = "rects" => RectCandidates(job, Head(todo)) = {}
  /\ job.mode = "shapes" => ShapeCandidates(job, Head(todo)) = {}
  /\ unplaced' = unplaced \cup {Head(todo)}
  /\ todo' = Tail(todo)
  /\ UNCHANGED <<job, free, placed>>

(* ------------------------------- The order ------------------------------ *)

Elements(s) == {s[i] : i \in DOMAIN s}
Index(s, e) == CHOOSE i \in DOMAIN s : s[i] = e
Sorted(S, Before(_, _)) ==
  [i \in 1..Cardinality(S) |-> CHOOSE e \in S : Cardinality({d \in S : Before(d, e)}) = i - 1]

Area(boxes) == LET b == Bounds(boxes) IN (b.x2 - b.x1) * (b.y2 - b.y1)
Side(boxes) ==
  LET b == Bounds(boxes) IN Greatest(b.x2 - b.x1, b.y2 - b.y1)

\* Priority parts first in the order given, the others by size.
RankedBefore(j, a, b) ==
  LET pa == a \in j.priority
      pb == b \in j.priority
      ia == Index(j.order, a)
      ib == Index(j.order, b)
      Key(boxes) == <<Side(boxes), Area(boxes)>>
      Larger == \/ Side(j.boxes[a]) > Side(j.boxes[b])
                \/ Side(j.boxes[a]) = Side(j.boxes[b]) /\ Area(j.boxes[a]) > Area(j.boxes[b])
  IN \/ pa /\ ~pb
     \/ pa /\ pb /\ ia < ib
     \/ ~pa /\ ~pb /\ (Larger \/ (Key(j.boxes[a]) = Key(j.boxes[b]) /\ ia < ib))

\* The ancestors of a part not yet emitted come immediately before it; a
\* cycle of anchors ends where it closes.
WithAnchors(j, done, ref) ==
  LET n == Len(j.order)
      up[i \in 0..n] ==
        IF i = 0 THEN <<ref>>
        ELSE LET p == up[i - 1]
                 a == Head(p)
             IN IF /\ a \in DOMAIN j.anchor
                   /\ j.anchor[a] \in Elements(j.order) \ (Elements(done) \cup Elements(p))
                THEN <<j.anchor[a]>> \o p
                ELSE p
  IN IF ref \in Elements(done) THEN done ELSE done \o up[n]

AnchorsFirst(j) ==
  LET ranked == Sorted(Elements(j.order), LAMBDA a, b : RankedBefore(j, a, b))
      out[i \in 0..Len(ranked)] ==
        IF i = 0 THEN <<>> ELSE WithAnchors(j, out[i - 1], ranked[i])
  IN out[Len(ranked)]

\* The shape packer keeps the dependency order or sorts by area; parts that
\* are seeded are not packed.
AreaBefore(j, a, b) ==
  LET pa == a \in j.priority
      pb == b \in j.priority
  IN \/ pa /\ ~pb
     \/ pa = pb /\ (\/ Area(j.boxes[a]) > Area(j.boxes[b])
                    \/ Area(j.boxes[a]) = Area(j.boxes[b]) /\ Index(j.order, a) < Index(j.order, b))
ShapeOrder(j) ==
  LET rest == Elements(j.order) \ DOMAIN j.seeds
      Given(a, b) == Index(j.order, a) < Index(j.order, b)
  IN IF j.keep THEN Sorted(rest, Given) ELSE Sorted(rest, LAMBDA a, b : AreaBefore(j, a, b))

Start(j) ==
  [todo |-> IF j.mode = "rects" THEN AnchorsFirst(j) ELSE ShapeOrder(j),
   placed |-> IF j.mode = "rects" THEN <<>> ELSE j.seeds]

PackInit ==
  /\ job \in Jobs
  /\ todo = Start(job).todo
  /\ placed = Start(job).placed
  /\ free = {Board(job)}
  /\ unplaced = {}

Pack == PlaceRect \/ PlaceShape \/ NoRoom

PackSpec == PackInit /\ [][Pack]_packing

(* ------------------------------ Properties ------------------------------ *)

\* The padded rectangles a part takes: the bounding box for MaxRects.
Taken(r) ==
  Shape(IF job.mode = "rects" THEN {Bounds(job.boxes[r])} ELSE job.boxes[r], placed[r], job.pad)

(* No two padded courtyards overlap, except mounting holes that were seeded *)
(* without a search, and all that is packed is inside the outline.          *)
Disjoint ==
  /\ \A r, q \in DOMAIN placed :
       r # q /\ ~(r \in DOMAIN job.seeds /\ q \in DOMAIN job.seeds) => ~Collide(Taken(r), Taken(q), 0)
  /\ \A r \in DOMAIN placed \ DOMAIN job.seeds : \A b \in Taken(r) : Inside(b, Board(job))

(* The free rectangles are the unused area: no used point is free and no    *)
(* unused point is lost, so a part that fits somewhere finds a candidate.   *)
FreeIsUnused ==
  job.mode = "rects" =>
    \A x \in job.edge..job.width - job.edge - 1, y \in job.edge..job.height - job.edge - 1 :
      (\E f \in free : Overlap(f, Rect(x, y, x + 1, y + 1), 0))
        <=> ~\E r \in DOMAIN placed : \E b \in Taken(r) : Overlap(b, Rect(x, y, x + 1, y + 1), 0)

(* Every part is waiting, placed or reported unplaced, and only once,       *)
(* whatever the anchors are, cycles included.                               *)
Accounted ==
  /\ Len(todo) = Cardinality(Elements(todo))
  /\ Elements(todo) \cup DOMAIN placed \cup unplaced = Elements(job.order) \cup DOMAIN job.seeds
  /\ Elements(todo) \cap (DOMAIN placed \cup unplaced) = {}
  /\ DOMAIN placed \cap unplaced = {}

(* MaxRects does not place a part before its anchor unless they wait for    *)
(* each other.                                                              *)
AnchorPlacedFirst ==
  job.mode = "rects" =>
    \A r \in {q \in DOMAIN placed \cap DOMAIN job.anchor : job.anchor[q] \in Elements(job.order)} :
      LET Up[i \in 0..Len(job.order)] ==
            IF i = 0 THEN {job.anchor[r]}
            ELSE Up[i - 1] \cup {job.anchor[a] : a \in Up[i - 1] \cap DOMAIN job.anchor}
      IN job.anchor[r] \in DOMAIN placed \cup unplaced \/ r \in Up[Len(job.order)]

PackingSound == Disjoint /\ FreeIsUnused /\ Accounted /\ AnchorPlacedFirst

=============================================================================
