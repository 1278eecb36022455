------------------------ MODULE ConnectionPlanCases ------------------------
(* Selections are built one part at a time, in every listing order, and    *)
(* the plan of each is compared with what a plan has to be.                *)
EXTENDS ConnectionPlan

CONSTANTS
  MaxParts,   \* bound: parts of a selection
  Sizes,      \* bound: pins of a part
  Claimable,  \* bound: blocks that may claim a part
  Roles       \* bound: roles of a part, in their order

VARIABLE sel

Init == sel = <<>>

\* Sizes include parts without pins and parts whose symbol is missing.
PinCounts == Sizes \cup {0, Unresolved}

\* The selection step lists one more part.
List(ref, role, pins, claims, hub) ==
  /\ Len(sel) < MaxParts
  /\ ref \notin Refs(sel)
  /\ hub => pins >= HubPins
  /\ sel' = Append(sel, Part(ref, role, pins, claims,
                             [b \in Blocks |-> IF b = role THEN 1 ELSE 0], hub))

Next ==
  \E ref \in 1..MaxParts, role \in Roles, pins \in PinCounts,
     claims \in {{}} \cup {{b} : b \in Claimable}, hub \in BOOLEAN :
       List(ref, role, pins, claims, hub)

Spec == Init /\ [][Next]_sel

(* Every part with pins has exactly one batch that must connect them, no   *)
(* batch sees a part it owns as a boundary, and the number of paid calls   *)
(* the plan asks for stays within the cap - also after the tail is merged  *)
(* and the last batch is reserved for the hubs.                            *)
PlanPartitions ==
  Plannable(sel) =>
    LET plan == Plan(sel) IN
    /\ \A p \in ToSet(sel) :
         Cardinality({i \in DOMAIN plan : p.ref \in plan[i].owned}) =
           (IF PinCount(p) = 0 THEN 0 ELSE 1)
    /\ \A i \in DOMAIN plan : plan[i].owned \cap plan[i].shared = {}
    /\ Len(plan) \in 1..MaxBatches

(* A selection is identified by its sorted parts, so a saved plan is       *)
(* reused whatever the order the parts are listed in: the plan must not    *)
(* depend on it.                                                           *)
PlanIgnoresOrder ==
  Plannable(sel) =>
    LET plan == Plan(sel) IN
    \A i \in 1..(Len(sel) - 1) :
      plan = Plan([sel EXCEPT ![i] = sel[i + 1], ![i + 1] = sel[i]])

(* When batches are used, every batch owns only parts whose pins the merge *)
(* can resolve: no batch is rejected for ever because of a missing symbol. *)
BatchesMergeable ==
  Plannable(sel) /\ UsesBatches(sel) =>
    LET plan == Plan(sel) IN
    \A i \in DOMAIN plan, p \in ToSet(sel) :
      p.ref \in plan[i].owned => p.pins > 0
=============================================================================
