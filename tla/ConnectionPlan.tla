--------------------------- MODULE ConnectionPlan ---------------------------
(***************************************************************************)
(* The deterministic planner of block-wise connection synthesis            *)
(* (orchestration/connection_synthesis.py): when the connectivity of a     *)
(* selection is too large for one completion, its parts are dealt out to   *)
(* a bounded sequence of batches, each answered by its own model call.     *)
(*                                                                         *)
(* A part keeps what the planner reads: its reference (in natural order),  *)
(* its role, how many physical pins its symbol has (Unresolved when the    *)
(* library has no such symbol), the blocks that claim it, how well its     *)
(* words match each block, and whether its words name a central hub.       *)
(* A selection is the sequence of its parts, in the order they are listed. *)
(***************************************************************************)
EXTENDS Integers, Sequences, FiniteSets, SequencesExt, FiniteSetsExt, TLC

CONSTANTS
  NBlocks,         \* blocks of the topology, in order
  TargetPins,      \* connection_batch_target_pins
  MaxBatches,      \* connection_max_batches
  UnknownPins,     \* _DEFAULT_UNKNOWN_SYMBOL_PIN_ESTIMATE
  HubPins,         \* pins below which a hub is not shared (4 in the code)
  DirectPinLimit,  \* connection_direct_pin_limit
  DirectTokens,    \* tokens of the largest answer asked for in one call
  BaseTokens,      \* tokens of an answer without pins
  TokensPerPin     \* tokens one endpoint costs

Blocks == 1..NBlocks
Integration == NBlocks + 1
Unresolved == -1

\* One part of the selection.
Part(ref, role, pins, claims, score, hub) ==
  [ref |-> ref, role |-> role, pins |-> pins, claims |-> claims,
   score |-> score, hub |-> hub]

PinCount(p) == IF p.pins = Unresolved THEN UnknownPins ELSE p.pins

SumPins(parts) == FoldLeft(LAMBDA n, p : n + PinCount(p), 0, parts)

Refs(parts) == {p.ref : p \in ToSet(parts)}

UnknownRefs(sel) == Refs(SelectSeq(sel, LAMBDA p : p.pins = Unresolved))

\* The conservative size of one complete answer.
ShouldBatch(sel) ==
  \/ BaseTokens + TokensPerPin * SumPins(sel) > DirectTokens
  \/ SumPins(sel) > DirectPinLimit

MutUsesBatches(sel) == ShouldBatch(sel)
\* Batches need the real pins of every symbol.
UsesBatches(sel) == ShouldBatch(sel) /\ UnknownRefs(sel) = {}

\* Two blocks that claim one part have no plan.
Plannable(sel) == \A p \in ToSet(sel) : Cardinality(p.claims) <= 1

(* The block of a part: the one that claims it, else the only block its    *)
(* words match best, else the integration block.                           *)
Winners(p) == {b \in Blocks : p.score[b] > 0 /\ \A d \in Blocks : p.score[d] <= p.score[b]}
OnlyOne(blocks) ==
  IF Cardinality(blocks) = 1 THEN CHOOSE b \in blocks : TRUE ELSE Integration
BlockOf(p) == OnlyOne(IF p.claims # {} THEN p.claims ELSE Winners(p))

\* Central endpoints every batch may connect.
Hubs(sel) ==
  Refs(SelectSeq(sel, LAMBDA p : p.hub /\ p.pins # Unresolved /\ p.pins >= HubPins))

SharedRefs(sel) == IF MaxBatches = 1 THEN {} ELSE Hubs(sel)

Oversized(p) == PinCount(p) > TargetPins

MutBefore(p, q) ==
  \/ BlockOf(p) < BlockOf(q)
  \/ BlockOf(p) = BlockOf(q) /\ p.role < q.role
Before(p, q) ==
  \/ BlockOf(p) < BlockOf(q)
  \/ BlockOf(p) = BlockOf(q) /\ p.role < q.role
  \/ BlockOf(p) = BlockOf(q) /\ p.role = q.role /\ p.ref < q.ref

\* The parts that ordinary batches own, in planning order.
Work(sel) ==
  SortSeq(SelectSeq(sel, LAMBDA p : p.ref \notin SharedRefs(sel) /\ PinCount(p) > 0),
          Before)

OrdinaryCap(sel) == MaxBatches - (IF SharedRefs(sel) # {} THEN 1 ELSE 0)

\* The pins one ordinary batch may own, grown until the cap can hold them all.
EffectiveTarget(sel, work) ==
  LET regular == SumPins(SelectSeq(work, LAMBDA p : ~Oversized(p)))
      large   == Len(SelectSeq(work, Oversized))
      cap     == Max({1, OrdinaryCap(sel) - large})
  IN Max({TargetPins, (regular + cap - 1) \div cap})

\* Parts join the open batch while they fit; an oversized part has its own.
Closed(open) == IF open.cur = <<>> THEN open.done ELSE Append(open.done, open.cur)

Deal(open, p, target) ==
  CASE Oversized(p) -> [done |-> Append(Closed(open), <<p>>), cur |-> <<>>]
    [] ~Oversized(p) /\ SumPins(open.cur) + PinCount(p) > target ->
         [done |-> Closed(open), cur |-> <<p>>]
    [] OTHER -> [open EXCEPT !.cur = Append(@, p)]

Dealt(work, target) ==
  Closed(FoldLeft(LAMBDA open, p : Deal(open, p, target), [done |-> <<>>, cur |-> <<>>], work))

\* Without any part to connect there is still one batch.
AtLeastOne(batches, shared) == IF batches = <<>> /\ shared = {} THEN << <<>> >> ELSE batches

WorkBatches(sel, work) == Dealt(work, EffectiveTarget(sel, work))

RawBatches(sel) == AtLeastOne(WorkBatches(sel, Work(sel)), SharedRefs(sel))

MutMerged(raw, cap) == raw
\* The tail is merged until the calls fit the cap.
Merged(raw, cap) ==
  IF Len(raw) <= cap THEN raw
  ELSE Append(SubSeq(raw, 1, cap - 1), FlattenSeq(SubSeq(raw, cap, Len(raw))))

(* Ordinary batches see the shared endpoints; a final batch owns them and  *)
(* sees every other part.                                                  *)
Specs(merged, shared, refs) ==
  [i \in DOMAIN merged |-> [owned |-> Refs(merged[i]), shared |-> shared]]
    \o (IF shared = {} THEN <<>> ELSE << [owned |-> shared, shared |-> refs \ shared] >>)

Plan(sel) == Specs(Merged(RawBatches(sel), OrdinaryCap(sel)), SharedRefs(sel), Refs(sel))
=============================================================================
