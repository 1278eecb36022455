---------------------------- MODULE BoardRelease ----------------------------
(***************************************************************************)
(* The manufacturing step of the pipeline and the typed CAD batches that   *)
(* edit the board: DRC, cleanups of copper and silkscreen, the bills of    *)
(* material, the drawings, the physical audit and the receipt that binds   *)
(* them to the bytes of the board.  A board is told apart by its           *)
(* fingerprint.  Tools fail, the process stops and is taken up again, and  *)
(* a worker that was given up may still write the board.                   *)
(***************************************************************************)
EXTENDS Naturals, FiniteSets, Sequences

CONSTANTS
  Boards,     \* boards at the start: what the DRC and the audit find on them
  Batches,    \* CAD batches, each with its idempotency key
  MaxPrints,  \* bound on fingerprints
  MaxStops,   \* bound on stopped processes
  MaxLate,    \* bound on writes of a worker that was given up
  Rounds      \* rounds of the silkscreen repair (3)

VARIABLES
  pcb,        \* the board file
  prints,     \* fingerprints given out
  sel,        \* selection: version, and whether its parts are released
  out,        \* output files: what each was made from
  art,        \* ManufactureResult
  saved,      \* the result a resumed run finds
  receipts,   \* of CAD batches
  batch,      \* batch at work
  pc,
  round,
  stops, late

vars == <<pcb, prints, sel, out, art, saved, receipts, batch, pc, round, stops, late>>

None == [kind |-> "none"]
\* Bills of material with the placement list, and Gerbers with drill files,
\* are one file each here.
Files == {"drc", "bom", "export", "receipt"}
NoFile == [print |-> 0, sel |-> 0]
NoResult == [made |-> FALSE, drc |-> {}, exported |-> FALSE, released |-> FALSE, ready |-> FALSE, receipt |-> 0]

\* Every edit of the board gives it bytes it did not have before.
Edited(b) == [b EXCEPT !.print = prints + 1]
Write(b) == prints < MaxPrints /\ prints' = prints + 1 /\ pcb' = Edited(b)

(* ---------------------------- ManufactureStep --------------------------- *)

\* The findings are aggregated and the DRC is run on the board; without its
\* report there is an error to report.
Drc ==
  /\ pc = "drc"
  /\ \E readable \in BOOLEAN :
       /\ out' = [out EXCEPT !["drc"] = IF readable THEN [print |-> pcb.print, sel |-> sel.version] ELSE NoFile]
       /\ art' = [NoResult EXCEPT !.drc = IF readable THEN pcb.errs ELSE {"unreadable"}]
       /\ pc' = IF readable /\ pcb.errs = {} THEN "copper" ELSE "bom"
  /\ round' = 0
  /\ UNCHANGED <<pcb, prints, sel, saved, receipts, batch, stops, late>>

\* _repair_redundant_copper_entities: dead copper goes if the DRC stays clean;
\* anything else puts the bytes back.
Copper ==
  /\ pc = "copper"
  /\ \/ /\ pcb.dead > 0
        /\ Write([pcb EXCEPT !.dead = @ - 1])
        /\ out' = [out EXCEPT !["drc"].print = prints + 1]
        /\ UNCHANGED pc
     \/ pc' = "silk" /\ UNCHANGED <<pcb, prints, out>>
  /\ UNCHANGED <<sel, art, saved, receipts, batch, round, stops, late>>

SilkKept(errs) == errs \subseteq pcb.errs

\* _repair_silkscreen_entities: at most three rounds, each with fewer warnings
\* and nothing new; the report of the candidate replaces the old one.
Silk ==
  /\ pc = "silk"
  /\ \/ /\ pcb.silk > 0 /\ round < Rounds
        /\ \E errs \in {{}, {"clearance"}} :
             IF SilkKept(errs)
             THEN /\ Write([pcb EXCEPT !.silk = @ - 1, !.errs = errs])
                  /\ out' = [out EXCEPT !["drc"].print = prints + 1]
                  /\ round' = round + 1 /\ UNCHANGED pc
             ELSE pc' = "bom" /\ round' = 0 /\ UNCHANGED <<pcb, prints, out>>
     \/ pc' = "bom" /\ round' = 0 /\ UNCHANGED <<pcb, prints, out>>
  /\ UNCHANGED <<sel, art, saved, receipts, batch, stops, late>>

\* selection_release_issues: a part is released only by explicit proof.
ReleaseProven == sel.proven

\* Bills and placement list are written from the selection; a part that is
\* not released is on neither.  A failed export leaves older files behind.
Export ==
  /\ pc = "bom"
  /\ \E exported \in BOOLEAN :
       /\ out' = [out EXCEPT !["bom"] = [print |-> pcb.print, sel |-> sel.version],
                             !["export"] = IF exported THEN [print |-> pcb.print, sel |-> sel.version] ELSE @]
       /\ art' = [art EXCEPT !.released = ReleaseProven, !.exported = exported]
  /\ pc' = "audit"
  /\ UNCHANGED <<pcb, prints, sel, saved, receipts, batch, round, stops, late>>

\* A batch is given again until the step it repairs is judged.
Finish(next) == batch' = None /\ pc' = next

\* The audit is of the bytes whose digest it records.
Audit ==
  /\ pc = "audit"
  /\ \E intact \in BOOLEAN :
       /\ art' = [art EXCEPT !.ready = intact /\ pcb.sound, !.receipt = IF intact THEN pcb.print ELSE 0]
       /\ IF intact THEN pc' = "receipt" /\ UNCHANGED batch ELSE Finish("rest")
  /\ saved' = art'
  /\ UNCHANGED <<pcb, prints, sel, out, receipts, round, stops, late>>

ReceiptHolds == pcb.print = art.receipt

\* The receipt is committed only if the board still has the audited bytes.
Receipt ==
  /\ pc = "receipt"
  /\ \E written \in BOOLEAN :
       IF written /\ ReceiptHolds
       THEN /\ out' = [out EXCEPT !["receipt"] = [print |-> art.receipt, sel |-> sel.version]]
            /\ art' = [art EXCEPT !.made = TRUE]
       ELSE /\ art' = [art EXCEPT !.made = TRUE, !.ready = FALSE, !.receipt = 0]
            /\ UNCHANGED out
  /\ saved' = art'
  /\ Finish("rest")
  /\ UNCHANGED <<pcb, prints, sel, receipts, round, stops, late>>

\* _manufacture_receipt_errors: the receipt is audited again against the
\* present board and the present parts.
ReceiptCurrent(a) ==
  /\ a.receipt # 0
  /\ out["receipt"].print = pcb.print /\ a.receipt = pcb.print

\* check: what every check of severity error asks.
Accepted ==
  /\ pc = "rest" /\ art.made
  /\ art.drc = {} /\ art.released /\ art.exported /\ art.ready
  /\ ReceiptCurrent(art)

(* -------------------------------- Repairs ------------------------------- *)

Propose == pc' = "drc" /\ UNCHANGED <<pcb, prints, sel, out, art, saved, receipts, batch, round, stops, late>>

\* Missing exports and receipts are made again.
Remake ==
  /\ pc = "rest"
  /\ art.receipt = 0 \/ ~art.exported
  /\ Propose

\* _repair_manufacture_drills: the worker writes the board when the DRC
\* improves; the step makes its outputs again only if nothing is open.
DrillRepair ==
  /\ pc = "rest" /\ "drill" \in art.drc
  /\ \/ UNCHANGED <<pcb, prints, pc>>
     \/ /\ Write([pcb EXCEPT !.errs = @ \ {"drill"}])
        /\ pc' \in (IF "open" \in pcb.errs THEN {"rest"} ELSE {"drc", "rest"})
  /\ UNCHANGED <<sel, out, art, saved, receipts, batch, round, stops, late>>

\* _prepare_intrinsic_footprint_replan: parts without a catalogue identity get
\* another footprint of the same family; the schematic is written and checked
\* again, and when that fails the artifacts are put back.
Substitute ==
  /\ pc = "rest" /\ "clearance" \in art.drc /\ sel.version < 2
  /\ \/ sel' = [sel EXCEPT !.version = @ + 1] /\ pc' = "layout"
     \/ UNCHANGED <<sel, pc>>
  /\ UNCHANGED <<pcb, prints, out, art, saved, receipts, batch, round, stops, late>>

\* rollback_target: the board is laid out and routed again from the selection.
Relayout ==
  /\ \/ pc = "layout"
     \/ pc = "rest" /\ art.drc \cap {"clearance", "open"} # {}
  /\ \E b \in Boards : Write([b EXCEPT !.applied = <<>>])
  /\ art' = NoResult /\ saved' = NoResult
  /\ pc' = "drc"
  /\ UNCHANGED <<sel, out, receipts, batch, round, stops, late>>

(* ------------------------------ CAD batches ----------------------------- *)

\* A batch is planned for the bytes the board has.
Plan(b) ==
  /\ pc = "rest" /\ batch = None
  /\ batch' = [kind |-> "batch", id |-> b, base |-> pcb.print]
  /\ pc' = "apply"
  /\ UNCHANGED <<pcb, prints, sel, out, art, saved, receipts, round, stops, late>>

Key(b) == Batches[b]
Receipts(k) == {r \in receipts : r.key = k}

\* A receipt of the same key names the batch that was applied and what came of it.
Collides == \E r \in Receipts(Key(batch.id)) : r.id # batch.id \/ r.base # batch.base
AlreadyApplied == \E r \in Receipts(Key(batch.id)) : r.id = batch.id /\ r.after = pcb.print

MutMatches == TRUE

\* The batch is for these bytes only.
Matches == pcb.print = batch.base

\* apply_cad_action_batch, up to the worker's start.
Apply ==
  /\ pc = "apply"
  /\ \/ Collides /\ Finish("rest")
     \/ ~Collides /\ AlreadyApplied /\ pc' = "drc" /\ UNCHANGED batch
     \/ ~Collides /\ ~AlreadyApplied /\ ~Matches /\ Finish("rest")
     \/ ~Collides /\ ~AlreadyApplied /\ Matches /\ pc' = "worker" /\ batch' = [batch EXCEPT !.kind = "working"]
  /\ UNCHANGED <<pcb, prints, sel, out, art, saved, receipts, round, stops, late>>

\* The worker edits a copy, action by action; one that fails, or a source that
\* changed meanwhile, discards it.
Commit ==
  /\ pc = "worker"
  /\ \/ Finish("rest") /\ UNCHANGED <<pcb, prints>>
     \/ /\ Matches
        /\ \E errs \in {pcb.errs, {}, {"clearance"}} :
             Write([pcb EXCEPT !.applied = Append(@, <<batch.id, batch.base>>), !.errs = errs])
        /\ pc' = "note" /\ UNCHANGED batch
  /\ UNCHANGED <<sel, out, art, saved, receipts, round, stops, late>>

\* The receipt is written after the board was replaced, and everything is
\* made again from it.
Note ==
  /\ pc = "note"
  /\ receipts' = {r \in receipts : r.key # Key(batch.id)}
                   \cup {[key |-> Key(batch.id), id |-> batch.id, base |-> batch.base, after |-> pcb.print]}
  /\ pc' = "drc" /\ UNCHANGED batch
  /\ UNCHANGED <<pcb, prints, sel, out, art, saved, round, stops, late>>

(* -------------------------------- Faults -------------------------------- *)

\* The process stops; a resumed run keeps the result if its receipt is
\* current, and applies the batch it was given again.
Stop ==
  /\ stops < MaxStops /\ stops' = stops + 1
  /\ art' = saved
  /\ pc' = IF batch # None THEN "apply" ELSE IF saved.made /\ ReceiptCurrent(saved) THEN "rest" ELSE "drc"
  /\ round' = 0
  /\ batch' = IF batch # None THEN [batch EXCEPT !.kind = "batch"] ELSE None
  /\ UNCHANGED <<pcb, prints, sel, out, saved, receipts, late>>

LateWrite ==
  /\ late < MaxLate /\ late' = late + 1
  /\ Write(pcb)
  /\ UNCHANGED <<sel, out, art, saved, receipts, batch, pc, round, stops>>

Init ==
  /\ pcb \in Boards /\ prints = 1
  /\ sel \in [version : {1}, proven : BOOLEAN]
  /\ out = [f \in Files |-> NoFile]
  /\ art = NoResult /\ saved = NoResult
  /\ receipts = {} /\ batch = None
  /\ pc = "drc" /\ round = 0 /\ stops = 0 /\ late = 0

Next ==
  \/ Drc \/ Copper \/ Silk \/ Export \/ Audit \/ Receipt
  \/ Remake \/ DrillRepair \/ Substitute \/ Relayout
  \/ (\E b \in DOMAIN Batches : Plan(b)) \/ Apply \/ Commit \/ Note
  \/ Stop \/ LateWrite

Spec == Init /\ [][Next]_vars

(* ------------------------------ Properties ------------------------------ *)

TypeOK ==
  /\ pcb.print \in 1..MaxPrints /\ prints \in 1..MaxPrints
  /\ sel.version \in 1..2
  /\ DOMAIN out = Files /\ round \in 0..Rounds
  /\ stops \in 0..MaxStops /\ late \in 0..MaxLate

\* An accepted release is bound to the bytes of the board as they are, which
\* passed the DRC and the audit, whoever wrote the board and wherever the
\* process stopped.
ReceiptBinds ==
  Accepted => out["receipt"].print = pcb.print /\ pcb.sound /\ sel.proven

\* Without a foreign writer all outputs of an accepted release were made from
\* that board and the selection in force.
OutputsAgree ==
  (Accepted /\ late = 0) =>
    /\ \A f \in Files : out[f].print = pcb.print /\ out[f].sel = sel.version
    /\ pcb.errs = {}

\* A batch is in the board at most once, though the receipt may be lost with
\* the process that wrote the board.
BatchOnce ==
  \A i, j \in DOMAIN pcb.applied : pcb.applied[i] = pcb.applied[j] => i = j

ReleaseSound == TypeOK /\ ReceiptBinds /\ OutputsAgree /\ BatchOnce
=============================================================================
