------------------------- MODULE BoardReleaseProofs -------------------------
(***************************************************************************)
(* The release of a board, for any boards, batches, rounds, stops and late *)
(* writers: an accepted release is bound to the bytes of the board, all    *)
(* its outputs were made from them, and no batch is in the board twice.    *)
(***************************************************************************)
EXTENDS BoardRelease, TLAPS

(* What the DRC of a board can report, as far as the steps tell it apart.  *)
Findings == {"clearance", "drill", "open", "other", "unreadable"}

BoardSet == [print : Nat, errs : SUBSET Findings, silk : Nat, dead : Nat, sound : BOOLEAN,
             applied : Seq((DOMAIN Batches) \X Nat)]
Results == [made : BOOLEAN, drc : SUBSET Findings, exported : BOOLEAN, released : BOOLEAN,
            ready : BOOLEAN, receipt : Nat]
Outputs == [Files -> [print : Nat, sel : Nat]]
Jobs == [kind : {"batch", "working"}, id : DOMAIN Batches, base : Nat]
Places == {"drc", "copper", "silk", "bom", "audit", "receipt", "rest", "layout", "apply",
           "worker", "note"}

(* What the boards and bounds of an instance are.                          *)
Instance ==
  /\ Boards \subseteq [print : {1}, errs : SUBSET Findings, silk : Nat, dead : Nat, sound : BOOLEAN,
                       applied : {<<>>}]
  /\ MaxPrints \in Nat \ {0} /\ Rounds \in Nat /\ MaxStops \in Nat /\ MaxLate \in Nat

Types ==
  /\ pcb \in BoardSet /\ prints \in 1 .. MaxPrints /\ pcb.print = prints
  /\ sel \in [version : 1 .. 2, proven : BOOLEAN]
  /\ out \in Outputs /\ art \in Results /\ saved \in Results
  /\ batch = None \/ batch \in Jobs
  /\ pc \in Places /\ round \in 0 .. Rounds /\ stops \in 0 .. MaxStops /\ late \in 0 .. MaxLate

(* A result speaks of the bytes that were audited, and of them only.       *)
Honest ==
  \A a \in {art, saved} :
    /\ a.receipt <= prints
    /\ a.ready /\ a.receipt = prints => pcb.sound
    /\ a.released => sel.proven

(* The result that a resumed run finds could be accepted.                  *)
Good == saved.made /\ saved.drc = {} /\ saved.exported /\ saved.ready /\ saved.receipt = prints

(* Made from the board and the selection as they are.                      *)
This == [print |-> prints, sel |-> sel.version]
Making == {"copper", "silk", "bom", "audit"}

(* The outputs of the pass at work, as far as it is; those of a result     *)
(* that may be accepted, which no pass at work is overwriting.             *)
Current ==
  /\ pc \notin Making => art = saved
  /\ pc \in {"drc"} \cup Making => ~Good
  /\ pc \in {"copper", "silk"} => art.drc = {}
  /\ pc \in Making => ~art.made /\ art.receipt = 0
  /\ pc = "receipt" => ~art.made /\ art.receipt # 0
  /\ pc \in Making \cup {"receipt"} /\ art.drc = {} /\ late = 0 =>
       out["drc"] = This /\ pcb.errs = {}
  /\ pc \in {"audit", "receipt"} /\ late = 0 =>
       out["bom"] = This /\ (art.exported => out["export"] = This)
  /\ pc = "receipt" /\ late = 0 => art.receipt = prints
  /\ Good => out["receipt"].print = prints
  /\ Good /\ late = 0 => pcb.errs = {} /\ \A f \in Files : out[f] = This

(* A batch in hand was planned for bytes that no result of a judged step   *)
(* and no receipt is newer than, but its own.                              *)
Planned ==
  /\ \A r \in receipts : r.base \in Nat /\ r.after \in Nat /\ r.base < r.after /\ r.after <= prints
  /\ batch # None => (saved.made => saved.receipt <= batch.base) /\ batch.base <= prints
  /\ pc \in {"apply", "worker", "note"} => batch # None
  /\ pc \in {"rest", "layout"} => batch = None
  /\ pc = "note" => batch.base < prints

Once ==
  /\ \A i \in DOMAIN pcb.applied : pcb.applied[i][2] < prints
  /\ BatchOnce

IInv == Types /\ Honest /\ Current /\ Planned /\ Once
-----------------------------------------------------------------------------
LEMMA Records ==
  ASSUME Types
  PROVE  /\ pcb.errs \in SUBSET Findings /\ pcb.sound \in BOOLEAN /\ prints \in Nat \ {0}
         /\ art.drc \in SUBSET Findings /\ art.receipt \in Nat /\ saved.receipt \in Nat
         /\ sel.version \in 1 .. 2 /\ sel.proven \in BOOLEAN
BY DEF Types, BoardSet, Results

(* A written board has bytes of its own: no earlier result and no earlier  *)
(* batch is about them.                                                    *)
LEMMA Written ==
  ASSUME Instance, Types, NEW b \in BoardSet, Write(b)
  PROVE  /\ pcb' \in BoardSet /\ prints' \in 1 .. MaxPrints /\ pcb'.print = prints'
         /\ prints' = prints + 1
         /\ pcb'.errs = b.errs /\ pcb'.sound = b.sound /\ pcb'.applied = b.applied
<1>1. prints \in 1 .. MaxPrints /\ prints < MaxPrints /\ MaxPrints \in Nat /\ prints' = prints + 1
  BY DEF Types, Write, Instance
<1>2. prints + 1 \in 1 .. MaxPrints /\ prints + 1 \in Nat
  BY <1>1
<1>3. pcb' = [b EXCEPT !.print = prints + 1]
  BY DEF Write, Edited
<1>. QED
  BY <1>1, <1>2, <1>3 DEF BoardSet

LEMMA Outdated ==
  ASSUME Types, Honest, prints' = prints + 1, UNCHANGED <<art, saved, sel>>
  PROVE  Honest' /\ ~Good'
<1>1. art.receipt <= prints /\ saved.receipt <= prints
  BY DEF Honest
<1>2. art.receipt # prints' /\ saved.receipt # prints' /\ art.receipt <= prints' /\ saved.receipt <= prints'
  BY <1>1, Records
<1>. QED
  BY <1>2 DEF Honest, Good

LEMMA Grown ==
  ASSUME IInv, prints' = prints + 1
  PROVE  /\ \A r \in receipts : r.base \in Nat /\ r.after \in Nat /\ r.base < r.after /\ r.after <= prints'
         /\ batch # None => batch.base \in Nat /\ batch.base <= prints'
<1>1. prints \in Nat
  BY Records DEF IInv
<1>2. \A r \in receipts : r.base \in Nat /\ r.after \in Nat /\ r.base < r.after /\ r.after <= prints
  BY DEF IInv, Planned
<1>3. batch # None => batch.base \in Nat /\ batch.base <= prints
  BY DEF IInv, Planned, Types, Jobs
<1>. QED
  BY <1>1, <1>2, <1>3

LEMMA FirstBoards ==
  ASSUME Instance, NEW c \in Boards
  PROVE  c \in BoardSet /\ c.print = 1 /\ c.applied = <<>>
<1>1. c \in [print : {1}, errs : SUBSET Findings, silk : Nat, dead : Nat, sound : BOOLEAN, applied : {<<>>}]
  BY DEF Instance
<1>2. <<>> \in Seq((DOMAIN Batches) \X Nat)
  OBVIOUS
<1>3. PICK p \in {1}, e \in SUBSET Findings, k \in Nat, d \in Nat, u \in BOOLEAN, a \in {<<>>} :
        c = [print |-> p, errs |-> e, silk |-> k, dead |-> d, sound |-> u, applied |-> a]
  BY <1>1
<1>4. p = 1 /\ p \in Nat /\ a = <<>> /\ a \in Seq((DOMAIN Batches) \X Nat)
  BY <1>2, <1>3
<1>. QED
  BY <1>3, <1>4 DEF BoardSet

LEMMA Clearances ==
  {} \in SUBSET Findings /\ {"clearance"} \in SUBSET Findings /\ {"unreadable"} \in SUBSET Findings
BY DEF Findings

LEMMA OnceKept ==
  ASSUME Types, Once, prints' >= prints, prints' \in Nat, pcb'.applied = pcb.applied
  PROVE  Once'
<1>1. \A i \in DOMAIN pcb.applied : pcb.applied[i][2] < prints'
  <2>. SUFFICES ASSUME NEW i \in DOMAIN pcb.applied
                PROVE  pcb.applied[i][2] < prints'
    OBVIOUS
  <2>1. pcb.applied[i] \in (DOMAIN Batches) \X Nat
    BY DEF Types, BoardSet
  <2>2. pcb.applied[i][2] \in Nat /\ pcb.applied[i][2] < prints
    BY <2>1 DEF Once
  <2>. QED
    BY <2>2, Records
<1>. QED
  BY <1>1 DEF Once, BatchOnce
-----------------------------------------------------------------------------
LEMMA DrcKeeps ==
  ASSUME Instance, IInv, Drc
  PROVE  IInv'
<1>1. PICK readable \in BOOLEAN :
       /\ out' = [out EXCEPT !["drc"] = IF readable THEN [print |-> pcb.print, sel |-> sel.version] ELSE NoFile]
       /\ art' = [NoResult EXCEPT !.drc = IF readable THEN pcb.errs ELSE {"unreadable"}]
       /\ pc' = IF readable /\ pcb.errs = {} THEN "copper" ELSE "bom"
  BY DEF Drc
<1>2. /\ Types /\ pc = "drc" /\ round' = 0
      /\ UNCHANGED <<pcb, prints, sel, saved, receipts, batch, stops, late>>
  BY DEF Drc, IInv
<1>3. /\ art' \in Results /\ ~art'.made /\ art'.receipt = 0 /\ ~art'.ready /\ ~art'.released
      /\ art'.drc = IF readable THEN pcb.errs ELSE {"unreadable"}
  <2>. DEFINE d == IF readable THEN pcb.errs ELSE {"unreadable"}
  <2>1. d \in SUBSET Findings
    BY <1>2, Records, Clearances
  <2>2. art' = [made |-> FALSE, drc |-> d, exported |-> FALSE, released |-> FALSE, ready |-> FALSE, receipt |-> 0]
    BY <1>1 DEF NoResult
  <2>. HIDE DEF d
  <2>3. art' \in Results /\ ~art'.made /\ art'.receipt = 0 /\ ~art'.ready /\ ~art'.released /\ art'.drc = d
    BY <2>1, <2>2 DEF Results
  <2>. QED
    BY <2>3 DEF d
<1>4. /\ out' \in Outputs
      /\ readable => out'["drc"] = This
      /\ \A f \in Files : f # "drc" => out'[f] = out[f]
  <2>1. This \in [print : Nat, sel : Nat] /\ NoFile \in [print : Nat, sel : Nat]
    BY <1>2, Records DEF This, NoFile
  <2>2. This = [print |-> pcb.print, sel |-> sel.version]
    BY <1>2 DEF This, Types
  <2>. QED
    BY <1>1, <1>2, <2>1, <2>2 DEF Outputs, Files, Types
<1>5. Types'
  BY <1>1, <1>2, <1>3, <1>4 DEF Types, Places, Instance
<1>6. Honest'
  BY <1>2, <1>3, Records DEF IInv, Honest
<1>7. Current'
  <2>1. This' = This /\ (Good' <=> Good)
    BY <1>2 DEF This, Good
  <2>2. pc' \in {"copper", "bom"} /\ ~Good'
    BY <1>1, <1>2, <2>1 DEF IInv, Current
  <2>3. pc' = "copper" => art'.drc = {}
    BY <1>1, <1>3
  <2>4. art'.drc = {} => out'["drc"] = This' /\ pcb'.errs = {}
    BY <1>2, <1>3, <1>4, <2>1
  <2>. QED
    BY <1>3, <2>2, <2>3, <2>4 DEF Current, Making
<1>8. Planned' /\ Once'
  BY <1>1, <1>2 DEF IInv, Planned, Once, BatchOnce
<1>. QED
  BY <1>5, <1>6, <1>7, <1>8 DEF IInv

(* The cleanups of copper and silkscreen: each board they keep is written  *)
(* with the report of its own DRC.                                         *)
LEMMA CleanupKeeps ==
  ASSUME Instance, IInv, Copper \/ Silk
  PROVE  IInv'
<1>1. /\ Types /\ Honest /\ pc \in {"copper", "silk"}
      /\ UNCHANGED <<sel, art, saved, receipts, batch, stops, late>>
  BY DEF Copper, Silk, IInv
<1>2. CASE /\ UNCHANGED <<pcb, prints, out>> /\ pc' \in {"silk", "bom"} /\ round' \in 0 .. Rounds
  <2>1. Types' /\ Honest'
    BY <1>1, <1>2 DEF Types, Honest, Places
  <2>2. This' = This /\ (Good' <=> Good)
    BY <1>1, <1>2 DEF This, Good
  <2>3. Current'
    BY <1>1, <1>2, <2>2 DEF IInv, Current, Making
  <2>4. Planned' /\ Once'
    BY <1>1, <1>2 DEF IInv, Planned, Once, BatchOnce
  <2>. QED
    BY <2>1, <2>3, <2>4 DEF IInv
<1>3. ASSUME NEW b \in BoardSet, Write(b), b.applied = pcb.applied, b.sound = pcb.sound,
             b.errs \subseteq pcb.errs, out' = [out EXCEPT !["drc"].print = prints + 1],
             UNCHANGED pc, round' \in 0 .. Rounds
      PROVE  IInv'
  <2>1. /\ pcb' \in BoardSet /\ prints' \in 1 .. MaxPrints /\ pcb'.print = prints'
        /\ prints' = prints + 1
        /\ pcb'.errs = b.errs /\ pcb'.applied = pcb.applied
    BY <1>1, <1>3, Written
  <2>2. /\ out' \in Outputs
        /\ out["drc"] = This => out'["drc"] = This'
    <3>1. out["drc"] \in [print : Nat, sel : Nat] /\ prints + 1 \in Nat
      BY <1>1, Records DEF Types, Outputs, Files
    <3>2. out' = [out EXCEPT !["drc"] = [out["drc"] EXCEPT !.print = prints + 1]]
      BY <1>3
    <3>. QED
      BY <1>1, <2>1, <3>1, <3>2 DEF Types, Outputs, Files, This
  <2>3. Types'
    BY <1>1, <1>3, <2>1, <2>2 DEF Types
  <2>4. Honest' /\ ~Good'
    BY <1>1, <2>1, Outdated
  <2>5. Current'
    BY <1>1, <1>3, <2>1, <2>2, <2>4 DEF IInv, Current, Making
  <2>6. Planned'
    BY <1>1, <1>3, <2>1, Grown DEF IInv, Planned
  <2>7. Once'
    BY <1>1, <2>1, OnceKept, Records DEF IInv
  <2>. QED
    BY <2>3, <2>4, <2>5, <2>6, <2>7 DEF IInv
<1>4. CASE Copper
  <2>1. CASE pc' = "silk" /\ UNCHANGED <<pcb, prints, out>>
    BY <1>1, <1>2, <1>4, <2>1 DEF Copper, Types
  <2>2. CASE /\ pcb.dead > 0 /\ Write([pcb EXCEPT !.dead = @ - 1])
             /\ out' = [out EXCEPT !["drc"].print = prints + 1] /\ UNCHANGED pc
    <3>. DEFINE b == [pcb EXCEPT !.dead = @ - 1]
    <3>1. pcb.dead - 1 \in Nat
      BY <1>1, <2>2 DEF Types, BoardSet
    <3>2. b \in BoardSet /\ b.applied = pcb.applied /\ b.sound = pcb.sound /\ b.errs = pcb.errs
      BY <1>1, <3>1 DEF Types, BoardSet
    <3>3. round' \in 0 .. Rounds
      BY <1>1, <1>4 DEF Copper, Types
    <3>4. Write(b)
      BY <2>2
    <3>. HIDE DEF b
    <3>. QED
      BY <1>3, <2>2, <3>2, <3>3, <3>4
  <2>. QED
    BY <1>4, <2>1, <2>2 DEF Copper
<1>5. CASE Silk
  <2>1. CASE pc' = "bom" /\ round' = 0 /\ UNCHANGED <<pcb, prints, out>>
    BY <1>2, <2>1 DEF Instance
  <2>2. ASSUME NEW errs \in {{}, {"clearance"}}, pcb.silk > 0, round < Rounds, SilkKept(errs),
               Write([pcb EXCEPT !.silk = @ - 1, !.errs = errs]),
               out' = [out EXCEPT !["drc"].print = prints + 1], round' = round + 1, UNCHANGED pc
        PROVE  IInv'
    <3>. DEFINE b == [pcb EXCEPT !.silk = @ - 1, !.errs = errs]
    <3>1. pcb.silk - 1 \in Nat /\ errs \in SUBSET Findings
      <4>1. pcb.silk - 1 \in Nat
        BY <1>1, <2>2 DEF Types, BoardSet
      <4>2. errs \in SUBSET Findings
        BY <2>2, Clearances
      <4>. QED
        BY <4>1, <4>2
    <3>2. b \in BoardSet /\ b.applied = pcb.applied /\ b.sound = pcb.sound /\ b.errs = errs
      BY <1>1, <3>1 DEF Types, BoardSet
    <3>3. round' \in 0 .. Rounds
      BY <1>1, <2>2 DEF Types, Instance
    <3>4. Write(b) /\ errs \subseteq pcb.errs
      BY <2>2 DEF SilkKept
    <3>. HIDE DEF b
    <3>. QED
      BY <1>3, <2>2, <3>2, <3>3, <3>4
  <2>. QED
    BY <1>5, <2>1, <2>2 DEF Silk
<1>. QED
  BY <1>4, <1>5

LEMMA ExportKeeps ==
  ASSUME Instance, IInv, Export
  PROVE  IInv'
<1>1. PICK exported \in BOOLEAN :
       /\ out' = [out EXCEPT !["bom"] = [print |-> pcb.print, sel |-> sel.version],
                             !["export"] = IF exported THEN [print |-> pcb.print, sel |-> sel.version] ELSE @]
       /\ art' = [art EXCEPT !.released = ReleaseProven, !.exported = exported]
  BY DEF Export
<1>2. /\ Types /\ pc = "bom" /\ pc' = "audit"
      /\ UNCHANGED <<pcb, prints, sel, saved, receipts, batch, round, stops, late>>
  BY DEF Export, IInv
<1>3. /\ art' \in Results /\ art'.made = art.made /\ art'.receipt = art.receipt /\ art'.ready = art.ready
      /\ art'.drc = art.drc /\ art'.released = sel.proven /\ art'.exported = exported
  <2>1. sel.proven \in BOOLEAN
    BY <1>2, Records
  <2>. QED
    BY <1>1, <1>2, <2>1 DEF ReleaseProven, Types, Results
<1>4. /\ out' \in Outputs /\ out'["drc"] = out["drc"] /\ out'["receipt"] = out["receipt"]
      /\ out'["bom"] = This /\ (exported => out'["export"] = This)
  <2>1. This \in [print : Nat, sel : Nat]
    BY <1>2, Records DEF This
  <2>2. This = [print |-> pcb.print, sel |-> sel.version]
    BY <1>2 DEF This, Types
  <2>. QED
    BY <1>1, <1>2, <2>1, <2>2 DEF Outputs, Files, Types
<1>5. Types'
  BY <1>2, <1>3, <1>4 DEF Types, Places
<1>6. Honest'
  BY <1>2, <1>3 DEF IInv, Honest
<1>7. Current'
  <2>1. This' = This /\ (Good' <=> Good)
    BY <1>2 DEF This, Good
  <2>. QED
    BY <1>2, <1>3, <1>4, <2>1 DEF IInv, Current, Making
<1>8. Planned' /\ Once'
  BY <1>2 DEF IInv, Planned, Once, BatchOnce
<1>. QED
  BY <1>5, <1>6, <1>7, <1>8 DEF IInv

LEMMA AuditKeeps ==
  ASSUME Instance, IInv, Audit
  PROVE  IInv'
<1>1. PICK intact \in BOOLEAN :
       /\ art' = [art EXCEPT !.ready = intact /\ pcb.sound, !.receipt = IF intact THEN pcb.print ELSE 0]
       /\ IF intact THEN pc' = "receipt" /\ UNCHANGED batch ELSE Finish("rest")
  BY DEF Audit
<1>2. /\ Types /\ pc = "audit" /\ saved' = art'
      /\ UNCHANGED <<pcb, prints, sel, out, receipts, round, stops, late>>
  BY DEF Audit, IInv
<1>3. /\ art' \in Results /\ art'.made = art.made /\ art'.drc = art.drc /\ art'.released = art.released
      /\ art'.exported = art.exported /\ (art'.ready <=> intact /\ pcb.sound)
      /\ art'.receipt = IF intact THEN prints ELSE 0
  <2>. DEFINE q == intact /\ pcb.sound
              n == IF intact THEN pcb.print ELSE 0
  <2>1. q \in BOOLEAN
    OBVIOUS
  <2>2. n = (IF intact THEN prints ELSE 0) /\ n \in Nat
    BY <1>2, Records DEF Types
  <2>3. art' = [art EXCEPT !.ready = q, !.receipt = n]
    BY <1>1
  <2>4. q <=> intact /\ pcb.sound
    OBVIOUS
  <2>. HIDE DEF q, n
  <2>. QED
    BY <1>2, <2>1, <2>2, <2>3, <2>4 DEF Types, Results
<1>4. /\ pc' \in {"receipt", "rest"} /\ (pc' = "receipt" <=> intact)
      /\ batch' \in {batch, None} /\ (pc' = "rest" => batch' = None)
  BY <1>1 DEF Finish
<1>5. Types'
  BY <1>2, <1>3, <1>4 DEF Types, Places
<1>6. Honest'
  BY <1>2, <1>3, Records DEF IInv, Honest
<1>7. ~art.made /\ ~art'.made
  BY <1>2, <1>3 DEF IInv, Current, Making
<1>8. Current'
  <2>1. This' = This /\ ~Good'
    BY <1>2, <1>7 DEF This, Good
  <2>. QED
    BY <1>2, <1>3, <1>4, <1>7, <2>1, Records DEF IInv, Current, Making
<1>9. Planned' /\ Once'
  BY <1>2, <1>4, <1>7 DEF IInv, Planned, Once, BatchOnce
<1>. QED
  BY <1>5, <1>6, <1>8, <1>9 DEF IInv

LEMMA ReceiptKeeps ==
  ASSUME Instance, IInv, Receipt
  PROVE  IInv'
<1>1. /\ Types /\ pc = "receipt" /\ saved' = art' /\ pc' = "rest" /\ batch' = None
      /\ UNCHANGED <<pcb, prints, sel, receipts, round, stops, late>>
  BY DEF Receipt, IInv, Finish
<1>2. Planned' /\ Once'
  BY <1>1 DEF IInv, Planned, Once, BatchOnce
<1>3. This' = This
  BY <1>1 DEF This
<1>4. CASE /\ ReceiptHolds /\ art' = [art EXCEPT !.made = TRUE]
           /\ out' = [out EXCEPT !["receipt"] = [print |-> art.receipt, sel |-> sel.version]]
  <2>1. /\ art' \in Results /\ art'.drc = art.drc /\ art'.released = art.released /\ art'.ready = art.ready
        /\ art'.exported = art.exported /\ art'.receipt = art.receipt /\ art.receipt = prints
    BY <1>1, <1>4 DEF ReceiptHolds, Types, Results
  <2>2. /\ out' \in Outputs /\ out'["receipt"] = This
        /\ \A f \in Files : f # "receipt" => out'[f] = out[f]
    <3>1. This \in [print : Nat, sel : Nat] /\ This = [print |-> art.receipt, sel |-> sel.version]
      BY <1>1, <2>1, Records DEF This
    <3>. QED
      BY <1>1, <1>4, <3>1 DEF Outputs, Files, Types
  <2>3. Types'
    BY <1>1, <2>1, <2>2 DEF Types, Places
  <2>4. Honest'
    BY <1>1, <2>1 DEF IInv, Honest
  <2>5. out'["receipt"].print = prints'
    BY <1>1, <2>2 DEF This
  <2>6. Good' /\ late' = 0 => pcb'.errs = {} /\ \A f \in Files : out'[f] = This'
    <3>. SUFFICES ASSUME Good', late' = 0
                  PROVE  pcb'.errs = {} /\ \A f \in Files : out'[f] = This'
      OBVIOUS
    <3>1. art.drc = {} /\ art.exported /\ late = 0
      BY <1>1, <2>1 DEF Good
    <3>2. out["drc"] = This /\ out["bom"] = This /\ out["export"] = This /\ pcb.errs = {}
      BY <1>1, <3>1 DEF IInv, Current, Making
    <3>. QED
      BY <1>1, <1>3, <2>2, <3>2 DEF Files
  <2>7. Current'
    BY <1>1, <2>5, <2>6 DEF Current, Making
  <2>. QED
    BY <1>2, <2>3, <2>4, <2>7 DEF IInv
<1>5. CASE art' = [art EXCEPT !.made = TRUE, !.ready = FALSE, !.receipt = 0] /\ UNCHANGED out
  <2>1. art' \in Results /\ art'.released = art.released /\ ~art'.ready /\ art'.receipt = 0
    BY <1>1, <1>5 DEF Types, Results
  <2>2. Types'
    BY <1>1, <1>5, <2>1 DEF Types, Places
  <2>3. Honest'
    BY <1>1, <2>1, Records DEF IInv, Honest
  <2>4. ~Good'
    BY <1>1, <2>1, Records DEF Good
  <2>5. Current'
    BY <1>1, <2>4 DEF Current, Making
  <2>. QED
    BY <1>2, <2>2, <2>3, <2>5 DEF IInv
<1>. QED
  BY <1>4, <1>5 DEF Receipt
-----------------------------------------------------------------------------
LEMMA RemakeKeeps ==
  ASSUME Instance, IInv, Remake
  PROVE  IInv'
<1>1. /\ Types /\ pc = "rest" /\ pc' = "drc"
      /\ UNCHANGED <<pcb, prints, sel, out, art, saved, receipts, batch, round, stops, late>>
  BY DEF Remake, Propose, IInv
<1>2. ~Good
  BY <1>1, Records DEF Remake, IInv, Current, Making, Good
<1>3. Types' /\ Honest' /\ Planned' /\ Once'
  BY <1>1 DEF IInv, Types, Places, Honest, Planned, Once, BatchOnce
<1>4. Current'
  BY <1>1, <1>2 DEF IInv, Current, Making, Good, This
<1>. QED
  BY <1>3, <1>4 DEF IInv

(* The board is written at rest, and the outputs are made again or not.    *)
LEMMA RestWrite ==
  ASSUME Instance, IInv, NEW b \in BoardSet, Write(b), b.applied = pcb.applied, pc = "rest",
         pc' \in {"drc", "rest"}, UNCHANGED <<sel, out, art, saved, receipts, batch, round, stops, late>>
  PROVE  IInv'
<1>1. /\ pcb' \in BoardSet /\ prints' \in 1 .. MaxPrints /\ pcb'.print = prints'
      /\ prints' = prints + 1 /\ pcb'.applied = pcb.applied
  BY Written DEF IInv
<1>2. Types'
  BY <1>1 DEF IInv, Types, Places
<1>3. Honest' /\ ~Good'
  BY <1>1, Outdated DEF IInv
<1>4. Current'
  BY <1>3 DEF IInv, Current, Making
<1>5. Planned'
  BY <1>1, Grown DEF IInv, Planned
<1>6. Once'
  BY <1>1, OnceKept, Records DEF IInv
<1>. QED
  BY <1>2, <1>3, <1>4, <1>5, <1>6 DEF IInv

LEMMA DrillKeeps ==
  ASSUME Instance, IInv, DrillRepair
  PROVE  IInv'
<1>1. /\ pc = "rest" /\ UNCHANGED <<sel, out, art, saved, receipts, batch, round, stops, late>>
  BY DEF DrillRepair
<1>2. CASE UNCHANGED <<pcb, prints, pc>>
  BY <1>1, <1>2 DEF IInv, Types, Honest, Current, Good, This, Planned, Once, BatchOnce
<1>3. CASE Write([pcb EXCEPT !.errs = @ \ {"drill"}]) /\ pc' \in {"drc", "rest"}
  <2>. DEFINE b == [pcb EXCEPT !.errs = @ \ {"drill"}]
  <2>1. pcb \in BoardSet /\ pcb.errs \ {"drill"} \in SUBSET Findings
    BY Records DEF IInv, Types
  <2>2. b \in BoardSet /\ b.applied = pcb.applied /\ Write(b)
    BY <1>3, <2>1 DEF BoardSet
  <2>. HIDE DEF b
  <2>. QED
    BY <1>1, <1>3, <2>2, RestWrite
<1>4. UNCHANGED <<pcb, prints, pc>> \/ (Write([pcb EXCEPT !.errs = @ \ {"drill"}]) /\ pc' \in {"drc", "rest"})
  BY DEF DrillRepair
<1>. QED
  BY <1>2, <1>3, <1>4

LEMMA SubstituteKeeps ==
  ASSUME Instance, IInv, Substitute
  PROVE  IInv'
<1>1. /\ Types /\ pc = "rest" /\ "clearance" \in art.drc /\ sel.version < 2
      /\ UNCHANGED <<pcb, prints, out, art, saved, receipts, batch, round, stops, late>>
  BY DEF Substitute, IInv
<1>2. ~Good /\ ~Good'
  BY <1>1 DEF IInv, Current, Making, Good
<1>3. CASE UNCHANGED <<sel, pc>>
  BY <1>1, <1>3 DEF IInv, Types, Honest, Current, Good, This, Planned, Once, BatchOnce
<1>4. CASE sel' = [sel EXCEPT !.version = @ + 1] /\ pc' = "layout"
  <2>1. sel.version + 1 \in 1 .. 2
    BY <1>1, Records
  <2>2. sel' \in [version : 1 .. 2, proven : BOOLEAN] /\ sel'.proven = sel.proven
    BY <1>1, <1>4, <2>1 DEF Types
  <2>3. Types' /\ Honest'
    BY <1>1, <1>4, <2>2 DEF IInv, Types, Honest, Places
  <2>4. Current' /\ Planned' /\ Once'
    BY <1>1, <1>2, <1>4 DEF IInv, Current, Making, Planned, Once, BatchOnce
  <2>. QED
    BY <2>3, <2>4 DEF IInv
<1>. QED
  BY <1>3, <1>4 DEF Substitute

LEMMA RelayoutKeeps ==
  ASSUME Instance, IInv, Relayout
  PROVE  IInv'
<1>1. /\ pc \in {"layout", "rest"} /\ art' = NoResult /\ saved' = NoResult /\ pc' = "drc"
      /\ UNCHANGED <<sel, out, receipts, batch, round, stops, late>>
  BY DEF Relayout
<1>2. PICK c \in Boards : Write([c EXCEPT !.applied = <<>>])
  BY DEF Relayout
<1>. DEFINE b == [c EXCEPT !.applied = <<>>]
<1>3. b \in BoardSet /\ b.applied = <<>> /\ Write(b)
  <2>1. c \in BoardSet /\ <<>> \in Seq((DOMAIN Batches) \X Nat)
    BY FirstBoards
  <2>2. b \in BoardSet /\ b.applied = <<>>
    BY <2>1 DEF BoardSet
  <2>. QED
    BY <1>2, <2>2
<1>. HIDE DEF b
<1>4. /\ pcb' \in BoardSet /\ prints' \in 1 .. MaxPrints /\ pcb'.print = prints'
      /\ prints' = prints + 1 /\ pcb'.applied = <<>>
  BY <1>3, Written DEF IInv
<1>5. NoResult \in Results /\ NoResult.receipt = 0 /\ ~NoResult.made /\ ~NoResult.ready /\ ~NoResult.released
  BY DEF NoResult, Results
<1>6. Types'
  BY <1>1, <1>4, <1>5 DEF IInv, Types, Places
<1>7. Honest' /\ ~Good'
  BY <1>1, <1>4, <1>5, Records DEF IInv, Honest, Good
<1>8. Current'
  BY <1>1, <1>7 DEF Current, Making
<1>9. Planned'
  BY <1>1, <1>4, <1>5, Grown DEF IInv, Planned
<1>10. Once'
  BY <1>4 DEF Once, BatchOnce
<1>. QED
  BY <1>6, <1>7, <1>8, <1>9, <1>10 DEF IInv
-----------------------------------------------------------------------------
LEMMA PlanKeeps ==
  ASSUME Instance, IInv, NEW b \in DOMAIN Batches, Plan(b)
  PROVE  IInv'
<1>1. /\ pc = "rest" /\ pc' = "apply" /\ batch' = [kind |-> "batch", id |-> b, base |-> pcb.print]
      /\ UNCHANGED <<pcb, prints, sel, out, art, saved, receipts, round, stops, late>>
  BY DEF Plan
<1>2. batch' \in Jobs /\ batch'.base = prints /\ batch' # None
  <2>1. pcb.print = prints /\ prints \in Nat
    BY Records DEF IInv, Types
  <2>2. batch' \in Jobs /\ batch'.base = prints
    BY <1>1, <2>1 DEF Jobs
  <2>3. batch'.kind = "batch" /\ None.kind = "none"
    BY <1>1 DEF None
  <2>. QED
    BY <2>2, <2>3
<1>3. Types'
  BY <1>1, <1>2 DEF IInv, Types, Places
<1>4. Honest' /\ Current' /\ Once'
  BY <1>1 DEF IInv, Honest, Current, Making, Good, This, Once, BatchOnce
<1>5. Planned'
  BY <1>1, <1>2, Records DEF IInv, Planned, Honest
<1>. QED
  BY <1>3, <1>4, <1>5 DEF IInv

(* A batch that is found applied left no result of its own behind that     *)
(* could be taken for the outputs that are made again.                     *)
LEMMA ApplyKeeps ==
  ASSUME Instance, IInv, Apply
  PROVE  IInv'
<1>1. /\ pc = "apply" /\ UNCHANGED <<pcb, prints, sel, out, art, saved, receipts, round, stops, late>>
  BY DEF Apply
<1>2. batch # None /\ batch \in Jobs
  BY <1>1 DEF IInv, Planned, Types
<1>3. Honest' /\ Once'
  BY <1>1 DEF IInv, Honest, Once, BatchOnce
<1>4. CASE Finish("rest")
  <2>1. pc' = "rest" /\ batch' = None
    BY <1>4 DEF Finish
  <2>2. Types'
    BY <1>1, <2>1 DEF IInv, Types, Places
  <2>3. Current' /\ Planned'
    BY <1>1, <2>1 DEF IInv, Current, Making, Good, This, Planned
  <2>. QED
    BY <1>3, <2>2, <2>3 DEF IInv
<1>5. CASE ~Collides /\ AlreadyApplied /\ pc' = "drc" /\ UNCHANGED batch
  <2>1. PICK r \in Receipts(Key(batch.id)) : r.id = batch.id /\ r.after = pcb.print
    BY <1>5 DEF AlreadyApplied
  <2>2. r \in receipts /\ r.base = batch.base
    BY <1>5, <2>1 DEF Collides, Receipts
  <2>3. batch.base < prints
    BY <2>1, <2>2 DEF IInv, Planned, Types
  <2>4. ~Good
    <3>1. saved.made => saved.receipt <= batch.base
      BY <1>2 DEF IInv, Planned
    <3>2. batch.base \in Nat /\ saved.receipt \in Nat /\ prints \in Nat
      BY <1>2, Records DEF Jobs, IInv
    <3>. QED
      BY <2>3, <3>1, <3>2 DEF Good
  <2>5. Types'
    BY <1>1, <1>5 DEF IInv, Types, Places
  <2>6. Current'
    BY <1>1, <1>5, <2>4 DEF IInv, Current, Making, Good, This
  <2>7. Planned'
    BY <1>1, <1>5, <1>2 DEF IInv, Planned
  <2>. QED
    BY <1>3, <2>5, <2>6, <2>7 DEF IInv
<1>6. CASE pc' = "worker" /\ batch' = [batch EXCEPT !.kind = "working"]
  <2>1. batch' \in Jobs /\ batch'.base = batch.base /\ batch' # None
    <3>1. batch'.kind = "working" /\ None.kind = "none"
      BY <1>2, <1>6 DEF None, Jobs
    <3>2. batch' \in Jobs /\ batch'.base = batch.base
      BY <1>2, <1>6 DEF Jobs
    <3>. QED
      BY <3>1, <3>2
  <2>2. Types'
    BY <1>1, <1>6, <2>1 DEF IInv, Types, Places
  <2>3. Current'
    BY <1>1, <1>6 DEF IInv, Current, Making, Good, This
  <2>4. Planned'
    BY <1>1, <1>2, <1>6, <2>1 DEF IInv, Planned
  <2>. QED
    BY <1>3, <2>2, <2>3, <2>4 DEF IInv
<1>. QED
  BY <1>4, <1>5, <1>6 DEF Apply

LEMMA CommitKeeps ==
  ASSUME Instance, IInv, Commit
  PROVE  IInv'
<1>1. /\ pc = "worker" /\ UNCHANGED <<sel, out, art, saved, receipts, round, stops, late>>
  BY DEF Commit
<1>2. batch # None /\ batch \in Jobs
  BY <1>1 DEF IInv, Planned, Types
<1>3. CASE Finish("rest") /\ UNCHANGED <<pcb, prints>>
  <2>1. pc' = "rest" /\ batch' = None
    BY <1>3 DEF Finish
  <2>2. Types'
    BY <1>1, <1>3, <2>1 DEF IInv, Types, Places
  <2>3. Current' /\ Planned'
    BY <1>1, <1>3, <2>1 DEF IInv, Current, Making, Good, This, Planned
  <2>4. Honest' /\ Once'
    BY <1>1, <1>3 DEF IInv, Honest, Once, BatchOnce
  <2>. QED
    BY <2>2, <2>3, <2>4 DEF IInv
<1>4. ASSUME Matches, pc' = "note", UNCHANGED batch, NEW errs \in {pcb.errs, {}, {"clearance"}},
             Write([pcb EXCEPT !.applied = Append(@, <<batch.id, batch.base>>), !.errs = errs])
      PROVE  IInv'
  <2>. DEFINE n == Append(pcb.applied, <<batch.id, batch.base>>)
              b == [pcb EXCEPT !.applied = n, !.errs = errs]
  <2>1. pcb \in BoardSet /\ pcb.applied \in Seq((DOMAIN Batches) \X Nat) /\ errs \in SUBSET Findings
    <3>1. errs \in SUBSET Findings
      BY <1>4, Records, Clearances DEF IInv
    <3>. QED
      BY <3>1 DEF IInv, Types, BoardSet
  <2>2. <<batch.id, batch.base>> \in (DOMAIN Batches) \X Nat /\ batch.base = prints
    BY <1>2, <1>4 DEF Jobs, Matches, IInv, Types
  <2>3. n \in Seq((DOMAIN Batches) \X Nat)
    BY <2>1, <2>2
  <2>4. Write(b)
    BY <1>4
  <2>. HIDE DEF n
  <2>5. b \in BoardSet /\ b.applied = n
    BY <2>1, <2>3 DEF BoardSet
  <2>. HIDE DEF b
  <2>6. /\ pcb' \in BoardSet /\ prints' \in 1 .. MaxPrints /\ pcb'.print = prints'
        /\ prints' = prints + 1 /\ pcb'.applied = n
    BY <2>4, <2>5, Written DEF IInv
  <2>7. Types'
    BY <1>1, <1>4, <2>6 DEF IInv, Types, Places
  <2>8. Honest' /\ ~Good'
    BY <1>1, <2>6, Outdated DEF IInv
  <2>9. Current'
    BY <1>1, <1>4, <2>8 DEF IInv, Current, Making
  <2>10. Planned'
    <3>1. batch.base < prints'
      BY <2>2, <2>6, Records DEF IInv
    <3>. QED
      BY <1>1, <1>2, <1>4, <2>6, <3>1, Grown DEF IInv, Planned
  <2>11. Once'
    <3>. DEFINE a == pcb.applied
                m == Len(a)
    <3>1. /\ a \in Seq((DOMAIN Batches) \X Nat) /\ m \in Nat /\ DOMAIN a = 1 .. m
          /\ DOMAIN n = 1 .. m + 1 /\ n[m + 1] = <<batch.id, batch.base>>
          /\ \A i \in 1 .. m : n[i] = a[i]
      BY <2>1, <2>2 DEF n
    <3>2. \A i \in 1 .. m : a[i][2] < prints /\ a[i][2] \in Nat
      <4>1. \A i \in 1 .. m : a[i] \in (DOMAIN Batches) \X Nat
        BY <3>1
      <4>. QED
        BY <3>1, <4>1 DEF IInv, Once
    <3>3. n[m + 1][2] = prints
      BY <2>2, <3>1
    <3>. HIDE DEF a, m
    <3>4. \A i \in 1 .. m : n[i] # n[m + 1]
      BY <2>2, <3>1, <3>2, <3>3, Records DEF IInv
    <3>5. \A i, j \in 1 .. m : a[i] = a[j] => i = j
      BY <3>1 DEF IInv, Once, BatchOnce, a
    <3>6. \A i, j \in 1 .. m + 1 : n[i] = n[j] => i = j
      BY <3>1, <3>4, <3>5
    <3>7. \A i \in 1 .. m + 1 : n[i][2] < prints'
      BY <2>6, <3>1, <3>2, <3>3, Records DEF IInv
    <3>. QED
      BY <2>6, <3>1, <3>6, <3>7 DEF Once, BatchOnce
  <2>. QED
    BY <2>7, <2>8, <2>9, <2>10, <2>11 DEF IInv
<1>. QED
  BY <1>3, <1>4 DEF Commit

LEMMA NoteKeeps ==
  ASSUME Instance, IInv, Note
  PROVE  IInv'
<1>. DEFINE new == [key |-> Key(batch.id), id |-> batch.id, base |-> batch.base, after |-> pcb.print]
<1>1. /\ pc = "note" /\ pc' = "drc" /\ receipts' \subseteq receipts \cup {new}
      /\ UNCHANGED <<pcb, prints, sel, out, art, saved, batch, round, stops, late>>
  BY DEF Note
<1>2. batch # None /\ batch \in Jobs /\ batch.base < prints /\ pcb.print = prints
  BY <1>1 DEF IInv, Planned, Types
<1>3. new.base \in Nat /\ new.after \in Nat /\ new.base < new.after /\ new.after <= prints
  BY <1>2, Records DEF IInv, Jobs
<1>. HIDE DEF new
<1>4. ~Good
  <2>1. saved.made => saved.receipt <= batch.base
    BY <1>2 DEF IInv, Planned
  <2>2. batch.base \in Nat /\ saved.receipt \in Nat /\ prints \in Nat
    BY <1>2, Records DEF Jobs, IInv
  <2>. QED
    BY <1>2, <2>1, <2>2 DEF Good
<1>5. Types' /\ Honest' /\ Once'
  BY <1>1 DEF IInv, Types, Places, Honest, Once, BatchOnce
<1>6. Current'
  BY <1>1, <1>4 DEF IInv, Current, Making, Good, This
<1>7. Planned'
  BY <1>1, <1>2, <1>3 DEF IInv, Planned
<1>. QED
  BY <1>5, <1>6, <1>7 DEF IInv
-----------------------------------------------------------------------------
LEMMA StopKeeps ==
  ASSUME Instance, IInv, Stop
  PROVE  IInv'
<1>1. /\ stops < MaxStops /\ stops' = stops + 1 /\ art' = saved /\ round' = 0
      /\ UNCHANGED <<pcb, prints, sel, out, saved, receipts, late>>
  BY DEF Stop
<1>2. stops' \in 0 .. MaxStops /\ round' \in 0 .. Rounds
  BY <1>1 DEF IInv, Types, Instance
<1>3. Honest' /\ Once'
  BY <1>1 DEF IInv, Honest, Once, BatchOnce
<1>4. (Good' <=> Good) /\ This' = This
  BY <1>1 DEF Good, This
<1>5. CASE batch # None
  <2>1. pc' = "apply" /\ batch' = [batch EXCEPT !.kind = "batch"] /\ batch \in Jobs
    BY <1>5 DEF Stop, IInv, Types
  <2>2. batch' \in Jobs /\ batch'.base = batch.base /\ batch' # None
    <3>1. batch'.kind = "batch" /\ None.kind = "none"
      BY <2>1 DEF None, Jobs
    <3>2. batch' \in Jobs /\ batch'.base = batch.base
      BY <2>1 DEF Jobs
    <3>. QED
      BY <3>1, <3>2
  <2>3. Types'
    BY <1>1, <1>2, <2>1, <2>2 DEF IInv, Types, Places
  <2>4. Current'
    BY <1>1, <1>4, <2>1 DEF IInv, Current, Making
  <2>5. Planned'
    BY <1>1, <1>5, <2>1, <2>2 DEF IInv, Planned
  <2>. QED
    BY <1>3, <2>3, <2>4, <2>5 DEF IInv
<1>6. CASE batch = None
  <2>1. /\ batch' = None /\ pc' \in {"rest", "drc"}
        /\ pc' = "drc" => ~(saved.made /\ ReceiptCurrent(saved))
    BY <1>6 DEF Stop
  <2>2. pc' = "drc" => ~Good
    <3>. SUFFICES ASSUME Good PROVE saved.made /\ ReceiptCurrent(saved)
      BY <2>1
    <3>1. out["receipt"].print = prints /\ pcb.print = prints /\ saved.receipt = prints
      BY DEF IInv, Current, Types, Good
    <3>. QED
      BY <3>1, Records DEF IInv, ReceiptCurrent, Good
  <2>3. Types'
    BY <1>1, <1>2, <2>1 DEF IInv, Types, Places
  <2>4. Current'
    BY <1>1, <1>4, <2>1, <2>2 DEF IInv, Current, Making
  <2>5. Planned'
    BY <1>1, <2>1 DEF IInv, Planned
  <2>. QED
    BY <1>3, <2>3, <2>4, <2>5 DEF IInv
<1>. QED
  BY <1>5, <1>6

LEMMA LateKeeps ==
  ASSUME Instance, IInv, LateWrite
  PROVE  IInv'
<1>1. /\ late < MaxLate /\ late' = late + 1 /\ Write(pcb)
      /\ UNCHANGED <<sel, out, art, saved, receipts, batch, pc, round, stops>>
  BY DEF LateWrite
<1>2. late' \in 0 .. MaxLate /\ late' # 0
  BY <1>1 DEF IInv, Types, Instance
<1>3. /\ pcb' \in BoardSet /\ prints' \in 1 .. MaxPrints /\ pcb'.print = prints'
      /\ prints' = prints + 1 /\ pcb'.applied = pcb.applied
  BY <1>1, Written DEF IInv, Types
<1>4. Types'
  BY <1>1, <1>2, <1>3 DEF IInv, Types
<1>5. Honest' /\ ~Good'
  BY <1>1, <1>3, Outdated DEF IInv
<1>6. Current'
  BY <1>1, <1>2, <1>5 DEF IInv, Current, Making
<1>7. Planned'
  <2>1. batch # None => batch \in Jobs
    BY DEF IInv, Types
  <2>. QED
    <3>1. pc = "note" => batch.base < prints'
      BY <1>3, <2>1, Records DEF IInv, Planned, Jobs
    <3>. QED
      BY <1>1, <1>3, <3>1, Grown DEF IInv, Planned
<1>8. Once'
  BY <1>3, OnceKept, Records DEF IInv
<1>. QED
  BY <1>4, <1>5, <1>6, <1>7, <1>8 DEF IInv
-----------------------------------------------------------------------------
LEMMA Start ==
  ASSUME Instance, Init
  PROVE  IInv
<1>1. pcb \in BoardSet /\ pcb.print = 1 /\ pcb.applied = <<>> /\ prints = 1
  BY FirstBoards DEF Init
<1>2. NoResult \in Results /\ NoResult.receipt = 0 /\ ~NoResult.made /\ ~NoResult.ready /\ ~NoResult.released
  BY DEF NoResult, Results
<1>3. sel \in [version : 1 .. 2, proven : BOOLEAN]
  BY DEF Init
<1>4. out \in Outputs
  BY DEF Init, Outputs, NoFile
<1>5. Types
  BY <1>1, <1>2, <1>3, <1>4 DEF Init, Types, Places, Instance
<1>6. Honest /\ ~Good
  BY <1>1, <1>2 DEF Init, Honest, Good
<1>7. Current
  BY <1>6 DEF Init, Current, Making
<1>8. Planned /\ Once
  BY <1>1 DEF Init, Planned, Once, BatchOnce
<1>. QED
  BY <1>5, <1>6, <1>7, <1>8 DEF IInv

LEMMA Kept ==
  ASSUME Instance, IInv, [Next]_vars
  PROVE  IInv'
<1>1. CASE UNCHANGED vars
  BY <1>1 DEF vars, IInv, Types, Honest, Current, Good, This, Planned, Once, BatchOnce
<1>. QED
  BY <1>1, DrcKeeps, CleanupKeeps, ExportKeeps, AuditKeeps, ReceiptKeeps, RemakeKeeps, DrillKeeps,
     SubstituteKeeps, RelayoutKeeps, PlanKeeps, ApplyKeeps, CommitKeeps, NoteKeeps, StopKeeps,
     LateKeeps DEF Next

LEMMA Sound ==
  ASSUME Instance, IInv
  PROVE  ReleaseSound
<1>1. TypeOK
  BY Records DEF IInv, Types, TypeOK, Outputs
<1>2. ASSUME Accepted
      PROVE  Good /\ art = saved /\ art.released /\ out["receipt"].print = pcb.print
  BY <1>2 DEF Accepted, ReceiptCurrent, IInv, Current, Making, Good, Types
<1>3. ReceiptBinds
  BY <1>2 DEF ReceiptBinds, IInv, Honest, Good
<1>4. OutputsAgree
  BY <1>2 DEF OutputsAgree, IInv, Current, This, Types
<1>5. BatchOnce
  BY DEF IInv, Once
<1>. QED
  BY <1>1, <1>3, <1>4, <1>5 DEF ReleaseSound

(* An accepted release is bound to the bytes of the board, which passed    *)
(* the audit with parts that are released, whoever wrote the board and     *)
(* wherever the process stopped; without a foreign writer every output was *)
(* made from that board and that selection and its DRC is clean; no batch  *)
(* is in the board twice.                                                  *)
THEOREM BoundRelease ==
  ASSUME Instance
  PROVE  Spec => []ReleaseSound
<1>1. Init => IInv
  BY Start
<1>2. IInv /\ [Next]_vars => IInv'
  BY Kept
<1>3. IInv => ReleaseSound
  BY Sound
<1>. QED
  BY <1>1, <1>2, <1>3, PTL DEF Spec
=============================================================================
