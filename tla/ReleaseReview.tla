---------------------------- MODULE ReleaseReview ----------------------------
(***************************************************************************)
(* The verdict on a finished design.  The pipeline tool verifies what its  *)
(* run left behind and attests a release; the reviewer reads the project   *)
(* again, file after file, without the lock of the run, publishes a        *)
(* report and lets the memory learn from a release that passed.  A call    *)
(* of the reviewer that misses its deadline is given up, its thread goes   *)
(* on.  Meanwhile a user edits the project, approves waivers or asks for   *)
(* another run, and kicad-cli may end without writing its report.          *)
(*                                                                         *)
(* A file is told apart by its content; a report of kicad-cli is what it   *)
(* was made of and a stamp (it carries its date).                          *)
(***************************************************************************)
EXTENDS Naturals, FiniteSets, Sequences

CONSTANTS
  Modes,       \* "build": after a run; "review": of a project as it is
  Reqs,        \* requirements (an amendment is another one)
  Boards,      \* what a .kicad_pcb may hold
  Sheets,      \* what a .kicad_sch may hold
  Works,       \* what a run of the pipeline may have made
  Holes,       \* references of mounting holes
  Waivable,    \* rules of warnings about the readability of the assembly
  BlockRefs,   \* the parts of each block of the topology
  Stamps,      \* dates of reports
  Governed,    \* the run has a trusted scope, its results may be learned
  MaxRuns,     \* bound on runs of the pipeline tool
  MaxEdits,    \* bound on edits and approvals of the user
  MaxFaults    \* bound on calls of kicad-cli that leave no report, on
               \* deadlines missed and on failed advisory calls

VARIABLES
  mode,
  files,     \* the project: schematic, board, proofs, BOM, receipt, checkpoint
  erc, drc,  \* the reports of kicad-cli on disk
  waivers,   \* .warning-waivers.json
  approval,  \* requirement the fan-out approval is for; 0: there is none
  tool,      \* the pipeline tool: idle, run, made
  work,      \* what its run made
  hardware,  \* its result, as the graph validated it
  phase,     \* of the graph: hardware, baseline, advisory, judge, load, promote, end
  calls,     \* calls of the reviewer, in order; each is a thread
  result,    \* the review the graph holds
  published, \* the report file
  source,    \* checkpoint reloaded for the promotion
  learned,   \* verified experience
  runs, edits, faults

vars == <<mode, files, erc, drc, waivers, approval, tool, work, hardware, phase,
          calls, result, published, source, learned, runs, edits, faults>>

NoSheet == [id |-> 0, parts |-> << >>, errors |-> 0, warns |-> {}, bound |-> FALSE,
            alike |-> FALSE, audit |-> TRUE]
NoBoard == [id |-> 0, refs |-> {}, bad |-> [r \in Reqs |-> {}], errors |-> 0, warns |-> << >>,
            alike |-> FALSE, audit |-> TRUE, kept |-> TRUE]
NoReport == [of |-> NoBoard, stamp |-> 0]
NoIdentity == [req |-> 0, board |-> 0]
NoList == [there |-> FALSE, parts |-> << >>]
NoReceipt == [identity |-> NoIdentity, findings |-> {}, blocked |-> TRUE, approval |-> 0]
NoResult == [given |-> FALSE, ready |-> FALSE, blocked |-> TRUE, identity |-> NoIdentity,
             eligible |-> FALSE, modules |-> {}]
NoReview == [status |-> "none", call |-> 0]
NoSource == [parts |-> << >>, identity |-> NoIdentity]
Stopped == [complete |-> FALSE, issues |-> TRUE]

-----------------------------------------------------------------------------
(* What the gates ask of the files.                                        *)

\* audit_pcb_invariants: layers, outline, ground plane, widths (the fan-out
\* approval excuses power neck-downs) and distances; then the mounting holes.
Physical(b, req) == b.bad[req] \ (IF approval = req THEN {"width"} ELSE {})
Missing(b, parts) == (Holes \cap DOMAIN parts) \ b.refs
Audit(b, parts, req) == Physical(b, req) \cup Missing(b, parts)

\* _release_proof_problem
Releasable(status) == status = "proven"

\* _component_release_gate: proofs of the manifest, properties of the
\* schematic's symbols and rows of the BOM.
Unproven(list) == {r \in DOMAIN list : ~Releasable(list[r])}
ManifestFindings(f) ==
  IF ~f.proofs.there THEN {}
  ELSE Unproven(f.proofs.parts) \cup (IF f.proofs.parts = << >> THEN {"<manifest>"} ELSE {})
SheetFindings(f) == Unproven(f.sheet.parts)
BomFindings(f) ==
  Unproven(f.bom.parts)
    \cup (IF f.bom.there /\ f.proofs.there /\ DOMAIN f.bom.parts # DOMAIN f.proofs.parts
          THEN {"<release-proof>"} ELSE {})
ComponentFindings(f) ==
  ManifestFindings(f) \cup SheetFindings(f) \cup BomFindings(f)
    \cup (IF ~f.proofs.there /\ ~f.bom.there /\ f.sheet.parts = << >> THEN {"<project>"} ELSE {})

\* The resolutions of warnings: symbols bound in the project or equal to the
\* library's, footprints equal to the library's, one waiver for the rule.
SymbolsBound(s, rule) == rule = "binding" /\ s.bound
SymbolsAlike(s, rule) == rule = "mismatch" /\ s.alike
FootprintsAlike(b, rule) == rule = "footprint" /\ b.alike

\* A waiver that forgets for which report it was approved.
MutWaiverMatches(w, rule, count, b, rep) ==
  w.rule = rule /\ w.count = count /\ w.board = b.id

\* _waiver_matches
WaiverMatches(w, rule, count, b, rep) ==
  w.rule = rule /\ w.count = count /\ w.board = b.id /\ w.report = rep

Waived(rule, count, b, rep) ==
  /\ rule \in Waivable
  /\ Cardinality({w \in waivers : WaiverMatches(w, rule, count, b, rep)}) = 1

\* apply_warning_contract: rules of a report (of what was read) that stay
\* blocked, given the files and the report on disk by then.
SheetWarnings(read, s) == {r \in read.warns : ~SymbolsBound(s, r) /\ ~SymbolsAlike(s, r)}
BoardWarnings(read, b, rep) ==
  {r \in DOMAIN read.warns : ~FootprintsAlike(b, r) /\ ~Waived(r, read.warns[r], b, rep)}

\* run_erc: kicad-cli ran, whether or not it wrote a report; an older report
\* is read for it, and none at all is read as no violations.
ErcRead(cli) == IF cli = "wrote" THEN files.sheet ELSE erc
ErcWritten(cli) == IF cli = "wrote" THEN files.sheet ELSE erc

\* _drc_check; without any report the DRC did not run.
DrcWritten(cli, stamp) == IF cli = "wrote" THEN [of |-> files.board, stamp |-> stamp] ELSE drc
DrcRan(cli) == cli = "wrote" \/ (cli = "silent" /\ drc # NoReport)

\* How a call of kicad-cli may end.
Outcomes == {"wrote"} \cup (IF faults < MaxFaults THEN {"silent", "absent"} ELSE {})
Spent(a, b) == faults' = faults + (IF a = "wrote" THEN 0 ELSE 1) + (IF b = "wrote" THEN 0 ELSE 1)

\* _verification_blockers
ErcBlockers(cli) ==
  IF files.sheet.id = 0 THEN {}
  ELSE IF cli = "absent" THEN {"erc"}
  ELSE (IF ErcRead(cli).errors > 0 THEN {"erc"} ELSE {})
         \cup (IF SheetWarnings(ErcRead(cli), files.sheet) # {} THEN {"warning"} ELSE {})
DrcBlockers(ran, rep) ==
  IF files.board.id = 0 THEN {}
  ELSE IF ~ran \/ rep.of.errors > 0 THEN {"drc"} ELSE {}
WarningBlockers(read, rep) ==
  IF files.board.id # 0 /\ BoardWarnings(read.of, files.board, rep) # {} THEN {"warning"} ELSE {}

-----------------------------------------------------------------------------
(* Circuit modules: blocks all of whose parts are released.                *)

Modules(parts, identity) ==
  {[parts |-> [r \in refs |-> parts[r]], of |-> identity] :
     refs \in {s \in BlockRefs : s \subseteq DOMAIN parts /\ \A r \in s : Releasable(parts[r])}}

-----------------------------------------------------------------------------
(* The pipeline tool.                                                      *)

Init ==
  /\ mode \in Modes
  /\ files \in {[sheet |-> s, board |-> b, proofs |-> NoList, bom |-> NoList, receipt |-> NoReceipt,
                 check |-> [req |-> 0, parts |-> << >>, identity |-> NoIdentity]] :
                  s \in IF mode = "build" THEN {NoSheet} ELSE Sheets \cup {NoSheet},
                  b \in IF mode = "build" THEN {NoBoard} ELSE Boards}
  /\ erc = NoSheet /\ drc = NoReport /\ waivers = {} /\ approval = 0
  /\ tool = "idle" /\ work = Stopped /\ hardware = NoResult
  /\ phase = IF mode = "build" THEN "hardware" ELSE "baseline"
  /\ calls = << >> /\ result = NoReview /\ published = [call |-> 0, verdict |-> "none"]
  /\ source = NoSource /\ learned = {}
  /\ runs = 0 /\ edits = 0 /\ faults = 0

\* Any call under way has seen files that are no longer so.
Touched == calls' = [k \in DOMAIN calls |-> [calls[k] EXCEPT !.still = FALSE]]

\* _run_pcb_pipeline_unlocked takes the checkpoint up; the result of the
\* last manufacturing step is not part of it any more.
Begin ==
  /\ phase = "hardware" /\ tool = "idle" /\ runs < MaxRuns
  /\ \E req \in Reqs :
       files' = [files EXCEPT !.check = [req |-> req, parts |-> files.check.parts, identity |-> NoIdentity]]
  /\ tool' = "run" /\ runs' = runs + 1 /\ result' = NoReview /\ source' = NoSource
  /\ Touched
  /\ UNCHANGED <<mode, erc, drc, waivers, approval, work, hardware, phase, published, learned,
                 edits, faults>>

\* The run completes: files, component proofs, BOM, receipt and checkpoint
\* (build_release_invariant_manifest).
Manufacture ==
  /\ tool = "run"
  /\ \E w \in Works, stamp \in Stamps :
       LET identity == [req |-> files.check.req, board |-> w.board.id]
           found == Audit(w.board, w.sheet.parts, files.check.req)
           list == [there |-> TRUE, parts |-> w.sheet.parts]
       IN /\ files' = [sheet |-> w.sheet, board |-> w.board, proofs |-> list, bom |-> list,
                       receipt |-> [identity |-> identity, findings |-> found,
                                    blocked |-> found # {} \/ w.issues,
                                    approval |-> IF approval = identity.req THEN approval ELSE 0],
                       check |-> [req |-> files.check.req, parts |-> w.sheet.parts,
                                  identity |-> identity]]
          /\ drc' = [of |-> w.board, stamp |-> stamp] /\ erc' = w.sheet
          /\ work' = [complete |-> TRUE, issues |-> found # {} \/ w.issues]
  /\ tool' = "made" /\ Touched
  /\ UNCHANGED <<mode, waivers, approval, hardware, phase, result, published, source, learned,
                 runs, edits, faults>>

\* Or a step before the last stops it.
Stop ==
  /\ tool = "run" /\ tool' = "made" /\ work' = Stopped
  /\ UNCHANGED <<mode, files, erc, drc, waivers, approval, hardware, phase, calls, result,
                 published, source, learned, runs, edits, faults>>

\* _current_pipeline_files: both files of the design are there.
Delivered == files.sheet.id # 0 /\ files.board.id # 0

\* selection_release_issues
ComponentIssues == files.check.parts = << >> \/ Unproven(files.check.parts) # {}

Learnable == Modules(files.check.parts, files.check.identity)

\* The rest of the tool, and _validate_hardware_result.
Attest ==
  /\ tool = "made"
  /\ \E e \in Outcomes, d \in Outcomes, stamp \in Stamps :
       LET rep == DrcWritten(d, stamp)
           clean == /\ ErcBlockers(e) = {} /\ DrcBlockers(DrcRan(d), rep) = {}
                    /\ WarningBlockers(rep, rep) = {}
                    /\ Delivered
           ready == work.complete /\ ~work.issues /\ clean /\ ~ComponentIssues
       IN /\ erc' = ErcWritten(e) /\ drc' = rep /\ Spent(e, d)
          /\ hardware' = [given |-> TRUE, ready |-> ready, blocked |-> ~ready,
                          identity |-> files.check.identity, eligible |-> ready /\ Governed,
                          modules |-> IF ready THEN Learnable ELSE {}]
  /\ tool' = "idle" /\ Touched
  /\ phase' = IF Delivered THEN "baseline" ELSE "end"
  /\ UNCHANGED <<mode, files, waivers, approval, work, result, published, source, learned,
                 runs, edits>>

\* An exception anywhere is answered with an error.
Error ==
  /\ tool # "idle" /\ tool' = "idle" /\ hardware' = NoResult /\ phase' = "end"
  /\ UNCHANGED <<mode, files, erc, drc, waivers, approval, work, calls, result, published, source,
                 learned, runs, edits, faults>>

-----------------------------------------------------------------------------
(* ratsnest_review_kicad_project, one thread per call.                     *)

Advance(k, from, c, others) ==
  /\ calls[k].pc = from
  /\ calls' = [j \in DOMAIN calls |-> IF j = k THEN c ELSE [calls[j] EXCEPT !.still = @ /\ others]]
  /\ UNCHANGED <<mode, files, waivers, approval, tool, work, hardware, phase, result, source,
                 learned, runs, edits>>
Step(k, from, c) == Advance(k, from, c, TRUE)

\* A step that writes a report another call may have read.
Rewrite(k, from, c) == Advance(k, from, c, FALSE)

\* review_project
Gates(k) ==
  /\ Step(k, "gates",
          IF files.sheet.id = 0 /\ files.board.id = 0
          THEN [calls[k] EXCEPT !.pc = "done", !.status = "error"]
          ELSE [calls[k] EXCEPT !.pc = "receipt",
                  !.why = (IF files.sheet.audit /\ files.board.audit THEN {} ELSE {"audit"})
                            \cup (IF ComponentFindings(files) = {} THEN {} ELSE {"component"})])
  /\ UNCHANGED <<erc, drc, published, faults>>

\* validate_release_invariant_manifest: the receipt is of this requirement,
\* this approval and this board, and a new audit finds what it says.
ReceiptValid(f) ==
  /\ f.receipt # NoReceipt /\ f.board.id # 0 /\ f.check.parts # << >>
  /\ f.receipt.identity = [req |-> f.check.req, board |-> f.board.id]
  /\ f.receipt.approval = (IF approval = f.check.req THEN approval ELSE 0)
  /\ f.receipt.findings = Audit(f.board, f.check.parts, f.check.req)

\* What the hardware's result and the receipt add to the reasons of an
\* integrated release (_release_invariant_manifest).
Unreleased(up) ==
  (IF up.ready THEN {} ELSE {"upstream"})
    \cup (IF /\ up.identity # NoIdentity /\ ReceiptValid(files)
             /\ up.identity = files.receipt.identity THEN {} ELSE {"identity"})
    \cup (IF ReceiptValid(files) /\ ~files.receipt.blocked THEN {} ELSE {"receipt"})
ReadReceipt(k) ==
  /\ Step(k, "receipt",
          [calls[k] EXCEPT !.pc = "erc",
             !.over = IF calls[k].integrated THEN Unreleased(calls[k].up) ELSE {}])
  /\ UNCHANGED <<erc, drc, published, faults>>

\* _verification: ERC, then DRC; _drc_check reads the report it may have
\* written, whose warnings are judged by the files of a later moment.
RunErc(k) ==
  \E e \in Outcomes :
    /\ Rewrite(k, "erc", [calls[k] EXCEPT !.pc = "drc", !.why = @ \cup ErcBlockers(e),
                            !.wrote = (e = "wrote")])
    /\ erc' = ErcWritten(e) /\ Spent(e, "wrote")
    /\ UNCHANGED <<drc, published>>
RunDrc(k) ==
  \E d \in Outcomes, stamp \in Stamps :
    LET rep == DrcWritten(d, stamp)
    IN /\ Rewrite(k, "drc", [calls[k] EXCEPT !.pc = "warnings", !.read = rep,
                              !.why = @ \cup DrcBlockers(DrcRan(d), rep),
                              !.wrote = @ /\ d = "wrote"])
       /\ drc' = rep /\ Spent("wrote", d)
       /\ UNCHANGED <<erc, published>>
Classify(k) ==
  /\ Step(k, "warnings", [calls[k] EXCEPT !.pc = "placement",
                            !.why = @ \cup WarningBlockers(calls[k].read, drc)])
  /\ UNCHANGED <<erc, drc, published, faults>>

\* review_pcb_placement_constraints
Place(k) ==
  /\ Step(k, "placement", [calls[k] EXCEPT !.pc = "publish",
                             !.why = @ \cup (IF files.board.kept THEN {} ELSE {"placement"})])
  /\ UNCHANGED <<erc, drc, published, faults>>

\* The report is published before any advice is asked for.
Verdict(c) == IF c.why \cup c.over = {} THEN "ok" ELSE "blocked"
Publish(k) ==
  /\ Step(k, "publish", [calls[k] EXCEPT !.status = Verdict(calls[k]),
                           !.pc = IF calls[k].kind = "advisory" THEN "advice" ELSE "done"])
  /\ published' = [call |-> k, verdict |-> Verdict(calls[k])]
  /\ UNCHANGED <<erc, drc, faults>>

\* The advice changes no verdict: the report is rendered again, with it or
\* with the note that there is none.  An error the tool does not expect
\* leaves the call without an answer.
Enrich(k) ==
  /\ Step(k, "advice", [calls[k] EXCEPT !.pc = "done"])
  /\ published' = [call |-> k, verdict |-> calls[k].status]
  /\ UNCHANGED <<erc, drc, faults>>
Raise(k) ==
  /\ faults < MaxFaults /\ faults' = faults + 1
  /\ Step(k, "advice", [calls[k] EXCEPT !.pc = "done", !.status = "error"])
  /\ UNCHANGED <<erc, drc, published>>

Review(k) ==
  \/ Gates(k) \/ ReadReceipt(k) \/ RunErc(k) \/ RunDrc(k) \/ Classify(k) \/ Place(k)
  \/ Publish(k) \/ Enrich(k) \/ Raise(k)

-----------------------------------------------------------------------------
(* reviewer_phase.                                                         *)

Phase(from, to) ==
  /\ phase = from /\ phase' = to
  /\ UNCHANGED <<mode, files, erc, drc, waivers, approval, tool, work, hardware, published, runs,
                 edits>>

NewCall(kind) == [pc |-> "gates", kind |-> kind, integrated |-> mode = "build", up |-> hardware,
                  why |-> {}, over |-> {}, read |-> NoReport, wrote |-> FALSE, still |-> TRUE,
                  late |-> FALSE, status |-> "none"]
Call ==
  /\ \/ Phase("baseline", "reviewing") /\ calls' = Append(calls, NewCall("baseline"))
     \/ Phase("advisory", "advising") /\ calls' = Append(calls, NewCall("advisory"))
  /\ UNCHANGED <<result, source, learned, faults>>

\* The offline call decides, unless a second one, with advice, gives a
\* verdict of its own.
Decided == [status |-> IF calls[Len(calls)].status = "ok" THEN "ok" ELSE "blocked",
            call |-> Len(calls)]
Return ==
  /\ calls # << >> /\ calls[Len(calls)].pc = "done"
  /\ \/ /\ \E next \in IF calls[Len(calls)].status = "error" THEN {"judge"}
                       ELSE {"advisory", "judge"} : Phase("reviewing", next)
        /\ result' = Decided
     \/ /\ Phase("advising", "judge")
        /\ result' = IF calls[Len(calls)].status = "error" THEN result ELSE Decided
  /\ UNCHANGED <<calls, source, learned, faults>>

\* await_with_deadline gives the call up; its thread is not stopped.
TimesOut ==
  /\ faults < MaxFaults /\ faults' = faults + 1
  /\ calls # << >> /\ calls[Len(calls)].pc # "done"
  /\ calls' = [calls EXCEPT ![Len(calls)].late = TRUE]
  /\ \/ Phase("reviewing", "judge") /\ result' = [status |-> "blocked", call |-> 0]
     \/ Phase("advising", "judge") /\ UNCHANGED result
  /\ UNCHANGED <<source, learned>>

Promotable == result.status = "ok" /\ hardware.ready /\ hardware.eligible

\* Without a release to promote the phase is over.
Judge ==
  /\ \E next \in {"load", "end"} : next = (IF Promotable THEN "load" ELSE "end") /\ Phase("judge", next)
  /\ UNCHANGED <<calls, result, source, learned, faults>>

\* _reviewer_module_promotion_source: the checkpoint and the board of the
\* release; otherwise the experience is kept without modules.
Reviewed(identity) ==
  /\ files.check.identity = identity /\ files.board.id = identity.board
  /\ hardware.modules \subseteq Modules(files.check.parts, identity)
Load ==
  /\ Phase("load", "promote")
  /\ source' = IF hardware.modules # {} /\ Reviewed(hardware.identity)
               THEN [parts |-> files.check.parts, identity |-> hardware.identity]
               ELSE NoSource
  /\ UNCHANGED <<calls, result, learned, faults>>

\* promote_verified_run extracts the layout of the modules again: a board
\* that is not the release's any more lets it fail.
Promote ==
  /\ Phase("promote", "end")
  /\ \/ learned' = learned \cup {[of |-> hardware.identity, call |-> result.call,
                                  modules |-> IF source = NoSource THEN {} ELSE hardware.modules]}
     \/ /\ source # NoSource /\ files.board.id # source.identity.board
        /\ UNCHANGED learned
  /\ UNCHANGED <<calls, result, source, faults>>

\* A blocked review is handed to a repair, an amendment starts over; a
\* project under review is reviewed again.
Again ==
  /\ phase = "end" /\ runs < MaxRuns
  /\ phase' = IF mode = "build" THEN "hardware" ELSE "baseline"
  /\ runs' = IF mode = "build" THEN runs ELSE runs + 1
  /\ UNCHANGED <<mode, files, erc, drc, waivers, approval, tool, work, hardware, calls, result,
                 published, source, learned, edits, faults>>

-----------------------------------------------------------------------------
(* The user.                                                               *)

User ==
  /\ edits < MaxEdits /\ edits' = edits + 1 /\ Touched
  /\ UNCHANGED <<mode, erc, drc, tool, work, hardware, phase, result, published, source, learned,
                 runs, faults>>
EditBoard ==
  /\ files.board.id # 0 /\ User
  /\ \E b \in Boards : files' = [files EXCEPT !.board = b]
  /\ UNCHANGED <<waivers, approval>>
EditSheet ==
  /\ files.sheet.id # 0 /\ User
  /\ \E s \in Sheets : files' = [files EXCEPT !.sheet = s]
  /\ UNCHANGED <<waivers, approval>>

\* A waiver is approved for the board and the report the user has seen.
Waive ==
  /\ drc # NoReport /\ User
  /\ \E rule \in DOMAIN drc.of.warns :
       waivers' = waivers \cup {[rule |-> rule, count |-> drc.of.warns[rule], board |-> drc.of.id,
                                 report |-> drc]}
  /\ UNCHANGED <<files, approval>>
Approve ==
  /\ files.check.req # 0 /\ approval # files.check.req /\ User
  /\ approval' = files.check.req
  /\ UNCHANGED <<files, waivers>>

Done == /\ phase = "end" /\ runs = MaxRuns /\ \A k \in DOMAIN calls : calls[k].pc = "done"
        /\ UNCHANGED vars

Next ==
  \/ Begin \/ Manufacture \/ Stop \/ Attest \/ Error
  \/ \E k \in DOMAIN calls : Review(k)
  \/ Call \/ Return \/ TimesOut \/ Judge \/ Load \/ Promote \/ Again
  \/ EditBoard \/ EditSheet \/ Waive \/ Approve
  \/ Done

Spec == Init /\ [][Next]_vars

-----------------------------------------------------------------------------
\* A board with nothing against it: no warning is left that is neither about
\* an equal footprint nor waived for exactly this report.
CleanBoard ==
  /\ files.board.audit /\ files.board.errors = 0 /\ files.board.kept
  /\ \A r \in DOMAIN files.board.warns :
       \/ r = "footprint" /\ files.board.alike
       \/ \E w \in waivers : /\ w.rule = r /\ w.count = files.board.warns[r]
                             /\ w.board = files.board.id /\ w.report = drc
                             /\ drc.of = files.board
CleanSheet ==
  /\ files.sheet.audit /\ files.sheet.errors = 0
  /\ \A r \in files.sheet.warns :
       (r = "binding" /\ files.sheet.bound) \/ (r = "mismatch" /\ files.sheet.alike)
ProvenParts ==
  /\ \A r \in DOMAIN files.sheet.parts : files.sheet.parts[r] = "proven"
  /\ \A r \in DOMAIN files.proofs.parts : files.proofs.parts[r] = "proven"
Attested(c) ==
  /\ c.up.ready /\ c.up.identity = files.receipt.identity
  /\ files.receipt.identity = [req |-> files.check.req, board |-> files.board.id]
  /\ Audit(files.board, files.check.parts, files.check.req) = {}

\* An answer "ok" about a project nobody has touched, read from reports made
\* for it, is true of the project, and of a run also of its release; the
\* report published says so too, and what the memory learns is of a release
\* some review passed, out of proven parts only (the tool's comments: the
\* deterministic review is the authority, advice cannot override it).
ReviewSound ==
  /\ \A k \in DOMAIN calls :
       calls[k].pc = "done" /\ calls[k].status = "ok" /\ calls[k].still /\ calls[k].wrote =>
         /\ files.sheet.id # 0 => CleanSheet
         /\ files.board.id # 0 => CleanBoard
         /\ ProvenParts
         /\ calls[k].integrated => Attested(calls[k])
  /\ (\A k \in DOMAIN calls : ~calls[k].late /\ (calls[k].pc = "done" => calls[k].status # "error"))
       /\ phase \in {"judge", "load", "promote"} /\ result.status = "ok"
       => published = [call |-> result.call, verdict |-> "ok"]
  /\ \A x \in learned :
       /\ calls[x.call].status = "ok" /\ calls[x.call].up.identity = x.of
       /\ \A m \in x.modules : m.of = x.of /\ \A r \in DOMAIN m.parts : m.parts[r] = "proven"
=============================================================================
