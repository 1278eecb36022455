-------------------------- MODULE DraftFinalization --------------------------
(***************************************************************************)
(* Final repair of a completed draft (repair/draft.py), the commit of an   *)
(* independently verified candidate (repair/pipeline_adapter.py,           *)
(* repair/project_transaction.py) and the paid allowances around it.       *)
(*                                                                         *)
(* The draft has all its steps.  finalize_draft checks every retained      *)
(* artifact again and, until nothing fails, charges one pass and either    *)
(* starts a paid strong-repair session, whose candidate replaces the live  *)
(* CAD files through a journal, or rebuilds the draft from the failing     *)
(* step inside a snapshot transaction.  The process may stop between any   *)
(* two durable effects; the next launch reconciles journal and snapshot.   *)
(*                                                                         *)
(* A design is a version number; what its gates would find is a fact about *)
(* the version, chosen when the version is made.                           *)
(***************************************************************************)
EXTENDS Integers, Sequences, FiniteSets, TLC

CONSTANTS
  Modes,       \* hosts a launch may use: "board" (local) or "project" (A2A)
  Tokens,      \* identities of continuation answers
  MaxPasses,   \* finalize_draft's max_passes
  MaxSessions, \* limits.max_sessions_per_run
  Refunds,     \* infrastructure failures whose session is refunded (3)
  MaxVersion,  \* bound: designs ever made
  MaxLaunches, \* bound: calls of the pipeline tool
  MaxCrashes   \* bound: times the process stops

None == "none"
Files == {"pcb", "sch"}
NoSnap == 0

(* What the strict gates find in a design: an error owned by a step the    *)
(* joint repair may edit, one owned by another step, a pin conflict.       *)
Facts == [joint : BOOLEAN, owner : BOOLEAN, pin : BOOLEAN]

VARIABLES
  pc,       \* where the run is; "idle" when none is active
  mode,     \* the host of this launch
  boards,   \* the designs made so far: boards[v] \in Facts
  files,    \* the version each live CAD file holds
  snaps,    \* snapshot directories: name -> files
  journal,  \* the two intent journals beside the board
  ledger,   \* ledger.json: what strong repair was charged
  receipt,  \* continuation.json: the latest acknowledged answer
  st,       \* PipelineState in memory
  ck,       \* PipelineState in the checkpoint
  way,      \* the branch the charged pass takes
  ghost     \* launches, crashes, paid sessions, tokens ever acknowledged

vars == <<pc, mode, boards, files, snaps, journal, ledger, receipt, st, ck, way, ghost>>

NoJournal == [src |-> 0, cand |-> 0]

Meta == [passes |-> 0, start |-> 0, key |-> None, seen |-> {}, phase |-> "draft",
         refresh |-> FALSE, commits |-> {}, active |-> NoSnap, base |-> <<>>]

(* A draft: the design its layout artifacts describe, the design its route *)
(* result was graded on, and the design its exports were made from.        *)
Draft(v) == [board |-> v, route |-> v, fab |-> v, full |-> TRUE]

Init ==
  /\ pc = "idle"
  /\ mode \in Modes
  /\ boards \in {<<f>> : f \in Facts}
  /\ files = [f \in Files |-> 1]
  /\ snaps = <<>>
  /\ journal = [board |-> NoJournal, project |-> NoJournal]
  /\ ledger = [sessions |-> 0, start |-> 0, fails |-> 0, fstart |-> 0,
               exhausted |-> FALSE, key |-> None]
  /\ receipt = None
  /\ st = [draft |-> Draft(1), meta |-> Meta]
  /\ ck = st
  /\ way = "none"
  /\ ghost = [launches |-> 0, crashes |-> 0, paid |-> 0, tokens |-> {}]

Live == files["pcb"]
Last_ == Len(boards)
-----------------------------------------------------------------------------
(* Which gates fail.  The route gate reads the counts stored in the route  *)
(* artifact; the others read the design itself; the manufacturing receipt  *)
(* is bound to the bytes of the board.                                     *)

JointFails == boards[st.draft.route].joint \/ boards[Live].joint
OwnerFails == boards[Live].owner
FabFails == st.draft.fab # Live
RefreshOnly == st.meta.refresh /\ ~JointFails /\ ~OwnerFails
Fails == JointFails \/ OwnerFails \/ FabFails \/ RefreshOnly

(* Strong repair is entered for an error it owns, first among the failing  *)
(* gates; the external agent owns every step.  Exports to refresh and pin  *)
(* conflicts always take the ordinary path.                                *)
EntersRepair ==
  /\ ~RefreshOnly
  /\ ~boards[Live].pin
  /\ JointFails \/ mode = "project"

EntersCandidate ==
  \/ RefreshOnly
  \/ boards[Live].pin
  \/ mode = "board" /\ (OwnerFails \/ ~JointFails)
-----------------------------------------------------------------------------
(* A user's answer to the exhausted allowance, durable before the run      *)
(* continues.                                                              *)
Answer(t) ==
  /\ pc = "idle"
  /\ ck.meta.phase = "needs_attention"
  /\ receipt' = t
  /\ ghost' = [ghost EXCEPT !.tokens = @ \cup {t}]
  /\ UNCHANGED <<pc, mode, boards, files, snaps, journal, ledger, st, ck, way>>

(* The launch reads the checkpoint.  A draft whose exports do not belong   *)
(* to the live board loses its manufacturing result here.                  *)
Launch ==
  /\ pc = "idle"
  /\ ghost.launches < MaxLaunches
  /\ mode' \in Modes
  /\ st' = IF ck.draft.fab = Live THEN ck ELSE [ck EXCEPT !.draft.fab = 0]
  /\ pc' = "reconcile"
  /\ ghost' = [ghost EXCEPT !.launches = @ + 1]
  /\ UNCHANGED <<boards, files, snaps, journal, ledger, receipt, ck, way>>

(* recover_pending_commit: a project journal, once there is one, is the    *)
(* only journal looked at; its transaction is rolled forward unless the    *)
(* checkpoint already contains it.  A board journal whose candidate is the *)
(* live board completes the State.  Newer work is never overwritten: the   *)
(* run is refused instead.                                                 *)
ProjectConflict(j) ==
  \/ st.draft.board \notin {j.src, j.cand}
  \/ \E f \in Files : files[f] \notin {j.src, j.cand}

(* apply: the artifacts of the candidate and the mark that exports are     *)
(* stale.                                                                  *)
ProjectCommitted(t, v) ==
  [t EXCEPT !.draft.board = v, !.draft.route = v, !.meta.refresh = TRUE,
            !.meta.commits = @ \cup {v}]

ReconcileProject ==
  LET j == journal.project IN
  /\ pc = "reconcile"
  /\ j # NoJournal
  /\ \/ /\ j.cand \in st.meta.commits \/ ~st.draft.full
        /\ pc' = "continue"
        /\ UNCHANGED <<files, st>>
     \/ /\ j.cand \notin st.meta.commits /\ st.draft.full
        /\ ProjectConflict(j)
        /\ pc' = "idle"
        /\ UNCHANGED <<files, st>>
     \/ /\ j.cand \notin st.meta.commits /\ st.draft.full
        /\ ~ProjectConflict(j)
        /\ \/ \E f \in Files :
                /\ files[f] # j.cand
                /\ files' = [files EXCEPT ![f] = j.cand]
                /\ UNCHANGED <<pc, st>>
           \/ /\ \A f \in Files : files[f] = j.cand
              /\ st' = ProjectCommitted(st, j.cand)
              /\ pc' = "continue"
              /\ UNCHANGED files
  /\ UNCHANGED <<mode, boards, snaps, journal, ledger, receipt, ck, way, ghost>>

MutReconcileBoard ==
  /\ pc = "reconcile"
  /\ journal.project = NoJournal
  /\ pc' = "continue"
  /\ UNCHANGED <<st, mode, boards, files, snaps, journal, ledger, receipt, ck, way, ghost>>

ReconcileBoard ==
  LET j == journal.board
      moved == st.draft.board # j.cand
  IN
  /\ pc = "reconcile"
  /\ journal.project = NoJournal
  /\ \/ /\ j = NoJournal \/ Live # j.cand \/ ~st.draft.full
        /\ pc' = "continue"
        /\ UNCHANGED st
     \/ /\ j # NoJournal /\ Live = j.cand /\ st.draft.full
        /\ st.draft.board \notin {j.src, j.cand}
        /\ pc' = "idle"
        /\ UNCHANGED st
     \/ /\ j # NoJournal /\ Live = j.cand /\ st.draft.full
        /\ st.draft.board \in {j.src, j.cand}
        \* a candidate that moved only copper changes no artifact
        /\ \E placed \in BOOLEAN :
             st' = [st EXCEPT !.draft.board = j.cand,
                              !.meta.refresh = @ \/ (moved /\ placed)]
        /\ pc' = "continue"
  /\ UNCHANGED <<mode, boards, files, snaps, journal, ledger, receipt, ck, way, ghost>>
-----------------------------------------------------------------------------
MutAuthorized(meta, t) ==
  [meta EXCEPT !.seen = @ \cup {t}, !.key = t, !.start = meta.passes]

(* authorize_repair_continuation: a new answer opens a new window of       *)
(* passes; a token seen before does not.                                   *)
Authorized(meta, t) ==
  IF meta.key = t \/ t \in meta.seen THEN meta
  ELSE [meta EXCEPT !.seen = @ \cup {t} \cup ({meta.key} \ {None}),
                    !.key = t, !.start = meta.passes]

(* apply_response, then recover_draft_transaction: an interrupted rebuild  *)
(* is undone from its snapshot.  Without the snapshot the run fails.       *)
Continue ==
  LET t == IF receipt = None THEN st ELSE [st EXCEPT !.meta = Authorized(@, receipt)]
      name == t.meta.active
  IN
  /\ pc = "continue"
  /\ \/ /\ name = NoSnap
        /\ st' = t
        /\ pc' = "draft"
        /\ UNCHANGED <<files, snaps>>
     \/ /\ name # NoSnap /\ name \in DOMAIN snaps
        /\ files' = snaps[name]
        /\ snaps' = [n \in DOMAIN snaps \ {name} |-> snaps[n]]
        /\ st' = [t EXCEPT !.draft = t.meta.base[1], !.meta.phase = "final_repair"]
        /\ pc' = "recovered"
     \/ /\ name # NoSnap /\ name \notin DOMAIN snaps
        /\ pc' = "idle"
        /\ UNCHANGED <<files, snaps, st>>
  /\ UNCHANGED <<mode, boards, journal, ledger, receipt, ck, way, ghost>>

NoCandidate(t) == [t EXCEPT !.meta.active = NoSnap, !.meta.base = <<>>]

Recovered ==
  /\ pc = "recovered"
  /\ st' = NoCandidate(st)
  /\ ck' = st'
  /\ pc' = "draft"
  /\ UNCHANGED <<mode, boards, files, snaps, journal, ledger, receipt, way, ghost>>

(* The draft pipeline runs again: a manufacturing result that was dropped, *)
(* or that a continuation invalidates, is produced from the live board.    *)
RunDraft ==
  /\ pc = "draft"
  /\ \/ st' = [st EXCEPT !.draft.fab = Live, !.meta.phase = "final_repair"]
     \/ st.draft.fab # 0 /\ st' = [st EXCEPT !.meta.phase = "final_repair"]
  /\ ck' = st'
  /\ pc' = "check"
  /\ UNCHANGED <<mode, boards, files, snaps, journal, ledger, receipt, way, ghost>>
-----------------------------------------------------------------------------
(* finalize_draft.                                                         *)

MutVerified ==
  /\ pc = "check"
  /\ ~JointFails /\ ~OwnerFails
  /\ st' = [st EXCEPT !.meta.phase = "verified"]
  /\ ck' = st'
  /\ pc' = "idle"
  /\ UNCHANGED <<mode, boards, files, snaps, journal, ledger, receipt, way, ghost>>

Verified ==
  /\ pc = "check"
  /\ ~Fails
  /\ st' = [st EXCEPT !.meta.phase = "verified"]
  /\ ck' = st'
  /\ pc' = "idle"
  /\ UNCHANGED <<mode, boards, files, snaps, journal, ledger, receipt, way, ghost>>

Exhausted == st.meta.passes >= st.meta.start + MaxPasses

Attention(t) == [t EXCEPT !.meta.phase = "needs_attention"]

OutOfPasses ==
  /\ pc = "check"
  /\ Fails /\ Exhausted
  /\ st' = Attention(st)
  /\ ck' = st'
  /\ pc' = "idle"
  /\ UNCHANGED <<mode, boards, files, snaps, journal, ledger, receipt, way, ghost>>

MutCharge ==
  /\ pc = "check"
  /\ Fails /\ ~Exhausted
  /\ \/ EntersRepair /\ way' = "repair"
     \/ EntersCandidate /\ way' = "candidate"
  /\ ck' = st
  /\ pc' = IF way' = "repair" THEN "admit" ELSE "capture"
  /\ UNCHANGED <<st, mode, boards, files, snaps, journal, ledger, receipt, ghost>>

(* The pass is charged, durably, before any paid call.                     *)
Charge ==
  /\ pc = "check"
  /\ Fails /\ ~Exhausted
  /\ \/ EntersRepair /\ way' = "repair"
     \/ EntersCandidate /\ way' = "candidate"
  /\ st' = [st EXCEPT !.meta.passes = @ + 1]
  /\ ck' = st'
  /\ pc' = IF way' = "repair" THEN "admit" ELSE "capture"
  /\ UNCHANGED <<mode, boards, files, snaps, journal, ledger, receipt, ghost>>
-----------------------------------------------------------------------------
(* try_strong_repair.                                                      *)

(* A new allowance opens a new window in the ledger.                       *)
Window ==
  IF st.meta.key = None \/ ledger.key = st.meta.key THEN ledger
  ELSE [ledger EXCEPT !.key = st.meta.key, !.exhausted = FALSE,
                      !.start = ledger.sessions, !.fstart = ledger.fails]

Refused(w) == w.exhausted \/ w.sessions >= w.start + MaxSessions

NotAdmitted ==
  /\ pc = "admit"
  /\ Refused(Window)
  /\ ledger' = Window
  /\ st' = Attention(st)
  /\ ck' = st'
  /\ pc' = "idle"
  /\ UNCHANGED <<mode, boards, files, snaps, journal, receipt, way, ghost>>

MutAdmit ==
  /\ pc = "admit"
  /\ ~Refused(Window)
  /\ ledger' = Window
  /\ ghost' = [ghost EXCEPT !.paid = @ + 1]
  /\ pc' = "session"
  /\ UNCHANGED <<mode, boards, files, snaps, journal, receipt, st, ck, way>>

(* The session is charged before the crash-prone external call.            *)
Admit ==
  /\ pc = "admit"
  /\ ~Refused(Window)
  /\ ledger' = [Window EXCEPT !.sessions = @ + 1]
  /\ ghost' = [ghost EXCEPT !.paid = @ + 1]
  /\ pc' = "session"
  /\ UNCHANGED <<mode, boards, files, snaps, journal, receipt, st, ck, way>>

(* No improvement, or an error that is neither budget nor infrastructure.  *)
SessionFails ==
  /\ pc = "session"
  /\ st' = Attention(st)
  /\ ck' = st'
  /\ pc' = "idle"
  /\ \/ UNCHANGED ledger
     \/ mode = "project" /\ ledger' = [ledger EXCEPT !.exhausted = TRUE]
  /\ UNCHANGED <<mode, boards, files, snaps, journal, receipt, way, ghost>>

MutRefunded(l) ==
  [l EXCEPT !.fails = @ + 1, !.sessions = @ - 1]

(* A provider or broker failure refunds the session, a bounded number of   *)
(* times, and propagates: the pass stays charged.                          *)
Refunded(l) ==
  [l EXCEPT !.fails = @ + 1,
            !.sessions = IF l.fails + 1 - l.fstart <= Refunds THEN @ - 1 ELSE @]

Outage ==
  /\ pc = "session"
  /\ ledger' = Refunded(ledger)
  /\ pc' = "idle"
  /\ UNCHANGED <<mode, boards, files, snaps, journal, receipt, st, ck, way, ghost>>

(* A candidate that improved: no gate found anything new in it.  Its       *)
(* journal is written before the first live file is replaced.              *)
NoWorse(f, g) == (f.joint => g.joint) /\ (f.owner => g.owner) /\ f.pin = g.pin

Journal ==
  /\ pc = "session"
  /\ Last_ < MaxVersion
  /\ \E f \in Facts :
       /\ NoWorse(f, boards[Live])
       /\ boards' = Append(boards, f)
  /\ LET j == [src |-> Live, cand |-> Last_ + 1]
     IN  journal' = IF mode = "project" THEN [journal EXCEPT !.project = j]
                    ELSE [journal EXCEPT !.board = j]
  /\ pc' = "replace"
  /\ UNCHANGED <<mode, files, snaps, ledger, receipt, st, ck, way, ghost>>

(* apply / _BoardHost.commit: the live files one by one, then the State.   *)
Replace ==
  /\ pc = "replace"
  /\ IF mode = "board"
     THEN /\ files' = [f \in Files |-> Last_]
          /\ st' = [st EXCEPT !.draft.board = Last_, !.meta.refresh = TRUE]
          /\ pc' = "replaced"
     ELSE \/ \E f \in Files :
               /\ files[f] # Last_
               /\ files' = [files EXCEPT ![f] = Last_]
               /\ UNCHANGED <<pc, st>>
          \/ /\ \A f \in Files : files[f] = Last_
             /\ st' = ProjectCommitted(st, Last_)
             /\ pc' = "replaced"
             /\ UNCHANGED files
  /\ UNCHANGED <<mode, boards, snaps, journal, ledger, receipt, ck, way, ghost>>

(* The route result is graded again on the live board and the pass ends.   *)
Repaired ==
  /\ pc = "replaced"
  /\ st' = [st EXCEPT !.draft.route = Live, !.meta.refresh = TRUE]
  /\ ck' = st'
  /\ pc' = "check"
  /\ UNCHANGED <<mode, boards, files, snaps, journal, ledger, receipt, way, ghost>>

(* Grading fails after the commit.                                         *)
Ungraded ==
  /\ pc = "replaced"
  /\ st' = Attention(st)
  /\ ck' = st'
  /\ pc' = "idle"
  /\ UNCHANGED <<mode, boards, files, snaps, journal, ledger, receipt, way, ghost>>
-----------------------------------------------------------------------------
(* The ordinary repair: rebuild from the failing step in a transaction.    *)

Capture ==
  LET name == st.meta.passes
      held == [st EXCEPT !.meta.active = name, !.meta.base = <<st.draft>>]
  IN
  /\ pc = "capture"
  /\ snaps' = [n \in DOMAIN snaps \cup {name} |-> IF n = name THEN files ELSE snaps[n]]
  /\ st' = [held EXCEPT !.draft.full = FALSE]
  /\ ck' = st'
  /\ pc' = "rebuild"
  /\ UNCHANGED <<mode, boards, files, journal, ledger, receipt, way, ghost>>

(* Steps of the rebuild write new CAD files; a refresh of the exports      *)
(* leaves them as they are.                                                *)
Rebuild ==
  /\ pc = "rebuild"
  /\ Last_ < MaxVersion
  /\ ~RefreshOnly
  /\ files = snaps[st.meta.active]
  /\ \E f \in Facts : boards' = Append(boards, f)
  /\ files' = [f \in Files |-> Last_ + 1]
  /\ UNCHANGED <<pc, mode, snaps, journal, ledger, receipt, st, ck, way, ghost>>

(* Every step executed: the checkpoint stops pointing at the snapshot      *)
(* before the snapshot goes.  A repair of CAD owners whose missing part    *)
(* evidence stays open keeps the old exports, marked stale.                *)
RebuildDone ==
  /\ pc = "rebuild"
  /\ \E independent \in BOOLEAN :
       /\ independent => way = "candidate" /\ ~boards[Live].pin /\ mode = "board"
       /\ LET d == [Draft(Live) EXCEPT !.fab = IF independent THEN st.draft.fab ELSE Live]
          IN  st' = NoCandidate([st EXCEPT !.draft = d, !.meta.refresh = independent])
  /\ ck' = st'
  /\ pc' = "retire"
  /\ UNCHANGED <<mode, boards, files, snaps, journal, ledger, receipt, way, ghost>>

Retire ==
  /\ pc = "retire"
  /\ snaps' = [n \in DOMAIN snaps \ {st.meta.passes} |-> snaps[n]]
  /\ pc' = "check"
  /\ UNCHANGED <<mode, boards, files, journal, ledger, receipt, st, ck, way, ghost>>

MutUndo ==
  /\ pc = "rebuild"
  /\ snaps' = [n \in DOMAIN snaps \ {st.meta.active} |-> snaps[n]]
  /\ st' = NoCandidate([st EXCEPT !.draft = st.meta.base[1]])
  /\ pc' \in {"raised", "incomplete"}
  /\ UNCHANGED <<files, mode, boards, journal, ledger, receipt, ck, way, ghost>>

(* A rebuild that raised or stopped early: files and artifacts go back,    *)
(* with the snapshot, before the checkpoint is written.                    *)
Undo ==
  /\ pc = "rebuild"
  /\ files' = snaps[st.meta.active]
  /\ snaps' = [n \in DOMAIN snaps \ {st.meta.active} |-> snaps[n]]
  /\ st' = NoCandidate([st EXCEPT !.draft = st.meta.base[1]])
  /\ pc' \in {"raised", "incomplete"}
  /\ UNCHANGED <<mode, boards, journal, ledger, receipt, ck, way, ghost>>

Undone ==
  /\ pc \in {"raised", "incomplete"}
  /\ st' = IF pc = "raised" THEN st ELSE Attention(st)
  /\ ck' = st'
  /\ pc' = "idle"
  /\ UNCHANGED <<mode, boards, files, snaps, journal, ledger, receipt, way, ghost>>
-----------------------------------------------------------------------------
(* The process stops: memory is gone, files, journals and ledger stay.     *)
Crash ==
  /\ pc # "idle"
  /\ ghost.crashes < MaxCrashes
  /\ pc' = "idle"
  /\ ghost' = [ghost EXCEPT !.crashes = @ + 1]
  /\ UNCHANGED <<mode, boards, files, snaps, journal, ledger, receipt, st, ck, way>>

Advance ==
  \/ ReconcileProject \/ ReconcileBoard \/ Continue \/ Recovered \/ RunDraft
  \/ Verified \/ OutOfPasses \/ Charge
  \/ NotAdmitted \/ Admit \/ SessionFails \/ Outage \/ Journal \/ Replace
  \/ Repaired \/ Ungraded
  \/ Capture \/ Rebuild \/ RebuildDone \/ Retire \/ Undo \/ Undone

Next == Advance \/ Launch \/ Crash \/ \E t \in Tokens : Answer(t)

Spec == Init /\ [][Next]_vars

(* A launched run keeps executing.                                         *)
FairSpec == Spec /\ WF_vars(Advance)
-----------------------------------------------------------------------------
Versions == 1 .. MaxVersion
DraftType == [board : Versions, route : Versions, fab : 0 .. MaxVersion, full : BOOLEAN]
MetaType(m) ==
  /\ {m.passes, m.start, m.active} \subseteq Nat
  /\ m.key \in Tokens \cup {None} /\ m.seen \subseteq Tokens
  /\ m.phase \in {"draft", "final_repair", "verified", "needs_attention"}
  /\ m.refresh \in BOOLEAN /\ m.commits \subseteq Versions
  /\ m.base \in {<<>>} \cup {<<d>> : d \in DraftType}

(* Every component of the finalization state has its type, and the ledger  *)
(* never counts a negative number of sessions.                             *)
TypeOK ==
  /\ pc \in {"idle", "reconcile", "continue", "recovered", "draft", "check", "admit",
             "session", "replace", "replaced", "capture", "rebuild", "retire",
             "raised", "incomplete"}
  /\ mode \in Modes /\ way \in {"none", "repair", "candidate"}
  /\ boards \in Seq(Facts) /\ Len(boards) \in Versions
  /\ files \in [Files -> Versions]
  /\ \A n \in DOMAIN snaps : n \in Nat /\ snaps[n] \in [Files -> Versions]
  /\ \A k \in {"board", "project"} : {journal[k].src, journal[k].cand} \subseteq 0 .. MaxVersion
  /\ {ledger.sessions, ledger.start, ledger.fails, ledger.fstart} \subseteq Nat
  /\ ledger.exhausted \in BOOLEAN /\ ledger.key \in Tokens \cup {None}
  /\ receipt \in Tokens \cup {None}
  /\ \A t \in {st, ck} : t.draft \in DraftType /\ MetaType(t.meta)

(* Whatever was interrupted before, finalization only ever grades a draft  *)
(* whose files are of one design and whose layout artifacts describe it.   *)
CadMatchesState ==
  pc = "check" => /\ st.draft.full
                  /\ \A f \in Files : files[f] = st.draft.board

(* A draft recorded as verified has no failing gate and exports made from  *)
(* the live board, whatever crashes, repairs and stale exports came before.*)
VerifiedIsClean ==
  pc = "idle" /\ ck.meta.phase = "verified" =>
    /\ ck.draft.fab = Live /\ ck.draft.board = Live
    /\ ~boards[Live].joint /\ ~boards[Live].owner

(* Neither crashes, outages nor replayed answers buy more passes or paid   *)
(* sessions than the initial allowance and one per distinct answer.        *)
AllowancesHold ==
  LET grants == 1 + Cardinality(ghost.tokens) IN
  /\ ck.meta.passes <= MaxPasses * grants
  /\ ghost.paid <= (MaxSessions + Refunds) * grants

(* Files, verdict and allowances stay true over stops and replays.         *)
DraftSound == TypeOK /\ CadMatchesState /\ VerifiedIsClean /\ AllowancesHold

(* A launched run ends: it is verified, needs attention, or failed.        *)
RunEnds == pc # "idle" ~> pc = "idle"

(* draft.py: "An interrupted joint transaction rolls back to its durable   *)
(* full draft."  The checkpoint's open transaction has its snapshot.       *)
RollsBackToDraft ==
  pc = "idle" /\ ck.meta.active # NoSnap => ck.meta.active \in DOMAIN snaps

(* DRAFT_THEN_REPAIR.md: "Restart reconciles that journal idempotently".   *)
(* The State that finalization works on describes the live board: layout   *)
(* and route result.                                                       *)
RestartReconciles ==
  pc = "check" => st.draft.route = Live

(* The same claim for the layout artifacts, when deployments of the local  *)
(* and the external repair alternate.                                      *)
RestartReconcilesLayout ==
  pc = "check" => st.draft.board = Live
=============================================================================
