--------------------------- MODULE PipelineRunner ---------------------------
(***************************************************************************)
(* The canonical design pipeline (orchestration/pipeline.py, class         *)
(* Pipeline) over its durable checkpoint (agents/ratsnestpro/tools.py).    *)
(*                                                                         *)
(* A run executes the steps in canonical order.  A step whose              *)
(* deterministic gate fails is repaired inside a candidate transaction:    *)
(* a snapshot of state and files is taken, the revision grows, the step    *)
(* (local action) or an earlier one (upstream replan) is executed again,   *)
(* and the candidate is committed or rolled back.  Every transition is     *)
(* saved as a new generation of pipeline_state.json; the process may stop  *)
(* at any point and a later run resumes from that file.                    *)
(*                                                                         *)
(* What a step's producer computes is not modelled: its artifact, the      *)
(* score of its gate and the origin of its failures are chosen freely, and *)
(* so is the recovery decision of the model.                               *)
(***************************************************************************)
EXTENDS Integers, Sequences, FiniteSets, SequencesExt

CONSTANTS
  N,             \* number of steps (17 in the code)
  Arts,          \* what an artifact may contain, as far as its fingerprint tells
  MaxScore,      \* largest number of failed error checks of one gate
  Kinds,         \* origins of a failed gate: "design", "external", "hard"
  DraftFirst,    \* ctx.draft_first
  RepairRelease, \* ctx.repair_release_issues
  Agentic,       \* ctx.agentic_recovery_enabled, with a client
  Capture,       \* ctx.capture_step_errors; FALSE lets Temporal retry the run
  ExecRetries,   \* ctx.execution_retry_attempts
  MaxTurnsStep,  \* ctx.max_agentic_recovery_turns_per_step
  MaxTurns,      \* ctx.max_total_agentic_recovery_turns
  MaxReplans,    \* ctx.max_replan_attempts
  MaxInter,      \* ctx.max_candidate_intermediate_repairs
  MaxLaunches,   \* bound: how often the pipeline is called
  MaxTokens,     \* bound: how many continuations are requested
  Failing,       \* bound: steps whose gate may fail
  Saving,        \* bound: steps whose repair loop saves progress
  Raising,       \* bound: steps that may raise
  CrashPoints    \* where the process may stop: subset of {"running", "unsaved", "undone"}

Steps == 1 .. N
NoArt == 0

(* What the theorems need to know of the constants: there is a step, a     *)
(* gate can fail, and an artifact is not the absence of one.               *)
RunnerConstants ==
  /\ N \in Nat \ {0} /\ MaxScore \in Nat \ {0} /\ ExecRetries \in Nat /\ MaxInter \in Nat
  /\ NoArt \notin Arts
  /\ DraftFirst \in BOOLEAN /\ RepairRelease \in BOOLEAN /\ Agentic \in BOOLEAN /\ Capture \in BOOLEAN

NoBase == [snap |-> 0]
NoResume == [step |-> 0, tok |-> 0]

(* One StepResult: its step, how many error checks failed (0 passes the    *)
(* gate), whether execution itself is blocked, and the failures' origin.   *)
Result(s, score, exec, kind) == [step |-> s, score |-> score, exec |-> exec, kind |-> kind]

(* PipelineState, as much of it as the runner reads.                       *)
Fresh == [res |-> <<>>, art |-> [s \in Steps |-> NoArt], cand |-> [s \in Steps |-> NoArt],
          rev |-> 0, replans |-> <<>>, turns |-> <<>>, resume |-> NoResume, gen |-> 0]

VARIABLES
  pc,     \* where the run is; "idle" when no run is active
  st,     \* the PipelineState in memory
  ck,     \* the PipelineState in pipeline_state.json (gen = 0: no file)
  files,  \* the design file of each step in the run directory
  snaps,  \* candidate snapshot directories: name -> files
  until,  \* the last step this run may execute
  tries,  \* execution_attempt of the current step
  after,  \* where the run goes once the checkpoint is written
  req,    \* the continuation (resume step and token) the current workflow carries
  count   \* bounds used: launches, tokens, snapshot names

vars == <<pc, st, ck, files, snaps, until, tries, after, req, count>>
-----------------------------------------------------------------------------
Blocked(r) == r.score > 0
AnyExec(results) == \E i \in DOMAIN results : results[i].exec
CanonicalPrefix(results) == \A i \in DOMAIN results : results[i].step = i

(* The elements of a list at the positions in kept, in their order.        *)
Select(seq, kept) ==
  LET F[i \in 0 .. Len(seq)] ==
        IF i = 0 THEN <<>> ELSE IF i \in kept THEN Append(F[i - 1], seq[i]) ELSE F[i - 1]
  IN  F[Len(seq)]

(* Results and histories cut down to what concerns the steps before s.     *)
ResultsBefore(seq, s) == Select(seq, {i \in DOMAIN seq : seq[i].step < s})
ReplansBefore(seq, s) == Select(seq, {i \in DOMAIN seq : seq[i].trig < s /\ seq[i].to < s})
TurnsBefore(seq, s) == Select(seq, {i \in DOMAIN seq : seq[i].step < s /\ seq[i].target < s})

(* state.results and state.artifacts cut down to the steps before s.       *)
Truncate(s, t) ==
  [t EXCEPT !.res = ResultsBefore(@, s),
            !.art = [x \in Steps |-> IF x < s THEN @[x] ELSE NoArt]]

Latest(hits) == IF hits = {} THEN 0 ELSE Max(hits)

(* The replan whose candidate covers step s, and the recovery turn that    *)
(* acted on it: positions in the histories, 0 when there is none.          *)
ActiveReplan(t, s) ==
  Latest({i \in DOMAIN t.replans : /\ t.replans[i].status = "scheduled"
                                   /\ t.replans[i].to <= s /\ s <= t.replans[i].trig})
ActiveTurn(t, s) ==
  Latest({i \in DOMAIN t.turns : t.turns[i].step = s /\ t.turns[i].status = "acted"})
PendingReplan(t, s) ==
  Latest({i \in DOMAIN t.replans : t.replans[i].trig = s /\ t.replans[i].status = "scheduled"})

HasBase(record) == record.base # NoBase
OpenReplans(t) == {i \in DOMAIN t.replans : t.replans[i].status = "scheduled" /\ HasBase(t.replans[i])}
-----------------------------------------------------------------------------
(* Candidate transactions.                                                 *)

Captured(t, snap) == [snap |-> snap, res |-> t.res, art |-> t.art,
                      cand |-> t.cand, resume |-> t.resume]

SnapshotExists(base) == base.snap \in DOMAIN snaps

Without(base) == [n \in DOMAIN snaps \ {base.snap} |-> snaps[n]]

(* Rollback keeps the revision, the histories and the checkpoint lineage.  *)
Restored(t, base) ==
  [t EXCEPT !.res = base.res, !.art = base.art, !.cand = base.cand, !.resume = base.resume]

(* Re-enter a rejected gate: its restored artifact becomes the candidate   *)
(* the step starts from.                                                   *)
Reopen(s, t) ==
  LET kept == IF t.art[s] # NoArt THEN [t EXCEPT !.cand[s] = t.art[s]] ELSE t
  IN  Truncate(s, kept)

(* reject_replan: restore the baseline, close the replan and the turn that *)
(* scheduled it, re-enter the gate that triggered it.                      *)
RejectedReplan(t, i) ==
  LET rec  == t.replans[i]
      turn == Latest({k \in DOMAIN t.turns : /\ t.turns[k].status = "acted" /\ t.turns[k].step = rec.trig
                                             /\ t.turns[k].action = "replan"})
      back == [Restored(t, rec.base) EXCEPT !.replans[i].status = "stagnated",
                                            !.replans[i].base = NoBase]
  IN  Reopen(rec.trig, IF turn = 0 THEN back ELSE [back EXCEPT !.turns[turn].status = "rejected"])
-----------------------------------------------------------------------------
(* The durable checkpoint.                                                 *)

(* A write is refused from a stale writer (another generation is on disk), *)
(* for an older revision, and for a shorter prefix in the same revision.   *)
Refuses(t, c) ==
  \/ t.gen # 0 /\ t.gen # c.gen
  \/ /\ c.gen # 0
     /\ \/ t.rev < c.rev
        \/ t.rev = c.rev /\ Len(t.res) < Len(c.res)

Save ==
  /\ pc = "save"
  /\ IF Refuses(st, ck)
     THEN /\ pc' = "refused"
          /\ UNCHANGED <<st, ck>>
     ELSE /\ ck' = [st EXCEPT !.gen = ck.gen + 1]
          /\ st' = IF after = "idle" THEN Fresh ELSE ck'
          /\ pc' = after
  /\ UNCHANGED <<files, snaps, until, tries, after, req, count>>

SaveThen(next) == pc' = "save" /\ after' = next

(* checkpoint_resume_step: the earliest failed step, else the next one; a  *)
(* complete prefix is continued at the last step.                          *)
ExpectedResume(c) ==
  LET bad == {i \in DOMAIN c.res : Blocked(c.res[i]) \/ c.res[i].exec}
  IN  IF bad # {} THEN CHOOSE i \in bad : \A j \in bad : i <= j
      ELSE IF Len(c.res) < N THEN Len(c.res) + 1 ELSE N

MutReadmitted(r, t) == TRUE

(* restore_pipeline_state: the longest prefix that has its artifact and    *)
(* whose gate still does not block execution; the step it stops at keeps   *)
(* its artifact as a candidate.                                            *)
Readmitted(r, t) == t.art[r.step] # NoArt /\ ~r.exec

RestoreState(c, invalid) ==
  LET cut  == {i \in DOMAIN c.res : i = invalid \/ ~Readmitted(c.res[i], c)}
      keep == IF cut = {} THEN Len(c.res) ELSE (CHOOSE i \in cut : \A j \in cut : i <= j) - 1
      next == keep + 1
      cand == IF next > N \/ next = invalid THEN NoArt
              ELSE IF next <= Len(c.res) /\ c.art[next] # NoArt THEN c.art[next]
              ELSE c.cand[next]
  IN  [c EXCEPT
        !.res = SubSeq(@, 1, keep),
        !.art = [s \in Steps |-> IF s <= keep THEN c.art[s] ELSE NoArt],
        !.cand = [s \in Steps |-> IF s = next THEN cand ELSE NoArt],
        !.replans = IF invalid = 0 THEN @ ELSE ReplansBefore(@, invalid),
        !.turns = IF invalid = 0 THEN @ ELSE TurnsBefore(@, invalid)]

MutLoadToken(c, r) ==
  LET consumed == r # NoResume /\ c.resume = r
      explicit == r # NoResume /\ ~consumed
      back     == RestoreState(c, IF explicit THEN r.step ELSE 0)
  IN  IF c.gen = 0 THEN [ok |-> TRUE, st |-> Fresh]
      ELSE [ok |-> CASE explicit -> r.step = ExpectedResume(c) /\ Len(back.res) = r.step - 1
                     [] consumed -> Len(back.res) >= r.step - 1 [] OTHER -> TRUE,
            st |-> [back EXCEPT !.rev = IF explicit \/ Len(back.res) < Len(c.res) THEN @ + 1 ELSE @,
                                !.resume = IF r = NoResume THEN @ ELSE r]]

MutLoadRevision(c, r) ==
  LET explicit == r # NoResume /\ c.resume # r
      back     == RestoreState(c, IF explicit THEN r.step ELSE 0)
  IN  IF c.gen = 0 THEN [ok |-> TRUE, st |-> Fresh]
      ELSE [ok |-> TRUE, st |-> [back EXCEPT !.resume = IF r = NoResume THEN @ ELSE r]]

(* The token was consumed by this checkpoint already, or the checkpoint is *)
(* already cut at or before the step the continuation names.               *)
Consumed(c, r) == r # NoResume /\ c.resume = r
Precut(c, r) ==
  r # NoResume /\ c.resume.step = r.step /\ CanonicalPrefix(c.res) /\ Len(c.res) < r.step
Explicit(c, r) == r # NoResume /\ ~Consumed(c, r) /\ ~Precut(c, r)

(* What a continuation must restore: exactly the prefix before its step,   *)
(* or, when it had been consumed before, at least that prefix.             *)
Admits(c, r, back) ==
  IF Explicit(c, r) THEN r.step = ExpectedResume(c) /\ Len(back.res) = r.step - 1
  ELSE IF Precut(c, r) THEN Len(back.res) < r.step
  ELSE Consumed(c, r) => Len(back.res) >= r.step - 1

(* _load_pipeline_state: a new continuation cuts the prefix at its step, in *)
(* a new revision, and keeps the failed artifact as the step's candidate;  *)
(* a prefix that revalidation shortened gets a new revision too.           *)
Load(c, r) ==
  IF c.gen = 0 THEN [ok |-> TRUE, st |-> Fresh]
  ELSE
    LET explicit == Explicit(c, r)
        back     == RestoreState(c, IF explicit THEN r.step ELSE 0)
        kept     == IF explicit /\ c.art[r.step] # NoArt
                    THEN [back EXCEPT !.cand[r.step] = c.art[r.step]] ELSE back
    IN  [ok |-> Admits(c, r, back),
         st |-> [kept EXCEPT !.rev = IF explicit \/ Len(back.res) < Len(c.res) THEN @ + 1 ELSE @,
                             !.resume = IF r = NoResume THEN @ ELSE r]]
-----------------------------------------------------------------------------
Init ==
  /\ pc = "idle" /\ st = Fresh /\ ck = Fresh
  /\ files = [s \in Steps |-> NoArt] /\ snaps = [n \in {} |-> NoArt]
  /\ until = N /\ tries = 0 /\ after = "idle"
  /\ req = NoResume /\ count = [launch |-> 0, tok |-> 0, snap |-> 0]

(* The control plane asks to continue: a fresh token for the step the      *)
(* checkpoint says is the earliest failed or incomplete one.               *)
Continue ==
  /\ pc = "idle" /\ ck.gen > 0 /\ count.tok < MaxTokens
  /\ req' = [step |-> ExpectedResume(ck), tok |-> count.tok + 1]
  /\ count' = [count EXCEPT !.tok = @ + 1]
  /\ UNCHANGED <<pc, st, ck, files, snaps, until, tries, after>>

(* Scheduled replans that cannot be resumed are retired before the run:    *)
(* all but the last one with a baseline, and every one when release issues *)
(* are not repaired.                                                       *)
Retired(t) ==
  LET durable == Latest(OpenReplans(t))
      retire(i) == /\ t.replans[i].status = "scheduled"
                   /\ i # durable \/ ~RepairRelease
  IN  [t EXCEPT !.replans =
         [i \in DOMAIN @ |-> IF retire(i)
                             THEN [@[i] EXCEPT !.status = "deferred", !.base = NoBase] ELSE @[i]]]

MutRetiredSnaps(t) ==
  {t.replans[i].base.snap : i \in {j \in DOMAIN t.replans : HasBase(t.replans[j])}}

RetiredSnaps(t) ==
  {t.replans[i].base.snap : i \in {j \in DOMAIN t.replans :
      HasBase(t.replans[j]) /\ ~HasBase(Retired(t).replans[j])}}

(* One call of the pipeline tool: load, retire, check the order.  The      *)
(* continuation applies only to the call that runs up to its step.  Calls  *)
(* that stop earlier differ from these by a reload, which Crash gives.     *)
Launch(u) ==
  /\ pc = "idle" /\ count.launch < MaxLaunches
  /\ u = IF ck.resume # req THEN req.step ELSE N
  /\ LET r      == IF req.step = u THEN req ELSE NoResume
         loaded == Load(ck, r)
         t      == Retired(loaded.st)
     IN  IF loaded.ok
         THEN /\ st' = t
              /\ snaps' = [n \in DOMAIN snaps \ RetiredSnaps(loaded.st) |-> snaps[n]]
              /\ pc' = IF CanonicalPrefix(t.res) /\ ~AnyExec(t.res) THEN "loop" ELSE "order_error"
         ELSE pc' = "load_error" /\ UNCHANGED <<st, snaps>>
  /\ until' = u /\ tries' = 0
  /\ count' = [count EXCEPT !.launch = @ + 1]
  /\ UNCHANGED <<ck, files, after, req>>

Next0(t) == Len(t.res) + 1
Cur == Len(st.res)
Res == st.res[Cur]

(* No step is left: the tool writes the state and returns.                 *)
Return ==
  /\ pc = "loop" /\ Next0(st) > until
  /\ SaveThen("idle")
  /\ UNCHANGED <<st, ck, files, snaps, until, tries, req, count>>

(* A step's bounded repair loop saves the rejected proposal as an          *)
(* uncommitted candidate before each attempt.                              *)
StepProgress(a) ==
  /\ pc = "loop" /\ Next0(st) <= until /\ tries = 0 /\ Next0(st) \in Saving
  /\ LET s == Next0(st)
         t == [st EXCEPT !.cand[s] = a]
     IN  /\ ck.cand[s] = NoArt
         /\ IF Refuses(t, ck)
            THEN pc' = "refused" /\ UNCHANGED <<st, ck>>
            ELSE /\ ck' = [t EXCEPT !.gen = ck.gen + 1]
                 /\ st' = [st EXCEPT !.gen = ck.gen + 1, !.cand[s] = NoArt]
                 /\ pc' = pc
  /\ UNCHANGED <<files, snaps, until, tries, after, req, count>>

(* The first step normalizes the requirement text deterministically.       *)
Normalized == CHOOSE a \in Arts : TRUE

(* The step executes: its candidate is consumed, its files are written and *)
(* its gate gives a verdict.                                               *)
StepReturns(a, score, kind) ==
  /\ pc = "loop" /\ Next0(st) <= until
  /\ score > 0 => Next0(st) \in Failing
  /\ Next0(st) = 1 => a = Normalized
  /\ LET s == Next0(st)
     IN  /\ st' = [st EXCEPT !.cand[s] = NoArt, !.art[s] = a,
                             !.res = Append(@, Result(s, score, FALSE, kind))]
         /\ files' = [files EXCEPT ![s] = a]
  /\ tries' = 0
  /\ pc' = "ran"
  /\ UNCHANGED <<ck, snaps, until, after, req, count>>

MutStepRaises ==
  /\ pc = "loop" /\ Next0(st) <= until /\ Next0(st) \in Raising
  /\ LET s == Next0(st)
         t == [st EXCEPT !.cand[s] = NoArt]
     IN  \/ /\ ~Capture
            /\ pc' = "idle" /\ st' = Fresh /\ tries' = 0
         \/ /\ Capture
            /\ tries' = (tries + 1) % (ExecRetries + 1) /\ st' = t /\ pc' = pc
         \/ /\ Capture /\ tries >= ExecRetries
            /\ tries' = 0 /\ pc' = "ran"
            /\ st' = [t EXCEPT !.res = Append(@, Result(s, 1, TRUE, "design"))]
  /\ UNCHANGED <<ck, files, snaps, until, after, req, count>>

(* The step raises: retried a bounded number of times, then recorded as an *)
(* execution-blocking result without an artifact; without capture it ends  *)
(* the run and Temporal calls the pipeline again.                          *)
StepRaises ==
  /\ pc = "loop" /\ Next0(st) <= until /\ Next0(st) \in Raising
  /\ LET s == Next0(st)
         t == [st EXCEPT !.cand[s] = NoArt]
     IN  \/ /\ ~Capture
            /\ pc' = "idle" /\ st' = Fresh /\ tries' = 0
         \/ /\ Capture /\ tries < ExecRetries
            /\ tries' = tries + 1 /\ st' = t /\ pc' = pc
         \/ /\ Capture /\ tries >= ExecRetries
            /\ tries' = 0 /\ pc' = "ran"
            /\ st' = [t EXCEPT !.res = Append(@, Result(s, 1, TRUE, "design"))]
  /\ UNCHANGED <<ck, files, snaps, until, after, req, count>>

(* The verdict on an acted recovery turn.                                  *)
TurnStatus(turn, r) ==
  IF r.exec THEN "error"
  ELSE IF r.score = 0 THEN "verified"
  ELSE IF r.score < turn.before THEN "improved"
  ELSE "rejected"

(* The observed turn is rolled back (its snapshot restored and removed) or *)
(* committed (its snapshot removed); a replan turn has no snapshot.        *)
Observe ==
  /\ pc = "ran"
  /\ LET i    == ActiveTurn(st, Cur)
         stat == TurnStatus(st.turns[i], Res)
         base == st.turns[i].base
         seen == [st EXCEPT !.turns[i].status = stat, !.turns[i].base = NoBase]
     IN  IF i = 0 THEN pc' = "gate" /\ UNCHANGED <<st, files, snaps, after>>
         ELSE IF base = NoBase THEN pc' = "gate" /\ st' = seen /\ UNCHANGED <<files, snaps, after>>
         ELSE IF stat \in {"rejected", "error"}
         THEN IF SnapshotExists(base)
              THEN /\ st' = Reopen(st.turns[i].step, Restored(seen, base))
                   /\ files' = snaps[base.snap] /\ snaps' = Without(base)
                   /\ SaveThen("loop")
              ELSE /\ pc' = "lost" /\ UNCHANGED <<st, files, snaps, after>>
         ELSE /\ st' = seen /\ snaps' = Without(base)
              /\ pc' = "gate" /\ UNCHANGED <<files, after>>
  /\ UNCHANGED <<ck, until, tries, req, count>>

CanContinue ==
  ~Blocked(Res) \/ ((DraftFirst \/ ~RepairRelease) /\ ~Res.exec)

(* The gate lets the run go on; a replan this step had triggered is        *)
(* committed only when the gate really passed.                             *)
StepAccepted ==
  /\ pc = "gate" /\ CanContinue
  /\ LET i == PendingReplan(st, Cur)
     IN  IF i # 0 /\ ~Blocked(Res)
         THEN /\ st' = [st EXCEPT !.replans[i].status = "recovered", !.replans[i].base = NoBase]
              /\ snaps' = IF HasBase(st.replans[i]) THEN Without(st.replans[i].base) ELSE snaps
         ELSE UNCHANGED <<st, snaps>>
  /\ SaveThen("loop")
  /\ UNCHANGED <<ck, files, until, tries, req, count>>

(* A draft that cannot go on keeps its failure and stops.                  *)
DraftStops ==
  /\ pc = "gate" /\ ~CanContinue /\ DraftFirst
  /\ SaveThen("idle")
  /\ UNCHANGED <<st, ck, files, snaps, until, tries, req, count>>

MutExtends(i) ==
  /\ i # 0 /\ HasBase(st.replans[i])
  /\ Agentic /\ ~Res.exec /\ st.art[Cur] # NoArt

(* A candidate may repair an intermediate gate a bounded number of times.  *)
Extends(i) ==
  /\ i # 0 /\ HasBase(st.replans[i])
  /\ st.replans[i].inter < MaxInter
  /\ Agentic /\ ~Res.exec /\ st.art[Cur] # NoArt

MutReject(t, i) ==
  /\ st' = RejectedReplan(t, i)
  /\ snaps' = Without(t.replans[i].base)
  /\ SaveThen("loop")
  /\ UNCHANGED files

Reject(t, i) ==
  IF SnapshotExists(t.replans[i].base)
  THEN /\ st' = RejectedReplan(t, i)
       /\ files' = snaps[t.replans[i].base.snap]
       /\ snaps' = Without(t.replans[i].base)
       /\ SaveThen("loop")
  ELSE pc' = "lost" /\ UNCHANGED <<st, files, snaps, after>>

CandidateFails ==
  LET i == ActiveReplan(st, Cur)
  IN  /\ pc = "gate" /\ ~CanContinue /\ ~DraftFirst
      /\ i # 0 /\ HasBase(st.replans[i]) /\ ~Extends(i)
      /\ Reject(st, i)
      /\ UNCHANGED <<ck, until, tries, req, count>>

(* The failed gate is handed to recovery.                                  *)
ToRecovery ==
  LET i == ActiveReplan(st, Cur)
  IN  /\ pc = "gate" /\ ~CanContinue /\ ~DraftFirst
      /\ i # 0 => Extends(i) \/ ~HasBase(st.replans[i])
      /\ st' = IF Extends(i) THEN [st EXCEPT !.replans[i].inter = @ + 1] ELSE st
      /\ pc' = "decide"
      /\ UNCHANGED <<ck, files, snaps, until, tries, after, req, count>>
-----------------------------------------------------------------------------
(* The recovery decision.                                                  *)

(* A failure of one step and origin has one identity, so records about the *)
(* same step and origin concern the same failure.                          *)
SameFailure(record) == record.kind = Res.kind

MutAllowedTargets ==
  IF Res.kind = "external" THEN {}
  ELSE {x \in 2 .. (Cur - 1) : st.art[x] # NoArt}

AllowedTargets ==
  IF ActiveReplan(st, Cur) # 0 \/ Res.kind = "external" THEN {}
  ELSE {x \in 2 .. (Cur - 1) :
          /\ st.art[x] # NoArt
          /\ Cardinality({i \in DOMAIN st.replans :
                LET r == st.replans[i] IN r.trig = Cur /\ r.to = x /\ SameFailure(r)}) < MaxReplans}

LocalAvailable == st.art[Cur] # NoArt /\ Res.kind # "external"

Related == {i \in DOMAIN st.turns : st.turns[i].step = Cur /\ SameFailure(st.turns[i])}

AgenticBudget ==
  Agentic /\ Cardinality(Related) < MaxTurnsStep /\ Len(st.turns) < MaxTurns

(* _fallback_recovery_decision: the deterministic choice.                  *)
Fallback(hint) ==
  IF Res.kind = "hard" THEN <<"stop", 0>>
  ELSE IF Res.exec THEN <<"retry", Cur>>
  ELSE IF hint \in AllowedTargets THEN <<"replan", hint>>
  ELSE IF LocalAvailable THEN <<"local", Cur>>
  ELSE IF AllowedTargets # {} THEN <<"replan", CHOOSE x \in AllowedTargets : \A y \in AllowedTargets : y <= x>>
  ELSE IF Res.kind = "external" THEN <<"ask", 0>>
  ELSE <<"retry", Cur>>

(* Every decision the model may return; "unavailable" is the stop that     *)
(* stands for a planner without a usable answer.                           *)
Proposals ==
  {<<"local", Cur>>, <<"retry", Cur>>, <<"ask", 0>>, <<"stop", 0>>, <<"unavailable", 0>>}
    \cup {<<"replan", x>> : x \in Steps}

Admissible(d) ==
  CASE d[1] = "local"  -> LocalAvailable
    [] d[1] = "replan" -> d[2] \in AllowedTargets
    [] d[1] = "ask"    -> Res.kind = "external"
    [] d[1] = "stop"   -> Res.kind = "hard" \/ (AllowedTargets = {} /\ ~LocalAvailable)
    [] d[1] = "retry"  -> Res.kind # "external"
    [] OTHER           -> TRUE

Decision(proposal, hint) == IF Admissible(proposal) THEN proposal ELSE Fallback(hint)

(* The same executable action on the same artifact already failed.         *)
Stagnant(d, same) ==
  /\ d[1] # "ask" /\ same
  /\ \E i \in Related : /\ st.turns[i].action = d[1] /\ st.turns[i].target = d[2]
                        /\ st.turns[i].fp = st.art[Cur]
                        /\ st.turns[i].status \in {"rejected", "exhausted", "error"}

Turn(d, status, base) ==
  [step |-> Cur, target |-> d[2], action |-> d[1], kind |-> Res.kind, status |-> status,
   before |-> Res.score, fp |-> st.art[Cur], base |-> base]

(* Snapshot directories get fresh names.                                   *)
SnapName == count.snap + 1

Snapshot == snaps' = [n \in DOMAIN snaps \cup {SnapName} |-> IF n = SnapName THEN files ELSE snaps[n]]

(* A local action: snapshot, new revision, the failed result and artifact  *)
(* are dropped; a local repair edits the failed artifact, a retry or a     *)
(* harness investigation executes the producer again.                      *)
LocalState(d) ==
  LET t == [st EXCEPT !.turns = Append(@, Turn(d, "acted", Captured(st, SnapName))),
                      !.rev = @ + 1, !.res = Front(@), !.art[Cur] = NoArt]
  IN  IF d[1] = "local" THEN [t EXCEPT !.cand[Cur] = st.art[Cur]] ELSE t

CanReplan(x) ==
  /\ x # 0 /\ x < Cur
  /\ Cardinality({i \in DOMAIN st.replans :
        LET r == st.replans[i] IN r.trig = Cur /\ SameFailure(r) /\ r.fp = st.art[x]}) < MaxReplans

MutReplanState(t, x, acted) ==
  LET rec == [trig |-> Cur, to |-> x, kind |-> Res.kind, status |-> "scheduled",
              fp |-> t.art[x], inter |-> 0, base |-> Captured(st, SnapName)]
      upd == [t EXCEPT !.replans = Append(@, rec),
                       !.cand = [s \in Steps |-> IF s < x THEN @[s] ELSE IF s = x THEN t.art[x] ELSE NoArt]]
  IN  Truncate(x, IF acted THEN [upd EXCEPT !.turns[Len(upd.turns)].status = "acted"] ELSE upd)

(* An upstream replan: snapshot, new revision, everything from its target  *)
(* on is dropped, the target's artifact is kept as its candidate.          *)
ReplanState(t, x, acted) ==
  LET rec == [trig |-> Cur, to |-> x, kind |-> Res.kind, status |-> "scheduled",
              fp |-> t.art[x], inter |-> 0, base |-> Captured(st, SnapName)]
      upd == [t EXCEPT !.replans = Append(@, rec), !.rev = @ + 1,
                       !.cand = [s \in Steps |-> IF s < x THEN @[s] ELSE IF s = x THEN t.art[x] ELSE NoArt]]
  IN  Truncate(x, IF acted THEN [upd EXCEPT !.turns[Len(upd.turns)].status = "acted"] ELSE upd)

(* Nothing can be scheduled: the pending replan and the planned turn are   *)
(* closed, an open candidate is rolled back, otherwise the run fails closed.*)
GiveUp(t) ==
  LET p   == PendingReplan(t, Cur)
      a   == ActiveReplan(t, Cur)
      k   == Len(t.turns)
      t1  == IF p # 0 /\ p # a THEN [t EXCEPT !.replans[p].status = "exhausted"] ELSE t
      t2  == IF k > 0 /\ t1.turns[k].status = "planned"
             THEN [t1 EXCEPT !.turns[k].status =
                     IF t1.turns[k].action = "ask" THEN "awaiting_human" ELSE "exhausted"]
             ELSE t1
  IN  IF a # 0 /\ HasBase(t2.replans[a]) THEN Reject(t2, a)
      ELSE /\ st' = t2 /\ SaveThen("idle") /\ UNCHANGED <<files, snaps>>

(* One recovery decision: agentic within its budgets, else the step's own  *)
(* rollback hint.                                                          *)
Recover(proposal, hint, same) ==
  /\ pc = "decide"
  /\ LET d    == Decision(proposal, hint)
         stag == Stagnant(d, same)
         t    == IF AgenticBudget
                 THEN [st EXCEPT !.turns =
                         Append(@, Turn(d, IF stag THEN "exhausted" ELSE "planned", NoBase))]
                 ELSE st
         x    == IF ~AgenticBudget THEN (IF ActiveReplan(st, Cur) # 0 \/ Res.kind = "external" THEN 0 ELSE hint)
                 ELSE IF d[1] = "replan" /\ ~stag THEN d[2] ELSE 0
     IN  IF AgenticBudget /\ ~stag /\ d[1] \in {"local", "retry"}
         THEN /\ st' = LocalState(d) /\ Snapshot /\ SaveThen("loop")
              /\ count' = [count EXCEPT !.snap = @ + 1]
              /\ UNCHANGED files
         ELSE IF CanReplan(x)
         THEN /\ st' = ReplanState(t, x, AgenticBudget) /\ Snapshot /\ SaveThen("loop")
              /\ count' = [count EXCEPT !.snap = @ + 1]
              /\ UNCHANGED files
         ELSE GiveUp(t) /\ UNCHANGED count
  /\ UNCHANGED <<ck, until, tries, req>>
-----------------------------------------------------------------------------
(* The process stops.  "undone" is the window in which a snapshot has been *)
(* removed but the checkpoint that forgets it is not written yet.          *)
Undone ==
  \E i \in DOMAIN ck.turns \cup DOMAIN ck.replans :
     \/ i \in DOMAIN ck.turns /\ HasBase(ck.turns[i]) /\ ~SnapshotExists(ck.turns[i].base)
     \/ i \in DOMAIN ck.replans /\ HasBase(ck.replans[i]) /\ ~SnapshotExists(ck.replans[i].base)

Point == IF Undone THEN "undone" ELSE IF pc = "save" THEN "unsaved" ELSE "running"

Crash ==
  /\ pc \in {"loop", "ran", "gate", "decide", "save"}
  /\ Point \in CrashPoints /\ count.launch < MaxLaunches
  /\ pc' = "idle" /\ st' = Fresh /\ tries' = 0
  /\ UNCHANGED <<ck, files, snaps, until, after, req, count>>

(* Recovery hints: the rollback target of the step or of its evidence.     *)
Hints == 0 .. N

Step ==
  \/ Return \/ Save \/ Observe \/ StepAccepted \/ DraftStops \/ CandidateFails \/ ToRecovery
  \/ StepRaises
  \/ \E a \in Arts : \/ StepReturns(a, 0, "design")
                     \/ \E score \in 1 .. MaxScore, kind \in Kinds : StepReturns(a, score, kind)
  \/ \E p \in Proposals, h \in Hints, same \in BOOLEAN : Recover(p, h, same)

Next == \/ Step \/ Crash \/ Continue
        \/ \E u \in Steps : Launch(u)
        \/ \E a \in Arts : StepProgress(a)

Spec == Init /\ [][Next]_vars
FairSpec == Spec /\ WF_vars(Step)
-----------------------------------------------------------------------------
ArtOrNone == Arts \cup {NoArt}
StateOK(t) ==
  /\ \A i \in DOMAIN t.res : t.res[i].step \in Steps /\ t.res[i].score \in 0 .. MaxScore
  /\ t.art \in [Steps -> ArtOrNone] /\ t.cand \in [Steps -> ArtOrNone]
  /\ t.rev \in Nat /\ t.gen \in Nat /\ t.resume.step \in 0 .. N
  /\ \A i \in DOMAIN t.replans : /\ t.replans[i].to < t.replans[i].trig
                                 /\ t.replans[i].inter \in 0 .. MaxInter
  /\ \A i \in DOMAIN t.turns : t.turns[i].step \in Steps

(* The type of the state.                                                  *)
TypeOK ==
  /\ pc \in {"idle", "loop", "ran", "gate", "decide", "save", "refused", "load_error",
             "order_error", "lost"}
  /\ after \in {"idle", "loop"}
  /\ StateOK(st) /\ StateOK(ck)
  /\ files \in [Steps -> ArtOrNone]
  /\ \A n \in DOMAIN snaps : n \in 1 .. count.snap /\ snaps[n] \in [Steps -> ArtOrNone]
  /\ until \in Steps /\ tries \in 0 .. ExecRetries

(* A run that owns the checkpoint is never refused by its writer: every    *)
(* shortening of the prefix, by a local action, a replan, a rollback, a    *)
(* continuation or a restart, comes with a newer revision                  *)
(* (_write_pipeline_state, _reject_same_revision_checkpoint_regression).   *)
CheckpointAccepted == pc # "refused"

(* What the loader refuses: never a checkpoint that is out of order, and a *)
(* continuation only for the step the checkpoint was last continued from,  *)
(* when the checkpoint names an older token: rolling a candidate back      *)
(* brings back the token that was current when it was opened.  Every other *)
(* continuation is admitted whenever it is delivered, after a stop too.    *)
ResumeAdmitted ==
  /\ pc # "order_error"
  /\ pc = "load_error" => ck.resume.step = req.step /\ ck.resume.tok < req.tok

(* A step executes only on inputs whose files are the ones their artifacts *)
(* describe: rollbacks and restarts bring back state and files together.   *)
InputsMatchFiles ==
  pc = "ran" => \A s \in 1 .. (Cur - 1) : st.art[s] # NoArt => files[s] = st.art[s]

(* Upstream candidates never nest: while one is open no other is started.  *)
OneOpenReplan == Cardinality(OpenReplans(st)) <= 1

(* The snapshot a rollback needs is there: an open candidate can always be *)
(* rolled back, after a restart too.                                       *)
RollbackPossible == pc # "lost"

(* The runner's promises: what holds always, what holds unless the process *)
(* stops between the removal of a snapshot and the save that forgets it,   *)
(* and what holds when failed gates are repaired before the run goes on.   *)
RunnerSound ==
  /\ TypeOK /\ CheckpointAccepted /\ ResumeAdmitted
  /\ "undone" \notin CrashPoints => InputsMatchFiles /\ RollbackPossible
  /\ RepairRelease => OneOpenReplan

(* Every call of the pipeline ends: budgets bound the recovery whatever    *)
(* the model proposes and however gates answer.                            *)
CallEnds == (pc = "loop") ~> (pc \notin {"loop", "ran", "gate", "decide", "save"})
=============================================================================
