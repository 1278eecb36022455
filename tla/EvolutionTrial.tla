--------------------------- MODULE EvolutionTrial ---------------------------
(***************************************************************************)
(* evolution/: one governed trial of a candidate patch.  A Temporal        *)
(* workflow has the patch evaluated by a local worktree or a Kubernetes    *)
(* Job, signs what the evaluation reported and delivers the proof to the   *)
(* control plane; clients that start the trial again deliver it once more. *)
(* An evaluation may outlive the attempt it belongs to, and Git, the       *)
(* Kubernetes API, the workers and the control plane may fail in between.  *)
(***************************************************************************)
EXTENDS Naturals, Sequences, FiniteSets

CONSTANTS
  Evals,      \* FIXED_EVAL_IDS, in order
  Suites,     \* those run by regression_runner
  Sealed,     \* the suites under evals/sealed
  Attempts,   \* maximum_attempts of the retry policy
  Setups,     \* the trials' inputs with the deployments they meet
  MaxStarts   \* bound on repeated starts of the trial

VARIABLES
  setup,      \* the trial's input and the deployment it meets
  wf,         \* the workflow
  ex,         \* the executor of each attempt
  client,     \* a client that starts the trial again
  cp          \* proofs the control plane has

vars == <<setup, wf, ex, client, cp>>

\* An executor, the one the attestation requires, whether the deployment is the
\* pinned one, whether plan and candidate agree and keep the invariants, and the
\* kinds of path the plan and the bundle name.
Setup(mode, required, identity, pinned, plan, bundle) ==
  [mode |-> mode, required |-> required, identity |-> identity, pinned |-> pinned,
   plan |-> plan, bundle |-> bundle]

\* The globs of the governance policy: what is allowed is low risk or a generator.
Allowed == {"low", "generator"}

\* validate_optimizer_context_path, for the context shown to the optimizer, and
\* the path rules of validate_patch_plan and validate_patch_bundle.
PathAllowed(p) == p \in Allowed

PlanAllowed(s) == s.pinned /\ \A p \in s.plan : PathAllowed(p)

\* The bundle has the plan's files, under the same path rules.
BundleAllowed(s) == s.bundle = s.plan /\ \A p \in s.bundle : PathAllowed(p)

PatchAllowed(s) == PlanAllowed(s) /\ BundleAllowed(s)

NoReport == [verdict |-> "none", results |-> <<>>, clean |-> FALSE, mode |-> "none", cad |-> FALSE, files |-> {}]
NoProof == [n |-> 0, verdict |-> "none", guardrail |-> FALSE, report |-> NoReport]
NoExecutor ==
  [pc |-> "idle", results |-> <<>>, verdict |-> "error", left |-> {}, made |-> {}, files |-> {}, report |-> NoReport]

Init ==
  /\ setup \in Setups
  /\ wf = [pc |-> "evaluate", attempt |-> 1, report |-> NoReport, from |-> 0, proof |-> NoProof, status |-> "running"]
  /\ ex = [a \in 1..Attempts |-> NoExecutor]
  /\ client = [starts |-> 0, proof |-> NoProof]
  /\ cp = {}

Generator == "generator" \in setup.bundle

(* -------------------- The local executor: a worktree ------------------- *)

Running(a) == wf.pc = "evaluate" /\ wf.attempt = a

\* Nobody reads what an executor found once its attempt was given up.
To(a, r) ==
  ex' = [ex EXCEPT ![a] = IF r.pc \in {"done", "raised", "refused", "lost"} /\ ~Running(a)
                            THEN [NoExecutor EXCEPT !.pc = "lost", !.left = r.left] ELSE r]

\* evaluate_candidate_activity: a deployment whose image or toolchain is not
\* the pinned one is refused before anything is made.
Refuse(a) ==
  /\ Running(a) /\ ex[a].pc = "idle" /\ ~setup.identity
  /\ To(a, [ex[a] EXCEPT !.pc = "refused"])
  /\ UNCHANGED <<setup, wf, client, cp>>

\* materialize_and_evaluate_candidate up to the detached worktree.
AddWorktree(a) ==
  /\ Running(a) /\ ex[a].pc = "idle" /\ setup.identity /\ setup.mode = "local"
  /\ \/ /\ ~PatchAllowed(setup)
        /\ To(a, [ex[a] EXCEPT !.pc = "report", !.verdict = "policy_rejected", !.report.clean = TRUE])
     \/ /\ PatchAllowed(setup)
        /\ To(a, [ex[a] EXCEPT !.pc = "materialize", !.left = {"tree", "entry"}, !.made = {"tree"}])
     \/ /\ PatchAllowed(setup)
        /\ To(a, [ex[a] EXCEPT !.pc = "clean", !.left = {"tree"}])
  /\ UNCHANGED <<setup, wf, client, cp>>

\* _materialize_files: every file is prepared before one is written; a stale
\* digest or an unsafe target rejects the patch, a failing disk is an error.
Materialize(a) ==
  /\ ex[a].pc = "materialize"
  /\ \/ To(a, [ex[a] EXCEPT !.pc = "evals", !.files = setup.bundle])
     \/ To(a, [ex[a] EXCEPT !.pc = "clean", !.verdict = "policy_rejected"])
     \/ \E done \in SUBSET setup.bundle :
          To(a, [ex[a] EXCEPT !.pc = "clean", !.verdict = "error", !.files = done])
  /\ UNCHANGED <<setup, wf, client, cp>>

\* load_suite under a root: the manifest and its sources have to be there.  The
\* materializer of a Job removes the sealed ones from the checkout.
LoadSuite(e, stripped) == ~(stripped /\ e \in Sealed)

\* regression_runner.main: the configured suite is first looked up under the
\* candidate's root, whatever root its cases are then taken from.
Loads(mode, e) == e \in Suites => LoadSuite(e, mode = "job")

\* run_suites: passed if every case ran exactly once and passed.
Outcomes(mode, e) == IF Loads(mode, e) THEN {"passed", "failed"} ELSE {"unloaded"}

AllPassed(results) == Len(results) = Len(Evals) /\ \A i \in DOMAIN results : results[i] = "passed"

\* The fixed commands run in order and the first that fails is the last.
RunEval(a) ==
  /\ ex[a].pc = "evals"
  /\ LET e == Evals[Len(ex[a].results) + 1] IN
     \/ \E o \in Outcomes("local", e) :
          LET rs == Append(ex[a].results, o) IN
          To(a, [ex[a] EXCEPT !.results = rs,
                 !.pc = IF o = "passed" /\ Len(rs) < Len(Evals) THEN "evals" ELSE "clean",
                 !.verdict = IF AllPassed(rs) THEN "passed" ELSE "failed"])
     \/ To(a, [ex[a] EXCEPT !.pc = "clean", !.verdict = "error"])
  /\ UNCHANGED <<setup, wf, client, cp>>

MutCleanup(registered, left, removed) == "tree" \notin left

\* _cleanup_worktree: git forgets a registered worktree, the directory goes and
\* so does the directory of the trial.
Cleanup(registered, left, removed) == left = {} /\ (registered => removed)

CleanWorktree(a) ==
  /\ ex[a].pc = "clean" /\ setup.mode = "local"
  /\ \E removed \in BOOLEAN, left \in SUBSET ex[a].left :
       /\ (removed /\ ex[a].made # {}) => "entry" \notin left
       /\ (~removed \/ ex[a].made = {}) => (left \cap {"entry"} = ex[a].left \cap {"entry"})
       /\ To(a, [ex[a] EXCEPT !.pc = "report", !.left = left,
                 !.report.clean = Cleanup(ex[a].made # {}, left, removed)])
  /\ UNCHANGED <<setup, wf, client, cp>>

(* ------------------- The Kubernetes executor: one Job ------------------- *)

\* The ConfigMap and the Job are created one after the other.  A lost response
\* leaves an object the executor does not know of.
Create(a, pc, object, then) ==
  /\ ex[a].pc = pc
  /\ \/ To(a, [ex[a] EXCEPT !.pc = then, !.left = ex[a].left \cup {object}, !.made = ex[a].made \cup {object}])
     \/ \E left \in {{}, {object}} :
          To(a, [ex[a] EXCEPT !.pc = "clean", !.verdict = "raised", !.left = ex[a].left \cup left])
  /\ UNCHANGED <<setup, wf, client, cp>>

CreateConfigMap(a) ==
  Running(a) /\ setup.identity /\ setup.mode = "job" /\ Create(a, "idle", "configmap", "job")
CreateJob(a) == Create(a, "job", "job", "wait")

\* What the materializer's init container ends with: 0, rejected (10), failed
\* (20), or nothing known because the Pod is gone.
MaterializerCodes == IF PatchAllowed(setup) THEN {"0", "10", "20", "none"} ELSE {"10", "20", "none"}

\* Init containers end one after the other; the first failure is the last.
StatusesOf ==
  {rs \in UNION {[1..n -> {"passed", "failed", "unloaded"}] : n \in 0..Len(Evals)} :
     \A i \in DOMAIN rs : rs[i] \in Outcomes("job", Evals[i]) /\ (i < Len(rs) => rs[i] = "passed")}

\* _report derives the verdict from the Pod's statuses.
JobVerdict(code, rs) ==
  CASE code = "10"                              -> "policy_rejected"
    [] code \notin {"0", "10"}                  -> "error"
    [] code = "0" /\ Len(rs) # Len(Evals)       -> "error"
    [] code = "0" /\ AllPassed(rs)              -> "passed"
    [] OTHER                                    -> "failed"

\* The Job ends within its deadline and its Pod is read, or a call fails, or
\* the executor gives up waiting.
JobEnds(a) ==
  /\ ex[a].pc = "wait"
  /\ \/ \E code \in MaterializerCodes, rs \in StatusesOf :
          /\ code # "0" => rs = <<>>
          /\ To(a, [ex[a] EXCEPT !.pc = "clean", !.results = rs, !.verdict = JobVerdict(code, rs),
                    !.files = IF code = "0" THEN setup.bundle ELSE {}])
     \/ To(a, [ex[a] EXCEPT !.pc = "clean", !.verdict = "raised"])
  /\ UNCHANGED <<setup, wf, client, cp>>

\* Job and ConfigMap are deleted if they are known to exist.
DeleteObjects(a) ==
  /\ ex[a].pc = "clean" /\ setup.mode = "job"
  /\ \E gone \in SUBSET ex[a].made :
       To(a, [ex[a] EXCEPT !.left = ex[a].left \ gone, !.report.clean = (gone = ex[a].made),
              !.pc = IF ex[a].verdict = "raised" THEN "raised" ELSE "report"])
  /\ UNCHANGED <<setup, wf, client, cp>>

(* ------------------------- Both executors ------------------------------- *)

\* A result whose cleanup failed is not passed.
ReportOf(e) ==
  [verdict |-> IF ~e.report.clean /\ (e.verdict = "passed" \/ setup.mode = "job") THEN "error" ELSE e.verdict,
   results |-> e.results, clean |-> e.report.clean, mode |-> setup.mode,
   cad |-> Generator /\ e.results # <<>> /\ e.results[1] = "passed", files |-> e.files]

Return(a) ==
  /\ ex[a].pc = "report"
  /\ To(a, [ex[a] EXCEPT !.pc = "done", !.report = ReportOf(ex[a])])
  /\ UNCHANGED <<setup, wf, client, cp>>

\* The worker process stops: nothing is cleaned up.
WorkerStops(a) ==
  /\ Running(a) \/ ex[a].pc # "idle"
  /\ ex[a].pc \notin {"done", "raised", "refused", "lost"}
  /\ To(a, [ex[a] EXCEPT !.pc = "lost"])
  /\ UNCHANGED <<setup, wf, client, cp>>

(* ----------------------------- The workflow ----------------------------- *)

\* An attempt that was given up may keep running beside the next one; after the
\* evaluation nobody meets it any more and it is not followed further.
Follow(as) == ex' = [a \in 1..Attempts |-> IF a \in as THEN ex[a] ELSE NoExecutor]

Evaluated ==
  /\ wf.pc = "evaluate" /\ ex[wf.attempt].pc = "done"
  /\ wf' = [wf EXCEPT !.pc = "attest", !.report = ex[wf.attempt].report, !.from = wf.attempt, !.attempt = 1]
  /\ Follow({wf.attempt})
  /\ UNCHANGED <<setup, client, cp>>

\* The activity raised, or its start-to-close timeout passed whatever the
\* executor is still doing; a policy error is not retried.
AttemptFails ==
  /\ wf.pc = "evaluate" /\ ex[wf.attempt].pc # "done"
  /\ IF wf.attempt < Attempts /\ ex[wf.attempt].pc # "refused"
       THEN wf' = [wf EXCEPT !.attempt = @ + 1] /\ UNCHANGED ex
       ELSE wf' = [wf EXCEPT !.pc = "failure", !.attempt = 1] /\ Follow({})
  /\ UNCHANGED <<setup, client, cp>>

\* build_failure_report_activity
FailureReport ==
  /\ wf.pc = "failure"
  /\ wf' = [wf EXCEPT !.pc = "attest", !.report = [NoReport EXCEPT !.verdict = "error", !.mode = setup.required]]
  /\ UNCHANGED <<setup, ex, client, cp>>

MutGuardrail(r) == r.verdict = "passed" /\ r.clean /\ AllPassed(r.results)

\* build_authoritative_result
Guardrail(r) ==
  /\ r.verdict = "passed" /\ r.clean /\ AllPassed(r.results)
  /\ r.mode = setup.required
  /\ Generator => r.cad /\ r.mode = "job"

VerdictOf(r) ==
  CASE r.verdict = "passed"          -> IF Guardrail(r) THEN "PASSED" ELSE "FAILED"
    [] r.verdict = "failed"          -> "FAILED"
    [] r.verdict = "policy_rejected" -> "POLICY_REJECTED"
    [] r.verdict = "error"           -> "ENVIRONMENT_ISSUE"

\* A proof carries the time it was made.  An attempt whose completion was lost
\* made a proof nobody has; after the last one the workflow has failed.
Attest ==
  /\ wf.pc = "attest"
  /\ LET p == [n |-> wf.proof.n + 1, verdict |-> VerdictOf(wf.report), guardrail |-> Guardrail(wf.report),
               report |-> wf.report] IN
     \/ wf' = [wf EXCEPT !.pc = "deliver", !.proof = p, !.attempt = 1]
     \/ wf' = IF p.n < Attempts THEN [wf EXCEPT !.proof.n = p.n]
                                ELSE [wf EXCEPT !.pc = "ended", !.status = "failed"]
  /\ UNCHANGED <<setup, ex, client, cp>>

\* HarnessEvolutionWorkflow.run after the delivery: the gate.
Gate(r) == IF r.verdict # "passed" \/ ~r.clean THEN "rejected" ELSE "awaiting"

\* deliver_authoritative_result: received and acknowledged, received without
\* an answer, lost, or rejected for good.
Deliver ==
  /\ wf.pc = "deliver"
  /\ \/ cp' = cp \cup {wf.proof} /\ wf' = [wf EXCEPT !.pc = "ended", !.status = Gate(wf.report)]
     \/ /\ cp' \in {cp, cp \cup {wf.proof}}
        /\ wf' = IF wf.attempt < Attempts THEN [wf EXCEPT !.attempt = @ + 1]
                                          ELSE [wf EXCEPT !.pc = "ended", !.status = "failed"]
     \/ UNCHANGED cp /\ wf' = [wf EXCEPT !.pc = "ended", !.status = "failed"]
  /\ UNCHANGED <<setup, ex, client>>

\* start_evolution_trial for a trial that exists: the result is queried ...
Attach ==
  /\ client.starts < MaxStarts /\ wf.proof.verdict # "none"
  /\ client' = [starts |-> client.starts + 1, proof |-> wf.proof]
  /\ UNCHANGED <<setup, wf, ex, cp>>

\* ... and delivered.
Redeliver ==
  /\ client.proof # NoProof
  /\ cp' \in {cp, cp \cup {client.proof}}
  /\ client' = [client EXCEPT !.proof = NoProof]
  /\ UNCHANGED <<setup, wf, ex>>

Executor(a) ==
  /\ wf.pc = "evaluate"
  /\ \/ Refuse(a) \/ AddWorktree(a) \/ Materialize(a) \/ RunEval(a) \/ CleanWorktree(a)
     \/ CreateConfigMap(a) \/ CreateJob(a) \/ JobEnds(a) \/ DeleteObjects(a)
     \/ Return(a) \/ WorkerStops(a)

Next ==
  \/ \E a \in 1..Attempts : Executor(a)
  \/ Evaluated \/ AttemptFails \/ FailureReport \/ Attest \/ Deliver
  \/ Attach \/ Redeliver

Spec == Init /\ [][Next]_vars

-----------------------------------------------------------------------------
(* The workflow asks for approval only when one attempt ran every fixed    *)
(* evaluation on the patch with success and left nothing of its own behind,*)
(* whatever other attempts are still doing, and the control plane has the  *)
(* proof.                                                                  *)
ApprovalGrounded ==
  wf.status = "awaiting" =>
    /\ wf.from # 0 /\ AllPassed(ex[wf.from].results) /\ ex[wf.from].left = {}
    /\ ex[wf.from].files = setup.bundle
    /\ wf.proof \in cp

(* However often the proof is made, delivered and delivered again, the      *)
(* control plane sees one, and one that claims its guardrails was earned by *)
(* the required executor and, for a generator, by the CAD probe of the Job. *)
OneProof ==
  /\ \A p \in cp : p = wf.proof
  /\ \A p \in cp : p.guardrail => /\ AllPassed(p.report.results) /\ p.report.clean
                                  /\ p.report.mode = setup.required
                                  /\ "generator" \in setup.plan => p.report.mode = "job"

(* Nothing outside the allowlist is ever written, not even by an attempt    *)
(* that goes wrong.                                                         *)
WritesAllowed == \A a \in DOMAIN ex : \A p \in ex[a].files : PathAllowed(p)

TrialSound == ApprovalGrounded /\ OneProof /\ WritesAllowed

(* README.md: the production overlay executes sealed sources from the       *)
(* immutable evaluator image.  regression_runner looks for the configured   *)
(* suite in the checkout they were removed from, so no sealed case is run.  *)
SealedSuitesRun == \A a \in DOMAIN ex : \A i \in DOMAIN ex[a].results : ex[a].results[i] # "unloaded"
=============================================================================
