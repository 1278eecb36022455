--------------------------- MODULE LiveEvaluation ---------------------------
(***************************************************************************)
(* evolution/live_runner.py: a fixed plan of cases is run against the      *)
(* deployed agent over HTTP and SSE, one case after another.  The runner   *)
(* sees only what the stream carries and what the artifact store holds     *)
(* when it looks, grades every case, rewrites the report after each and    *)
(* ends with an exit status.  The agent, its stream and its artifact store *)
(* are the environment.                                                    *)
(***************************************************************************)
EXTENDS Naturals, Sequences, FiniteSets, SequencesExt, FiniteSetsExt

CONSTANTS
  Plans,       \* sequences of cases
  Tools,       \* tool names
  Facts,       \* the facts of a pipeline result the strict gate asks for
  Results,     \* what the pipeline results published may say: subsets of Facts
  MaxEvents    \* bound on the events of a stream

VARIABLES
  plan,      \* the plan being run
  obs,       \* the capture of the current stream
  first,     \* the capture a replay is compared with
  results,   \* graded cases
  report,    \* the results in the report file
  store,     \* the artifact store, as far as the current manifest names it
  exit       \* "running", "error", or the exit status 0 or 1 of main

vars == <<plan, obs, first, results, report, store, exit>>

Case(category, arm, pair, release, replay) ==
  [category |-> category, arm |-> arm, pair |-> pair, release |-> release, replay |-> replay]

Arms == {"single", "multi"}
Pairs(p) == {p[i].pair : i \in DOMAIN p} \ {"none"}
ArmsOf(p, q) == {i \in DOMAIN p : p[i].pair = q}

\* LivePlan.unique_cases and LiveCase.paired_fields_are_atomic: a pair is one case
\* per arm on the same inputs.  _validate_asset_manifest and
\* _validate_frozen_execution refuse before the first request as well.
ValidPlan(p) ==
  /\ \A i \in DOMAIN p : (p[i].arm = "none") <=> (p[i].pair = "none")
  /\ \A q \in Pairs(p) :
       /\ Cardinality(ArmsOf(p, q)) = 2
       /\ {p[i].arm : i \in ArmsOf(p, q)} = Arms
       /\ \A i, j \in ArmsOf(p, q) : p[i].category = p[j].category /\ p[i].release = p[j].release

NoManifest == [status |-> "none", said |-> {}]
NoStore == [intact |-> TRUE, said |-> {}]
NoCapture ==
  [pc |-> "idle", http |-> 0, done |-> FALSE, ask |-> FALSE, errors |-> {}, manifest |-> NoManifest,
   calls |-> <<>>, said |-> <<>>, handoffs |-> {}, full |-> FALSE, seen |-> 0]

Init ==
  /\ plan \in Plans
  /\ obs = NoCapture /\ first = NoCapture
  /\ results = <<>> /\ report = <<>>
  /\ store = NoStore
  /\ exit = IF ValidPlan(plan) THEN "running" ELSE "error"

Current == plan[Len(results) + 1]

\* run_plan posts the next case; a conflicting replay is another request body.
Open ==
  /\ exit = "running" /\ obs.pc = "idle" /\ Len(results) < Len(plan)
  /\ \E status \in {200, 409, 500} :
       obs' = [NoCapture EXCEPT !.pc = IF status >= 400 THEN "closed" ELSE "open", !.http = status,
                                !.errors = IF status >= 400 THEN {"http"} ELSE {}]
  /\ UNCHANGED <<plan, first, results, report, store, exit>>

Reading == exit = "running" /\ obs.pc = "open" /\ obs.seen < MaxEvents
Seen(o) == obs' = [o EXCEPT !.seen = @ + 1]

Mark ==
  /\ Reading
  /\ Seen([obs EXCEPT !.done = TRUE]) \/ Seen([obs EXCEPT !.ask = TRUE])
       \/ Seen([obs EXCEPT !.errors = @ \cup {"stream"}])
  /\ UNCHANGED <<plan, first, results, report, store, exit>>

\* The agent published its files and names them in the stream.
Manifest ==
  /\ Reading
  /\ \E said \in Results, status \in {"release_ready", "delivered_with_issues"} :
       /\ Seen([obs EXCEPT !.manifest = [status |-> status, said |-> said]])
       /\ store' = [intact |-> TRUE, said |-> said]
  /\ UNCHANGED <<plan, first, results, report, exit>>

\* A published object is lost or changed: its digest no longer matches.
Decay ==
  /\ exit = "running" /\ store.intact /\ obs.manifest # NoManifest
  /\ store' = [store EXCEPT !.intact = FALSE]
  /\ UNCHANGED <<plan, obs, first, results, report, exit>>

Entry(tool, msg, custom) == [tool |-> tool, msg |-> msg, custom |-> custom]

\* Every tool call of a message carries an id.  It completes the oldest entry that has only custom
\* evidence, or is an entry of its own.
ToolMessage ==
  /\ Reading
  /\ \E t \in Tools :
       LET open == {i \in DOMAIN obs.calls : obs.calls[i] = Entry(t, FALSE, TRUE)} IN
       Seen([obs EXCEPT !.said = Append(@, <<t, "msg">>),
              !.calls = IF open = {} THEN Append(@, Entry(t, TRUE, FALSE))
                                     ELSE [@ EXCEPT ![Min(open)].msg = TRUE]])
  /\ UNCHANGED <<plan, first, results, report, store, exit>>

MutToolEvent ==
  /\ Reading
  /\ \E t \in Tools :
       Seen([obs EXCEPT !.said = Append(@, <<t, "custom">>), !.calls = Append(@, Entry(t, FALSE, TRUE))])
  /\ UNCHANGED <<plan, first, results, report, store, exit>>

\* A workflow event of a tool call completes the newest entry without one.
ToolEvent ==
  /\ Reading
  /\ \E t \in Tools :
       LET open == {i \in DOMAIN obs.calls : obs.calls[i].tool = t /\ ~obs.calls[i].custom} IN
       Seen([obs EXCEPT !.said = Append(@, <<t, "custom">>),
              !.calls = IF open = {} THEN Append(@, Entry(t, FALSE, TRUE))
                                     ELSE [@ EXCEPT ![Max(open)].custom = TRUE]])
  /\ UNCHANGED <<plan, first, results, report, store, exit>>

\* Handoffs are counted once; completed_steps is a maximum.
Workflow ==
  /\ Reading
  /\ Seen([obs EXCEPT !.handoffs = @ \cup {"h"}]) \/ Seen([obs EXCEPT !.full = TRUE])
  /\ UNCHANGED <<plan, first, results, report, store, exit>>

\* _artifact_facts: every named object is there with its digest.
Intact(o) == o.manifest = NoManifest \/ store.intact

\* _pipeline_release_evidence, reading the published result now.
Strict(o) == o.manifest # NoManifest /\ store.intact /\ o.manifest.said = Facts

\* The stream ends; the store is read and the capture is complete.
Close ==
  /\ exit = "running" /\ obs.pc = "open"
  /\ obs' = [pc |-> "closed", http |-> obs.http, done |-> obs.done, ask |-> obs.ask,
             errors |-> obs.errors \cup
               (IF Current.arm = "single" /\ obs.handoffs # {} THEN {"handoff"} ELSE {}),
             manifest |-> obs.manifest, calls |-> obs.calls, said |-> obs.said,
             handoffs |-> obs.handoffs, seen |-> obs.seen,
             full |-> obs.full \/ (obs.manifest # NoManifest /\ store.intact /\ "complete" \in obs.manifest.said)]
             @@ [valid |-> Intact(obs), strict |-> Strict(obs)]
  /\ UNCHANGED <<plan, first, results, report, store, exit>>

Valid(o) == IF "valid" \in DOMAIN o THEN o.valid ELSE TRUE
StrictOf(o) == IF "strict" \in DOMAIN o THEN o.strict ELSE FALSE

\* The digest of the events, the artifacts and the evidence of a capture.
Digest(o) == <<o.done, o.ask, o.manifest, o.calls, o.handoffs, Valid(o), StrictOf(o)>>

\* The first capture of a case with a replay: the same thread is asked again.
Replay ==
  /\ exit = "running" /\ obs.pc = "closed" /\ Current.replay # "none" /\ first = NoCapture
  /\ first' = obs /\ obs' = NoCapture
  /\ UNCHANGED <<plan, results, report, store, exit>>

Ready(o) == o.manifest.status = "release_ready"

MutReleaseOk(c, o) == c.release = "any" \/ Ready(o) = (c.release = "yes")

ReleaseOk(c, o) ==
  /\ c.release = "any" \/ Ready(o) = (c.release = "yes")
  /\ Ready(o) => Valid(o) /\ StrictOf(o)

ReplayOk(c, o, again) ==
  CASE c.replay = "none"     -> TRUE
    [] c.replay = "same"     -> again.http = 200 /\ Digest(again) = Digest(o)
    [] c.replay = "conflict" -> again.http = 409

\* _grade
Grade(c, o, again) ==
  [terminal |-> o.http = 200 /\ o.errors = {} /\ o.done /\ ~o.ask,
   release  |-> ReleaseOk(c, o),
   eda      |-> c.category = "eda" => o.full /\ o.manifest # NoManifest /\ Valid(o),
   replay   |-> ReplayOk(c, o, again)]

Passed(checks) == \A k \in DOMAIN checks : checks[k]

\* The case is graded; the report file is written with all results so far.
Record ==
  /\ exit = "running" /\ obs.pc = "closed"
  /\ Current.replay # "none" => first # NoCapture
  /\ LET o == IF first = NoCapture THEN obs ELSE first
         c == Current
         r == [case |-> c, status |-> o.manifest.status, strict |-> StrictOf(o), valid |-> Valid(o),
               full |-> o.full, checks |-> Grade(c, o, obs)]
     IN results' = Append(results, r) /\ report' = Append(results, r)
  /\ obs' = NoCapture /\ first' = NoCapture /\ store' = NoStore
  /\ UNCHANGED <<plan, exit>>

\* The connection breaks, or the process is stopped: the exception leaves
\* run_plan and the report keeps the cases before this one.
Broken ==
  /\ exit = "running" /\ obs.pc \in {"idle", "open"} /\ Len(results) < Len(plan)
  /\ exit' = "error"
  /\ UNCHANGED <<plan, obs, first, results, report, store>>

Count(P(_)) == Cardinality({i \in DOMAIN results : P(results[i])})
FalseReleases == Count(LAMBDA r : r.status = "release_ready" /\ ~r.checks.release)
PassedCases == Count(LAMBDA r : Passed(r.checks))

\* _paired_comparison: the pairs both of whose arms have a result.
CompletePairs ==
  {q \in Pairs(plan) : {results[i].case.arm : i \in {j \in DOMAIN results : results[j].case.pair = q}} = Arms}
ArmItems(arm) == {i \in DOMAIN results : results[i].case.arm = arm /\ results[i].case.pair \in CompletePairs}

\* main: at least 85 of 100 cases pass and no release is false.
Finish ==
  /\ exit = "running" /\ obs.pc = "idle" /\ Len(results) = Len(plan)
  /\ exit' = IF PassedCases * 100 < 85 * Len(results) \/ FalseReleases > 0 THEN "1" ELSE "0"
  /\ UNCHANGED <<plan, obs, first, results, report, store>>

Next ==
  \/ Open \/ Mark \/ Manifest \/ Decay \/ ToolMessage \/ ToolEvent \/ Workflow
  \/ Close \/ Replay \/ Record \/ Broken \/ Finish

Spec == Init /\ [][Next]_vars

-----------------------------------------------------------------------------
(* The evaluation approves a build only if every case of the plan was run,  *)
(* and what the agent called release_ready was backed by a complete result  *)
(* whose files were intact when the capture ended; otherwise the release is *)
(* counted as false.                                                        *)
ApprovalEarned ==
  exit = "0" => /\ Len(results) = Len(plan)
                /\ \A i \in DOMAIN results :
                     results[i].status = "release_ready" => results[i].strict /\ results[i].valid
                /\ Cardinality({i \in DOMAIN plan : plan[i].category = "eda"}) = Len(plan) =>
                     \E i \in DOMAIN results : results[i].full

(* The report on disk holds what was graded, case by case and in the order  *)
(* of the plan, however the run ended.                                      *)
ReportIsPrefix ==
  /\ report = results
  /\ \A i \in DOMAIN results : results[i].case = plan[i]

(* Evidence of tool calls arrives as messages and as workflow events, in    *)
(* any order: an entry stands for one call, and a call has one entry.       *)
CallsOnce ==
  \A t \in Tools :
    LET msgs == Cardinality({i \in DOMAIN obs.said : obs.said[i] = <<t, "msg">>})
        evts == Cardinality({i \in DOMAIN obs.said : obs.said[i] = <<t, "custom">>})
    IN Cardinality({i \in DOMAIN obs.calls : obs.calls[i].tool = t}) = Max({msgs, evts})

(* The arms are compared on the same pairs.                                 *)
ArmsBalanced == Cardinality(ArmItems("single")) = Cardinality(ArmItems("multi"))

EvaluationSound == ApprovalEarned /\ ReportIsPrefix /\ CallsOnce /\ ArmsBalanced
=============================================================================
