----------------------------- MODULE AgentGraph -----------------------------
(***************************************************************************)
(* One conversation thread of the RatsNestPro multi-agent graph            *)
(* (agents/ratsnestpro/ratsnestpro_agent.py): the supervisor, the role     *)
(* nodes and the edges between them, the Temporal workflows the hardware   *)
(* engineer dispatches, the interrupts a person answers, and the service   *)
(* that runs the graph, loses its process, takes the run over and cancels  *)
(* it (service/service.py).                                                *)
(*                                                                         *)
(* LangGraph saves the state of the graph after each node; a process that  *)
(* stops in a node runs that node again.  Node effects that outlive the    *)
(* process are the started workflow and the recorded interrupt, so these   *)
(* two nodes are split at that point; every other node is one action.      *)
(* What a model, a tool or a person decides is a choice; texts, messages,  *)
(* traces and events are left out.  A workflow is what its waiter sees of  *)
(* it: it moves the checkpoint of its workspace and ends.  The fallback to *)
(* a hardware summary without a checkpoint file, the recovery of contexts  *)
(* that older releases misrouted, and the legacy in-process runner are     *)
(* left out.                                                               *)
(***************************************************************************)
EXTENDS Integers, FiniteSets

CONSTANTS
    Modes,          \* the intents a message may be given
    MaxRequests,    \* bound: messages (runs) of the thread
    MaxAnswers,     \* bound: answers people give in the thread
    MaxWorkflows,   \* bound: hardware workflows started
    NSteps,         \* canonical pipeline steps
    Outages,        \* may Temporal be unreachable for a status query or start?
    Cancels,        \* may a person cancel a run?
    Crashes         \* where the process may stop: "node" (in a node, no
                    \* effect yet), "started" (a workflow started from nothing,
                    \* its reference unsaved), "resumed" (the same, in a run
                    \* that resumes a checkpoint), "asked" (an interrupt is
                    \* pending)

VARIABLES
    run,      \* the run of the current request: id, phase, answer in hand
    g,        \* the saved state of the graph
    pend,     \* reference to a started workflow, not saved yet (volatile)
    disk,     \* per workspace: the pipeline checkpoint and its companions
    wf,       \* the hardware workflows Temporal knows, by identity
    answers,  \* answers given so far
    stray     \* interrupts resumed by something that was not their answer

vars == <<run, g, pend, disk, wf, answers, stray>>

Requests == 1 .. MaxRequests
Tasks == {"build", "review", "research", "parts"}
MaxReviewRepairs == 2                       \* max_attempts of the receipt

NoId == <<0, 0, 0, 0>>
NoRef == [st |-> "none", req |-> 0, ws |-> 0, id |-> NoId, cont |-> 0]
NoHw == [known |-> FALSE, ready |-> FALSE, cad |-> FALSE, complete |-> FALSE,
         human |-> FALSE, ended |-> FALSE, gen |-> 0]
ErrorHw == [NoHw EXCEPT !.known = TRUE]
NoReview == [st |-> "none", gen |-> 0]
NoTicket == [st |-> "none", attempt |-> 0, step |-> 0]
EmptyDisk == [gen |-> 0, done |-> 0, result |-> "none", budget |-> FALSE,
              receipt |-> [attempt |-> 0, step |-> 0, gen |-> 0]]

Init ==
    /\ run = [id |-> 0, phase |-> "done", ans |-> "none", cancelling |-> FALSE]
    /\ g = [next |-> "end", mode |-> "none", task |-> "none", ws |-> 0,
            inc |-> FALSE, open |-> FALSE, perr |-> FALSE,
            stale |-> FALSE, answered |-> FALSE, asked |-> FALSE, arch |-> "none",
            parts |-> FALSE, hw |-> NoHw, review |-> NoReview,
            ticket |-> NoTicket, ref |-> NoRef, overall |-> "none"]
    /\ pend = NoRef /\ answers = 0 /\ stray = FALSE
    /\ disk = [w \in Requests |-> EmptyDisk]
    /\ wf = [i \in {} |-> 0]

Running(i) == wf[i].st = "running"
Live == {i \in DOMAIN wf : Running(i) /\ ~wf[i].cancel}

----------------------------------------------------------------------------
(* Requests, take-over and cancellation (service.py)                       *)

Active == run.phase = "active"

\* _handle_input for a new request: the message answers an interrupt that is
\* still pending, whatever it says; otherwise the graph starts at the top.
Submit ==
    /\ run.phase \in {"done", "cancelled", "failed"} /\ run.id < MaxRequests
    /\ run' = [id |-> run.id + 1, phase |-> "active", cancelling |-> FALSE,
               ans |-> IF g.asked THEN "text" ELSE "none"]
    /\ g' = IF g.asked THEN g ELSE [g EXCEPT !.next = "supervisor"]
    /\ UNCHANGED <<pend, disk, wf, answers, stray>>

\* The process stops; the run's lease expires.
Window ==
    IF pend # NoRef THEN IF g.inc \/ g.ticket.st = "requested" THEN "resumed" ELSE "started"
    ELSE IF g.asked THEN "asked"
    ELSE "node"
Crash ==
    /\ Active /\ Window \in Crashes
    /\ run' = [run EXCEPT !.phase = "down", !.ans = "none"]
    /\ pend' = NoRef
    /\ UNCHANGED <<g, disk, wf, answers, stray>>

\* The same request is submitted again and takes the run over.  _handle_input
\* continues the saved state, or hands the request's message to a pending
\* interrupt.  The replacement process may be a newer release, to which the
\* questions of the saved state no longer apply.
TakeOver ==
    /\ run.phase = "down"
    /\ run' = [run EXCEPT !.phase = "active",
                          !.ans = IF g.asked THEN "text" ELSE "none"]
    /\ stray' = (stray \/ g.asked)
    /\ \E stale \in {FALSE, g.open /\ g.next = "intake"} : g' = [g EXCEPT !.stale = stale]
    /\ UNCHANGED <<pend, disk, wf, answers>>

\* _produce_stream_events_impl: the segment ended in an interrupt.
PauseForInput ==
    /\ Active /\ g.asked /\ run.ans = "none" /\ ~g.stale
    /\ run' = [run EXCEPT !.phase = "waiting"]
    /\ UNCHANGED <<g, pend, disk, wf, answers, stray>>

\* resume_interaction: a person answers; "pick" is one of the offered options
\* (or a complete structured answer), "text" is anything else.
Respond(a) ==
    /\ run.phase = "waiting" /\ answers < MaxAnswers
    /\ run' = [run EXCEPT !.phase = "active", !.ans = a]
    /\ answers' = answers + 1
    /\ UNCHANGED <<g, pend, disk, wf, stray>>

\* cancel_run, first half: signal the workflow named after the request.  A
\* workflow that is not there, or has ended, is no error.
RequestWorkflow(r) == <<r, 0, 0, 0>>
CancelSignal ==
    /\ Cancels /\ run.phase \in {"active", "waiting", "down"} /\ ~run.cancelling
    /\ run' = [run EXCEPT !.cancelling = TRUE]
    /\ wf' = [i \in DOMAIN wf |->
                IF i = RequestWorkflow(run.id) /\ Running(i)
                THEN [wf[i] EXCEPT !.cancel = TRUE] ELSE wf[i]]
    /\ UNCHANGED <<g, pend, disk, answers, stray>>

\* cancel_run, second half: the registry ends the run and its task.
CancelRun ==
    /\ run.cancelling /\ run.phase \in {"active", "waiting", "down"}
    /\ run' = [run EXCEPT !.phase = "cancelled", !.ans = "none"]
    /\ pend' = NoRef
    /\ UNCHANGED <<g, disk, wf, answers, stray>>

\* A node starts; a pending interrupt has to be answered first.
At(node) == Active /\ g.next = node /\ ~g.asked /\ pend = NoRef
Save(s) == g' = s
Raise == run' = [run EXCEPT !.phase = "failed", !.ans = "none"]
End(s) == [s EXCEPT !.next = "end"]

----------------------------------------------------------------------------
(* Where a design continues (_release_repair_resume_step)                  *)

\* valid_review_resume: the receipt asks for this step and pipeline_state.json
\* still is the one it was written against.
ValidReviewResume(s) ==
    LET d == disk[s.ws] IN
    d.receipt.attempt > 0 /\ d.receipt.step = s.ticket.step /\ d.receipt.gen = d.gen

\* checkpoint_resume_step, and the caller's last resort; 0 is None.
CheckpointResumeStep(d, hw) ==
    IF d.gen = 0 \/ d.result = "ready" THEN 0
    ELSE IF d.done < NSteps THEN d.done + 1
    ELSE IF d.result = "issues" \/ (hw.known /\ ~hw.ready) THEN NSteps
    ELSE 0

ReleaseRepairResumeStep(s, allow) ==
    IF s.ticket.st = "requested" /\ ValidReviewResume(s) THEN s.ticket.step
    ELSE IF ~s.inc /\ ~allow THEN 0
    ELSE CheckpointResumeStep(disk[s.ws], s.hw)

----------------------------------------------------------------------------
(* Supervisor and intake                                                   *)

\* _after_initialize
MutAfterInitialize(s) ==
    IF s.mode = "build" /\ s.inc THEN "dispatch"
    ELSE IF s.open THEN "intake"
    ELSE CASE s.mode \in {"build", "research"} -> "architect"
           [] s.mode = "parts" -> "parts"
           [] s.mode = "review" -> "reviewer"
           [] OTHER -> "intake"
AfterInitialize(s) ==
    IF s.mode = "build" /\ s.inc /\ ReleaseRepairResumeStep(s, FALSE) # 0
      THEN "dispatch"
    ELSE IF s.open THEN "intake"
    ELSE IF s.mode = "build" /\ s.inc /\ s.arch \in {"ok", "partial"} /\ s.parts
      THEN "dispatch"
    ELSE CASE s.mode \in {"build", "research"} -> "architect"
           [] s.mode = "parts" -> "parts"
           [] s.mode = "review" -> "reviewer"
           [] OTHER -> "intake"

\* initialize, once the intent m, its relation to the context r, the profile
\* gate's verdict p and the presence of open decisions o are known.
Initialized(m, r, p, o) ==
    LET active == g.ws # 0
        mode == IF p THEN "clarify" ELSE m
        inc == mode = "build" /\ r = "resume" /\ active
        keep == mode = "diagnose" \/ inc
        s == [g EXCEPT
                !.mode = mode, !.task = IF mode \in Tasks THEN mode ELSE @,
                !.ws = IF r # "new" /\ active THEN @ ELSE run.id,
                !.inc = inc, !.perr = p, !.open = o /\ ~p,
                !.stale = FALSE, !.answered = FALSE, !.overall = "none",
                !.arch = IF keep THEN @ ELSE "none",
                !.parts = keep /\ @,
                !.hw = IF keep THEN @ ELSE NoHw,
                !.ref = IF keep THEN @ ELSE NoRef,
                !.review = IF keep THEN @ ELSE NoReview]
    IN  [s EXCEPT !.next = AfterInitialize(s)]

\* An answered clarification keeps the task it interrupted; other messages
\* are classified, against the context when there is one.
Initialize ==
    /\ At("supervisor")
    /\ \E m \in Modes, r \in {"new", "resume", "amend"}, p, o \in BOOLEAN :
         /\ g.answered /\ g.task \in Tasks => m = g.task /\ r = "resume"
         /\ g.ws = 0 => r = "new"
         /\ p => m = "build"
         /\ o => m \in {"build", "clarify"}
         /\ Save(Initialized(m, r, p, o))
    /\ UNCHANGED <<run, pend, disk, wf, answers, stray>>

\* interrupt(): the question is part of the saved state.
Ask == Save([g EXCEPT !.asked = TRUE])

\* intake_phase: questions that no longer apply are dropped, with the answer
\* to them; others are put to the user; diagnosis, small talk and a profile
\* error end the turn with a message.
IntakeDiscards ==
    /\ Active /\ g.next = "intake" /\ g.stale
    /\ Save([g EXCEPT !.asked = FALSE, !.open = FALSE, !.answered = TRUE,
                      !.next = "supervisor"])
    /\ run' = [run EXCEPT !.ans = "none"]
    /\ UNCHANGED <<pend, disk, wf, answers, stray>>

IntakeReplies ==
    /\ At("intake") /\ ~g.open
    /\ g.mode \in {"diagnose", "unsupported"} \/ g.perr
    /\ Save(End(g))
    /\ run' = [run EXCEPT !.phase = "done"]
    /\ UNCHANGED <<pend, disk, wf, answers, stray>>

IntakeAsks ==
    /\ At("intake") /\ ~g.stale
    /\ g.open \/ ~(g.mode \in {"diagnose", "unsupported"} \/ g.perr)
    /\ Ask
    /\ UNCHANGED <<run, pend, disk, wf, answers, stray>>

\* The node runs again with the answer.  Offered decisions need a structured
\* answer (parse_resolutions raises otherwise); a free clarification takes any
\* text.
IntakeAnswered ==
    /\ Active /\ g.next = "intake" /\ g.asked /\ ~g.stale /\ run.ans # "none"
    /\ \/ /\ g.open /\ run.ans = "text"
          /\ Raise
          /\ UNCHANGED g
       \/ /\ ~(g.open /\ run.ans = "text")
          /\ Save([g EXCEPT !.asked = FALSE, !.open = FALSE, !.answered = TRUE,
                            !.next = "supervisor"])
          /\ run' = [run EXCEPT !.ans = "none"]
    /\ UNCHANGED <<pend, disk, wf, answers, stray>>

----------------------------------------------------------------------------
(* Architect, specialists and parts                                        *)

\* architect_phase and _after_architect.
ArchitectPhase ==
    /\ At("architect")
    /\ \E a \in {"ok", "partial", "blocked"} :
         Save([g EXCEPT !.arch = a,
                        !.next = IF g.mode = "build" /\ a # "blocked"
                                 THEN "specialists" ELSE "final"])
    /\ UNCHANGED <<run, pend, disk, wf, answers, stray>>

\* specialist_consultation_phase: advice, which blocks nothing; absent
\* specialists are skipped the same way.
SpecialistPhase ==
    /\ At("specialists")
    /\ Save([g EXCEPT !.next = "parts"])
    /\ UNCHANGED <<run, pend, disk, wf, answers, stray>>

\* parts_phase and _after_parts: ok, partial and unavailable all go on.
PartsPhase ==
    /\ At("parts")
    /\ Save([g EXCEPT !.parts = TRUE,
                      !.next = IF g.mode = "build" THEN "dispatch" ELSE "final"])
    /\ UNCHANGED <<run, pend, disk, wf, answers, stray>>

----------------------------------------------------------------------------
(* The hardware engineer: dispatch and wait                                *)

Restartable == {"failed", "not_found"}

\* What hardware_workflow_execution_status may say of a workflow.
ExecutionStatus(i) ==
    (IF Outages THEN {"unknown"} ELSE {})
      \cup {IF i \in DOMAIN wf THEN wf[i].st ELSE "not_found"}

MatchingDispatch ==
    /\ g.ref.st \in {"started", "attached", "wait_error", "completed"}
    /\ g.ref.req = run.id /\ g.ref.ws = g.ws

\* The step a terminal workflow is continued from, 0 to attach to it.
RuntimeResumeStep(status) ==
    IF status \in Restartable
       \/ (status = "completed" /\ (g.inc \/ g.ticket.st = "requested"))
    THEN ReleaseRepairResumeStep(g, TRUE) ELSE 0

\* hardware_dispatch_phase attaches to the workflow of its saved reference.
AttachExisting ==
    /\ At("dispatch") /\ MatchingDispatch
    /\ \E status \in ExecutionStatus(g.ref.id) : RuntimeResumeStep(status) = 0
    /\ Save([g EXCEPT !.next = "wait"])
    /\ UNCHANGED <<run, pend, disk, wf, answers, stray>>

\* The identity and the first step of the workflow to start: a continuation of
\* the saved one, a review repair, or the request's own workflow.
ReviewOrigin == IF g.ticket.st = "requested" THEN g.ticket.attempt ELSE 0

Continuation(step) ==
    [id |-> <<run.id, ReviewOrigin, g.ref.cont + 1, step>>,
     step |-> step, cont |-> g.ref.cont + 1]

MutFirstDispatch ==
    [id |-> <<run.id, 0, Cardinality(DOMAIN wf), 0>>,
     step |-> ReleaseRepairResumeStep(g, FALSE), cont |-> 0]
FirstDispatch ==
    LET step == ReleaseRepairResumeStep(g, FALSE) IN
    [id |-> IF step # 0 /\ ReviewOrigin # 0
            THEN <<run.id, ReviewOrigin, 0, 0>> ELSE RequestWorkflow(run.id),
     step |-> step, cont |-> 0]

DispatchTargets ==
    IF MatchingDispatch
    THEN {Continuation(RuntimeResumeStep(status)) :
            status \in {t \in ExecutionStatus(g.ref.id) : RuntimeResumeStep(t) # 0}}
    ELSE {FirstDispatch}

RefTo(t, st) == [st |-> st, req |-> run.id, ws |-> g.ws, id |-> t.id, cont |-> t.cont]
DispatchError == [NoRef EXCEPT !.st = "dispatch_error", !.ws = g.ws]

\* dispatch_hardware_workflow: start, refuse a known identity with another
\* input, or attach to it.
MutStartWorkflow ==
    /\ At("dispatch")
    /\ \E t \in DispatchTargets :
         \/ /\ t.id \notin DOMAIN wf
            /\ Cardinality(DOMAIN wf) < MaxWorkflows
            /\ wf' = [i \in DOMAIN wf \cup {t.id} |->
                        IF i \in DOMAIN wf THEN wf[i]
                        ELSE [st |-> "running", cancel |-> FALSE, ws |-> g.ws,
                              step |-> t.step, fresh |-> TRUE, res |-> ErrorHw]]
            /\ pend' = RefTo(t, "started")
         \/ /\ t.id \in DOMAIN wf
            /\ pend' = DispatchError
            /\ UNCHANGED wf
    /\ UNCHANGED <<run, g, disk, answers, stray>>
StartWorkflow ==
    /\ At("dispatch")
    /\ \E t \in DispatchTargets :
         \/ /\ t.id \notin DOMAIN wf
            /\ Cardinality(DOMAIN wf) < MaxWorkflows
            /\ wf' = [i \in DOMAIN wf \cup {t.id} |->
                        IF i \in DOMAIN wf THEN wf[i]
                        ELSE [st |-> "running", cancel |-> FALSE, ws |-> g.ws,
                              step |-> t.step, fresh |-> TRUE, res |-> ErrorHw]]
            /\ pend' = RefTo(t, "started")
         \/ /\ t.id \in DOMAIN wf
            /\ pend' = IF wf[t.id].step = t.step /\ wf[t.id].ws = g.ws
                       THEN RefTo(t, "attached") ELSE DispatchError
            /\ UNCHANGED wf
         \/ /\ Outages
            /\ pend' = DispatchError
            /\ UNCHANGED wf
    /\ UNCHANGED <<run, g, disk, answers, stray>>

\* The node returns and its reference is saved.
SaveReference ==
    /\ Active /\ pend # NoRef
    /\ Save([g EXCEPT !.ref = pend, !.next = "wait"])
    /\ pend' = NoRef
    /\ UNCHANGED <<run, disk, wf, answers, stray>>

\* _hardware_human_request
HumanRequest(hw) == hw.human /\ ~hw.ended /\ ~hw.ready

\* _after_hardware
AfterHardware(hw) ==
    IF HumanRequest(hw) THEN "evidence" ELSE IF hw.cad THEN "reviewer" ELSE "final"

\* _hardware_result_update: the new result, and no review of it yet.
HardwareResultUpdate(hw) ==
    [g EXCEPT !.hw = hw, !.review = NoReview, !.next = AfterHardware(hw)]

\* hardware_wait_phase: nothing was started, the workflow failed or is out of
\* reach, or its result arrives.
MutHardwareWaitPhase ==
    /\ At("wait")
    /\ \/ /\ g.ref.st = "dispatch_error"
          /\ Save(HardwareResultUpdate(ErrorHw))
       \/ /\ g.ref.st # "dispatch_error" /\ (wf[g.ref.id].st = "failed" \/ Outages)
          /\ Save([HardwareResultUpdate(g.hw) EXCEPT !.ref.st = "wait_error"])
       \/ /\ g.ref.st # "dispatch_error" /\ wf[g.ref.id].st = "completed"
          /\ Save([HardwareResultUpdate(wf[g.ref.id].res) EXCEPT !.ref.st = "completed"])
    /\ UNCHANGED <<run, pend, disk, wf, answers, stray>>
HardwareWaitPhase ==
    /\ At("wait")
    /\ \/ /\ g.ref.st = "dispatch_error"
          /\ Save(HardwareResultUpdate(ErrorHw))
       \/ /\ g.ref.st # "dispatch_error" /\ (wf[g.ref.id].st = "failed" \/ Outages)
          /\ Save([HardwareResultUpdate(ErrorHw) EXCEPT !.ref.st = "wait_error"])
       \/ /\ g.ref.st # "dispatch_error" /\ wf[g.ref.id].st = "completed"
          /\ Save([HardwareResultUpdate(wf[g.ref.id].res) EXCEPT !.ref.st = "completed"])
    /\ UNCHANGED <<run, pend, disk, wf, answers, stray>>

----------------------------------------------------------------------------
(* What a workflow does to its workspace and its result                    *)

\* The first activity of a resumed workflow invalidates what follows its step;
\* each activity completes one step more.
WorkflowStep(i) ==
    /\ Running(i)
    /\ LET w == wf[i]
           d == disk[w.ws]
           from == IF w.fresh /\ w.step # 0 THEN w.step - 1 ELSE d.done
       IN /\ w.fresh \/ from < NSteps
          /\ disk' = [disk EXCEPT ![w.ws].gen = @ + 1,
                                  ![w.ws].done = IF from < NSteps THEN from + 1 ELSE from]
          /\ wf' = [wf EXCEPT ![i].fresh = FALSE]
    /\ UNCHANGED <<run, g, pend, answers, stray>>

\* It ends with the result its last step wrote (release ready only when every
\* step is done), with a step that stopped it, or cancelled.  The validated
\* result is complete when every step is done.
WorkflowCompletes(i) ==
    /\ Running(i)
    /\ \E ready, cad, human, budget \in BOOLEAN :
         LET w == wf[i]
             d == disk[w.ws]
             all == d.done = NSteps
         IN /\ ready => cad /\ all /\ ~human /\ ~w.cancel
            /\ w.fresh => w.cancel
            /\ human => ~w.cancel
            /\ budget => human
            /\ wf' = [wf EXCEPT ![i].st = "completed", ![i].fresh = FALSE,
                                ![i].res = [known |-> TRUE, ready |-> ready, cad |-> cad,
                                            complete |-> all /\ cad, human |-> human,
                                            ended |-> FALSE, gen |-> d.gen]]
            /\ disk' = IF w.cancel THEN disk
                       ELSE [disk EXCEPT ![w.ws].result = IF ready THEN "ready" ELSE "issues",
                                         ![w.ws].budget = budget]
    /\ UNCHANGED <<run, g, pend, answers, stray>>

WorkflowFails(i) ==
    /\ Running(i)
    /\ wf' = [wf EXCEPT ![i].st = "failed", ![i].fresh = FALSE]
    /\ UNCHANGED <<run, g, pend, disk, answers, stray>>

----------------------------------------------------------------------------
(* Evidence, review and the report                                         *)

EvidenceAsks ==
    /\ At("evidence")
    /\ Ask
    /\ UNCHANGED <<run, pend, disk, wf, answers, stray>>

\* hardware_evidence_input.  A budget that ran out needs consent: one option
\* approves another round, the other finishes with the remaining issues, and
\* anything else asks again.  Otherwise any answer continues.
EvidenceAnswered ==
    /\ Active /\ g.next = "evidence" /\ g.asked /\ run.ans # "none"
    /\ run' = [run EXCEPT !.ans = "none"]
    /\ LET go == [g EXCEPT !.asked = FALSE, !.inc = TRUE, !.next = "dispatch"]
           finish == [g EXCEPT !.asked = FALSE, !.inc = FALSE, !.next = "final",
                               !.hw.ended = TRUE, !.hw.complete = TRUE]
       IN \/ ~disk[g.ws].budget /\ Save(go)
          \/ disk[g.ws].budget /\ run.ans = "pick" /\ (Save(go) \/ Save(finish))
          \/ disk[g.ws].budget /\ run.ans = "text" /\ UNCHANGED g
    /\ UNCHANGED <<pend, disk, wf, answers, stray>>

\* prepare_review_repair for a blocked review: nothing to act on, no attempt
\* left (or the same findings again), or a receipt bound to the checkpoint.
MutPrepareReviewRepair(d) ==
    {[ticket |-> [NoTicket EXCEPT !.st = "unavailable"], d |-> d]}
      \cup {[ticket |-> [st |-> "requested", attempt |-> 1, step |-> o],
             d |-> [d EXCEPT !.receipt = [attempt |-> 1, step |-> o, gen |-> d.gen]]] :
              o \in {o \in 1 .. NSteps : d.gen > 0}}
MutPrepareReviewRepairOnceMore(d) ==
    {[ticket |-> [NoTicket EXCEPT !.st = "unavailable"], d |-> d]}
      \cup {[ticket |-> [st |-> "requested", attempt |-> d.receipt.attempt + 1, step |-> o],
             d |-> [d EXCEPT !.receipt = [attempt |-> d.receipt.attempt + 1,
                                          step |-> o, gen |-> d.gen]]] :
              o \in {o \in 1 .. NSteps :
                       d.gen > 0 /\ d.receipt.attempt <= MaxReviewRepairs}}
PrepareReviewRepair(d) ==
    {[ticket |-> [NoTicket EXCEPT !.st = "unavailable"], d |-> d]}
      \cup {[ticket |-> [st |-> "requested", attempt |-> d.receipt.attempt + 1, step |-> o],
             d |-> [d EXCEPT !.receipt = [attempt |-> d.receipt.attempt + 1,
                                          step |-> o, gen |-> d.gen]]] :
              o \in {o \in 1 .. NSteps :
                       d.gen > 0 /\ d.receipt.attempt < MaxReviewRepairs}}

\* reviewer_phase and _after_review: the verdict on the files as they are now.
\* In a build it is ok only for a result that attests release readiness.
ReviewerPhase ==
    /\ At("reviewer")
    /\ \/ /\ g.mode = "build" => g.hw.ready
          /\ Save([g EXCEPT !.review = [st |-> "ok", gen |-> disk[g.ws].gen],
                            !.ticket = NoTicket, !.next = "final"])
          /\ UNCHANGED disk
       \/ \E p \in IF g.mode = "build" THEN PrepareReviewRepair(disk[g.ws])
                   ELSE {[ticket |-> NoTicket, d |-> disk[g.ws]]} :
            /\ Save([g EXCEPT !.review = [st |-> "blocked", gen |-> disk[g.ws].gen],
                              !.ticket = p.ticket,
                              !.next = IF p.ticket.st = "requested"
                                       THEN "dispatch" ELSE "final"])
            /\ disk' = [disk EXCEPT ![g.ws] = p.d]
    /\ UNCHANGED <<run, pend, wf, answers, stray>>

\* final_report
Overall ==
    IF g.mode # "build" THEN "report"
    ELSE IF g.hw.ready /\ g.review.st = "ok" /\ g.parts /\ g.arch = "ok" THEN "success"
    ELSE IF g.hw.complete THEN "delivered_with_issues" ELSE "execution_blocked"

FinalReport ==
    /\ At("final")
    /\ Save(End([g EXCEPT !.overall = Overall]))
    /\ run' = [run EXCEPT !.phase = "done"]
    /\ UNCHANGED <<pend, disk, wf, answers, stray>>

----------------------------------------------------------------------------
Service ==
    \/ Initialize \/ IntakeDiscards \/ IntakeReplies \/ IntakeAsks
    \/ IntakeAnswered \/ ArchitectPhase \/ SpecialistPhase \/ PartsPhase
    \/ AttachExisting \/ StartWorkflow \/ SaveReference \/ HardwareWaitPhase
    \/ EvidenceAsks \/ EvidenceAnswered \/ ReviewerPhase \/ FinalReport
    \/ PauseForInput

Workflow(i) == WorkflowStep(i) \/ WorkflowCompletes(i) \/ WorkflowFails(i)

Next ==
    \/ Submit \/ Crash \/ TakeOver \/ CancelSignal \/ CancelRun \/ Service
    \/ \E a \in {"pick", "text"} : Respond(a)
    \/ \E i \in DOMAIN wf : Workflow(i)

Spec == Init /\ [][Next]_vars

\* The event loop runs the graph's next step, a restarted request takes its
\* run over, and a workflow makes progress until it ends: its activities have
\* timeouts and the workflow a deadline.
Ids == Requests \X (0 .. MaxReviewRepairs) \X (0 .. MaxWorkflows) \X (0 .. NSteps)
Fairness ==
    /\ WF_vars(Service) /\ WF_vars(TakeOver)
    /\ WF_vars(\E i \in DOMAIN wf : Workflow(i))
FairSpec == Spec /\ Fairness

----------------------------------------------------------------------------
TypeOK ==
    /\ run \in [id : 0 .. MaxRequests, cancelling : BOOLEAN,
                phase : {"active", "waiting", "down", "done", "cancelled", "failed"},
                ans : {"none", "pick", "text"}]
    /\ g.next \in {"supervisor", "intake", "architect", "specialists", "parts",
                   "dispatch", "wait", "evidence", "reviewer", "final", "end"}
    /\ g.ws \in 0 .. run.id
    /\ g.asked => g.next \in {"intake", "evidence"}
    /\ g.ref.id \in DOMAIN wf \cup {NoId} /\ pend.id \in DOMAIN wf \cup {NoId}
    /\ answers \in 0 .. MaxAnswers
    /\ \A i \in DOMAIN wf : i \in Ids /\ wf[i].ws \in Requests
    /\ \A w \in Requests : disk[w].done \in 0 .. NSteps
                            /\ disk[w].receipt.attempt \in 0 .. MaxReviewRepairs

\* A build is reported as a success only for the design that is on disk: the
\* hardware result, the independent review and the workspace are of one
\* generation, and nothing is still writing it.
SuccessIsCurrent ==
    g.overall = "success" =>
        /\ g.hw.ready /\ g.review.st = "ok" /\ g.arch = "ok"
        /\ g.hw.gen = disk[g.ws].gen /\ g.review.gen = disk[g.ws].gen
        /\ \A i \in Live : wf[i].ws # g.ws

\* A workspace is worked on by one workflow that has not been asked to stop.
OneLiveWorkflow ==
    \A i, j \in Live : wf[i].ws = wf[j].ws => i = j

\* While the graph waits for a workflow it holds the reference to it: whatever
\* is running for the run is what it waits for.
ReplayAttaches ==
    Active /\ g.next = "wait" =>
        \A i \in Live : i[1] = run.id => g.ref.id = i

\* Cancelling a run signals whatever hardware workflow is at work for it.
CancelReachesWorkflow ==
    [][run'.cancelling /\ ~run.cancelling =>
         \A i \in Live : i[1] = run.id => wf'[i].cancel]_vars

\* An interrupt is resumed by an answer given to it.
AnswerIsUsers == ~stray

\* A workflow that starts from nothing does so on grounded architecture, after
\* the parts and with no decision of the user outstanding.
GroundedStart ==
    \A i \in DOMAIN wf' \ DOMAIN wf :
        wf'[i].step = 0 => g.arch \in {"ok", "partial"} /\ g.parts /\ ~g.open
FreshStartGrounded == [][GroundedStart]_vars

\* The graph comes to rest by itself: review repairs and continuations run
\* out, and only a person's answer, or a process that keeps stopping, keeps a
\* turn going.
TurnSettles ==
    <>[](run.phase # "down") => []<>(run.phase \notin {"active", "down"})
=============================================================================
