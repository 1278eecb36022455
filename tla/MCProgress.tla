----------------------------- MODULE MCProgress -----------------------------
(***************************************************************************)
(* Liveness of the services: tasks, streams, workflows, the agent graph,   *)
(* the external repair agent and the audit relay come to an end.           *)
(***************************************************************************)
EXTENDS HardwareWorkflow, Integers, Sequences, FiniteSets, TLC

VARIABLES
  part,  \* the component whose behaviour this is
  clock, state, owner, fence, lease, emitted, failed, runId, interaction,
  events, keys, answered, active, running, metrics, task, instance, faults,
  asked, sub, received, run, g, pend, spaces, wf, answers, stray, caller,
  improved, pool, worker, starts, charged, consumed, up, outbox, added,
  given, unclaimed, topic, relay, failures

Registry == INSTANCE RedisRunRegistry WITH
  Runs <- {"r1"}, NoInteraction <- "none", NoInstance <- "none",
  MaxConcurrent <- 1, MaxQueued <- 0, StreamRuns <- {},
  Instances <- {"i1", "i2"}, Interactions <- {}, Responses <- {},
  Lease <- 2, MaxClock <- 4, MaxFence <- 3, MaxEvents <- 12,
  HeartbeatEvery <- 1, MaxData <- 0, MaxFaults <- 1, LoopFaults <- TRUE,
  Prompt <- TRUE, Horizon <- 0, status <- state

Stream == INSTANCE RunEventStream WITH
  Runs <- {"r1"}, NoInteraction <- "none", NoInstance <- "none",
  MaxConcurrent <- 1, MaxQueued <- 0, StreamRuns <- {"r1"},
  Instances <- {"i1"}, Interactions <- {"n1"}, Responses <- {"p1"},
  Lease <- 1, MaxClock <- 0, MaxFence <- 2, MaxEvents <- 1, Buffer <- 1,
  ReadCount <- 2, status <- state

Graph == INSTANCE AgentGraph WITH
  Modes <- {"build", "clarify"}, MaxRequests <- 1, MaxAnswers <- 1,
  MaxWorkflows <- 4, NSteps <- 2, Outages <- FALSE, Cancels <- FALSE,
  Crashes <- {"node", "started"}, disk <- spaces

External == INSTANCE ExternalRepair WITH
  Launches <- 2, Estimate <- 1, Limit <- 2, Crashes <- 1, Cancels <- 1

Audit == INSTANCE AuditRelay WITH
  Relays <- {"a", "b"}, Entries <- 2, Malformed <- {1}, Batch <- 1,
  MaxFaults <- 1, stream <- outbox, faults <- failures, idle <- unclaimed

(* The initial state chooses the component; the variables it does not have *)
(* stay blank.                                                             *)
SuiteInit ==
  \/ /\ part = "workflow" /\ Init
     /\ clock = 0 /\ state = 0 /\ owner = 0 /\ fence = 0 /\ lease = 0
     /\ emitted = 0 /\ failed = 0 /\ runId = 0 /\ interaction = 0
     /\ events = 0 /\ keys = 0 /\ answered = 0 /\ active = 0
     /\ running = 0 /\ metrics = 0 /\ task = 0 /\ instance = 0
     /\ faults = 0 /\ asked = 0 /\ sub = 0 /\ received = 0 /\ run = 0
     /\ g = 0 /\ pend = 0 /\ spaces = 0 /\ wf = 0 /\ answers = 0
     /\ stray = 0 /\ caller = 0 /\ improved = 0 /\ pool = 0 /\ worker = 0
     /\ starts = 0 /\ charged = 0 /\ consumed = 0 /\ up = 0 /\ outbox = 0
     /\ added = 0 /\ given = 0 /\ unclaimed = 0 /\ topic = 0 /\ relay = 0
     /\ failures = 0
  \/ /\ part = "registry" /\ Registry!Init /\ Init /\ start = 0 /\ paused = FALSE
     /\ sub = 0 /\ received = 0 /\ run = 0 /\ g = 0 /\ pend = 0
     /\ spaces = 0 /\ wf = 0 /\ answers = 0 /\ stray = 0 /\ caller = 0
     /\ improved = 0 /\ pool = 0 /\ worker = 0 /\ starts = 0
     /\ charged = 0 /\ consumed = 0 /\ up = 0 /\ outbox = 0 /\ added = 0
     /\ given = 0 /\ unclaimed = 0 /\ topic = 0 /\ relay = 0 /\ failures = 0
  \/ /\ part = "stream" /\ Stream!StreamInit /\ Init /\ start = 0 /\ paused = FALSE
     /\ task = 0 /\ instance = 0 /\ faults = 0 /\ asked = 0 /\ run = 0
     /\ g = 0 /\ pend = 0 /\ spaces = 0 /\ wf = 0 /\ answers = 0
     /\ stray = 0 /\ caller = 0 /\ improved = 0 /\ pool = 0 /\ worker = 0
     /\ starts = 0 /\ charged = 0 /\ consumed = 0 /\ up = 0 /\ outbox = 0
     /\ added = 0 /\ given = 0 /\ unclaimed = 0 /\ topic = 0 /\ relay = 0
     /\ failures = 0
  \/ /\ part = "graph" /\ Graph!Init /\ Init /\ start = 0 /\ paused = FALSE
     /\ clock = 0 /\ state = 0 /\ owner = 0 /\ fence = 0 /\ lease = 0
     /\ emitted = 0 /\ failed = 0 /\ runId = 0 /\ interaction = 0
     /\ events = 0 /\ keys = 0 /\ answered = 0 /\ active = 0
     /\ running = 0 /\ metrics = 0 /\ task = 0 /\ instance = 0
     /\ faults = 0 /\ asked = 0 /\ sub = 0 /\ received = 0 /\ caller = 0
     /\ improved = 0 /\ pool = 0 /\ worker = 0 /\ starts = 0
     /\ charged = 0 /\ consumed = 0 /\ up = 0 /\ outbox = 0 /\ added = 0
     /\ given = 0 /\ unclaimed = 0 /\ topic = 0 /\ relay = 0 /\ failures = 0
  \/ /\ part = "external" /\ External!Init /\ Init /\ start = 0 /\ paused = FALSE
     /\ clock = 0 /\ state = 0 /\ owner = 0 /\ fence = 0 /\ lease = 0
     /\ emitted = 0 /\ failed = 0 /\ runId = 0 /\ interaction = 0
     /\ events = 0 /\ keys = 0 /\ answered = 0 /\ active = 0
     /\ running = 0 /\ metrics = 0 /\ instance = 0 /\ asked = 0
     /\ sub = 0 /\ received = 0 /\ run = 0 /\ g = 0 /\ pend = 0
     /\ spaces = 0 /\ wf = 0 /\ answers = 0 /\ stray = 0 /\ outbox = 0
     /\ added = 0 /\ given = 0 /\ unclaimed = 0 /\ topic = 0 /\ relay = 0
     /\ failures = 0
  \/ /\ part = "audit" /\ Audit!Init /\ Init /\ start = 0 /\ paused = FALSE
     /\ clock = 0 /\ state = 0 /\ owner = 0 /\ fence = 0 /\ lease = 0
     /\ emitted = 0 /\ failed = 0 /\ runId = 0 /\ interaction = 0
     /\ events = 0 /\ keys = 0 /\ answered = 0 /\ active = 0
     /\ running = 0 /\ metrics = 0 /\ task = 0 /\ instance = 0
     /\ faults = 0 /\ asked = 0 /\ sub = 0 /\ received = 0 /\ run = 0
     /\ g = 0 /\ spaces = 0 /\ wf = 0 /\ answers = 0 /\ stray = 0
     /\ caller = 0 /\ improved = 0 /\ pool = 0 /\ worker = 0
     /\ starts = 0 /\ charged = 0 /\ consumed = 0 /\ up = 0

SuiteNext ==
  \/ /\ part = "workflow" /\ Next
     /\ UNCHANGED <<part, clock, state, owner, fence, lease, emitted,
                     failed, runId, interaction, events, keys, answered,
                     active, running, metrics, task, instance, faults,
                     asked, sub, received, run, g, pend, spaces, wf,
                     answers, stray, caller, improved, pool, worker, starts,
                     charged, consumed, up, outbox, added, given, unclaimed,
                     topic, relay, failures>>
  \/ /\ part = "registry" /\ Registry!Next
     /\ UNCHANGED <<part, vars, sub, received, run, g, pend, spaces, wf,
                     answers, stray, caller, improved, pool, worker, starts,
                     charged, consumed, up, outbox, added, given, unclaimed,
                     topic, relay, failures>>
  \/ /\ part = "stream" /\ Stream!StreamNext
     /\ UNCHANGED <<part, vars, task, instance, faults, asked, run, g,
                     pend, spaces, wf, answers, stray, caller, improved,
                     pool, worker, starts, charged, consumed, up, outbox,
                     added, given, unclaimed, topic, relay, failures>>
  \/ /\ part = "graph" /\ Graph!Next
     /\ UNCHANGED <<part, vars, clock, state, owner, fence, lease, emitted,
                     failed, runId, interaction, events, keys, answered,
                     active, running, metrics, task, instance, faults,
                     asked, sub, received, caller, improved, pool, worker,
                     starts, charged, consumed, up, outbox, added, given,
                     unclaimed, topic, relay, failures>>
  \/ /\ part = "external" /\ External!Next
     /\ UNCHANGED <<part, vars, clock, state, owner, fence, lease, emitted,
                     failed, runId, interaction, events, keys, answered,
                     active, running, metrics, instance, asked, sub,
                     received, run, g, pend, spaces, wf, answers, stray,
                     outbox, added, given, unclaimed, topic, relay, failures>>
  \/ /\ part = "audit" /\ Audit!Next
     /\ UNCHANGED <<part, vars, clock, state, owner, fence, lease, emitted,
                     failed, runId, interaction, events, keys, answered,
                     active, running, metrics, task, instance, faults,
                     asked, sub, received, run, g, spaces, wf, answers,
                     stray, caller, improved, pool, worker, starts, charged,
                     consumed, up>>

suiteVars ==
  <<part, vars, clock, state, owner, fence, lease, emitted, failed, runId,
    interaction, events, keys, answered, active, running, metrics, task,
    instance, faults, asked, sub, received, run, g, pend, spaces, wf,
    answers, stray, caller, improved, pool, worker, starts, charged,
    consumed, up, outbox, added, given, unclaimed, topic, relay, failures>>

SuiteSpec == SuiteInit /\ [][SuiteNext]_suiteVars

registryVars == Registry!vars
streamVars == Stream!streamingVars
graphVars == Graph!vars
externalVars == External!vars
auditVars == Audit!vars

\* Each component's own fairness; see its module.
SuiteFair ==
  /\ SuiteSpec
  /\ WF_vars(part = "workflow" /\ Workflow)
  /\ WF_vars(part = "workflow" /\ AttemptBegins)
  /\ WF_vars(part = "workflow" /\ CancelQueued)
  /\ WF_vars(part = "workflow" /\ KillChild)
  /\ \A k \in 1..3 : WF_registryVars(part = "registry" /\ Registry!Execute("r1", k))
  /\ \A k \in 1..3 : WF_registryVars(part = "registry" /\ Registry!Loop("r1", k))
  /\ WF_registryVars(part = "registry" /\ \E i \in {"i1", "i2"} : Registry!Start("r1", i))
  /\ WF_registryVars(part = "registry" /\ Registry!Tick)
  /\ WF_streamVars(part = "stream" /\ Stream!Follow("r1"))
  /\ WF_graphVars(part = "graph" /\ Graph!Service)
  /\ WF_graphVars(part = "graph" /\ Graph!TakeOver)
  /\ WF_graphVars(part = "graph" /\ \E i \in DOMAIN wf : Graph!Workflow(i))
  /\ WF_externalVars(part = "external" /\ External!StartProcess)
  /\ WF_externalVars(part = "external" /\ External!ProcessFails)
  /\ WF_externalVars(part = "external" /\ External!Lifespan)
  /\ WF_auditVars(part = "audit" /\ Audit!Time)
  /\ \A c \in {"a", "b"} : WF_auditVars(part = "audit" /\ Audit!Step(c))
-----------------------------------------------------------------------------
Following ==
  state["r1"] \in Stream!Terminal /\ sub["r1"].pc \in {"poll", "read", "idle", "deliver"}
Unsettled ==
  CASE part = "registry" -> state["r1"] \in Registry!Pending /\ ~(clock = 4 /\ lease["r1"] > clock)
    [] part = "stream"   -> Following
    [] part = "workflow" -> cancel /\ pc # "ended"
    [] part = "external" -> \E k \in 1..2 : task[k] \in External!Active
    [] part = "audit"    -> ~ outbox \subseteq {1}
    [] OTHER             -> FALSE

(* A run that was accepted ends or waits for its user, although processes  *)
(* stop, calls fail and a lease loop is lost; a subscription to an ended   *)
(* run ends, with a trimmed stream too; a cancelled workflow ends, paused  *)
(* or not; the external agent's task reaches a terminal state through a    *)
(* stop of the service and a cancellation; a valid audit entry reaches     *)
(* Kafka and leaves the outbox.                                            *)
Settles == Unsettled ~> ~Unsettled

(* A workflow that is not left paused ends; the agent graph comes to rest  *)
(* by itself when its process does not keep stopping.                      *)
Disturbed ==
  CASE part = "workflow" -> paused [] part = "graph" -> run.phase = "down" [] OTHER -> FALSE
AtRest ==
  CASE part = "workflow" -> pc = "ended"
    [] part = "graph"    -> run.phase \notin {"active", "down"}
    [] OTHER             -> TRUE
ComesToRest == (<>[]~Disturbed) => []<>AtRest
=============================================================================
