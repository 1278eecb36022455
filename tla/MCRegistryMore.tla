--------------------------- MODULE MCRegistryMore ---------------------------
(***************************************************************************)
(* Further instances of the Redis registry: a run that is granted three    *)
(* times, event loops that stall, two runs that compete for one slot; and  *)
(* a client that follows the event stream of a run.                        *)
(***************************************************************************)
EXTENDS RunEventStream, Integers, FiniteSets, TLC

CONSTANTS
  r0, r1, r2, i1, i2, n1, p1  \* runs, service instances, an interaction, a response

VARIABLES
  part,  \* the component whose behaviour this is
  task, instance, faults, asked

Grants == INSTANCE RedisRunRegistry WITH
  Instances <- {i1, i2}, MaxConcurrent <- 1, Lease <- 2, MaxEvents <- 12,
  HeartbeatEvery <- 1, MaxFaults <- 1, LoopFaults <- FALSE, Runs <- {r1},
  StreamRuns <- {r1}, Interactions <- {}, Responses <- {p1}, MaxQueued <- 0,
  MaxClock <- 2, MaxFence <- 3, MaxData <- 0, Prompt <- TRUE, Horizon <- 2

Stall == INSTANCE RedisRunRegistry WITH
  Instances <- {i1, i2}, MaxConcurrent <- 1, Lease <- 2, MaxEvents <- 12,
  HeartbeatEvery <- 1, MaxFaults <- 1, LoopFaults <- FALSE, Runs <- {r1},
  StreamRuns <- {r1}, Interactions <- {}, Responses <- {p1}, MaxQueued <- 0,
  MaxClock <- 2, MaxFence <- 2, MaxData <- 0, Prompt <- FALSE, Horizon <- 1

Slots == INSTANCE RedisRunRegistry WITH
  Instances <- {i1, i2}, MaxConcurrent <- 1, Lease <- 2, MaxEvents <- 12,
  HeartbeatEvery <- 1, MaxFaults <- 1, LoopFaults <- FALSE,
  Runs <- {r1, r2}, StreamRuns <- {}, Interactions <- {}, Responses <- {},
  MaxQueued <- 1, MaxClock <- 2, MaxFence <- 2, MaxData <- 0,
  Prompt <- TRUE, Horizon <- 0

(* The initial state chooses the component; the variables it does not have *)
(* stay blank, and the client stays away.                                  *)
Away == sub = [r \in Runs |-> Off] /\ received = [r \in Runs |-> <<>>]

SuiteInit ==
  \/ /\ part = "tokens" /\ Grants!Init
     /\ Away
  \/ /\ part = "stall" /\ Stall!Init
     /\ Away
  \/ /\ part = "slots" /\ Slots!Init
     /\ Away
  \/ /\ part = "stream" /\ StreamInit
     /\ task = 0 /\ instance = 0 /\ faults = 0 /\ asked = 0

SuiteNext ==
  \/ /\ part = "tokens" /\ Grants!Next
     /\ UNCHANGED <<part, sub, received>>
  \/ /\ part = "stall" /\ Stall!Next
     /\ UNCHANGED <<part, sub, received>>
  \/ /\ part = "slots" /\ Slots!Next
     /\ UNCHANGED <<part, sub, received>>
  \/ /\ part = "stream" /\ StreamNext
     /\ UNCHANGED <<part, task, instance, faults, asked>>

suiteVars ==
  <<part, clock, status, owner, fence, lease, emitted, failed, runId,
    interaction, events, keys, answered, active, running, metrics, task,
    instance, faults, asked, sub, received>>

SuiteSpec == SuiteInit /\ [][SuiteNext]_suiteVars
-----------------------------------------------------------------------------
\* A part that has only one run or instance has no state to confuse with another.
Symmetry == Permutations({i1, i2}) \cup Permutations({r1, r2})

(* A streamed run that is taken over twice, is cancelled or shut down, or  *)
(* whose event loop stalls past its lease, ends only with a DONE of its    *)
(* last executor in the stream, and only a request ends it as cancelled;   *)
(* two runs that compete for the one running slot over crashes, failed     *)
(* calls and take-overs never have two producers at a time.                *)
TasksSound ==
  /\ part = "tokens" => /\ Grants!TerminalHasDone /\ Grants!CancelledByRequest
                         /\ Grants!ExclusiveExecution
  /\ part = "stall" => Stall!TerminalHasDone /\ Stall!CancelledByRequest
  /\ part = "slots" => Slots!ProducerLimit
=============================================================================
