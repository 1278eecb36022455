------------------------------ MODULE Platform ------------------------------
(***************************************************************************)
(* Components around the pipeline, side by side.  part says which of them  *)
(* the behaviour belongs to; it is chosen at the start and never changes.  *)
(* MCPlatform gives the constants values and adds the remaining ones.      *)
(***************************************************************************)
CONSTANTS
  Runs, StreamRuns, Answers, MaxConcurrent, MaxQueued, Buffer, MaxData,  \* the in-memory registry
  Relays, Entries, Malformed, BatchSize, MaxFaults,                      \* the audit relay
  EvalIds, RegressionSuites, SealedSuites, TrialAttempts, TrialSetups, MaxRestarts  \* an evolution trial

VARIABLES
  part,                                                     \* the component
  rec, task, sub, waiting,                                  \* the in-memory registry
  stream, added, given, pend, idle, topic, relay, faults,   \* the audit relay
  setup, wf, ex, client, cp                                 \* an evolution trial

Memory == INSTANCE MemoryRunRegistry WITH late <- waiting
Outbox == INSTANCE AuditRelay WITH Batch <- BatchSize
Evolve == INSTANCE EvolutionTrial WITH
  Evals <- EvalIds, Suites <- RegressionSuites, Sealed <- SealedSuites,
  Attempts <- TrialAttempts, Setups <- TrialSetups, MaxStarts <- MaxRestarts

(* A behaviour of the component that was chosen.                           *)
PlatformSpec ==
  /\ part = "memory" => Memory!Spec
  /\ part = "audit" => Outbox!Spec
  /\ part = "trial" => Evolve!Spec
  /\ [][part' = part]_part

(* A run of the in-memory registry ends by its current generation or a     *)
(* cancellation, with done set and DONE in its stream; nobody else is at   *)
(* work on it; a run without a task has ended or waits; a subscription     *)
(* delivers in order up to the event the run stands still at.              *)
MemorySound == part = "memory" => Memory!MemorySound

(* An audit entry leaves the outbox only when Kafka has it, a malformed    *)
(* one never, whatever fails and whichever relays share an entry.          *)
AuditSound == part = "audit" => Outbox!AuditSound

(* A trial asks for approval only after one attempt ran everything on the   *)
(* patch and left nothing behind; the control plane sees one earned proof;  *)
(* nothing outside the allowlist is written.                                *)
TrialSound == part = "trial" => Evolve!TrialSound
=============================================================================
