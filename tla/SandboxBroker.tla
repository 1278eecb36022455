---------------------------- MODULE SandboxBroker ----------------------------
(***************************************************************************)
(* The repair broker (repair_executor/service.py, docker_runner.py): one   *)
(* request at a time turns a model-written script into a container run.    *)
(* Every call to the Docker API may fail, before or after the daemon did   *)
(* what it was asked; the finally block then removes what the broker knows *)
(* it owns.                                                                *)
(***************************************************************************)
EXTENDS Naturals, FiniteSets

CONSTANTS
  Requests,  \* concurrent HTTP requests
  Failures   \* calls that may fail

Things == {"volume", "seed", "job"}

VARIABLES
  at,      \* where each request is
  exists,  \* what the daemon holds for it
  knows,   \* what the broker knows it owns: volume, seed_id, identifier
  runs,    \* is the script running in the job container?
  answer,  \* what the request was answered
  free,    \* _slot
  failed,  \* calls that failed so far
  excused  \* requests told nothing of a creation, or whose removal failed

vars == <<at, exists, knows, runs, answer, free, failed, excused>>

(* The calls of run, in order; a call that creates or removes something    *)
(* names it.                                                               *)
Calls == <<"image", "volume", "seed", "seed_start", "upload", "job", "job_start", "seed_delete",
           "exec", "script", "inspect", "download">>
Creates == {"volume", "seed", "job"}
First == 1
Script == 10
Last == 12
Clean == [job |-> 21, seed |-> 22, volume |-> 23]

Init ==
  /\ at = [r \in Requests |-> 0]
  /\ exists = [r \in Requests |-> {}]
  /\ knows = [r \in Requests |-> {}]
  /\ runs = [r \in Requests |-> FALSE]
  /\ answer = [r \in Requests |-> "none"]
  /\ free = TRUE
  /\ failed = 0
  /\ excused = {}
-----------------------------------------------------------------------------
MutAcquire(r) ==
  /\ at[r] = 0
  /\ at' = [at EXCEPT ![r] = First]
  /\ free' = FALSE
  /\ UNCHANGED <<exists, knows, runs, answer, failed, excused>>

(* repair: a second request while one is served is refused.                *)
Acquire(r) ==
  /\ at[r] = 0
  /\ IF free
     THEN at' = [at EXCEPT ![r] = First] /\ free' = FALSE /\ UNCHANGED answer
     ELSE at' = [at EXCEPT ![r] = 99] /\ answer' = [answer EXCEPT ![r] = "busy"] /\ UNCHANGED free
  /\ UNCHANGED <<exists, knows, runs, failed, excused>>

(* After a failed call: nothing to clean before the volume is known.       *)
Bail(r) == IF "volume" \in knows[r] THEN Clean.job ELSE 31

MutCall(r) ==
  LET c == Calls[at[r]] IN
  /\ at[r] \in First .. Last /\ at[r] # Script
  /\ exists' = [exists EXCEPT ![r] = CASE c \in Creates -> @ \cup {c}
                                       [] c = "seed_delete" -> @
                                       [] OTHER -> @]
  /\ knows' = [knows EXCEPT ![r] = CASE c \in Creates -> @ \cup {c}
                                     [] c = "seed_delete" -> @ \ {"seed"}
                                     [] OTHER -> @]
  /\ runs' = [runs EXCEPT ![r] = IF c = "exec" THEN TRUE ELSE @]
  /\ at' = [at EXCEPT ![r] = IF @ = Last THEN Clean.job ELSE @ + 1]
  /\ answer' = [answer EXCEPT ![r] = IF c = "download" THEN "completed" ELSE @]
  /\ UNCHANGED <<free, failed, excused>>

(* A call succeeds.                                                        *)
Call(r) ==
  LET c == Calls[at[r]] IN
  /\ at[r] \in First .. Last /\ at[r] # Script
  /\ exists' = [exists EXCEPT ![r] = CASE c \in Creates -> @ \cup {c}
                                       [] c = "seed_delete" -> @ \ {"seed"}
                                       [] OTHER -> @]
  /\ knows' = [knows EXCEPT ![r] = CASE c \in Creates -> @ \cup {c}
                                     [] c = "seed_delete" -> @ \ {"seed"}
                                     [] OTHER -> @]
  /\ runs' = [runs EXCEPT ![r] = IF c = "exec" THEN TRUE ELSE @]
  /\ at' = [at EXCEPT ![r] = IF @ = Last THEN Clean.job ELSE @ + 1]
  /\ answer' = [answer EXCEPT ![r] = IF c = "download" THEN "completed" ELSE @]
  /\ UNCHANGED <<free, failed, excused>>

(* A call fails: lost before it reached the daemon, or only its answer is  *)
(* lost and the daemon did the work.                                       *)
CallFails(r, done) ==
  LET c == Calls[at[r]] IN
  /\ at[r] \in First .. Last /\ at[r] # Script
  /\ failed < Failures
  /\ failed' = failed + 1
  /\ exists' = [exists EXCEPT ![r] = CASE done /\ c \in Creates -> @ \cup {c}
                                       [] done /\ c = "seed_delete" -> @ \ {"seed"}
                                       [] OTHER -> @]
  /\ at' = [at EXCEPT ![r] = Bail(r)]
  /\ answer' = [answer EXCEPT ![r] = "unavailable"]
  /\ excused' = IF done /\ c \in Creates THEN excused \cup {r} ELSE excused
  /\ UNCHANGED <<knows, runs, free>>

(* The script ends by itself: with an exit code, or without the board file *)
(* it had to leave, or well.                                               *)
ScriptEnds(r, well) ==
  /\ at[r] = Script
  /\ runs' = [runs EXCEPT ![r] = FALSE]
  /\ at' = [at EXCEPT ![r] = IF well THEN @ + 1 ELSE Clean.job]
  /\ answer' = [answer EXCEPT ![r] = IF well THEN @ ELSE "failed"]
  /\ UNCHANGED <<exists, knows, free, failed, excused>>

(* The wall clock is exceeded: the container is killed, if the daemon      *)
(* hears of it.                                                            *)
ScriptTimeout(r, heard) ==
  /\ at[r] = Script
  /\ ~heard => failed < Failures
  /\ failed' = IF heard THEN failed ELSE failed + 1
  /\ runs' = [runs EXCEPT ![r] = IF heard THEN FALSE ELSE @]
  /\ at' = [at EXCEPT ![r] = Clean.job]
  /\ answer' = [answer EXCEPT ![r] = IF heard THEN "timeout" ELSE "unavailable"]
  /\ UNCHANGED <<exists, knows, free, excused>>

Holds(r) == CHOOSE t \in Things : Clean[t] = at[r]

MutRemove(r) ==
  /\ at[r] \in {Clean[t] : t \in Things}
  /\ exists' = [exists EXCEPT ![r] = IF Holds(r) \in knows[r] \ {"seed"} THEN @ \ {Holds(r)} ELSE @]
  /\ runs' = [runs EXCEPT ![r] = IF Holds(r) = "job" THEN FALSE ELSE @]
  /\ at' = [at EXCEPT ![r] = IF @ = Clean.volume THEN 31 ELSE @ + 1]
  /\ UNCHANGED <<knows, answer, free, failed, excused>>

(* The finally block: job container, seed container, volume, each only if  *)
(* known; removing a container by force ends what runs in it.              *)
Remove(r) ==
  /\ at[r] \in {Clean[t] : t \in Things}
  /\ exists' = [exists EXCEPT ![r] = IF Holds(r) \in knows[r] THEN @ \ {Holds(r)} ELSE @]
  /\ runs' = [runs EXCEPT ![r] = IF Holds(r) = "job" THEN FALSE ELSE @]
  /\ at' = [at EXCEPT ![r] = IF @ = Clean.volume THEN 31 ELSE @ + 1]
  /\ UNCHANGED <<knows, answer, free, failed, excused>>

(* A removal that raises leaves the rest of the finally block undone.      *)
RemoveFails(r) ==
  /\ at[r] \in {Clean[t] : t \in Things}
  /\ failed < Failures
  /\ Holds(r) \in knows[r]
  /\ failed' = failed + 1
  /\ at' = [at EXCEPT ![r] = 31]
  /\ answer' = [answer EXCEPT ![r] = "unavailable"]
  /\ excused' = excused \cup {r}
  /\ UNCHANGED <<exists, knows, runs, free>>

MutRelease(r) ==
  /\ at[r] = 31
  /\ at' = [at EXCEPT ![r] = 99]
  /\ free' = (answer[r] # "unavailable")
  /\ UNCHANGED <<exists, knows, runs, answer, failed, excused>>

MutReleaseAgain(r) ==
  /\ at[r] \in {31, 99}
  /\ at' = [at EXCEPT ![r] = @ + 1]
  /\ free' = TRUE
  /\ UNCHANGED <<exists, knows, runs, answer, failed, excused>>

(* finally: the slot is returned whatever happened.                        *)
Release(r) ==
  /\ at[r] = 31
  /\ at' = [at EXCEPT ![r] = 99]
  /\ free' = TRUE
  /\ UNCHANGED <<exists, knows, runs, answer, failed, excused>>

Step(r) ==
  \/ Acquire(r) \/ Call(r) \/ Remove(r) \/ RemoveFails(r) \/ Release(r)
  \/ \E b \in BOOLEAN : CallFails(r, b) \/ ScriptEnds(r, b) \/ ScriptTimeout(r, b)

(* The client sends its next request: the broker gives it new names, what  *)
(* an excused one left with the daemon keeps the old ones.                 *)
Again(r) ==
  /\ at[r] = 99
  /\ at' = [at EXCEPT ![r] = 0]
  /\ exists' = [exists EXCEPT ![r] = {}]
  /\ knows' = [knows EXCEPT ![r] = {}]
  /\ runs' = [runs EXCEPT ![r] = FALSE]
  /\ answer' = [answer EXCEPT ![r] = "none"]
  /\ excused' = excused \ {r}
  /\ UNCHANGED <<free, failed>>

Next == \E r \in Requests : Step(r) \/ Again(r)

Spec == Init /\ [][Next]_vars

(* Every call has a time limit: a request that started goes on.            *)
FairSpec == Spec /\ \A r \in Requests : WF_vars(at[r] # 0 /\ Step(r))
-----------------------------------------------------------------------------
(* Every component of the broker has its type.                             *)
TypeOK ==
  /\ at \in [Requests -> 0 .. 12 \cup 21 .. 23 \cup {31, 99}]
  /\ exists \in [Requests -> SUBSET Things] /\ knows \in [Requests -> SUBSET Things]
  /\ runs \in [Requests -> BOOLEAN] /\ free \in BOOLEAN /\ failed \in 0 .. Failures /\ excused \subseteq Requests
  /\ answer \in [Requests -> {"none", "busy", "completed", "failed", "timeout", "unavailable"}]

Serving == {r \in Requests : at[r] \notin {0, 99}}

(* One request is served at a time, and the slot says so: it is neither    *)
(* leaked by a failing path nor released twice.                            *)
SlotMatches == Cardinality(Serving) <= 1 /\ (free <=> Serving = {})

(* A script runs in a job container on its volume, and never beside the    *)
(* writable seed container.                                                *)
ScriptIsolated ==
  \A r \in Requests : runs[r] => {"volume", "job"} \subseteq exists[r] /\ "seed" \notin exists[r]

(* A request that ended left no container and no volume with the daemon:  *)
(* a call that failed, a script that failed, ran too long or was not       *)
(* stopped by the kill is cleaned up after.  Excused is only a creation    *)
(* the broker was never told of and a removal that failed itself.          *)
NothingLeft == \A r \in Requests \ excused : at[r] = 99 => (exists[r] = {} /\ ~ runs[r])

(* One request at a time holds the slot, its script is alone, and nothing  *)
(* stays behind.                                                           *)
SandboxSound == TypeOK /\ SlotMatches /\ ScriptIsolated /\ NothingLeft

(* Every request is answered and the slot is free again.                   *)
SlotReturns == (~ free) ~> free
=============================================================================
