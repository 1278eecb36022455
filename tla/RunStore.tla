------------------------------ MODULE RunStore ------------------------------
(***************************************************************************)
(* The Redis side of src/service/redis_run_registry.py: the run hash, the  *)
(* event stream, the two lease indexes and the metrics hash, and the Lua   *)
(* scripts that change them.  Redis runs a script atomically, so a script  *)
(* is one action here.  A script takes the owner and fencing token its     *)
(* caller presents; StoreNext lets any instance call any script with any   *)
(* token at any time, so what holds of StoreSpec holds of every client,    *)
(* the stalled, the crashed and the duplicated ones included.              *)
(*                                                                         *)
(* A reply that changes nothing (-1 .. -5, 0) is a disabled action; the    *)
(* caller's side of it is in module RedisRunRegistry.  The lifecycle and   *)
(* audit streams get one entry per change of status and are only read as a *)
(* wake-up, so they are left out, and so is expiry after retention.        *)
(***************************************************************************)
EXTENDS Integers, Sequences, FiniteSets

CONSTANTS
    Runs,           \* request ids
    StreamRuns,     \* the runs of kind 'stream'; the others are 'invoke'
    Instances,      \* owner ids; a restarted process has a new one
    NoInstance,     \* owner of a run that does not exist
    Interactions,   \* <<interaction_id, interaction_state_version>> pairs
    NoInteraction,
    Responses,      \* response_request_ids
    MaxConcurrent, MaxQueued,  \* admission limits of the service
    Lease,          \* lease_seconds, in clock ticks
    MaxClock, MaxFence, MaxEvents  \* bounds of the model

ASSUME RunsAssumption == IsFiniteSet(Runs) /\ StreamRuns \subseteq Runs
ASSUME InstancesAssumption == NoInstance \notin Instances
ASSUME InteractionsAssumption == NoInteraction \notin Interactions
ASSUME LimitsAssumption == MaxConcurrent \in Nat /\ MaxQueued \in Nat
ASSUME LeaseAssumption == Lease \in Nat \ {0}
ASSUME BoundsAssumption == MaxClock \in Nat /\ MaxFence \in Nat \ {0} /\ MaxEvents \in Nat

VARIABLES
    clock,        \* Redis TIME
    status, owner, fence, lease,  \* the run hash: status, owner_id,
                                  \* fencing_token, lease_until_ms
    emitted,      \* terminal_event_emitted
    failed,       \* stream_failed
    runId,        \* run_id, as the token it was written with; 0 when empty
    interaction,  \* interaction_id with its version
    events,       \* the event stream; position in the sequence = event id
    keys,         \* event keys of the dedupe hash
    answered,     \* response keys of the dedupe hash
    active, running,  \* sorted sets: score, or NotMember
    metrics       \* the metrics hash, per status

hashVars == <<status, owner, fence, lease, emitted, failed, runId, interaction>>
streamVars == <<events, keys>>
indexVars == <<active, running, metrics>>
storeVars == <<clock, hashVars, streamVars, answered, indexVars>>

Terminal == {"completed", "failed", "cancelled", "timed_out"}
Pending == {"queued", "running"}
Status == Pending \cup Terminal \cup {"absent", "waiting_for_input"}

NotMember == -1   \* the run is not in the sorted set
NoFence == 0      \* the event has no fencing_token field

Kinds == {"data", "error", "input", "done"}
Event == [kind : Kinds, fence : Nat]

\* Event keys: a terminal error has one per error code, a DONE one per token;
\* NoKey is the empty key, which is never stored.
NoKey == <<"", 0>>
Codes == {"run_timeout", "run_cancelled", "internal_error"}
ErrorKey(code) == <<code, 0>>
DoneKey(f) == <<"done", f>>
EventKey == (Codes \cup {"done"}) \X Nat

-----------------------------------------------------------------------------
StoreInit ==
    /\ clock = 0
    /\ status = [r \in Runs |-> "absent"]
    /\ owner = [r \in Runs |-> NoInstance]
    /\ fence = [r \in Runs |-> 0]
    /\ lease = [r \in Runs |-> 0]
    /\ emitted = [r \in Runs |-> FALSE]
    /\ failed = [r \in Runs |-> FALSE]
    /\ runId = [r \in Runs |-> 0]
    /\ interaction = [r \in Runs |-> NoInteraction]
    /\ events = [r \in Runs |-> <<>>]
    /\ keys = [r \in Runs |-> {}]
    /\ answered = [r \in Runs |-> {}]
    /\ active = [r \in Runs |-> NotMember]
    /\ running = [r \in Runs |-> NotMember]
    /\ metrics = [s \in Status |-> 0]

\* The guard every owner-side script starts with: the caller is the owner
\* and its token is the current one.  (A definition named Mut... is a faulty
\* variant of the one after it; no specification uses it.)
MutOwns(r, i, f) == status[r] # "absent" /\ owner[r] = i
Owns(r, i, f) == status[r] # "absent" /\ owner[r] = i /\ fence[r] = f

\* ZCOUNT index (now +inf: the members whose lease has not expired.
Live(index) == {r \in Runs : index[r] > clock}

\* HINCRBY of the old status and of the new one.
MutCount(old, new) == metrics' = [metrics EXCEPT ![new] = @ + 1]
Count(old, new) ==
    metrics' = [s \in Status |->
                   metrics[s] + (IF s = new THEN 1 ELSE 0) - (IF s = old THEN 1 ELSE 0)]

\* The end of a lease granted or renewed now.
MutUntil == clock - Lease
Until == clock + Lease

\* The execution passes to instance i: what a take-over and a resume share.
\* The stream, the dedupe keys and stream_failed stay.
MutClearDone(r) == emitted' = emitted
ClearDone(r) == emitted' = [emitted EXCEPT ![r] = FALSE]

Reassign(r, i) ==
    /\ fence[r] < MaxFence
    /\ status' = [status EXCEPT ![r] = "queued"]
    /\ owner' = [owner EXCEPT ![r] = i]
    /\ fence' = [fence EXCEPT ![r] = @ + 1]
    /\ lease' = [lease EXCEPT ![r] = Until]
    /\ ClearDone(r)
    /\ active' = [active EXCEPT ![r] = Until]
    /\ running' = [running EXCEPT ![r] = NotMember]
    /\ Count(status[r], "queued")

\* The run leaves execution, for ever or until a human has answered.
MutUnindex(r) == active' = [active EXCEPT ![r] = NotMember] /\ running' = running
Unindex(r) ==
    /\ active' = [active EXCEPT ![r] = NotMember]
    /\ running' = [running EXCEPT ![r] = NotMember]

LeaveExecution(r, new) ==
    /\ status' = [status EXCEPT ![r] = new]
    /\ lease' = [lease EXCEPT ![r] = 0]
    /\ Unindex(r)
    /\ Count(status[r], new)

\* _CREATE_OR_GET_LUA on an unknown request id.
Create(r, i) ==
    /\ status[r] = "absent"
    /\ Cardinality(Live(active)) < MaxConcurrent + MaxQueued
    /\ status' = [status EXCEPT ![r] = "queued"]
    /\ owner' = [owner EXCEPT ![r] = i]
    /\ fence' = [fence EXCEPT ![r] = 1]
    /\ lease' = [lease EXCEPT ![r] = Until]
    /\ active' = [active EXCEPT ![r] = Until]
    /\ metrics' = [metrics EXCEPT !["queued"] = @ + 1]
    /\ UNCHANGED <<clock, emitted, failed, runId, interaction, streamVars,
                   answered, running>>

\* _CREATE_OR_GET_LUA on a run whose owner let its lease expire.
MutTakeOver(r, i) ==
    /\ status[r] \in Pending
    /\ Reassign(r, i)
    /\ UNCHANGED <<clock, failed, runId, interaction, streamVars, answered>>

MutTakeOverRunning(r, i) ==
    /\ status[r] = "running"
    /\ lease[r] <= clock
    /\ Reassign(r, i)
    /\ UNCHANGED <<clock, failed, runId, interaction, streamVars, answered>>

TakeOver(r, i) ==
    /\ status[r] \in Pending
    /\ lease[r] <= clock
    /\ Reassign(r, i)
    /\ UNCHANGED <<clock, failed, runId, interaction, streamVars, answered>>

\* _APPEND_EVENT_LUA: an event whose key is known is not appended again.
MutCanAppend(r, i, f, kind) == Owns(r, i, f)
CanAppend(r, i, f, kind) ==
    /\ Owns(r, i, f)
    /\ status[r] \notin Terminal
    /\ ~(status[r] = "waiting_for_input" /\ kind = "done")

AppendEvent(r, i, f, kind, key) ==
    /\ CanAppend(r, i, f, kind)
    /\ IF key \in keys[r]
       THEN UNCHANGED <<events, keys, emitted>>
       ELSE /\ Len(events[r]) < MaxEvents
            /\ events' = [events EXCEPT ![r] = Append(@, [kind |-> kind, fence |-> f])]
            /\ keys' = [keys EXCEPT ![r] = IF key = NoKey THEN @ ELSE @ \cup {key}]
            /\ emitted' = [emitted EXCEPT ![r] = @ \/ kind = "done"]
    /\ UNCHANGED <<clock, status, owner, fence, lease, failed, runId,
                   interaction, answered, indexVars>>

\* _ACQUIRE_RUNNING_LUA
SlotFree == Cardinality(Live(running)) < MaxConcurrent

AcquireRunning(r, i, f) ==
    /\ Owns(r, i, f)
    /\ status[r] = "queued"
    /\ SlotFree
    /\ status' = [status EXCEPT ![r] = "running"]
    /\ lease' = [lease EXCEPT ![r] = Until]
    /\ active' = [active EXCEPT ![r] = Until]
    /\ running' = [running EXCEPT ![r] = Until]
    /\ Count("queued", "running")
    /\ UNCHANGED <<clock, owner, fence, emitted, failed, runId, interaction,
                   streamVars, answered>>

\* _HEARTBEAT_LUA: it does not ask whether the lease has expired already.
MutHeartbeat(r, i, f) ==
    /\ Owns(r, i, f)
    /\ status[r] \in Pending
    /\ lease' = [lease EXCEPT ![r] = Until]
    /\ active' = [active EXCEPT ![r] = Until]
    /\ UNCHANGED <<clock, status, owner, fence, emitted, failed, runId,
                   interaction, streamVars, answered, running, metrics>>

Heartbeat(r, i, f) ==
    /\ Owns(r, i, f)
    /\ status[r] \in Pending
    /\ lease' = [lease EXCEPT ![r] = Until]
    /\ active' = [active EXCEPT ![r] = Until]
    /\ running' = [running EXCEPT ![r] = IF status[r] = "running" THEN Until ELSE @]
    /\ UNCHANGED <<clock, status, owner, fence, emitted, failed, runId,
                   interaction, streamVars, answered, metrics>>

\* _RELEASE_LEASE_LUA: the run enters the running index even when queued, at 0.
ReleaseLease(r, i, f) ==
    /\ Owns(r, i, f)
    /\ status[r] \in Pending
    /\ lease' = [lease EXCEPT ![r] = 0]
    /\ active' = [active EXCEPT ![r] = 0]
    /\ running' = [running EXCEPT ![r] = 0]
    /\ UNCHANGED <<clock, status, owner, fence, emitted, failed, runId,
                   interaction, streamVars, answered, metrics>>

\* _TRANSITION_LUA
Transition(r, i, f, target) ==
    /\ Owns(r, i, f)
    /\ status[r] \notin Terminal
    /\ target \in Terminal
    /\ LeaveExecution(r, target)
    /\ UNCHANGED <<clock, owner, fence, emitted, failed, runId, interaction,
                   streamVars, answered>>

\* _CANCEL_LUA: a new token fences the owner out; a stream gets its terminal
\* events here.
Cancel(r) ==
    /\ status[r] \notin Terminal \cup {"absent"}
    /\ fence[r] < MaxFence
    /\ fence' = [fence EXCEPT ![r] = @ + 1]
    /\ LeaveExecution(r, "cancelled")
    /\ events' = [events EXCEPT ![r] =
                     IF r \in StreamRuns
                     THEN @ \o <<[kind |-> "error", fence |-> fence[r] + 1],
                                 [kind |-> "done", fence |-> fence[r] + 1]>>
                     ELSE @]
    /\ emitted' = [emitted EXCEPT ![r] = @ \/ r \in StreamRuns]
    /\ UNCHANGED <<clock, owner, failed, runId, interaction, keys, answered>>

\* _SET_RUN_ID_LUA
SetRunId(r, i, f) ==
    /\ Owns(r, i, f)
    /\ runId' = [runId EXCEPT ![r] = f]
    /\ UNCHANGED <<clock, status, owner, fence, lease, emitted, failed,
                   interaction, streamVars, answered, indexVars>>

\* _MARK_STREAM_FAILED_LUA
MarkStreamFailed(r, i, f) ==
    /\ Owns(r, i, f)
    /\ status[r] \notin Terminal
    /\ failed' = [failed EXCEPT ![r] = TRUE]
    /\ UNCHANGED <<clock, status, owner, fence, lease, emitted, runId,
                   interaction, streamVars, answered, indexVars>>

\* _PAUSE_FOR_INPUT_LUA: the event it appends carries no token.  (Its event
\* key is stored but no other append ever presents it.)
PauseForInput(r, i, f, n) ==
    /\ Owns(r, i, f)
    /\ status[r] = "running"
    /\ Len(events[r]) < MaxEvents
    /\ events' = [events EXCEPT ![r] = Append(@, [kind |-> "input", fence |-> NoFence])]
    /\ interaction' = [interaction EXCEPT ![r] = n]
    /\ LeaveExecution(r, "waiting_for_input")
    /\ UNCHANGED <<clock, owner, fence, emitted, failed, runId, keys, answered>>

\* _RESUME_LUA: a response id is bound to one interaction for ever, and may be
\* presented again only while that interaction is still the pending one.
MutMayAnswer(r, p, n) == TRUE
MayAnswer(r, p, n) == \A a \in answered[r] : a[1] = p => a[2] = n

Resume(r, i, p, n) ==
    /\ status[r] = "waiting_for_input"
    /\ interaction[r] = n
    /\ MayAnswer(r, p, n)
    /\ Reassign(r, i)
    /\ interaction' = [interaction EXCEPT ![r] = NoInteraction]
    /\ answered' = [answered EXCEPT ![r] = @ \cup {<<p, n>>}]
    /\ UNCHANGED <<clock, failed, runId, streamVars>>

\* Redis TIME moves on.
Advance ==
    /\ clock < MaxClock
    /\ clock' = clock + 1
    /\ UNCHANGED <<hashVars, streamVars, answered, indexVars>>

-----------------------------------------------------------------------------
\* The scripts an owner calls, with whatever token it holds.
OwnerAppend(r, i, f) ==
    \/ \E kind \in {"data", "error"} : AppendEvent(r, i, f, kind, NoKey)
    \/ \E code \in Codes : AppendEvent(r, i, f, "error", ErrorKey(code))
    \/ \E key \in {NoKey, DoneKey(f)} : AppendEvent(r, i, f, "done", key)

OwnerScript(r, i, f) ==
    \/ OwnerAppend(r, i, f)
    \/ AcquireRunning(r, i, f)
    \/ Heartbeat(r, i, f)
    \/ ReleaseLease(r, i, f)
    \/ \E target \in Terminal : Transition(r, i, f, target)
    \/ SetRunId(r, i, f)
    \/ MarkStreamFailed(r, i, f)
    \/ \E n \in Interactions : PauseForInput(r, i, f, n)

\* The scripts a client's request calls: they carry no token.
ClientScript(r, i) ==
    \/ Create(r, i)
    \/ TakeOver(r, i)
    \/ Cancel(r)
    \/ \E p \in Responses, n \in Interactions : Resume(r, i, p, n)

StoreNext ==
    \/ \E r \in Runs, i \in Instances :
          \/ ClientScript(r, i)
          \/ \E f \in 1..MaxFence : OwnerScript(r, i, f)
    \/ Advance

StoreSpec == StoreInit /\ [][StoreNext]_storeVars

-----------------------------------------------------------------------------
(***************************************************************************)
(* Properties                                                              *)
(***************************************************************************)

\* Every field of the run hash, the stream, the indexes and the counters keeps
\* its type, and the bounded ones their bound.
StoreTypeOK ==
    /\ clock \in 0..MaxClock
    /\ status \in [Runs -> Status]
    /\ owner \in [Runs -> Instances \cup {NoInstance}]
    /\ fence \in [Runs -> Nat]
    /\ lease \in [Runs -> Nat]
    /\ emitted \in [Runs -> BOOLEAN]
    /\ failed \in [Runs -> BOOLEAN]
    /\ runId \in [Runs -> Nat]
    /\ interaction \in [Runs -> Interactions \cup {NoInteraction}]
    /\ events \in [Runs -> Seq(Event)]
    /\ keys \in [Runs -> SUBSET EventKey]
    /\ answered \in [Runs -> SUBSET (Responses \X Interactions)]
    /\ active \in [Runs -> Int]
    /\ running \in [Runs -> Int]
    /\ metrics \in [Status -> Int]

\* The sorted sets the admission limits are counted on agree with the run hash
\* after any sequence of scripts: a pending run is indexed under its own lease,
\* a queued one never holds a running slot, and a run that waits or has ended
\* is in neither index and holds no lease.
LeaseIndex ==
    \A r \in Runs :
        /\ status[r] \in Pending => active[r] = lease[r]
        /\ status[r] = "running" => running[r] = lease[r]
        /\ status[r] = "queued" => running[r] \in {NotMember, 0}
        /\ status[r] \notin Pending =>
              lease[r] = 0 /\ active[r] = NotMember /\ running[r] = NotMember

Ordered(s, f) ==
    \A m, n \in DOMAIN s :
        /\ s[m].fence <= f
        /\ m < n /\ s[n].fence # NoFence => s[m].fence <= s[n].fence

\* Fencing: the events of a run are in the order of the tokens they were
\* written with and none is newer than the current token, so no event of a
\* replaced executor follows one of its successor.
StreamOrder == \A r \in Runs : Ordered(events[r], fence[r])

HasDone(s, f) == \E n \in DOMAIN s : s[n] = [kind |-> "done", fence |-> f]

\* terminal_event_emitted says exactly whether the current executor's DONE is in
\* the stream: a take-over or a resume that left the flag of the previous
\* executor would end a run without a DONE the subscribers accept.
DoneFlag == \A r \in StreamRuns : emitted[r] <=> HasDone(events[r], fence[r])

\* A response id answers one interaction of a run, however often the response
\* is repeated or the interaction is raised again.
ResponseBinding ==
    \A r \in Runs : \A a, b \in answered[r] : a[1] = b[1] => a = b

\* What the scripts keep in separate keys belongs together: sorted sets, stream,
\* DONE flag and answered interactions, whichever executor and whichever
\* response comes late.
StoreConsistent == LeaseIndex /\ StreamOrder /\ DoneFlag /\ ResponseBinding

\* The metrics hash counts the runs of every status.
MetricsCount ==
    \A s \in Status \ {"absent"} :
        metrics[s] = Cardinality({r \in Runs : status[r] = s})

\* A run that has ended stays as it ended: no script changes its status, its
\* token or its stream, whatever token its caller kept.
SealedStep ==
    \A r \in Runs :
        status[r] \in Terminal =>
            /\ status'[r] = status[r]
            /\ fence'[r] = fence[r]
            /\ events'[r] = events[r]
            /\ lease'[r] = 0

Sealed == [][SealedStep]_storeVars

\* The scripts implement the life cycle of RunLifecycle: every script, whoever
\* calls it, is a step of the promised life cycle or leaves it unchanged.
Tokens(s) == [n \in DOMAIN s |-> s[n].fence]

Lifecycle == INSTANCE RunLifecycle
    WITH NoToken <- NoFence, token <- fence, log <- [r \in Runs |-> Tokens(events[r])]

LifecycleSpec == Lifecycle!Spec
=============================================================================
