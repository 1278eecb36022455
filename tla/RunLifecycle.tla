---------------------------- MODULE RunLifecycle ----------------------------
(***************************************************************************)
(* What the run registry promises about a run, whoever executes it and     *)
(* however often its executor is replaced: the life cycle of the status,   *)
(* the execution token that only grows, and a log that only the holder of  *)
(* the current token extends and that is closed with the run.  The names   *)
(* are those of RunState in src/service/run_registry.py.                   *)
(***************************************************************************)
EXTENDS Integers, Sequences

CONSTANTS Runs, NoToken
VARIABLES status, token, log   \* log[r]: the tokens of the entries, in order

vars == <<status, token, log>>

Final == {"completed", "failed", "cancelled", "timed_out"}
Open == {"queued", "running", "waiting_for_input"}

Init ==
    /\ status = [r \in Runs |-> "absent"]
    /\ token = [r \in Runs |-> 0]
    /\ log = [r \in Runs |-> <<>>]

\* The request is admitted.
Accept(r) ==
    /\ status[r] = "absent"
    /\ status' = [status EXCEPT ![r] = "queued"]
    /\ token' = [token EXCEPT ![r] = 1]
    /\ UNCHANGED log

Begin(r) ==
    /\ status[r] = "queued"
    /\ status' = [status EXCEPT ![r] = "running"]
    /\ UNCHANGED <<token, log>>

\* Another executor, or the same one after a human answered, gets the run.
Reassign(r) ==
    /\ status[r] \in Open
    /\ status' = [status EXCEPT ![r] = "queued"]
    /\ token' = [token EXCEPT ![r] = @ + 1]
    /\ UNCHANGED log

Emit(r) ==
    /\ status[r] \in Open
    /\ log' = [log EXCEPT ![r] = Append(@, token[r])]
    /\ UNCHANGED <<status, token>>

\* The run asks a human and gives up its slot.
Ask(r) ==
    /\ status[r] = "running"
    /\ status' = [status EXCEPT ![r] = "waiting_for_input"]
    /\ log' = [log EXCEPT ![r] = Append(@, NoToken)]
    /\ UNCHANGED token

Settle(r) ==
    /\ status[r] \in Open
    /\ \E s \in Final : status' = [status EXCEPT ![r] = s]
    /\ UNCHANGED <<token, log>>

\* The user cancels: the executor loses its token in the same step.
Abort(r) ==
    /\ status[r] \in Open
    /\ status' = [status EXCEPT ![r] = "cancelled"]
    /\ token' = [token EXCEPT ![r] = @ + 1]
    /\ \/ log' = [log EXCEPT ![r] = @ \o <<token[r] + 1, token[r] + 1>>]
       \/ UNCHANGED log

Next ==
    \E r \in Runs : \/ Accept(r) \/ Begin(r) \/ Reassign(r) \/ Emit(r)
                    \/ Ask(r) \/ Settle(r) \/ Abort(r)

Spec == Init /\ [][Next]_vars
=============================================================================
