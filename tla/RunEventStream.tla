--------------------------- MODULE RunEventStream ---------------------------
(***************************************************************************)
(* A client that follows the event stream of a run: subscribe,             *)
(* _done_delivery_action and _replay_gap of                                *)
(* src/service/redis_run_registry.py, against any writer RunStore allows.  *)
(*                                                                         *)
(* A subscription only reads.  It takes one step per call to Redis, and    *)
(* what it decides rests on the replies it has, while the run goes on.  A  *)
(* client may go away at any time, in the middle of a batch too, and come  *)
(* back with the id of the last event it received.  (So the branch for a   *)
(* cursor ahead of the stream is never taken here.)  The stream keeps the  *)
(* last Buffer events; the ones before are trimmed.                        *)
(***************************************************************************)
EXTENDS RunStore, SequencesExt

CONSTANTS
    Buffer,     \* event_buffer_size
    ReadCount   \* the most entries one XREAD returns

VARIABLES
    sub,       \* sub[r]: the subscription of the client that follows run r
    received   \* received[r]: the ids of the events that client got (history)

streamingVars == <<storeVars, sub, received>>

\* "off": not connected; "closed": the generator returned because the run ended
\* or waits; "gap": it reported replay_gap.
Off == [pc |-> "off", cursor |-> 0, first |-> 0, last |-> 0]

StreamInit ==
    /\ StoreInit
    /\ sub = [r \in Runs |-> Off]
    /\ received = [r \in Runs |-> <<>>]

\* last_event_id, and the oldest id that XTRIM left in the stream.
LastEventId(r) == Len(events[r])
Oldest(r) == IF LastEventId(r) > Buffer THEN LastEventId(r) - Buffer + 1 ELSE 1

\* _replay_gap
Gap(r, cursor) == cursor < Oldest(r) - 1

\* The cursor a client comes with (a definition named Mut... is a faulty variant
\* of the one that follows it; no specification uses it).
MutForgotten(r) == 0
MutUnclamped(r) == IF received[r] = <<>> THEN -1 ELSE Last(received[r])
LastReceived(r) == IF received[r] = <<>> THEN 0 ELSE Last(received[r])

\* _done_delivery_action on event id, given the run hash.
MutDoneEager(r, id) ==
    LET e == events[r][id] IN
    IF e.kind = "done" /\ e.fence # fence[r] THEN "skip" ELSE "deliver"

MutDoneDrop(r, id) ==
    LET e == events[r][id] IN
    CASE e.kind # "done" -> "deliver"
      [] e.kind = "done" /\ status[r] \in Terminal /\ id = LastEventId(r) -> "deliver"
      [] OTHER -> "skip"

MutDoneHold(r, id) ==
    LET e == events[r][id] IN
    CASE e.kind # "done" -> "deliver"
      [] e.kind = "done" /\ status[r] \in Terminal /\ id = LastEventId(r) -> "deliver"
      [] OTHER -> "wait"

DoneAction(r, id) ==
    LET e == events[r][id] IN
    CASE e.kind # "done" -> "deliver"
      [] e.kind = "done" /\ e.fence # fence[r] -> "skip"
      [] e.kind = "done" /\ e.fence = fence[r] /\ status[r] \notin Terminal -> "wait"
      [] OTHER -> IF id = LastEventId(r) THEN "deliver" ELSE "skip"

-----------------------------------------------------------------------------
\* A request for the stream, up to the first check for a gap.
Connect(r) ==
    /\ sub[r].pc \in {"off", "closed"}
    /\ status[r] # "absent"
    /\ sub' = [sub EXCEPT ![r] =
                 [Off EXCEPT !.cursor = LastReceived(r),
                             !.pc = IF Gap(r, LastReceived(r)) THEN "gap" ELSE "poll"]]
    /\ UNCHANGED <<storeVars, received>>

\* The run hash is read at the top, and again at the bottom, of the loop.
Poll(r) ==
    /\ sub[r].pc = "poll"
    /\ sub' = [sub EXCEPT ![r].pc =
                 IF /\ status[r] \in Terminal \cup {"waiting_for_input"}
                    /\ sub[r].cursor >= LastEventId(r)
                 THEN "closed" ELSE "read"]
    /\ UNCHANGED <<storeVars, received>>

\* XREAD: the entries behind the cursor that are still there, or none in time.
MutFirst(r, cursor) == IF Oldest(r) > cursor + 2 THEN Oldest(r) ELSE cursor + 2
First(r, cursor) == IF Oldest(r) > cursor + 1 THEN Oldest(r) ELSE cursor + 1

Read(r) ==
    LET first == First(r, sub[r].cursor) IN
    /\ sub[r].pc = "read"
    /\ LastEventId(r) > sub[r].cursor
    /\ sub' = [sub EXCEPT ![r].pc = "deliver",
                          ![r].first = first,
                          ![r].last = IF LastEventId(r) >= first + ReadCount
                                      THEN first + ReadCount - 1 ELSE LastEventId(r)]
    /\ UNCHANGED <<storeVars, received>>

ReadNothing(r) ==
    /\ sub[r].pc = "read"
    /\ LastEventId(r) <= sub[r].cursor
    /\ sub' = [sub EXCEPT ![r].pc = "idle"]
    /\ UNCHANGED <<storeVars, received>>

\* After an empty read: the second check for a gap, or a heartbeat comment.
Idle(r) ==
    /\ sub[r].pc = "idle"
    /\ sub' = [sub EXCEPT ![r].pc = IF Gap(r, sub[r].cursor) THEN "gap" ELSE "poll"]
    /\ UNCHANGED <<storeVars, received>>

\* The run hash is read once more and the batch handed over, up to a DONE that
\* has to wait.  The client may leave before it got everything.
Stop(r) ==
    LET held == {n \in sub[r].first..sub[r].last : DoneAction(r, n) = "wait"} IN
    IF held = {} THEN sub[r].last
    ELSE (CHOOSE n \in held : \A m \in held : n <= m) - 1

\* The members of a finite set of ids in their order.
Ascending(ids) ==
    CHOOSE s \in [1..Cardinality(ids) -> ids] :
        /\ \A id \in ids : \E n \in DOMAIN s : s[n] = id
        /\ \A m, n \in DOMAIN s : m < n => s[m] < s[n]

Handed(r, upto) ==
    Ascending({n \in sub[r].first..upto : DoneAction(r, n) = "deliver"})

Deliver(r) ==
    /\ sub[r].pc = "deliver"
    /\ \E upto \in (sub[r].first - 1)..Stop(r) :
          /\ received' = [received EXCEPT ![r] = @ \o Handed(r, upto)]
          /\ sub' = [sub EXCEPT ![r] =
                       IF upto < Stop(r) THEN Off
                       ELSE [Off EXCEPT !.pc = "poll",
                                        !.cursor = IF upto < sub[r].first
                                                   THEN sub[r].cursor ELSE upto]]
    /\ UNCHANGED storeVars

Disconnect(r) ==
    /\ sub[r].pc \in {"poll", "read", "idle"}
    /\ sub' = [sub EXCEPT ![r] = Off]
    /\ UNCHANGED <<storeVars, received>>

Follow(r) == Poll(r) \/ Read(r) \/ ReadNothing(r) \/ Idle(r) \/ Deliver(r)

StreamNext ==
    \/ \E r \in Runs : Connect(r) \/ Follow(r) \/ Disconnect(r)
    \/ StoreNext /\ UNCHANGED <<sub, received>>

StreamSpec == StreamInit /\ [][StreamNext]_streamingVars

\* The server runs a subscription that a client holds.
StreamLiveSpec == StreamSpec /\ \A r \in Runs : WF_streamingVars(Follow(r))

-----------------------------------------------------------------------------
(***************************************************************************)
(* Properties                                                              *)
(***************************************************************************)

\* The subscriptions keep their type, and what was received exists.
StreamTypeOK ==
    /\ sub \in [Runs -> [pc : {"off", "poll", "read", "deliver", "idle", "closed", "gap"},
                         cursor : Nat, first : Nat, last : Nat]]
    /\ \A r \in Runs : \A n \in DOMAIN received[r] : received[r][n] \in DOMAIN events[r]

\* A client gets the events in the order of their ids and none of them twice,
\* over all its connections.
InOrder ==
    \A r \in Runs : \A m, n \in DOMAIN received[r] :
        m < n => received[r][m] < received[r][n]

\* A DONE a client has seen is true and final: the run has ended and no event
\* follows, now or later, though DONE is written before the run is committed and
\* the writer may be replaced in between.
DoneIsFinal ==
    \A r \in Runs : \A n \in DOMAIN received[r] :
        events[r][received[r][n]].kind = "done" =>
            status[r] \in Terminal /\ received[r][n] = LastEventId(r)

\* When a subscription closes because the run has ended and the stream ends with
\* the DONE of its last executor, the client has received that DONE.
DoneReached ==
    \A r \in Runs :
        /\ sub[r].pc = "closed" /\ sub[r].cursor = LastEventId(r)
        /\ status[r] \in Terminal /\ events[r] # <<>>
        /\ Last(events[r]) = [kind |-> "done", fence |-> fence[r]]
        => LastEventId(r) \in Range(received[r])

\* Nothing but a DONE is passed over: the client has every event up to the cursor
\* or is told of a replay_gap.
NoSilentGap ==
    \A r \in Runs : \A n \in 1..sub[r].cursor :
        events[r][n].kind = "done" \/ n \in Range(received[r])

\* What the client of a subscription may rely on.
StreamSound == StreamTypeOK /\ InOrder /\ DoneIsFinal /\ DoneReached /\ NoSilentGap

\* A subscription to a run that has ended comes to its end.
Ends ==
    \A r \in Runs :
        status[r] \in Terminal /\ sub[r].pc \in {"poll", "read", "idle", "deliver"}
            ~> sub[r].pc \in {"off", "closed", "gap"}
=============================================================================
