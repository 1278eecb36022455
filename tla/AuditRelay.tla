----------------------------- MODULE AuditRelay -----------------------------
(***************************************************************************)
(* service/kafka_relay.py and kafka_audit.py: the registry's scripts write *)
(* audit entries to a Redis stream; relay processes read them as one       *)
(* consumer group, publish each to Kafka and only then acknowledge and     *)
(* delete it.  Entries that stayed pending too long, of a process that     *)
(* stopped or whose send failed, are claimed again with XAUTOCLAIM.        *)
(***************************************************************************)
EXTENDS Naturals, Sequences, FiniteSets, FiniteSetsExt

CONSTANTS
  Relays,      \* relay processes
  Entries,     \* bound on the entries of the outbox: ids 1 .. Entries
  Malformed,   \* ids that decode_outbox_event rejects
  Batch,       \* batch_size
  MaxFaults    \* bound on failed sends, failed Redis calls and stopped processes

VARIABLES
  stream,   \* ids in the stream
  added,    \* the newest id the registry wrote
  given,    \* the group's last delivered id
  pend,     \* ids in the group's pending list
  idle,     \* pending ids nobody was given for claim_idle_ms
  topic,    \* what Kafka accepted, in order
  relay,    \* relay[c]: where process c is; its batch is handled in the order of ids
  faults

vars == <<stream, added, given, pend, idle, topic, relay, faults>>
redisVars == <<stream, added, given, pend, idle>>

Idle == [pc |-> "claim", batch |-> {}, room |-> Batch, cursor |-> 0, due |-> TRUE]

Init ==
  /\ stream = {} /\ added = 0 /\ given = 0 /\ pend = {} /\ idle = {}
  /\ topic = <<>>
  /\ relay = [c \in Relays |-> Idle]
  /\ faults = 0

\* A script of the registry appends an entry.
Add ==
  /\ added < Entries
  /\ added' = added + 1
  /\ stream' = stream \cup {added + 1}
  /\ UNCHANGED <<given, pend, idle, topic, relay, faults>>

\* claim_idle_ms and the claim interval pass.
Time ==
  /\ idle # pend \/ \E c \in Relays : ~relay[c].due
  /\ idle' = pend
  /\ relay' = [c \in Relays |-> [relay[c] EXCEPT !.due = TRUE]]
  /\ UNCHANGED <<stream, added, given, pend, topic, faults>>

\* The n lowest ids; the entry a batch comes to next.
FirstOf(ids, n) == {i \in ids : Cardinality({j \in ids : j < i}) < n}
Head1(ids) == {i \in ids : \A j \in ids : i <= j}

\* The cursor XAUTOCLAIM returns: behind the last entry, or the start again.
CursorAfter(claimed) ==
  IF claimed # {} /\ \E i \in pend : \A j \in claimed : i > j THEN Max(claimed) + 1 ELSE 0

\* run_once, first half: _reclaim_pending when it is due.
Claim(c) ==
  /\ relay[c].pc = "claim" /\ relay[c].due
  /\ LET claimed == FirstOf({i \in idle : i >= relay[c].cursor}, Batch) IN
     /\ idle' = idle \ claimed
     /\ relay' = [relay EXCEPT ![c] = [relay[c] EXCEPT
            !.pc = "reclaimed", !.batch = claimed, !.cursor = CursorAfter(claimed), !.room = Batch]]
  /\ UNCHANGED <<stream, added, given, pend, topic, faults>>

NotDue(c) ==
  /\ relay[c].pc = "claim" /\ ~relay[c].due
  /\ relay' = [relay EXCEPT ![c].pc = "read", ![c].room = Batch]
  /\ UNCHANGED <<redisVars, topic, faults>>

\* run_once, second half: XREADGROUP with what is left of the batch.
Read(c) ==
  /\ relay[c].pc = "read"
  /\ LET fresh == FirstOf({i \in stream : i > given}, relay[c].room) IN
     /\ given' = IF fresh = {} THEN given ELSE Max(fresh)
     /\ pend' = pend \cup fresh
     /\ relay' = [relay EXCEPT ![c].pc = "fresh", ![c].batch = fresh]
  /\ UNCHANGED <<stream, added, idle, topic, faults>>

\* The end of a batch: after a claim there may be room for new entries.
BatchDone(c) ==
  /\ relay[c].pc \in {"reclaimed", "fresh"} /\ relay[c].batch = {}
  /\ relay' = [relay EXCEPT ![c] =
       [relay[c] EXCEPT
          !.pc = IF relay[c].pc = "reclaimed" /\ relay[c].room > 0 THEN "read" ELSE "claim",
          !.due = @ /\ relay[c].pc # "reclaimed"]]
  /\ UNCHANGED <<redisVars, topic, faults>>

\* decode_outbox_event rejects the entry: it is logged and stays pending.
Skip(c) ==
  /\ relay[c].pc \in {"reclaimed", "fresh"}
  /\ \E e \in Head1(relay[c].batch) \cap Malformed :
       relay' = [relay EXCEPT ![c].batch = @ \ {e}]
  /\ UNCHANGED <<redisVars, topic, faults>>

Sending(c) ==
  IF relay[c].pc \in {"reclaimed", "fresh"} THEN Head1(relay[c].batch) \ Malformed ELSE {}

\* An exception leaves run_once; the rest of the batch stays pending.
Raised(c) == relay' = [relay EXCEPT ![c].pc = "claim", ![c].batch = {}]

Acking == [reclaimed |-> "ack reclaimed", fresh |-> "ack fresh"]

MutSend(c) ==
  /\ \E e \in Sending(c), sent, told \in BOOLEAN :
       /\ topic' = IF sent THEN Append(topic, e) ELSE topic
       /\ told => sent
       /\ relay' = [relay EXCEPT ![c].pc = Acking[@]]
       /\ IF told THEN UNCHANGED faults ELSE faults < MaxFaults /\ faults' = faults + 1
  /\ UNCHANGED redisVars

\* send_and_wait: Kafka has the event, and the relay may or may not learn of it.
Send(c) ==
  /\ \E e \in Sending(c), sent, told \in BOOLEAN :
       /\ topic' = IF sent THEN Append(topic, e) ELSE topic
       /\ told => sent
       /\ IF told THEN /\ relay' = [relay EXCEPT ![c].pc = Acking[@]]
                       /\ UNCHANGED faults
                  ELSE /\ faults < MaxFaults /\ faults' = faults + 1
                       /\ Raised(c)
  /\ UNCHANGED redisVars

\* The script acknowledges and deletes in one step; an entry that another relay
\* acknowledged meanwhile raises.  The call itself can fail before or after.
Ack(c) ==
  /\ relay[c].pc \in {"ack reclaimed", "ack fresh"}
  /\ \E e \in Head1(relay[c].batch), done, told \in BOOLEAN :
       /\ ~(done /\ told) => faults < MaxFaults
       /\ faults' = IF done /\ told THEN faults ELSE faults + 1
       /\ pend' = IF done THEN pend \ {e} ELSE pend
       /\ idle' = IF done THEN idle \ {e} ELSE idle
       /\ stream' = IF done /\ e \in pend THEN stream \ {e} ELSE stream
       /\ IF done /\ told /\ e \in pend
          THEN relay' = [relay EXCEPT ![c] =
                 [relay[c] EXCEPT !.batch = @ \ {e}, !.room = @ - 1,
                                  !.pc = IF @ = "ack fresh" THEN "fresh" ELSE "reclaimed"]]
          ELSE Raised(c)
  /\ UNCHANGED <<added, given, topic>>

\* A shutdown request, a crash: another process takes the place, with its own
\* consumer name and a new cursor.
Restart(c) ==
  /\ faults < MaxFaults /\ relay[c] # Idle
  /\ faults' = faults + 1
  /\ relay' = [relay EXCEPT ![c] = Idle]
  /\ UNCHANGED <<redisVars, topic>>

Step(c) == Claim(c) \/ NotDue(c) \/ Read(c) \/ BatchDone(c) \/ Skip(c) \/ Send(c) \/ Ack(c)

Next == Add \/ Time \/ \E c \in Relays : Step(c) \/ Restart(c)

Fairness == WF_vars(Time) /\ \A c \in Relays : WF_vars(Step(c))

Spec == Init /\ [][Next]_vars

-----------------------------------------------------------------------------
TypeOK ==
  /\ stream \subseteq 1 .. added /\ given \in 0 .. added
  /\ idle \subseteq pend /\ pend \subseteq 1 .. given
  /\ topic \in Seq(1 .. added)
  /\ \A c \in Relays : relay[c].room \in 0 .. Batch

(* Audit data is never lost: an entry leaves the outbox only when Kafka has *)
(* it, a malformed one never, and what is neither pending nor new is gone,  *)
(* whatever sends, acknowledgements and processes fail in between and       *)
(* whichever two relays are given the same entry.                           *)
NothingLost ==
  /\ \A i \in 1 .. added : i \in stream \/ i \in Range(topic)
  /\ Malformed \cap (1 .. added) \subseteq stream
  /\ \A i \in stream : i > given \/ i \in pend

AuditSound == TypeOK /\ NothingLost

(* Every valid entry is published and leaves the outbox, malformed entries  *)
(* in front of it or not.                                                   *)
Drained == (stream \ Malformed # {}) ~> (stream \subseteq Malformed)
=============================================================================
