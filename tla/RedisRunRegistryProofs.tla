------------------------ MODULE RedisRunRegistryProofs ------------------------
(***************************************************************************)
(* What the Lua scripts guarantee for any number of runs, instances and    *)
(* interactions, any limits and any lease, whoever calls them with         *)
(* whatever token; what a client gets that follows the event stream while  *)
(* they run; and what the tasks of any number of service instances that    *)
(* call them guarantee, whatever stops, fails or stalls.  Only the last    *)
(* theorem assumes that event loops keep up with the clock; none assumes   *)
(* that Redis calls succeed.                                               *)
(***************************************************************************)
EXTENDS RedisRunRegistry, RunEventStream, FiniteSetTheorems, NaturalsInduction, TLAPS

\* Whatever an owner appends, it appends with a kind of Kinds and a storable key.
LEMMA AppendKinds ==
    ASSUME NEW r \in Runs, NEW i \in Instances, NEW f \in 1..MaxFence,
           OwnerAppend(r, i, f)
    PROVE  \E kind \in Kinds, key \in EventKey \cup {NoKey} :
              AppendEvent(r, i, f, kind, key)
  <1>1. /\ \A code \in Codes : ErrorKey(code) \in EventKey
        /\ DoneKey(f) \in EventKey
    BY BoundsAssumption DEF ErrorKey, DoneKey, EventKey
  <1>. QED
    BY <1>1 DEF OwnerAppend, Kinds

\* An update of one Boolean flag keeps a function Boolean.
LEMMA FlagUpdate ==
    ASSUME NEW S, NEW h \in [S -> BOOLEAN], NEW x \in S, NEW b \in BOOLEAN
    PROVE  /\ [h EXCEPT ![x] = b] \in [S -> BOOLEAN]
           /\ [h EXCEPT ![x] = @ \/ b] \in [S -> BOOLEAN]
  OBVIOUS

LEMMA KeysUpdate ==
    ASSUME NEW S, NEW T, NEW h \in [S -> SUBSET T], NEW x \in S, NEW k \in T \cup {NoKey}
    PROVE  [h EXCEPT ![x] = IF k = NoKey THEN @ ELSE @ \cup {k}] \in [S -> SUBSET T]
  OBVIOUS

\* Counting a change of status keeps the counters integers.
LEMMA CountType ==
    ASSUME NEW old, NEW new, metrics \in [Status -> Int], Count(old, new)
    PROVE  metrics' \in [Status -> Int]
  BY DEF Count

LEMMA UntilType == StoreTypeOK => Until \in Nat /\ Until > clock
  BY LeaseAssumption, BoundsAssumption DEF StoreTypeOK, Until

LEMMA TypeInit == StoreInit => StoreTypeOK
  BY BoundsAssumption DEF StoreInit, StoreTypeOK, Status, Pending, Terminal,
       NotMember, Event, EventKey

LEMMA ReassignType ==
    ASSUME StoreTypeOK, NEW r \in Runs, NEW i \in Instances, Reassign(r, i)
    PROVE  /\ status' \in [Runs -> Status]
           /\ owner' \in [Runs -> Instances \cup {NoInstance}]
           /\ fence' \in [Runs -> Nat]
           /\ lease' \in [Runs -> Nat]
           /\ emitted' \in [Runs -> BOOLEAN]
           /\ active' \in [Runs -> Int]
           /\ running' \in [Runs -> Int]
           /\ metrics' \in [Status -> Int]
  <1>1. status' \in [Runs -> Status]
    BY DEF Reassign, StoreTypeOK, Status, Pending
  <1>2. emitted' \in [Runs -> BOOLEAN]
    BY FlagUpdate DEF Reassign, ClearDone, StoreTypeOK
  <1>3. metrics' \in [Status -> Int]
    BY CountType DEF Reassign, StoreTypeOK
  <1>4. /\ lease' \in [Runs -> Nat]
        /\ active' \in [Runs -> Int]
        /\ running' \in [Runs -> Int]
    BY UntilType DEF Reassign, StoreTypeOK, NotMember
  <1>. QED
    BY <1>1, <1>2, <1>3, <1>4 DEF Reassign, StoreTypeOK

LEMMA LeaveType ==
    ASSUME StoreTypeOK, NEW r \in Runs, NEW new \in Status, LeaveExecution(r, new)
    PROVE  /\ status' \in [Runs -> Status]
           /\ lease' \in [Runs -> Nat]
           /\ active' \in [Runs -> Int]
           /\ running' \in [Runs -> Int]
           /\ metrics' \in [Status -> Int]
  <1>1. metrics' \in [Status -> Int]
    BY CountType DEF LeaveExecution, StoreTypeOK
  <1>. QED
    BY <1>1 DEF LeaveExecution, Unindex, StoreTypeOK, NotMember

LEMMA TypeCreate ==
    ASSUME StoreTypeOK, NEW r \in Runs, NEW i \in Instances, Create(r, i)
    PROVE  StoreTypeOK'
  <1>1. status' \in [Runs -> Status]
    BY DEF Create, StoreTypeOK, Status, Pending
  <1>2. metrics' \in [Status -> Int]
    BY DEF Create, StoreTypeOK, Status, Pending, Terminal
  <1>3. /\ owner' \in [Runs -> Instances \cup {NoInstance}]
        /\ fence' \in [Runs -> Nat]
        /\ lease' \in [Runs -> Nat]
        /\ active' \in [Runs -> Int]
    BY UntilType DEF Create, StoreTypeOK
  <1>. QED
    BY <1>1, <1>2, <1>3 DEF Create, streamVars, StoreTypeOK

LEMMA TypeAppend ==
    ASSUME StoreTypeOK, NEW r \in Runs, NEW i \in Instances, NEW f \in 1..MaxFence,
           NEW kind \in Kinds, NEW key \in EventKey \cup {NoKey},
           AppendEvent(r, i, f, kind, key)
    PROVE  StoreTypeOK'
  <1>1. CASE key \in keys[r]
    BY <1>1 DEF AppendEvent, indexVars, StoreTypeOK
  <1>2. CASE key \notin keys[r]
    <2>1. [kind |-> kind, fence |-> f] \in Event
      BY BoundsAssumption DEF Event
    <2>2. events' \in [Runs -> Seq(Event)]
      <3>1. events' = [events EXCEPT ![r] = Append(@, [kind |-> kind, fence |-> f])]
        BY <1>2 DEF AppendEvent
      <3>2. Append(events[r], [kind |-> kind, fence |-> f]) \in Seq(Event)
        BY <2>1 DEF StoreTypeOK
      <3>. QED
        BY <3>1, <3>2 DEF StoreTypeOK
    <2>3. keys' \in [Runs -> SUBSET EventKey]
      <3>1. keys' = [keys EXCEPT ![r] = IF key = NoKey THEN @ ELSE @ \cup {key}]
        BY <1>2 DEF AppendEvent
      <3>. QED
        BY <3>1, KeysUpdate DEF StoreTypeOK
    <2>4. emitted' \in [Runs -> BOOLEAN]
      <3>1. emitted' = [emitted EXCEPT ![r] = @ \/ kind = "done"]
        BY <1>2 DEF AppendEvent
      <3>2. (kind = "done") \in BOOLEAN
        OBVIOUS
      <3>. QED
        BY <3>1, <3>2, FlagUpdate DEF StoreTypeOK
    <2>. QED
      BY <2>2, <2>3, <2>4 DEF AppendEvent, indexVars, StoreTypeOK
  <1>. QED
    BY <1>1, <1>2

LEMMA TypeCancel ==
    ASSUME StoreTypeOK, NEW r \in Runs, Cancel(r)
    PROVE  StoreTypeOK'
  <1>1. events' \in [Runs -> Seq(Event)]
    <2>1. /\ [kind |-> "error", fence |-> fence[r] + 1] \in Event
          /\ [kind |-> "done", fence |-> fence[r] + 1] \in Event
      BY DEF StoreTypeOK, Event, Kinds
    <2>. QED
      BY <2>1 DEF Cancel, StoreTypeOK
  <1>2. emitted' \in [Runs -> BOOLEAN]
    <2>1. emitted' = [emitted EXCEPT ![r] = @ \/ r \in StreamRuns]
      BY DEF Cancel
    <2>2. (r \in StreamRuns) \in BOOLEAN
      OBVIOUS
    <2>. QED
      BY <2>1, <2>2, FlagUpdate DEF StoreTypeOK
  <1>3. "cancelled" \in Status
    BY DEF Status, Terminal
  <1>4. fence' \in [Runs -> Nat]
    BY DEF Cancel, StoreTypeOK
  <1>. QED
    BY <1>1, <1>2, <1>3, <1>4, LeaveType DEF Cancel, StoreTypeOK

LEMMA TypePause ==
    ASSUME StoreTypeOK, NEW r \in Runs, NEW i \in Instances, NEW f \in 1..MaxFence,
           NEW n \in Interactions, PauseForInput(r, i, f, n)
    PROVE  StoreTypeOK'
  <1>1. [kind |-> "input", fence |-> NoFence] \in Event
    BY DEF Event, Kinds, NoFence
  <1>2. events' \in [Runs -> Seq(Event)]
    BY <1>1 DEF PauseForInput, StoreTypeOK
  <1>3. "waiting_for_input" \in Status
    BY DEF Status
  <1>4. interaction' \in [Runs -> Interactions \cup {NoInteraction}]
    BY DEF PauseForInput, StoreTypeOK
  <1>. QED
    BY <1>2, <1>3, <1>4, LeaveType DEF PauseForInput, StoreTypeOK

LEMMA TypeResume ==
    ASSUME StoreTypeOK, NEW r \in Runs, NEW i \in Instances, NEW p \in Responses,
           NEW n \in Interactions, Resume(r, i, p, n)
    PROVE  StoreTypeOK'
  <1>1. answered' \in [Runs -> SUBSET (Responses \X Interactions)]
    <2>1. <<p, n>> \in Responses \X Interactions
      OBVIOUS
    <2>. QED
      BY <2>1 DEF Resume, StoreTypeOK
  <1>2. interaction' \in [Runs -> Interactions \cup {NoInteraction}]
    BY DEF Resume, StoreTypeOK
  <1>. QED
    BY <1>1, <1>2, ReassignType DEF Resume, streamVars, StoreTypeOK

\* Every script keeps the types.
LEMMA TypeStep ==
    ASSUME StoreTypeOK, [StoreNext]_storeVars
    PROVE  StoreTypeOK'
  <1>1. CASE UNCHANGED storeVars
    BY <1>1 DEF storeVars, hashVars, streamVars, indexVars, StoreTypeOK
  <1>2. CASE Advance
    BY <1>2, BoundsAssumption DEF Advance, hashVars, streamVars, indexVars, StoreTypeOK
  <1>3. ASSUME NEW r \in Runs, NEW i \in Instances, TakeOver(r, i)
        PROVE  StoreTypeOK'
    BY <1>3, ReassignType DEF TakeOver, streamVars, StoreTypeOK
  <1>4. ASSUME NEW r \in Runs, NEW i \in Instances, NEW f \in 1..MaxFence,
               AcquireRunning(r, i, f)
        PROVE  StoreTypeOK'
    <2>1. metrics' \in [Status -> Int]
      BY <1>4, CountType DEF AcquireRunning, StoreTypeOK
    <2>2. status' \in [Runs -> Status]
      BY <1>4 DEF AcquireRunning, StoreTypeOK, Status, Pending
    <2>3. /\ lease' \in [Runs -> Nat]
          /\ active' \in [Runs -> Int]
          /\ running' \in [Runs -> Int]
      <3>1. /\ lease' = [lease EXCEPT ![r] = Until]
            /\ active' = [active EXCEPT ![r] = Until]
            /\ running' = [running EXCEPT ![r] = Until]
        BY <1>4 DEF AcquireRunning
      <3>2. Until \in Nat
        BY UntilType
      <3>. QED
        BY <3>1, <3>2 DEF StoreTypeOK
    <2>. QED
      BY <1>4, <2>1, <2>2, <2>3 DEF AcquireRunning, streamVars, StoreTypeOK
  <1>5. ASSUME NEW r \in Runs, NEW i \in Instances, NEW f \in 1..MaxFence,
               Heartbeat(r, i, f)
        PROVE  StoreTypeOK'
    <2>1. /\ lease' \in [Runs -> Nat]
          /\ active' \in [Runs -> Int]
      BY <1>5, UntilType DEF Heartbeat, StoreTypeOK
    <2>2. running' \in [Runs -> Int]
      BY <1>5, UntilType DEF Heartbeat, StoreTypeOK
    <2>. QED
      BY <1>5, <2>1, <2>2 DEF Heartbeat, streamVars, StoreTypeOK
  <1>6. ASSUME NEW r \in Runs, NEW i \in Instances, NEW f \in 1..MaxFence,
               ReleaseLease(r, i, f)
        PROVE  StoreTypeOK'
    BY <1>6 DEF ReleaseLease, streamVars, StoreTypeOK
  <1>7. ASSUME NEW r \in Runs, NEW i \in Instances, NEW f \in 1..MaxFence,
               NEW target \in Terminal, Transition(r, i, f, target)
        PROVE  StoreTypeOK'
    <2>1. target \in Status
      BY DEF Status
    <2>. QED
      BY <1>7, <2>1, LeaveType DEF Transition, streamVars, StoreTypeOK
  <1>8. ASSUME NEW r \in Runs, NEW i \in Instances, NEW f \in 1..MaxFence,
               SetRunId(r, i, f)
        PROVE  StoreTypeOK'
    BY <1>8, BoundsAssumption DEF SetRunId, streamVars, indexVars, StoreTypeOK
  <1>9. ASSUME NEW r \in Runs, NEW i \in Instances, NEW f \in 1..MaxFence,
               MarkStreamFailed(r, i, f)
        PROVE  StoreTypeOK'
    <2>1. failed' \in [Runs -> BOOLEAN]
      BY <1>9, FlagUpdate DEF MarkStreamFailed, StoreTypeOK
    <2>. QED
      BY <1>9, <2>1 DEF MarkStreamFailed, streamVars, indexVars, StoreTypeOK
  <1>10. ASSUME NEW r \in Runs, NEW i \in Instances, ClientScript(r, i)
         PROVE  StoreTypeOK'
    BY <1>10, <1>3, TypeCreate, TypeCancel, TypeResume DEF ClientScript
  <1>11. ASSUME NEW r \in Runs, NEW i \in Instances, NEW f \in 1..MaxFence,
                OwnerScript(r, i, f)
         PROVE  StoreTypeOK'
    <2>1. CASE OwnerAppend(r, i, f)
      BY <2>1, AppendKinds, TypeAppend
    <2>. QED
      BY <1>11, <1>4, <1>5, <1>6, <1>7, <1>8, <1>9, <2>1, TypePause DEF OwnerScript
  <1>. QED
    BY <1>1, <1>2, <1>10, <1>11 DEF StoreNext

\* The fields keep their types along every behaviour of the scripts.
THEOREM StoreTypes == StoreSpec => []StoreTypeOK
  BY TypeInit, TypeStep, PTL DEF StoreSpec

-----------------------------------------------------------------------------
(***************************************************************************)
(* The inductive invariant.  DoneFlag and StreamOrder are not inductive    *)
(* alone: the event a new executor appends is in order only because no     *)
(* event is newer than the current token, and creating a run starts from   *)
(* an empty stream.                                                        *)
(***************************************************************************)
Fresh ==
    \A r \in Runs :
        status[r] = "absent" => fence[r] = 0 /\ events[r] = <<>> /\ ~emitted[r]

StoreInv ==
    StoreTypeOK /\ Fresh /\ LeaseIndex /\ StreamOrder /\ DoneFlag /\ ResponseBinding

LEMMA InvInit == StoreInit => StoreInv
  <1>. SUFFICES ASSUME StoreInit PROVE StoreInv
    OBVIOUS
  <1>1. StoreTypeOK
    BY TypeInit
  <1>2. Fresh /\ LeaseIndex /\ ResponseBinding
    BY DEF StoreInit, Fresh, LeaseIndex, ResponseBinding, Pending, NotMember
  <1>3. StreamOrder /\ DoneFlag
    <2>1. \A r \in Runs : DOMAIN events[r] = {}
      BY DEF StoreInit
    <2>2. StreamOrder
      BY <2>1 DEF StreamOrder, Ordered
    <2>3. \A r \in Runs : ~emitted[r]
      BY DEF StoreInit
    <2>. QED
      BY <2>1, <2>2, <2>3, RunsAssumption DEF DoneFlag, HasDone
  <1>. QED
    BY <1>1, <1>2, <1>3 DEF StoreInv

\* The indexes follow the hash through every script.
LEMMA LeaseIndexStep ==
    ASSUME StoreTypeOK, LeaseIndex, [StoreNext]_storeVars
    PROVE  LeaseIndex'
  <1>1. CASE UNCHANGED storeVars
    BY <1>1 DEF storeVars, hashVars, indexVars, LeaseIndex
  <1>2. CASE Advance
    BY <1>2 DEF Advance, hashVars, indexVars, LeaseIndex
  <1>3. ASSUME NEW r \in Runs, NEW i \in Instances, Create(r, i)
        PROVE  LeaseIndex'
    BY <1>3 DEF Create, StoreTypeOK, LeaseIndex, Pending, NotMember
  <1>4. ASSUME NEW r \in Runs, NEW i \in Instances, Reassign(r, i)
        PROVE  LeaseIndex'
    BY <1>4 DEF Reassign, StoreTypeOK, LeaseIndex, Pending, NotMember
  <1>5. ASSUME NEW r \in Runs, NEW new \in Status \ Pending, LeaveExecution(r, new)
        PROVE  LeaseIndex'
    BY <1>5 DEF LeaveExecution, Unindex, StoreTypeOK, LeaseIndex, Pending, NotMember
  <1>6. ASSUME NEW r \in Runs, NEW i \in Instances, NEW f \in 1..MaxFence,
               AcquireRunning(r, i, f)
        PROVE  LeaseIndex'
    BY <1>6 DEF AcquireRunning, StoreTypeOK, LeaseIndex, Pending, NotMember
  <1>7. ASSUME NEW r \in Runs, NEW i \in Instances, NEW f \in 1..MaxFence,
               Heartbeat(r, i, f)
        PROVE  LeaseIndex'
    BY <1>7 DEF Heartbeat, StoreTypeOK, LeaseIndex, Pending, NotMember
  <1>8. ASSUME NEW r \in Runs, NEW i \in Instances, NEW f \in 1..MaxFence,
               ReleaseLease(r, i, f)
        PROVE  LeaseIndex'
    BY <1>8 DEF ReleaseLease, StoreTypeOK, LeaseIndex, Pending, NotMember
  <1>9. CASE UNCHANGED <<status, lease, active, running>>
    BY <1>9 DEF LeaseIndex
  <1>10. ASSUME NEW r \in Runs, NEW i \in Instances, ClientScript(r, i)
         PROVE  LeaseIndex'
    <2>1. "cancelled" \in Status \ Pending
      BY DEF Status, Terminal, Pending
    <2>. QED
      BY <1>10, <1>3, <1>4, <1>5, <2>1 DEF ClientScript, TakeOver, Cancel, Resume
  <1>11. ASSUME NEW r \in Runs, NEW i \in Instances, NEW f \in 1..MaxFence,
                OwnerScript(r, i, f)
         PROVE  LeaseIndex'
    <2>1. Terminal \cup {"waiting_for_input"} \subseteq Status \ Pending
      BY DEF Status, Terminal, Pending
    <2>2. CASE OwnerAppend(r, i, f) \/ SetRunId(r, i, f) \/ MarkStreamFailed(r, i, f)
      BY <1>9, <2>2 DEF OwnerAppend, AppendEvent, SetRunId, MarkStreamFailed, indexVars
    <2>3. ASSUME NEW target \in Terminal, Transition(r, i, f, target)
          PROVE  LeaseIndex'
      BY <1>5, <2>1, <2>3 DEF Transition
    <2>4. ASSUME NEW n \in Interactions, PauseForInput(r, i, f, n)
          PROVE  LeaseIndex'
      BY <1>5, <2>1, <2>4 DEF PauseForInput
    <2>. QED
      BY <1>11, <1>6, <1>7, <1>8, <2>2, <2>3, <2>4 DEF OwnerScript
  <1>. QED
    BY <1>1, <1>2, <1>10, <1>11 DEF StoreNext

-----------------------------------------------------------------------------
\* What an append does to a stream.
LEMMA AppendAt ==
    ASSUME NEW s \in Seq(Event), NEW e \in Event
    PROVE  /\ Append(s, e) \in Seq(Event)
           /\ DOMAIN s = 1..Len(s)
           /\ Len(s) \in Nat
           /\ DOMAIN Append(s, e) = 1..(Len(s) + 1)
           /\ \A n \in 1..Len(s) : Append(s, e)[n] = s[n]
           /\ Append(s, e)[Len(s) + 1] = e
  OBVIOUS

LEMMA ConcatTwo ==
    ASSUME NEW s \in Seq(Event), NEW d \in Event, NEW e \in Event
    PROVE  s \o <<d, e>> = Append(Append(s, d), e)
  OBVIOUS

LEMMA EventFence ==
    ASSUME NEW s \in Seq(Event), NEW n \in DOMAIN s
    PROVE  s[n] \in Event /\ s[n].fence \in Nat
  <1>1. s[n] \in Event
    OBVIOUS
  <1>. QED
    BY <1>1 DEF Event

\* An event of the current token, or of none, may be appended.
LEMMA OrderedAppend ==
    ASSUME NEW s \in Seq(Event), NEW f \in Nat, Ordered(s, f),
           NEW e \in Event, e.fence \in {f, NoFence}
    PROVE  Ordered(Append(s, e), f)
  <1>. SUFFICES ASSUME NEW m \in DOMAIN Append(s, e), NEW n \in DOMAIN Append(s, e)
                PROVE  /\ Append(s, e)[m].fence <= f
                       /\ m < n /\ Append(s, e)[n].fence # NoFence =>
                             Append(s, e)[m].fence <= Append(s, e)[n].fence
    BY DEF Ordered
  <1>1. \A k \in 1..Len(s) : s[k].fence \in Nat /\ s[k].fence <= f
    BY AppendAt, EventFence DEF Ordered
  <1>2. Append(s, e)[m].fence <= f
    BY <1>1, AppendAt DEF NoFence
  <1>3. ASSUME m < n, Append(s, e)[n].fence # NoFence
        PROVE  Append(s, e)[m].fence <= Append(s, e)[n].fence
    <2>1. m \in 1..Len(s) /\ Append(s, e)[m] = s[m]
      BY <1>3, AppendAt
    <2>2. CASE n = Len(s) + 1
      BY <1>1, <1>3, <2>1, <2>2, AppendAt
    <2>3. CASE n # Len(s) + 1
      BY <1>3, <2>1, <2>3, AppendAt DEF Ordered
    <2>. QED
      BY <2>2, <2>3
  <1>. QED
    BY <1>2, <1>3

\* A stream that is in order under a token is in order under a newer one.
LEMMA OrderedGrow ==
    ASSUME NEW s \in Seq(Event), NEW f \in Nat, Ordered(s, f)
    PROVE  Ordered(s, f + 1) /\ ~HasDone(s, f + 1)
  <1>1. \A k \in DOMAIN s : s[k].fence \in Nat /\ s[k].fence <= f
    BY EventFence DEF Ordered
  <1>2. Ordered(s, f + 1)
    BY <1>1 DEF Ordered
  <1>3. ~HasDone(s, f + 1)
    <2>. SUFFICES ASSUME NEW n \in DOMAIN s, s[n] = [kind |-> "done", fence |-> f + 1]
                  PROVE  FALSE
      BY DEF HasDone
    <2>1. s[n].fence = f + 1
      OBVIOUS
    <2>. QED
      BY <1>1, <2>1
  <1>. QED
    BY <1>2, <1>3

\* An append adds a DONE of token f exactly when the event is one.
LEMMA HasDoneAppend ==
    ASSUME NEW s \in Seq(Event), NEW e \in Event, NEW f \in Nat
    PROVE  HasDone(Append(s, e), f) <=>
              HasDone(s, f) \/ e = [kind |-> "done", fence |-> f]
  <1>. DEFINE t == Append(s, e)
  <1>1. \A n \in DOMAIN s : n \in DOMAIN t /\ t[n] = s[n]
    BY AppendAt
  <1>2. Len(s) + 1 \in DOMAIN t /\ t[Len(s) + 1] = e
    BY AppendAt
  <1>3. \A n \in DOMAIN t : n \in DOMAIN s \/ n = Len(s) + 1
    BY AppendAt
  <1>4. HasDone(t, f) <=> HasDone(s, f) \/ e = [kind |-> "done", fence |-> f]
    <2>. HIDE DEF t
    <2>. QED
      BY <1>1, <1>2, <1>3 DEF HasDone
  <1>. QED
    BY <1>4

-----------------------------------------------------------------------------
\* What a script does to one run's token, flag and stream.  Every script is,
\* on every run, one of these.
Keeps(q) == fence'[q] = fence[q] /\ events'[q] = events[q] /\ emitted'[q] = emitted[q]

Starts(q) == status[q] = "absent" /\ fence'[q] = 1 /\ events'[q] = events[q]
             /\ emitted'[q] = emitted[q]

Passes(q) == fence'[q] = fence[q] + 1 /\ events'[q] = events[q] /\ ~emitted'[q]

Writes(q) ==
    /\ status[q] # "absent"
    /\ fence'[q] = fence[q]
    /\ \E e \in Event :
          /\ e.fence \in {fence[q], NoFence}
          /\ e.fence = NoFence => e.kind # "done"
          /\ events'[q] = Append(events[q], e)
          /\ emitted'[q] <=> emitted[q] \/ e.kind = "done"

Closes(q) ==
    /\ status[q] # "absent"
    /\ fence'[q] = fence[q] + 1
    /\ events'[q] = IF q \in StreamRuns
                    THEN events[q] \o <<[kind |-> "error", fence |-> fence[q] + 1],
                                        [kind |-> "done", fence |-> fence[q] + 1]>>
                    ELSE events[q]
    /\ emitted'[q] <=> emitted[q] \/ q \in StreamRuns

StreamChange(q) == Keeps(q) \/ Starts(q) \/ Passes(q) \/ Writes(q) \/ Closes(q)

LEMMA AppendChange ==
    ASSUME StoreTypeOK, NEW r \in Runs, NEW i \in Instances, NEW f \in 1..MaxFence,
           NEW kind \in Kinds, NEW key \in EventKey \cup {NoKey},
           AppendEvent(r, i, f, kind, key), NEW q \in Runs
    PROVE  StreamChange(q)
  <1>1. CASE key \in keys[r]
    BY <1>1 DEF AppendEvent, StreamChange, Keeps
  <1>2. CASE key \notin keys[r] /\ q # r
    BY <1>2 DEF AppendEvent, StreamChange, Keeps, StoreTypeOK
  <1>3. CASE key \notin keys[r] /\ q = r
    <2>. DEFINE e == [kind |-> kind, fence |-> f]
    <2>1. e \in Event /\ e.fence = f /\ e.kind = kind
      BY BoundsAssumption DEF Event
    <2>2. fence[r] = f /\ status[r] # "absent"
      BY DEF AppendEvent, CanAppend, Owns
    <2>3. fence'[q] = fence[q]
      BY DEF AppendEvent
    <2>4. events'[q] = Append(events[q], e)
      BY <1>3 DEF AppendEvent, StoreTypeOK
    <2>5. emitted'[q] <=> emitted[q] \/ kind = "done"
      BY <1>3 DEF AppendEvent, StoreTypeOK
    <2>6. f # NoFence
      BY DEF NoFence
    <2>7. Writes(q)
      BY <1>3, <2>1, <2>2, <2>3, <2>4, <2>5, <2>6 DEF Writes
    <2>. QED
      BY <2>7 DEF StreamChange
  <1>. QED
    BY <1>1, <1>2, <1>3

LEMMA ChangeStep ==
    ASSUME StoreTypeOK, [StoreNext]_storeVars, NEW q \in Runs
    PROVE  StreamChange(q)
  <1>1. CASE UNCHANGED <<fence, events, emitted>>
    BY <1>1 DEF StreamChange, Keeps
  <1>2. ASSUME NEW r \in Runs, NEW i \in Instances, Create(r, i)
        PROVE  StreamChange(q)
    BY <1>2 DEF Create, streamVars, StreamChange, Keeps, Starts, StoreTypeOK
  <1>3. ASSUME NEW r \in Runs, NEW i \in Instances, Reassign(r, i), UNCHANGED events
        PROVE  StreamChange(q)
    <2>1. CASE q = r
      <3>1. ~emitted'[q]
        BY <1>3, <2>1 DEF Reassign, ClearDone, StoreTypeOK
      <3>. QED
        BY <1>3, <2>1, <3>1 DEF Reassign, StreamChange, Passes, StoreTypeOK
    <2>2. CASE q # r
      <3>1. emitted'[q] = emitted[q]
        BY <1>3, <2>2 DEF Reassign, ClearDone, StoreTypeOK
      <3>. QED
        BY <1>3, <2>2, <3>1 DEF Reassign, StreamChange, Keeps, StoreTypeOK
    <2>. QED
      BY <2>1, <2>2
  <1>4. ASSUME NEW r \in Runs, Cancel(r)
        PROVE  StreamChange(q)
    <2>1. CASE q = r
      <3>1. emitted'[q] <=> emitted[q] \/ q \in StreamRuns
        BY <1>4, <2>1 DEF Cancel, StoreTypeOK
      <3>2. /\ status[q] # "absent"
            /\ fence'[q] = fence[q] + 1
            /\ events'[q] = IF q \in StreamRuns
                 THEN events[q] \o <<[kind |-> "error", fence |-> fence[q] + 1],
                                     [kind |-> "done", fence |-> fence[q] + 1]>>
                 ELSE events[q]
        BY <1>4, <2>1 DEF Cancel, StoreTypeOK
      <3>. QED
        BY <3>1, <3>2 DEF StreamChange, Closes
    <2>2. CASE q # r
      <3>1. emitted'[q] = emitted[q]
        BY <1>4, <2>2 DEF Cancel, StoreTypeOK
      <3>. QED
        BY <1>4, <2>2, <3>1 DEF Cancel, StreamChange, Keeps, StoreTypeOK
    <2>. QED
      BY <2>1, <2>2
  <1>5. ASSUME NEW r \in Runs, NEW i \in Instances, NEW f \in 1..MaxFence,
               NEW n \in Interactions, PauseForInput(r, i, f, n)
        PROVE  StreamChange(q)
    <2>1. CASE q = r
      <3>. DEFINE e == [kind |-> "input", fence |-> NoFence]
      <3>1. e \in Event /\ e.fence = NoFence /\ e.kind # "done"
        BY DEF Event, Kinds, NoFence
      <3>2. /\ status[q] # "absent" /\ fence'[q] = fence[q]
            /\ emitted'[q] = emitted[q]
        BY <1>5, <2>1 DEF PauseForInput
      <3>3. events'[q] = Append(events[q], e)
        BY <1>5, <2>1 DEF PauseForInput, StoreTypeOK
      <3>4. Writes(q)
        BY <3>1, <3>2, <3>3 DEF Writes
      <3>. QED
        BY <3>4 DEF StreamChange
    <2>2. CASE q # r
      BY <1>5, <2>2 DEF PauseForInput, StreamChange, Keeps, StoreTypeOK
    <2>. QED
      BY <2>1, <2>2
  <1>6. ASSUME NEW r \in Runs, NEW i \in Instances, ClientScript(r, i)
        PROVE  StreamChange(q)
    BY <1>2, <1>3, <1>4, <1>6 DEF ClientScript, TakeOver, Resume, streamVars
  <1>7. ASSUME NEW r \in Runs, NEW i \in Instances, NEW f \in 1..MaxFence,
               OwnerScript(r, i, f)
        PROVE  StreamChange(q)
    <2>1. CASE OwnerAppend(r, i, f)
      BY <2>1, AppendKinds, AppendChange
    <2>2. CASE \/ AcquireRunning(r, i, f) \/ Heartbeat(r, i, f)
               \/ ReleaseLease(r, i, f) \/ SetRunId(r, i, f)
               \/ MarkStreamFailed(r, i, f)
               \/ \E target \in Terminal : Transition(r, i, f, target)
      BY <1>1, <2>2 DEF AcquireRunning, Heartbeat, ReleaseLease, SetRunId,
         MarkStreamFailed, Transition, streamVars
    <2>. QED
      BY <1>5, <1>7, <2>1, <2>2 DEF OwnerScript
  <1>8. CASE Advance \/ UNCHANGED storeVars
    BY <1>1, <1>8 DEF Advance, storeVars, hashVars, streamVars
  <1>. QED
    BY <1>6, <1>7, <1>8 DEF StoreNext

-----------------------------------------------------------------------------
\* No event of a replaced executor follows one of its successor.
LEMMA StreamOrderStep ==
    ASSUME StoreTypeOK, Fresh, StreamOrder, [StoreNext]_storeVars
    PROVE  StreamOrder'
  <1>. SUFFICES ASSUME NEW q \in Runs PROVE Ordered(events'[q], fence'[q])
    BY DEF StreamOrder
  <1>1. events[q] \in Seq(Event) /\ fence[q] \in Nat /\ Ordered(events[q], fence[q])
    BY DEF StoreTypeOK, StreamOrder
  <1>2. CASE Keeps(q)
    BY <1>1, <1>2 DEF Keeps
  <1>3. CASE Starts(q)
    <2>1. fence[q] = 0 /\ fence'[q] = fence[q] + 1 /\ events'[q] = events[q]
      BY <1>3 DEF Fresh, Starts
    <2>. QED
      BY <1>1, <2>1, OrderedGrow
  <1>4. CASE Passes(q)
    BY <1>1, <1>4, OrderedGrow DEF Passes
  <1>5. CASE Writes(q)
    BY <1>1, <1>5, OrderedAppend DEF Writes
  <1>6. CASE Closes(q)
    <2>1. Ordered(events[q], fence[q] + 1) /\ fence[q] + 1 \in Nat
      BY <1>1, OrderedGrow
    <2>2. CASE q \notin StreamRuns
      BY <1>6, <2>1, <2>2 DEF Closes
    <2>3. CASE q \in StreamRuns
      <3>. DEFINE d == [kind |-> "error", fence |-> fence[q] + 1]
                  e == [kind |-> "done", fence |-> fence[q] + 1]
      <3>1. d \in Event /\ e \in Event /\ d.fence = fence[q] + 1 /\ e.fence = fence[q] + 1
        BY <2>1 DEF Event, Kinds
      <3>2. events'[q] = Append(Append(events[q], d), e) /\ fence'[q] = fence[q] + 1
        BY <1>1, <1>6, <2>3, <3>1, ConcatTwo DEF Closes
      <3>. HIDE DEF d, e
      <3>3. Append(events[q], d) \in Seq(Event) /\ Ordered(Append(events[q], d), fence[q] + 1)
        BY <1>1, <2>1, <3>1, OrderedAppend
      <3>. QED
        BY <2>1, <3>1, <3>2, <3>3, OrderedAppend
    <2>. QED
      BY <2>2, <2>3
  <1>. QED
    BY <1>2, <1>3, <1>4, <1>5, <1>6, ChangeStep DEF StreamChange

\* The flag follows the stream: passing the run on clears it because no DONE of
\* the new token can be there yet.
LEMMA DoneFlagStep ==
    ASSUME StoreTypeOK, Fresh, StreamOrder, DoneFlag, [StoreNext]_storeVars
    PROVE  DoneFlag'
  <1>. SUFFICES ASSUME NEW q \in StreamRuns
                PROVE  emitted'[q] <=> HasDone(events'[q], fence'[q])
    BY DEF DoneFlag
  <1>0. q \in Runs
    BY RunsAssumption
  <1>1. /\ events[q] \in Seq(Event) /\ fence[q] \in Nat /\ Ordered(events[q], fence[q])
        /\ emitted[q] <=> HasDone(events[q], fence[q])
    BY <1>0 DEF StoreTypeOK, StreamOrder, DoneFlag
  <1>2. CASE Keeps(q)
    BY <1>1, <1>2 DEF Keeps
  <1>3. CASE Starts(q)
    <2>1. /\ fence[q] = 0 /\ fence'[q] = fence[q] + 1 /\ events'[q] = events[q]
          /\ ~emitted'[q]
      BY <1>0, <1>3 DEF Fresh, Starts
    <2>. QED
      BY <1>1, <2>1, OrderedGrow
  <1>4. CASE Passes(q)
    BY <1>1, <1>4, OrderedGrow DEF Passes
  <1>5. CASE Writes(q)
    <2>1. PICK e \in Event :
            /\ e.fence \in {fence[q], NoFence}
            /\ e.fence = NoFence => e.kind # "done"
            /\ events'[q] = Append(events[q], e)
            /\ emitted'[q] <=> emitted[q] \/ e.kind = "done"
      BY <1>5 DEF Writes
    <2>2. e.kind = "done" <=> e = [kind |-> "done", fence |-> fence[q]]
      BY <2>1 DEF Event
    <2>3. fence'[q] = fence[q]
      BY <1>5 DEF Writes
    <2>. QED
      BY <1>1, <2>1, <2>2, <2>3, HasDoneAppend
  <1>6. CASE Closes(q)
    <2>. DEFINE d == [kind |-> "error", fence |-> fence[q] + 1]
                e == [kind |-> "done", fence |-> fence[q] + 1]
    <2>1. fence[q] + 1 \in Nat /\ d \in Event /\ e \in Event
      BY <1>1 DEF Event, Kinds
    <2>2. events'[q] = Append(Append(events[q], d), e) /\ fence'[q] = fence[q] + 1
      BY <1>1, <1>6, <2>1, ConcatTwo DEF Closes
    <2>3. Append(events[q], d) \in Seq(Event)
      BY <1>1, <2>1
    <2>4. HasDone(events'[q], fence'[q])
      <3>1. e = [kind |-> "done", fence |-> fence[q] + 1]
        OBVIOUS
      <3>. HIDE DEF d, e
      <3>2. HasDone(Append(Append(events[q], d), e), fence[q] + 1)
        BY <2>1, <2>3, <3>1, HasDoneAppend
      <3>. QED
        BY <2>2, <3>2
    <2>5. emitted'[q] <=> emitted[q] \/ q \in StreamRuns
      BY <1>6 DEF Closes
    <2>. QED
      BY <2>4, <2>5
  <1>. QED
    BY <1>0, <1>2, <1>3, <1>4, <1>5, <1>6, ChangeStep DEF StreamChange

\* A run that does not exist has no token and no stream: no script writes to
\* it, and none makes a run cease to exist.
LEMMA FreshStep ==
    ASSUME StoreTypeOK, Fresh, [StoreNext]_storeVars
    PROVE  Fresh'
  <1>. SUFFICES ASSUME NEW q \in Runs, status'[q] = "absent"
                PROVE  fence'[q] = 0 /\ events'[q] = <<>> /\ ~emitted'[q]
    BY DEF Fresh
  <1>1. CASE UNCHANGED <<status, fence, events, emitted>>
    BY <1>1 DEF Fresh
  <1>2. ASSUME NEW r \in Runs, NEW i \in Instances, Create(r, i)
        PROVE  fence'[q] = 0 /\ events'[q] = <<>> /\ ~emitted'[q]
    BY <1>2 DEF Create, streamVars, StoreTypeOK, Fresh
  <1>3. ASSUME NEW r \in Runs, NEW i \in Instances, Reassign(r, i), UNCHANGED events
        PROVE  fence'[q] = 0 /\ events'[q] = <<>> /\ ~emitted'[q]
    <2>1. q # r /\ status[q] = "absent"
      BY <1>3 DEF Reassign, StoreTypeOK
    <2>2. ~emitted'[q]
      BY <1>3, <2>1 DEF Reassign, ClearDone, StoreTypeOK, Fresh
    <2>. QED
      BY <1>3, <2>1, <2>2 DEF Reassign, StoreTypeOK, Fresh
  <1>4. ASSUME NEW r \in Runs, Cancel(r)
        PROVE  fence'[q] = 0 /\ events'[q] = <<>> /\ ~emitted'[q]
    <2>1. q # r /\ status[q] = "absent"
      BY <1>4 DEF Cancel, LeaveExecution, StoreTypeOK
    <2>2. ~emitted'[q]
      BY <1>4, <2>1 DEF Cancel, StoreTypeOK, Fresh
    <2>. QED
      BY <1>4, <2>1, <2>2 DEF Cancel, StoreTypeOK, Fresh
  <1>5. ASSUME NEW r \in Runs, NEW i \in Instances, NEW f \in 1..MaxFence,
               NEW n \in Interactions, PauseForInput(r, i, f, n)
        PROVE  fence'[q] = 0 /\ events'[q] = <<>> /\ ~emitted'[q]
    BY <1>5 DEF PauseForInput, LeaveExecution, StoreTypeOK, Fresh
  <1>6. ASSUME NEW r \in Runs, NEW i \in Instances, NEW f \in 1..MaxFence,
               NEW target \in Terminal, Transition(r, i, f, target)
        PROVE  fence'[q] = 0 /\ events'[q] = <<>> /\ ~emitted'[q]
    BY <1>6 DEF Transition, LeaveExecution, streamVars, StoreTypeOK, Fresh, Terminal
  <1>7. ASSUME NEW r \in Runs, NEW i \in Instances, NEW f \in 1..MaxFence,
               AcquireRunning(r, i, f)
        PROVE  fence'[q] = 0 /\ events'[q] = <<>> /\ ~emitted'[q]
    BY <1>7 DEF AcquireRunning, streamVars, StoreTypeOK, Fresh
  <1>8. ASSUME NEW r \in Runs, NEW i \in Instances, NEW f \in 1..MaxFence,
               NEW kind \in Kinds, NEW key \in EventKey \cup {NoKey},
               AppendEvent(r, i, f, kind, key)
        PROVE  fence'[q] = 0 /\ events'[q] = <<>> /\ ~emitted'[q]
    <2>1. CASE key \in keys[r]
      BY <1>1, <1>8, <2>1 DEF AppendEvent
    <2>2. CASE key \notin keys[r]
      <3>1. q # r /\ status[q] = "absent"
        BY <1>8 DEF AppendEvent, CanAppend, Owns
      <3>2. emitted'[q] = emitted[q]
        BY <1>8, <2>2, <3>1 DEF AppendEvent, StoreTypeOK
      <3>3. fence'[q] = fence[q] /\ events'[q] = events[q]
        BY <1>8, <2>2, <3>1 DEF AppendEvent, StoreTypeOK
      <3>. QED
        BY <3>1, <3>2, <3>3 DEF Fresh
    <2>. QED
      BY <2>1, <2>2
  <1>9. ASSUME NEW r \in Runs, NEW i \in Instances, ClientScript(r, i)
        PROVE  fence'[q] = 0 /\ events'[q] = <<>> /\ ~emitted'[q]
    BY <1>2, <1>3, <1>4, <1>9 DEF ClientScript, TakeOver, Resume, streamVars
  <1>10. ASSUME NEW r \in Runs, NEW i \in Instances, NEW f \in 1..MaxFence,
                OwnerScript(r, i, f)
         PROVE  fence'[q] = 0 /\ events'[q] = <<>> /\ ~emitted'[q]
    <2>1. CASE OwnerAppend(r, i, f)
      BY <1>8, <2>1, AppendKinds
    <2>2. CASE \/ Heartbeat(r, i, f) \/ ReleaseLease(r, i, f)
               \/ SetRunId(r, i, f) \/ MarkStreamFailed(r, i, f)
      BY <1>1, <2>2 DEF Heartbeat, ReleaseLease, SetRunId, MarkStreamFailed, streamVars
    <2>. QED
      BY <1>5, <1>6, <1>7, <1>10, <2>1, <2>2 DEF OwnerScript
  <1>11. CASE Advance \/ UNCHANGED storeVars
    BY <1>1, <1>11 DEF Advance, storeVars, hashVars, streamVars
  <1>. QED
    BY <1>9, <1>10, <1>11 DEF StoreNext

\* Only a resume binds a response id, and only one that is free or bound alike.
LEMMA BindingStep ==
    ASSUME StoreTypeOK, ResponseBinding, [StoreNext]_storeVars
    PROVE  ResponseBinding'
  <1>1. CASE UNCHANGED answered
    BY <1>1 DEF ResponseBinding
  <1>2. ASSUME NEW r \in Runs, NEW i \in Instances, NEW p \in Responses,
               NEW n \in Interactions, Resume(r, i, p, n)
        PROVE  ResponseBinding'
    <2>. SUFFICES ASSUME NEW q \in Runs, NEW a \in answered'[q], NEW b \in answered'[q],
                         a[1] = b[1]
                  PROVE  a = b
      BY DEF ResponseBinding
    <2>1. CASE q # r
      BY <1>2, <2>1 DEF Resume, ResponseBinding, StoreTypeOK
    <2>2. CASE q = r
      <3>1. answered'[q] = answered[r] \cup {<<p, n>>}
        BY <1>2, <2>2 DEF Resume, StoreTypeOK
      <3>2. \A c \in answered[r] : c \in Responses \X Interactions
        BY DEF StoreTypeOK
      <3>3. \A c \in answered[r] : c[1] = p => c[2] = n
        BY <1>2 DEF Resume, MayAnswer
      <3>4. \A c \in answered[r] : c[1] = p => c = <<p, n>>
        BY <3>2, <3>3
      <3>. QED
        BY <2>2, <3>1, <3>4 DEF ResponseBinding
    <2>. QED
      BY <2>1, <2>2
  <1>3. ASSUME NEW r \in Runs, NEW i \in Instances, ClientScript(r, i)
        PROVE  ResponseBinding'
    BY <1>1, <1>2, <1>3 DEF ClientScript, Create, TakeOver, Cancel
  <1>4. ASSUME NEW r \in Runs, NEW i \in Instances, NEW f \in 1..MaxFence,
               OwnerScript(r, i, f)
        PROVE  ResponseBinding'
    BY <1>1, <1>4 DEF OwnerScript, OwnerAppend, AppendEvent, AcquireRunning, Heartbeat,
       ReleaseLease, Transition, SetRunId, MarkStreamFailed, PauseForInput
  <1>. QED
    BY <1>1, <1>3, <1>4 DEF StoreNext, Advance, storeVars

\* The invariant holds along every behaviour of the scripts.
THEOREM StoreInvariant == StoreSpec => []StoreInv
  <1>1. StoreInv /\ [StoreNext]_storeVars => StoreInv'
    BY TypeStep, LeaseIndexStep, StreamOrderStep, DoneFlagStep, FreshStep, BindingStep
       DEF StoreInv
  <1>. QED
    BY <1>1, InvInit, PTL DEF StoreSpec

\* Fencing, for any number of instances and any token they present: the events
\* of a run are in the order of the tokens of the executors that wrote them.
THEOREM Fencing == StoreSpec => []StreamOrder
  BY StoreInvariant, PTL DEF StoreInv

\* The lease indexes that the admission limits count always mirror the hash.
THEOREM Indexes == StoreSpec => []LeaseIndex
  BY StoreInvariant, PTL DEF StoreInv

\* terminal_event_emitted always tells whether the current executor's DONE is
\* in the stream.
THEOREM DoneFlags == StoreSpec => []DoneFlag
  BY StoreInvariant, PTL DEF StoreInv

\* A response id answers at most one interaction of a run.
THEOREM Bindings == StoreSpec => []ResponseBinding
  BY StoreInvariant, PTL DEF StoreInv

\* What the scripts keep in separate keys belongs together, for any number of
\* runs, instances, late executors and repeated responses.
THEOREM Consistency == StoreSpec => []StoreConsistent
  BY StoreInvariant, PTL DEF StoreInv, StoreConsistent

-----------------------------------------------------------------------------
\* The refinement mapping turns an append to the stream into an append to the
\* log of tokens.
LEMMA TokensAppend ==
    ASSUME NEW s \in Seq(Event), NEW e \in Event
    PROVE  Tokens(s) \in Seq(Nat) /\ Tokens(Append(s, e)) = Append(Tokens(s), e.fence)
  <1>1. /\ DOMAIN Tokens(s) = 1..Len(s)
        /\ Len(s) \in Nat
        /\ \A n \in 1..Len(s) : Tokens(s)[n] = s[n].fence /\ s[n].fence \in Nat
    BY AppendAt, EventFence DEF Tokens
  <1>2. Tokens(s) \in Seq(Nat) /\ Len(Tokens(s)) = Len(s)
    BY <1>1 DEF Tokens
  <1>3. e.fence \in Nat
    BY DEF Event
  <1>4. Tokens(Append(s, e)) = [n \in 1..(Len(s) + 1) |-> Append(s, e)[n].fence]
    BY AppendAt DEF Tokens
  <1>5. Append(Tokens(s), e.fence) =
           [n \in 1..(Len(s) + 1) |-> IF n = Len(s) + 1 THEN e.fence ELSE Tokens(s)[n]]
    BY <1>2, <1>3
  <1>6. \A n \in 1..(Len(s) + 1) :
           Append(s, e)[n].fence = IF n = Len(s) + 1 THEN e.fence ELSE Tokens(s)[n]
    BY <1>1, AppendAt
  <1>. QED
    BY <1>2, <1>4, <1>5, <1>6

\* The mapped log.
Log == [r \in Runs |-> Tokens(events[r])]

LEMMA LogSame == UNCHANGED events => UNCHANGED Log
  BY DEF Log

LEMMA LogAppend ==
    ASSUME StoreTypeOK, NEW r \in Runs, NEW e \in Event,
           events' = [events EXCEPT ![r] = Append(@, e)]
    PROVE  Log' = [Log EXCEPT ![r] = Append(@, e.fence)]
  <1>1. events'[r] = Append(events[r], e) /\ \A q \in Runs \ {r} : events'[q] = events[q]
    BY DEF StoreTypeOK
  <1>2. Tokens(events'[r]) = Append(Tokens(events[r]), e.fence)
    BY <1>1, TokensAppend DEF StoreTypeOK
  <1>3. \A q \in Runs \ {r} : Tokens(events'[q]) = Tokens(events[q])
    BY <1>1
  <1>4. Log' = [q \in Runs |-> Tokens(events'[q])]
    BY DEF Log
  <1>. QED
    BY <1>2, <1>3, <1>4, Zenon DEF Log

LEMMA LogClose ==
    ASSUME StoreTypeOK, NEW r \in Runs, Cancel(r)
    PROVE  \/ Log' = [Log EXCEPT ![r] = @ \o <<fence[r] + 1, fence[r] + 1>>]
           \/ UNCHANGED Log
  <1>. DEFINE d == [kind |-> "error", fence |-> fence[r] + 1]
              e == [kind |-> "done", fence |-> fence[r] + 1]
  <1>0. fence[r] + 1 \in Nat /\ events[r] \in Seq(Event)
    BY DEF StoreTypeOK
  <1>1. /\ d \in Event /\ e \in Event
        /\ d.fence = fence[r] + 1 /\ e.fence = fence[r] + 1
    BY <1>0 DEF Event, Kinds
  <1>2. CASE r \notin StreamRuns
    <2>1. \A q \in Runs : events'[q] = events[q]
      BY <1>2 DEF Cancel, StoreTypeOK
    <2>. QED
      BY <2>1 DEF Log
  <1>3. CASE r \in StreamRuns
    <2>1. events'[r] = events[r] \o <<d, e>> /\ \A q \in Runs \ {r} : events'[q] = events[q]
      BY <1>3 DEF Cancel, StoreTypeOK
    <2>. HIDE DEF d, e
    <2>2. events'[r] = Append(Append(events[r], d), e)
      BY <1>0, <1>1, <2>1, ConcatTwo
    <2>3. Append(events[r], d) \in Seq(Event)
      BY <1>0, <1>1
    <2>4. Tokens(events'[r]) = Append(Append(Tokens(events[r]), fence[r] + 1), fence[r] + 1)
      BY <1>0, <1>1, <2>2, <2>3, TokensAppend
    <2>5. Tokens(events[r]) \in Seq(Nat)
      BY <1>0, <1>1, TokensAppend
    <2>6. Tokens(events'[r]) = Tokens(events[r]) \o <<fence[r] + 1, fence[r] + 1>>
      BY <1>0, <2>4, <2>5
    <2>. QED
      BY <2>1, <2>6 DEF Log
  <1>. QED
    BY <1>2, <1>3

LEMMA LifecycleInit == StoreInit => Lifecycle!Init
  <1>. SUFFICES ASSUME StoreInit PROVE Lifecycle!Init
    OBVIOUS
  <1>1. \A r \in Runs : Tokens(events[r]) = <<>>
    BY DEF StoreInit, Tokens
  <1>. QED
    BY <1>1 DEF StoreInit, Lifecycle!Init

\* Every script is a step of the life cycle or does not show in it.
LEMMA LifecycleStep ==
    ASSUME StoreTypeOK, [StoreNext]_storeVars
    PROVE  [Lifecycle!Next]_(Lifecycle!vars)
  <1>1. CASE UNCHANGED <<status, fence, events>>
    BY <1>1, LogSame DEF Log, Lifecycle!vars
  <1>2. ASSUME NEW r \in Runs, NEW i \in Instances, Create(r, i)
        PROVE  Lifecycle!Next
    <2>1. Lifecycle!Accept(r)
      BY <1>2, LogSame DEF Log, Create, streamVars, Lifecycle!Accept
    <2>. QED
      BY <2>1 DEF Lifecycle!Next
  <1>3. ASSUME NEW r \in Runs, NEW i \in Instances, Reassign(r, i), UNCHANGED events,
               status[r] \in Pending \cup {"waiting_for_input"}
        PROVE  Lifecycle!Next
    <2>1. Lifecycle!Reassign(r)
      BY <1>3, LogSame DEF Log, Reassign, Pending, Lifecycle!Reassign, Lifecycle!Open
    <2>. QED
      BY <2>1 DEF Lifecycle!Next
  <1>4. ASSUME NEW r \in Runs, Cancel(r)
        PROVE  Lifecycle!Next
    <2>1. status[r] \in Lifecycle!Open
      BY <1>4 DEF Cancel, StoreTypeOK, Status, Pending, Terminal, Lifecycle!Open
    <2>2. Lifecycle!Abort(r)
      BY <1>4, <2>1, LogClose DEF Log, Cancel, LeaveExecution, Lifecycle!Abort
    <2>. QED
      BY <2>2 DEF Lifecycle!Next
  <1>5. ASSUME NEW r \in Runs, NEW i \in Instances, NEW f \in 1..MaxFence,
               NEW kind \in Kinds, NEW key \in EventKey \cup {NoKey},
               AppendEvent(r, i, f, kind, key)
        PROVE  [Lifecycle!Next]_(Lifecycle!vars)
    <2>1. CASE key \in keys[r]
      BY <1>1, <1>5, <2>1 DEF AppendEvent
    <2>2. CASE key \notin keys[r]
      <3>. DEFINE e == [kind |-> kind, fence |-> f]
      <3>1. e \in Event /\ e.fence = fence[r]
        BY <1>5, BoundsAssumption DEF Event, AppendEvent, CanAppend, Owns
      <3>2. events' = [events EXCEPT ![r] = Append(@, e)]
        BY <1>5, <2>2 DEF AppendEvent
      <3>3. Log' = [Log EXCEPT ![r] = Append(@, fence[r])]
        <4>. HIDE DEF e
        <4>. QED
          BY <3>1, <3>2, LogAppend
      <3>4. status[r] \in Lifecycle!Open
        BY <1>5 DEF AppendEvent, CanAppend, Owns, StoreTypeOK, Status, Pending,
           Terminal, Lifecycle!Open
      <3>5. Lifecycle!Emit(r)
        BY <1>5, <3>3, <3>4 DEF Log, AppendEvent, Lifecycle!Emit
      <3>. QED
        BY <3>5 DEF Lifecycle!Next
    <2>. QED
      BY <2>1, <2>2
  <1>6. ASSUME NEW r \in Runs, NEW i \in Instances, NEW f \in 1..MaxFence,
               NEW n \in Interactions, PauseForInput(r, i, f, n)
        PROVE  Lifecycle!Next
    <2>. DEFINE e == [kind |-> "input", fence |-> NoFence]
    <2>1. e \in Event /\ e.fence = NoFence
      BY DEF Event, Kinds, NoFence
    <2>2. events' = [events EXCEPT ![r] = Append(@, e)]
      BY <1>6 DEF PauseForInput
    <2>3. Log' = [Log EXCEPT ![r] = Append(@, NoFence)]
      <3>. HIDE DEF e
      <3>. QED
        BY <2>1, <2>2, LogAppend
    <2>4. Lifecycle!Ask(r)
      BY <1>6, <2>3 DEF Log, PauseForInput, LeaveExecution, Lifecycle!Ask
    <2>. QED
      BY <2>4 DEF Lifecycle!Next
  <1>7. ASSUME NEW r \in Runs, NEW i \in Instances, NEW f \in 1..MaxFence,
               NEW target \in Terminal, Transition(r, i, f, target)
        PROVE  Lifecycle!Next
    <2>1. status[r] \in Lifecycle!Open
      BY <1>7 DEF Transition, Owns, StoreTypeOK, Status, Pending, Terminal, Lifecycle!Open
    <2>2. Lifecycle!Settle(r)
      BY <1>7, <2>1, LogSame DEF Log, Transition, LeaveExecution, streamVars, Terminal,
         Lifecycle!Settle, Lifecycle!Final
    <2>. QED
      BY <2>2 DEF Lifecycle!Next
  <1>8. ASSUME NEW r \in Runs, NEW i \in Instances, NEW f \in 1..MaxFence,
               AcquireRunning(r, i, f)
        PROVE  Lifecycle!Next
    <2>1. Lifecycle!Begin(r)
      BY <1>8, LogSame DEF Log, AcquireRunning, streamVars, Lifecycle!Begin
    <2>. QED
      BY <2>1 DEF Lifecycle!Next
  <1>9. ASSUME NEW r \in Runs, NEW i \in Instances, ClientScript(r, i)
        PROVE  Lifecycle!Next
    BY <1>2, <1>3, <1>4, <1>9 DEF ClientScript, TakeOver, Resume, streamVars
  <1>10. ASSUME NEW r \in Runs, NEW i \in Instances, NEW f \in 1..MaxFence,
                OwnerScript(r, i, f)
         PROVE  [Lifecycle!Next]_(Lifecycle!vars)
    <2>1. CASE OwnerAppend(r, i, f)
      BY <1>5, <2>1, AppendKinds
    <2>2. CASE \/ Heartbeat(r, i, f) \/ ReleaseLease(r, i, f)
               \/ SetRunId(r, i, f) \/ MarkStreamFailed(r, i, f)
      BY <1>1, <2>2 DEF Heartbeat, ReleaseLease, SetRunId, MarkStreamFailed, streamVars
    <2>. QED
      BY <1>6, <1>7, <1>8, <1>10, <2>1, <2>2 DEF OwnerScript
  <1>11. CASE Advance \/ UNCHANGED storeVars
    BY <1>1, <1>11 DEF Advance, storeVars, hashVars, streamVars
  <1>. QED
    BY <1>9, <1>10, <1>11 DEF StoreNext

\* The scripts implement the promised life cycle: whatever tokens their callers
\* present, a run moves only along it, its log is written only with the current
\* token, and a cancellation takes the token away in the same step.
THEOREM Refinement == StoreSpec => LifecycleSpec
  BY LifecycleInit, LifecycleStep, StoreTypes, PTL
     DEF StoreSpec, LifecycleSpec, Lifecycle!Spec

-----------------------------------------------------------------------------
\* A step on a run that has ended changes neither its status, its token, its
\* stream nor its lease.
LEMMA SealedSteps ==
    ASSUME StoreTypeOK, LeaseIndex, [StoreNext]_storeVars
    PROVE  SealedStep
  <1>. SUFFICES ASSUME NEW q \in Runs, status[q] \in Terminal
                PROVE  /\ status'[q] = status[q] /\ fence'[q] = fence[q]
                       /\ events'[q] = events[q] /\ lease'[q] = 0
    BY DEF SealedStep
  <1>0. lease[q] = 0 /\ status[q] \notin Pending
    BY DEF LeaseIndex, Terminal, Pending
  <1>. DEFINE Same(r) == /\ status'[r] = status[r] /\ fence'[r] = fence[r]
                         /\ events'[r] = events[r] /\ lease'[r] = lease[r]
  <1>1. CASE UNCHANGED <<status, fence, events, lease>>
    BY <1>0, <1>1
  <1>2. ASSUME NEW r \in Runs, NEW i \in Instances, ClientScript(r, i)
        PROVE  Same(q)
    BY <1>0, <1>2 DEF ClientScript, Create, TakeOver, Reassign, Cancel, LeaveExecution,
       Resume, streamVars, StoreTypeOK, Terminal
  <1>3. ASSUME NEW r \in Runs, NEW i \in Instances, NEW f \in 1..MaxFence,
               NEW kind \in Kinds, NEW key \in EventKey \cup {NoKey},
               AppendEvent(r, i, f, kind, key)
        PROVE  Same(q)
    BY <1>3 DEF AppendEvent, CanAppend, StoreTypeOK
  <1>4. ASSUME NEW r \in Runs, NEW i \in Instances, NEW f \in 1..MaxFence,
               OwnerScript(r, i, f)
        PROVE  Same(q)
    <2>1. CASE OwnerAppend(r, i, f)
      BY <1>3, <2>1, AppendKinds
    <2>2. CASE SetRunId(r, i, f) \/ MarkStreamFailed(r, i, f)
      BY <2>2 DEF SetRunId, MarkStreamFailed, streamVars
    <2>3. CASE Heartbeat(r, i, f) \/ ReleaseLease(r, i, f) \/ AcquireRunning(r, i, f)
      BY <1>0, <2>3 DEF Heartbeat, ReleaseLease, AcquireRunning, streamVars, StoreTypeOK,
         Pending
    <2>4. ASSUME NEW target \in Terminal, Transition(r, i, f, target)
          PROVE  Same(q)
      BY <2>4 DEF Transition, LeaveExecution, streamVars, StoreTypeOK
    <2>5. ASSUME NEW n \in Interactions, PauseForInput(r, i, f, n)
          PROVE  Same(q)
      BY <1>0, <2>5 DEF PauseForInput, LeaveExecution, StoreTypeOK, Pending
    <2>. QED
      BY <1>4, <2>1, <2>2, <2>3, <2>4, <2>5 DEF OwnerScript
  <1>5. CASE Advance \/ UNCHANGED storeVars
    BY <1>1, <1>5 DEF Advance, storeVars, hashVars, streamVars
  <1>. QED
    BY <1>0, <1>2, <1>4, <1>5 DEF StoreNext

\* A run that has ended stays as it ended, whatever token a late caller kept.
THEOREM Sealing == StoreSpec => Sealed
  <1>1. StoreInv /\ [StoreNext]_storeVars => [SealedStep]_storeVars
    BY SealedSteps DEF StoreInv
  <1>. QED
    BY <1>1, StoreInvariant, PTL DEF StoreSpec, Sealed

-----------------------------------------------------------------------------
(***************************************************************************)
(* The counters.  They are kept by increments and never recounted, so that *)
(* they agree with the run hashes rests on every script naming the status  *)
(* it really replaces.                                                     *)
(***************************************************************************)
Population(st, s) == {r \in Runs : st[r] = s}

LEMMA PopulationFinite ==
    ASSUME NEW st, NEW s
    PROVE  IsFiniteSet(Population(st, s)) /\ Cardinality(Population(st, s)) \in Nat
  BY RunsAssumption, FS_Subset, FS_CardinalityType DEF Population

Gain(s, old, new) == (IF s = new THEN 1 ELSE 0) - (IF s = old THEN 1 ELSE 0)

\* One run that changes its status moves from one population to another.
LEMMA Recount ==
    ASSUME NEW r \in Runs, NEW new \in Status, NEW s, status \in [Runs -> Status],
           status' = [status EXCEPT ![r] = new]
    PROVE  Cardinality(Population(status', s)) =
              Cardinality(Population(status, s)) + Gain(s, status[r], new)
  <1>. DEFINE P == Population(status, s)
              Q == Population(status', s)
              old == status[r]
  <1>1. IsFiniteSet(P) /\ Cardinality(P) \in Nat
    BY PopulationFinite
  <1>2. ASSUME s = new <=> s = old  PROVE Q = P
    BY <1>2 DEF Population
  <1>3. ASSUME s = new, s # old  PROVE Q = P \cup {r} /\ r \notin P
    BY <1>3 DEF Population
  <1>4. ASSUME s # new, s = old  PROVE Q = P \ {r} /\ r \in P
    BY <1>4 DEF Population
  <1>5. SUFFICES Cardinality(Q) = Cardinality(P) + Gain(s, old, new)
    OBVIOUS
  <1>. HIDE DEF P, Q, old
  <1>6. CASE s = new <=> s = old
    BY <1>1, <1>2, <1>6 DEF Gain
  <1>7. CASE s = new /\ s # old
    <2>1. Cardinality(Q) = Cardinality(P) + 1
      BY <1>1, <1>3, <1>7, FS_AddElement
    <2>. QED
      BY <1>1, <1>7, <2>1 DEF Gain
  <1>8. CASE s # new /\ s = old
    <2>1. Cardinality(Q) = Cardinality(P) - 1
      BY <1>1, <1>4, <1>8, FS_RemoveElement
    <2>. QED
      BY <1>1, <1>8, <2>1 DEF Gain
  <1>. QED
    BY <1>6, <1>7, <1>8

\* A script that replaces a status and counts what it replaced keeps the count.
LEMMA Counted ==
    ASSUME StoreTypeOK, MetricsCount, NEW r \in Runs, NEW new \in Status,
           status' = [status EXCEPT ![r] = new], Count(status[r], new)
    PROVE  MetricsCount'
  <1>. SUFFICES ASSUME NEW s \in Status \ {"absent"}
                PROVE  metrics'[s] = Cardinality(Population(status', s))
    BY DEF MetricsCount, Population
  <1>1. metrics[s] = Cardinality(Population(status, s))
    BY DEF MetricsCount, Population
  <1>2. metrics'[s] = metrics[s] + Gain(s, status[r], new)
    BY DEF Count, Gain, StoreTypeOK
  <1>3. status \in [Runs -> Status]
    BY DEF StoreTypeOK
  <1>4. Cardinality(Population(status', s)) =
           Cardinality(Population(status, s)) + Gain(s, status[r], new)
    BY <1>3, Recount
  <1>. QED
    BY <1>1, <1>2, <1>4, Zenon

LEMMA MetricsInit == StoreInit => MetricsCount
  <1>. SUFFICES ASSUME StoreInit, NEW s \in Status \ {"absent"}
                PROVE  metrics[s] = Cardinality({r \in Runs : status[r] = s})
    BY DEF MetricsCount
  <1>1. {r \in Runs : status[r] = s} = {} /\ metrics[s] = 0
    BY DEF StoreInit
  <1>. QED
    BY <1>1, FS_EmptySet

LEMMA MetricsStep ==
    ASSUME StoreTypeOK, MetricsCount, [StoreNext]_storeVars
    PROVE  MetricsCount'
  <1>1. CASE UNCHANGED <<status, metrics>>
    BY <1>1 DEF MetricsCount
  <1>2. ASSUME NEW r \in Runs, NEW i \in Instances, Create(r, i)
        PROVE  MetricsCount'
    <2>1. status' = [status EXCEPT ![r] = "queued"] /\ status[r] = "absent"
      BY <1>2 DEF Create
    <2>. SUFFICES ASSUME NEW s \in Status \ {"absent"}
                  PROVE  metrics'[s] = Cardinality(Population(status', s))
      BY DEF MetricsCount, Population
    <2>2. metrics[s] = Cardinality(Population(status, s))
      BY DEF MetricsCount, Population
    <2>3. metrics'[s] = metrics[s] + (IF s = "queued" THEN 1 ELSE 0)
      BY <1>2 DEF Create, StoreTypeOK
    <2>. status \in [Runs -> Status] /\ "queued" \in Status
      BY DEF StoreTypeOK, Status, Pending
    <2>4. Cardinality(Population(status', s)) =
             Cardinality(Population(status, s)) + Gain(s, status[r], "queued")
      BY <2>1, Recount
    <2>. DEFINE before == Cardinality(Population(status, s))
                after == Cardinality(Population(status', s))
    <2>5. before \in Nat
      BY PopulationFinite
    <2>6. after = before + (IF s = "queued" THEN 1 ELSE 0)
      <3>1. after = before + Gain(s, "absent", "queued")
        BY <2>1, <2>4, Zenon
      <3>. HIDE DEF before, after
      <3>. QED
        BY <2>5, <3>1 DEF Gain
    <2>. QED
      BY <2>2, <2>3, <2>6, Zenon
  <1>3. ASSUME NEW r \in Runs, NEW i \in Instances, Reassign(r, i)
        PROVE  MetricsCount'
    BY <1>3, Counted DEF Reassign, Status, Pending
  <1>4. ASSUME NEW r \in Runs, NEW new \in Status, LeaveExecution(r, new)
        PROVE  MetricsCount'
    BY <1>4, Counted DEF LeaveExecution
  <1>5. ASSUME NEW r \in Runs, NEW i \in Instances, ClientScript(r, i)
        PROVE  MetricsCount'
    <2>1. "cancelled" \in Status
      BY DEF Status, Terminal
    <2>. QED
      BY <1>2, <1>3, <1>4, <1>5, <2>1 DEF ClientScript, TakeOver, Cancel, Resume
  <1>6. ASSUME NEW r \in Runs, NEW i \in Instances, NEW f \in 1..MaxFence,
               OwnerScript(r, i, f)
        PROVE  MetricsCount'
    <2>1. CASE OwnerAppend(r, i, f)
      BY <1>1, <2>1, AppendKinds DEF AppendEvent, indexVars
    <2>2. CASE AcquireRunning(r, i, f)
      BY <2>2, Counted DEF AcquireRunning, Status, Pending
    <2>3. CASE \/ Heartbeat(r, i, f) \/ ReleaseLease(r, i, f)
               \/ SetRunId(r, i, f) \/ MarkStreamFailed(r, i, f)
      BY <1>1, <2>3 DEF Heartbeat, ReleaseLease, SetRunId, MarkStreamFailed, indexVars
    <2>4. ASSUME NEW target \in Terminal, Transition(r, i, f, target)
          PROVE  MetricsCount'
      BY <1>4, <2>4 DEF Transition, Status
    <2>5. ASSUME NEW n \in Interactions, PauseForInput(r, i, f, n)
          PROVE  MetricsCount'
      BY <1>4, <2>5 DEF PauseForInput, Status
    <2>. QED
      BY <1>6, <2>1, <2>2, <2>3, <2>4, <2>5 DEF OwnerScript
  <1>7. CASE Advance \/ UNCHANGED storeVars
    BY <1>1, <1>7 DEF Advance, storeVars, hashVars, indexVars
  <1>. QED
    BY <1>5, <1>6, <1>7 DEF StoreNext

\* The metrics hash counts the runs of every status after any sequence of
\* scripts: a script that reported a transition with the wrong old status, or
\* none, would let the exported counters drift for good.
THEOREM Metrics == StoreSpec => []MetricsCount
  <1>1. StoreTypeOK /\ MetricsCount /\ [StoreNext]_storeVars => MetricsCount'
    BY MetricsStep
  <1>. QED
    BY <1>1, MetricsInit, StoreTypes, PTL DEF StoreSpec

-----------------------------------------------------------------------------
(***************************************************************************)
(* Subscriptions.  A client reads in steps while the run goes on, so what  *)
(* its next step relies on has to survive every script: what was passed    *)
(* over may stay so, because the stream only grows, tokens only grow, and  *)
(* a run that has ended stands still.                                      *)
(***************************************************************************)
LEMMA LeastNumber ==
    ASSUME NEW T \in SUBSET Nat, T # {}
    PROVE  \E m \in T : \A k \in T : m <= k
  <1>1. PICK Q : /\ IsWellFoundedOn(Q, Nat)
                 /\ \A x, y \in Nat : <<y, x>> \in Q <=> y < x
    <2>1. \A x, y \in Nat : <<y, x>> \in OpToRel(<, Nat) <=> y < x
      BY DEF OpToRel
    <2>. QED
      BY <2>1, NatLessThanWellFounded
  <1>2. PICK m \in T : \A y \in T : ~ (<<y, m>> \in Q)
    BY <1>1, WFMin
  <1>3. \A k \in T : ~ (k < m)
    BY <1>1, <1>2
  <1>. QED
    BY <1>3

Increasing(s) == \A m, n \in DOMAIN s : m < n => s[m] < s[n]

Enumerates(s, ids) ==
    /\ s \in [1..Cardinality(ids) -> ids]
    /\ \A id \in ids : \E n \in DOMAIN s : s[n] = id
    /\ Increasing(s)

\* One more id behind the ones that are in order.
LEMMA EnumerateMore ==
    ASSUME NEW ids, IsFiniteSet(ids), ids \subseteq Nat, NEW x \in Nat,
           \A id \in ids : id < x, NEW s, Enumerates(s, ids)
    PROVE  \E t : Enumerates(t, ids \cup {x})
  <1>. DEFINE c == Cardinality(ids)
             t == [n \in 1..(c + 1) |-> IF n = c + 1 THEN x ELSE s[n]]
  <1>1. c \in Nat
    BY FS_CardinalityType
  <1>2. Cardinality(ids \cup {x}) = c + 1
    BY FS_AddElement
  <1>3. DOMAIN s = 1..c /\ \A n \in 1..c : s[n] \in ids
    BY DEF Enumerates
  <1>4. DOMAIN t = 1..(c + 1) /\ t[c + 1] = x /\ \A n \in 1..c : n \in 1..(c + 1) /\ t[n] = s[n]
    BY <1>1
  <1>5. t \in [1..(c + 1) -> ids \cup {x}]
    BY <1>1, <1>3
  <1>6. \A n \in 1..(c + 1) : n = c + 1 \/ n \in 1..c
    BY <1>1
  <1>. HIDE DEF t, c
  <1>7. \A id \in ids \cup {x} : \E n \in DOMAIN t : t[n] = id
    <2>1. c + 1 \in DOMAIN t
      BY <1>1, <1>4
    <2>2. ASSUME NEW id \in ids PROVE \E n \in DOMAIN t : t[n] = id
      <3>1. PICK n \in 1..c : s[n] = id
        BY <1>3 DEF Enumerates
      <3>. QED
        BY <1>4, <3>1
    <2>. QED
      BY <1>4, <2>1, <2>2
  <1>8. Increasing(t)
    <2>. SUFFICES ASSUME NEW m \in 1..(c + 1), NEW n \in 1..(c + 1), m < n
                  PROVE  t[m] < t[n]
      BY <1>4 DEF Increasing
    <2>1. m \in 1..c
      BY <1>1
    <2>2. CASE n = c + 1
      BY <1>3, <1>4, <2>1, <2>2
    <2>3. CASE n \in 1..c
      BY <1>3, <1>4, <2>1, <2>3 DEF Enumerates, Increasing
    <2>. QED
      BY <1>6, <2>2, <2>3
  <1>. QED
    BY <1>2, <1>5, <1>7, <1>8 DEF Enumerates

\* A bounded set of ids has its ids in order: the least bound for which it has
\* not would have one for the bound below.
LEMMA EnumerationExists ==
    ASSUME NEW k \in Nat, NEW ids \in SUBSET (1..k)
    PROVE  \E s : Enumerates(s, ids)
  <1>. DEFINE Below(m) == {id \in ids : id <= m}
             T == {m \in Nat : ~ \E s : Enumerates(s, Below(m))}
  <1>1. /\ \A m \in Nat : \A id \in Below(m) : id \in ids /\ id <= m
        /\ \A m \in Nat : \A id \in ids : id <= m => id \in Below(m)
        /\ T \in SUBSET Nat
        /\ \A m \in T : ~ \E s : Enumerates(s, Below(m))
        /\ \A m \in Nat : m \in T \/ \E s : Enumerates(s, Below(m))
    OBVIOUS
  <1>. HIDE DEF Below, T
  <1>2. \A id \in ids : id \in Nat /\ id > 0 /\ id <= k
    OBVIOUS
  <1>3. IsFiniteSet(ids)
    <2>1. IsFiniteSet(1..k)
      BY FS_Interval
    <2>. QED
      BY <2>1, FS_Subset
  <1>4. \A m \in Nat : IsFiniteSet(Below(m)) /\ Below(m) \subseteq Nat
    <2>. TAKE m \in Nat
    <2>1. Below(m) \subseteq ids
      BY <1>1
    <2>2. IsFiniteSet(Below(m))
      BY <1>3, <2>1, FS_Subset
    <2>. QED
      BY <1>2, <2>1, <2>2
  <1>5. Enumerates(<<>>, {})
    <2>1. Cardinality({}) = 0
      BY FS_EmptySet
    <2>2. 1..0 = {}
      OBVIOUS
    <2>3. <<>> \in [{} -> {}] /\ DOMAIN <<>> = {}
      OBVIOUS
    <2>. QED
      BY <2>1, <2>2, <2>3 DEF Enumerates, Increasing
  <1>6. ASSUME T # {} PROVE FALSE
    <2>1. PICK m \in T : \A n \in T : m <= n
      BY <1>1, <1>6, LeastNumber
    <2>2. m \in Nat /\ ~ \E s : Enumerates(s, Below(m))
      BY <1>1
    <2>3. CASE m = 0
      <3>1. ASSUME NEW id \in Below(m) PROVE FALSE
        <4>1. id \in ids /\ id <= m
          BY <1>1, <2>2
        <4>. QED
          BY <1>2, <2>3, <4>1
      <3>2. Below(m) = {}
        BY <3>1
      <3>. QED
        BY <1>5, <2>2, <3>2
    <2>4. CASE m # 0
      <3>1. m - 1 \in Nat
        BY <2>2, <2>4
      <3>2. m - 1 \notin T
        BY <2>1, <2>2, <3>1
      <3>3. PICK s : Enumerates(s, Below(m - 1))
        BY <1>1, <3>1, <3>2
      <3>4. \A id \in ids : id <= m <=> id <= m - 1 \/ id = m
        BY <1>2, <2>2
      <3>5. CASE m \notin ids
        <4>1. \A id : id \in Below(m) <=> id \in Below(m - 1)
          BY <1>1, <2>2, <3>1, <3>4, <3>5
        <4>2. Below(m) = Below(m - 1)
          BY <4>1
        <4>. QED
          BY <2>2, <3>3, <4>2
      <3>6. CASE m \in ids
        <4>1. \A id : id \in Below(m) <=> id \in Below(m - 1) \/ id = m
          BY <1>1, <2>2, <3>1, <3>4, <3>6
        <4>2. Below(m) = Below(m - 1) \cup {m}
          BY <4>1
        <4>3. \A id \in Below(m - 1) : id < m
          <5>. TAKE id \in Below(m - 1)
          <5>1. id \in ids /\ id <= m - 1
            BY <1>1, <3>1
          <5>. QED
            BY <1>2, <2>2, <5>1
        <4>4. \E t : Enumerates(t, Below(m - 1) \cup {m})
          BY <1>4, <2>2, <3>1, <3>3, <4>3, EnumerateMore
        <4>. QED
          BY <2>2, <4>2, <4>4
      <3>. QED
        BY <3>5, <3>6
    <2>. QED
      BY <2>3, <2>4
  <1>7. \A id : id \in Below(k) <=> id \in ids
    BY <1>1, <1>2
  <1>8. Below(k) = ids
    BY <1>7
  <1>. QED
    BY <1>1, <1>6, <1>8

LEMMA AscendingIs ==
    ASSUME NEW k \in Nat, NEW ids \in SUBSET (1..k)
    PROVE  Enumerates(Ascending(ids), ids)
  <1>1. PICK s : Enumerates(s, ids)
    BY EnumerationExists
  <1>2. /\ s \in [1..Cardinality(ids) -> ids]
        /\ \A id \in ids : \E n \in DOMAIN s : s[n] = id
        /\ \A m, n \in DOMAIN s : m < n => s[m] < s[n]
    BY <1>1 DEF Enumerates, Increasing
  <1>3. /\ Ascending(ids) \in [1..Cardinality(ids) -> ids]
        /\ \A id \in ids : \E n \in DOMAIN Ascending(ids) : Ascending(ids)[n] = id
        /\ \A m, n \in DOMAIN Ascending(ids) : m < n => Ascending(ids)[m] < Ascending(ids)[n]
    BY <1>2 DEF Ascending
  <1>. QED
    BY <1>3 DEF Enumerates, Increasing

-----------------------------------------------------------------------------
(***************************************************************************)
(* Why a client misses nothing: every id up to its cursor, and up to the   *)
(* last event it got (from where it starts again), was received, is        *)
(* trimmed, or is a DONE that somebody overtook.                           *)
(***************************************************************************)
Superseded(r, n) ==
    /\ events[r][n].kind = "done"
    /\ events[r][n].fence < fence[r] \/ n < LastEventId(r)

Passed(r, n) == n \in Range(received[r]) \/ n < Oldest(r) \/ Superseded(r, n)

Covered(r, k) == \A n \in 1..k : Passed(r, n)

Arrived(r) ==
    /\ Increasing(received[r])
    /\ \A n \in DOMAIN received[r] :
          /\ received[r][n] \in 1..LastEventId(r)
          /\ events[r][received[r][n]].kind = "done" =>
                status[r] \in Terminal /\ received[r][n] = LastEventId(r)

Reading(r) == sub[r].pc \in {"poll", "read", "idle", "deliver"}

UpTo(r, k) == \A n \in DOMAIN received[r] : received[r][n] <= k

BatchOK(r) ==
    sub[r].pc = "deliver" =>
        /\ sub[r].cursor < sub[r].first
        /\ sub[r].first <= sub[r].last
        /\ sub[r].last <= LastEventId(r)
        /\ \A n \in 1..(sub[r].first - 1) : n > sub[r].cursor => n < Oldest(r)

ClientOK(r) ==
    /\ Arrived(r)
    /\ sub[r].cursor <= LastEventId(r)
    /\ Reading(r) => UpTo(r, sub[r].cursor)
    /\ BatchOK(r)
    /\ Covered(r, sub[r].cursor)
    /\ Covered(r, LastReceived(r))

SubTypes ==
    /\ sub \in [Runs -> [pc : {"off", "poll", "read", "deliver", "idle", "closed", "gap"},
                         cursor : Nat, first : Nat, last : Nat]]
    /\ received \in [Runs -> Seq(Nat)]

ClientInv == SubTypes /\ \A r \in Runs : ClientOK(r)

\* What a step of Redis leaves of a stream, for those who read it.
Grows(r) ==
    /\ fence[r] <= fence'[r]
    /\ Len(events[r]) <= Len(events'[r])
    /\ \A n \in 1..Len(events[r]) : events'[r][n] = events[r][n]

LEMMA GrowsStep ==
    ASSUME StoreTypeOK, Fresh, [StoreNext]_storeVars, NEW q \in Runs
    PROVE  Grows(q)
  <1>1. events[q] \in Seq(Event) /\ fence[q] \in Nat /\ Len(events[q]) \in Nat
    BY DEF StoreTypeOK
  <1>2. CASE Keeps(q)
    BY <1>1, <1>2 DEF Keeps, Grows
  <1>3. CASE Starts(q)
    BY <1>1, <1>3 DEF Starts, Fresh, Grows
  <1>4. CASE Passes(q)
    BY <1>1, <1>4 DEF Passes, Grows
  <1>5. CASE Writes(q)
    <2>1. PICK e \in Event : events'[q] = Append(events[q], e) /\ fence'[q] = fence[q]
      BY <1>5 DEF Writes
    <2>. QED
      BY <1>1, <2>1, AppendAt DEF Grows
  <1>6. CASE Closes(q)
    <2>1. CASE q \notin StreamRuns
      BY <1>1, <1>6, <2>1 DEF Closes, Grows
    <2>2. CASE q \in StreamRuns
      <3>. DEFINE d == [kind |-> "error", fence |-> fence[q] + 1]
                  e == [kind |-> "done", fence |-> fence[q] + 1]
                  s == Append(events[q], d)
      <3>1. d \in Event /\ e \in Event
        BY <1>1 DEF Event, Kinds
      <3>2. events'[q] = Append(s, e) /\ fence'[q] = fence[q] + 1
        BY <1>1, <1>6, <2>2, <3>1, ConcatTwo DEF Closes
      <3>. HIDE DEF d, e
      <3>3. /\ s \in Seq(Event) /\ Len(s) = Len(events[q]) + 1
            /\ \A n \in 1..Len(events[q]) : s[n] = events[q][n]
        BY <1>1, <3>1
      <3>. HIDE DEF s
      <3>4. /\ Len(Append(s, e)) = Len(s) + 1
            /\ \A n \in 1..Len(s) : Append(s, e)[n] = s[n]
        BY <3>1, <3>3
      <3>5. \A n \in 1..Len(events[q]) : n \in 1..Len(s)
        BY <1>1, <3>3
      <3>. QED
        BY <1>1, <3>2, <3>3, <3>4, <3>5 DEF Grows
    <2>. QED
      BY <2>1, <2>2
  <1>. QED
    BY <1>2, <1>3, <1>4, <1>5, <1>6, ChangeStep DEF StreamChange

LEMMA OldestType ==
    ASSUME StoreTypeOK, Buffer \in Nat \ {0}, NEW r \in Runs
    PROVE  /\ LastEventId(r) \in Nat
           /\ Oldest(r) \in Nat \ {0}
           /\ Oldest(r) <= LastEventId(r) + 1
           /\ LastEventId(r) # 0 => Oldest(r) <= LastEventId(r)
           /\ LastEventId(r) <= Buffer => Oldest(r) = 1
  <1>1. LastEventId(r) \in Nat
    BY DEF StoreTypeOK, LastEventId
  <1>. QED
    BY <1>1 DEF Oldest

\* Where the last id of a sequence of ids lies.
LEMMA LastOfIncreasing ==
    ASSUME NEW s \in Seq(Nat), Increasing(s), NEW k \in Nat,
           \A n \in DOMAIN s : s[n] <= k
    PROVE  LET l == IF s = <<>> THEN 0 ELSE Last(s) IN
           l \in 0..k /\ \A n \in DOMAIN s : s[n] <= l
  <1>1. Len(s) \in Nat /\ DOMAIN s = 1..Len(s) /\ \A n \in DOMAIN s : s[n] \in Nat
    OBVIOUS
  <1>2. CASE s = <<>>
    BY <1>1, <1>2
  <1>3. CASE s # <<>>
    <2>1. Len(s) \in DOMAIN s /\ Last(s) = s[Len(s)]
      BY <1>1, <1>3 DEF Last
    <2>2. \A n \in DOMAIN s : n = Len(s) \/ n < Len(s)
      BY <1>1
    <2>. QED
      BY <1>1, <1>3, <2>1, <2>2 DEF Increasing
  <1>. QED
    BY <1>2, <1>3

\* The last id a client got is the greatest.
LEMMA LastReceivedIs ==
    ASSUME NEW r \in Runs, SubTypes, Arrived(r), LastEventId(r) \in Nat
    PROVE  LastReceived(r) \in 0..LastEventId(r) /\ UpTo(r, LastReceived(r))
  <1>1. received[r] \in Seq(Nat) /\ Increasing(received[r])
    BY DEF SubTypes, Arrived
  <1>2. \A n \in DOMAIN received[r] : received[r][n] <= LastEventId(r)
    BY DEF Arrived
  <1>. QED
    BY <1>1, <1>2, LastOfIncreasing DEF LastReceived, UpTo

\* While Redis goes on, a client that does nothing loses nothing.
LEMMA ClientStays ==
    ASSUME StoreTypeOK, StoreTypeOK', LeaseIndex, Fresh, [StoreNext]_storeVars,
           Buffer \in Nat \ {0}, SubTypes, NEW r \in Runs, ClientOK(r),
           sub'[r] = sub[r], received'[r] = received[r]
    PROVE  ClientOK(r)'
  <1>1. Grows(r)
    BY GrowsStep
  <1>2. /\ LastEventId(r) \in Nat /\ LastEventId(r)' \in Nat
        /\ LastEventId(r) <= LastEventId(r)'
        /\ fence[r] \in Nat /\ fence'[r] \in Nat /\ fence[r] <= fence'[r]
        /\ \A n \in 1..LastEventId(r) : events'[r][n] = events[r][n]
    BY <1>1 DEF Grows, LastEventId, StoreTypeOK
  <1>3. Oldest(r) \in Nat /\ Oldest(r)' \in Nat /\ Oldest(r) <= Oldest(r)'
    BY <1>2 DEF Oldest
  <1>4. /\ sub[r].cursor \in Nat /\ sub[r].first \in Nat /\ sub[r].last \in Nat
        /\ sub[r].cursor <= LastEventId(r)
    BY DEF SubTypes, ClientOK
  <1>5. LastReceived(r) \in 0..LastEventId(r) /\ LastReceived(r)' = LastReceived(r)
    BY <1>2, LastReceivedIs DEF ClientOK, LastReceived
  <1>6. \A n \in 1..LastEventId(r) : Passed(r, n) => Passed(r, n)'
    <2>. TAKE n \in 1..LastEventId(r)
    <2>1. n \in Nat /\ n <= LastEventId(r) /\ events'[r][n] = events[r][n]
      BY <1>2
    <2>2. events[r][n].fence \in Nat
      <3>1. events[r] \in Seq(Event) /\ n \in DOMAIN events[r]
        BY <2>1 DEF StoreTypeOK, LastEventId
      <3>. QED
        BY <3>1, EventFence
    <2>3. n < Oldest(r) => n < Oldest(r)'
      BY <1>3, <2>1
    <2>4. Superseded(r, n) => Superseded(r, n)'
      BY <1>2, <2>1, <2>2 DEF Superseded
    <2>. QED
      BY <2>3, <2>4 DEF Passed
  <1>7. \A k \in 0..LastEventId(r) : Covered(r, k) => Covered(r, k)'
    BY <1>2, <1>6 DEF Covered
  <1>8. Covered(r, sub[r].cursor)' /\ Covered(r, LastReceived(r))'
    <2>1. sub[r].cursor \in 0..LastEventId(r) /\ sub'[r].cursor = sub[r].cursor
      BY <1>2, <1>4
    <2>2. Covered(r, sub[r].cursor) /\ Covered(r, LastReceived(r))
      BY DEF ClientOK
    <2>. QED
      BY <1>5, <1>7, <2>1, <2>2 DEF Covered
  <1>9. Arrived(r)'
    <2>1. Increasing(received'[r])
      BY DEF ClientOK, Arrived
    <2>2. ASSUME NEW n \in DOMAIN received[r]
          PROVE  /\ received[r][n] \in 1..LastEventId(r)'
                 /\ events'[r][received[r][n]].kind = "done" =>
                       status'[r] \in Terminal /\ received[r][n] = LastEventId(r)'
      <3>1. received[r][n] \in 1..LastEventId(r)
        BY DEF ClientOK, Arrived
      <3>2. events'[r][received[r][n]] = events[r][received[r][n]]
        BY <1>2, <3>1
      <3>3. status[r] \in Terminal => status'[r] = status[r] /\ events'[r] = events[r]
        BY SealedSteps DEF SealedStep
      <3>4. status[r] \in Terminal => LastEventId(r)' = LastEventId(r)
        BY <3>3 DEF LastEventId
      <3>5. events[r][received[r][n]].kind = "done" =>
               status[r] \in Terminal /\ received[r][n] = LastEventId(r)
        BY DEF ClientOK, Arrived
      <3>. QED
        BY <1>2, <3>1, <3>2, <3>3, <3>4, <3>5
    <2>. QED
      BY <2>1, <2>2 DEF Arrived
  <1>10. BatchOK(r)'
    <2>1. BatchOK(r)
      BY DEF ClientOK
    <2>2. sub[r].pc = "deliver" => \A n \in 1..(sub[r].first - 1) :
             n > sub[r].cursor => n < Oldest(r)'
      BY <1>3, <2>1 DEF BatchOK
    <2>3. sub[r].pc = "deliver" => sub[r].last <= LastEventId(r)'
      BY <1>2, <1>4, <2>1 DEF BatchOK
    <2>. QED
      BY <2>1, <2>2, <2>3 DEF BatchOK
  <1>11. (Reading(r) => UpTo(r, sub[r].cursor))'
    BY DEF ClientOK, Reading, UpTo
  <1>12. (sub[r].cursor <= LastEventId(r))'
    BY <1>2, <1>4
  <1>. QED
    BY <1>8, <1>9, <1>10, <1>11, <1>12 DEF ClientOK

\* A request, an end, a heartbeat or a departure: a step that hands nothing over.
LEMMA QuietStep ==
    ASSUME StoreTypeOK, UNCHANGED storeVars, SubTypes, NEW r \in Runs, ClientOK(r),
           received'[r] = received[r], sub'[r].pc # "deliver",
           sub'[r].cursor \in {0, sub[r].cursor, LastReceived(r)},
           Reading(r)' => \/ Reading(r) /\ sub'[r].cursor = sub[r].cursor
                          \/ sub'[r].cursor = LastReceived(r)
    PROVE  ClientOK(r)'
  <1>1. UNCHANGED <<status, fence, events>>
    BY DEF storeVars, hashVars, streamVars
  <1>2. /\ LastEventId(r) \in Nat /\ LastEventId(r)' = LastEventId(r)
        /\ Oldest(r)' = Oldest(r) /\ LastReceived(r)' = LastReceived(r)
    BY <1>1 DEF LastEventId, Oldest, LastReceived, StoreTypeOK
  <1>3. LastReceived(r) \in 0..LastEventId(r) /\ UpTo(r, LastReceived(r))
    BY <1>2, LastReceivedIs DEF ClientOK
  <1>4. Arrived(r)'
    BY <1>1, <1>2 DEF ClientOK, Arrived
  <1>5. \A n : Passed(r, n) => Passed(r, n)'
    BY <1>1, <1>2 DEF Passed, Superseded
  <1>6. \A k : Covered(r, k) => Covered(r, k)'
    BY <1>5 DEF Covered
  <1>7. Covered(r, LastReceived(r))'
    BY <1>2, <1>6 DEF ClientOK, Covered
  <1>8. Covered(r, sub[r].cursor)'
    <2>1. 1..0 = {}
      OBVIOUS
    <2>2. CASE sub'[r].cursor = 0
      BY <2>1, <2>2 DEF Covered
    <2>3. CASE sub'[r].cursor = sub[r].cursor
      BY <1>6, <2>3 DEF ClientOK, Covered
    <2>4. CASE sub'[r].cursor = LastReceived(r)
      BY <1>6, <2>4 DEF ClientOK, Covered
    <2>. QED
      BY <2>2, <2>3, <2>4
  <1>9. (sub[r].cursor <= LastEventId(r))'
    BY <1>2, <1>3 DEF ClientOK
  <1>10. (Reading(r) => UpTo(r, sub[r].cursor))'
    BY <1>3 DEF ClientOK, UpTo
  <1>11. BatchOK(r)'
    BY DEF BatchOK
  <1>. QED
    BY <1>4, <1>7, <1>8, <1>9, <1>10, <1>11 DEF ClientOK

\* A batch starts behind the cursor, or where the stream does.
LEMMA ReadStep ==
    ASSUME StoreTypeOK, SubTypes, Buffer \in Nat \ {0}, ReadCount \in Nat \ {0},
           NEW r \in Runs, ClientOK(r), Read(r)
    PROVE  ClientOK(r)' /\ SubTypes'
  <1>. DEFINE first == First(r, sub[r].cursor)
             last == IF LastEventId(r) >= first + ReadCount
                     THEN first + ReadCount - 1 ELSE LastEventId(r)
  <1>1. UNCHANGED <<status, fence, events>> /\ received' = received
    BY DEF Read, storeVars, hashVars, streamVars
  <1>2. /\ LastEventId(r)' = LastEventId(r) /\ Oldest(r)' = Oldest(r)
        /\ LastReceived(r)' = LastReceived(r)
    BY <1>1 DEF LastEventId, Oldest, LastReceived
  <1>3. /\ LastEventId(r) \in Nat /\ Oldest(r) \in Nat \ {0} /\ sub[r].cursor \in Nat
        /\ LastEventId(r) > sub[r].cursor /\ Oldest(r) <= LastEventId(r)
    BY OldestType DEF Read, SubTypes
  <1>4. /\ sub'[r].pc = "deliver" /\ sub'[r].cursor = sub[r].cursor
        /\ sub'[r].first = first /\ sub'[r].last = last
    BY DEF Read, SubTypes
  <1>5. /\ first \in Nat /\ sub[r].cursor < first /\ first <= LastEventId(r)
        /\ \A n \in 1..(first - 1) : n > sub[r].cursor => n < Oldest(r)
    BY <1>3 DEF First
  <1>6. first <= last /\ last <= LastEventId(r)
    BY <1>3, <1>5
  <1>. HIDE DEF first, last
  <1>7. BatchOK(r)'
    BY <1>2, <1>4, <1>5, <1>6 DEF BatchOK
  <1>8. Arrived(r)'
    BY <1>1, <1>2 DEF ClientOK, Arrived
  <1>9. \A n : Passed(r, n) => Passed(r, n)'
    BY <1>1, <1>2 DEF Passed, Superseded
  <1>10. Covered(r, sub[r].cursor)' /\ Covered(r, LastReceived(r))'
    BY <1>2, <1>4, <1>9 DEF ClientOK, Covered
  <1>11. (sub[r].cursor <= LastEventId(r))'
    BY <1>2, <1>4 DEF ClientOK
  <1>12. (Reading(r) => UpTo(r, sub[r].cursor))'
    <2>1. UpTo(r, sub[r].cursor)
      BY DEF ClientOK, Reading, Read
    <2>. QED
      BY <1>1, <1>4, <2>1 DEF UpTo
  <1>13. SubTypes'
    <2>1. first \in Nat /\ last \in Nat
      BY <1>3, <1>5, <1>6 DEF last
    <2>2. sub' = [sub EXCEPT ![r].pc = "deliver", ![r].first = first, ![r].last = last]
      BY DEF Read, first, last
    <2>. QED
      BY <1>1, <2>1, <2>2 DEF SubTypes
  <1>. QED
    BY <1>7, <1>8, <1>10, <1>11, <1>12, <1>13 DEF ClientOK

\* What is handed over ends before the first DONE that has to wait.
LEMMA StopIs ==
    ASSUME NEW r \in Runs, sub[r].first \in Nat, sub[r].last \in Nat,
           sub[r].first <= sub[r].last, sub[r].first # 0
    PROVE  /\ Stop(r) \in (sub[r].first - 1)..sub[r].last
           /\ \A n \in sub[r].first..Stop(r) : DoneAction(r, n) # "wait"
  <1>. DEFINE held == {n \in sub[r].first..sub[r].last : DoneAction(r, n) = "wait"}
  <1>1. CASE held = {}
    <2>1. Stop(r) = sub[r].last
      BY <1>1 DEF Stop
    <2>. QED
      BY <1>1, <2>1
  <1>2. CASE held # {}
    <2>1. held \in SUBSET Nat
      OBVIOUS
    <2>2. \E n \in held : \A m \in held : n <= m
      BY <1>2, <2>1, LeastNumber
    <2>3. PICK n \in held : n = (CHOOSE k \in held : \A m \in held : k <= m)
                            /\ \A m \in held : n <= m
      BY <2>2
    <2>4. Stop(r) = n - 1
      BY <1>2, <2>3 DEF Stop
    <2>5. n \in Nat /\ sub[r].first <= n /\ n <= sub[r].last
      OBVIOUS
    <2>6. ASSUME NEW m \in sub[r].first..Stop(r), DoneAction(r, m) = "wait"
          PROVE  FALSE
      <3>1. m \in Nat /\ m < n /\ sub[r].first <= m /\ m <= sub[r].last
        BY <2>4, <2>5
      <3>2. m \in held
        BY <2>6, <3>1
      <3>. QED
        BY <2>3, <2>5, <3>1, <3>2
    <2>. QED
      BY <2>4, <2>5, <2>6
  <1>. QED
    BY <1>1, <1>2

LEMMA ConcatIds ==
    ASSUME NEW s \in Seq(Nat), NEW t \in Seq(Nat)
    PROVE  /\ s \o t \in Seq(Nat)
           /\ DOMAIN (s \o t) = 1..(Len(s) + Len(t))
           /\ \A n \in 1..Len(s) : (s \o t)[n] = s[n]
           /\ \A n \in 1..Len(t) : (s \o t)[Len(s) + n] = t[n]
           /\ \A n \in 1..(Len(s) + Len(t)) : n \in 1..Len(s) \/ n - Len(s) \in 1..Len(t)
  OBVIOUS

\* Ids in order and higher than the ones before them.
LEMMA IncreasingConcat ==
    ASSUME NEW s \in Seq(Nat), NEW t \in Seq(Nat), Increasing(s), Increasing(t),
           \A m \in DOMAIN s, n \in DOMAIN t : s[m] < t[n]
    PROVE  Increasing(s \o t)
  <1>. DEFINE u == s \o t
  <1>1. /\ Len(s) \in Nat /\ Len(t) \in Nat
        /\ DOMAIN s = 1..Len(s) /\ DOMAIN t = 1..Len(t)
    OBVIOUS
  <1>2. /\ DOMAIN u = 1..(Len(s) + Len(t))
        /\ \A n \in 1..Len(s) : u[n] = s[n]
        /\ \A n \in 1..Len(t) : u[Len(s) + n] = t[n]
        /\ \A n \in 1..(Len(s) + Len(t)) : n \in 1..Len(s) \/ n - Len(s) \in 1..Len(t)
    BY ConcatIds
  <1>. HIDE DEF u
  <1>3. \A n \in DOMAIN u : n - Len(s) \in 1..Len(t) => u[n] = t[n - Len(s)]
    <2>. TAKE n \in DOMAIN u
    <2>1. Len(s) + (n - Len(s)) = n
      BY <1>1, <1>2
    <2>. QED
      BY <1>2, <2>1
  <1>. SUFFICES ASSUME NEW m \in DOMAIN u, NEW n \in DOMAIN u, m < n
                PROVE  u[m] < u[n]
    BY DEF Increasing, u
  <1>4. CASE n \in 1..Len(s)
    <2>1. m \in 1..Len(s)
      BY <1>1, <1>2, <1>4
    <2>. QED
      BY <1>1, <1>2, <1>4, <2>1 DEF Increasing
  <1>5. CASE n - Len(s) \in 1..Len(t) /\ m \in 1..Len(s)
    BY <1>1, <1>2, <1>3, <1>5
  <1>6. CASE n - Len(s) \in 1..Len(t) /\ m - Len(s) \in 1..Len(t)
    <2>1. m - Len(s) < n - Len(s)
      BY <1>1, <1>2
    <2>. QED
      BY <1>1, <1>3, <1>6, <2>1 DEF Increasing
  <1>. QED
    BY <1>2, <1>4, <1>5, <1>6

\* What DoneAction lets pass is final, and what it skips was overtaken.
LEMMA DoneActionIs ==
    ASSUME StoreTypeOK, StreamOrder, NEW r \in Runs, NEW n \in 1..LastEventId(r)
    PROVE  /\ DoneAction(r, n) \in {"deliver", "skip", "wait"}
           /\ DoneAction(r, n) = "deliver" /\ events[r][n].kind = "done" =>
                 status[r] \in Terminal /\ n = LastEventId(r)
           /\ DoneAction(r, n) = "skip" => Superseded(r, n)
  <1>1. events[r] \in Seq(Event) /\ n \in DOMAIN events[r] /\ fence[r] \in Nat
        /\ LastEventId(r) \in Nat
    BY DEF StoreTypeOK, LastEventId
  <1>2. events[r][n].fence \in Nat /\ events[r][n].fence <= fence[r]
    BY <1>1, EventFence DEF StreamOrder, Ordered
  <1>. QED
    BY <1>1, <1>2 DEF DoneAction, Superseded

\* The batch handed over, up to where the client leaves.
LEMMA DeliverStep ==
    ASSUME StoreTypeOK, StreamOrder, SubTypes, Buffer \in Nat \ {0},
           NEW r \in Runs, ClientOK(r), Deliver(r)
    PROVE  ClientOK(r)' /\ SubTypes'
  <1>. DEFINE f == sub[r].first
             c == sub[r].cursor
  <1>1. PICK upto \in (f - 1)..Stop(r) :
          /\ received' = [received EXCEPT ![r] = @ \o Handed(r, upto)]
          /\ sub' = [sub EXCEPT ![r] =
                       IF upto < Stop(r) THEN Off
                       ELSE [Off EXCEPT !.pc = "poll",
                                        !.cursor = IF upto < f THEN c ELSE upto]]
    BY DEF Deliver
  <1>. DEFINE ids == {n \in f..upto : DoneAction(r, n) = "deliver"}
             s == Handed(r, upto)
             old == received[r]
             new == received'[r]
  <1>2. UNCHANGED <<status, fence, events>> /\ sub[r].pc = "deliver"
    BY DEF Deliver, storeVars, hashVars, streamVars
  <1>3. /\ f \in Nat /\ c \in Nat /\ sub[r].last \in Nat /\ LastEventId(r) \in Nat
        /\ c < f /\ f <= sub[r].last /\ sub[r].last <= LastEventId(r)
        /\ \A n \in 1..(f - 1) : n > c => n < Oldest(r)
    BY <1>2, OldestType DEF SubTypes, ClientOK, BatchOK
  <1>4. /\ upto \in Nat /\ f - 1 <= upto /\ upto <= LastEventId(r) /\ c <= upto
        /\ \A n \in f..upto : DoneAction(r, n) # "wait"
    <2>1. /\ Stop(r) \in (f - 1)..sub[r].last
          /\ \A n \in f..Stop(r) : DoneAction(r, n) # "wait"
      BY <1>3, StopIs
    <2>2. upto \in Nat /\ f - 1 <= upto /\ upto <= Stop(r) /\ upto <= LastEventId(r)
      BY <1>1, <1>3, <2>1
    <2>3. \A n \in f..upto : n \in f..Stop(r)
      BY <1>3, <2>1, <2>2
    <2>. QED
      BY <1>3, <2>1, <2>2, <2>3
  <1>5. /\ Enumerates(s, ids)
        /\ \A n \in ids : n \in 1..LastEventId(r) /\ f <= n /\ n <= upto
    <2>1. ids \in SUBSET (1..upto)
      BY <1>3, <1>4
    <2>2. Enumerates(Ascending(ids), ids)
      BY <1>4, <2>1, AscendingIs
    <2>3. s = Ascending(ids)
      BY DEF Handed
    <2>. QED
      BY <1>3, <1>4, <2>2, <2>3
  <1>6. \A n \in f..upto : n \in ids \/ Superseded(r, n)
    <2>. TAKE n \in f..upto
    <2>1. n \in 1..LastEventId(r)
      BY <1>3, <1>4
    <2>. QED
      BY <1>4, <2>1, DoneActionIs
  <1>7. \A n \in ids : events[r][n].kind = "done" =>
                         status[r] \in Terminal /\ n = LastEventId(r)
    BY <1>5, DoneActionIs
  <1>. HIDE DEF ids, s
  <1>8. /\ s \in Seq(Nat) /\ Increasing(s)
        /\ \A n \in DOMAIN s : s[n] \in ids
        /\ \A id \in ids : \E n \in DOMAIN s : s[n] = id
    <2>1. IsFiniteSet(ids)
      <3>1. IsFiniteSet(f..upto)
        BY <1>3, <1>4, FS_Interval
      <3>. QED
        BY <3>1, FS_Subset DEF ids
    <2>2. Cardinality(ids) \in Nat
      BY <2>1, FS_CardinalityType
    <2>3. \A n \in ids : n \in Nat
      BY <1>5
    <2>. QED
      BY <1>5, <2>2, <2>3 DEF Enumerates
  <1>9. old \in Seq(Nat) /\ new = old \o s
    BY <1>1 DEF SubTypes, s
  <1>10. /\ new \in Seq(Nat)
         /\ \A n \in DOMAIN new : (\E m \in DOMAIN old : new[n] = old[m]) \/ new[n] \in ids
         /\ \A n \in DOMAIN old : \E m \in DOMAIN new : new[m] = old[n]
         /\ \A id \in ids : \E m \in DOMAIN new : new[m] = id
    <2>1. /\ Len(old) \in Nat /\ Len(s) \in Nat
          /\ DOMAIN old = 1..Len(old) /\ DOMAIN s = 1..Len(s)
      BY <1>8, <1>9
    <2>2. /\ new \in Seq(Nat)
          /\ DOMAIN new = 1..(Len(old) + Len(s))
          /\ \A n \in 1..Len(old) : new[n] = old[n]
          /\ \A n \in 1..Len(s) : new[Len(old) + n] = s[n]
          /\ \A n \in 1..(Len(old) + Len(s)) : n \in 1..Len(old) \/ n - Len(old) \in 1..Len(s)
      BY <1>8, <1>9, ConcatIds
    <2>. HIDE DEF old, new
    <2>3. \A n \in DOMAIN new : (\E m \in DOMAIN old : new[n] = old[m]) \/ new[n] \in ids
      <3>. TAKE n \in DOMAIN new
      <3>1. CASE n \in 1..Len(old)
        BY <2>1, <2>2, <3>1
      <3>2. CASE n - Len(old) \in 1..Len(s)
        <4>1. Len(old) + (n - Len(old)) = n
          BY <2>1, <2>2
        <4>2. new[n] = s[n - Len(old)]
          BY <2>2, <3>2, <4>1
        <4>. QED
          BY <1>8, <2>1, <3>2, <4>2
      <3>. QED
        BY <2>2, <3>1, <3>2
    <2>4. \A n \in DOMAIN old : n \in DOMAIN new /\ new[n] = old[n]
      BY <2>1, <2>2
    <2>5. \A n \in DOMAIN s : Len(old) + n \in DOMAIN new /\ new[Len(old) + n] = s[n]
      BY <2>1, <2>2
    <2>6. \A id \in ids : \E m \in DOMAIN new : new[m] = id
      BY <1>8, <2>5
    <2>. QED
      BY <2>2, <2>3, <2>4, <2>6
  <1>11. \A n \in DOMAIN old : old[n] \in Nat /\ old[n] <= c
    BY <1>2, <1>9 DEF ClientOK, Reading, UpTo
  <1>12. Increasing(new)
    <2>1. \A m \in DOMAIN old, n \in DOMAIN s : old[m] < s[n]
      BY <1>3, <1>5, <1>8, <1>11
    <2>2. Increasing(old)
      BY DEF ClientOK, Arrived
    <2>. QED
      BY <1>8, <1>9, <2>1, <2>2, IncreasingConcat
  <1>13. \A n \in DOMAIN new : new[n] \in 0..upto
    <2>. TAKE n \in DOMAIN new
    <2>1. CASE \E m \in DOMAIN old : new[n] = old[m]
      <3>1. new[n] \in Nat /\ new[n] <= c
        BY <1>11, <2>1
      <3>. QED
        BY <1>3, <1>4, <3>1
    <2>2. CASE new[n] \in ids
      <3>1. new[n] \in Nat /\ new[n] <= upto
        BY <1>3, <1>5, <2>2
      <3>. QED
        BY <1>4, <3>1
    <2>. QED
      BY <1>10, <2>1, <2>2
  <1>14. LastEventId(r)' = LastEventId(r) /\ Oldest(r)' = Oldest(r)
    BY <1>2 DEF LastEventId, Oldest
  <1>15. Arrived(r)'
    <2>1. ASSUME NEW n \in DOMAIN new
          PROVE  /\ new[n] \in 1..LastEventId(r)
                 /\ events[r][new[n]].kind = "done" =>
                       status[r] \in Terminal /\ new[n] = LastEventId(r)
      BY <1>5, <1>7, <1>10 DEF ClientOK, Arrived
    <2>. QED
      BY <1>2, <1>12, <1>14, <2>1 DEF Arrived
  <1>16. Covered(r, upto)'
    <2>1. \A n : n \in Range(old) => n \in Range(new)
      BY <1>10 DEF Range
    <2>2. ASSUME NEW n \in 1..upto PROVE Passed(r, n)'
      <3>1. CASE n <= c
        <4>1. n \in 1..c
          BY <1>3, <3>1
        <4>2. Passed(r, n)
          BY <4>1 DEF ClientOK, Covered
        <4>. QED
          BY <1>2, <1>14, <2>1, <4>2 DEF Passed, Superseded
      <3>2. CASE c < n /\ n < f
        <4>1. n < Oldest(r)
          BY <1>3, <1>4, <3>2
        <4>. QED
          BY <1>14, <4>1 DEF Passed
      <3>3. CASE f <= n
        <4>1. n \in f..upto
          BY <1>3, <1>4, <3>3
        <4>2. n \in ids => n \in Range(new)
          BY <1>10 DEF Range
        <4>. QED
          BY <1>2, <1>6, <1>14, <4>1, <4>2 DEF Passed, Superseded
      <3>. QED
        BY <1>3, <1>4, <3>1, <3>2, <3>3
    <2>. QED
      BY <1>4, <2>2 DEF Covered
  <1>17. \A k \in 0..upto : Covered(r, k)'
    BY <1>4, <1>16 DEF Covered
  <1>18. LastReceived(r)' \in 0..upto
    <2>1. LastReceived(r)' = IF new = <<>> THEN 0 ELSE Last(new)
      BY DEF LastReceived
    <2>. QED
      BY <1>4, <1>10, <1>12, <1>13, <2>1, LastOfIncreasing
  <1>19. /\ sub'[r] \in [pc : {"off", "poll"}, cursor : Nat, first : Nat, last : Nat]
         /\ sub'[r].cursor \in 0..upto
         /\ sub'[r].pc = "poll" => sub'[r].cursor = IF upto < f THEN c ELSE upto
    <2>. DEFINE k == IF upto < f THEN c ELSE upto
    <2>1. sub'[r] = IF upto < Stop(r) THEN Off
                     ELSE [Off EXCEPT !.pc = "poll", !.cursor = k]
      BY <1>1 DEF SubTypes
    <2>2. k \in Nat /\ k \in 0..upto
      BY <1>3, <1>4
    <2>. HIDE DEF k
    <2>3. CASE upto < Stop(r)
      BY <1>4, <2>1, <2>3 DEF Off
    <2>4. CASE ~ (upto < Stop(r))
      <3>1. sub'[r] = [pc |-> "poll", cursor |-> k, first |-> 0, last |-> 0]
        BY <2>1, <2>4 DEF Off
      <3>2. k = IF upto < f THEN c ELSE upto
        BY DEF k
      <3>. QED
        BY <2>2, <3>1, <3>2
    <2>. QED
      BY <2>3, <2>4
  <1>20. (Reading(r) => UpTo(r, sub[r].cursor))'
    <2>1. CASE sub'[r].pc # "poll"
      BY <1>19, <2>1 DEF Reading
    <2>2. CASE sub'[r].pc = "poll" /\ upto < f
      <3>1. ids = {}
        BY <1>3, <1>4, <1>5, <2>2
      <3>2. \A n \in DOMAIN new : new[n] <= c
        BY <1>10, <1>11, <3>1
      <3>. QED
        BY <1>19, <2>2, <3>2 DEF UpTo
    <2>3. CASE sub'[r].pc = "poll" /\ ~ (upto < f)
      BY <1>13, <1>19, <2>3 DEF UpTo
    <2>. QED
      BY <2>1, <2>2, <2>3
  <1>21. ClientOK(r)'
    <2>1. (sub[r].cursor <= LastEventId(r))'
      <3>1. sub'[r].cursor \in Nat /\ sub'[r].cursor <= upto
        BY <1>4, <1>19
      <3>. QED
        BY <1>3, <1>4, <1>14, <3>1
    <2>2. Covered(r, sub[r].cursor)' /\ Covered(r, LastReceived(r))'
      BY <1>17, <1>18, <1>19 DEF Covered
    <2>3. BatchOK(r)'
      BY <1>19 DEF BatchOK
    <2>. QED
      BY <1>15, <1>20, <2>1, <2>2, <2>3 DEF ClientOK
  <1>22. SubTypes'
    BY <1>1, <1>10, <1>19 DEF SubTypes
  <1>. QED
    BY <1>21, <1>22

LEMMA ClientInit == StreamInit => ClientInv
  <1>. SUFFICES ASSUME StreamInit PROVE ClientInv
    OBVIOUS
  <1>1. Off \in [pc : {"off", "poll", "read", "deliver", "idle", "closed", "gap"},
                 cursor : Nat, first : Nat, last : Nat]
    BY DEF Off
  <1>2. <<>> \in Seq(Nat) /\ DOMAIN <<>> = {}
    OBVIOUS
  <1>3. SubTypes
    BY <1>1, <1>2 DEF StreamInit, SubTypes
  <1>4. ASSUME NEW r \in Runs PROVE ClientOK(r)
    <2>1. sub[r] = Off /\ received[r] = <<>> /\ events[r] = <<>>
      BY DEF StreamInit, StoreInit
    <2>2. LastEventId(r) = 0 /\ LastReceived(r) = 0
      BY <2>1 DEF LastEventId, LastReceived
    <2>3. Arrived(r)
      BY <1>2, <2>1 DEF Arrived, Increasing
    <2>. QED
      BY <2>1, <2>2, <2>3 DEF ClientOK, Off, Reading, BatchOK, Covered
  <1>. QED
    BY <1>3, <1>4 DEF ClientInv

\* The steps of a client: Redis and the other clients stay as they are.
ClientAction(r) == Connect(r) \/ Follow(r) \/ Disconnect(r)

LEMMA OthersStay ==
    ASSUME SubTypes, NEW r \in Runs, ClientAction(r), NEW q \in Runs, q # r
    PROVE  sub'[q] = sub[q] /\ received'[q] = received[q]
  <1>1. CASE Connect(r)
    BY <1>1 DEF Connect, SubTypes
  <1>2. CASE Poll(r)
    BY <1>2 DEF Poll, SubTypes
  <1>3. CASE Read(r)
    BY <1>3 DEF Read, SubTypes
  <1>4. CASE ReadNothing(r)
    BY <1>4 DEF ReadNothing, SubTypes
  <1>5. CASE Idle(r)
    BY <1>5 DEF Idle, SubTypes
  <1>6. CASE Deliver(r)
    BY <1>6 DEF Deliver, SubTypes
  <1>7. CASE Disconnect(r)
    BY <1>7 DEF Disconnect, SubTypes
  <1>. QED
    BY <1>1, <1>2, <1>3, <1>4, <1>5, <1>6, <1>7 DEF ClientAction, Follow

LEMMA RedisStays ==
    ASSUME NEW r \in Runs, ClientAction(r)
    PROVE  UNCHANGED storeVars
  BY DEF ClientAction, Follow, Connect, Poll, Read, ReadNothing, Idle, Deliver, Disconnect

LEMMA ClientActionStep ==
    ASSUME StoreInv, ClientInv, Buffer \in Nat \ {0}, ReadCount \in Nat \ {0},
           NEW r \in Runs, ClientAction(r)
    PROVE  ClientOK(r)' /\ SubTypes'
  <1>1. StoreTypeOK /\ StreamOrder /\ SubTypes /\ ClientOK(r) /\ UNCHANGED storeVars
    BY RedisStays DEF StoreInv, ClientInv
  <1>2. LastReceived(r) \in Nat
    BY <1>1, OldestType, LastReceivedIs DEF ClientOK
  <1>3. CASE Connect(r)
    <2>. DEFINE pc == IF Gap(r, LastReceived(r)) THEN "gap" ELSE "poll"
    <2>1. sub'[r] = [pc |-> pc, cursor |-> LastReceived(r), first |-> 0, last |-> 0]
      BY <1>1, <1>3 DEF Connect, SubTypes, Off
    <2>2. SubTypes'
      BY <1>1, <1>2, <1>3 DEF Connect, SubTypes, Off
    <2>3. received'[r] = received[r] /\ pc # "deliver"
      BY <1>3 DEF Connect
    <2>. HIDE DEF pc
    <2>. QED
      BY <1>1, <2>1, <2>2, <2>3, QuietStep
  <1>4. CASE Poll(r)
    <2>1. /\ sub'[r].pc \in {"closed", "read"} /\ sub'[r].cursor = sub[r].cursor
          /\ received'[r] = received[r]
      BY <1>1, <1>4 DEF Poll, SubTypes
    <2>2. Reading(r)
      BY <1>4 DEF Poll, Reading
    <2>3. SubTypes'
      BY <1>1, <1>4 DEF Poll, SubTypes
    <2>. QED
      BY <1>1, <2>1, <2>2, <2>3, QuietStep
  <1>5. CASE Read(r)
    BY <1>1, <1>5, ReadStep
  <1>6. CASE ReadNothing(r)
    <2>1. /\ sub'[r].pc = "idle" /\ sub'[r].cursor = sub[r].cursor
          /\ received'[r] = received[r]
      BY <1>1, <1>6 DEF ReadNothing, SubTypes
    <2>2. Reading(r)
      BY <1>6 DEF ReadNothing, Reading
    <2>3. SubTypes'
      BY <1>1, <1>6 DEF ReadNothing, SubTypes
    <2>. QED
      BY <1>1, <2>1, <2>2, <2>3, QuietStep
  <1>7. CASE Idle(r)
    <2>1. /\ sub'[r].pc \in {"gap", "poll"} /\ sub'[r].cursor = sub[r].cursor
          /\ received'[r] = received[r]
      BY <1>1, <1>7 DEF Idle, SubTypes
    <2>2. Reading(r)
      BY <1>7 DEF Idle, Reading
    <2>3. SubTypes'
      BY <1>1, <1>7 DEF Idle, SubTypes
    <2>. QED
      BY <1>1, <2>1, <2>2, <2>3, QuietStep
  <1>8. CASE Deliver(r)
    BY <1>1, <1>8, DeliverStep
  <1>9. CASE Disconnect(r)
    <2>1. sub'[r] = Off /\ received'[r] = received[r]
      BY <1>1, <1>9 DEF Disconnect, SubTypes
    <2>2. SubTypes'
      BY <1>1, <1>9 DEF Disconnect, SubTypes, Off
    <2>3. Off.pc = "off" /\ Off.cursor = 0
      BY DEF Off
    <2>. QED
      BY <1>1, <2>1, <2>2, <2>3, QuietStep DEF Reading
  <1>. QED
    BY <1>3, <1>4, <1>5, <1>6, <1>7, <1>8, <1>9 DEF ClientAction, Follow

LEMMA ClientStep ==
    ASSUME StoreInv, StoreInv', ClientInv, [StreamNext]_streamingVars,
           Buffer \in Nat \ {0}, ReadCount \in Nat \ {0}
    PROVE  ClientInv'
  <1>1. /\ StoreTypeOK /\ StoreTypeOK' /\ LeaseIndex /\ Fresh /\ SubTypes
        /\ \A r \in Runs : ClientOK(r)
    BY DEF StoreInv, ClientInv
  <1>2. ASSUME [StoreNext]_storeVars, UNCHANGED <<sub, received>>
        PROVE  ClientInv'
    <2>1. \A r \in Runs : ClientOK(r)'
      BY <1>1, <1>2, ClientStays
    <2>2. SubTypes'
      BY <1>1, <1>2 DEF SubTypes
    <2>. QED
      BY <2>1, <2>2 DEF ClientInv
  <1>3. ASSUME NEW r \in Runs, ClientAction(r)
        PROVE  ClientInv'
    <2>1. ClientOK(r)' /\ SubTypes'
      BY <1>3, ClientActionStep
    <2>2. [StoreNext]_storeVars
      BY <1>3, RedisStays
    <2>3. \A q \in Runs : q # r => ClientOK(q)'
      BY <1>1, <1>3, <2>2, OthersStay, ClientStays
    <2>. QED
      BY <2>1, <2>3 DEF ClientInv
  <1>. QED
    BY <1>2, <1>3 DEF StreamNext, ClientAction, streamingVars

\* A subscription only reads Redis.
LEMMA StreamOnStore ==
    StreamSpec => StoreSpec
  <1>1. StreamInit => StoreInit
    BY DEF StreamInit
  <1>2. [StreamNext]_streamingVars => [StoreNext]_storeVars
    <2>1. \A r \in Runs : ClientAction(r) => UNCHANGED storeVars
      BY RedisStays
    <2>. QED
      BY <2>1 DEF StreamNext, streamingVars, ClientAction
  <1>. QED
    BY <1>1, <1>2, PTL DEF StreamSpec, StoreSpec

LEMMA ClientInvariant ==
    ASSUME Buffer \in Nat \ {0}, ReadCount \in Nat \ {0}
    PROVE  StreamSpec => [](StoreInv /\ ClientInv)
  <1>1. StreamInit => ClientInv
    BY ClientInit
  <1>2. StoreInv /\ StoreInv' /\ ClientInv /\ [StreamNext]_streamingVars => ClientInv'
    BY ClientStep
  <1>. QED
    BY <1>1, <1>2, StreamOnStore, StoreInvariant, PTL DEF StreamSpec

\* Nothing but a DONE and what the stream no longer holds is passed over.
OnlyTrimmed ==
    \A r \in Runs : \A n \in 1..sub[r].cursor :
        events[r][n].kind = "done" \/ n \in Range(received[r]) \/ n < Oldest(r)

LEMMA WhatAClientGets ==
    ASSUME StoreInv, ClientInv, Buffer \in Nat \ {0}
    PROVE  StreamTypeOK /\ InOrder /\ DoneIsFinal /\ DoneReached /\ OnlyTrimmed
  <1>1. StoreTypeOK /\ SubTypes /\ \A r \in Runs : ClientOK(r)
    BY DEF StoreInv, ClientInv
  <1>2. StreamTypeOK
    <2>1. \A r \in Runs : DOMAIN events[r] = 1..LastEventId(r)
      BY <1>1 DEF StoreTypeOK, LastEventId
    <2>. QED
      BY <1>1, <2>1 DEF StreamTypeOK, SubTypes, ClientOK, Arrived
  <1>3. InOrder
    BY <1>1 DEF InOrder, ClientOK, Arrived, Increasing
  <1>4. DoneIsFinal
    BY <1>1 DEF DoneIsFinal, ClientOK, Arrived
  <1>5. OnlyTrimmed
    BY <1>1 DEF OnlyTrimmed, ClientOK, Covered, Passed, Superseded
  <1>6. DoneReached
    <2>. SUFFICES ASSUME NEW r \in Runs, events[r] # <<>>,
                         sub[r].cursor = LastEventId(r),
                         Last(events[r]) = [kind |-> "done", fence |-> fence[r]]
                  PROVE  LastEventId(r) \in Range(received[r])
      BY DEF DoneReached
    <2>1. events[r] \in Seq(Event) /\ fence[r] \in Nat
      BY <1>1 DEF StoreTypeOK
    <2>2. LastEventId(r) \in Nat \ {0} /\ events[r][LastEventId(r)] = Last(events[r])
      BY <2>1 DEF LastEventId, Last
    <2>3. Passed(r, LastEventId(r))
      BY <1>1, <2>2 DEF ClientOK, Covered
    <2>4. ~ (LastEventId(r) < Oldest(r))
      BY <1>1, <2>2, OldestType
    <2>5. ~ Superseded(r, LastEventId(r))
      BY <2>1, <2>2 DEF Superseded
    <2>. QED
      BY <2>3, <2>4, <2>5 DEF Passed
  <1>. QED
    BY <1>2, <1>3, <1>4, <1>5, <1>6

(***************************************************************************)
(* For any buffer and batch, over reconnects, trimming, take-overs and     *)
(* cancellations (StreamInit, StreamNext): events arrive in order and once,*)
(* a DONE that arrives is true and final, a subscription that closes at it *)
(* delivered it, and whatever else is missing was trimmed before it could  *)
(* be read.                                                                *)
(***************************************************************************)
THEOREM Subscriptions ==
    ASSUME Buffer \in Nat \ {0}, ReadCount \in Nat \ {0}
    PROVE  StreamSpec =>
             [](StreamTypeOK /\ InOrder /\ DoneIsFinal /\ DoneReached /\ OnlyTrimmed)
  <1>1. StoreInv /\ ClientInv =>
          StreamTypeOK /\ InOrder /\ DoneIsFinal /\ DoneReached /\ OnlyTrimmed
    BY WhatAClientGets
  <1>. QED
    BY <1>1, ClientInvariant, PTL

\* A cancellation writes two events behind the bound, and nothing follows it.
Bounded ==
    \A r \in Runs :
        /\ Len(events[r]) <= MaxEvents + 2
        /\ status[r] \notin Terminal => Len(events[r]) <= MaxEvents

LEMMA BoundedStep ==
    ASSUME StoreInv, Bounded, [StoreNext]_storeVars
    PROVE  Bounded'
  <1>. SUFFICES ASSUME NEW q \in Runs
                PROVE  /\ Len(events'[q]) <= MaxEvents + 2
                       /\ status'[q] \notin Terminal => Len(events'[q]) <= MaxEvents
    BY DEF Bounded
  <1>. DEFINE Fits == /\ Len(events'[q]) <= MaxEvents + 2
                      /\ status'[q] \notin Terminal => Len(events'[q]) <= MaxEvents
  <1>0. /\ StoreTypeOK /\ LeaseIndex
        /\ events[q] \in Seq(Event) /\ Len(events[q]) \in Nat /\ MaxEvents \in Nat
        /\ Len(events[q]) <= MaxEvents + 2
        /\ status[q] \notin Terminal => Len(events[q]) <= MaxEvents
    BY BoundsAssumption DEF StoreInv, StoreTypeOK, Bounded
  <1>1. CASE status[q] \in Terminal
    <2>1. status'[q] = status[q] /\ events'[q] = events[q]
      BY <1>0, <1>1, SealedSteps DEF SealedStep
    <2>. QED
      BY <1>0, <1>1, <2>1
  <1>2. ASSUME status[q] \notin Terminal, events'[q] = events[q]
        PROVE  Fits
    BY <1>0, <1>2
  <1>3. ASSUME status[q] \notin Terminal, NEW r \in Runs, NEW i \in Instances,
               ClientScript(r, i)
        PROVE  Fits
    <2>1. CASE Cancel(r) /\ q = r /\ r \in StreamRuns
      <3>. DEFINE d == [kind |-> "error", fence |-> fence[q] + 1]
                  e == [kind |-> "done", fence |-> fence[q] + 1]
      <3>1. status'[q] \in Terminal /\ events'[q] = events[q] \o <<d, e>>
        BY <1>0, <2>1 DEF Cancel, LeaveExecution, StoreTypeOK, Terminal
      <3>2. Len(events'[q]) = Len(events[q]) + 2
        BY <1>0, <3>1
      <3>. QED
        BY <1>0, <1>3, <3>1, <3>2
    <2>2. CASE Cancel(r) /\ ~ (q = r /\ r \in StreamRuns)
      <3>1. events'[q] = events[q]
        BY <1>0, <2>2 DEF Cancel, StoreTypeOK
      <3>. QED
        BY <1>2, <1>3, <3>1
    <2>3. CASE UNCHANGED events
      BY <1>2, <1>3, <2>3
    <2>. QED
      BY <1>3, <2>1, <2>2, <2>3
         DEF ClientScript, Create, TakeOver, Resume, streamVars
  <1>4. ASSUME status[q] \notin Terminal, NEW r \in Runs, NEW i \in Instances,
               NEW f \in 1..MaxFence, OwnerScript(r, i, f)
        PROVE  Fits
    <2>1. ASSUME NEW e, Len(events[r]) < MaxEvents,
                 events' = [events EXCEPT ![r] = Append(@, e)]
          PROVE  Fits
      <3>1. CASE q = r
        <4>1. events'[q] = Append(events[q], e)
          BY <1>0, <2>1, <3>1 DEF StoreTypeOK
        <4>2. Len(events'[q]) = Len(events[q]) + 1
          BY <1>0, <4>1
        <4>. QED
          BY <1>0, <2>1, <3>1, <4>2
      <3>2. CASE q # r
        <4>1. events'[q] = events[q]
          BY <1>0, <2>1, <3>2 DEF StoreTypeOK
        <4>. QED
          BY <1>2, <1>4, <4>1
      <3>. QED
        BY <3>1, <3>2
    <2>2. ASSUME NEW kind \in Kinds, NEW key \in EventKey \cup {NoKey},
                 AppendEvent(r, i, f, kind, key)
          PROVE  Fits
      <3>1. CASE key \in keys[r]
        BY <1>2, <1>4, <2>2, <3>1 DEF AppendEvent
      <3>2. CASE key \notin keys[r]
        BY <2>1, <2>2, <3>2 DEF AppendEvent
      <3>. QED
        BY <3>1, <3>2
    <2>3. CASE OwnerAppend(r, i, f)
      BY <2>2, <2>3, AppendKinds
    <2>4. ASSUME NEW n \in Interactions, PauseForInput(r, i, f, n)
          PROVE  Fits
      BY <2>1, <2>4 DEF PauseForInput
    <2>5. CASE \/ AcquireRunning(r, i, f) \/ Heartbeat(r, i, f)
               \/ ReleaseLease(r, i, f) \/ SetRunId(r, i, f)
               \/ MarkStreamFailed(r, i, f)
               \/ \E target \in Terminal : Transition(r, i, f, target)
      <3>1. UNCHANGED events
        BY <2>5 DEF AcquireRunning, Heartbeat, ReleaseLease, SetRunId,
           MarkStreamFailed, Transition, streamVars
      <3>. QED
        BY <1>2, <1>4, <3>1
    <2>. QED
      BY <1>4, <2>3, <2>4, <2>5 DEF OwnerScript
  <1>5. CASE Advance \/ UNCHANGED storeVars
    <2>1. UNCHANGED events
      BY <1>5 DEF Advance, storeVars, streamVars
    <2>. QED
      BY <1>1, <1>2, <2>1
  <1>. QED
    BY <1>1, <1>3, <1>4, <1>5 DEF StoreNext

\* As long as the buffer holds every event a run writes, a client misses nothing
\* but a DONE that was overtaken (StreamSound, of Connect to Deliver).  With a
\* smaller one it may, without being told: the run stream_gap shows it.
THEOREM StreamsSound ==
    ASSUME Buffer \in Nat, Buffer >= MaxEvents + 2, ReadCount \in Nat \ {0}
    PROVE  StreamSpec => []StreamSound
  <1>0. Buffer \in Nat \ {0} /\ MaxEvents \in Nat
    BY BoundsAssumption
  <1>1. StoreInit => Bounded
    <2>. SUFFICES ASSUME StoreInit, NEW r \in Runs PROVE Len(events[r]) = 0
      BY <1>0 DEF Bounded
    <2>1. events[r] = <<>>
      BY DEF StoreInit
    <2>. QED
      BY <2>1
  <1>2. StoreInv /\ Bounded /\ [StoreNext]_storeVars => Bounded'
    BY BoundedStep
  <1>3. StoreInv /\ ClientInv /\ Bounded => StreamSound
    <2>. SUFFICES ASSUME StoreInv, ClientInv, Bounded PROVE StreamSound
      OBVIOUS
    <2>1. StreamTypeOK /\ InOrder /\ DoneIsFinal /\ DoneReached /\ OnlyTrimmed
      BY <1>0, WhatAClientGets
    <2>2. ASSUME NEW r \in Runs PROVE Oldest(r) = 1
      <3>1. LastEventId(r) \in Nat /\ LastEventId(r) <= Buffer
        BY <1>0 DEF StoreInv, StoreTypeOK, Bounded, LastEventId
      <3>. QED
        BY <1>0, <3>1 DEF Oldest
    <2>3. NoSilentGap
      <3>. SUFFICES ASSUME NEW r \in Runs, NEW n \in 1..sub[r].cursor
                    PROVE  events[r][n].kind = "done" \/ n \in Range(received[r])
        BY DEF NoSilentGap
      <3>1. n \in Nat /\ n >= 1
        OBVIOUS
      <3>. QED
        BY <2>1, <2>2, <3>1 DEF OnlyTrimmed
    <2>. QED
      BY <2>1, <2>3 DEF StreamSound
  <1>. QED
    BY <1>0, <1>1, <1>2, <1>3, ClientInvariant, StreamOnStore, PTL DEF StoreSpec
-----------------------------------------------------------------------------

(***************************************************************************)
(* The inductive invariant.  TerminalHasDone follows from DoneFlag once an *)
(* ended stream has its flag set; that in turn needs to know where in its  *)
(* code a task may rely on the flag (LocalDone), that the flag is only     *)
(* reset together with the token (the tasks of an older token are refused  *)
(* anyway), and that a repeated DONE is dropped only when the first is     *)
(* there (KeyFlag).                                                        *)
(***************************************************************************)

\* A DONE key is stored with the token it names and together with the flag.
KeyFlag ==
    \A r \in Runs, f \in Nat :
        DoneKey(f) \in keys[r] => f <= fence[r] /\ (f = fence[r] => emitted[r])

FenceBound == \A r \in Runs : fence[r] <= MaxFence

\* A task works for an instance, with a token that was granted.
Started(t) == t.pc \notin {"none", "ended"}

Credited(r, t) ==
    Started(t) => /\ t.inst \in Instances
                  /\ fence[r] >= 1
                  /\ t.fence <= fence[r]
                  /\ t.pc # "load" => t.fence >= 1

TaskTokens == \A r \in Runs, g \in Tokens1 : Credited(r, task[r][g])

\* What the owner of a stream remembers of its DONE is true, and it is about to
\* end the run only when the DONE is there.
Sure(r, t) ==
    Alive(t) /\ Owns(r, t.inst, t.fence) =>
        /\ t.emitted => emitted[r]
        /\ t.pc \in {"commit", "errorCommit"} => emitted[r]

LocalDone == \A r \in StreamRuns, g \in Tokens1 : Sure(r, task[r][g])

TerminalEmitted == \A r \in StreamRuns : status[r] \in Terminal => emitted[r]

TokenInv == RegistryTypeOK /\ KeyFlag /\ FenceBound /\ TaskTokens
RegInv == StoreInv /\ TokenInv /\ LocalDone /\ TerminalEmitted

-----------------------------------------------------------------------------
\* What a script does to a run's owner: as long as the token stays, so does the
\* owner, and the flag is not taken back.
Holds(q) ==
    \/ fence'[q] > fence[q]
    \/ /\ fence'[q] = fence[q]
       /\ owner'[q] = owner[q]
       /\ emitted[q] => emitted'[q]

LEMMA HoldsStep ==
    ASSUME StoreTypeOK, Fresh, [StoreNext]_storeVars, NEW q \in Runs
    PROVE  Holds(q)
  <1>0. fence[q] \in Nat
    BY DEF StoreTypeOK
  <1>1. Starts(q) => fence'[q] > fence[q]
    BY DEF Fresh, Starts
  <1>2. Passes(q) \/ Closes(q) => fence'[q] > fence[q]
    BY <1>0 DEF Passes, Closes
  <1>3. Keeps(q) \/ Writes(q) => fence'[q] = fence[q] /\ (emitted[q] => emitted'[q])
    BY DEF Keeps, Writes
  <1>4. fence'[q] > fence[q] \/ owner'[q] = owner[q]
    <2>1. CASE UNCHANGED owner
      BY <2>1
    <2>2. ASSUME NEW r \in Runs, NEW i \in Instances, Create(r, i)
          PROVE  fence'[q] > fence[q] \/ owner'[q] = owner[q]
      BY <1>0, <2>2 DEF Create, StoreTypeOK, Fresh
    <2>3. ASSUME NEW r \in Runs, NEW i \in Instances, Reassign(r, i)
          PROVE  fence'[q] > fence[q] \/ owner'[q] = owner[q]
      BY <1>0, <2>3 DEF Reassign, StoreTypeOK
    <2>4. ASSUME NEW r \in Runs, NEW i \in Instances, ClientScript(r, i)
          PROVE  fence'[q] > fence[q] \/ owner'[q] = owner[q]
      BY <2>1, <2>2, <2>3, <2>4 DEF ClientScript, TakeOver, Resume, Cancel
    <2>5. ASSUME NEW r \in Runs, NEW i \in Instances, NEW f \in 1..MaxFence,
                 OwnerScript(r, i, f)
          PROVE  UNCHANGED owner
      BY <2>5 DEF OwnerScript, OwnerAppend, AppendEvent, AcquireRunning, Heartbeat,
         ReleaseLease, Transition, SetRunId, MarkStreamFailed, PauseForInput
    <2>. QED
      BY <2>1, <2>4, <2>5 DEF StoreNext, Advance, storeVars, hashVars
  <1>. QED
    BY <1>1, <1>2, <1>3, <1>4, ChangeStep DEF StreamChange, Holds

LEMMA FenceBoundStep ==
    ASSUME StoreTypeOK, FenceBound, [StoreNext]_storeVars
    PROVE  FenceBound'
  <1>1. CASE UNCHANGED fence
    BY <1>1 DEF FenceBound
  <1>2. ASSUME NEW r \in Runs, NEW i \in Instances, ClientScript(r, i)
        PROVE  FenceBound'
    <2>1. CASE Create(r, i)
      BY <2>1, BoundsAssumption DEF Create, StoreTypeOK, FenceBound
    <2>2. CASE fence[r] < MaxFence /\ fence' = [fence EXCEPT ![r] = @ + 1]
      BY <2>2, BoundsAssumption DEF StoreTypeOK, FenceBound
    <2>. QED
      BY <1>2, <2>1, <2>2 DEF ClientScript, TakeOver, Resume, Reassign, Cancel
  <1>3. ASSUME NEW r \in Runs, NEW i \in Instances, NEW f \in 1..MaxFence,
               OwnerScript(r, i, f)
        PROVE  UNCHANGED fence
    BY <1>3 DEF OwnerScript, OwnerAppend, AppendEvent, AcquireRunning, Heartbeat,
       ReleaseLease, Transition, SetRunId, MarkStreamFailed, PauseForInput
  <1>. QED
    BY <1>1, <1>2, <1>3 DEF StoreNext, Advance, storeVars, hashVars

\* What an owner's append does to the keys and the flag.
LEMMA AppendKeys ==
    ASSUME StoreTypeOK, NEW r \in Runs, NEW i \in Instances, NEW f \in 1..MaxFence,
           OwnerAppend(r, i, f), NEW q \in Runs
    PROVE  /\ fence'[q] = fence[q]
           /\ emitted[q] => emitted'[q]
           /\ \A h \in Nat : DoneKey(h) \in keys'[q] =>
                 \/ DoneKey(h) \in keys[q]
                 \/ q = r /\ h = fence[r] /\ emitted'[r]
  <1>1. /\ \A code \in Codes, h \in Nat : ErrorKey(code) # DoneKey(h)
        /\ \A h \in Nat : NoKey # DoneKey(h)
    BY DEF Codes, ErrorKey, DoneKey, NoKey
  <1>2. \A h \in Nat : DoneKey(h) = DoneKey(f) => h = f
    BY DEF DoneKey
  <1>3. ASSUME NEW kind \in Kinds, NEW key, AppendEvent(r, i, f, kind, key),
               key = DoneKey(f) => kind = "done",
               key = DoneKey(f) \/ \A h \in Nat : key # DoneKey(h)
        PROVE  /\ fence'[q] = fence[q]
               /\ emitted[q] => emitted'[q]
               /\ \A h \in Nat : DoneKey(h) \in keys'[q] =>
                     \/ DoneKey(h) \in keys[q]
                     \/ q = r /\ h = fence[r] /\ emitted'[r]
    <2>0. fence[r] = f /\ fence' = fence
      BY <1>3 DEF AppendEvent, CanAppend, Owns
    <2>1. CASE key \in keys[r]
      BY <1>3, <2>0, <2>1 DEF AppendEvent
    <2>2. CASE key \notin keys[r]
      <3>1. emitted' = [emitted EXCEPT ![r] = @ \/ kind = "done"]
        BY <1>3, <2>2 DEF AppendEvent
      <3>2. keys' = [keys EXCEPT ![r] = IF key = NoKey THEN @ ELSE @ \cup {key}]
        BY <1>3, <2>2 DEF AppendEvent
      <3>3. \A h \in Nat : DoneKey(h) \in keys'[q] =>
               DoneKey(h) \in keys[q] \/ (q = r /\ DoneKey(h) = key)
        BY <3>2 DEF StoreTypeOK
      <3>4. emitted[q] => emitted'[q]
        BY <3>1 DEF StoreTypeOK
      <3>5. kind = "done" => emitted'[r]
        BY <3>1 DEF StoreTypeOK
      <3>. QED
        BY <1>2, <1>3, <2>0, <3>3, <3>4, <3>5
    <2>. QED
      BY <2>1, <2>2
  <1>. DEFINE Goal == /\ fence'[q] = fence[q]
                      /\ emitted[q] => emitted'[q]
                      /\ \A h \in Nat : DoneKey(h) \in keys'[q] =>
                            \/ DoneKey(h) \in keys[q]
                            \/ q = r /\ h = fence[r] /\ emitted'[r]
  <1>4. ASSUME NEW kind \in {"data", "error"}, AppendEvent(r, i, f, kind, NoKey)
        PROVE  Goal
    BY <1>1, <1>3, <1>4 DEF Kinds
  <1>5. ASSUME NEW code \in Codes, AppendEvent(r, i, f, "error", ErrorKey(code))
        PROVE  Goal
    BY <1>1, <1>3, <1>5 DEF Kinds
  <1>6. ASSUME NEW key \in {NoKey, DoneKey(f)}, AppendEvent(r, i, f, "done", key)
        PROVE  Goal
    BY <1>1, <1>3, <1>6 DEF Kinds
  <1>. HIDE DEF Goal
  <1>7. Goal
    BY <1>4, <1>5, <1>6 DEF OwnerAppend
  <1>. QED
    BY <1>7 DEF Goal

LEMMA KeyFlagStep ==
    ASSUME StoreTypeOK, Fresh, KeyFlag, [StoreNext]_storeVars
    PROVE  KeyFlag'
  <1>. SUFFICES ASSUME NEW q \in Runs, NEW h \in Nat, DoneKey(h) \in keys'[q]
                PROVE  h <= fence'[q] /\ (h = fence'[q] => emitted'[q])
    BY DEF KeyFlag
  <1>0. fence'[q] > fence[q] \/ (fence'[q] = fence[q] /\ (emitted[q] => emitted'[q]))
    <2>1. Holds(q)
      BY HoldsStep
    <2>. QED
      BY <2>1, Zenon DEF Holds
  <1>1. fence[q] \in Nat /\ fence'[q] \in Nat
    BY TypeStep DEF StoreTypeOK
  <1>2. CASE DoneKey(h) \in keys[q]
    BY <1>0, <1>1, <1>2 DEF KeyFlag
  <1>3. ASSUME NEW r \in Runs, NEW i \in Instances, NEW f \in 1..MaxFence,
               OwnerAppend(r, i, f), DoneKey(h) \notin keys[q]
        PROVE  h = fence'[q] /\ emitted'[q]
    BY <1>3, AppendKeys
  <1>4. CASE UNCHANGED keys
    BY <1>2, <1>4
  <1>5. ASSUME NEW r \in Runs, NEW i \in Instances, ClientScript(r, i)
        PROVE  UNCHANGED keys
    BY <1>5 DEF ClientScript, Create, TakeOver, Resume, Cancel, streamVars
  <1>6. ASSUME NEW r \in Runs, NEW i \in Instances, NEW f \in 1..MaxFence,
               OwnerScript(r, i, f)
        PROVE  OwnerAppend(r, i, f) \/ UNCHANGED keys
    BY <1>6 DEF OwnerScript, AcquireRunning, Heartbeat, streamVars,
       ReleaseLease, Transition, SetRunId, MarkStreamFailed, PauseForInput
  <1>. QED
    BY <1>1, <1>2, <1>3, <1>4, <1>5, <1>6 DEF StoreNext, Advance, storeVars, streamVars

-----------------------------------------------------------------------------
\* What a step makes of a task record: it is let go, newly granted, loaded, or
\* goes on with the same token, to the end of the run only when the DONE is there.
Granted(r, u) ==
    /\ u.pc = "load" /\ u.inst \in Instances
    /\ u.fence \in {0, fence'[r]} /\ fence'[r] >= 1

Loaded(r, t, u) ==
    /\ t.pc = "load" /\ u.pc = "slot" /\ u.inst = t.inst
    /\ u.fence = IF t.fence = 0 THEN fence[r] ELSE t.fence
    /\ u.emitted = emitted[r]

GoesOn(r, t, u) ==
    /\ Alive(t) /\ Alive(u) /\ u.inst = t.inst /\ u.fence = t.fence
    /\ r \in StreamRuns /\ Owns(r, t.inst, t.fence) =>
          /\ u.emitted => t.emitted \/ emitted'[r]
          /\ u.pc \in {"commit", "errorCommit"} => u.pc = t.pc \/ emitted'[r]

Follows(r, t, u) ==
    /\ u \in Task
    /\ u = t \/ u = Ended \/ Granted(r, u) \/ Loaded(r, t, u) \/ GoesOn(r, t, u)

TaskTable == [Runs -> [Tokens1 -> Task]]
TableStep ==
    /\ task' \in TaskTable
    /\ \A r \in Runs, g \in Tokens1 : Follows(r, task[r][g], task'[r][g])

LEMMA EndedType == Ended \in Task /\ NoTask \in Task
  BY DEF Ended, NoTask, Task

LEMMA TaskType ==
    ASSUME RegistryTypeOK, NEW r \in Runs, NEW g \in Tokens1
    PROVE  task[r][g] \in Task
  BY DEF RegistryTypeOK

LEMMA SetStep ==
    ASSUME RegistryTypeOK, NEW r \in Runs, NEW g \in Tokens1, NEW u,
           Set(r, g, u), Follows(r, task[r][g], u)
    PROVE  TableStep
  <1>1. u \in Task
    BY DEF Follows
  <1>2. task' \in TaskTable
    BY <1>1 DEF Set, RegistryTypeOK, TaskTable
  <1>3. task'[r][g] = u
    BY DEF Set, RegistryTypeOK
  <1>4. \A q \in Runs, h \in Tokens1 : q # r \/ h # g => task'[q][h] = task[q][h]
    BY DEF Set, RegistryTypeOK
  <1>5. \A q \in Runs, h \in Tokens1 : task[q][h] \in Task
    BY TaskType
  <1>6. ASSUME NEW q \in Runs, NEW h \in Tokens1, q # r \/ h # g
        PROVE  Follows(q, task[q][h], task'[q][h])
    BY <1>4, <1>5, <1>6 DEF Follows
  <1>. QED
    BY <1>2, <1>3, <1>6 DEF TableStep

LEMMA TableSame ==
    ASSUME RegistryTypeOK, UNCHANGED task
    PROVE  TableStep
  BY TaskType DEF TableStep, Follows, RegistryTypeOK, TaskTable

\* Raising an exception lets a task go or takes it to its except clauses.
LEMMA RaiseFollows ==
    ASSUME NEW r \in Runs, NEW t \in Task, Alive(t), NEW why \in Causes
    PROVE  Follows(r, t, Raise(t, why))
  <1>1. CASE t.pc \in TryBlock
    <2>. DEFINE u == [Left(t) EXCEPT !.pc = "handler", !.why = why]
    <2>1. u \in Task /\ u.pc = "handler" /\ u.inst = t.inst /\ u.fence = t.fence
          /\ u.emitted = t.emitted
      BY DEF Left, Task, Handlers, Causes
    <2>2. Raise(t, why) = u
      BY <1>1 DEF Raise
    <2>. HIDE DEF u
    <2>3. Alive(u)
      BY <2>1 DEF Alive, Handlers
    <2>4. GoesOn(r, t, u)
      BY <2>1, <2>3 DEF GoesOn
    <2>. QED
      BY <2>1, <2>2, <2>4 DEF Follows
  <1>2. CASE t.pc \notin TryBlock
    BY <1>2, EndedType DEF Raise, Follows
  <1>. QED
    BY <1>1, <1>2

\* So does a call whose reply is lost.
LEMMA ReplyStep ==
    ASSUME RegistryTypeOK, NEW r \in Runs, NEW g \in Tokens1, NEW u,
           Alive(task[r][g]), Reply(r, g, u), Follows(r, task[r][g], u)
    PROVE  TableStep /\ faults' \in 0..MaxFaults
  <1>1. Follows(r, task[r][g], Raise(task[r][g], "error"))
        /\ Follows(r, task[r][g], Raise(task[r][g], "timeout"))
    BY TaskType, RaiseFollows DEF Causes
  <1>2. TableStep
    BY <1>1, SetStep DEF Reply
  <1>3. faults' \in 0..MaxFaults
    BY RegistryBounds DEF Reply, Fail, MayFail, RegistryTypeOK
  <1>. QED
    BY <1>2, <1>3

\* What a task that goes on must not claim.
LEMMA GoFollows ==
    ASSUME NEW r \in Runs, NEW t \in Task, NEW u \in Task, Alive(t), Alive(u),
           u.inst = t.inst, u.fence = t.fence,
           u.emitted => t.emitted \/ emitted'[r],
           \/ u.pc \notin {"commit", "errorCommit"} \/ u.pc = t.pc
           \/ r \in StreamRuns /\ Owns(r, t.inst, t.fence) => emitted'[r]
    PROVE  Follows(r, t, u)
  BY DEF Follows, GoesOn

LEMMA EndFollows == \A r \in Runs, t \in Task : Follows(r, t, Ended)
  BY EndedType DEF Follows

\* The tokens a task of the invariant presents.
LEMMA Credentials ==
    ASSUME StoreTypeOK, TokenInv, NEW r \in Runs, NEW g \in Tokens1, Alive(task[r][g])
    PROVE  /\ task[r][g].inst \in Instances
           /\ task[r][g].fence \in 1..MaxFence
  <1>1. task[r][g].pc \notin {"none", "ended", "load"}
    BY DEF Alive, TryBlock, Handlers
  <1>2. /\ task[r][g].inst \in Instances
        /\ task[r][g].fence <= fence[r] /\ task[r][g].fence >= 1
    BY <1>1 DEF TokenInv, TaskTokens, Credited, Started
  <1>3. task[r][g].fence \in Nat /\ fence[r] \in Nat
    BY TaskType DEF TokenInv, Task, StoreTypeOK
  <1>4. fence[r] <= MaxFence
    BY DEF TokenInv, FenceBound
  <1>. QED
    BY <1>2, <1>3, <1>4, BoundsAssumption

\* After a DONE was appended, or found to be there already, the flag is set.
LEMMA DoneAppended ==
    ASSUME StoreTypeOK, KeyFlag, NEW r \in Runs, NEW i, NEW f \in Nat,
           NEW key \in {NoKey, DoneKey(f)}, AppendEvent(r, i, f, "done", key)
    PROVE  emitted'[r]
  <1>1. CASE key \in keys[r]
    <2>1. key = DoneKey(f)
      <3>1. NoKey \notin EventKey
        BY DEF NoKey, EventKey, Codes
      <3>. QED
        BY <1>1, <3>1 DEF StoreTypeOK
    <2>2. emitted[r]
      BY <1>1, <2>1 DEF AppendEvent, CanAppend, Owns, KeyFlag
    <2>. QED
      BY <1>1, <2>2 DEF AppendEvent
  <1>2. CASE key \notin keys[r]
    <2>1. emitted' = [emitted EXCEPT ![r] = @ \/ "done" = "done"]
      BY <1>2 DEF AppendEvent
    <2>. QED
      BY <2>1 DEF StoreTypeOK
  <1>. QED
    BY <1>1, <1>2

Bookkeeping ==
    /\ instance \in [Instances -> {"up", "closing", "down"}]
    /\ faults \in 0..MaxFaults
    /\ asked \subseteq Runs

\* A new token: the script has just returned it.
LEMMA GrantFollows ==
    ASSUME NEW r \in Runs, NEW u \in Task, u.pc = "load", u.inst \in Instances,
           u.fence \in {0, fence'[r]}, fence'[r] >= 1, NEW t
    PROVE  Follows(r, t, u)
  BY DEF Follows, Granted

LEMMA GrantStep ==
    ASSUME StoreInv, TokenInv, NEW r \in Runs, NEW i \in Instances,
           Start(r, i) \/ ResumeRun(r, i)
    PROVE  TableStep /\ Bookkeeping'
  <1>1. StoreTypeOK /\ Fresh /\ RegistryTypeOK
    BY DEF StoreInv, TokenInv
  <1>2. fence'[r] = fence[r] + 1 /\ fence[r] \in Nat /\ fence[r] + 1 \in 1..MaxFence
    <2>1. CASE Create(r, i)
      BY <1>1, <2>1, BoundsAssumption DEF Create, StoreTypeOK, Fresh
    <2>2. CASE Reassign(r, i)
      BY <1>1, <2>2, BoundsAssumption DEF Reassign, StoreTypeOK
    <2>. QED
      BY <2>1, <2>2 DEF Start, ResumeRun, TakeOver, Resume
  <1>. DEFINE u == [NoTask EXCEPT !.inst = i, !.pc = "load"]
              v == [NoTask EXCEPT !.inst = i, !.pc = "load", !.fence = fence[r] + 1]
  <1>3. /\ u \in Task /\ u.pc = "load" /\ u.inst = i /\ u.fence = 0
        /\ v \in Task /\ v.pc = "load" /\ v.inst = i /\ v.fence = fence[r] + 1
    <2>1. NoTask \in Task /\ NoTask.fence = 0
      BY EndedType DEF NoTask
    <2>2. u \in Task /\ u.pc = "load" /\ u.inst = i /\ u.fence = 0
      BY <2>1 DEF Task
    <2>3. fence[r] + 1 \in Nat
      BY <1>2
    <2>4. v \in Task /\ v.pc = "load" /\ v.inst = i /\ v.fence = fence[r] + 1
      BY <2>1, <2>3 DEF Task
    <2>. QED
      BY <2>2, <2>4
  <1>. /\ Start(r, i) => Set(r, fence[r] + 1, u)
       /\ ResumeRun(r, i) => Set(r, fence[r] + 1, v)
    BY DEF Start, ResumeRun
  <1>. HIDE DEF u, v
  <1>4. Follows(r, task[r][fence[r] + 1], u) /\ Follows(r, task[r][fence[r] + 1], v)
    BY <1>2, <1>3, GrantFollows
  <1>5. TableStep
    BY <1>1, <1>2, <1>4, SetStep DEF Tokens1
  <1>. QED
    BY <1>1, <1>5 DEF Start, ResumeRun, RegistryTypeOK, Bookkeeping

\* The step of one task, from the record it gets.
LEMMA PlainStep ==
    ASSUME RegistryTypeOK, NEW r \in Runs, NEW g \in Tokens1, NEW u,
           Set(r, g, u), Follows(r, task[r][g], u),
           UNCHANGED <<instance, asked>>, UNCHANGED faults \/ Fail
    PROVE  TableStep /\ Bookkeeping'
  <1>1. TableStep
    BY SetStep
  <1>2. faults' \in 0..MaxFaults
    BY RegistryBounds DEF Fail, MayFail, RegistryTypeOK
  <1>. QED
    BY <1>1, <1>2 DEF RegistryTypeOK, Bookkeeping

LEMMA RepliedStep ==
    ASSUME RegistryTypeOK, NEW r \in Runs, NEW g \in Tokens1, NEW u,
           Alive(task[r][g]), Reply(r, g, u), Follows(r, task[r][g], u),
           UNCHANGED <<instance, asked>>
    PROVE  TableStep /\ Bookkeeping'
  BY ReplyStep DEF RegistryTypeOK, Bookkeeping

LEMMA RaisedStep ==
    ASSUME RegistryTypeOK, NEW r \in Runs, NEW g \in Tokens1, NEW why \in Causes,
           Alive(task[r][g]), Set(r, g, Raise(task[r][g], why)),
           UNCHANGED <<instance, asked>>, UNCHANGED faults \/ Fail
    PROVE  TableStep /\ Bookkeeping'
  BY TaskType, RaiseFollows, PlainStep

LEMMA EndedStep ==
    ASSUME RegistryTypeOK, NEW r \in Runs, NEW g \in Tokens1, Set(r, g, Ended),
           UNCHANGED <<instance, asked>>, UNCHANGED faults \/ Fail
    PROVE  TableStep /\ Bookkeeping'
  BY TaskType, EndFollows, PlainStep

\* A task moves on in its code, not to the end of the run.
LEMMA MoveFollows ==
    ASSUME NEW r \in Runs, NEW t \in Task, Alive(t),
           NEW p \in (TryBlock \cup Handlers) \ {"commit", "errorCommit"}
    PROVE  /\ Follows(r, t, [t EXCEPT !.pc = p])
           /\ Follows(r, t, [Left(t) EXCEPT !.pc = p])
  <1>. DEFINE u == [t EXCEPT !.pc = p]
              v == [Left(t) EXCEPT !.pc = p]
  <1>1. /\ u \in Task /\ u.inst = t.inst /\ u.fence = t.fence /\ u.pc = p
        /\ u.emitted = t.emitted
    BY DEF Task
  <1>2. /\ v \in Task /\ v.inst = t.inst /\ v.fence = t.fence /\ v.pc = p
        /\ v.emitted = t.emitted
    BY DEF Task, Left
  <1>. HIDE DEF u, v
  <1>3. Alive(u) /\ Alive(v)
    BY <1>1, <1>2 DEF Alive
  <1>4. Follows(r, t, u)
    BY <1>1, <1>3, GoFollows
  <1>5. Follows(r, t, v)
    BY <1>2, <1>3, GoFollows
  <1>. QED
    BY <1>4, <1>5 DEF u, v

LEMMA LoadStep ==
    ASSUME StoreInv, TokenInv, NEW r \in Runs, NEW g \in Tokens1, LoadHandle(r, g)
    PROVE  TableStep /\ Bookkeeping'
  <1>. DEFINE t == task[r][g]
              u == [t EXCEPT !.pc = "slot",
                             !.fence = IF @ = 0 THEN fence[r] ELSE @,
                             !.emitted = emitted[r],
                             !.named = Named(r),
                             !.loop = "sleep",
                             !.due = clock + HeartbeatEvery]
  <1>1. RegistryTypeOK /\ StoreTypeOK
    BY DEF StoreInv, TokenInv
  <1>2. t \in Task
    BY <1>1, TaskType
  <1>3. /\ fence[r] \in Nat /\ emitted[r] \in BOOLEAN /\ Named(r) \in BOOLEAN
        /\ clock + HeartbeatEvery \in Nat
    BY <1>1, BoundsAssumption, HeartbeatAssumption DEF StoreTypeOK, Named
  <1>4. /\ u \in Task /\ u.pc = "slot" /\ u.inst = t.inst /\ u.emitted = emitted[r]
        /\ u.fence = IF t.fence = 0 THEN fence[r] ELSE t.fence
    BY <1>2, <1>3 DEF Task, TryBlock
  <1>5. /\ t.pc = "load"
        /\ \/ Set(r, g, u) /\ UNCHANGED faults
           \/ Set(r, g, Ended) /\ Fail
        /\ UNCHANGED <<instance, asked>>
    BY DEF LoadHandle
  <1>. HIDE DEF u
  <1>6. Follows(r, t, u)
    BY <1>4, <1>5 DEF Follows, Loaded
  <1>. QED
    BY <1>1, <1>5, <1>6, PlainStep, EndedStep

LEMMA SlotStep ==
    ASSUME RegistryTypeOK, NEW r \in Runs, NEW g \in Tokens1, AcquireSlot(r, g)
    PROVE  TableStep /\ Bookkeeping'
  <1>. DEFINE t == task[r][g]
  <1>1. t \in Task /\ Alive(t)
    BY TaskType DEF AcquireSlot, Alive, TryBlock
  <1>2. Follows(r, t, [t EXCEPT !.pc = "produce"])
    BY <1>1, MoveFollows DEF TryBlock
  <1>3. CASE Reply(r, g, [t EXCEPT !.pc = "produce"])
    BY <1>1, <1>2, <1>3, RepliedStep DEF AcquireSlot
  <1>4. ASSUME NEW why \in Causes, Set(r, g, Raise(t, why)), UNCHANGED faults
        PROVE  TableStep /\ Bookkeeping'
    BY <1>1, <1>4, RaisedStep DEF AcquireSlot
  <1>. QED
    BY <1>3, <1>4 DEF AcquireSlot, Causes

LEMMA ProduceStep ==
    ASSUME StoreInv, TokenInv, NEW r \in Runs, NEW g \in Tokens1, Produce(r, g)
    PROVE  TableStep /\ Bookkeeping'
  <1>. DEFINE t == task[r][g]
  <1>1. RegistryTypeOK /\ StoreTypeOK /\ KeyFlag
    BY DEF StoreInv, TokenInv
  <1>2. t \in Task /\ Alive(t) /\ UNCHANGED <<instance, asked>>
    BY <1>1, TaskType DEF Produce, NameRun, EmitData, FailStream, EmitDone, Interrupt,
       Alive, TryBlock
  <1>3. CASE NameRun(r, g)
    <2>. DEFINE u == [t EXCEPT !.named = TRUE]
    <2>1. /\ u \in Task /\ u.inst = t.inst /\ u.fence = t.fence /\ u.pc = t.pc
          /\ u.emitted = t.emitted
      BY <1>2 DEF Task
    <2>2. Reply(r, g, u)
      BY <1>3 DEF NameRun
    <2>. HIDE DEF u
    <2>3. Follows(r, t, u)
      BY <1>2, <2>1, GoFollows DEF Alive
    <2>. QED
      BY <1>1, <1>2, <2>2, <2>3, RepliedStep
  <1>4. CASE EmitData(r, g)
    <2>1. Follows(r, t, t)
      BY <1>2 DEF Follows
    <2>. QED
      BY <1>1, <1>2, <1>4, <2>1, RepliedStep DEF EmitData
  <1>5. CASE FailStream(r, g)
    <2>. DEFINE u == [t EXCEPT !.erred = TRUE]
    <2>1. /\ u \in Task /\ u.inst = t.inst /\ u.fence = t.fence /\ u.pc = t.pc
          /\ u.emitted = t.emitted
      BY <1>2 DEF Task
    <2>2. Reply(r, g, u)
      BY <1>5 DEF FailStream
    <2>. HIDE DEF u
    <2>3. Follows(r, t, u)
      BY <1>2, <2>1, GoFollows DEF Alive
    <2>. QED
      BY <1>1, <1>2, <2>2, <2>3, RepliedStep
  <1>6. CASE EmitDone(r, g)
    <2>. DEFINE u == [Left(t) EXCEPT !.pc = "tail", !.emitted = TRUE]
    <2>1. /\ u \in Task /\ u.inst = t.inst /\ u.fence = t.fence /\ u.pc = "tail"
      BY <1>2 DEF Task, Left, TryBlock
    <2>2. Reply(r, g, u)
      BY <1>6 DEF EmitDone
    <2>3. emitted'[r]
      BY <1>1, <1>2, <1>6, DoneAppended DEF EmitDone, Task
    <2>. HIDE DEF u
    <2>4. Follows(r, t, u)
      BY <1>2, <2>1, <2>3, GoFollows DEF Alive, TryBlock
    <2>. QED
      BY <1>1, <1>2, <2>2, <2>4, RepliedStep
  <1>7. CASE Interrupt(r, g)
    <2>1. Follows(r, t, [Left(t) EXCEPT !.pc = "tail"])
      BY <1>2, MoveFollows DEF TryBlock
    <2>. QED
      BY <1>1, <1>2, <1>7, <2>1, RepliedStep DEF Interrupt
  <1>. QED
    BY <1>3, <1>4, <1>5, <1>6, <1>7 DEF Produce

LEMMA LeaveProducer ==
    ASSUME RegistryTypeOK, NEW r \in Runs, NEW g \in Tokens1,
           Return(r, g) \/ Interrupted(r, g)
    PROVE  TableStep /\ Bookkeeping'
  <1>1. task[r][g] \in Task /\ Alive(task[r][g])
    BY TaskType DEF Return, Interrupted, Alive, TryBlock
  <1>2. CASE Return(r, g)
    <2>1. Follows(r, task[r][g], [Left(task[r][g]) EXCEPT !.pc = "finish"])
      BY <1>1, MoveFollows DEF TryBlock
    <2>. QED
      BY <1>2, <2>1, PlainStep DEF Return
  <1>3. CASE Interrupted(r, g)
    <2>1. "timeout" \in Causes /\ "error" \in Causes
      BY DEF Causes
    <2>. QED
      BY <1>1, <1>3, <2>1, RaisedStep DEF Interrupted
  <1>. QED
    BY <1>2, <1>3

\* Only with the flag set does a task turn to the end of the run.
LEMMA CommitFollows ==
    ASSUME StoreTypeOK, NEW r \in Runs, NEW t \in Task, Alive(t), NEW why \in Terminal,
           r \in StreamRuns => emitted'[r]
    PROVE  /\ Follows(r, t, [t EXCEPT !.pc = "commit", !.why = why])
           /\ emitted'[r] =>
                 Follows(r, t, [t EXCEPT !.pc = "commit", !.emitted = TRUE, !.why = why])
  <1>. DEFINE u == [t EXCEPT !.pc = "commit", !.why = why]
              v == [t EXCEPT !.pc = "commit", !.emitted = TRUE, !.why = why]
  <1>1. /\ u \in Task /\ u.inst = t.inst /\ u.fence = t.fence /\ u.pc = "commit"
        /\ u.emitted = t.emitted
    BY DEF Task, TryBlock
  <1>2. v \in Task /\ v.inst = t.inst /\ v.fence = t.fence /\ v.pc = "commit"
    BY DEF Task, TryBlock
  <1>. HIDE DEF u, v
  <1>3. Alive(u) /\ Alive(v)
    BY <1>1, <1>2 DEF Alive, TryBlock
  <1>4. Follows(r, t, u)
    BY <1>1, <1>3, GoFollows
  <1>5. emitted'[r] => Follows(r, t, v)
    BY <1>2, <1>3, GoFollows
  <1>. QED
    BY <1>4, <1>5 DEF u, v

LEMMA OutcomeType == \A r \in Runs : Outcome(r) \in Terminal
  BY DEF Outcome, Terminal

LEMMA FinishStep ==
    ASSUME StoreInv, TokenInv, NEW r \in Runs, NEW g \in Tokens1, Finish(r, g)
    PROVE  TableStep /\ Bookkeeping'
  <1>. DEFINE t == task[r][g]
  <1>1. RegistryTypeOK /\ StoreTypeOK
    BY DEF StoreInv, TokenInv
  <1>2. t \in Task /\ Alive(t)
    BY <1>1, TaskType DEF Finish, Alive, TryBlock
  <1>3. UNCHANGED <<instance, faults, asked>> /\ emitted' = emitted
    BY DEF Finish, storeVars, hashVars
  <1>4. Follows(r, t, [t EXCEPT !.pc = "seal"])
    BY <1>2, MoveFollows DEF TryBlock
  <1>5. CASE Set(r, g, Ended)
    BY <1>1, <1>3, <1>5, EndedStep
  <1>6. CASE Set(r, g, [t EXCEPT !.pc = "seal"])
    BY <1>1, <1>3, <1>4, <1>6, PlainStep
  <1>7. CASE /\ ~(r \in StreamRuns /\ ~emitted[r])
             /\ Set(r, g, [t EXCEPT !.pc = "commit", !.why = Outcome(r)])
    <2>1. Follows(r, t, [t EXCEPT !.pc = "commit", !.why = Outcome(r)])
      BY <1>1, <1>2, <1>3, <1>7, OutcomeType, CommitFollows
    <2>. QED
      BY <1>1, <1>3, <1>7, <2>1, PlainStep
  <1>. QED
    BY <1>5, <1>6, <1>7 DEF Finish

LEMMA SealStep ==
    ASSUME StoreInv, TokenInv, NEW r \in Runs, NEW g \in Tokens1, Seal(r, g)
    PROVE  TableStep /\ Bookkeeping'
  <1>. DEFINE t == task[r][g]
              u == [t EXCEPT !.pc = "commit", !.emitted = TRUE, !.why = Outcome(r)]
  <1>1. RegistryTypeOK /\ StoreTypeOK /\ KeyFlag
    BY DEF StoreInv, TokenInv
  <1>2. t \in Task /\ Alive(t) /\ UNCHANGED <<instance, asked>>
    BY <1>1, TaskType DEF Seal, Alive, TryBlock
  <1>3. CASE AppendEvent(r, t.inst, t.fence, "done", DoneKey(t.fence)) /\ Reply(r, g, u)
    <2>1. emitted'[r]
      BY <1>1, <1>2, <1>3, DoneAppended DEF Task
    <2>2. Follows(r, t, u)
      BY <1>1, <1>2, <2>1, OutcomeType, CommitFollows
    <2>. HIDE DEF u
    <2>. QED
      BY <1>1, <1>2, <1>3, <2>2, RepliedStep
  <1>4. CASE Set(r, g, Raise(t, "error")) /\ UNCHANGED faults
    BY <1>1, <1>2, <1>4, RaisedStep DEF Causes
  <1>. QED
    BY <1>3, <1>4 DEF Seal

LEMMA CommitStep ==
    ASSUME RegistryTypeOK, NEW r \in Runs, NEW g \in Tokens1, Commit(r, g)
    PROVE  TableStep /\ Bookkeeping'
  <1>. DEFINE t == task[r][g]
  <1>1. t \in Task /\ Alive(t) /\ UNCHANGED <<instance, asked>>
    BY TaskType DEF Commit, Alive, TryBlock
  <1>2. CASE Reply(r, g, Ended)
    BY <1>1, <1>2, EndFollows, RepliedStep
  <1>3. CASE Set(r, g, Ended) /\ UNCHANGED faults
    BY <1>1, <1>3, EndedStep
  <1>4. CASE Set(r, g, Raise(t, "error")) /\ UNCHANGED faults
    BY <1>1, <1>4, RaisedStep DEF Causes
  <1>. QED
    BY <1>2, <1>3, <1>4 DEF Commit

LEMMA HandleStep ==
    ASSUME RegistryTypeOK, NEW r \in Runs, NEW g \in Tokens1, Handle(r, g)
    PROVE  TableStep /\ Bookkeeping'
  <1>. DEFINE t == task[r][g]
              u == [t EXCEPT !.pc = "errorCommit"]
  <1>1. t \in Task /\ Alive(t) /\ UNCHANGED <<instance, asked, faults>>
    BY TaskType DEF Handle, Alive, Handlers
  <1>2. Set(r, g, Ended) \/ Set(r, g, [t EXCEPT !.pc = IF r \in StreamRuns THEN "error"
                                                      ELSE "errorCommit"])
    BY DEF Handle
  <1>3. Follows(r, t, [t EXCEPT !.pc = "error"])
    BY <1>1, MoveFollows DEF Handlers
  <1>4. r \in StreamRuns \/ Follows(r, t, u)
    <2>1. /\ u \in Task /\ u.inst = t.inst /\ u.fence = t.fence /\ u.pc = "errorCommit"
          /\ u.emitted = t.emitted
      BY <1>1 DEF Task, Handlers
    <2>. HIDE DEF u
    <2>2. Alive(u)
      BY <2>1 DEF Alive, Handlers
    <2>. QED
      BY <1>1, <2>1, <2>2, GoFollows
  <1>5. CASE Set(r, g, Ended)
    BY <1>1, <1>5, EndedStep
  <1>6. CASE r \in StreamRuns /\ Set(r, g, [t EXCEPT !.pc = "error"])
    BY <1>1, <1>3, <1>6, PlainStep
  <1>7. CASE r \notin StreamRuns /\ Set(r, g, u)
    BY <1>1, <1>4, <1>7, PlainStep
  <1>. QED
    BY <1>2, <1>5, <1>6, <1>7

LEMMA GiveUpStep ==
    ASSUME RegistryTypeOK, NEW r \in Runs, NEW g \in Tokens1,
           GiveUp(r, g) \/ Leave(r, g) \/ CommitError(r, g)
    PROVE  TableStep /\ Bookkeeping'
  <1>1. CASE GiveUp(r, g)
    <2>1. task[r][g] \in Task /\ Alive(task[r][g])
      BY <1>1, TaskType DEF GiveUp, Alive, Handlers
    <2>2. Follows(r, task[r][g], [task[r][g] EXCEPT !.pc = "released"])
      BY <2>1, MoveFollows DEF Handlers
    <2>. QED
      BY <1>1, <2>2, PlainStep DEF GiveUp
  <1>2. CASE Leave(r, g) \/ CommitError(r, g)
    BY <1>2, EndedStep DEF Leave, CommitError
  <1>. QED
    BY <1>1, <1>2

\* To the transition of an except clause: the stream of the owner is sealed.
LEMMA ErrorCommitFollows ==
    ASSUME NEW r \in Runs, NEW t \in Task, Alive(t),
           r \in StreamRuns /\ Owns(r, t.inst, t.fence) => emitted'[r]
    PROVE  /\ Follows(r, t, [t EXCEPT !.pc = "errorCommit"])
           /\ emitted'[r] => Follows(r, t, [t EXCEPT !.pc = "errorCommit", !.emitted = TRUE])
  <1>. DEFINE u == [t EXCEPT !.pc = "errorCommit"]
              v == [t EXCEPT !.pc = "errorCommit", !.emitted = TRUE]
  <1>1. /\ u \in Task /\ u.inst = t.inst /\ u.fence = t.fence /\ u.pc = "errorCommit"
        /\ u.emitted = t.emitted
    BY DEF Task, Handlers
  <1>2. v \in Task /\ v.inst = t.inst /\ v.fence = t.fence /\ v.pc = "errorCommit"
    BY DEF Task, Handlers
  <1>. HIDE DEF u, v
  <1>3. Alive(u) /\ Alive(v)
    BY <1>1, <1>2 DEF Alive, Handlers
  <1>4. Follows(r, t, u)
    BY <1>1, <1>3, GoFollows
  <1>5. emitted'[r] => Follows(r, t, v)
    BY <1>2, <1>3, GoFollows
  <1>. QED
    BY <1>4, <1>5 DEF u, v

\* An append keeps the flag.
LEMMA AppendKeeps ==
    ASSUME StoreTypeOK, NEW r \in Runs, NEW i, NEW f, NEW kind, NEW key,
           AppendEvent(r, i, f, kind, key), emitted[r]
    PROVE  emitted'[r]
  <1>1. CASE key \in keys[r]
    BY <1>1 DEF AppendEvent
  <1>2. CASE key \notin keys[r]
    <2>1. emitted' = [emitted EXCEPT ![r] = @ \/ kind = "done"]
      BY <1>2 DEF AppendEvent
    <2>. QED
      BY <2>1 DEF StoreTypeOK
  <1>. QED
    BY <1>1, <1>2

\* An owner that may not append any more has a run that is over, and sealed.
LEMMA Refused ==
    ASSUME TerminalEmitted, NEW r \in StreamRuns, NEW i, NEW f, NEW kind,
           Owns(r, i, f), ~CanAppend(r, i, f, kind),
           ~(status[r] = "waiting_for_input" /\ kind = "done")
    PROVE  emitted[r]
  BY DEF CanAppend, TerminalEmitted

LEMMA ErrorStep ==
    ASSUME StoreInv, TokenInv, LocalDone, TerminalEmitted,
           NEW r \in Runs, NEW g \in Tokens1, AppendError(r, g)
    PROVE  TableStep /\ Bookkeeping'
  <1>. DEFINE t == task[r][g]
  <1>1. RegistryTypeOK /\ StoreTypeOK
    BY DEF StoreInv, TokenInv
  <1>2. t \in Task /\ Alive(t) /\ UNCHANGED <<instance, asked>>
    BY <1>1, TaskType DEF AppendError, Alive, Handlers
  <1>3. CASE /\ AppendEvent(r, t.inst, t.fence, "error", ErrorKey(CodeOf(t.why)))
             /\ Reply(r, g, [t EXCEPT !.pc = IF t.emitted THEN "errorCommit" ELSE "errorDone"])
    <2>1. CASE t.emitted
      <3>1. r \in StreamRuns /\ Owns(r, t.inst, t.fence) => emitted[r]
        BY <1>2, <2>1 DEF LocalDone, Sure
      <3>2. r \in StreamRuns /\ Owns(r, t.inst, t.fence) => emitted'[r]
        BY <1>1, <1>3, <3>1, AppendKeeps
      <3>3. Follows(r, t, [t EXCEPT !.pc = "errorCommit"])
        BY <1>2, <3>2, ErrorCommitFollows
      <3>. QED
        BY <1>1, <1>2, <1>3, <2>1, <3>3, RepliedStep
    <2>2. CASE ~t.emitted
      <3>1. Follows(r, t, [t EXCEPT !.pc = "errorDone"])
        BY <1>2, MoveFollows DEF Handlers
      <3>. QED
        BY <1>1, <1>2, <1>3, <2>2, <3>1, RepliedStep
    <2>. QED
      BY <2>1, <2>2
  <1>4. CASE /\ ~CanAppend(r, t.inst, t.fence, "error")
             /\ Set(r, g, [t EXCEPT !.pc = "errorCommit"])
             /\ UNCHANGED <<storeVars, faults>>
    <2>1. r \in StreamRuns /\ Owns(r, t.inst, t.fence) => emitted[r]
      BY <1>4, Refused
    <2>2. emitted' = emitted
      BY <1>4 DEF storeVars, hashVars
    <2>3. Follows(r, t, [t EXCEPT !.pc = "errorCommit"])
      BY <1>2, <2>1, <2>2, ErrorCommitFollows
    <2>. QED
      BY <1>1, <1>2, <1>4, <2>3, PlainStep
  <1>. QED
    BY <1>3, <1>4 DEF AppendError

LEMMA ErrorDoneStep ==
    ASSUME StoreInv, TokenInv, LocalDone, TerminalEmitted,
           NEW r \in Runs, NEW g \in Tokens1, AppendErrorDone(r, g)
    PROVE  TableStep /\ Bookkeeping'
  <1>. DEFINE t == task[r][g]
              waits == Owns(r, t.inst, t.fence) /\ status[r] = "waiting_for_input"
  <1>1. RegistryTypeOK /\ StoreTypeOK /\ KeyFlag
    BY DEF StoreInv, TokenInv
  <1>2. t \in Task /\ Alive(t) /\ UNCHANGED <<instance, asked>>
    BY <1>1, TaskType DEF AppendErrorDone, Alive, Handlers
  <1>3. CASE /\ AppendEvent(r, t.inst, t.fence, "done", DoneKey(t.fence))
             /\ Reply(r, g, [t EXCEPT !.pc = "errorCommit", !.emitted = TRUE])
    <2>1. emitted'[r]
      BY <1>1, <1>2, <1>3, DoneAppended DEF Task
    <2>2. Follows(r, t, [t EXCEPT !.pc = "errorCommit", !.emitted = TRUE])
      BY <1>2, <2>1, ErrorCommitFollows
    <2>. QED
      BY <1>1, <1>2, <1>3, <2>2, RepliedStep
  <1>4. CASE waits /\ Set(r, g, Ended) /\ UNCHANGED faults
    BY <1>1, <1>2, <1>4, EndedStep
  <1>5. CASE /\ ~waits /\ ~CanAppend(r, t.inst, t.fence, "done")
             /\ Set(r, g, [t EXCEPT !.pc = "errorCommit"])
             /\ UNCHANGED <<storeVars, faults>>
    <2>1. r \in StreamRuns /\ Owns(r, t.inst, t.fence) => emitted[r]
      BY <1>5, Refused
    <2>2. emitted' = emitted
      BY <1>5 DEF storeVars, hashVars
    <2>3. Follows(r, t, [t EXCEPT !.pc = "errorCommit"])
      BY <1>2, <2>1, <2>2, ErrorCommitFollows
    <2>. QED
      BY <1>1, <1>2, <1>5, <2>3, PlainStep
  <1>. QED
    BY <1>3, <1>4, <1>5 DEF AppendErrorDone

\* The lease loop: its own fields, or it cancels the task.
LEMMA LoopFollows ==
    ASSUME NEW r \in Runs, NEW t \in Task, Alive(t),
           NEW l \in {"off", "sleep", "beat"}, NEW d \in Nat
    PROVE  /\ Follows(r, t, [t EXCEPT !.loop = l, !.due = d])
           /\ Follows(r, t, Raise([t EXCEPT !.loop = l, !.due = d], "cancel"))
  <1>. DEFINE u == [t EXCEPT !.loop = l, !.due = d]
              v == [Left(u) EXCEPT !.pc = "handler", !.why = "cancel"]
  <1>1. /\ u \in Task /\ u.inst = t.inst /\ u.fence = t.fence /\ u.pc = t.pc
        /\ u.emitted = t.emitted
    BY DEF Task
  <1>. HIDE DEF u
  <1>2. /\ v \in Task /\ v.inst = t.inst /\ v.fence = t.fence /\ v.pc = "handler"
        /\ v.emitted = t.emitted
    BY <1>1 DEF Task, Left, Handlers, Causes
  <1>3. Raise(u, "cancel") \in {v, Ended}
    BY DEF Raise
  <1>. HIDE DEF v
  <1>4. Alive(u) /\ Alive(v)
    BY <1>1, <1>2 DEF Alive, Handlers
  <1>5. Follows(r, t, u) /\ Follows(r, t, v) /\ Follows(r, t, Ended)
    BY <1>1, <1>2, <1>4, GoFollows, EndFollows
  <1>6. Follows(r, t, u) /\ Follows(r, t, Raise(u, "cancel"))
    BY <1>3, <1>5
  <1>. QED
    BY <1>6 DEF u

LEMMA LoopStep ==
    ASSUME StoreInv, TokenInv, NEW r \in Runs, NEW g \in Tokens1, Loop(r, g)
    PROVE  TableStep /\ Bookkeeping'
  <1>. DEFINE t == task[r][g]
              idle == [t EXCEPT !.loop = "off", !.due = 0]
  <1>1. RegistryTypeOK /\ StoreTypeOK
    BY DEF StoreInv, TokenInv
  <1>2. t \in Task /\ Alive(t) /\ UNCHANGED <<instance, asked>>
    BY <1>1, TaskType DEF Loop, LoopLoad, LoopBeat
  <1>3. Follows(r, t, idle) /\ Follows(r, t, StopOwner(t))
    BY <1>2, LoopFollows DEF StopOwner
  <1>4. CASE LoopLoad(r, g)
    <2>1. t.due \in Nat
      BY <1>2 DEF Task
    <2>2. Follows(r, t, [t EXCEPT !.loop = "beat", !.due = t.due])
      BY <1>2, <2>1, LoopFollows
    <2>3. /\ Set(r, g, [t EXCEPT !.loop = "beat", !.due = t.due]) \/ Set(r, g, idle)
          /\ UNCHANGED faults \/ Fail
      BY <1>4 DEF LoopLoad
    <2>. HIDE DEF idle
    <2>. QED
      BY <1>1, <1>2, <1>3, <2>2, <2>3, PlainStep
  <1>5. CASE LoopBeat(r, g)
    <2>1. clock + HeartbeatEvery \in Nat
      BY <1>1, BoundsAssumption, HeartbeatAssumption DEF StoreTypeOK
    <2>2. Follows(r, t, [t EXCEPT !.loop = "sleep", !.due = clock + HeartbeatEvery])
      BY <1>2, <2>1, LoopFollows
    <2>3. /\ \/ Set(r, g, [t EXCEPT !.loop = "sleep", !.due = clock + HeartbeatEvery])
             \/ Set(r, g, StopOwner(t))
          /\ UNCHANGED faults \/ Fail
      BY <1>5 DEF LoopBeat
    <2>. QED
      BY <1>1, <1>2, <1>3, <2>2, <2>3, PlainStep
  <1>. QED
    BY <1>4, <1>5 DEF Loop

LEMMA ThrowStep ==
    ASSUME RegistryTypeOK, NEW r \in Runs, NEW g \in Tokens1,
           RedisError(r, g) \/ Watch(r, g)
    PROVE  TableStep /\ Bookkeeping'
  <1>1. Alive(task[r][g]) /\ UNCHANGED <<instance, asked>> /\ (UNCHANGED faults \/ Fail)
    BY DEF RedisError, Watch, Alive
  <1>2. \E why \in Causes : Set(r, g, Raise(task[r][g], why))
    BY DEF RedisError, Watch, Causes
  <1>. QED
    BY <1>1, <1>2, RaisedStep

\* A request, or the end of a process: some tasks are cancelled or gone.
LEMMA CancelStep ==
    ASSUME RegistryTypeOK, NEW r \in Runs, NEW i \in Instances, CancelRun(r, i)
    PROVE  TableStep /\ Bookkeeping'
  <1>. DEFINE row == [g \in Tokens1 |-> IF Newest(r, i, g) THEN Raise(task[r][g], "cancel")
                                        ELSE task[r][g]]
  <1>1. \A g \in Tokens1 : Follows(r, task[r][g], row[g])
    <2>. SUFFICES ASSUME NEW g \in Tokens1 PROVE Follows(r, task[r][g], row[g])
      OBVIOUS
    <2>1. task[r][g] \in Task
      BY TaskType
    <2>2. CASE Newest(r, i, g)
      <3>1. Alive(task[r][g])
        BY <2>2 DEF Newest
      <3>. QED
        BY <2>1, <2>2, <3>1, RaiseFollows DEF Causes
    <2>3. CASE ~Newest(r, i, g)
      BY <2>1, <2>3 DEF Follows
    <2>. QED
      BY <2>2, <2>3
  <1>2. task' = [task EXCEPT ![r] = row]
    BY DEF CancelRun
  <1>3. \A g \in Tokens1 : row[g] \in Task
    BY <1>1 DEF Follows
  <1>4. row \in [Tokens1 -> Task]
    BY <1>3
  <1>. HIDE DEF row
  <1>5. task' \in TaskTable
    BY <1>2, <1>4 DEF RegistryTypeOK, TaskTable
  <1>6. \A q \in Runs : task'[q] = IF q = r THEN row ELSE task[q]
    BY <1>2 DEF RegistryTypeOK
  <1>7. \A q \in Runs, g \in Tokens1 : Follows(q, task[q][g], task[q][g])
    BY TaskType DEF Follows
  <1>8. TableStep
    BY <1>1, <1>5, <1>6, <1>7 DEF TableStep
  <1>. QED
    BY <1>8 DEF CancelRun, RegistryTypeOK, Bookkeeping

LEMMA ProcessStep ==
    ASSUME RegistryTypeOK, NEW i \in Instances, Shutdown(i) \/ Crash(i)
    PROVE  TableStep /\ Bookkeeping'
  <1>1. \A r \in Runs, g \in Tokens1 :
           task'[r][g] \in {task[r][g], Ended}
              \/ (Alive(task[r][g]) /\ task'[r][g] = Raise(task[r][g], "cancel"))
    BY DEF Shutdown, Crash, Newest
  <1>2. \A r \in Runs, g \in Tokens1 : Follows(r, task[r][g], task'[r][g])
    <2>. SUFFICES ASSUME NEW r \in Runs, NEW g \in Tokens1
                  PROVE  Follows(r, task[r][g], task'[r][g])
      OBVIOUS
    <2>1. task[r][g] \in Task /\ "cancel" \in Causes
      BY TaskType DEF Causes
    <2>2. Follows(r, task[r][g], task[r][g]) /\ Follows(r, task[r][g], Ended)
      BY <2>1, EndFollows DEF Follows
    <2>. QED
      BY <1>1, <2>1, <2>2, RaiseFollows
  <1>3. \A r \in Runs, g \in Tokens1 : task'[r][g] \in Task
    BY <1>2 DEF Follows
  <1>4. /\ task' = [r \in Runs |-> task'[r]]
        /\ \A r \in Runs : task'[r] = [g \in Tokens1 |-> task'[r][g]]
    BY DEF Shutdown, Crash
  <1>5. task' \in TaskTable
    BY <1>3, <1>4 DEF TaskTable
  <1>6. Bookkeeping'
    BY DEF Shutdown, Crash, RegistryTypeOK, Bookkeeping
  <1>. QED
    BY <1>2, <1>5, <1>6 DEF TableStep

\* Every step of the specification does to every task what Follows allows.
LEMMA TableNext ==
    ASSUME RegInv, [Next]_vars
    PROVE  TableStep /\ Bookkeeping'
  <1>1. StoreInv /\ TokenInv /\ LocalDone /\ TerminalEmitted /\ RegistryTypeOK
    BY DEF RegInv, TokenInv
  <1>2. CASE Tick \/ UNCHANGED vars
    BY <1>1, <1>2, TableSame DEF Tick, vars, RegistryTypeOK, Bookkeeping
  <1>3. ASSUME NEW r \in Runs, NEW g \in Tokens1, Execute(r, g)
        PROVE  TableStep /\ Bookkeeping'
    BY <1>1, <1>3, LoadStep, SlotStep, LeaveProducer, FinishStep, SealStep, CommitStep,
       HandleStep, GiveUpStep, ErrorStep, ErrorDoneStep DEF Execute
  <1>. QED
    BY <1>1, <1>2, <1>3, GrantStep, CancelStep, ProcessStep, ProduceStep, LoopStep, ThrowStep
       DEF Next

-----------------------------------------------------------------------------
\* What a task does to Redis, it does as the owner its handle names.
LEMMA OwnerStep ==
    ASSUME StoreTypeOK, TokenInv, NEW r \in Runs, NEW g \in Tokens1, Alive(task[r][g]),
           OwnerScript(r, task[r][g].inst, task[r][g].fence)
    PROVE  StoreNext
  BY Credentials DEF StoreNext

LEMMA ScriptStep ==
    ASSUME StoreInv, TokenInv, [Next]_vars
    PROVE  [StoreNext]_storeVars
  <1>0. StoreTypeOK
    BY DEF StoreInv
  <1>1. CASE UNCHANGED vars
    BY <1>1 DEF vars
  <1>2. CASE Tick
    BY <1>2 DEF Tick, StoreNext
  <1>3. ASSUME NEW r \in Runs, NEW i \in Instances,
               Start(r, i) \/ ResumeRun(r, i) \/ CancelRun(r, i)
        PROVE  StoreNext
    BY <1>3 DEF Start, ResumeRun, CancelRun, StoreNext, ClientScript
  <1>4. ASSUME NEW i \in Instances, Shutdown(i) \/ Crash(i)
        PROVE  UNCHANGED storeVars
    BY <1>4 DEF Shutdown, Crash
  <1>5. ASSUME NEW r \in Runs, NEW g \in Tokens1, Execute(r, g)
        PROVE  [StoreNext]_storeVars
    <2>. DEFINE i == task[r][g].inst
                f == task[r][g].fence
    <2>1. CASE \/ LoadHandle(r, g) \/ Return(r, g) \/ Interrupted(r, g) \/ Finish(r, g)
               \/ Handle(r, g) \/ Leave(r, g)
      BY <2>1 DEF LoadHandle, Return, Interrupted, Finish, Handle, Leave
    <2>2. CASE AcquireSlot(r, g)
      <3>1. Alive(task[r][g])
        BY <2>2 DEF AcquireSlot, Alive, TryBlock
      <3>. QED
        BY <1>0, <2>2, <3>1, OwnerStep DEF AcquireSlot, OwnerScript
    <2>3. CASE Seal(r, g)
      <3>1. Alive(task[r][g])
        BY <2>3 DEF Seal, Alive, TryBlock
      <3>. QED
        BY <1>0, <2>3, <3>1, OwnerStep DEF Seal, OwnerScript, OwnerAppend
    <2>4. CASE Commit(r, g) \/ CommitError(r, g)
      <3>1. Alive(task[r][g])
        BY <2>4 DEF Commit, CommitError, Alive, TryBlock, Handlers
      <3>2. ASSUME NEW target, Transition(r, i, f, target)
            PROVE  OwnerScript(r, i, f)
        BY <3>2 DEF Transition, OwnerScript
      <3>. QED
        BY <1>0, <2>4, <3>1, <3>2, OwnerStep DEF Commit, CommitError
    <2>5. CASE GiveUp(r, g)
      <3>1. Alive(task[r][g])
        BY <2>5 DEF GiveUp, Alive, Handlers
      <3>. QED
        BY <1>0, <2>5, <3>1, OwnerStep DEF GiveUp, OwnerScript
    <2>6. CASE AppendError(r, g)
      <3>1. Alive(task[r][g]) /\ CodeOf(task[r][g].why) \in Codes
        BY <2>6 DEF AppendError, Alive, Handlers, CodeOf, Codes
      <3>. QED
        BY <1>0, <2>6, <3>1, OwnerStep DEF AppendError, OwnerScript, OwnerAppend
    <2>7. CASE AppendErrorDone(r, g)
      <3>1. Alive(task[r][g])
        BY <2>7 DEF AppendErrorDone, Alive, Handlers
      <3>. QED
        BY <1>0, <2>7, <3>1, OwnerStep DEF AppendErrorDone, OwnerScript, OwnerAppend
    <2>. QED
      BY <1>5, <2>1, <2>2, <2>3, <2>4, <2>5, <2>6, <2>7 DEF Execute
  <1>6. ASSUME NEW r \in Runs, NEW g \in Tokens1, Produce(r, g)
        PROVE  StoreNext
    <2>1. Alive(task[r][g])
      BY <1>6 DEF Produce, NameRun, EmitData, FailStream, EmitDone, Interrupt, Alive, TryBlock
    <2>2. OwnerScript(r, task[r][g].inst, task[r][g].fence)
      BY <1>6 DEF Produce, NameRun, EmitData, FailStream, EmitDone, Interrupt, OwnerScript,
         OwnerAppend
    <2>. QED
      BY <1>0, <2>1, <2>2, OwnerStep
  <1>7. ASSUME NEW r \in Runs, NEW g \in Tokens1, Loop(r, g)
        PROVE  [StoreNext]_storeVars
    <2>1. Alive(task[r][g])
      BY <1>7 DEF Loop, LoopLoad, LoopBeat
    <2>. QED
      BY <1>0, <1>7, <2>1, OwnerStep DEF Loop, LoopLoad, LoopBeat, OwnerScript
  <1>8. ASSUME NEW r \in Runs, NEW g \in Tokens1, RedisError(r, g) \/ Watch(r, g)
        PROVE  UNCHANGED storeVars
    BY <1>8 DEF RedisError, Watch
  <1>. QED
    BY <1>1, <1>2, <1>3, <1>4, <1>5, <1>6, <1>7, <1>8 DEF Next

-----------------------------------------------------------------------------
\* A task keeps the token it was granted; a new one gets the current token.
LEMMA TokensStep ==
    ASSUME StoreInv, TokenInv, TableStep, [StoreNext]_storeVars
    PROVE  TaskTokens'
  <1>. SUFFICES ASSUME NEW r \in Runs, NEW g \in Tokens1
                PROVE  Credited(r, task[r][g])'
    BY DEF TaskTokens
  <1>. DEFINE t == task[r][g]
              u == task'[r][g]
  <1>1. StoreTypeOK /\ Fresh /\ RegistryTypeOK
    BY DEF StoreInv, TokenInv
  <1>2. t \in Task /\ u \in Task /\ Follows(r, t, u)
    BY <1>1, TaskType DEF TableStep, Follows
  <1>3. /\ fence[r] \in Nat /\ fence'[r] \in Nat /\ fence'[r] >= fence[r]
        /\ t.fence \in Nat /\ u.fence \in Nat
    <2>1. fence[r] \in Nat /\ fence'[r] \in Nat
      BY <1>1, TypeStep DEF StoreTypeOK
    <2>2. fence'[r] > fence[r] \/ fence'[r] = fence[r]
      <3>1. Holds(r)
        BY <1>1, HoldsStep
      <3>. QED
        BY <3>1, Zenon DEF Holds
    <2>3. t.fence \in Nat /\ u.fence \in Nat
      BY <1>2 DEF Task
    <2>. QED
      BY <2>1, <2>2, <2>3
  <1>4. Started(t) => /\ t.inst \in Instances /\ fence[r] >= 1 /\ t.fence <= fence[r]
                      /\ t.pc # "load" => t.fence >= 1
    BY DEF TokenInv, TaskTokens, Credited
  <1>. HIDE DEF t, u
  <1>5. Started(u) => /\ u.inst \in Instances /\ fence'[r] >= 1 /\ u.fence <= fence'[r]
                      /\ u.pc # "load" => u.fence >= 1
    <2>1. CASE u = t
      BY <1>3, <1>4, <2>1
    <2>2. CASE u = Ended
      BY <2>2 DEF Ended, NoTask, Started
    <2>3. CASE Granted(r, u)
      BY <1>3, <2>3 DEF Granted
    <2>4. CASE Loaded(r, t, u)
      BY <1>3, <1>4, <2>4 DEF Loaded, Started
    <2>5. CASE GoesOn(r, t, u)
      <3>1. Started(t) /\ t.pc # "load"
        BY <2>5 DEF GoesOn, Alive, Started, TryBlock, Handlers
      <3>. QED
        BY <1>3, <1>4, <2>5, <3>1 DEF GoesOn
    <2>. QED
      BY <1>2, <2>1, <2>2, <2>3, <2>4, <2>5 DEF Follows
  <1>. QED
    BY <1>5 DEF Credited, Started, u

\* What a task knows of its DONE stays true as long as it owns the run.
LEMMA LocalDoneStep ==
    ASSUME RegInv, TableStep, [StoreNext]_storeVars
    PROVE  LocalDone'
  <1>. SUFFICES ASSUME NEW r \in StreamRuns, NEW g \in Tokens1
                PROVE  Sure(r, task[r][g])'
    BY DEF LocalDone
  <1>. DEFINE t == task[r][g]
              u == task'[r][g]
  <1>0. StoreTypeOK /\ Fresh /\ RegistryTypeOK /\ r \in Runs
    BY RunsAssumption DEF RegInv, StoreInv, TokenInv
  <1>1. t \in Task /\ u \in Task /\ Follows(r, t, u)
    BY <1>0, TaskType DEF TableStep, Follows
  <1>2. Holds(r) /\ fence[r] \in Nat /\ fence'[r] \in Nat /\ t.fence \in Nat /\ u.fence \in Nat
    BY <1>0, <1>1, HoldsStep, TypeStep DEF StoreTypeOK, Task
  <1>3. Started(t) => fence[r] >= 1 /\ t.fence <= fence[r]
    BY <1>0 DEF RegInv, TokenInv, TaskTokens, Credited
  <1>4. Alive(t) /\ Owns(r, t.inst, t.fence) =>
           /\ t.emitted => emitted[r]
           /\ t.pc \in {"commit", "errorCommit"} => emitted[r]
    BY DEF RegInv, LocalDone, Sure
  <1>5. Alive(t) => Started(t)
    BY DEF Alive, Started, TryBlock, Handlers
  <1>6. fence[r] >= 1 => status[r] # "absent"
    BY <1>0 DEF Fresh
  <1>. HIDE DEF t, u
  <1>7. ASSUME Alive(u), owner'[r] = u.inst, fence'[r] = u.fence
        PROVE  /\ u.emitted => emitted'[r]
               /\ u.pc \in {"commit", "errorCommit"} => emitted'[r]
    <2>1. Started(t) /\ fence[r] >= 1 /\ u.fence <= fence[r]
      <3>1. CASE u = t
        BY <1>3, <1>5, <1>7, <3>1
      <3>2. CASE u = Ended \/ Granted(r, u)
        BY <1>7, <3>2 DEF Ended, NoTask, Granted, Alive, TryBlock, Handlers
      <3>3. CASE Loaded(r, t, u)
        BY <1>2, <1>3, <3>3 DEF Loaded, Started
      <3>4. CASE GoesOn(r, t, u)
        BY <1>3, <1>5, <3>4 DEF GoesOn
      <3>. QED
        BY <1>1, <3>1, <3>2, <3>3, <3>4 DEF Follows
    <2>2. ~(fence'[r] > fence[r])
      BY <1>2, <1>7, <2>1
    <2>3. fence'[r] = fence[r] /\ owner'[r] = owner[r] /\ (emitted[r] => emitted'[r])
      BY <1>2, <2>2, Zenon DEF Holds
    <2>4. Owns(r, u.inst, u.fence)
      BY <1>6, <1>7, <2>1, <2>3 DEF Owns
    <2>5. CASE u = t
      BY <1>4, <1>7, <2>3, <2>4, <2>5, Zenon
    <2>6. CASE u = Ended \/ Granted(r, u)
      BY <1>7, <2>6 DEF Ended, NoTask, Granted, Alive, TryBlock, Handlers
    <2>7. CASE Loaded(r, t, u)
      BY <2>3, <2>7 DEF Loaded
    <2>8. CASE GoesOn(r, t, u)
      <3>1. Alive(t) /\ Owns(r, t.inst, t.fence)
        BY <2>4, <2>8 DEF GoesOn
      <3>2. /\ u.emitted => t.emitted \/ emitted'[r]
            /\ u.pc \in {"commit", "errorCommit"} => u.pc = t.pc \/ emitted'[r]
        BY <2>8, <3>1, Zenon DEF GoesOn
      <3>3. u.pc \in {"commit", "errorCommit"} /\ u.pc = t.pc => emitted[r]
        BY <1>4, <3>1
      <3>. QED
        BY <1>4, <2>3, <3>1, <3>2, <3>3, Zenon
    <2>. QED
      BY <1>1, <2>5, <2>6, <2>7, <2>8 DEF Follows
  <1>. QED
    BY <1>7 DEF Sure, Owns, Alive, u

-----------------------------------------------------------------------------
\* Of the scripts only the transition of a task and the cancellation end a run.
Stays(q) == status'[q] \in Terminal => status[q] \in Terminal

LEMMA StaysStep ==
    ASSUME StoreTypeOK, NEW q \in Runs, NEW r \in Runs, NEW i, NEW f
    PROVE  /\ UNCHANGED status => Stays(q)
           /\ Create(r, i) \/ Reassign(r, i) => Stays(q)
           /\ AcquireRunning(r, i, f) => Stays(q)
           /\ \A n : PauseForInput(r, i, f, n) => Stays(q)
  <1>1. /\ Create(r, i) \/ Reassign(r, i) => status' = [status EXCEPT ![r] = "queued"]
        /\ AcquireRunning(r, i, f) => status' = [status EXCEPT ![r] = "running"]
        /\ \A n : PauseForInput(r, i, f, n) =>
              status' = [status EXCEPT ![r] = "waiting_for_input"]
    BY DEF Create, Reassign, AcquireRunning, PauseForInput, LeaveExecution
  <1>2. \A s \in {"queued", "running", "waiting_for_input"} :
           status' = [status EXCEPT ![r] = s] => Stays(q)
    BY DEF Stays, StoreTypeOK, Terminal
  <1>3. UNCHANGED status => Stays(q)
    BY DEF Stays
  <1>. QED
    BY <1>1, <1>2, <1>3

\* A task ends only its own run, and only as the owner whose DONE is there.
LEMMA CommitsSealed ==
    ASSUME RegInv, NEW r \in Runs, NEW g \in Tokens1, NEW target, NEW q \in StreamRuns,
           task[r][g].pc \in {"commit", "errorCommit"},
           Transition(r, task[r][g].inst, task[r][g].fence, target)
    PROVE  Stays(q) \/ emitted'[q]
  <1>1. StoreTypeOK /\ q \in Runs
    BY RunsAssumption DEF RegInv, StoreInv
  <1>2. CASE q = r
    <2>1. Alive(task[r][g]) /\ Owns(r, task[r][g].inst, task[r][g].fence)
      BY DEF Alive, TryBlock, Handlers, Transition
    <2>2. emitted[r]
      BY <1>2, <2>1 DEF RegInv, LocalDone, Sure
    <2>3. emitted' = emitted
      BY DEF Transition
    <2>. QED
      BY <1>2, <2>2, <2>3
  <1>3. CASE q # r
    BY <1>1, <1>3 DEF Transition, LeaveExecution, StoreTypeOK, Stays
  <1>. QED
    BY <1>2, <1>3

LEMMA EndsSealed ==
    ASSUME RegInv, [Next]_vars, NEW q \in StreamRuns
    PROVE  Stays(q) \/ emitted'[q]
  <1>0. StoreTypeOK /\ q \in Runs
    BY RunsAssumption DEF RegInv, StoreInv
  <1>1. CASE UNCHANGED status
    BY <1>0, <1>1, StaysStep
  <1>2. ASSUME NEW r \in Runs, NEW i \in Instances, Start(r, i) \/ ResumeRun(r, i)
        PROVE  Stays(q)
    BY <1>0, <1>2, StaysStep DEF Start, ResumeRun, TakeOver, Resume
  <1>3. ASSUME NEW r \in Runs, NEW i \in Instances, CancelRun(r, i)
        PROVE  Stays(q) \/ emitted'[q]
    <2>1. CASE q = r
      <3>1. emitted' = [emitted EXCEPT ![r] = @ \/ r \in StreamRuns]
        BY <1>3 DEF CancelRun, Cancel
      <3>. QED
        BY <1>0, <2>1, <3>1 DEF StoreTypeOK
    <2>2. CASE q # r
      BY <1>0, <1>3, <2>2 DEF CancelRun, Cancel, LeaveExecution, StoreTypeOK, Stays
    <2>. QED
      BY <2>1, <2>2
  <1>4. ASSUME NEW r \in Runs, NEW g \in Tokens1, Execute(r, g)
        PROVE  Stays(q) \/ emitted'[q]
    <2>1. CASE \/ LoadHandle(r, g) \/ Return(r, g) \/ Interrupted(r, g) \/ Finish(r, g)
               \/ Handle(r, g) \/ Leave(r, g)
      BY <1>1, <2>1 DEF LoadHandle, Return, Interrupted, Finish, Handle, Leave,
         storeVars, hashVars
    <2>2. CASE AcquireSlot(r, g)
      BY <1>0, <1>1, <2>2, StaysStep DEF AcquireSlot, storeVars, hashVars
    <2>3. CASE Seal(r, g) \/ GiveUp(r, g) \/ AppendError(r, g) \/ AppendErrorDone(r, g)
      BY <1>1, <2>3 DEF Seal, GiveUp, AppendError, AppendErrorDone, AppendEvent,
         ReleaseLease, storeVars, hashVars
    <2>4. CASE Commit(r, g) \/ CommitError(r, g)
      BY <1>1, <2>4, CommitsSealed DEF Commit, CommitError, storeVars, hashVars
    <2>. QED
      BY <1>4, <2>1, <2>2, <2>3, <2>4 DEF Execute
  <1>5. ASSUME NEW r \in Runs, NEW g \in Tokens1, Produce(r, g)
        PROVE  Stays(q)
    <2>1. CASE Interrupt(r, g)
      BY <1>0, <2>1, StaysStep DEF Interrupt
    <2>2. CASE NameRun(r, g) \/ EmitData(r, g) \/ FailStream(r, g) \/ EmitDone(r, g)
      <3>1. UNCHANGED status
        BY <2>2 DEF NameRun, EmitData, FailStream, EmitDone, SetRunId, AppendEvent,
           MarkStreamFailed
      <3>. QED
        BY <1>0, <3>1, StaysStep
    <2>. QED
      BY <1>5, <2>1, <2>2 DEF Produce
  <1>6. ASSUME NEW r \in Runs, NEW g \in Tokens1,
               Loop(r, g) \/ RedisError(r, g) \/ Watch(r, g)
        PROVE  UNCHANGED status
    BY <1>6 DEF Loop, LoopLoad, LoopBeat, Heartbeat, RedisError, Watch, storeVars, hashVars
  <1>7. ASSUME NEW i \in Instances, Shutdown(i) \/ Crash(i)
        PROVE  UNCHANGED status
    BY <1>7 DEF Shutdown, Crash, storeVars, hashVars
  <1>8. CASE Tick \/ UNCHANGED vars
    BY <1>1, <1>8 DEF Tick, Advance, vars, storeVars, hashVars
  <1>. QED
    BY <1>1, <1>2, <1>3, <1>4, <1>5, <1>6, <1>7, <1>8 DEF Next

\* A run that has ended keeps its flag.
LEMMA TerminalEmittedStep ==
    ASSUME RegInv, [Next]_vars, [StoreNext]_storeVars
    PROVE  TerminalEmitted'
  <1>. SUFFICES ASSUME NEW q \in StreamRuns, status'[q] \in Terminal
                PROVE  emitted'[q]
    BY DEF TerminalEmitted
  <1>1. StoreTypeOK /\ Fresh /\ LeaseIndex /\ q \in Runs
    BY RunsAssumption DEF RegInv, StoreInv
  <1>2. CASE Stays(q)
    <2>1. status[q] \in Terminal /\ emitted[q]
      BY <1>2 DEF Stays, RegInv, TerminalEmitted
    <2>2. fence'[q] = fence[q] /\ fence[q] \in Nat
      BY <1>1, <2>1, SealedSteps DEF SealedStep, StoreTypeOK
    <2>3. ~(fence'[q] > fence[q])
      BY <2>2
    <2>4. Holds(q)
      BY <1>1, HoldsStep
    <2>. QED
      BY <2>1, <2>3, <2>4, Zenon DEF Holds
  <1>. QED
    BY <1>2, EndsSealed

-----------------------------------------------------------------------------
LEMMA RegInvInit == Init => RegInv
  <1>. SUFFICES ASSUME Init PROVE RegInv
    OBVIOUS
  <1>1. StoreInv
    BY InvInit DEF Init
  <1>2. RegistryTypeOK
    BY EndedType, RegistryBounds DEF Init, RegistryTypeOK
  <1>3. KeyFlag /\ FenceBound /\ TerminalEmitted
    BY BoundsAssumption, RunsAssumption DEF Init, StoreInit, KeyFlag, FenceBound,
       TerminalEmitted, Terminal
  <1>4. \A r \in Runs, g \in Tokens1 : task[r][g].pc = "none"
    BY DEF Init, NoTask
  <1>5. TaskTokens
    BY <1>4 DEF TaskTokens, Credited, Started
  <1>6. LocalDone
    BY <1>4, RunsAssumption DEF LocalDone, Sure, Alive, TryBlock, Handlers
  <1>. QED
    BY <1>1, <1>2, <1>3, <1>5, <1>6 DEF RegInv, TokenInv

LEMMA RegInvStep == RegInv /\ [Next]_vars => RegInv'
  <1>. SUFFICES ASSUME RegInv, [Next]_vars PROVE RegInv'
    OBVIOUS
  <1>1. StoreInv /\ TokenInv /\ StoreTypeOK /\ Fresh /\ KeyFlag /\ FenceBound
    BY DEF RegInv, StoreInv, TokenInv
  <1>2. [StoreNext]_storeVars
    BY <1>1, ScriptStep
  <1>3. StoreInv'
    BY <1>1, <1>2, TypeStep, LeaseIndexStep, StreamOrderStep, DoneFlagStep, FreshStep,
       BindingStep DEF StoreInv
  <1>4. TableStep /\ Bookkeeping'
    BY TableNext
  <1>5. RegistryTypeOK'
    BY <1>4 DEF TableStep, TaskTable, Bookkeeping, RegistryTypeOK
  <1>6. KeyFlag' /\ FenceBound' /\ TaskTokens'
    BY <1>1, <1>2, <1>4, KeyFlagStep, FenceBoundStep, TokensStep
  <1>7. LocalDone' /\ TerminalEmitted'
    BY <1>2, <1>4, LocalDoneStep, TerminalEmittedStep
  <1>. QED
    BY <1>3, <1>5, <1>6, <1>7 DEF RegInv, TokenInv

\* The invariant holds along every behaviour of the tasks.
THEOREM RegistryInvariant == Spec => []RegInv
  BY RegInvInit, RegInvStep, PTL DEF Spec

\* The task table keeps its type, whatever fails.
THEOREM RegistryTypes == Spec => []RegistryTypeOK
  BY RegistryInvariant, PTL DEF RegInv, TokenInv

\* A streamed run never ends without a DONE of its last executor: of all the
\* ways through _execute and its except clauses, over lost replies, crashes,
\* take-overs and stalled leases, none ends the run with the DONE missing.
THEOREM EndsWithDone == Spec => []TerminalHasDone
  <1>1. RegInv => TerminalHasDone
    BY DEF RegInv, StoreInv, TerminalEmitted, DoneFlag, TerminalHasDone
  <1>. QED
    BY <1>1, RegistryInvariant, PTL

\* The tasks change Redis only by the scripts, with tokens they were granted, so
\* every theorem about the scripts is one about the running system.
THEOREM Implements == Spec => ImplementsStore
  <1>1. Init => StoreInit
    BY DEF Init
  <1>2. RegInv /\ [Next]_vars => [StoreNext]_storeVars
    BY ScriptStep DEF RegInv
  <1>. QED
    BY <1>1, <1>2, RegistryInvariant, PTL DEF Spec, ImplementsStore, StoreSpec

\* Among them: the tasks implement the life cycle of RunLifecycle.
THEOREM ImplementsLifecycle == Spec => LifecycleSpec
  BY Implements, Refinement DEF ImplementsStore
-----------------------------------------------------------------------------
(***************************************************************************)
(* Who executes a run, and who may end it as cancelled.  The theorem about *)
(* cancellations holds of every behaviour; that a run has one producer     *)
(* holds where the code can promise it: event loops that keep up with the  *)
(* clock, a lease loop whose load does not raise (the other case is a      *)
(* finding), and a heartbeat interval shorter than the lease.              *)
(***************************************************************************)


(***************************************************************************)
(* CancelledByRequest.  A task that was cancelled ends its run only if it  *)
(* still owns it; while Redis answers, a cancelled task has lost the run,  *)
(* finds it ended or waiting, or belongs to a process that shuts down and  *)
(* then only gives the lease up.                                           *)
(***************************************************************************)
Excused(r, t) ==
    \/ ~Owns(r, t.inst, t.fence)
    \/ status[r] \in Terminal \cup {"waiting_for_input"}
    \/ instance[t.inst] = "closing"

Calm(r, t) ==
    Started(t) => /\ t.why = "cancel" => t.pc \in {"handler", "released"} /\ Excused(r, t)
                  /\ t.pc = "commit" => t.why \in {"failed", "completed"}

CalmTasks == faults = 0 => \A r \in Runs, g \in Tokens1 : Calm(r, task[r][g])

CancelInv == CalmTasks /\ CancelledByRequest

-----------------------------------------------------------------------------
\* What the scripts do to a status while the token stays: a slot is taken, the
\* run pauses, or it ends.
StatusChange(q) ==
    \/ status'[q] = status[q]
    \/ fence'[q] > fence[q]
    \/ status[q] = "queued" /\ status'[q] = "running"
    \/ status[q] = "running" /\ status'[q] = "waiting_for_input"
    \/ status[q] \notin Terminal /\ status'[q] \in Terminal

LEMMA StatusStep ==
    ASSUME StoreTypeOK, Fresh, [StoreNext]_storeVars, NEW q \in Runs
    PROVE  StatusChange(q)
  <1>0. fence[q] \in Nat
    BY DEF StoreTypeOK
  <1>1. CASE UNCHANGED status
    BY <1>1 DEF StatusChange
  <1>2. ASSUME NEW r \in Runs, NEW i \in Instances, Create(r, i)
        PROVE  status'[q] = status[q] \/ fence'[q] > fence[q]
    BY <1>0, <1>2 DEF Create, StoreTypeOK, Fresh
  <1>3. ASSUME NEW r \in Runs, NEW i \in Instances, Reassign(r, i)
        PROVE  status'[q] = status[q] \/ fence'[q] > fence[q]
    BY <1>0, <1>3 DEF Reassign, StoreTypeOK
  <1>4. ASSUME NEW r \in Runs, Cancel(r)
        PROVE  status'[q] = status[q] \/ fence'[q] > fence[q]
    BY <1>0, <1>4 DEF Cancel, LeaveExecution, StoreTypeOK
  <1>5. ASSUME NEW r \in Runs, NEW i \in Instances, ClientScript(r, i)
        PROVE  StatusChange(q)
    BY <1>2, <1>3, <1>4, <1>5 DEF ClientScript, TakeOver, Resume, StatusChange
  <1>6. ASSUME NEW r \in Runs, NEW i \in Instances, NEW f \in 1..MaxFence,
               OwnerScript(r, i, f)
        PROVE  StatusChange(q)
    <2>1. CASE AcquireRunning(r, i, f)
      BY <2>1 DEF AcquireRunning, StoreTypeOK, StatusChange
    <2>2. ASSUME NEW target \in Terminal, Transition(r, i, f, target)
          PROVE  StatusChange(q)
      BY <2>2 DEF Transition, LeaveExecution, StoreTypeOK, StatusChange
    <2>3. ASSUME NEW n \in Interactions, PauseForInput(r, i, f, n)
          PROVE  StatusChange(q)
      BY <2>3 DEF PauseForInput, LeaveExecution, StoreTypeOK, StatusChange
    <2>. QED
      BY <1>1, <1>6, <2>1, <2>2, <2>3 DEF OwnerScript, OwnerAppend, AppendEvent, Heartbeat,
         ReleaseLease, SetRunId, MarkStreamFailed
  <1>. QED
    BY <1>1, <1>5, <1>6 DEF StoreNext, Advance, storeVars, hashVars

\* The same of the next state.
Owned(r, i, f) == status'[r] # "absent" /\ owner'[r] = i /\ fence'[r] = f

ExcusedNext(r, u) ==
    \/ ~Owned(r, u.inst, u.fence)
    \/ status'[r] \in Terminal \cup {"waiting_for_input"}
    \/ instance'[u.inst] = "closing"

CalmNext(r, u) ==
    Started(u) => /\ u.why = "cancel" => u.pc \in {"handler", "released"} /\ ExcusedNext(r, u)
                  /\ u.pc = "commit" => u.why \in {"failed", "completed"}

AllCalm == \A r \in Runs, g \in Tokens1 : CalmNext(r, task'[r][g])

\* A task that has lost its run does not get it back.
LEMMA LostStays ==
    ASSUME StoreInv, [StoreNext]_storeVars, NEW r \in Runs, NEW i, NEW f \in Nat,
           f >= 1, f <= fence[r],
           ~Owns(r, i, f) \/ status[r] \in Terminal \cup {"waiting_for_input"}
    PROVE  ~Owned(r, i, f) \/ status'[r] \in Terminal \cup {"waiting_for_input"}
  <1>1. StoreTypeOK /\ Fresh /\ LeaseIndex
    BY DEF StoreInv
  <1>2. fence[r] \in Nat /\ fence'[r] \in Nat
    BY <1>1, TypeStep DEF StoreTypeOK
  <1>3. fence'[r] > fence[r] \/ (fence'[r] = fence[r] /\ owner'[r] = owner[r])
    BY <1>1, HoldsStep DEF Holds
  <1>4. StatusChange(r)
    BY <1>1, StatusStep
  <1>5. status[r] \in Terminal => status'[r] = status[r]
    BY <1>1, SealedSteps DEF SealedStep
  <1>6. status[r] # "absent"
    BY <1>1, <1>2 DEF Fresh
  <1>7. CASE fence'[r] > fence[r]
    BY <1>2, <1>7 DEF Owned
  <1>8. CASE ~(fence'[r] > fence[r]) /\ ~Owns(r, i, f)
    BY <1>3, <1>6, <1>8 DEF Owns, Owned
  <1>9. CASE ~(fence'[r] > fence[r]) /\ status[r] \in Terminal \cup {"waiting_for_input"}
    BY <1>4, <1>5, <1>9 DEF StatusChange, Terminal
  <1>. QED
    BY <1>7, <1>8, <1>9

LEMMA CalmSame ==
    ASSUME StoreInv, TokenInv, [StoreNext]_storeVars, NEW r \in Runs, NEW g \in Tokens1,
           Calm(r, task[r][g]),
           instance'[task[r][g].inst] = instance[task[r][g].inst]
    PROVE  CalmNext(r, task[r][g])
  <1>. DEFINE t == task[r][g]
  <1>1. CASE Started(t) /\ t.why = "cancel"
    <2>1. Excused(r, t) /\ t.pc \in {"handler", "released"}
      BY <1>1 DEF Calm
    <2>2. t.fence \in Nat /\ t.fence >= 1 /\ t.fence <= fence[r]
      <3>1. t.fence \in Nat
        BY TaskType DEF TokenInv, Task
      <3>. QED
        BY <1>1, <2>1, <3>1 DEF TokenInv, TaskTokens, Credited
    <2>. HIDE DEF t
    <2>3. CASE instance[t.inst] = "closing"
      BY <1>1, <2>1, <2>3 DEF t, CalmNext, ExcusedNext
    <2>4. CASE ~Owns(r, t.inst, t.fence) \/ status[r] \in Terminal \cup {"waiting_for_input"}
      <3>1. ~Owned(r, t.inst, t.fence) \/ status'[r] \in Terminal \cup {"waiting_for_input"}
        BY <2>2, <2>4, LostStays
      <3>. QED
        BY <1>1, <2>1, <3>1 DEF t, CalmNext, ExcusedNext
    <2>. QED
      BY <2>1, <2>3, <2>4 DEF Excused
  <1>2. CASE ~(Started(t) /\ t.why = "cancel")
    BY <1>2 DEF Calm, CalmNext
  <1>. QED
    BY <1>1, <1>2

\* What one task's step leaves to show: its own record.
LEMMA CalmSet ==
    ASSUME StoreInv, TokenInv, [StoreNext]_storeVars, UNCHANGED instance,
           \A q \in Runs, h \in Tokens1 : Calm(q, task[q][h]),
           NEW r \in Runs, NEW g \in Tokens1, NEW u, Set(r, g, u), CalmNext(r, u)
    PROVE  AllCalm
  <1>. SUFFICES ASSUME NEW q \in Runs, NEW h \in Tokens1
                PROVE  CalmNext(q, task'[q][h])
    BY DEF AllCalm
  <1>1. task'[q][h] = IF q = r /\ h = g THEN u ELSE task[q][h]
    BY DEF Set, TokenInv, RegistryTypeOK
  <1>2. CalmNext(q, task[q][h])
    BY CalmSame
  <1>. QED
    BY <1>1, <1>2, Zenon

\* An exception is no cancellation unless it says so.
LEMMA RaiseCalm ==
    ASSUME NEW r \in Runs, NEW t \in Task, NEW why \in {"timeout", "error"}
    PROVE  CalmNext(r, Raise(t, why))
  <1>1. Ended.pc = "ended"
    BY DEF Ended, NoTask
  <1>2. CASE t.pc \in TryBlock
    <2>. DEFINE u == [Left(t) EXCEPT !.pc = "handler", !.why = why]
    <2>1. u.pc = "handler" /\ u.why = why
      BY DEF Task, Left
    <2>. HIDE DEF u
    <2>2. CalmNext(r, u)
      BY <2>1 DEF CalmNext
    <2>. QED
      BY <1>2, <2>2 DEF Raise, u
  <1>. QED
    BY <1>1, <1>2 DEF Raise, CalmNext, Started

LEMMA CancelCalm ==
    ASSUME NEW r \in Runs, NEW t \in Task, ExcusedNext(r, t)
    PROVE  CalmNext(r, Raise(t, "cancel"))
  <1>1. Ended.pc = "ended"
    BY DEF Ended, NoTask
  <1>2. CASE t.pc \in TryBlock
    <2>. DEFINE u == [Left(t) EXCEPT !.pc = "handler", !.why = "cancel"]
    <2>1. u.pc = "handler" /\ u.inst = t.inst /\ u.fence = t.fence
      BY DEF Task, Left
    <2>. HIDE DEF u
    <2>2. CalmNext(r, u)
      BY <2>1 DEF CalmNext, ExcusedNext
    <2>. QED
      BY <1>2, <2>2 DEF Raise, u
  <1>. QED
    BY <1>1, <1>2 DEF Raise, CalmNext, Started

LEMMA CalmReply ==
    ASSUME StoreInv, TokenInv, [StoreNext]_storeVars, UNCHANGED instance,
           faults' = 0, faults = 0,
           \A q \in Runs, h \in Tokens1 : Calm(q, task[q][h]),
           NEW r \in Runs, NEW g \in Tokens1, NEW u, Reply(r, g, u), CalmNext(r, u)
    PROVE  AllCalm
  <1>1. CalmNext(r, Raise(task[r][g], "timeout"))
    BY RaiseCalm, TaskType DEF TokenInv
  <1>2. ~Fail
    BY DEF Fail
  <1>. QED
    BY <1>1, <1>2, CalmSet DEF Reply

\* A task that is past neither a cancellation nor its end has not been cancelled.
LEMMA TryCalm ==
    ASSUME NEW r \in Runs, NEW t \in Task, Calm(r, t),
           Started(t), t.pc \notin {"handler", "released"},
           NEW u, u.why = t.why, u.pc # "commit"
    PROVE  CalmNext(r, u)
  BY DEF Calm, CalmNext, Started

LEMMA EndCalm == \A r \in Runs : CalmNext(r, Ended)
  BY DEF CalmNext, Started, Ended, NoTask

Quiet ==
    /\ StoreInv /\ TokenInv /\ [StoreNext]_storeVars
    /\ faults = 0 /\ faults' = 0
    /\ \A q \in Runs, h \in Tokens1 : Calm(q, task[q][h])

LEMMA GrantCalm ==
    ASSUME Quiet, NEW r \in Runs, NEW i \in Instances, Start(r, i) \/ ResumeRun(r, i)
    PROVE  AllCalm
  <1>1. fence[r] + 1 \in Tokens1
    <2>1. CASE Create(r, i)
      BY <2>1, BoundsAssumption DEF Quiet, StoreInv, StoreTypeOK, Fresh, Create, Tokens1
    <2>2. CASE Reassign(r, i)
      BY <2>2, BoundsAssumption DEF Quiet, StoreInv, StoreTypeOK, Reassign, Tokens1
    <2>. QED
      BY <2>1, <2>2 DEF Start, ResumeRun, TakeOver, Resume
  <1>. DEFINE u == [NoTask EXCEPT !.inst = i, !.pc = "load"]
              v == [NoTask EXCEPT !.inst = i, !.pc = "load", !.fence = fence[r] + 1]
  <1>2. CalmNext(r, u) /\ CalmNext(r, v)
    <2>1. u.pc = "load" /\ u.why = "none" /\ v.pc = "load" /\ v.why = "none"
      BY DEF NoTask
    <2>. HIDE DEF u, v
    <2>. QED
      BY <2>1 DEF CalmNext
  <1>3. Set(r, fence[r] + 1, u) \/ Set(r, fence[r] + 1, v)
    BY DEF Start, ResumeRun
  <1>4. UNCHANGED instance
    BY DEF Start, ResumeRun
  <1>. HIDE DEF u, v
  <1>. QED
    BY <1>1, <1>2, <1>3, <1>4, CalmSet DEF Quiet

LEMMA CalmPlain ==
    ASSUME Quiet, UNCHANGED instance, NEW r \in Runs, NEW g \in Tokens1, NEW u,
           Set(r, g, u), CalmNext(r, u)
    PROVE  AllCalm
  BY CalmSet DEF Quiet

LEMMA CalmAnswer ==
    ASSUME Quiet, UNCHANGED instance, NEW r \in Runs, NEW g \in Tokens1, NEW u,
           Reply(r, g, u), CalmNext(r, u)
    PROVE  AllCalm
  BY CalmReply DEF Quiet

\* What every step of a task starts from.
LEMMA CalmTask ==
    ASSUME Quiet, NEW r \in Runs, NEW g \in Tokens1
    PROVE  task[r][g] \in Task /\ Calm(r, task[r][g]) /\ ~Fail
  BY TaskType DEF Quiet, TokenInv, Fail

LEMMA CalmRaised ==
    ASSUME Quiet, UNCHANGED instance, NEW r \in Runs, NEW g \in Tokens1,
           \/ \E why \in {"timeout", "error"} : Set(r, g, Raise(task[r][g], why))
           \/ Set(r, g, Raise(task[r][g], "cancel")) /\ ExcusedNext(r, task[r][g])
    PROVE  AllCalm
  BY CalmTask, RaiseCalm, CancelCalm, CalmPlain

\* Redis answered and the answer stands: nothing the task read has changed.
LEMMA ExcusedNow ==
    ASSUME UNCHANGED storeVars, NEW r, NEW u,
           ~(Owns(r, u.inst, u.fence) /\ status[r] \in Pending)
    PROVE  ExcusedNext(r, u) \/ status[r] \notin Status
  BY DEF storeVars, hashVars, Owns, Owned, ExcusedNext, Pending, Status, Terminal

LEMMA SlotCalm ==
    ASSUME Quiet, NEW r \in Runs, NEW g \in Tokens1, AcquireSlot(r, g)
    PROVE  AllCalm
  <1>. DEFINE t == task[r][g]
  <1>1. t \in Task /\ Calm(r, t) /\ UNCHANGED instance /\ t.pc = "slot"
    BY CalmTask DEF AcquireSlot
  <1>2. CASE Reply(r, g, [t EXCEPT !.pc = "produce"])
    <2>. DEFINE u == [t EXCEPT !.pc = "produce"]
    <2>1. u.pc = "produce" /\ u.why = t.why
      BY <1>1 DEF Task
    <2>. HIDE DEF u
    <2>2. CalmNext(r, u)
      BY <1>1, <2>1, TryCalm DEF Started
    <2>. QED
      BY <1>1, <1>2, <2>2, CalmAnswer DEF u
  <1>3. CASE /\ Set(r, g, Raise(t, IF status[r] \in Terminal THEN "cancel" ELSE "error"))
             /\ UNCHANGED storeVars
    <2>1. CASE status[r] \in Terminal
      <3>1. ExcusedNext(r, t)
        BY <1>3, <2>1 DEF ExcusedNext, storeVars, hashVars
      <3>. QED
        BY <1>1, <1>3, <2>1, <3>1, CalmRaised
    <2>2. CASE status[r] \notin Terminal
      BY <1>1, <1>3, <2>2, CalmRaised
    <2>. QED
      BY <2>1, <2>2
  <1>. QED
    BY <1>2, <1>3 DEF AcquireSlot

LEMMA ProducerCalm ==
    ASSUME Quiet, NEW r \in Runs, NEW g \in Tokens1, Produce(r, g)
    PROVE  AllCalm
  <1>. DEFINE t == task[r][g]
              named == [t EXCEPT !.named = TRUE]
              erred == [t EXCEPT !.erred = TRUE]
              done == [Left(t) EXCEPT !.pc = "tail", !.emitted = TRUE]
              tail == [Left(t) EXCEPT !.pc = "tail"]
  <1>1. t \in Task /\ Calm(r, t) /\ UNCHANGED instance /\ t.pc = "produce"
    BY CalmTask DEF Produce, NameRun, EmitData, FailStream, EmitDone, Interrupt
  <1>2. \/ Reply(r, g, named) \/ Reply(r, g, t) \/ Reply(r, g, erred)
        \/ Reply(r, g, done) \/ Reply(r, g, tail)
    BY DEF Produce, NameRun, EmitData, FailStream, EmitDone, Interrupt
  <1>3. \A u \in {named, erred, done, tail, t} : u.why = t.why /\ u.pc # "commit"
    <2>1. named.why = t.why /\ named.pc = t.pc /\ erred.why = t.why /\ erred.pc = t.pc
      BY <1>1 DEF Task
    <2>2. done.why = t.why /\ done.pc = "tail" /\ tail.why = t.why /\ tail.pc = "tail"
      BY <1>1 DEF Task, Left
    <2>. HIDE DEF named, erred, done, tail
    <2>. QED
      BY <1>1, <2>1, <2>2
  <1>. HIDE DEF named, erred, done, tail
  <1>4. \A u \in {named, erred, done, tail, t} : CalmNext(r, u)
    BY <1>1, <1>3, TryCalm DEF Started
  <1>. HIDE DEF t
  <1>. QED
    BY <1>1, <1>2, <1>4, CalmAnswer

LEMMA LoadCalm ==
    ASSUME Quiet, NEW r \in Runs, NEW g \in Tokens1, LoadHandle(r, g)
    PROVE  AllCalm
  <1>. DEFINE t == task[r][g]
              u == [t EXCEPT !.pc = "slot",
                             !.fence = IF @ = 0 THEN fence[r] ELSE @,
                             !.emitted = emitted[r],
                             !.named = Named(r),
                             !.loop = "sleep",
                             !.due = clock + HeartbeatEvery]
  <1>1. t \in Task /\ Calm(r, t) /\ UNCHANGED instance /\ t.pc = "load" /\ ~Fail
    BY CalmTask DEF LoadHandle
  <1>2. Set(r, g, u)
    BY <1>1 DEF LoadHandle
  <1>3. u.why = t.why /\ u.pc = "slot"
    BY <1>1 DEF Task
  <1>. HIDE DEF u
  <1>4. CalmNext(r, u)
    BY <1>1, <1>3, TryCalm DEF Started
  <1>. QED
    BY <1>1, <1>2, <1>4, CalmPlain

LEMMA OutcomeCalm == \A r : Outcome(r) \in {"failed", "completed"}
  BY DEF Outcome

\* A task turns to its own end with the outcome of its producer.
LEMMA EndingCalm ==
    ASSUME NEW r \in Runs, NEW t \in Task, NEW why \in {"failed", "completed"}
    PROVE  /\ CalmNext(r, [t EXCEPT !.pc = "commit", !.why = why])
           /\ CalmNext(r, [t EXCEPT !.pc = "commit", !.emitted = TRUE, !.why = why])
  <1>. DEFINE u == [t EXCEPT !.pc = "commit", !.why = why]
              v == [t EXCEPT !.pc = "commit", !.emitted = TRUE, !.why = why]
  <1>1. u.why = why /\ v.why = why
    BY DEF Task
  <1>. HIDE DEF u, v
  <1>2. CalmNext(r, u) /\ CalmNext(r, v)
    BY <1>1 DEF CalmNext
  <1>. QED
    BY <1>2 DEF u, v

LEMMA FinishCalm ==
    ASSUME Quiet, NEW r \in Runs, NEW g \in Tokens1,
           Return(r, g) \/ Interrupted(r, g) \/ Finish(r, g)
    PROVE  AllCalm
  <1>. DEFINE t == task[r][g]
              back == [Left(t) EXCEPT !.pc = "finish"]
              seal == [t EXCEPT !.pc = "seal"]
  <1>1. /\ t \in Task /\ Calm(r, t) /\ UNCHANGED instance
        /\ t.pc \in {"produce", "tail", "finish"}
    BY CalmTask DEF Return, Interrupted, Finish
  <1>2. /\ back.why = t.why /\ back.pc = "finish"
        /\ seal.why = t.why /\ seal.pc = "seal"
    BY <1>1 DEF Task, Left
  <1>. HIDE DEF back, seal
  <1>3. CalmNext(r, back) /\ CalmNext(r, seal)
    BY <1>1, <1>2, TryCalm DEF Started
  <1>4. CASE Return(r, g)
    BY <1>1, <1>3, <1>4, CalmPlain DEF Return, back
  <1>5. CASE Interrupted(r, g)
    BY <1>1, <1>5, CalmRaised DEF Interrupted
  <1>6. CASE Finish(r, g)
    <2>1. \/ Set(r, g, Ended) \/ Set(r, g, seal)
          \/ Set(r, g, [t EXCEPT !.pc = "commit", !.why = Outcome(r)])
      BY <1>6 DEF Finish, seal
    <2>. QED
      BY <1>1, <1>3, <2>1, EndCalm, EndingCalm, OutcomeCalm, CalmPlain
  <1>. QED
    BY <1>4, <1>5, <1>6

LEMMA CommitCalm ==
    ASSUME Quiet, NEW r \in Runs, NEW g \in Tokens1,
           Seal(r, g) \/ Commit(r, g) \/ CommitError(r, g)
    PROVE  AllCalm
  <1>. DEFINE t == task[r][g]
  <1>1. t \in Task /\ UNCHANGED instance
    BY CalmTask DEF Seal, Commit, CommitError
  <1>2. CASE Seal(r, g)
    <2>1. \/ Reply(r, g, [t EXCEPT !.pc = "commit", !.emitted = TRUE, !.why = Outcome(r)])
          \/ Set(r, g, Raise(t, "error"))
      BY <1>2 DEF Seal
    <2>. QED
      BY <1>1, <2>1, EndingCalm, OutcomeCalm, CalmAnswer, CalmRaised
  <1>3. CASE Commit(r, g) \/ CommitError(r, g)
    <2>1. Reply(r, g, Ended) \/ Set(r, g, Ended) \/ Set(r, g, Raise(t, "error"))
      BY <1>3 DEF Commit, CommitError
    <2>. QED
      BY <1>1, <2>1, EndCalm, CalmPlain, CalmAnswer, CalmRaised
  <1>. QED
    BY <1>2, <1>3

\* The except clauses: a cancelled task that does not shut down finds that it has
\* nothing to end.
LEMMA HandlerCalm ==
    ASSUME Quiet, NEW r \in Runs, NEW g \in Tokens1,
           Handle(r, g) \/ GiveUp(r, g) \/ Leave(r, g)
    PROVE  AllCalm
  <1>. DEFINE t == task[r][g]
  <1>1. t \in Task /\ Calm(r, t) /\ UNCHANGED instance
    BY CalmTask DEF Handle, GiveUp, Leave
  <1>2. CASE Handle(r, g)
    <2>. DEFINE p == IF r \in StreamRuns THEN "error" ELSE "errorCommit"
                u == [t EXCEPT !.pc = p]
    <2>1. CASE t.why = "cancel"
      <3>1. t.pc = "handler" /\ ~Closing(t) /\ Excused(r, t)
        BY <1>1, <1>2, <2>1 DEF Handle, Calm, Started
      <3>2. \/ ~Owns(r, t.inst, t.fence)
            \/ status[r] = "waiting_for_input"
            \/ status[r] \in Terminal
        BY <2>1, <3>1 DEF Closing, Excused
      <3>3. Set(r, g, Ended)
        BY <1>2, <2>1, <3>2 DEF Handle
      <3>. QED
        BY <1>1, <3>3, EndCalm, CalmPlain
    <2>2. CASE t.why # "cancel"
      <3>1. Set(r, g, Ended) \/ Set(r, g, u)
        BY <1>2 DEF Handle
      <3>2. u.why = t.why /\ u.pc # "commit"
        BY <1>1 DEF Task
      <3>. HIDE DEF u
      <3>3. CalmNext(r, u)
        BY <2>2, <3>2 DEF CalmNext
      <3>. QED
        BY <1>1, <3>1, <3>3, EndCalm, CalmPlain
    <2>. QED
      BY <2>1, <2>2
  <1>3. CASE GiveUp(r, g)
    <2>. DEFINE u == [t EXCEPT !.pc = "released"]
    <2>1. Set(r, g, u) /\ instance'[t.inst] = "closing"
      BY <1>1, <1>3 DEF GiveUp, Closing
    <2>2. u.pc = "released" /\ u.inst = t.inst
      BY <1>1 DEF Task
    <2>. HIDE DEF u
    <2>3. CalmNext(r, u)
      BY <2>1, <2>2 DEF CalmNext, ExcusedNext
    <2>. QED
      BY <1>1, <2>1, <2>3, CalmPlain
  <1>4. CASE Leave(r, g)
    BY <1>1, <1>4, EndCalm, CalmPlain DEF Leave
  <1>. QED
    BY <1>2, <1>3, <1>4

LEMMA TerminalCalm ==
    ASSUME Quiet, NEW r \in Runs, NEW g \in Tokens1,
           AppendError(r, g) \/ AppendErrorDone(r, g)
    PROVE  AllCalm
  <1>. DEFINE t == task[r][g]
              next == [t EXCEPT !.pc = IF t.emitted THEN "errorCommit" ELSE "errorDone"]
              u == [t EXCEPT !.pc = "errorCommit"]
              v == [t EXCEPT !.pc = "errorCommit", !.emitted = TRUE]
  <1>1. t \in Task /\ Calm(r, t) /\ UNCHANGED instance /\ t.pc \in {"error", "errorDone"}
    BY CalmTask DEF AppendError, AppendErrorDone
  <1>2. \/ Reply(r, g, next) \/ Reply(r, g, v) \/ Set(r, g, u) \/ Set(r, g, Ended)
    BY DEF AppendError, AppendErrorDone
  <1>3. \A w \in {next, u, v} : w.why = t.why /\ w.pc # "commit"
    BY <1>1 DEF Task
  <1>. HIDE DEF next, u, v
  <1>4. \A w \in {next, u, v} : CalmNext(r, w)
    BY <1>1, <1>3, TryCalm DEF Started
  <1>. HIDE DEF t
  <1>. QED
    BY <1>1, <1>2, <1>4, EndCalm, CalmPlain, CalmAnswer

\* A heartbeat is refused only to a task that no longer has the run.
LEMMA LoopCalm ==
    ASSUME Quiet, NEW r \in Runs, NEW g \in Tokens1, Loop(r, g)
    PROVE  AllCalm
  <1>. DEFINE t == task[r][g]
              idle == [t EXCEPT !.loop = "off", !.due = 0]
              asks == [t EXCEPT !.loop = IF status[r] = "waiting_for_input"
                                         THEN "off" ELSE "beat",
                                !.due = IF status[r] = "waiting_for_input" THEN 0 ELSE @]
              beats == [t EXCEPT !.loop = "sleep", !.due = clock + HeartbeatEvery]
  <1>1. t \in Task /\ Calm(r, t) /\ UNCHANGED instance /\ ~Fail
    BY CalmTask DEF Loop, LoopLoad, LoopBeat
  <1>2. CalmNext(r, t)
    BY <1>1, CalmSame DEF Quiet
  <1>3. \A u \in {idle, asks, beats} :
           u.pc = t.pc /\ u.why = t.why /\ u.inst = t.inst /\ u.fence = t.fence
    BY <1>1 DEF Task
  <1>. HIDE DEF idle, asks, beats
  <1>4. CalmNext(r, asks) /\ CalmNext(r, beats)
    BY <1>2, <1>3 DEF CalmNext, ExcusedNext, Started
  <1>5. CASE LoopLoad(r, g)
    <2>1. Set(r, g, asks)
      BY <1>1, <1>5 DEF LoopLoad, asks
    <2>. QED
      BY <1>1, <1>4, <2>1, CalmPlain
  <1>6. CASE LoopBeat(r, g)
    <2>1. CASE Set(r, g, beats)
      BY <1>1, <1>4, <2>1, CalmPlain
    <2>2. CASE /\ ~(Owns(r, t.inst, t.fence) /\ status[r] \in Pending)
               /\ Set(r, g, Raise(idle, "cancel")) /\ UNCHANGED storeVars
      <3>1. status[r] \in Status
        BY DEF Quiet, StoreInv, StoreTypeOK
      <3>2. ExcusedNext(r, t)
        BY <2>2, <3>1, ExcusedNow
      <3>3. ExcusedNext(r, idle)
        BY <1>3, <3>2 DEF ExcusedNext
      <3>4. idle \in Task
        BY <1>1 DEF Task, idle
      <3>. QED
        BY <1>1, <2>2, <3>3, <3>4, CancelCalm, CalmPlain
    <2>. QED
      BY <1>1, <1>6, <2>1, <2>2 DEF LoopBeat, StopOwner, idle, beats
  <1>. QED
    BY <1>5, <1>6 DEF Loop

LEMMA WatchCalm ==
    ASSUME Quiet, NEW r \in Runs, NEW g \in Tokens1, Watch(r, g) \/ RedisError(r, g)
    PROVE  AllCalm
  <1>1. ~Fail
    BY CalmTask
  <1>2. Watch(r, g)
    BY <1>1 DEF RedisError
  <1>3. ExcusedNext(r, task[r][g])
    BY <1>2 DEF Watch, ExcusedNext, storeVars, hashVars
  <1>. QED
    BY <1>2, <1>3, CalmRaised DEF Watch

\* A client's cancellation takes the token from every task of the run.
LEMMA RequestCalm ==
    ASSUME Quiet, NEW r \in Runs, NEW i \in Instances, CancelRun(r, i)
    PROVE  AllCalm
  <1>. SUFFICES ASSUME NEW q \in Runs, NEW g \in Tokens1
                PROVE  CalmNext(q, task'[q][g])
    BY DEF AllCalm
  <1>1. task[q][g] \in Task /\ Calm(q, task[q][g]) /\ UNCHANGED instance
    BY CalmTask DEF CancelRun
  <1>2. CalmNext(q, task[q][g])
    BY <1>1, CalmSame DEF Quiet
  <1>3. CASE task'[q][g] = task[q][g]
    BY <1>2, <1>3
  <1>4. CASE q = r /\ Newest(r, i, g) /\ task'[q][g] = Raise(task[r][g], "cancel")
    <2>1. task[r][g].fence <= fence[r] /\ task[r][g].fence \in Nat
      BY <1>1, <1>4 DEF Newest, Alive, TryBlock, Handlers, Started, Quiet, TokenInv, TaskTokens,
         Credited, Task
    <2>2. fence'[r] = fence[r] + 1 /\ fence[r] \in Nat
      BY DEF CancelRun, Cancel, Quiet, StoreInv, StoreTypeOK
    <2>3. ExcusedNext(r, task[r][g])
      BY <2>1, <2>2 DEF ExcusedNext, Owned
    <2>. QED
      BY <1>1, <1>4, <2>3, CancelCalm
  <1>5. \/ task'[q][g] = task[q][g]
        \/ q = r /\ Newest(r, i, g) /\ task'[q][g] = Raise(task[r][g], "cancel")
    <2>. DEFINE row == [h \in Tokens1 |->
                  IF Newest(r, i, h) THEN Raise(task[r][h], "cancel") ELSE task[r][h]]
    <2>1. task' = [task EXCEPT ![r] = row]
      BY DEF CancelRun
    <2>2. task'[q] = IF q = r THEN row ELSE task[q]
      BY <2>1 DEF Quiet, TokenInv, RegistryTypeOK
    <2>. QED
      BY <2>2
  <1>. QED
    BY <1>3, <1>4, <1>5

\* A process that shuts down excuses its tasks; one that stops ends them.
LEMMA ProcessCalm ==
    ASSUME Quiet, NEW i \in Instances, Shutdown(i) \/ Crash(i)
    PROVE  AllCalm
  <1>. SUFFICES ASSUME NEW q \in Runs, NEW g \in Tokens1
                PROVE  CalmNext(q, task'[q][g])
    BY DEF AllCalm
  <1>. DEFINE t == task[q][g]
  <1>1. t \in Task /\ Calm(q, t)
    BY CalmTask
  <1>2. instance \in [Instances -> {"up", "closing", "down"}]
    BY DEF Quiet, TokenInv, RegistryTypeOK
  <1>3. CASE Shutdown(i) /\ t.inst = i
    <2>1. instance'[i] = "closing"
      BY <1>2, <1>3 DEF Shutdown
    <2>2. ExcusedNext(q, t)
      BY <1>3, <2>1 DEF ExcusedNext
    <2>3. task'[q][g] = t \/ task'[q][g] = Raise(t, "cancel")
      BY <1>3 DEF Shutdown
    <2>4. CalmNext(q, t)
      BY <1>1, <2>2 DEF Calm, CalmNext
    <2>. QED
      BY <1>1, <2>2, <2>3, <2>4, CancelCalm
  <1>4. CASE Crash(i) /\ t.inst = i
    <2>1. task'[q][g] = Ended
      BY <1>4 DEF Crash
    <2>. QED
      BY <2>1, EndCalm
  <1>5. CASE t.inst # i
    <2>1. task'[q][g] = t
      BY <1>5 DEF Shutdown, Crash, Newest
    <2>2. CASE Started(t)
      <3>1. t.inst \in Instances
        BY <2>2 DEF Quiet, TokenInv, TaskTokens, Credited
      <3>2. instance'[t.inst] = instance[t.inst]
        BY <1>2, <1>5, <3>1 DEF Shutdown, Crash
      <3>. QED
        BY <1>1, <2>1, <3>2, CalmSame DEF Quiet
    <2>3. CASE ~Started(t)
      BY <2>1, <2>3 DEF CalmNext
    <2>. QED
      BY <2>2, <2>3
  <1>. QED
    BY <1>3, <1>4, <1>5

LEMMA CalmStep ==
    ASSUME Quiet, [Next]_vars
    PROVE  AllCalm
  <1>1. CASE Tick \/ UNCHANGED vars
    <2>1. UNCHANGED <<task, instance>>
      BY <1>1 DEF Tick, vars
    <2>2. \A r \in Runs, g \in Tokens1 : CalmNext(r, task[r][g])
      BY <2>1, CalmSame DEF Quiet
    <2>. QED
      BY <2>1, <2>2 DEF AllCalm
  <1>2. ASSUME NEW r \in Runs, NEW g \in Tokens1, Execute(r, g)
        PROVE  AllCalm
    BY <1>2, LoadCalm, SlotCalm, FinishCalm, CommitCalm, HandlerCalm, TerminalCalm
       DEF Execute
  <1>. QED
    BY <1>1, <1>2, GrantCalm, RequestCalm, ProcessCalm, ProducerCalm, LoopCalm, WatchCalm
       DEF Next

-----------------------------------------------------------------------------
\* Failures are counted and never forgotten.
Counts == UNCHANGED faults \/ Fail

LEMMA FaultsGrow ==
    ASSUME RegistryTypeOK, [Next]_vars
    PROVE  faults' = 0 => faults = 0
  <1>1. faults \in Nat
    BY RegistryBounds DEF RegistryTypeOK
  <1>2. Fail => faults' # 0
    BY <1>1 DEF Fail
  <1>3. ASSUME NEW r \in Runs, NEW g \in Tokens1, NEW u, Reply(r, g, u)
        PROVE  Counts
    BY <1>3 DEF Reply, Counts
  <1>4. ASSUME NEW r \in Runs, NEW g \in Tokens1, Execute(r, g)
        PROVE  Counts
    BY <1>3, <1>4 DEF Execute, LoadHandle, AcquireSlot, Return, Interrupted, Finish, Seal,
       Commit, Handle, GiveUp, Leave, AppendError, AppendErrorDone, CommitError, Counts
  <1>5. ASSUME NEW r \in Runs, NEW g \in Tokens1, Produce(r, g)
        PROVE  Counts
    BY <1>3, <1>5 DEF Produce, NameRun, EmitData, FailStream, EmitDone, Interrupt, Counts
  <1>6. ASSUME NEW r \in Runs, NEW g \in Tokens1,
               Loop(r, g) \/ RedisError(r, g) \/ Watch(r, g)
        PROVE  Counts
    BY <1>6 DEF Loop, LoopLoad, LoopBeat, RedisError, Watch, Counts
  <1>7. ASSUME NEW r \in Runs, NEW i \in Instances,
               Start(r, i) \/ ResumeRun(r, i) \/ CancelRun(r, i)
        PROVE  Counts
    BY <1>7 DEF Start, ResumeRun, CancelRun, Counts
  <1>8. ASSUME Tick \/ UNCHANGED vars PROVE Counts
    BY <1>8 DEF Tick, vars, Counts
  <1>9. ASSUME NEW i \in Instances, Shutdown(i) \/ Crash(i)
        PROVE  Counts
    BY <1>9 DEF Shutdown, Crash, Counts
  <1>10. Counts
    BY <1>4, <1>5, <1>6, <1>7, <1>8, <1>9 DEF Next
  <1>. QED
    BY <1>1, <1>2, <1>10 DEF Counts

\* Only a client's script writes "cancelled" over another status.
Uncancelled(q) == status'[q] = "cancelled" => status[q] = "cancelled"

LEMMA UncancelledSet ==
    ASSUME StoreTypeOK, NEW q \in Runs, NEW r \in Runs
    PROVE  /\ UNCHANGED status => Uncancelled(q)
           /\ \A s : status' = [status EXCEPT ![r] = s] /\ s # "cancelled" => Uncancelled(q)
  BY DEF Uncancelled, StoreTypeOK

LEMMA ScriptsCancelNothing ==
    ASSUME StoreTypeOK, NEW q \in Runs, NEW r \in Runs, NEW i, NEW f
    PROVE  /\ Create(r, i) \/ Reassign(r, i) => Uncancelled(q)
           /\ AcquireRunning(r, i, f) => Uncancelled(q)
           /\ \A n : PauseForInput(r, i, f, n) => Uncancelled(q)
           /\ \A target : Transition(r, i, f, target) /\ target # "cancelled" => Uncancelled(q)
  <1>1. /\ Create(r, i) \/ Reassign(r, i) => status' = [status EXCEPT ![r] = "queued"]
        /\ AcquireRunning(r, i, f) => status' = [status EXCEPT ![r] = "running"]
        /\ \A n : PauseForInput(r, i, f, n) =>
              status' = [status EXCEPT ![r] = "waiting_for_input"]
        /\ \A target : Transition(r, i, f, target) =>
              status' = [status EXCEPT ![r] = target]
    BY DEF Create, Reassign, AcquireRunning, PauseForInput, Transition, LeaveExecution
  <1>2. "queued" # "cancelled" /\ "running" # "cancelled" /\ "waiting_for_input" # "cancelled"
    OBVIOUS
  <1>. QED
    BY <1>1, <1>2, UncancelledSet, Zenon

LEMMA RequestedStep ==
    ASSUME Quiet, [Next]_vars, NEW q \in Runs
    PROVE  Uncancelled(q) \/ q \in asked'
  <1>0. StoreTypeOK
    BY DEF Quiet, StoreInv
  <1>1. CASE UNCHANGED status
    BY <1>0, <1>1, UncancelledSet
  <1>2. ASSUME NEW r \in Runs, NEW i \in Instances, Start(r, i) \/ ResumeRun(r, i)
        PROVE  Uncancelled(q)
    BY <1>0, <1>2, ScriptsCancelNothing DEF Start, ResumeRun, TakeOver, Resume
  <1>3. ASSUME NEW r \in Runs, NEW i \in Instances, CancelRun(r, i)
        PROVE  Uncancelled(q) \/ q \in asked'
    <2>1. CASE q = r
      BY <1>3, <2>1 DEF CancelRun
    <2>2. CASE q # r
      BY <1>0, <1>3, <2>2 DEF CancelRun, Cancel, LeaveExecution, StoreTypeOK, Uncancelled
    <2>. QED
      BY <2>1, <2>2
  <1>4. ASSUME NEW r \in Runs, NEW g \in Tokens1, Execute(r, g)
        PROVE  Uncancelled(q)
    <2>1. CASE \/ LoadHandle(r, g) \/ Return(r, g) \/ Interrupted(r, g) \/ Finish(r, g)
               \/ Handle(r, g) \/ Leave(r, g)
      BY <1>0, <2>1, UncancelledSet DEF LoadHandle, Return, Interrupted, Finish, Handle, Leave,
         storeVars, hashVars
    <2>2. CASE AcquireSlot(r, g)
      BY <1>0, <2>2, UncancelledSet, ScriptsCancelNothing DEF AcquireSlot, storeVars, hashVars
    <2>3. CASE Seal(r, g) \/ GiveUp(r, g) \/ AppendError(r, g) \/ AppendErrorDone(r, g)
      BY <1>0, <2>3, UncancelledSet DEF Seal, GiveUp, AppendError, AppendErrorDone, AppendEvent,
         ReleaseLease, storeVars, hashVars
    <2>4. CASE Commit(r, g)
      <3>1. task[r][g].why \in {"failed", "completed"}
        BY <2>4, CalmTask DEF Commit, Calm, Started
      <3>2. task[r][g].why # "cancelled"
        BY <3>1
      <3>. QED
        BY <1>0, <2>4, <3>2, UncancelledSet, ScriptsCancelNothing DEF Commit, storeVars, hashVars
    <2>5. CASE CommitError(r, g)
      <3>1. task[r][g].why # "cancel"
        BY <2>5, CalmTask DEF CommitError, Calm, Started
      <3>2. TargetOf(task[r][g].why) # "cancelled"
        BY <3>1 DEF TargetOf
      <3>. QED
        BY <1>0, <2>5, <3>2, UncancelledSet, ScriptsCancelNothing DEF CommitError, storeVars,
           hashVars
    <2>. QED
      BY <1>4, <2>1, <2>2, <2>3, <2>4, <2>5 DEF Execute
  <1>5. ASSUME NEW r \in Runs, NEW g \in Tokens1, Produce(r, g)
        PROVE  Uncancelled(q)
    <2>1. CASE Interrupt(r, g)
      BY <1>0, <2>1, ScriptsCancelNothing DEF Interrupt
    <2>2. CASE NameRun(r, g) \/ EmitData(r, g) \/ FailStream(r, g) \/ EmitDone(r, g)
      <3>1. UNCHANGED status
        BY <2>2 DEF NameRun, EmitData, FailStream, EmitDone, SetRunId, AppendEvent,
           MarkStreamFailed
      <3>. QED
        BY <1>0, <3>1, UncancelledSet
    <2>. QED
      BY <1>5, <2>1, <2>2 DEF Produce
  <1>6. ASSUME NEW r \in Runs, NEW g \in Tokens1,
               Loop(r, g) \/ RedisError(r, g) \/ Watch(r, g)
        PROVE  UNCHANGED status
    BY <1>6 DEF Loop, LoopLoad, LoopBeat, Heartbeat, RedisError, Watch, storeVars, hashVars
  <1>7. ASSUME NEW i \in Instances, Shutdown(i) \/ Crash(i)
        PROVE  UNCHANGED status
    BY <1>7 DEF Shutdown, Crash, storeVars, hashVars
  <1>8. CASE Tick \/ UNCHANGED vars
    BY <1>1, <1>8 DEF Tick, Advance, vars, storeVars, hashVars
  <1>. QED
    BY <1>1, <1>2, <1>3, <1>4, <1>5, <1>6, <1>7, <1>8 DEF Next

LEMMA AskedStays ==
    ASSUME [Next]_vars
    PROVE  asked \subseteq asked'
  <1>1. ASSUME NEW r \in Runs, NEW i \in Instances, Start(r, i) \/ ResumeRun(r, i) \/ CancelRun(r, i)
        PROVE  asked \subseteq asked'
    BY <1>1 DEF Start, ResumeRun, CancelRun
  <1>2. ASSUME NEW i \in Instances, Shutdown(i) \/ Crash(i)
        PROVE  UNCHANGED asked
    BY <1>2 DEF Shutdown, Crash
  <1>3. ASSUME NEW r \in Runs, NEW g \in Tokens1,
               Execute(r, g) \/ Produce(r, g) \/ Loop(r, g) \/ RedisError(r, g) \/ Watch(r, g)
        PROVE  UNCHANGED asked
    BY <1>3 DEF Execute, LoadHandle, AcquireSlot, Return, Interrupted, Finish, Seal,
       Commit, Handle, GiveUp, Leave, AppendError, AppendErrorDone, CommitError,
       Produce, NameRun, EmitData, FailStream, EmitDone, Interrupt,
       Loop, LoopLoad, LoopBeat, RedisError, Watch
  <1>4. CASE Tick \/ UNCHANGED vars
    BY <1>4 DEF Tick, vars
  <1>. QED
    BY <1>1, <1>2, <1>3, <1>4 DEF Next

LEMMA CancelInvInit == Init => CancelInv
  BY DEF Init, StoreInit, NoTask, CancelInv, CalmTasks, Calm, Started, CancelledByRequest

LEMMA CancelInvStep == RegInv /\ CancelInv /\ [Next]_vars => CancelInv'
  <1>. SUFFICES ASSUME RegInv, CancelInv, [Next]_vars, faults' = 0
                PROVE  CancelInv'
    BY DEF CancelInv, CalmTasks, CancelledByRequest
  <1>1. StoreInv /\ TokenInv /\ RegistryTypeOK
    BY DEF RegInv, TokenInv
  <1>2. faults = 0
    BY <1>1, FaultsGrow
  <1>3. Quiet
    BY <1>1, <1>2, ScriptStep DEF Quiet, CancelInv, CalmTasks
  <1>4. AllCalm
    BY <1>3, CalmStep
  <1>5. CalmTasks'
    BY <1>4 DEF CalmTasks, AllCalm, Calm, CalmNext, Excused, ExcusedNext, Owns, Owned, Started
  <1>6. CancelledByRequest'
    BY <1>2, <1>3, RequestedStep, AskedStays DEF CancelInv, CancelledByRequest, Uncancelled
  <1>. QED
    BY <1>5, <1>6 DEF CancelInv

\* While Redis answers, a run ends as cancelled only because a client asked:
\* over any number of redeployments, crashes, take-overs and stalled event
\* loops, no task turns its own cancellation into the run's.
THEOREM Cancellations == Spec => []CancelledByRequest
  <1>1. CancelInv => CancelledByRequest
    BY DEF CancelInv
  <1>. QED
    BY <1>1, RegistryInvariant, CancelInvInit, CancelInvStep, PTL DEF Spec


(***************************************************************************)
(* ExclusiveExecution.  A task that is on its way into its producer holds  *)
(* the run: its token is the current one and its lease outlives the next   *)
(* heartbeat, so nobody can take the run over; only a client can end it.   *)
(***************************************************************************)
Entering == {"load", "slot", "produce"}

\* A client cancelled the run after it was granted with token g.
Overtaken(r, g) ==
    /\ status[r] \in Terminal
    /\ fence[r] = g + 1
    /\ ~Started(task[r][g + 1])

Numbered(r, g) ==
    LET t == task[r][g] IN
    /\ Started(t) => g <= fence[r]
    /\ t.pc = "load" => t.fence \in {0, g} /\ (fence[r] = g \/ Overtaken(r, g))
    /\ Alive(t) => t.fence = g \/ (t.fence = g + 1 /\ Overtaken(r, g))

Held(r, g) ==
    LET t == task[r][g] IN
    /\ fence[r] = g /\ owner[r] = t.inst
    /\ status[r] \in Pending
    /\ t.pc = "load" => clock + HeartbeatEvery < lease[r]
    /\ t.pc # "load" => /\ t.loop # "off"
                        /\ clock <= t.due /\ t.due <= clock + HeartbeatEvery
                        /\ t.due < lease[r]

Numbers == \A r \in Runs, g \in Tokens1 : Numbered(r, g)
Holders == \A r \in Runs, g \in Tokens1 :
    task[r][g].pc \in Entering => status[r] \in Terminal \/ Held(r, g)
Lone == \A r \in Runs : \A g, h \in Tokens1 :
    task[r][g].pc \in Entering /\ task[r][h].pc \in Entering => g = h

ExclusionInv == Numbers /\ Holders /\ Lone

-----------------------------------------------------------------------------
\* The same of the next state.
OvertakenNext(r, g) ==
    /\ status'[r] \in Terminal
    /\ fence'[r] = g + 1
    /\ ~Started(task'[r][g + 1])

NumberedNext(r, g) ==
    LET t == task'[r][g] IN
    /\ Started(t) => g <= fence'[r]
    /\ t.pc = "load" => t.fence \in {0, g} /\ (fence'[r] = g \/ OvertakenNext(r, g))
    /\ Alive(t) => t.fence = g \/ (t.fence = g + 1 /\ OvertakenNext(r, g))

HeldNext(r, g) ==
    LET t == task'[r][g] IN
    /\ fence'[r] = g /\ owner'[r] = t.inst
    /\ status'[r] \in Pending
    /\ t.pc = "load" => clock' + HeartbeatEvery < lease'[r]
    /\ t.pc # "load" => /\ t.loop # "off"
                        /\ clock' <= t.due /\ t.due <= clock' + HeartbeatEvery
                        /\ t.due < lease'[r]

EnteredNext(r, g) ==
    task'[r][g].pc \in Entering => status'[r] \in Terminal \/ HeldNext(r, g)

LoneNext(r) == \A g, h \in Tokens1 :
    task'[r][g].pc \in Entering /\ task'[r][h].pc \in Entering => g = h

ExclusionNext ==
    /\ \A r \in Runs, g \in Tokens1 : NumberedNext(r, g) /\ EnteredNext(r, g)
    /\ \A r \in Runs : LoneNext(r)

LEMMA ExclusionPrimed == ExclusionNext => ExclusionInv'
  <1>. SUFFICES ASSUME ExclusionNext PROVE Numbers' /\ Holders' /\ Lone'
    BY DEF ExclusionInv
  <1>1. Numbers'
    BY DEF ExclusionNext, Numbers, Numbered, NumberedNext, Overtaken, OvertakenNext, Alive,
       Started
  <1>2. Holders'
    BY DEF ExclusionNext, Holders, Held, EnteredNext, HeldNext
  <1>3. Lone'
    BY DEF ExclusionNext, Lone, LoneNext
  <1>. QED
    BY <1>1, <1>2, <1>3

\* Event loops and lease loops do what the code relies on.
Punctual == Prompt /\ ~LoopFaults /\ HeartbeatEvery < Lease

Steady == RegInv /\ ExclusionInv /\ TableStep /\ Punctual

\* The numbers in play.
LEMMA Arithmetic ==
    ASSUME Steady, NEW r \in Runs, NEW g \in Tokens1
    PROVE  /\ clock \in Nat /\ lease[r] \in Nat /\ fence[r] \in Nat /\ fence[r] <= MaxFence
           /\ HeartbeatEvery \in Nat /\ Lease \in Nat /\ HeartbeatEvery < Lease
           /\ g \in Nat /\ g >= 1 /\ MaxFence \in Nat
           /\ task[r][g] \in Task /\ task[r][g].due \in Nat /\ task[r][g].fence \in Nat
  <1>1. StoreTypeOK /\ RegistryTypeOK /\ FenceBound
    BY DEF Steady, RegInv, StoreInv, TokenInv
  <1>2. task[r][g] \in Task
    BY <1>1, TaskType
  <1>3. MaxFence \in Nat /\ g \in Nat /\ g >= 1
    BY BoundsAssumption DEF Tokens1
  <1>. QED
    BY <1>1, <1>2, <1>3, BoundsAssumption, HeartbeatAssumption, LeaseAssumption
       DEF StoreTypeOK, FenceBound, Steady, Punctual, Task

\* A task that may still write to a run that has not ended is the one its token
\* names, and nobody else is on the way into a producer.
LEMMA Sole ==
    ASSUME Steady, NEW r \in Runs, NEW g \in Tokens1, NEW h \in Tokens1,
           Alive(task[r][g]), Owns(r, task[r][g].inst, task[r][g].fence),
           status[r] \notin Terminal, task[r][h].pc \in Entering
    PROVE  h = g
  <1>1. task[r][g].fence = g
    BY DEF Steady, ExclusionInv, Numbers, Numbered, Overtaken
  <1>2. fence[r] = h
    BY DEF Steady, ExclusionInv, Holders, Held
  <1>. QED
    BY <1>1, <1>2 DEF Owns

\* Only one task of one run changes.
Moved(r, g) ==
    \A q \in Runs, h \in Tokens1 : (q # r \/ h # g) => task'[q][h] = task[q][h]

\* A script of an owner changes only its own run, and no token.
Framed(r) ==
    /\ clock' = clock /\ fence' = fence /\ owner' = owner
    /\ \A q \in Runs : q # r => status'[q] = status[q] /\ lease'[q] = lease[q]
    /\ status[r] \in Terminal => status'[r] \in Terminal

\* It leaves the lease alone, or its task is the owner.
Entitled(r, g) ==
    \/ status'[r] = status[r] /\ lease'[r] = lease[r]
    \/ Alive(task[r][g]) /\ Owns(r, task[r][g].inst, task[r][g].fence)

LEMMA SetMoves ==
    ASSUME RegistryTypeOK, NEW r \in Runs, NEW g \in Tokens1, NEW u, Set(r, g, u)
    PROVE  Moved(r, g) /\ task'[r][g] = u
  BY DEF Set, Moved, RegistryTypeOK

LEMMA ExclusionMove ==
    ASSUME Steady, NEW r \in Runs, NEW g \in Tokens1,
           Moved(r, g), Framed(r), Entitled(r, g), Started(task[r][g]),
           task'[r][g].pc \in Entering => task[r][g].pc \in Entering,
           NumberedNext(r, g), EnteredNext(r, g)
    PROVE  ExclusionNext
  <1>1. ASSUME NEW q \in Runs, NEW h \in Tokens1, Overtaken(q, h)
        PROVE  OvertakenNext(q, h)
    <2>1. h + 1 \in Tokens1
      BY <1>1, Arithmetic DEF Overtaken, Tokens1
    <2>2. task'[q][h + 1] = task[q][h + 1]
      BY <1>1, <2>1 DEF Overtaken, Moved
    <2>. QED
      BY <1>1, <2>2 DEF Overtaken, OvertakenNext, Framed
  <1>2. ASSUME NEW q \in Runs, NEW h \in Tokens1, q # r \/ h # g
        PROVE  NumberedNext(q, h) /\ EnteredNext(q, h)
    <2>1. task'[q][h] = task[q][h] /\ fence' = fence /\ owner' = owner /\ clock' = clock
      BY <1>2 DEF Moved, Framed
    <2>2. NumberedNext(q, h)
      <3>1. Numbered(q, h)
        BY DEF Steady, ExclusionInv, Numbers
      <3>. QED
        BY <1>1, <2>1, <3>1 DEF Numbered, NumberedNext
    <2>3. EnteredNext(q, h)
      <3>. SUFFICES ASSUME task[q][h].pc \in Entering, status'[q] \notin Terminal
                    PROVE  HeldNext(q, h)
        BY <2>1 DEF EnteredNext
      <3>1. status[q] \notin Terminal
        BY DEF Framed
      <3>2. Held(q, h)
        BY <3>1 DEF Steady, ExclusionInv, Holders
      <3>3. status'[q] = status[q] /\ lease'[q] = lease[q]
        <4>1. CASE q # r
          BY <4>1 DEF Framed
        <4>2. CASE q = r
          BY <1>2, <3>1, <4>2, Sole DEF Entitled
        <4>. QED
          BY <4>1, <4>2
      <3>. QED
        BY <2>1, <3>2, <3>3 DEF Held, HeldNext
    <2>. QED
      BY <2>2, <2>3
  <1>3. ASSUME NEW q \in Runs
        PROVE  LoneNext(q)
    <2>1. \A h \in Tokens1 : task'[q][h].pc \in Entering => task[q][h].pc \in Entering
      BY DEF Moved
    <2>. QED
      BY <2>1 DEF LoneNext, Steady, ExclusionInv, Lone
  <1>. QED
    BY <1>2, <1>3 DEF ExclusionNext

\* A task that has loaded its handle keeps its token.
LEMMA KeepsNumber ==
    ASSUME Steady, NEW r \in Runs, NEW g \in Tokens1, Alive(task[r][g]),
           Moved(r, g), Framed(r), task'[r][g].pc # "load"
    PROVE  NumberedNext(r, g)
  <1>. DEFINE t == task[r][g]
              u == task'[r][g]
  <1>1. Numbered(r, g) /\ Started(t) /\ t.pc # "load"
    BY DEF Steady, ExclusionInv, Numbers, Started, Alive, TryBlock, Handlers
  <1>2. g <= fence'[r]
    BY <1>1 DEF Numbered, Framed
  <1>3. u = Ended \/ u.fence = t.fence
    <2>1. Follows(r, t, u)
      BY DEF Steady, TableStep
    <2>. QED
      BY <1>1, <2>1 DEF Follows, Granted, Loaded, GoesOn
  <1>4. Overtaken(r, g) => OvertakenNext(r, g)
    <2>. SUFFICES ASSUME Overtaken(r, g) PROVE OvertakenNext(r, g)
      OBVIOUS
    <2>1. g + 1 \in Tokens1 /\ g + 1 # g
      BY Arithmetic DEF Overtaken, Tokens1
    <2>2. task'[r][g + 1] = task[r][g + 1]
      BY <2>1 DEF Moved
    <2>. QED
      BY <2>2 DEF Overtaken, OvertakenNext, Framed
  <1>5. ~Alive(Ended)
    BY DEF Alive, Ended, NoTask, TryBlock, Handlers
  <1>. QED
    BY <1>1, <1>2, <1>3, <1>4, <1>5 DEF Numbered, NumberedNext

\* It leaves the way to the producer, or stays on it with the run.
LEMMA ExclusionOut ==
    ASSUME Steady, NEW r \in Runs, NEW g \in Tokens1, Alive(task[r][g]),
           Moved(r, g), Framed(r), Entitled(r, g), task'[r][g].pc \notin Entering
    PROVE  ExclusionNext
  <1>1. NumberedNext(r, g)
    BY KeepsNumber DEF Entering
  <1>2. EnteredNext(r, g) /\ Started(task[r][g])
    BY DEF EnteredNext, Started, Alive, TryBlock, Handlers
  <1>. QED
    BY <1>1, <1>2, ExclusionMove

LEMMA ExclusionStay ==
    ASSUME Steady, NEW r \in Runs, NEW g \in Tokens1, task[r][g].pc \in {"slot", "produce"},
           Moved(r, g), Framed(r), Entitled(r, g), task'[r][g].pc \in {"slot", "produce"},
           status[r] \in Terminal \/ HeldNext(r, g)
    PROVE  ExclusionNext
  <1>1. Alive(task[r][g]) /\ Started(task[r][g])
    BY DEF Alive, Started, TryBlock
  <1>2. NumberedNext(r, g)
    BY <1>1, KeepsNumber
  <1>3. EnteredNext(r, g)
    BY DEF EnteredNext, Framed
  <1>. QED
    BY <1>1, <1>2, <1>3, ExclusionMove DEF Entering

LEMMA ScriptFrames ==
    ASSUME StoreTypeOK, NEW r \in Runs, NEW i, NEW f
    PROVE  /\ UNCHANGED storeVars => Framed(r) /\ UNCHANGED <<status, lease>>
           /\ \A kind, key : AppendEvent(r, i, f, kind, key) =>
                 Framed(r) /\ UNCHANGED <<status, lease>>
           /\ SetRunId(r, i, f) \/ MarkStreamFailed(r, i, f) =>
                 Framed(r) /\ UNCHANGED <<status, lease>>
           /\ Heartbeat(r, i, f) =>
                 Framed(r) /\ UNCHANGED status /\ lease'[r] = clock + Lease
           /\ AcquireRunning(r, i, f) =>
                 Framed(r) /\ status'[r] = "running" /\ lease'[r] = clock + Lease
           /\ ReleaseLease(r, i, f) => Framed(r)
           /\ \A n : PauseForInput(r, i, f, n) => Framed(r)
           /\ \A target : Transition(r, i, f, target) => Framed(r)
  <1>1. UNCHANGED storeVars => Framed(r) /\ UNCHANGED <<status, lease>>
    BY DEF Framed, storeVars, hashVars
  <1>2. ASSUME NEW kind, NEW key, AppendEvent(r, i, f, kind, key)
        PROVE  Framed(r) /\ UNCHANGED <<status, lease>>
    BY <1>2 DEF Framed, AppendEvent
  <1>3. SetRunId(r, i, f) \/ MarkStreamFailed(r, i, f) =>
           Framed(r) /\ UNCHANGED <<status, lease>>
    BY DEF Framed, SetRunId, MarkStreamFailed
  <1>4. Heartbeat(r, i, f) => Framed(r) /\ UNCHANGED status /\ lease'[r] = clock + Lease
    BY DEF Framed, Heartbeat, Until, StoreTypeOK
  <1>5. AcquireRunning(r, i, f) =>
           Framed(r) /\ status'[r] = "running" /\ lease'[r] = clock + Lease
    BY DEF Framed, AcquireRunning, Until, StoreTypeOK, Terminal
  <1>6. ReleaseLease(r, i, f) => Framed(r)
    BY DEF Framed, ReleaseLease, StoreTypeOK
  <1>7. ASSUME NEW n, PauseForInput(r, i, f, n)
        PROVE  Framed(r)
    BY <1>7 DEF Framed, PauseForInput, LeaveExecution, StoreTypeOK, Terminal
  <1>8. ASSUME NEW target, Transition(r, i, f, target)
        PROVE  Framed(r)
    BY <1>8 DEF Framed, Transition, LeaveExecution, StoreTypeOK
  <1>. QED
    BY <1>1, <1>2, <1>3, <1>4, <1>5, <1>6, <1>7, <1>8

Leaves(r, g) == Moved(r, g) /\ task'[r][g].pc \notin Entering

LEMMA RaiseLeaves ==
    ASSUME NEW t \in Task, NEW why
    PROVE  Raise(t, why).pc \notin Entering /\ Ended.pc \notin Entering
  <1>1. Ended.pc = "ended"
    BY DEF Ended, NoTask
  <1>2. t.pc \in TryBlock => Raise(t, why).pc = "handler"
    BY DEF Raise, Left, Task
  <1>. QED
    BY <1>1, <1>2 DEF Raise, Entering

LEMMA SetLeaves ==
    ASSUME RegistryTypeOK, NEW r \in Runs, NEW g \in Tokens1, NEW u, u.pc \notin Entering,
           Set(r, g, u) \/ Reply(r, g, u)
    PROVE  Leaves(r, g)
  <1>1. \E w : Set(r, g, w) /\ w.pc \notin Entering
    BY TaskType, RaiseLeaves DEF Reply
  <1>. QED
    BY <1>1, SetMoves DEF Leaves

\* The steps by which a task leaves its producer, or that it takes afterwards.
Behind(r, g) ==
    \/ EmitDone(r, g) \/ Interrupt(r, g) \/ Return(r, g) \/ Interrupted(r, g)
    \/ Finish(r, g) \/ Seal(r, g) \/ Commit(r, g) \/ Handle(r, g) \/ GiveUp(r, g)
    \/ Leave(r, g) \/ AppendError(r, g) \/ AppendErrorDone(r, g) \/ CommitError(r, g)
    \/ RedisError(r, g) \/ Watch(r, g)

LEMMA BehindLeaves ==
    ASSUME RegistryTypeOK, NEW r \in Runs, NEW g \in Tokens1, Behind(r, g)
    PROVE  Leaves(r, g)
  <1>. DEFINE t == task[r][g]
              done == [Left(t) EXCEPT !.pc = "tail", !.emitted = TRUE]
              tail == [Left(t) EXCEPT !.pc = "tail"]
              back == [Left(t) EXCEPT !.pc = "finish"]
              seal == [t EXCEPT !.pc = "seal"]
              over == [t EXCEPT !.pc = "commit", !.why = Outcome(r)]
              sealed == [t EXCEPT !.pc = "commit", !.emitted = TRUE, !.why = Outcome(r)]
              freed == [t EXCEPT !.pc = "released"]
              err == [t EXCEPT !.pc = "error"]
              errDone == [t EXCEPT !.pc = "errorDone"]
              errCommit == [t EXCEPT !.pc = "errorCommit"]
              errSent == [t EXCEPT !.pc = "errorCommit", !.emitted = TRUE]
  <1>1. t \in Task
    BY TaskType
  <1>2. /\ done.pc = "tail" /\ tail.pc = "tail" /\ back.pc = "finish" /\ seal.pc = "seal"
        /\ over.pc = "commit" /\ sealed.pc = "commit" /\ freed.pc = "released"
    BY <1>1 DEF Task, Left
  <1>3. /\ err.pc = "error" /\ errDone.pc = "errorDone" /\ errCommit.pc = "errorCommit"
        /\ errSent.pc = "errorCommit"
    BY <1>1 DEF Task
  <1>4. Ended.pc \notin Entering /\ \A why : Raise(t, why).pc \notin Entering
    BY <1>1, RaiseLeaves
  <1>. DEFINE Gone(u) == Set(r, g, u) \/ Reply(r, g, u)
  <1>5. \/ Gone(done) \/ Gone(tail) \/ Gone(back) \/ Gone(seal) \/ Gone(over) \/ Gone(sealed)
        \/ Gone(freed) \/ Gone(err) \/ Gone(errDone) \/ Gone(errCommit) \/ Gone(errSent)
        \/ Gone(Ended) \/ \E why : Gone(Raise(t, why))
    <2>1. CASE EmitDone(r, g) \/ Interrupt(r, g) \/ Return(r, g)
      BY <2>1 DEF EmitDone, Interrupt, Return
    <2>2. CASE Interrupted(r, g) \/ Leave(r, g) \/ CommitError(r, g) \/ RedisError(r, g)
               \/ Watch(r, g) \/ Commit(r, g)
      BY <2>2 DEF Interrupted, Leave, CommitError, RedisError, Watch, Commit
    <2>3. CASE Finish(r, g) \/ Seal(r, g) \/ GiveUp(r, g)
      BY <2>3 DEF Finish, Seal, GiveUp
    <2>4. CASE Handle(r, g)
      BY <2>4 DEF Handle
    <2>5. CASE AppendError(r, g) \/ AppendErrorDone(r, g)
      BY <2>5 DEF AppendError, AppendErrorDone
    <2>. QED
      BY <2>1, <2>2, <2>3, <2>4, <2>5 DEF Behind
  <1>. HIDE DEF done, tail, back, seal, over, sealed, freed, err, errDone, errCommit, errSent
  <1>6. \E u : Gone(u) /\ u.pc \notin Entering
    BY <1>2, <1>3, <1>4, <1>5 DEF Entering
  <1>. QED
    BY <1>6, SetLeaves

LEMMA BehindExclusion ==
    ASSUME Steady, NEW r \in Runs, NEW g \in Tokens1, Behind(r, g)
    PROVE  ExclusionNext
  <1>. DEFINE i == task[r][g].inst
              f == task[r][g].fence
  <1>1. StoreTypeOK /\ RegistryTypeOK
    BY DEF Steady, RegInv, StoreInv, TokenInv
  <1>2. Alive(task[r][g])
    BY DEF Behind, EmitDone, Interrupt, Return, Interrupted, Finish, Seal, Commit, Handle,
       GiveUp, Leave, AppendError, AppendErrorDone, CommitError, RedisError, Watch, Alive,
       TryBlock, Handlers
  <1>3. Leaves(r, g)
    BY <1>1, BehindLeaves
  <1>4. \/ UNCHANGED storeVars
        \/ \E kind, key : AppendEvent(r, i, f, kind, key)
        \/ \E n : PauseForInput(r, i, f, n)
        \/ \E target : Transition(r, i, f, target)
        \/ ReleaseLease(r, i, f)
    BY DEF Behind, EmitDone, Interrupt, Return, Interrupted, Finish, Seal, Commit, Handle,
       GiveUp, Leave, AppendError, AppendErrorDone, CommitError, RedisError, Watch
  <1>5. Framed(r)
    BY <1>1, <1>4, ScriptFrames
  <1>6. Entitled(r, g)
    <2>1. CASE UNCHANGED storeVars
      BY <1>1, <2>1, ScriptFrames DEF Entitled
    <2>2. CASE ~ UNCHANGED storeVars
      <3>1. Owns(r, i, f)
        BY <1>4, <2>2 DEF AppendEvent, CanAppend, PauseForInput, Transition, ReleaseLease
      <3>. QED
        BY <1>2, <3>1 DEF Entitled
    <2>. QED
      BY <2>1, <2>2
  <1>. QED
    BY <1>2, <1>3, <1>5, <1>6, ExclusionOut DEF Leaves

\* A task that goes on producing keeps its run; a write it cannot do ends that.
LEMMA ProducingExclusion ==
    ASSUME Steady, NEW r \in Runs, NEW g \in Tokens1,
           NameRun(r, g) \/ EmitData(r, g) \/ FailStream(r, g)
    PROVE  ExclusionNext
  <1>. DEFINE t == task[r][g]
              named == [t EXCEPT !.named = TRUE]
              erred == [t EXCEPT !.erred = TRUE]
  <1>1. StoreTypeOK /\ RegistryTypeOK /\ t \in Task
    BY TaskType DEF Steady, RegInv, StoreInv, TokenInv
  <1>2. t.pc = "produce" /\ Alive(t)
    BY DEF NameRun, EmitData, FailStream, Alive, TryBlock
  <1>3. Framed(r) /\ UNCHANGED <<status, lease>>
    BY <1>1, ScriptFrames DEF NameRun, EmitData, FailStream
  <1>4. Entitled(r, g)
    BY <1>3 DEF Entitled
  <1>5. \A u \in {t, named, erred} :
           u.pc = t.pc /\ u.inst = t.inst /\ u.loop = t.loop /\ u.due = t.due
    BY <1>1 DEF Task
  <1>6. Reply(r, g, named) \/ Reply(r, g, t) \/ Reply(r, g, erred)
    BY DEF NameRun, EmitData, FailStream
  <1>. HIDE DEF named, erred
  <1>7. \/ \E u \in {t, named, erred} : Set(r, g, u)
        \/ \E why : Set(r, g, Raise(t, why))
    BY <1>6 DEF Reply
  <1>8. ASSUME NEW why, Set(r, g, Raise(t, why))
        PROVE  ExclusionNext
    <2>1. Leaves(r, g)
      BY <1>1, <1>8, RaiseLeaves, SetLeaves
    <2>. QED
      BY <1>2, <1>3, <1>4, <2>1, ExclusionOut DEF Leaves
  <1>9. ASSUME NEW u \in {t, named, erred}, Set(r, g, u)
        PROVE  ExclusionNext
    <2>1. Moved(r, g) /\ task'[r][g] = u
      BY <1>1, <1>9, SetMoves
    <2>2. status[r] \in Terminal \/ HeldNext(r, g)
      <3>. SUFFICES ASSUME status[r] \notin Terminal PROVE HeldNext(r, g)
        OBVIOUS
      <3>1. Held(r, g)
        BY <1>2 DEF Steady, ExclusionInv, Holders, Entering
      <3>. QED
        BY <1>2, <1>3, <1>5, <2>1, <3>1 DEF Held, HeldNext, Framed
    <2>3. u.pc = "produce"
      BY <1>2, <1>5
    <2>. QED
      BY <1>2, <1>3, <1>4, <2>1, <2>2, <2>3, ExclusionStay
  <1>. QED
    BY <1>7, <1>8, <1>9

LEMMA SlotExclusion ==
    ASSUME Steady, NEW r \in Runs, NEW g \in Tokens1, AcquireSlot(r, g)
    PROVE  ExclusionNext
  <1>. DEFINE t == task[r][g]
              u == [t EXCEPT !.pc = "produce"]
  <1>1. StoreTypeOK /\ RegistryTypeOK /\ t \in Task
    BY TaskType DEF Steady, RegInv, StoreInv, TokenInv
  <1>2. t.pc = "slot" /\ Alive(t)
    BY DEF AcquireSlot, Alive, TryBlock
  <1>3. /\ u.pc = "produce" /\ u.inst = t.inst /\ u.loop = t.loop /\ u.due = t.due
    BY <1>1 DEF Task
  <1>4. \/ AcquireRunning(r, t.inst, t.fence) /\ Reply(r, g, u)
        \/ UNCHANGED storeVars /\ \E why : Set(r, g, Raise(t, why))
    BY DEF AcquireSlot
  <1>. HIDE DEF u
  <1>5. CASE UNCHANGED storeVars /\ \E why : Set(r, g, Raise(t, why))
    <2>1. Leaves(r, g)
      BY <1>1, <1>5, RaiseLeaves, SetLeaves
    <2>2. Framed(r) /\ Entitled(r, g)
      BY <1>1, <1>5, ScriptFrames DEF Entitled
    <2>. QED
      BY <1>2, <2>1, <2>2, ExclusionOut DEF Leaves
  <1>6. CASE AcquireRunning(r, t.inst, t.fence) /\ Reply(r, g, u)
    <2>1. Framed(r) /\ status'[r] = "running" /\ lease'[r] = clock + Lease
      BY <1>1, <1>6, ScriptFrames
    <2>2. Owns(r, t.inst, t.fence) /\ status[r] = "queued"
      BY <1>6 DEF AcquireRunning
    <2>3. Entitled(r, g)
      BY <1>2, <2>2 DEF Entitled
    <2>4. Set(r, g, u) \/ \E why : Set(r, g, Raise(t, why))
      BY <1>6 DEF Reply
    <2>5. CASE \E why : Set(r, g, Raise(t, why))
      <3>1. Leaves(r, g)
        BY <1>1, <2>5, RaiseLeaves, SetLeaves
      <3>. QED
        BY <1>2, <2>1, <2>3, <3>1, ExclusionOut DEF Leaves
    <2>6. CASE Set(r, g, u)
      <3>1. Moved(r, g) /\ task'[r][g] = u
        BY <1>1, <2>6, SetMoves
      <3>2. Held(r, g)
        BY <1>2, <2>2 DEF Steady, ExclusionInv, Holders, Entering, Terminal
      <3>3. t.due < lease'[r]
        BY <1>2, <2>1, <3>2, Arithmetic DEF Held
      <3>4. HeldNext(r, g)
        BY <1>2, <1>3, <2>1, <3>1, <3>2, <3>3 DEF Held, HeldNext, Framed, Pending
      <3>. QED
        BY <1>2, <1>3, <2>1, <2>3, <3>1, <3>4, ExclusionStay
    <2>. QED
      BY <2>4, <2>5, <2>6
  <1>. QED
    BY <1>4, <1>5, <1>6

\* The handle is loaded in the tick in which the run was granted.
LEMMA LoadExclusion ==
    ASSUME Steady, NEW r \in Runs, NEW g \in Tokens1, LoadHandle(r, g)
    PROVE  ExclusionNext
  <1>. DEFINE t == task[r][g]
              u == [t EXCEPT !.pc = "slot",
                             !.fence = IF @ = 0 THEN fence[r] ELSE @,
                             !.emitted = emitted[r],
                             !.named = Named(r),
                             !.loop = "sleep",
                             !.due = clock + HeartbeatEvery]
  <1>1. StoreTypeOK /\ RegistryTypeOK /\ t \in Task
    BY TaskType DEF Steady, RegInv, StoreInv, TokenInv
  <1>2. t.pc = "load" /\ Started(t) /\ t.pc \in Entering
    BY DEF LoadHandle, Started, Entering
  <1>3. Framed(r) /\ UNCHANGED <<status, lease>>
    BY <1>1, ScriptFrames DEF LoadHandle
  <1>4. Entitled(r, g)
    BY <1>3 DEF Entitled
  <1>5. /\ u.pc = "slot" /\ u.inst = t.inst /\ u.loop = "sleep"
        /\ u.due = clock + HeartbeatEvery
        /\ u.fence = IF t.fence = 0 THEN fence[r] ELSE t.fence
    BY <1>1 DEF Task
  <1>6. Numbered(r, g)
    BY DEF Steady, ExclusionInv, Numbers
  <1>7. Overtaken(r, g) /\ Moved(r, g) => OvertakenNext(r, g)
    <2>. SUFFICES ASSUME Overtaken(r, g), Moved(r, g) PROVE OvertakenNext(r, g)
      OBVIOUS
    <2>1. g + 1 \in Tokens1 /\ g + 1 # g
      BY Arithmetic DEF Overtaken, Tokens1
    <2>2. task'[r][g + 1] = task[r][g + 1]
      BY <2>1 DEF Moved
    <2>. QED
      BY <1>3, <2>2 DEF Overtaken, OvertakenNext, Framed
  <1>8. CASE Set(r, g, Ended)
    <2>1. Moved(r, g) /\ task'[r][g] = Ended
      BY <1>1, <1>8, SetMoves
    <2>2. Ended.pc = "ended"
      BY DEF Ended, NoTask
    <2>3. NumberedNext(r, g) /\ EnteredNext(r, g)
      BY <1>2, <1>3, <1>6, <2>1, <2>2 DEF Numbered, NumberedNext, EnteredNext, Entering, Framed,
         Alive, TryBlock, Handlers
    <2>. QED
      BY <1>2, <1>3, <1>4, <2>1, <2>3, ExclusionMove
  <1>9. CASE Set(r, g, u)
    <2>. HIDE DEF u
    <2>1. Moved(r, g) /\ task'[r][g] = u
      BY <1>1, <1>9, SetMoves
    <2>2. u.fence = g \/ (u.fence = g + 1 /\ OvertakenNext(r, g))
      BY <1>2, <1>5, <1>6, <1>7, <2>1 DEF Numbered, Overtaken
    <2>3. NumberedNext(r, g)
      BY <1>2, <1>3, <1>5, <1>6, <2>1, <2>2 DEF Numbered, NumberedNext, Framed
    <2>4. EnteredNext(r, g)
      <3>. SUFFICES ASSUME status'[r] \notin Terminal PROVE HeldNext(r, g)
        BY DEF EnteredNext
      <3>1. Held(r, g)
        BY <1>2, <1>3 DEF Steady, ExclusionInv, Holders
      <3>2. clock <= u.due /\ u.due <= clock + HeartbeatEvery /\ u.due < lease[r]
        BY <1>2, <1>5, <3>1, Arithmetic DEF Held
      <3>. QED
        BY <1>3, <1>5, <2>1, <3>1, <3>2 DEF Held, HeldNext, Framed
    <2>. QED
      BY <1>2, <1>3, <1>4, <2>1, <2>3, <2>4, ExclusionMove
  <1>. QED
    BY <1>8, <1>9 DEF LoadHandle

\* The lease loop: a heartbeat is due before the lease ends, and stops the task
\* when it fails.
LEMMA LoopExclusion ==
    ASSUME Steady, NEW r \in Runs, NEW g \in Tokens1, Loop(r, g)
    PROVE  ExclusionNext
  <1>. DEFINE t == task[r][g]
              idle == [t EXCEPT !.loop = "off", !.due = 0]
              asks == [t EXCEPT !.loop = IF status[r] = "waiting_for_input"
                                         THEN "off" ELSE "beat",
                                !.due = IF status[r] = "waiting_for_input" THEN 0 ELSE @]
              beats == [t EXCEPT !.loop = "sleep", !.due = clock + HeartbeatEvery]
  <1>1. StoreTypeOK /\ RegistryTypeOK /\ t \in Task /\ Alive(t)
    BY TaskType DEF Steady, RegInv, StoreInv, TokenInv, Loop, LoopLoad, LoopBeat
  <1>2. asks.pc = t.pc /\ asks.inst = t.inst
        /\ (status[r] # "waiting_for_input" => asks.loop = "beat" /\ asks.due = t.due)
    BY <1>1 DEF Task
  <1>3. /\ beats.pc = t.pc /\ beats.inst = t.inst
        /\ beats.loop = "sleep" /\ beats.due = clock + HeartbeatEvery
    BY <1>1 DEF Task
  <1>4. idle \in Task
    BY <1>1 DEF Task
  <1>. HIDE DEF idle, asks, beats
  <1>5. \/ UNCHANGED storeVars /\ Set(r, g, asks)
        \/ Heartbeat(r, t.inst, t.fence) /\ Set(r, g, beats)
        \/ /\ UNCHANGED storeVars \/ Heartbeat(r, t.inst, t.fence)
           /\ Set(r, g, Raise(idle, "cancel"))
    BY DEF Loop, LoopLoad, LoopBeat, StopOwner, asks, beats, idle, Steady, Punctual
  <1>6. Framed(r)
    BY <1>1, <1>5, ScriptFrames
  <1>7. Entitled(r, g)
    BY <1>1, <1>5, ScriptFrames DEF Entitled, Heartbeat
  <1>8. CASE Set(r, g, Raise(idle, "cancel"))
    <2>1. Leaves(r, g)
      BY <1>1, <1>4, <1>8, RaiseLeaves, SetLeaves
    <2>. QED
      BY <1>1, <1>6, <1>7, <2>1, ExclusionOut DEF Leaves
  <1>9. CASE UNCHANGED storeVars /\ Set(r, g, asks)
    <2>1. Moved(r, g) /\ task'[r][g] = asks
      BY <1>1, <1>9, SetMoves
    <2>2. CASE t.pc \notin Entering
      BY <1>1, <1>2, <1>6, <1>7, <2>1, <2>2, ExclusionOut
    <2>3. CASE t.pc \in Entering
      <3>1. t.pc \in {"slot", "produce"}
        BY <1>1, <2>3 DEF Alive, TryBlock, Handlers, Entering
      <3>2. status[r] \in Terminal \/ HeldNext(r, g)
        <4>. SUFFICES ASSUME status[r] \notin Terminal PROVE HeldNext(r, g)
          OBVIOUS
        <4>1. Held(r, g)
          BY <2>3 DEF Steady, ExclusionInv, Holders
        <4>2. UNCHANGED <<status, lease>>
          BY <1>1, <1>9, ScriptFrames
        <4>3. status[r] # "waiting_for_input"
          BY <4>1 DEF Held, Pending
        <4>. QED
          BY <1>2, <1>6, <2>1, <3>1, <4>1, <4>2, <4>3 DEF Held, HeldNext, Framed
      <3>. QED
        BY <1>2, <1>6, <1>7, <2>1, <3>1, <3>2, ExclusionStay
    <2>. QED
      BY <2>2, <2>3
  <1>10. CASE Heartbeat(r, t.inst, t.fence) /\ Set(r, g, beats)
    <2>1. Moved(r, g) /\ task'[r][g] = beats
      BY <1>1, <1>10, SetMoves
    <2>2. CASE t.pc \notin Entering
      BY <1>1, <1>3, <1>6, <1>7, <2>1, <2>2, ExclusionOut
    <2>3. CASE t.pc \in Entering
      <3>1. t.pc \in {"slot", "produce"}
        BY <1>1, <2>3 DEF Alive, TryBlock, Handlers, Entering
      <3>2. status[r] \in Terminal \/ HeldNext(r, g)
        <4>. SUFFICES ASSUME status[r] \notin Terminal PROVE HeldNext(r, g)
          OBVIOUS
        <4>1. Held(r, g)
          BY <2>3 DEF Steady, ExclusionInv, Holders
        <4>2. UNCHANGED status /\ lease'[r] = clock + Lease
          BY <1>1, <1>10, ScriptFrames
        <4>3. /\ clock <= beats.due /\ beats.due <= clock + HeartbeatEvery
              /\ beats.due < lease'[r]
          BY <1>3, <4>2, Arithmetic
        <4>. QED
          BY <1>3, <1>6, <2>1, <3>1, <4>1, <4>2, <4>3 DEF Held, HeldNext, Framed
      <3>. QED
        BY <1>3, <1>6, <1>7, <2>1, <3>1, <3>2, ExclusionStay
    <2>. QED
      BY <2>2, <2>3
  <1>. QED
    BY <1>5, <1>8, <1>9, <1>10

\* A step leaves one run as it is.
LEMMA SameRun ==
    ASSUME Steady, NEW q \in Runs,
           status'[q] = status[q], fence'[q] = fence[q], owner'[q] = owner[q],
           lease'[q] = lease[q], clock' = clock,
           \A h \in Tokens1 : task'[q][h] = task[q][h]
    PROVE  LoneNext(q) /\ \A h \in Tokens1 : NumberedNext(q, h) /\ EnteredNext(q, h)
  <1>1. ASSUME NEW h \in Tokens1, Overtaken(q, h)
        PROVE  OvertakenNext(q, h)
    <2>1. h + 1 \in Tokens1
      BY <1>1, Arithmetic DEF Overtaken, Tokens1
    <2>. QED
      BY <1>1, <2>1 DEF Overtaken, OvertakenNext
  <1>2. ASSUME NEW h \in Tokens1
        PROVE  NumberedNext(q, h)
    <2>1. Numbered(q, h)
      BY DEF Steady, ExclusionInv, Numbers
    <2>. QED
      BY <1>1, <2>1 DEF Numbered, NumberedNext
  <1>3. ASSUME NEW h \in Tokens1
        PROVE  EnteredNext(q, h)
    BY DEF EnteredNext, HeldNext, Steady, ExclusionInv, Holders, Held
  <1>4. LoneNext(q)
    BY DEF LoneNext, Steady, ExclusionInv, Lone
  <1>. QED
    BY <1>2, <1>3, <1>4

\* Nobody takes a run over while a task is on its way into its producer.
LEMMA Deserted ==
    ASSUME Steady, NEW r \in Runs, NEW h \in Tokens1,
           \/ status[r] = "absent"
           \/ status[r] \in Pending /\ lease[r] <= clock
           \/ status[r] = "waiting_for_input"
    PROVE  task[r][h].pc \notin Entering
  <1>. SUFFICES ASSUME task[r][h].pc \in Entering PROVE FALSE
    OBVIOUS
  <1>1. Held(r, h)
    BY DEF Steady, ExclusionInv, Holders, Terminal, Pending
  <1>2. lease[r] > clock
    BY <1>1, Arithmetic DEF Held
  <1>. QED
    BY <1>1, <1>2, Arithmetic DEF Held, Pending

LEMMA GrantExclusion ==
    ASSUME Steady, NEW r \in Runs, NEW i \in Instances, Start(r, i) \/ ResumeRun(r, i)
    PROVE  ExclusionNext
  <1>. DEFINE g == fence[r] + 1
              u == [NoTask EXCEPT !.inst = i, !.pc = "load"]
              v == [NoTask EXCEPT !.inst = i, !.pc = "load", !.fence = g]
  <1>1. StoreTypeOK /\ Fresh /\ RegistryTypeOK
    BY DEF Steady, RegInv, StoreInv, TokenInv
  <1>2. /\ u.pc = "load" /\ u.inst = i /\ u.fence = 0
        /\ v.pc = "load" /\ v.inst = i /\ v.fence = g
    BY DEF NoTask
  <1>3. Set(r, g, u) \/ Set(r, g, v)
    BY DEF Start, ResumeRun
  <1>. HIDE DEF u, v
  <1>4. /\ fence'[r] = g /\ owner'[r] = i /\ status'[r] = "queued"
        /\ lease'[r] = clock + Lease /\ clock' = clock /\ g <= MaxFence
        /\ \A q \in Runs : q # r =>
              /\ status'[q] = status[q] /\ fence'[q] = fence[q]
              /\ owner'[q] = owner[q] /\ lease'[q] = lease[q]
    <2>1. CASE Create(r, i)
      BY <1>1, <2>1, BoundsAssumption DEF Create, StoreTypeOK, Fresh, Until
    <2>2. CASE Reassign(r, i) /\ clock' = clock
      BY <1>1, <2>2, BoundsAssumption DEF Reassign, StoreTypeOK, Until
    <2>. QED
      BY <2>1, <2>2 DEF Start, ResumeRun, TakeOver, Resume
  <1>5. /\ status[r] \notin Terminal
        /\ \A h \in Tokens1 : task[r][h].pc \notin Entering
    BY Deserted DEF Start, ResumeRun, Create, TakeOver, Resume, Pending, Terminal
  <1>6. fence[r] \in Nat /\ g \in Tokens1
    BY <1>1, <1>4, BoundsAssumption DEF StoreTypeOK, Tokens1
  <1>7. /\ Moved(r, g)
        /\ task'[r][g].pc = "load" /\ task'[r][g].inst = i /\ task'[r][g].fence \in {0, g}
    BY <1>1, <1>2, <1>3, <1>6, SetMoves
  <1>. HIDE DEF g
  <1>8. NumberedNext(r, g) /\ EnteredNext(r, g)
    <2>1. clock' + HeartbeatEvery < lease'[r]
      BY <1>4, <1>6, Arithmetic
    <2>2. ~Alive(task'[r][g])
      BY <1>7 DEF Alive, TryBlock, Handlers
    <2>. QED
      BY <1>4, <1>6, <1>7, <2>1, <2>2, Arithmetic DEF NumberedNext, EnteredNext, HeldNext, Pending
  <1>9. ASSUME NEW h \in Tokens1, h # g
        PROVE  NumberedNext(r, h) /\ EnteredNext(r, h) /\ task'[r][h].pc \notin Entering
    <2>1. task'[r][h] = task[r][h] /\ task[r][h].pc \notin Entering
      BY <1>5, <1>7, <1>9 DEF Moved
    <2>2. Numbered(r, h)
      BY DEF Steady, ExclusionInv, Numbers
    <2>3. Started(task[r][h]) => h <= fence'[r]
      BY <1>4, <1>6, <2>2, Arithmetic DEF Numbered, g
    <2>. QED
      BY <1>5, <2>1, <2>2, <2>3 DEF Numbered, NumberedNext, EnteredNext, Overtaken, Entering
  <1>10. LoneNext(r)
    BY <1>9 DEF LoneNext
  <1>11. ASSUME NEW q \in Runs, q # r
         PROVE  LoneNext(q) /\ \A h \in Tokens1 : NumberedNext(q, h) /\ EnteredNext(q, h)
    <2>1. \A h \in Tokens1 : task'[q][h] = task[q][h]
      BY <1>7, <1>11 DEF Moved
    <2>. QED
      BY <1>4, <1>11, <2>1, SameRun
  <1>. QED
    BY <1>8, <1>9, <1>10, <1>11 DEF ExclusionNext

\* A client's cancellation overtakes the tasks of the run, whatever they do.
LEMMA RequestExclusion ==
    ASSUME Steady, NEW r \in Runs, NEW i \in Instances, CancelRun(r, i)
    PROVE  ExclusionNext
  <1>. DEFINE row == [h \in Tokens1 |->
                  IF Newest(r, i, h) THEN Raise(task[r][h], "cancel") ELSE task[r][h]]
  <1>1. StoreTypeOK /\ RegistryTypeOK
    BY DEF Steady, RegInv, StoreInv, TokenInv
  <1>2. /\ status[r] \notin Terminal /\ status'[r] \in Terminal
        /\ fence'[r] = fence[r] + 1 /\ fence[r] < MaxFence /\ clock' = clock
        /\ \A q \in Runs : q # r =>
              /\ status'[q] = status[q] /\ fence'[q] = fence[q]
              /\ owner'[q] = owner[q] /\ lease'[q] = lease[q]
    BY <1>1 DEF CancelRun, Cancel, LeaveExecution, StoreTypeOK, Terminal
  <1>3. \A q \in Runs : task'[q] = IF q = r THEN row ELSE task[q]
    BY <1>1 DEF CancelRun, RegistryTypeOK
  <1>4. \A h \in Tokens1 : \/ task'[r][h] = task[r][h]
                           \/ /\ Alive(task[r][h])
                              /\ task'[r][h] = Raise(task[r][h], "cancel")
    BY <1>3 DEF Newest
  <1>. HIDE DEF row
  <1>5. ASSUME NEW h \in Tokens1
        PROVE  /\ task'[r][h].pc \in Entering => task[r][h].pc \in Entering
               /\ Started(task'[r][h]) => Started(task[r][h])
               /\ task'[r][h].pc = "load" => task'[r][h] = task[r][h]
    <2>1. task[r][h] \in Task
      BY <1>1, TaskType
    <2>2. Raise(task[r][h], "cancel").pc \notin Entering
      BY <2>1, RaiseLeaves
    <2>. QED
      BY <1>4, <2>2 DEF Entering, Started, Alive, TryBlock, Handlers
  <1>6. ASSUME NEW h \in Tokens1
        PROVE  NumberedNext(r, h) /\ EnteredNext(r, h)
    <2>. DEFINE t == task[r][h]
                w == task'[r][h]
    <2>1. Numbered(r, h) /\ ~Overtaken(r, h)
      BY <1>2 DEF Steady, ExclusionInv, Numbers, Overtaken
    <2>2. Started(w) => h <= fence'[r]
      BY <1>2, <1>5, <2>1, Arithmetic DEF Numbered
    <2>3. fence[r] = h => OvertakenNext(r, h)
      <3>. SUFFICES ASSUME fence[r] = h PROVE OvertakenNext(r, h)
        OBVIOUS
      <3>1. h + 1 \in Tokens1 /\ ~(h + 1 <= fence[r])
        BY <1>2, Arithmetic DEF Tokens1
      <3>2. Numbered(r, h + 1)
        BY <3>1 DEF Steady, ExclusionInv, Numbers
      <3>3. ~Started(task[r][h + 1])
        BY <3>1, <3>2 DEF Numbered, Started
      <3>. QED
        BY <1>2, <1>5, <3>1, <3>3 DEF OvertakenNext
    <2>4. w.pc = "load" => w.fence \in {0, h} /\ OvertakenNext(r, h)
      BY <1>5, <2>1, <2>3 DEF Numbered
    <2>5. Alive(w) => w.fence = h
      <3>1. w = t \/ (Alive(t) /\ w = Raise(t, "cancel"))
        BY <1>4
      <3>2. Alive(t) => t.fence = h
        BY <2>1 DEF Numbered
      <3>3. Alive(t) /\ w = Raise(t, "cancel") => w = Ended \/ w.fence = t.fence
        <4>1. t \in Task
          BY <1>1, TaskType
        <4>2. t.pc \in TryBlock => Raise(t, "cancel").fence = t.fence
          BY <4>1 DEF Raise, Left, Task
        <4>. QED
          BY <4>2 DEF Raise
      <3>4. ~Alive(Ended)
        BY DEF Alive, Ended, NoTask, TryBlock, Handlers
      <3>. QED
        BY <3>1, <3>2, <3>3, <3>4
    <2>. QED
      BY <1>2, <2>2, <2>4, <2>5 DEF NumberedNext, EnteredNext
  <1>7. LoneNext(r)
    BY <1>5 DEF LoneNext, Steady, ExclusionInv, Lone
  <1>8. ASSUME NEW q \in Runs, q # r
        PROVE  LoneNext(q) /\ \A h \in Tokens1 : NumberedNext(q, h) /\ EnteredNext(q, h)
    <2>1. \A h \in Tokens1 : task'[q][h] = task[q][h]
      BY <1>3, <1>8
    <2>. QED
      BY <1>2, <1>8, <2>1, SameRun
  <1>. QED
    BY <1>6, <1>7, <1>8 DEF ExclusionNext

\* The end of a process: its tasks leave, or wind up.
LEMMA ProcessExclusion ==
    ASSUME Steady, NEW i \in Instances, Shutdown(i) \/ Crash(i)
    PROVE  ExclusionNext
  <1>1. RegistryTypeOK
    BY DEF Steady, RegInv, TokenInv
  <1>2. UNCHANGED <<clock, status, owner, fence, lease>>
    BY DEF Shutdown, Crash, storeVars, hashVars
  <1>3. ASSUME NEW q \in Runs, NEW h \in Tokens1
        PROVE  /\ task'[q][h].pc \in Entering => task'[q][h] = task[q][h]
               /\ Started(task'[q][h]) => Started(task[q][h])
               /\ Alive(task'[q][h]) =>
                     Alive(task[q][h]) /\ task'[q][h].fence = task[q][h].fence
    <2>. DEFINE t == task[q][h]
                w == task'[q][h]
    <2>1. t \in Task
      BY <1>1, TaskType
    <2>2. w = t \/ w = Ended \/ (Alive(t) /\ w = Raise(t, "cancel"))
      BY DEF Shutdown, Crash, Newest
    <2>3. Ended.pc = "ended"
      BY DEF Ended, NoTask
    <2>4. Raise(t, "cancel").pc \notin Entering /\ Ended.pc \notin Entering
      BY <2>1, RaiseLeaves
    <2>5. Raise(t, "cancel") = Ended \/ Raise(t, "cancel").fence = t.fence
      BY <2>1 DEF Raise, Left, Task
    <2>. HIDE DEF t, w
    <2>. QED
      BY <2>2, <2>3, <2>4, <2>5 DEF Started, Alive, TryBlock, Handlers, t, w
  <1>4. ASSUME NEW q \in Runs, NEW h \in Tokens1, Overtaken(q, h)
        PROVE  OvertakenNext(q, h)
    <2>1. h + 1 \in Tokens1
      BY <1>4, Arithmetic DEF Overtaken, Tokens1
    <2>. QED
      BY <1>2, <1>3, <1>4, <2>1 DEF Overtaken, OvertakenNext
  <1>5. ASSUME NEW q \in Runs, NEW h \in Tokens1
        PROVE  NumberedNext(q, h)
    <2>1. Numbered(q, h)
      BY DEF Steady, ExclusionInv, Numbers
    <2>2. task'[q][h].pc = "load" => task'[q][h] = task[q][h]
      BY <1>3 DEF Entering
    <2>. QED
      BY <1>2, <1>3, <1>4, <2>1, <2>2 DEF Numbered, NumberedNext
  <1>6. ASSUME NEW q \in Runs, NEW h \in Tokens1
        PROVE  EnteredNext(q, h)
    BY <1>2, <1>3 DEF EnteredNext, HeldNext, Steady, ExclusionInv, Holders, Held
  <1>7. ASSUME NEW q \in Runs
        PROVE  LoneNext(q)
    BY <1>3 DEF LoneNext, Steady, ExclusionInv, Lone
  <1>. QED
    BY <1>5, <1>6, <1>7 DEF ExclusionNext

\* Time passes only when no handle is to be loaded and no heartbeat is due.
LEMMA TickExclusion ==
    ASSUME Steady, Tick
    PROVE  ExclusionNext
  <1>1. UNCHANGED <<task, status, owner, fence, lease>> /\ clock' = clock + 1
    BY DEF Tick, Advance, hashVars
  <1>2. ASSUME NEW q \in Runs, NEW h \in Tokens1
        PROVE  NumberedNext(q, h)
    <2>1. Numbered(q, h)
      BY DEF Steady, ExclusionInv, Numbers
    <2>2. Overtaken(q, h) => OvertakenNext(q, h)
      BY <1>1 DEF Overtaken, OvertakenNext
    <2>. QED
      BY <1>1, <2>1, <2>2 DEF Numbered, NumberedNext
  <1>3. ASSUME NEW q \in Runs, NEW h \in Tokens1
        PROVE  EnteredNext(q, h)
    <2>. SUFFICES ASSUME task[q][h].pc \in Entering, status[q] \notin Terminal
                  PROVE  HeldNext(q, h)
      BY <1>1 DEF EnteredNext
    <2>1. Held(q, h)
      BY DEF Steady, ExclusionInv, Holders
    <2>2. task[q][h].pc # "load"
      BY DEF Tick, Steady, Punctual
    <2>3. Alive(task[q][h])
      BY <2>2 DEF Alive, TryBlock, Handlers, Entering
    <2>4. task[q][h].due > clock
      BY <2>1, <2>2, <2>3 DEF Tick, Steady, Punctual, Held
    <2>5. clock' <= task[q][h].due /\ task[q][h].due <= clock' + HeartbeatEvery
      BY <1>1, <2>1, <2>2, <2>4, Arithmetic DEF Held
    <2>. QED
      BY <1>1, <2>1, <2>2, <2>5 DEF Held, HeldNext
  <1>4. ASSUME NEW q \in Runs
        PROVE  LoneNext(q)
    BY <1>1 DEF LoneNext, Steady, ExclusionInv, Lone
  <1>. QED
    BY <1>2, <1>3, <1>4 DEF ExclusionNext

LEMMA ExclusionInit == Init => ExclusionInv
  BY DEF Init, StoreInit, NoTask, ExclusionInv, Numbers, Numbered, Holders, Lone, Started,
     Alive, TryBlock, Handlers, Entering

LEMMA ExclusionStep ==
    ASSUME RegInv, ExclusionInv, Punctual, [Next]_vars
    PROVE  ExclusionInv'
  <1>1. Steady
    BY TableNext DEF Steady
  <1>2. CASE UNCHANGED vars
    <2>1. UNCHANGED <<task, clock, status, owner, fence, lease>>
      BY <1>2 DEF vars, storeVars, hashVars
    <2>2. \A q \in Runs :
             LoneNext(q) /\ \A h \in Tokens1 : NumberedNext(q, h) /\ EnteredNext(q, h)
      BY <1>1, <2>1, SameRun
    <2>. QED
      BY <2>2, ExclusionPrimed DEF ExclusionNext
  <1>3. CASE Tick
    BY <1>1, <1>3, TickExclusion, ExclusionPrimed
  <1>4. ASSUME NEW r \in Runs, NEW g \in Tokens1,
               Execute(r, g) \/ Produce(r, g) \/ RedisError(r, g) \/ Watch(r, g)
        PROVE  ExclusionNext
    BY <1>1, <1>4, BehindExclusion, ProducingExclusion, SlotExclusion, LoadExclusion
       DEF Behind, Execute, Produce
  <1>. QED
    BY <1>1, <1>2, <1>3, <1>4, GrantExclusion, RequestExclusion, ProcessExclusion,
       LoopExclusion, ExclusionPrimed DEF Next

\* What the lone holder means for the producers and the tokens.
LEMMA ExclusionImplies ==
    ASSUME RegInv, ExclusionInv
    PROVE  ExclusiveExecution
  <1>1. ASSUME NEW r \in Runs
        PROVE  Cardinality(Producing(r)) <= 1
    <2>1. CASE Producing(r) = {}
      BY <2>1, FS_EmptySet
    <2>2. CASE Producing(r) # {}
      <3>1. PICK g \in Tokens1 : task[r][g].pc = "produce"
        BY <2>2 DEF Producing
      <3>2. Producing(r) = {g}
        BY <3>1 DEF Producing, ExclusionInv, Lone, Entering
      <3>. QED
        BY <3>2, FS_Singleton
    <2>. QED
      BY <2>1, <2>2
  <1>2. ASSUME NEW r \in Runs, NEW g \in Tokens1, NEW h \in Tokens1, g # h,
               Alive(task[r][g]), Alive(task[r][h])
        PROVE  task[r][g].fence # task[r][h].fence
    <2>1. /\ task[r][g].fence = g \/ (task[r][g].fence = g + 1 /\ Overtaken(r, g))
          /\ task[r][h].fence = h \/ (task[r][h].fence = h + 1 /\ Overtaken(r, h))
      BY <1>2 DEF ExclusionInv, Numbers, Numbered
    <2>2. Started(task[r][g]) /\ Started(task[r][h])
      BY <1>2 DEF Started, Alive, TryBlock, Handlers
    <2>3. (Overtaken(r, g) => h # g + 1) /\ (Overtaken(r, h) => g # h + 1)
      BY <2>2 DEF Overtaken
    <2>4. g \in Nat /\ h \in Nat
      BY BoundsAssumption DEF Tokens1
    <2>. QED
      BY <1>2, <2>1, <2>3, <2>4
  <1>. QED
    BY <1>1, <1>2 DEF ExclusiveExecution, SingleProducer, TokenUnique

\* No split brain, for any number of runs, instances and takers, and although
\* processes stop and Redis calls fail or are lost: at most one task of a run is
\* in its producer, and no two live ones present the same token.  It takes event
\* loops that keep up, a lease loop whose load does not raise, and heartbeats
\* that come more often than the lease ends; the run split_brain shows what happens
\* when the load does raise.
THEOREM Exclusion ==
    ASSUME Prompt, ~LoopFaults, HeartbeatEvery < Lease
    PROVE  Spec => []ExclusiveExecution
  <1>1. Punctual
    BY DEF Punctual
  <1>2. RegInv /\ ExclusionInv /\ [Next]_vars => ExclusionInv'
    BY <1>1, ExclusionStep
  <1>3. RegInv /\ ExclusionInv => ExclusiveExecution
    BY ExclusionImplies
  <1>. QED
    BY <1>2, <1>3, ExclusionInit, RegistryInvariant, PTL DEF Spec
=============================================================================
