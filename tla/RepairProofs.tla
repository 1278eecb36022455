----------------------------- MODULE RepairProofs -----------------------------
(***************************************************************************)
(* Sessions of strong repair and the agent they may be delegated to.       *)
(* The external repair agent, for every number of launches, crashes and    *)
(* cancellations and for every allowance: paid work is not repeated, the   *)
(* allowance covers what was used, one task is active at a time, and a     *)
(* cancelled task stays cancelled.                                         *)
(***************************************************************************)
EXTENDS ExternalRepair, Repair, Integers, SequenceTheorems, FiniteSetTheorems, TLAPS

(* The exact types of the variables.                                       *)
Callers == [pc : {"idle", "poll", "timeout", "refused", "outage", "grade", "ended", "committed"},
            msg : 0 .. Launches, gen : 0 .. Launches]
Workers == [pc : {"idle", "begin", "think", "call", "exit"}, msg : Msgs]
States == Active \cup Terminal \cup {"none"}

Types ==
  /\ caller \in Callers
  /\ task \in [Msgs -> States]
  /\ improved \in [Msgs -> BOOLEAN]
  /\ pool \in Seq(Msgs)
  /\ worker \in Workers
  /\ starts \in [Msgs -> Nat]
  /\ charged \in 0 .. Limit
  /\ consumed \in Nat
  /\ up \in BOOLEAN
  /\ faults \in [crashes : Nat, cancels : Nat]

(* What is in the pool was admitted, has not been started and is there     *)
(* once; a message that was not admitted was not started either.           *)
Queued == \A k \in 1 .. Len(pool) : task[pool[k]] # "none" /\ starts[pool[k]] = 0
Distinct == \A j, k \in 1 .. Len(pool) : pool[j] = pool[k] => j = k
Untouched == \A m \in Msgs : task[m] = "none" => starts[m] = 0

(* A call that is under way has been charged already.                      *)
InFlight == IF worker.pc = "call" THEN Estimate ELSE 0
Covered == consumed + InFlight <= charged

IInv ==
  Types /\ Queued /\ Distinct /\ Untouched /\ RunsOnce /\ OneActive /\ Covered
-----------------------------------------------------------------------------
LEMMA MsgsType == Launches \in Nat /\ Msgs = 1 .. Launches /\ 1 \in Msgs
  BY ExternalConstants DEF Msgs

LEMMA IdleType == Idle \in Workers /\ Idle.pc = "idle"
  BY MsgsType DEF Idle, Workers

(* A new message is admitted when no task is active: the pool grows.       *)
Admits(m) ==
  /\ task[m] = "none" /\ ~Busy
  /\ task' = [task EXCEPT ![m] = "submitted"]
  /\ pool' = Append(pool, m)
  /\ starts' = starts

(* Tasks only end: none becomes active or is forgotten.                    *)
Fades ==
  /\ \A m \in Msgs : /\ task'[m] \in Active => task[m] \in Active
                     /\ task'[m] = "none" => task[m] = "none"
  /\ pool' = pool \/ pool' = <<>>
  /\ starts' = starts

TableStep == Fades \/ StartProcess \/ \E m \in Msgs : Admits(m)

LEMMA AdmitTable ==
  ASSUME Types, NEW m \in Msgs, Admit(m), UNCHANGED starts
  PROVE  Fades \/ Admits(m)
BY DEF Admit, Fades, Admits

LEMMA SettleFades ==
  ASSUME Types, NEW m \in Msgs, NEW state \in Terminal, Settle(m, state)
  PROVE  /\ task' \in [Msgs -> States]
         /\ \A n \in Msgs : /\ task'[n] \in Active => task[n] \in Active
                            /\ task'[n] = "none" => task[n] = "none"
                            /\ task[n] = "canceled" => task'[n] = "canceled"
<1>1. task \in [Msgs -> States]
  BY DEF Types
<1>2. state \in States /\ state \notin Active /\ state # "none"
  BY DEF States, Terminal, Active
<1>. QED
  BY <1>1, <1>2 DEF Settle

(* The steps that settle a task.                                           *)
Settles ==
  \/ \E n \in 0 .. Estimate, s \in {"failed", "completed"} : ProviderFails(n, s)
  \/ \E s \in {"failed", "completed", "input-required"} : Raises(s)
  \/ \E b \in BOOLEAN : Returns(b)
  \/ ProcessFails

LEMMA SettlesTask ==
  ASSUME Types, Settles
  PROVE  /\ worker.msg \in Msgs
         /\ \E state \in Terminal : Settle(worker.msg, state)
         /\ UNCHANGED <<pool, starts>>
<1>1. worker.msg \in Msgs
  BY DEF Types, Workers
<1>. QED
  BY <1>1 DEF Settles, ProviderFails, Raises, Returns, ProcessFails, Terminal

LEMMA TableNext ==
  ASSUME Types, [Next]_vars
  PROVE  TableStep
<1>1. task \in [Msgs -> States] /\ worker.msg \in Msgs
  BY DEF Types, Workers
<1>2. ASSUME UNCHANGED <<task, pool, starts>>
      PROVE  Fades
  BY <1>2 DEF Fades
<1>3. CASE Launch
  <2>1. caller.gen + 1 \in Msgs
    BY <1>3, MsgsType DEF Launch, Types, Callers
  <2>2. UNCHANGED starts /\ (Admit(caller.gen + 1) \/ UNCHANGED <<task, pool>>)
    BY <1>3 DEF Launch
  <2>. QED
    BY <1>2, <2>1, <2>2, AdmitTable DEF TableStep
<1>4. ASSUME NEW m \in Msgs, Redeliver(m)
      PROVE  TableStep
  BY <1>4, AdmitTable DEF Redeliver, TableStep
<1>5. ASSUME NEW m \in Msgs, Cancel(m)
      PROVE  Fades
  BY <1>1, <1>5 DEF Cancel, agent, Fades, Active
<1>6. CASE Begin
  <2>1. UNCHANGED <<pool, starts>>
    BY <1>6 DEF Begin
  <2>2. CASE UNCHANGED task
    BY <1>2, <2>1, <2>2 DEF TableStep
  <2>3. CASE task' = [task EXCEPT ![worker.msg] = IF @ = "submitted" THEN "working" ELSE @]
    <3>1. \A m \in Msgs : /\ task'[m] \in Active => task[m] \in Active
                          /\ task'[m] = "none" => task[m] = "none"
      BY <1>1, <2>3 DEF Active
    <3>. QED
      BY <2>1, <3>1 DEF Fades, TableStep
  <2>. QED
    BY <1>6, <2>2, <2>3 DEF Begin
<1>7. CASE Settles
  <2>1. PICK state \in Terminal : Settle(worker.msg, state)
    BY <1>7, SettlesTask
  <2>. QED
    BY <1>7, <2>1, SettlesTask, SettleFades DEF Fades, TableStep
<1>8. CASE Crash
  BY <1>8 DEF Crash, Fades, TableStep
<1>9. CASE Lifespan
  BY <1>1, <1>9 DEF Lifespan, agent, Fades, TableStep, Active
<1>10. CASE \/ Collect \/ GiveUp \/ Reserve \/ ProcessExits \/ UNCHANGED vars
            \/ \E b \in BOOLEAN : Grade(b)
            \/ \E n \in 0 .. Estimate, b \in BOOLEAN : Reply(n, b)
  <2>1. UNCHANGED <<task, pool, starts>>
    BY <1>10 DEF Collect, GiveUp, Reserve, ProcessExits, Grade, Reply, vars, agent
  <2>. QED
    BY <1>2, <2>1 DEF TableStep
<1>. QED
  BY <1>3, <1>4, <1>5, <1>6, <1>7, <1>8, <1>9, <1>10 DEF Next, Settles, TableStep

LEMMA TablePreserved ==
  ASSUME Types, Queued, Distinct, Untouched, RunsOnce, OneActive, TableStep
  PROVE  Queued' /\ Distinct' /\ Untouched' /\ RunsOnce' /\ OneActive'
<1>0. /\ task \in [Msgs -> States] /\ starts \in [Msgs -> Nat]
      /\ pool \in Seq(Msgs) /\ Len(pool) \in Nat
      /\ \A k \in 1 .. Len(pool) : pool[k] \in Msgs
  <2>1. pool \in Seq(Msgs)
    BY DEF Types
  <2>. QED
    BY <2>1, LenProperties DEF Types
<1>1. CASE Fades
  <2>1. /\ Len(pool') \in Nat
        /\ \A k \in 1 .. Len(pool') : k \in 1 .. Len(pool) /\ pool'[k] = pool[k]
    <3>1. CASE pool' = pool
      BY <1>0, <3>1
    <3>2. CASE pool' = <<>>
      BY <3>2
    <3>. QED
      BY <1>1, <3>1, <3>2 DEF Fades
  <2>2. Queued'
    BY <1>0, <1>1, <2>1 DEF Queued, Fades
  <2>3. Distinct'
    BY <2>1 DEF Distinct
  <2>. QED
    BY <1>1, <2>2, <2>3 DEF Fades, Untouched, RunsOnce, OneActive
<1>2. ASSUME NEW m \in Msgs, Admits(m)
      PROVE  Queued' /\ Distinct' /\ Untouched' /\ RunsOnce' /\ OneActive'
  <2>1. /\ task[m] = "none" /\ starts[m] = 0 /\ starts' = starts
        /\ task'[m] = "submitted" /\ \A n \in Msgs : n # m => task'[n] = task[n]
    BY <1>0, <1>2 DEF Admits, Untouched
  <2>2. /\ Len(pool') = Len(pool) + 1 /\ pool'[Len(pool) + 1] = m
        /\ \A k \in 1 .. Len(pool) : pool'[k] = pool[k]
    BY <1>0, <1>2, AppendProperties DEF Admits
  <2>3. \A k \in 1 .. Len(pool) : pool[k] # m
    BY <2>1 DEF Queued
  <2>4. \A k \in 1 .. Len(pool') : k = Len(pool) + 1 \/ k \in 1 .. Len(pool)
    BY <1>0, <2>2
  <2>5. Queued'
    BY <1>0, <2>1, <2>2, <2>3, <2>4 DEF Queued
  <2>6. Distinct'
    BY <1>0, <2>2, <2>3, <2>4 DEF Distinct
  <2>7. OneActive'
    BY <1>2, <2>1 DEF Admits, Busy, OneActive
  <2>. QED
    BY <2>1, <2>5, <2>6, <2>7 DEF Untouched, RunsOnce
<1>3. CASE StartProcess
  <2>. DEFINE m == Head(pool)
  <2>1. /\ pool # <<>> /\ pool' = Tail(pool) /\ UNCHANGED task
        /\ starts' = [starts EXCEPT ![m] = @ + 1]
    BY <1>3 DEF StartProcess
  <2>2. m = pool[1] /\ 1 \in 1 .. Len(pool)
    BY <1>0, <2>1, EmptySeq
  <2>3. /\ Len(pool') = Len(pool) - 1
        /\ \A k \in 1 .. Len(pool') : pool'[k] = pool[k + 1]
    BY <1>0, <2>1, HeadTailProperties
  <2>4. m \in Msgs /\ task[m] # "none" /\ starts[m] = 0
    BY <1>0, <2>2 DEF Queued
  <2>. HIDE DEF m
  <2>5. starts'[m] = 1 /\ \A n \in Msgs : n # m => starts'[n] = starts[n]
    BY <1>0, <2>1, <2>4
  <2>6. \A k \in 1 .. Len(pool') : k + 1 \in 1 .. Len(pool) /\ pool[k + 1] # m
    BY <1>0, <2>2, <2>3 DEF Distinct
  <2>7. Queued'
    BY <1>0, <2>1, <2>3, <2>5, <2>6 DEF Queued
  <2>8. Distinct'
    <3>1. SUFFICES ASSUME NEW j \in 1 .. Len(pool'), NEW k \in 1 .. Len(pool'), pool'[j] = pool'[k]
                   PROVE  j = k
      BY DEF Distinct
    <3>2. j + 1 \in 1 .. Len(pool) /\ k + 1 \in 1 .. Len(pool) /\ pool[j + 1] = pool[k + 1]
      BY <2>3, <2>6, <3>1
    <3>3. j + 1 = k + 1
      BY <3>2 DEF Distinct
    <3>. QED
      BY <1>0, <2>3, <3>3
  <2>9. Untouched' /\ RunsOnce'
    BY <2>1, <2>4, <2>5 DEF Untouched, RunsOnce
  <2>. QED
    BY <2>1, <2>7, <2>8, <2>9 DEF OneActive
<1>. QED
  BY <1>1, <1>2, <1>3 DEF TableStep
-----------------------------------------------------------------------------
(* The allowance.                                                          *)
LEMMA MoneyStep ==
  ASSUME Types, Covered, [Next]_vars
  PROVE  charged' \in 0 .. Limit /\ consumed' \in Nat /\ Covered'
<1>0. /\ charged \in 0 .. Limit /\ consumed \in Nat /\ Estimate \in Nat /\ Limit \in Nat
      /\ worker \in Workers
  BY ExternalConstants DEF Types
<1>1. Idle.pc = "idle"
  BY IdleType
<1>2. CASE Reserve
  <2>1. /\ worker.pc = "think" /\ worker'.pc = "call" /\ consumed' = consumed
        /\ charged' = charged + Estimate /\ charged + Estimate <= Limit
    BY <1>0, <1>2 DEF Reserve, Workers
  <2>. QED
    BY <1>0, <2>1 DEF Covered, InFlight
<1>3. ASSUME NEW n \in 0 .. Estimate, NEW b \in BOOLEAN, Reply(n, b)
      PROVE  charged' \in 0 .. Limit /\ consumed' \in Nat /\ Covered'
  <2>1. /\ worker.pc = "call" /\ worker'.pc = "think" /\ consumed' = consumed + n
        /\ charged' = IF b THEN charged + n - Estimate ELSE charged
    BY <1>0, <1>3 DEF Reply, Workers
  <2>2. consumed + Estimate <= charged
    BY <2>1 DEF Covered, InFlight
  <2>3. n \in Nat /\ n <= Estimate
    BY <1>0
  <2>4. charged' >= consumed + n /\ charged' <= charged /\ charged' \in Int
    BY <1>0, <2>1, <2>2, <2>3
  <2>. QED
    BY <1>0, <2>1, <2>3, <2>4 DEF Covered, InFlight
<1>4. ASSUME NEW n \in 0 .. Estimate, NEW s, ProviderFails(n, s)
      PROVE  charged' \in 0 .. Limit /\ consumed' \in Nat /\ Covered'
  <2>1. /\ worker.pc = "call" /\ worker'.pc = "exit" /\ consumed' = consumed + n
        /\ charged' = charged
    BY <1>0, <1>4 DEF ProviderFails, Workers
  <2>. QED
    BY <1>0, <2>1 DEF Covered, InFlight
<1>5. CASE ProcessFails \/ Crash
  <2>1. /\ worker'.pc = "idle" /\ charged' = charged
        /\ consumed' = IF worker.pc = "call" THEN consumed + Estimate ELSE consumed
    BY <1>1, <1>5 DEF ProcessFails, Crash
  <2>. QED
    BY <1>0, <2>1 DEF Covered, InFlight
<1>6. CASE \/ StartProcess \/ Begin \/ ProcessExits
           \/ \E s \in {"failed", "completed", "input-required"} : Raises(s)
           \/ \E b \in BOOLEAN : Returns(b)
  <2>1. UNCHANGED <<charged, consumed>>
    BY <1>6 DEF StartProcess, Begin, ProcessExits, Raises, Returns
  <2>2. worker.pc # "call" /\ worker'.pc # "call"
    BY <1>0, <1>1, <1>6 DEF StartProcess, Begin, ProcessExits, Raises, Returns, Workers
  <2>. QED
    BY <1>0, <2>1, <2>2 DEF Covered, InFlight
<1>7. CASE \/ Launch \/ Collect \/ GiveUp \/ Lifespan \/ UNCHANGED vars
           \/ \E m \in Msgs : Redeliver(m) \/ Cancel(m)
           \/ \E b \in BOOLEAN : Grade(b)
  <2>1. UNCHANGED <<charged, consumed, worker>>
    BY <1>7 DEF Launch, Collect, GiveUp, Lifespan, Redeliver, Cancel, Grade, vars, agent
  <2>. QED
    BY <1>0, <2>1 DEF Covered, InFlight
<1>. QED
  BY <1>2, <1>3, <1>4, <1>5, <1>6, <1>7 DEF Next

LEMMA TypesStep ==
  ASSUME Types, [Next]_vars
  PROVE  /\ caller' \in Callers /\ task' \in [Msgs -> States]
         /\ improved' \in [Msgs -> BOOLEAN] /\ pool' \in Seq(Msgs) /\ worker' \in Workers
         /\ starts' \in [Msgs -> Nat] /\ up' \in BOOLEAN
         /\ faults' \in [crashes : Nat, cancels : Nat]
<1>. DEFINE Goal == /\ caller' \in Callers /\ task' \in [Msgs -> States]
                    /\ improved' \in [Msgs -> BOOLEAN] /\ pool' \in Seq(Msgs)
                    /\ worker' \in Workers /\ starts' \in [Msgs -> Nat] /\ up' \in BOOLEAN
                    /\ faults' \in [crashes : Nat, cancels : Nat]
<1>0. /\ caller \in Callers /\ task \in [Msgs -> States] /\ improved \in [Msgs -> BOOLEAN]
      /\ pool \in Seq(Msgs) /\ worker \in Workers /\ starts \in [Msgs -> Nat]
      /\ up \in BOOLEAN /\ faults \in [crashes : Nat, cancels : Nat]
  BY DEF Types
<1>1. Idle \in Workers /\ <<>> \in Seq(Msgs)
  BY IdleType
<1>2. ASSUME NEW m \in Msgs, Admit(m)
      PROVE  task' \in [Msgs -> States] /\ pool' \in Seq(Msgs)
  <2>1. "submitted" \in States
    BY DEF States, Active
  <2>2. [task EXCEPT ![m] = "submitted"] \in [Msgs -> States]
    BY <1>0, <2>1
  <2>3. Append(pool, m) \in Seq(Msgs)
    BY <1>0, AppendProperties
  <2>. QED
    BY <1>0, <1>2, <2>2, <2>3 DEF Admit
<1>3. CASE Launch
  <2>1. caller.gen + 1 \in Msgs
    BY <1>3, MsgsType DEF Launch, Types, Callers
  <2>2. caller' \in Callers
    <3>1. /\ caller'.gen = caller.gen + 1
          /\ \E p \in {"refused", "poll", "outage"} :
                caller' = [pc |-> p, msg |-> caller.gen + 1, gen |-> caller.gen + 1]
      BY <1>3 DEF Launch
    <3>2. caller.gen + 1 \in 0 .. Launches
      BY <2>1, MsgsType
    <3>. QED
      BY <3>1, <3>2 DEF Callers
  <2>3. task' \in [Msgs -> States] /\ pool' \in Seq(Msgs)
    <3>1. Admit(caller.gen + 1) \/ UNCHANGED <<task, pool>>
      BY <1>3 DEF Launch
    <3>. QED
      BY <1>0, <1>2, <2>1, <3>1
  <2>. QED
    BY <1>0, <1>3, <2>2, <2>3 DEF Launch
<1>4. ASSUME NEW m \in Msgs, Redeliver(m)
      PROVE  Goal
  BY <1>0, <1>2, <1>4 DEF Redeliver
<1>5. CASE Collect \/ GiveUp \/ \E b \in BOOLEAN : Grade(b)
  <2>1. \E p \in {"grade", "ended", "timeout", "outage", "committed"} :
           caller' = [caller EXCEPT !.pc = p]
    BY <1>5 DEF Collect, GiveUp, Grade
  <2>2. caller' \in Callers
    BY <1>0, <2>1 DEF Callers
  <2>3. UNCHANGED <<task, improved, pool, worker, starts, up, faults>>
    BY <1>5 DEF Collect, GiveUp, Grade, agent
  <2>. QED
    BY <1>0, <2>2, <2>3
<1>6. ASSUME NEW m \in Msgs, Cancel(m)
      PROVE  Goal
  <2>1. task' \in [Msgs -> States]
    BY <1>0, <1>6 DEF Cancel, States, Terminal
  <2>2. faults' \in [crashes : Nat, cancels : Nat]
    <3>1. faults' = [faults EXCEPT !.cancels = faults.cancels + 1]
      BY <1>6 DEF Cancel
    <3>2. faults.cancels \in Nat
      BY <1>0
    <3>. QED
      BY <1>0, <3>1, <3>2
  <2>. QED
    BY <1>0, <1>6, <2>1, <2>2 DEF Cancel, agent
<1>7. CASE StartProcess
  <2>1. Head(pool) \in Msgs /\ Tail(pool) \in Seq(Msgs)
    BY <1>0, <1>7, HeadTailProperties DEF StartProcess
  <2>2. worker' \in Workers
    BY <1>7, <2>1 DEF StartProcess, Workers
  <2>3. starts' \in [Msgs -> Nat]
    BY <1>0, <1>7, <2>1 DEF StartProcess
  <2>. QED
    BY <1>0, <1>7, <2>1, <2>2, <2>3 DEF StartProcess
<1>8. CASE Begin
  <2>1. task' \in [Msgs -> States]
    BY <1>0, <1>8 DEF Begin, States, Active
  <2>2. worker' \in Workers
    BY <1>0, <1>1, <1>8 DEF Begin, Workers
  <2>. QED
    BY <1>0, <1>8, <2>1, <2>2 DEF Begin
<1>9. CASE Settles
  <2>1. task' \in [Msgs -> States]
    BY <1>9, SettlesTask, SettleFades
  <2>2. worker' \in Workers
    <3>1. worker' = Idle \/ worker' = [worker EXCEPT !.pc = "exit"]
      BY <1>9 DEF Settles, ProviderFails, Raises, Returns, ProcessFails
    <3>. QED
      BY <1>0, <1>1, <3>1 DEF Workers
  <2>3. improved' \in [Msgs -> BOOLEAN]
    BY <1>0, <1>9 DEF Settles, ProviderFails, Raises, Returns, ProcessFails
  <2>4. UNCHANGED <<caller, pool, starts, up, faults>>
    BY <1>9 DEF Settles, ProviderFails, Raises, Returns, ProcessFails
  <2>. QED
    BY <1>0, <2>1, <2>2, <2>3, <2>4
<1>10. CASE Reserve \/ ProcessExits \/ \E n \in 0 .. Estimate, b \in BOOLEAN : Reply(n, b)
  <2>1. \/ worker' = Idle \/ worker' = [worker EXCEPT !.pc = "call"]
        \/ worker' = [worker EXCEPT !.pc = "think"]
    BY <1>10 DEF Reserve, ProcessExits, Reply
  <2>2. worker' \in Workers
    BY <1>0, <1>1, <2>1 DEF Workers
  <2>3. UNCHANGED <<caller, task, improved, pool, starts, up, faults>>
    BY <1>10 DEF Reserve, ProcessExits, Reply
  <2>. QED
    BY <1>0, <2>2, <2>3
<1>11. CASE Crash
  <2>1. faults' \in [crashes : Nat, cancels : Nat]
    <3>1. faults' = [faults EXCEPT !.crashes = faults.crashes + 1]
      BY <1>11 DEF Crash
    <3>2. faults.crashes + 1 \in Nat
      <4>1. faults.crashes \in Nat
        BY <1>0
      <4>. QED
        BY <4>1
    <3>. QED
      BY <1>0, <3>1, <3>2
  <2>. QED
    BY <1>0, <1>1, <1>11, <2>1 DEF Crash
<1>12. CASE Lifespan
  <2>1. task' \in [Msgs -> States]
    BY <1>0, <1>12 DEF Lifespan, States, Terminal
  <2>. QED
    BY <1>0, <1>12, <2>1 DEF Lifespan, agent
<1>13. CASE UNCHANGED vars
  BY <1>0, <1>13 DEF vars
<1>. QED
  BY <1>3, <1>4, <1>5, <1>6, <1>7, <1>8, <1>9, <1>10, <1>11, <1>12, <1>13 DEF Next, Settles
-----------------------------------------------------------------------------
LEMMA InvInit == Init => IInv
<1>. SUFFICES ASSUME Init PROVE IInv
  OBVIOUS
<1>1. Types
  BY ExternalConstants, IdleType DEF Init, Types, Callers, States
<1>2. worker.pc = "idle" /\ Len(pool) = 0
  BY IdleType DEF Init
<1>3. Queued /\ Distinct
  BY <1>2 DEF Queued, Distinct
<1>4. Untouched /\ RunsOnce /\ OneActive
  BY DEF Init, Untouched, RunsOnce, OneActive, Active
<1>5. Covered
  BY <1>2 DEF Init, Covered, InFlight
<1>. QED
  BY <1>1, <1>3, <1>4, <1>5 DEF IInv

LEMMA InvNext == IInv /\ [Next]_vars => IInv'
<1>. SUFFICES ASSUME IInv, [Next]_vars PROVE IInv'
  OBVIOUS
<1>1. Types /\ Queued /\ Distinct /\ Untouched /\ RunsOnce /\ OneActive /\ Covered
  BY DEF IInv
<1>2. TableStep
  BY <1>1, TableNext
<1>3. Queued' /\ Distinct' /\ Untouched' /\ RunsOnce' /\ OneActive'
  BY <1>1, <1>2, TablePreserved
<1>4. charged' \in 0 .. Limit /\ consumed' \in Nat /\ Covered'
  BY <1>1, MoneyStep
<1>5. Types'
  BY <1>1, <1>4, TypesStep DEF Types
<1>. QED
  BY <1>3, <1>4, <1>5 DEF IInv

(* The pool holds each message at most once, so it is never longer than    *)
(* the messages there are.                                                 *)
LEMMA PoolBounded ==
  ASSUME Types, Distinct
  PROVE  Len(pool) <= Launches
<1>1. /\ pool \in Seq(Msgs) /\ Len(pool) \in Nat /\ pool \in [1 .. Len(pool) -> Msgs]
  BY LenProperties DEF Types
<1>2. pool \in Injection(1 .. Len(pool), Msgs)
  BY <1>1 DEF Injection, IsInjective, Distinct
<1>3. IsFiniteSet(Msgs) /\ Cardinality(Msgs) = Launches
  BY MsgsType, FS_Interval
<1>4. Cardinality(1 .. Len(pool)) = Len(pool)
  BY <1>1, FS_Interval
<1>. QED
  BY <1>2, <1>3, <1>4, FS_Injection

LEMMA InvSound == IInv => ExternalSound
<1>. SUFFICES ASSUME IInv PROVE ExternalSound
  OBVIOUS
<1>1. TypeOK
  BY PoolBounded DEF IInv, Types, TypeOK, Callers, Workers, States
<1>2. SpendCovered
  <2>1. consumed \in Nat /\ charged \in Int /\ InFlight \in Nat
    BY ExternalConstants DEF IInv, Types, InFlight
  <2>. QED
    BY <2>1 DEF IInv, Covered, SpendCovered
<1>. QED
  BY <1>1, <1>2 DEF IInv, ExternalSound

(* Redelivered messages, lost replies, killed workers and restarts of the  *)
(* service neither repeat paid work nor overdraw the allowance, for any    *)
(* number of them: the message is the key of the task table, the charge    *)
(* precedes the call, and a restart fails what was active.                 *)
THEOREM RepairSound == Spec => []ExternalSound
  BY InvInit, InvNext, InvSound, PTL DEF Spec

(* No step takes a cancelled task out of "canceled": not the worker that   *)
(* goes on, not its result, not its failure and not the restart.           *)
LEMMA CanceledStep ==
  ASSUME Types, [Next]_vars, NEW m \in Msgs, task[m] = "canceled"
  PROVE  task'[m] = "canceled"
<1>1. task \in [Msgs -> States] /\ worker.msg \in Msgs
  BY DEF Types, Workers
<1>2. CASE Settles
  BY <1>2, SettlesTask, SettleFades
<1>3. ASSUME NEW n \in Msgs, Admit(n)
      PROVE  task'[m] = "canceled"
  BY <1>1, <1>3 DEF Admit
<1>4. CASE Launch
  <2>1. caller.gen + 1 \in Msgs
    BY <1>4, MsgsType DEF Launch, Types, Callers
  <2>. QED
    BY <1>3, <1>4, <2>1 DEF Launch
<1>5. ASSUME NEW n \in Msgs, Redeliver(n) \/ Cancel(n)
      PROVE  task'[m] = "canceled"
  BY <1>1, <1>3, <1>5 DEF Redeliver, Cancel, Active
<1>6. CASE Begin \/ Lifespan
  BY <1>1, <1>6 DEF Begin, Lifespan, Active
<1>7. CASE \/ Collect \/ GiveUp \/ Reserve \/ ProcessExits \/ StartProcess \/ Crash
           \/ UNCHANGED vars
           \/ \E b \in BOOLEAN : Grade(b)
           \/ \E n \in 0 .. Estimate, b \in BOOLEAN : Reply(n, b)
  <2>1. UNCHANGED task
    BY <1>7 DEF Collect, GiveUp, Reserve, ProcessExits, StartProcess, Crash, Grade, Reply,
       vars, agent
  <2>. QED
    BY <2>1
<1>. QED
  BY <1>2, <1>4, <1>5, <1>6, <1>7 DEF Next, Settles

THEOREM CancellationStands == Spec => CanceledStays
<1>1. IInv /\ [Next]_vars => [\A m \in Msgs : task[m] = "canceled" => task'[m] = "canceled"]_vars
  BY CanceledStep DEF IInv
<1>. QED
  BY <1>1, InvInit, InvNext, PTL DEF Spec, CanceledStays

-----------------------------------------------------------------------------
(***************************************************************************)
(* Strong-repair sessions, for any host: any contents of the CAD files and *)
(* of the artifacts, any grades, any patience and any number of turns.  A  *)
(* cached assessment is one of the board with the candidate's artifacts    *)
(* (Cached), and the session commits only what it has rolled back to       *)
(* (Returned).                                                             *)
(***************************************************************************)
SessionHost(h) ==
  /\ 0 \in h.boards /\ 0 \in h.plans
  /\ h.patience \in Nat \ {0} /\ h.turns \in Nat

Pairing(h) == h.boards \X h.plans

SessionTypes(h) ==
  /\ pc \in {"turn", "finish", "commit", "write", "done"}
  /\ grade \in [Pairing(h) -> Session(h)!Grades]
  /\ cand \in Pairing(h) /\ saved \in Pairing(h)
  /\ stagnant \in 0 .. h.patience - 1 /\ turn \in 0 .. h.turns

Cached == last.valid => last.grade = grade[<<last.board, cand[2]>>]

Returned(h) ==
  /\ pc \in {"commit", "write"} =>
       cand = saved /\ Session(h)!Improves(best, grade[<<0, 0>>])
  /\ outcome = "committed" =>
       live = saved /\ Session(h)!Improves(best, grade[<<0, 0>>])
  /\ pc # "done" => outcome = "none"

SessionInv(h) ==
  /\ SessionTypes(h)
  /\ last.grade \in Session(h)!Grades /\ live \in Pairing(h) \cup {<<-1, 0>>}
  /\ outcome \in {"none", "kept", "committed", "refused", "overwrote"}
  /\ best = grade[saved]
  /\ Cached
  /\ Returned(h)

LEMMA SessionInit ==
  ASSUME NEW h, SessionHost(h), Session(h)!Init
  PROVE  SessionInv(h)
<1>1. <<0, 0>> \in Pairing(h)
  BY DEF SessionHost, Pairing
<1>2. grade \in [Pairing(h) -> Session(h)!Grades]
  BY DEF Session!Init, Session!Pairs, Pairing
<1>3. /\ pc = "turn" /\ live = <<0, 0>> /\ cand = <<0, 0>> /\ saved = <<0, 0>>
      /\ best = grade[<<0, 0>>] /\ stagnant = 0 /\ turn = 0 /\ outcome = "none"
      /\ last.valid = FALSE /\ last.grade = [errors |-> 0, open |-> 0, broken |-> "no"]
  BY DEF Session!Init, Session!Original, Session!NoGrade
<1>4. last.grade \in Session(h)!Grades
  BY <1>3 DEF Session!Grades
<1>5. SessionTypes(h)
  BY <1>1, <1>2, <1>3 DEF SessionTypes, SessionHost
<1>6. Cached /\ Returned(h)
  BY <1>3 DEF Cached, Returned
<1> QED
  BY <1>1, <1>3, <1>4, <1>5, <1>6 DEF SessionInv

(* What assess answers is what the host's checks find in the pair.         *)
LEMMA Assessed ==
  ASSUME NEW h, NEW pair \in Pairing(h), NEW cache, cache.valid => cache.grade = grade[<<cache.board, pair[2]>>]
  PROVE  Session(h)!Assess(pair, cache) = grade[pair]
<1>1. pair = <<pair[1], pair[2]>>
  BY DEF Pairing
<1> QED
  BY <1>1 DEF Session!Assess

LEMMA CachedFresh ==
  ASSUME NEW h, NEW pair \in Pairing(h), NEW G, last' = Session(h)!Cached(pair, G),
         G = grade[pair], grade' = grade, cand' = pair, G \in Session(h)!Grades
  PROVE  Cached' /\ last'.grade \in Session(h)!Grades
<1>1. last' = [board |-> pair[1], grade |-> G, valid |-> TRUE]
  BY DEF Session!Cached
<1>2. last'.board = pair[1] /\ last'.grade = G
  BY <1>1
<1>3. pair = <<pair[1], pair[2]>>
  BY DEF Pairing
<1> QED
  BY <1>2, <1>3 DEF Cached

LEMMA CachedNone ==
  ASSUME NEW h, last' = Session(h)!NoGrade
  PROVE  Cached' /\ last'.grade \in Session(h)!Grades
<1>1. last' = [board |-> 0, grade |-> [errors |-> 0, open |-> 0, broken |-> "no"], valid |-> FALSE]
  BY DEF Session!NoGrade
<1>2. last'.valid = FALSE /\ last'.grade = [errors |-> 0, open |-> 0, broken |-> "no"]
  BY <1>1
<1> QED
  BY <1>2 DEF Cached, Session!Grades

(* The steps that change neither candidate, snapshot, grades nor cache.    *)
LEMMA SessionIdle ==
  ASSUME NEW h, SessionInv(h), grade' = grade, cand' = cand, saved' = saved, best' = best, last' = last,
         stagnant' = stagnant, turn' \in 0 .. h.turns, pc = "turn", pc' \in {"turn", "finish"},
         live' = live, outcome' = outcome
  PROVE  SessionInv(h)'
<1>1. SessionTypes(h)'
  BY DEF SessionInv, SessionTypes
<1>2. Cached'
  BY DEF SessionInv, Cached
<1>3. outcome = "none"
  BY DEF SessionInv, Returned
<1>4. Returned(h)'
  BY <1>3 DEF Returned
<1> QED
  BY <1>1, <1>2, <1>4 DEF SessionInv

LEMMA SessionTurns ==
  ASSUME NEW h, SessionHost(h), SessionInv(h), Session(h)!Turn
  PROVE  pc = "turn" /\ turn' \in 0 .. h.turns /\ outcome = "none"
<1>1. pc = "turn" /\ turn < h.turns /\ turn' = turn + 1
  BY DEF Session!Turn
<1>2. turn \in 0 .. h.turns /\ h.turns \in Nat
  BY DEF SessionInv, SessionTypes, SessionHost
<1> QED
  BY <1>1, <1>2 DEF SessionInv, Returned

LEMMA SessionReports ==
  ASSUME NEW h, SessionHost(h), SessionInv(h), Session(h)!ReportComplete
  PROVE  SessionInv(h)'
<1>1. pc = "turn" /\ turn' \in 0 .. h.turns /\ outcome = "none"
  BY SessionTurns DEF Session!ReportComplete
<1>2. PICK G : G = grade[cand]
  OBVIOUS
<1>3. /\ best' = (IF Session(h)!Improves(G, best) THEN G ELSE best)
      /\ saved' = (IF Session(h)!Improves(G, best) THEN cand ELSE saved)
      /\ last' = Session(h)!Cached(cand, G)
      /\ pc' \in {"turn", "finish"}
      /\ grade' = grade /\ live' = live /\ cand' = cand /\ stagnant' = stagnant /\ outcome' = outcome
  BY <1>2 DEF Session!ReportComplete, Session!Checkpoint
<1>4. G \in Session(h)!Grades /\ cand \in Pairing(h)
  BY <1>2 DEF SessionInv, SessionTypes
<1>5. Cached' /\ last'.grade \in Session(h)!Grades
  BY <1>2, <1>3, <1>4, CachedFresh
<1>6. best' = grade'[saved'] /\ saved' \in Pairing(h)
  BY <1>2, <1>3, <1>4 DEF SessionInv, SessionTypes
<1>7. SessionTypes(h)'
  BY <1>1, <1>3, <1>4, <1>6 DEF SessionInv, SessionTypes
<1>8. Returned(h)'
  BY <1>1, <1>3 DEF Returned
<1> QED
  BY <1>3, <1>5, <1>6, <1>7, <1>8 DEF SessionInv

(* The two ways an edit that is not kept ends.                              *)
LEMMA SessionRollsBack ==
  ASSUME NEW h, SessionHost(h), SessionInv(h), Session(h)!Rollback, grade' = grade, saved' = saved, best' = best,
         stagnant' \in 0 .. h.patience - 1, turn' \in 0 .. h.turns, pc = "turn", pc' \in {"turn", "finish"},
         live' = live, outcome' = outcome
  PROVE  SessionInv(h)'
<1>1. cand' = saved /\ last' = Session(h)!NoGrade
  BY DEF Session!Rollback
<1>2. Cached' /\ last'.grade \in Session(h)!Grades
  BY <1>1, CachedNone
<1>3. SessionTypes(h)'
  BY <1>1 DEF SessionInv, SessionTypes
<1>4. outcome = "none"
  BY DEF SessionInv, Returned
<1>5. Returned(h)'
  BY <1>4 DEF Returned
<1> QED
  BY <1>2, <1>3, <1>5 DEF SessionInv

LEMMA SessionFails ==
  ASSUME NEW h, SessionHost(h), SessionInv(h), NEW target, Session(h)!ExecutionFails(target)
  PROVE  SessionInv(h)'
<1>1. Session(h)!Turn /\ Session(h)!Rollback
  BY DEF Session!ExecutionFails
<1>2. /\ pc' = pc /\ grade' = grade /\ live' = live /\ saved' = saved /\ best' = best
      /\ stagnant' = stagnant /\ outcome' = outcome
  BY DEF Session!ExecutionFails
<1>3. pc = "turn" /\ turn' \in 0 .. h.turns
  BY <1>1, SessionTurns
<1>4. stagnant' \in 0 .. h.patience - 1
  BY <1>2 DEF SessionInv, SessionTypes
<1> QED
  BY <1>1, <1>2, <1>3, <1>4, SessionRollsBack

LEMMA SessionExecutes ==
  ASSUME NEW h, SessionHost(h), SessionInv(h), NEW target \in Pairing(h), Session(h)!Execute(target)
  PROVE  SessionInv(h)'
<1>1. Session(h)!Turn
  BY DEF Session!Execute
<1>2. pc = "turn" /\ turn' \in 0 .. h.turns /\ outcome = "none"
  BY <1>1, SessionTurns
<1>3. PICK G : G = Session(h)!Assess(target, IF target[2] = cand[2] THEN last ELSE Session(h)!Edited(last))
  OBVIOUS
<1>4. /\ IF Session(h)!Improves(G, best)
         THEN /\ best' = G /\ saved' = target /\ cand' = target
              /\ last' = Session(h)!Cached(target, G) /\ stagnant' = 0
         ELSE Session(h)!Worse(target, G) /\ best' = best /\ saved' = saved
      /\ pc' \in {"turn", "finish"}
      /\ grade' = grade /\ live' = live /\ outcome' = outcome
  BY <1>2, <1>3 DEF Session!Execute, Session!Checkpoint
<1>5. G = grade[target]
  <2>1. CASE target[2] = cand[2]
    <3>1. last.valid => last.grade = grade[<<last.board, target[2]>>]
      BY <2>1 DEF SessionInv, Cached
    <3> QED
      BY <2>1, <3>1, <1>3, Assessed
  <2>2. CASE target[2] # cand[2]
    <3>1. PICK N : N = Session(h)!NoGrade
      OBVIOUS
    <3>2. N.valid = FALSE
      BY <3>1 DEF Session!NoGrade
    <3>3. G = Session(h)!Assess(target, N)
      BY <2>2, <3>1, <1>3 DEF Session!Edited
    <3> QED
      BY <3>2, <3>3, Assessed
  <2> QED
    BY <2>1, <2>2
<1>6. G \in Session(h)!Grades
  BY <1>5 DEF SessionInv, SessionTypes
<1>7. stagnant \in 0 .. h.patience - 1 /\ h.patience \in Nat \ {0}
  BY DEF SessionInv, SessionTypes, SessionHost
<1>8. ASSUME Session(h)!Improves(G, best)
      PROVE  SessionInv(h)'
  <2>1. /\ best' = G /\ saved' = target /\ cand' = target
        /\ last' = Session(h)!Cached(target, G) /\ stagnant' = 0
    BY <1>4, <1>8
  <2>2. Cached' /\ last'.grade \in Session(h)!Grades
    BY <1>4, <1>5, <1>6, <2>1, CachedFresh
  <2>3. SessionTypes(h)'
    BY <1>2, <1>4, <1>7, <2>1 DEF SessionInv, SessionTypes
  <2>4. Returned(h)'
    BY <1>2, <1>4 DEF Returned
  <2> QED
    BY <1>4, <1>5, <2>1, <2>2, <2>3, <2>4 DEF SessionInv
<1>9. ASSUME ~Session(h)!Improves(G, best)
      PROVE  SessionInv(h)'
  <2>1. Session(h)!Worse(target, G) /\ best' = best /\ saved' = saved
    BY <1>4, <1>9
  <2>2. CASE G.broken = "hard" \/ stagnant + 1 >= h.patience
    <3>1. Session(h)!Rollback /\ stagnant' = 0
      BY <2>1, <2>2 DEF Session!Worse
    <3>2. stagnant' \in 0 .. h.patience - 1
      BY <3>1, <1>7
    <3> QED
      BY <1>2, <1>4, <2>1, <3>1, <3>2, SessionRollsBack
  <2>3. CASE ~(G.broken = "hard" \/ stagnant + 1 >= h.patience)
    <3>1. stagnant' = stagnant + 1 /\ cand' = target /\ last' = Session(h)!Cached(target, G)
      BY <2>1, <2>3 DEF Session!Worse
    <3>2. Cached' /\ last'.grade \in Session(h)!Grades
      BY <1>4, <1>5, <1>6, <3>1, CachedFresh
    <3>3. stagnant' \in 0 .. h.patience - 1
      BY <3>1, <2>3, <1>7
    <3>4. SessionTypes(h)'
      BY <1>2, <1>4, <2>1, <3>1, <3>3 DEF SessionInv, SessionTypes
    <3>5. Returned(h)'
      BY <1>2, <1>4 DEF Returned
    <3> QED
      BY <1>4, <2>1, <3>2, <3>4, <3>5 DEF SessionInv
  <2> QED
    BY <2>2, <2>3
<1> QED
  BY <1>8, <1>9

LEMMA SessionFinishes ==
  ASSUME NEW h, SessionHost(h), SessionInv(h), Session(h)!Finish
  PROVE  SessionInv(h)'
<1>1. /\ pc = "finish" /\ cand' = saved /\ last' = Session(h)!NoGrade
      /\ grade' = grade /\ live' = live /\ saved' = saved /\ best' = best
      /\ stagnant' = stagnant /\ turn' = turn
  BY DEF Session!Finish, Session!Rollback
<1>2. \/ /\ Session(h)!Improves(best, grade[<<0, 0>>])
         /\ pc' = "commit" /\ outcome' = outcome
      \/ pc' = "done" /\ outcome' = "kept"
  BY DEF Session!Finish, Session!Original
<1>3. Cached' /\ last'.grade \in Session(h)!Grades
  BY <1>1, CachedNone
<1>4. outcome = "none"
  BY <1>1 DEF SessionInv, Returned
<1>5. SessionTypes(h)'
  BY <1>1, <1>2 DEF SessionInv, SessionTypes
<1>6. Returned(h)'
  <2>1. Session(h)!Improves(best', grade'[<<0, 0>>]) <=> Session(h)!Improves(best, grade[<<0, 0>>])
    BY <1>1
  <2> QED
    BY <1>1, <1>2, <1>4, <2>1 DEF Returned
<1> QED
  BY <1>1, <1>2, <1>3, <1>4, <1>5, <1>6 DEF SessionInv

(* commit: the candidate is what the session returned to, and its grade    *)
(* does not change while the checks run.                                   *)
LEMMA SessionCommits ==
  ASSUME NEW h, SessionHost(h), SessionInv(h), Session(h)!Commit \/ Session(h)!Write
  PROVE  SessionInv(h)'
<1>0. SessionTypes(h) /\ Cached /\ Returned(h) /\ best = grade[saved]
  BY DEF SessionInv
<1>1. CASE Session(h)!Commit
  <2>1. /\ pc = "commit" /\ last' = Session(h)!Cached(cand, Session(h)!Assess(cand, last))
        /\ grade' = grade /\ live' = live /\ cand' = cand /\ saved' = saved /\ best' = best
        /\ stagnant' = stagnant /\ turn' = turn
        /\ \/ pc' = "write" /\ outcome' = outcome
           \/ pc' = "done" /\ outcome' = "refused"
    BY <1>1 DEF Session!Commit
  <2>2. PICK G : G = Session(h)!Assess(cand, last)
    OBVIOUS
  <2>3. cand \in Pairing(h) /\ grade[cand] \in Session(h)!Grades
    BY <1>0 DEF SessionTypes
  <2>4. G = grade[cand]
    BY <1>0, <2>2, <2>3, Assessed DEF Cached
  <2>5. Cached' /\ last'.grade \in Session(h)!Grades
    BY <2>1, <2>2, <2>3, <2>4, CachedFresh
  <2>6. SessionTypes(h)'
    BY <1>0, <2>1 DEF SessionTypes
  <2>7. Session(h)!Improves(best', grade'[<<0, 0>>]) <=> Session(h)!Improves(best, grade[<<0, 0>>])
    BY <2>1
  <2>8. Returned(h)'
    BY <1>0, <2>1, <2>7 DEF Returned
  <2> QED
    BY <1>0, <2>1, <2>5, <2>6, <2>8 DEF SessionInv
<1>2. CASE Session(h)!Write
  <2>1. /\ pc = "write" /\ live' = cand /\ pc' = "done"
        /\ outcome' \in {"committed", "overwrote"}
        /\ grade' = grade /\ cand' = cand /\ saved' = saved /\ best' = best /\ last' = last
        /\ stagnant' = stagnant /\ turn' = turn
    BY <1>2 DEF Session!Write
  <2>2. Session(h)!Improves(best', grade'[<<0, 0>>]) <=> Session(h)!Improves(best, grade[<<0, 0>>])
    BY <2>1
  <2>3. Returned(h)'
    BY <1>0, <2>1, <2>2 DEF Returned
  <2>4. SessionTypes(h)' /\ live' \in Pairing(h)
    BY <1>0, <2>1 DEF SessionTypes
  <2>5. Cached'
    BY <1>0, <2>1 DEF Cached
  <2> QED
    BY <1>0, <2>1, <2>3, <2>4, <2>5 DEF SessionInv
<1> QED
  BY <1>1, <1>2

LEMMA SessionStep ==
  ASSUME NEW h, SessionHost(h), SessionInv(h), [Session(h)!Next]_(Session(h)!vars)
  PROVE  SessionInv(h)'
<1>0. turn \in 0 .. h.turns
  BY DEF SessionInv, SessionTypes
<1>1. CASE Session(h)!Observe
  <2>1. Session(h)!Turn
    BY <1>1 DEF Session!Observe
  <2>2. pc = "turn" /\ turn' \in 0 .. h.turns
    BY <2>1, SessionTurns
  <2> QED
    BY <1>1, <2>2, SessionIdle DEF Session!Observe
<1>2. CASE Session(h)!Stop
  BY <1>0, <1>2, SessionIdle DEF Session!Stop
<1>3. CASE Session(h)!TurnLimit
  BY <1>0, <1>3, SessionIdle DEF Session!TurnLimit
<1>4. CASE Session(h)!ReportComplete
  BY <1>4, SessionReports
<1>5. CASE Session(h)!Finish
  BY <1>5, SessionFinishes
<1>6. CASE Session(h)!Commit \/ Session(h)!Write
  BY <1>6, SessionCommits
<1>7. ASSUME NEW target \in Session(h)!Pairs, Session(h)!Execute(target) \/ Session(h)!ExecutionFails(target)
      PROVE  SessionInv(h)'
  <2>1. target \in Pairing(h)
    BY DEF Session!Pairs, Pairing
  <2> QED
    BY <1>7, <2>1, SessionExecutes, SessionFails
<1>8. CASE Session(h)!Meddle
  <2>1. /\ pc # "done" /\ live' = <<-1, 0>>
        /\ pc' = pc /\ grade' = grade /\ cand' = cand /\ saved' = saved /\ best' = best /\ last' = last
        /\ stagnant' = stagnant /\ turn' = turn /\ outcome' = outcome
    BY <1>8 DEF Session!Meddle, Session!Newer
  <2>2. Session(h)!Improves(best', grade'[<<0, 0>>]) <=> Session(h)!Improves(best, grade[<<0, 0>>])
    BY <2>1
  <2>3. Returned(h)'
    BY <2>1, <2>2 DEF SessionInv, Returned
  <2>4. SessionTypes(h)' /\ Cached'
    BY <2>1 DEF SessionInv, SessionTypes, Cached
  <2> QED
    BY <2>1, <2>3, <2>4 DEF SessionInv
<1>9. CASE UNCHANGED Session(h)!vars
  <2>1. /\ pc' = pc /\ grade' = grade /\ live' = live /\ cand' = cand /\ saved' = saved /\ best' = best
        /\ last' = last /\ stagnant' = stagnant /\ turn' = turn /\ outcome' = outcome
    BY <1>9 DEF Session!vars
  <2>2. Session(h)!Improves(best', grade'[<<0, 0>>]) <=> Session(h)!Improves(best, grade[<<0, 0>>])
    BY <2>1
  <2>3. Returned(h)'
    BY <2>1, <2>2 DEF SessionInv, Returned
  <2>4. SessionTypes(h)' /\ Cached'
    BY <2>1 DEF SessionInv, SessionTypes, Cached
  <2> QED
    BY <2>1, <2>3, <2>4 DEF SessionInv
<1> QED
  BY <1>1, <1>2, <1>3, <1>4, <1>5, <1>6, <1>7, <1>8, <1>9 DEF Session!Next

LEMMA SessionGoal ==
  ASSUME NEW h, SessionHost(h), SessionInv(h)
  PROVE  Session(h)!SessionSound
<1>1. best \in Session(h)!Grades
  BY DEF SessionInv, SessionTypes
<1>2. Session(h)!TypeOK
  BY <1>1 DEF SessionInv, SessionTypes, Pairing, Session!TypeOK, Session!Pairs, Session!Newer
<1>3. Session(h)!BestIsSaved
  BY DEF SessionInv, Session!BestIsSaved
<1>4. Session(h)!CommitImproves
  BY DEF SessionInv, Returned, Session!CommitImproves, Session!Original
<1> QED
  BY <1>2, <1>3, <1>4 DEF Session!SessionSound

(* Whatever a session tries, grades, caches and rolls back, and whatever    *)
(* somebody else saves meanwhile: the snapshot it returns to is the pair    *)
(* its best assessment was made for, and what it commits improves on what   *)
(* it found, by the host's checks, and breaks no constraint (SessionSound). *)
THEOREM SessionsSound ==
  ASSUME SessionHost(JointHost), SessionHost(PatientHost)
  PROVE  RepairSpec => []SessionSound
<1>1. Session(JointHost)!Init => SessionInv(JointHost)
  BY SessionInit
<1>2. SessionInv(JointHost) /\ [Session(JointHost)!Next]_(Session(JointHost)!vars) => SessionInv(JointHost)'
  BY SessionStep
<1>3. Session(PatientHost)!Init => SessionInv(PatientHost)
  BY SessionInit
<1>4. SessionInv(PatientHost) /\ [Session(PatientHost)!Next]_(Session(PatientHost)!vars) => SessionInv(PatientHost)'
  BY SessionStep
<1>5. part = "session" /\ [part' = part]_part => (part = "session")'
  OBVIOUS
<1>6. ~(part = "session") /\ [part' = part]_part => (~(part = "session"))'
  OBVIOUS
<1>7. part = "patient" /\ [part' = part]_part => (part = "patient")'
  OBVIOUS
<1>8. ~(part = "patient") /\ [part' = part]_part => (~(part = "patient"))'
  OBVIOUS
<1>9. /\ part = "session" => SessionInv(JointHost)
      /\ part = "patient" => SessionInv(PatientHost)
      => SessionSound
  BY SessionGoal DEF SessionSound
<1> QED
  BY <1>1, <1>2, <1>3, <1>4, <1>5, <1>6, <1>7, <1>8, <1>9, PTL DEF RepairSpec, Session!Spec

=============================================================================
