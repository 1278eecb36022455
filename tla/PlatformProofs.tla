--------------------------- MODULE PlatformProofs ---------------------------
(***************************************************************************)
(* Proofs about the components around the pipeline.  The theorems hold for *)
(* every value of the constants that the hypotheses name.                  *)
(***************************************************************************)
EXTENDS Platform, Integers, FiniteSetTheorems, WellFoundedInduction, SequencesExt, TLAPS

-----------------------------------------------------------------------------
Statuses == Memory!Terminal \cup {"absent", "queued", "running", "waiting"}
Kinds == {"data", "done", "error", "question"}
RunRecords ==
  [status : Statuses, gen : Nat \ {0}, log : Seq(Kinds),
   emitted : BOOLEAN, broken : BOOLEAN, done : BOOLEAN, answered : SUBSET Answers, by : Nat]
Locations == {"new", "sem", "run", "paused", "over"}
TaskRecords == [pc : Locations, cut : BOOLEAN, data : Nat]
Subscriptions ==
  [pc : {"off", "gap", "poll", "deliver", "closed"}, cursor : Nat, batch : Nat,
   ends : BOOLEAN, got : Seq(Nat \ {0})]

RunShape(r, R, T, S, L) ==
  /\ R \in RunRecords /\ T \in Seq(TaskRecords) /\ S \in Subscriptions
  /\ IsFiniteSet(R.answered) /\ R.gen = 1 + Cardinality(R.answered)
  /\ R.status = "absent" => T = <<>> /\ S = Memory!NoSub
  /\ R.status # "absent" => Len(T) = R.gen
  /\ r \in L => R.status \in Memory!Terminal

EmittedOK(R) ==
  R.emitted => /\ \E i \in DOMAIN R.log : R.log[i] = "done"
               /\ R.log[Len(R.log)] \in {"done", "error"}

LogOK(r, R) ==
  /\ EmittedOK(R)
  /\ r \in StreamRuns /\ R.status \in Memory!Terminal => R.emitted
  /\ R.status = "waiting" => R.log # <<>> /\ R.log[Len(R.log)] = "question"

(* What an earlier generation that failed late can spoil. *)
TasksOK(R, T) ==
  /\ R.done <=> R.status \in Memory!Terminal
  /\ R.done /\ R.status # "cancelled" => R.by = R.gen
  /\ \A g \in DOMAIN T : g < R.gen => T[g].pc \in {"paused", "over"}
  /\ R.status = "running" => T[R.gen].pc = "run"
  /\ R.status = "waiting" => T[R.gen].pc \in {"paused", "over"}
  /\ R.status = "queued" => \/ T[R.gen].pc \in {"new", "sem"}
                            \/ T[R.gen].pc = "over" /\ T[R.gen].cut

Ending(k) == k \in {"done", "error", "question"}

SubOK(r, R, S) ==
  /\ \A i, j \in DOMAIN S.got : i < j => S.got[i] < S.got[j]
  /\ \A i \in DOMAIN S.got : S.got[i] <= S.cursor
  /\ S.pc \in {"poll", "deliver", "closed"} =>
       /\ r \in StreamRuns /\ S.cursor <= Len(R.log) /\ S.batch <= Len(R.log)
       /\ (S.pc # "deliver" \/ S.cursor = S.batch) /\ S.got # <<>> =>
            S.cursor = S.got[Len(S.got)]
  /\ S.pc = "deliver" =>
       /\ S.cursor <= S.batch
       /\ S.ends /\ S.batch = Len(R.log) /\ R.log # <<>> => Ending(R.log[Len(R.log)])
  /\ S.pc = "closed" /\ S.got # <<>> => Ending(R.log[S.cursor])

RunInv(r, R, T, S, L) ==
  /\ RunShape(r, R, T, S, L) /\ LogOK(r, R) /\ SubOK(r, R, S)
  /\ r \notin L => TasksOK(R, T)

MemoryInv ==
  /\ waiting \subseteq Runs
  /\ rec = [r \in Runs |-> rec[r]] /\ task = [r \in Runs |-> task[r]]
  /\ sub = [r \in Runs |-> sub[r]]
  /\ \A r \in Runs : RunInv(r, rec[r], task[r], sub[r], waiting)

LEMMA SetTask ==
  ASSUME NEW T \in Seq(TaskRecords), NEW g \in DOMAIN T, NEW t \in TaskRecords
  PROVE  LET T2 == [T EXCEPT ![g] = t]
         IN  /\ T2 \in Seq(TaskRecords) /\ Len(T2) = Len(T) /\ DOMAIN T2 = DOMAIN T
             /\ T2[g] = t /\ \A h \in DOMAIN T : h # g => T2[h] = T[h]
  OBVIOUS

(* A task moves to another program location. *)
Moved(T, g, p) == [T EXCEPT ![g].pc = p]

LEMMA MovedIs ==
  ASSUME NEW T \in Seq(TaskRecords), NEW g \in DOMAIN T, NEW p \in Locations,
         NEW U, U = Moved(T, g, p)
  PROVE  /\ U \in Seq(TaskRecords) /\ Len(U) = Len(T) /\ DOMAIN U = DOMAIN T
         /\ U[g].pc = p /\ U[g].cut = T[g].cut
         /\ \A h \in DOMAIN T : h # g => U[h] = T[h]
<1>1. T[g] \in TaskRecords
  OBVIOUS
<1>2. PICK t : t = [T[g] EXCEPT !.pc = p]
  OBVIOUS
<1>3. t \in TaskRecords /\ t.pc = p /\ t.cut = T[g].cut
  BY <1>1, <1>2 DEF TaskRecords, Locations
<1>4. U = [T EXCEPT ![g] = t]
  BY <1>2 DEF Moved
<1> QED
  BY <1>3, <1>4, SetTask

-----------------------------------------------------------------------------
(* Operators on records. *)

LEMMA Append1Is ==
  ASSUME NEW R \in RunRecords, NEW k \in Kinds
  PROVE  LET Q == Memory!Append1(R, k)
         IN  /\ Q \in RunRecords
             /\ Q.status = R.status /\ Q.gen = R.gen /\ Q.done = R.done
             /\ Q.broken = R.broken /\ Q.answered = R.answered /\ Q.by = R.by
             /\ Q.log = Append(R.log, k) /\ (Q.emitted <=> R.emitted \/ k = "done")
<1>1. PICK l : l = Append(R.log, k)
  OBVIOUS
<1>2. PICK e \in BOOLEAN : e <=> R.emitted \/ k = "done"
  OBVIOUS
<1>3. Memory!Append1(R, k) = [R EXCEPT !.log = l, !.emitted = e]
  <2>1. (R.emitted \/ k = "done") = e
    BY <1>2
  <2> QED
    BY <1>1, <2>1 DEF Memory!Append1
<1>4. l \in Seq(Kinds)
  BY <1>1 DEF RunRecords
<1>5. PICK Q : Q = [R EXCEPT !.log = l, !.emitted = e]
  OBVIOUS
<1>6. /\ Q \in RunRecords
      /\ Q.status = R.status /\ Q.gen = R.gen /\ Q.done = R.done
      /\ Q.broken = R.broken /\ Q.answered = R.answered /\ Q.by = R.by
      /\ Q.log = l /\ Q.emitted = e
  BY <1>4, <1>5 DEF RunRecords
<1> QED
  BY <1>1, <1>2, <1>3, <1>5, <1>6

Extends(l, m) == Len(l) <= Len(m) /\ \A i \in DOMAIN l : m[i] = l[i]

(* An error, a DONE or anything else at the end of a log. *)
LEMMA Appended ==
  ASSUME NEW l \in Seq(Kinds), NEW k \in Kinds
  PROVE  /\ Append(l, k) \in Seq(Kinds) /\ Extends(l, Append(l, k))
         /\ Len(Append(l, k)) = Len(l) + 1 /\ Append(l, k) # <<>>
         /\ Append(l, k)[Len(Append(l, k))] = k
         /\ Len(l) + 1 \in DOMAIN Append(l, k)
  BY DEF Extends

LEMMA ExtendsTwice ==
  ASSUME NEW l \in Seq(Kinds), NEW m \in Seq(Kinds), NEW n \in Seq(Kinds),
         Extends(l, m), Extends(m, n)
  PROVE  Extends(l, n)
  BY DEF Extends

LEMMA AppendEmits ==
  ASSUME NEW R \in RunRecords, NEW k \in {"done", "error"}, EmittedOK(R)
  PROVE  /\ EmittedOK(Memory!Append1(R, k)) /\ Extends(R.log, Memory!Append1(R, k).log)
         /\ k = "done" => Memory!Append1(R, k).emitted
<1>1. k \in Kinds /\ R.log \in Seq(Kinds)
  BY DEF Kinds, RunRecords
<1> DEFINE Q == Memory!Append1(R, k)
<1>2. Q.log = Append(R.log, k) /\ (Q.emitted <=> R.emitted \/ k = "done")
  BY <1>1, Append1Is
<1> HIDE DEF Q
<1>3. EmittedOK(Q)
  <2> SUFFICES ASSUME Q.emitted PROVE \E i \in DOMAIN Q.log : Q.log[i] = "done"
    BY <1>1, <1>2, Appended DEF EmittedOK
  <2>1. CASE k = "done"
    BY <1>1, <1>2, <2>1, Appended
  <2>2. CASE k # "done"
    <3>1. PICK i \in DOMAIN R.log : R.log[i] = "done"
      BY <1>2, <2>2 DEF EmittedOK
    <3>2. Q.log[i] = "done" /\ i \in DOMAIN Q.log
      BY <1>1, <1>2, <3>1
    <3> QED
      BY <3>2
  <2> QED
    BY <2>1, <2>2
<1> QED
  BY <1>1, <1>2, <1>3, Appended DEF Q

LEMMA WithErrorIs ==
  ASSUME NEW r, NEW R \in RunRecords, EmittedOK(R)
  PROVE  LET Q == Memory!WithError(r, R)
         IN  /\ Q \in RunRecords
             /\ Q.status = R.status /\ Q.gen = R.gen /\ Q.answered = R.answered
             /\ EmittedOK(Q) /\ Extends(R.log, Q.log)
             /\ r \in StreamRuns => Q.emitted
<1>0. R.log \in Seq(Kinds)
  BY DEF RunRecords
<1>1. CASE r \notin StreamRuns
  BY <1>0, <1>1 DEF Memory!WithError, Extends
<1>2. CASE r \in StreamRuns
  <2>1. PICK E : E = Memory!Append1(R, "error")
    OBVIOUS
  <2>2. /\ E \in RunRecords /\ E.log \in Seq(Kinds)
        /\ E.status = R.status /\ E.gen = R.gen /\ E.answered = R.answered
        /\ EmittedOK(E) /\ Extends(R.log, E.log)
    BY <2>1, Append1Is, AppendEmits DEF Kinds, RunRecords
  <2>3. PICK D : D = Memory!Append1(E, "done")
    OBVIOUS
  <2>4. /\ D \in RunRecords /\ D.log \in Seq(Kinds)
        /\ D.status = E.status /\ D.gen = E.gen /\ D.answered = E.answered
        /\ EmittedOK(D) /\ Extends(E.log, D.log) /\ D.emitted
    BY <2>2, <2>3, Append1Is, AppendEmits DEF Kinds, RunRecords
  <2>5. Extends(R.log, D.log)
    BY <1>0, <2>2, <2>4, ExtendsTwice
  <2>6. Memory!WithError(r, R) = IF E.emitted THEN E ELSE D
    BY <1>2, <2>1, <2>3 DEF Memory!WithError
  <2>7. CASE E.emitted
    BY <2>2, <2>6, <2>7
  <2>8. CASE ~E.emitted
    BY <2>2, <2>4, <2>5, <2>6, <2>8
  <2> QED
    BY <2>7, <2>8
<1> QED
  BY <1>1, <1>2

-----------------------------------------------------------------------------
(* What each kind of step does to one run. *)

(* The subscription loses nothing when the log grows. *)
LEMMA LogGrows ==
  ASSUME NEW r, NEW R \in RunRecords, NEW Q \in RunRecords, NEW S \in Subscriptions,
         SubOK(r, R, S), Extends(R.log, Q.log)
  PROVE  SubOK(r, Q, S)
<1>1. R.log \in Seq(Kinds) /\ Q.log \in Seq(Kinds)
  BY DEF RunRecords
<1>2. S.cursor \in Nat /\ S.batch \in Nat /\ S.got \in Seq(Nat \ {0})
  BY DEF Subscriptions
<1>3. Len(R.log) <= Len(Q.log) /\ Len(R.log) \in Nat /\ Len(Q.log) \in Nat
  BY <1>1 DEF Extends
<1>4. S.batch <= Len(R.log) /\ S.batch = Len(Q.log) => Q.log = R.log
  BY <1>1, <1>2, <1>3 DEF Extends
<1>5. S.pc = "deliver" =>
       /\ S.cursor <= S.batch
       /\ S.ends /\ S.batch = Len(Q.log) /\ Q.log # <<>> => Ending(Q.log[Len(Q.log)])
  BY <1>4 DEF SubOK
<1>6. S.pc = "closed" /\ S.got # <<>> => Ending(Q.log[S.cursor])
  <2> SUFFICES ASSUME S.pc = "closed", S.got # <<>> PROVE Q.log[S.cursor] = R.log[S.cursor]
    BY DEF SubOK
  <2>1. S.cursor = S.got[Len(S.got)] /\ S.cursor <= Len(R.log)
    BY DEF SubOK
  <2>2. S.cursor \in Nat \ {0}
    BY <1>2, <2>1
  <2> QED
    BY <1>1, <2>1, <2>2 DEF Extends
<1> QED
  BY <1>2, <1>3, <1>5, <1>6 DEF SubOK

(* Only the tasks change. *)
LEMMA TasksMove ==
  ASSUME NEW r, NEW R, NEW T, NEW S, NEW L, RunInv(r, R, T, S, L),
         NEW T2 \in Seq(TaskRecords), Len(T2) = Len(T), r \notin L => TasksOK(R, T2)
  PROVE  RunInv(r, R, T2, S, L)
<1>1. T2 = <<>> <=> T = <<>>
  BY DEF RunInv, RunShape
<1> QED
  BY <1>1 DEF RunInv, RunShape

(* A task, or a cancellation, ends the run. *)
LEMMA RunEnds ==
  ASSUME NEW r, NEW R, NEW T, NEW S, NEW L, NEW L2, RunInv(r, R, T, S, L),
         R.status # "absent",
         NEW Q \in RunRecords, Q.status \in Memory!Terminal, Q.done,
         Q.gen = R.gen, Q.answered = R.answered,
         EmittedOK(Q), Extends(R.log, Q.log), r \in StreamRuns => Q.emitted,
         r \notin L2 => r \notin L /\ (Q.status # "cancelled" => Q.by = Q.gen),
         NEW T2 \in Seq(TaskRecords), Len(T2) = Len(T),
         \A h \in DOMAIN T : T2[h] = T[h] \/ T2[h].pc = "over"
  PROVE  RunInv(r, Q, T2, S, L2)
<1>0. /\ R \in RunRecords /\ T \in Seq(TaskRecords) /\ S \in Subscriptions
      /\ IsFiniteSet(R.answered) /\ R.gen = 1 + Cardinality(R.answered) /\ Len(T) = R.gen
  BY DEF RunInv, RunShape
<1>1. /\ Q.status \notin {"absent", "waiting", "queued", "running"}
      /\ Q.status \in Statuses
  BY DEF Memory!Terminal, Statuses
<1>2. RunShape(r, Q, T2, S, L2)
  BY <1>0, <1>1 DEF RunShape
<1>3. LogOK(r, Q)
  BY <1>1 DEF LogOK
<1>4. SubOK(r, Q, S)
  BY <1>0, LogGrows DEF RunInv
<1>5. r \notin L2 => TasksOK(Q, T2)
  <2> SUFFICES ASSUME r \notin L2 PROVE TasksOK(Q, T2)
    OBVIOUS
  <2>1. \A h \in DOMAIN T2 : h < Q.gen => T2[h].pc \in {"paused", "over"}
    <3>1. DOMAIN T2 = DOMAIN T
      BY <1>0
    <3>2. \A h \in DOMAIN T : h < R.gen => T[h].pc \in {"paused", "over"}
      BY DEF RunInv, TasksOK
    <3> QED
      BY <3>1, <3>2
  <2> QED
    BY <1>1, <2>1 DEF TasksOK
<1> QED
  BY <1>2, <1>3, <1>4, <1>5 DEF RunInv

LEMMA AcquireKeeps ==
  ASSUME NEW r, NEW R, NEW T, NEW S, NEW L, RunInv(r, R, T, S, L), NEW g \in DOMAIN T,
         T[g].pc = "sem", R.gen = g, R.status = "queued"
  PROVE  RunInv(r, [R EXCEPT !.status = "running"], Moved(T, g, "run"), S, L)
<1>1. PICK Q : Q = [R EXCEPT !.status = "running"]
  OBVIOUS
<1>2. /\ Q \in RunRecords
      /\ Q.status = "running" /\ Q.gen = R.gen /\ Q.log = R.log /\ Q.emitted = R.emitted
      /\ Q.done = R.done /\ Q.answered = R.answered /\ Q.by = R.by
  BY <1>1 DEF RunInv, RunShape, RunRecords, Statuses
<1> QED
  <2>0. /\ R \in RunRecords /\ T \in Seq(TaskRecords) /\ S \in Subscriptions
        /\ IsFiniteSet(R.answered) /\ R.gen = 1 + Cardinality(R.answered)
        /\ Len(T) = R.gen /\ r \notin L
    BY DEF RunInv, RunShape, Memory!Terminal
  <2>8. T \in Seq(TaskRecords)
    BY <2>0
  <2>9. "run" \in Locations
    BY DEF Locations
  <2>1. RunShape(r, Q, Moved(T, g, "run"), S, L)
    <3>1. PICK U : U = Moved(T, g, "run")
      OBVIOUS
    <3>2. U \in Seq(TaskRecords) /\ Len(U) = Len(T)
      BY <2>8, <2>9, <3>1, MovedIs
    <3> QED
      BY <1>2, <2>0, <3>1, <3>2 DEF RunShape, Memory!Terminal
  <2>2. LogOK(r, Q)
    BY <1>2, <2>0 DEF RunInv, LogOK, EmittedOK, Memory!Terminal
  <2>3. SubOK(r, Q, S)
    BY <1>2 DEF RunInv, SubOK
  <2>4. r \notin L => TasksOK(Q, Moved(T, g, "run"))
    <3>1. PICK T2 : T2 = Moved(T, g, "run")
      OBVIOUS
    <3>2. /\ DOMAIN T2 = DOMAIN T /\ T2[g].pc = "run"
          /\ \A h \in DOMAIN T : h # g => T2[h] = T[h]
      BY <2>8, <2>9, <3>1, MovedIs
    <3>3. r \notin L => TasksOK(R, T)
      BY DEF RunInv
    <3>4. r \notin L => \A h \in DOMAIN T2 : h < Q.gen => T2[h].pc \in {"paused", "over"}
      BY <1>2, <3>2, <3>3 DEF TasksOK
    <3>5. ~R.done
      BY <3>3, <2>0 DEF TasksOK, Memory!Terminal
    <3> QED
      BY <1>2, <3>1, <3>2, <3>4, <3>5 DEF TasksOK, Memory!Terminal
  <2> QED
    BY <1>1, <2>1, <2>2, <2>3, <2>4 DEF RunInv

(* The producer writes an event. *)
LEMMA ProduceKeeps ==
  ASSUME NEW r \in StreamRuns, NEW R, NEW T, NEW S, NEW L, RunInv(r, R, T, S, L),
         NEW g \in DOMAIN T, T[g].pc = "run", ~R.emitted,
         NEW k \in {"data", "done", "error"}, NEW b \in BOOLEAN
  PROVE  RunInv(r, [Memory!Append1(R, k) EXCEPT !.broken = b],
                [T EXCEPT ![g].data = @ + 1], S, L)
<1>0. /\ R \in RunRecords /\ T \in Seq(TaskRecords) /\ S \in Subscriptions
      /\ IsFiniteSet(R.answered) /\ R.gen = 1 + Cardinality(R.answered)
      /\ (R.status = "absent" => T = <<>>) /\ (R.status # "absent" => Len(T) = R.gen)
      /\ R.log \in Seq(Kinds)
  BY DEF RunInv, RunShape, RunRecords
<1>1. R.status \notin Memory!Terminal \cup {"absent"} /\ r \notin L
  BY <1>0 DEF RunInv, RunShape, LogOK
<1>2. g = R.gen
  BY <1>0, <1>1 DEF RunInv, TasksOK, RunRecords
<1>3. R.status # "waiting"
  BY <1>1, <1>2 DEF RunInv, TasksOK
<1>4. PICK t : t = [T[g] EXCEPT !.data = @ + 1]
  OBVIOUS
<1>5. t \in TaskRecords /\ t.pc = T[g].pc /\ t.cut = T[g].cut
  <2>1. T[g] \in TaskRecords
    BY <1>0
  <2> QED
    BY <2>1, <1>4 DEF TaskRecords, Locations
<1>6. PICK U : U = [T EXCEPT ![g] = t]
  OBVIOUS
<1>7. /\ U \in Seq(TaskRecords) /\ Len(U) = Len(T) /\ DOMAIN U = DOMAIN T
      /\ \A h \in DOMAIN T : U[h].pc = T[h].pc /\ U[h].cut = T[h].cut
  BY <1>0, <1>5, <1>6, SetTask
<1>8. [T EXCEPT ![g].data = @ + 1] = U
  BY <1>4, <1>6
<1>9. PICK P : P = Memory!Append1(R, k)
  OBVIOUS
<1>10. /\ P \in RunRecords /\ P.status = R.status /\ P.gen = R.gen /\ P.done = R.done
       /\ P.answered = R.answered /\ P.by = R.by /\ P.log = Append(R.log, k)
       /\ (P.emitted <=> k = "done")
  BY <1>0, <1>9, Append1Is DEF Kinds
<1>11. PICK Q : Q = [P EXCEPT !.broken = b]
  OBVIOUS
<1>12. /\ Q \in RunRecords /\ Q.status = R.status /\ Q.gen = R.gen /\ Q.done = R.done
       /\ Q.answered = R.answered /\ Q.by = R.by /\ Q.log = Append(R.log, k)
       /\ Q.emitted = P.emitted
  BY <1>10, <1>11 DEF RunRecords
<1>13. RunShape(r, Q, U, S, L)
  BY <1>0, <1>1, <1>7, <1>12 DEF RunShape
<1>14. LogOK(r, Q)
  <2>1. EmittedOK(Q)
    <3> SUFFICES ASSUME Q.emitted PROVE EmittedOK(Q)
      BY DEF EmittedOK
    <3>1. k = "done" /\ k \in Kinds
      BY <1>10, <1>12 DEF Kinds
    <3>2. Q.log[Len(Q.log)] = "done" /\ Len(Q.log) \in DOMAIN Q.log
      BY <1>0, <1>12, <3>1, Appended
    <3> QED
      BY <3>2 DEF EmittedOK
  <2> QED
    BY <1>1, <1>3, <1>12, <2>1 DEF LogOK
<1>15. SubOK(r, Q, S)
  <2>1. SubOK(r, R, S) /\ Extends(R.log, Q.log)
    BY <1>0, <1>12, Appended DEF RunInv, Kinds
  <2> QED
    BY <1>0, <1>12, <2>1, LogGrows
<1>16. TasksOK(Q, U)
  <2>1. TasksOK(R, T)
    BY <1>1 DEF RunInv
  <2>2. R.gen \in DOMAIN T
    BY <1>2
  <2>3. \A h \in DOMAIN U : h < Q.gen => U[h].pc \in {"paused", "over"}
    BY <1>7, <1>12, <2>1 DEF TasksOK
  <2>4. /\ Q.status = "running" => U[Q.gen].pc = "run"
        /\ Q.status = "waiting" => U[Q.gen].pc \in {"paused", "over"}
        /\ Q.status = "queued" => \/ U[Q.gen].pc \in {"new", "sem"}
                                  \/ U[Q.gen].pc = "over" /\ U[Q.gen].cut
    BY <1>7, <1>12, <2>1, <2>2 DEF TasksOK
  <2>5. Q.done <=> Q.status \in Memory!Terminal
    BY <1>12, <2>1 DEF TasksOK
  <2>6. Q.done /\ Q.status # "cancelled" => Q.by = Q.gen
    BY <1>1, <2>5, <1>12
  <2> QED
    BY <2>3, <2>4, <2>5, <2>6 DEF TasksOK
<1> QED
  BY <1>8, <1>9, <1>11, <1>13, <1>14, <1>15, <1>16 DEF RunInv

(* The question is an event, and the run waits for its user. *)
LEMMA PauseKeeps ==
  ASSUME NEW r, NEW R, NEW T, NEW S, NEW L, RunInv(r, R, T, S, L),
         NEW g \in DOMAIN T, T[g].pc = "run", R.status = "running", ~R.emitted
  PROVE  RunInv(r, [Memory!Append1(R, "question") EXCEPT !.status = "waiting", !.done = FALSE],
                Moved(T, g, "paused"), S, L)
<1>0. /\ R \in RunRecords /\ T \in Seq(TaskRecords) /\ S \in Subscriptions
      /\ IsFiniteSet(R.answered) /\ R.gen = 1 + Cardinality(R.answered) /\ Len(T) = R.gen
      /\ r \notin L /\ R.log \in Seq(Kinds)
  BY DEF RunInv, RunShape, RunRecords, Memory!Terminal
<1>1. g = R.gen
  BY <1>0 DEF RunInv, TasksOK, RunRecords
<1>2. PICK P : P = Memory!Append1(R, "question")
  OBVIOUS
<1>3. /\ P \in RunRecords /\ P.gen = R.gen /\ P.answered = R.answered
      /\ P.log = Append(R.log, "question") /\ ~P.emitted
  BY <1>0, <1>2, Append1Is DEF Kinds
<1>4. PICK Q : Q = [P EXCEPT !.status = "waiting", !.done = FALSE]
  OBVIOUS
<1>5. /\ Q \in RunRecords /\ Q.status = "waiting" /\ ~Q.done /\ Q.gen = R.gen
      /\ Q.answered = R.answered /\ Q.log = Append(R.log, "question") /\ ~Q.emitted
  BY <1>3, <1>4 DEF RunRecords, Statuses
<1>6. PICK U : U = Moved(T, g, "paused")
  OBVIOUS
<1>7. /\ U \in Seq(TaskRecords) /\ Len(U) = Len(T) /\ DOMAIN U = DOMAIN T
      /\ U[g].pc = "paused" /\ \A h \in DOMAIN T : h # g => U[h] = T[h]
  <2>1. "paused" \in Locations
    BY DEF Locations
  <2> QED
    BY <1>0, <1>6, <2>1, MovedIs
<1>8. RunShape(r, Q, U, S, L)
  BY <1>0, <1>5, <1>7 DEF RunShape
<1>9. LogOK(r, Q)
  BY <1>0, <1>5, Appended DEF LogOK, EmittedOK, Kinds, Memory!Terminal
<1>10. SubOK(r, Q, S)
  BY <1>0, <1>5, LogGrows, Appended DEF RunInv, Kinds
<1>11. TasksOK(Q, U)
  <2>1. \A h \in DOMAIN U : h < Q.gen => U[h].pc \in {"paused", "over"}
    BY <1>0, <1>5, <1>7 DEF RunInv, TasksOK
  <2> QED
    BY <1>1, <1>5, <1>7, <2>1 DEF TasksOK, Memory!Terminal
<1> QED
  BY <1>2, <1>4, <1>6, <1>8, <1>9, <1>10, <1>11 DEF RunInv

(* An answer starts the next generation. *)
LEMMA ResumeKeeps ==
  ASSUME NEW r, NEW R, NEW T, NEW S, NEW L, RunInv(r, R, T, S, L),
         R.status = "waiting", NEW a \in Answers, a \notin R.answered
  PROVE  RunInv(r, [R EXCEPT !.status = "queued", !.gen = @ + 1, !.done = FALSE,
                              !.answered = @ \cup {a}],
                Append(T, Memory!Task("new")), S, L)
<1>0. /\ R \in RunRecords /\ T \in Seq(TaskRecords) /\ S \in Subscriptions
      /\ IsFiniteSet(R.answered) /\ R.gen = 1 + Cardinality(R.answered) /\ Len(T) = R.gen
      /\ r \notin L /\ R.gen \in Nat \ {0} /\ R.answered \subseteq Answers
  BY DEF RunInv, RunShape, RunRecords, Memory!Terminal
<1>1. PICK Q : Q = [R EXCEPT !.status = "queued", !.gen = @ + 1, !.done = FALSE,
                              !.answered = @ \cup {a}]
  OBVIOUS
<1>2. /\ Q \in RunRecords /\ Q.status = "queued" /\ Q.gen = R.gen + 1 /\ ~Q.done
      /\ Q.answered = R.answered \cup {a} /\ Q.log = R.log /\ Q.emitted = R.emitted
  <2>1. PICK n : n = R.gen + 1
    OBVIOUS
  <2>2. PICK A : A = R.answered \cup {a}
    OBVIOUS
  <2>3. n \in Nat \ {0} /\ A \subseteq Answers
    BY <1>0, <2>1, <2>2
  <2>4. Q = [R EXCEPT !.status = "queued", !.gen = n, !.done = FALSE, !.answered = A]
    BY <1>1, <2>1, <2>2
  <2>5. /\ Q \in RunRecords /\ Q.status = "queued" /\ Q.gen = n /\ ~Q.done
        /\ Q.answered = A /\ Q.log = R.log /\ Q.emitted = R.emitted
    BY <1>0, <2>3, <2>4 DEF RunRecords, Statuses
  <2> QED
    BY <2>1, <2>2, <2>5
<1>3. IsFiniteSet(Q.answered) /\ Q.gen = 1 + Cardinality(Q.answered)
  <2>1. /\ IsFiniteSet(R.answered \cup {a})
        /\ Cardinality(R.answered \cup {a}) = Cardinality(R.answered) + 1
    BY <1>0, FS_AddElement
  <2> QED
    BY <1>0, <1>2, <2>1, FS_CardinalityType
<1>4. PICK t : t = Memory!Task("new")
  OBVIOUS
<1>5. t \in TaskRecords /\ t.pc = "new"
  BY <1>4 DEF Memory!Task, TaskRecords, Locations
<1>6. PICK U : U = Append(T, t)
  OBVIOUS
<1>7. /\ U \in Seq(TaskRecords) /\ Len(U) = Q.gen
      /\ U[Q.gen] = t /\ \A h \in DOMAIN T : U[h] = T[h]
      /\ DOMAIN U = 1 .. Q.gen /\ DOMAIN T = 1 .. R.gen
  BY <1>0, <1>2, <1>5, <1>6
<1>8. RunShape(r, Q, U, S, L)
  BY <1>0, <1>2, <1>3, <1>7 DEF RunShape
<1>9. LogOK(r, Q)
  BY <1>2 DEF RunInv, LogOK, EmittedOK, Memory!Terminal
<1>10. SubOK(r, Q, S)
  BY <1>2 DEF RunInv, SubOK
<1>11. TasksOK(Q, U)
  <2>1. \A h \in DOMAIN T : T[h].pc \in {"paused", "over"}
    <3>1. \A h \in DOMAIN T : h < R.gen \/ h = R.gen
      BY <1>0
    <3> QED
      BY <1>0, <3>1 DEF RunInv, TasksOK
  <2>2. \A h \in DOMAIN U : h < Q.gen => U[h].pc \in {"paused", "over"}
    BY <1>0, <1>2, <1>7, <2>1
  <2> QED
    BY <1>2, <1>5, <1>7, <2>2 DEF TasksOK, Memory!Terminal
<1> QED
  BY <1>1, <1>4, <1>6, <1>8, <1>9, <1>10, <1>11 DEF RunInv

(* A run that begins, or is forgotten. *)
LEMMA FreshRun ==
  ASSUME NEW r, NEW L, r \notin L
  PROVE  /\ RunInv(r, Memory!Record("absent"), <<>>, Memory!NoSub, L)
         /\ RunInv(r, Memory!Record("queued"), <<Memory!Task("new")>>, Memory!NoSub, L)
<1>1. Memory!NoSub \in Subscriptions
  BY DEF Memory!NoSub, Subscriptions
<1>2. <<Memory!Task("new")>> \in Seq(TaskRecords) /\ <<Memory!Task("new")>>[1].pc = "new"
  BY DEF Memory!Task, TaskRecords, Locations
<1>3. IsFiniteSet({}) /\ Cardinality({}) = 0
  BY FS_EmptySet
<1>4. ASSUME NEW s \in {"absent", "queued"}
      PROVE  /\ Memory!Record(s) \in RunRecords /\ LogOK(r, Memory!Record(s))
             /\ Memory!Record(s).status = s /\ ~Memory!Record(s).done
             /\ Memory!Record(s).gen = 1 /\ Memory!Record(s).answered = {}
  BY DEF Memory!Record, RunRecords, Statuses, LogOK, EmittedOK, Memory!Terminal
<1>5. \A Q : SubOK(r, Q, Memory!NoSub)
  BY DEF SubOK, Memory!NoSub
<1>6. RunShape(r, Memory!Record("absent"), <<>>, Memory!NoSub, L)
  BY <1>1, <1>3, <1>4 DEF RunShape
<1>7. RunShape(r, Memory!Record("queued"), <<Memory!Task("new")>>, Memory!NoSub, L)
  BY <1>1, <1>2, <1>3, <1>4 DEF RunShape
<1>8. TasksOK(Memory!Record("absent"), <<>>)
  BY <1>4 DEF TasksOK, Memory!Terminal
<1>9. TasksOK(Memory!Record("queued"), <<Memory!Task("new")>>)
  <2>1. \A h \in DOMAIN <<Memory!Task("new")>> : ~(h < 1)
    OBVIOUS
  <2> QED
    BY <1>2, <1>4, <2>1 DEF TasksOK, Memory!Terminal
<1> QED
  BY <1>4, <1>5, <1>6, <1>7, <1>8, <1>9 DEF RunInv

-----------------------------------------------------------------------------
(* The subscription.  Q and Q2 are records of any kind here; only the log  *)
(* and the status of the run are read.                                     *)

LEMMA SubMoves ==
  ASSUME NEW r, NEW R, NEW T, NEW S, NEW L, RunInv(r, R, T, S, L), R.status # "absent",
         NEW S2 \in Subscriptions, SubOK(r, R, S2)
  PROVE  RunInv(r, R, T, S2, L)
  BY DEF RunInv, RunShape

LEMMA SubscribeKeeps ==
  ASSUME NEW r \in StreamRuns, NEW R, NEW T, NEW S, NEW L, RunInv(r, R, T, S, L),
         R.status # "absent", NEW from \in 0 .. 1, NEW p \in {"gap", "poll"},
         p = "poll" => from <= Len(R.log)
  PROVE  RunInv(r, R, T, [Memory!NoSub EXCEPT !.cursor = from, !.batch = from, !.pc = p], L)
<1>1. PICK S2 : S2 = [Memory!NoSub EXCEPT !.cursor = from, !.batch = from, !.pc = p]
  OBVIOUS
<1>2. S2 \in Subscriptions /\ S2.pc = p /\ S2.cursor = from /\ S2.batch = from /\ S2.got = <<>>
  <2>1. S2 = [pc |-> p, cursor |-> from, batch |-> from, ends |-> FALSE, got |-> <<>>]
    BY <1>1 DEF Memory!NoSub
  <2> QED
    BY <2>1 DEF Subscriptions
<1>3. SubOK(r, R, S2)
  BY <1>2 DEF SubOK
<1> QED
  BY <1>1, <1>2, <1>3, SubMoves

LEMMA PollKeeps ==
  ASSUME NEW r, NEW R, NEW T, NEW S, NEW L, RunInv(r, R, T, S, L), S.pc = "poll",
         Buffer \in Nat \ {0},
         NEW still \in BOOLEAN, still <=> R.status \in Memory!Terminal \cup {"waiting"},
         NEW old \in Nat, old = IF Len(R.log) > Buffer THEN Len(R.log) - Buffer + 1 ELSE 1
  PROVE  RunInv(r, R, T, [S EXCEPT !.pc = "deliver", !.batch = Len(R.log), !.ends = still,
                                   !.cursor = IF @ < old - 1 THEN old - 1 ELSE @], L)
<1>0. /\ R.log \in Seq(Kinds) /\ S \in Subscriptions /\ R.status # "absent"
      /\ S.cursor \in Nat /\ S.got \in Seq(Nat \ {0}) /\ Len(R.log) \in Nat
  BY DEF RunInv, RunShape, RunRecords, Subscriptions, Memory!NoSub
<1>1. PICK c : c = IF S.cursor < old - 1 THEN old - 1 ELSE S.cursor
  OBVIOUS
<1>2. SubOK(r, R, S) /\ LogOK(r, R)
  BY DEF RunInv
<1>3. /\ c \in Nat /\ S.cursor <= c /\ c <= Len(R.log)
      /\ c = Len(R.log) => c = S.cursor
  BY <1>0, <1>1, <1>2 DEF SubOK
<1>4. PICK S2 : S2 = [S EXCEPT !.pc = "deliver", !.batch = Len(R.log), !.ends = still, !.cursor = c]
  OBVIOUS
<1>5. /\ S2 \in Subscriptions /\ S2.pc = "deliver" /\ S2.batch = Len(R.log) /\ S2.ends = still
      /\ S2.cursor = c /\ S2.got = S.got
  BY <1>0, <1>3, <1>4 DEF Subscriptions
<1>6. still /\ R.log # <<>> => Ending(R.log[Len(R.log)])
  <2>1. r \in StreamRuns
    BY <1>2 DEF SubOK
  <2> QED
    BY <1>2, <2>1 DEF LogOK, EmittedOK, Ending
<1>7. \A i \in DOMAIN S.got : S.got[i] <= S2.cursor
  <2> TAKE i \in DOMAIN S.got
  <2>1. S.got[i] \in Nat /\ S.got[i] <= S.cursor
    BY <1>0, <1>2 DEF SubOK
  <2> QED
    BY <1>0, <1>3, <1>5, <2>1
<1>8. SubOK(r, R, S2)
  BY <1>0, <1>2, <1>3, <1>5, <1>6, <1>7 DEF SubOK
<1> QED
  BY <1>0, <1>1, <1>4, <1>5, <1>8, SubMoves

LEMMA DeliverKeeps ==
  ASSUME NEW r, NEW R, NEW T, NEW S, NEW L, RunInv(r, R, T, S, L), S.pc = "deliver",
         S.cursor < S.batch
  PROVE  RunInv(r, R, T, [S EXCEPT !.cursor = @ + 1, !.got = Append(@, S.cursor + 1)], L)
<1>0. /\ R.log \in Seq(Kinds) /\ S \in Subscriptions /\ R.status # "absent"
      /\ S.cursor \in Nat /\ S.batch \in Nat /\ S.got \in Seq(Nat \ {0}) /\ Len(R.log) \in Nat
  BY DEF RunInv, RunShape, RunRecords, Subscriptions, Memory!NoSub
<1>1. PICK c : c = S.cursor + 1
  OBVIOUS
<1>2. PICK got : got = Append(S.got, c)
  OBVIOUS
<1>3. c \in Nat \ {0} /\ got \in Seq(Nat \ {0}) /\ Len(got) = Len(S.got) + 1 /\ got[Len(got)] = c
  BY <1>0, <1>1, <1>2
<1>4. PICK S2 : S2 = [S EXCEPT !.cursor = c, !.got = got]
  OBVIOUS
<1>5. /\ S2 \in Subscriptions /\ S2.pc = "deliver" /\ S2.batch = S.batch /\ S2.ends = S.ends
      /\ S2.cursor = c /\ S2.got = got
  BY <1>0, <1>3, <1>4 DEF Subscriptions
<1>6. SubOK(r, R, S)
  BY DEF RunInv
<1>7. \A i \in DOMAIN got : got[i] \in Nat /\ (i < Len(got) => got[i] = S.got[i] /\ got[i] < c)
  <2> TAKE i \in DOMAIN got
  <2>1. CASE i = Len(got)
    BY <1>3, <2>1
  <2>2. CASE i # Len(got)
    <3>1. i \in DOMAIN S.got /\ got[i] = S.got[i]
      BY <1>0, <1>2, <1>3, <2>2
    <3>2. S.got[i] \in Nat /\ S.got[i] <= S.cursor
      BY <1>0, <1>6, <3>1 DEF SubOK
    <3> QED
      BY <1>0, <1>1, <3>1, <3>2
  <2> QED
    BY <2>1, <2>2
<1>8. \A i, j \in DOMAIN got : i < j => got[i] < got[j]
  <2> SUFFICES ASSUME NEW i \in DOMAIN got, NEW j \in DOMAIN got, i < j PROVE got[i] < got[j]
    OBVIOUS
  <2>0. i < Len(got) /\ i \in DOMAIN S.got
    BY <1>0, <1>2, <1>3
  <2>1. CASE j = Len(got)
    BY <1>3, <1>7, <2>0, <2>1
  <2>2. CASE j # Len(got)
    <3>1. j \in DOMAIN S.got /\ j < Len(got)
      BY <1>0, <1>2, <1>3, <2>2
    <3> QED
      BY <1>6, <1>7, <2>0, <3>1 DEF SubOK
  <2> QED
    BY <2>1, <2>2
<1>9. \A i \in DOMAIN got : got[i] <= c
  BY <1>3, <1>7
<1>10. r \in StreamRuns /\ c <= Len(R.log) /\ c <= S.batch /\ S.batch <= Len(R.log)
  BY <1>0, <1>1, <1>6 DEF SubOK
<1>11. S.ends /\ S.batch = Len(R.log) /\ R.log # <<>> => Ending(R.log[Len(R.log)])
  BY <1>6 DEF SubOK
<1>12. SubOK(r, R, S2)
  BY <1>3, <1>5, <1>8, <1>9, <1>10, <1>11 DEF SubOK
<1> QED
  BY <1>0, <1>1, <1>2, <1>4, <1>5, <1>12, SubMoves

LEMMA BatchEndKeeps ==
  ASSUME NEW r, NEW R, NEW T, NEW S, NEW L, RunInv(r, R, T, S, L), S.pc = "deliver",
         ~(S.cursor < S.batch),
         NEW p \in {"poll", "closed"}, p = "closed" => S.ends /\ S.cursor >= Len(R.log)
  PROVE  RunInv(r, R, T, [S EXCEPT !.pc = p], L)
<1>0. /\ R.log \in Seq(Kinds) /\ S \in Subscriptions /\ R.status # "absent"
      /\ S.cursor \in Nat /\ S.batch \in Nat /\ S.got \in Seq(Nat \ {0}) /\ Len(R.log) \in Nat
  BY DEF RunInv, RunShape, RunRecords, Subscriptions, Memory!NoSub
<1>1. PICK S2 : S2 = [S EXCEPT !.pc = p]
  OBVIOUS
<1>2. /\ S2 \in Subscriptions /\ S2.pc = p /\ S2.batch = S.batch
      /\ S2.cursor = S.cursor /\ S2.got = S.got
  BY <1>0, <1>1 DEF Subscriptions
<1>3. SubOK(r, R, S)
  BY DEF RunInv
<1>4. S.cursor = S.batch
  BY <1>0, <1>3 DEF SubOK
<1>5. S.got # <<>> => S.cursor = S.got[Len(S.got)] /\ S.cursor \in Nat \ {0}
  BY <1>0, <1>3, <1>4 DEF SubOK
<1>6. p = "closed" /\ S.got # <<>> => Ending(R.log[S.cursor])
  <2> SUFFICES ASSUME p = "closed", S.got # <<>> PROVE Ending(R.log[S.cursor])
    OBVIOUS
  <2>1. S.cursor = Len(R.log) /\ S.ends /\ S.batch = Len(R.log)
    BY <1>0, <1>3, <1>4 DEF SubOK
  <2>2. R.log # <<>>
    BY <1>5, <2>1
  <2> QED
    BY <1>3, <2>1, <2>2 DEF SubOK
<1>7. SubOK(r, R, S2)
  BY <1>2, <1>3, <1>4, <1>5, <1>6 DEF SubOK
<1> QED
  BY <1>0, <1>1, <1>2, <1>7, SubMoves

-----------------------------------------------------------------------------
(* The steps of the registry. *)

(* A step about run r leaves the others alone. *)
About(r) ==
  /\ rec' = [rec EXCEPT ![r] = rec'[r]] /\ task' = [task EXCEPT ![r] = task'[r]]
  /\ sub' = [sub EXCEPT ![r] = sub'[r]]
  /\ waiting' \subseteq Runs /\ waiting' \ {r} = waiting \ {r}

LEMMA Frame ==
  ASSUME MemoryInv, NEW r \in Runs, About(r),
         RunInv(r, rec'[r], task'[r], sub'[r], waiting')
  PROVE  MemoryInv'
<1>1. /\ rec' = [q \in Runs |-> rec'[q]] /\ task' = [q \in Runs |-> task'[q]]
      /\ sub' = [q \in Runs |-> sub'[q]]
  BY DEF About, MemoryInv
<1>2. ASSUME NEW q \in Runs PROVE RunInv(q, rec'[q], task'[q], sub'[q], waiting')
  <2>1. CASE q = r
    BY <2>1
  <2>2. CASE q # r
    <3>1. rec'[q] = rec[q] /\ task'[q] = task[q] /\ sub'[q] = sub[q] /\ (q \in waiting' <=> q \in waiting)
      BY <2>2 DEF About, MemoryInv
    <3>2. RunInv(q, rec[q], task[q], sub[q], waiting)
      BY DEF MemoryInv
    <3>3. RunInv(q, rec[q], task[q], sub[q], waiting')
      BY <3>1, <3>2 DEF RunInv, RunShape
    <3> QED
      BY <3>1, <3>3
  <2> QED
    BY <2>1, <2>2
<1> QED
  BY <1>1, <1>2 DEF MemoryInv, About

(* The shapes a step has: what it does to r's record, tasks, subscription. *)
LEMMA ShapeOfRun ==
  ASSUME MemoryInv, NEW r \in Runs
  PROVE  /\ RunInv(r, rec[r], task[r], sub[r], waiting)
         /\ rec[r] \in RunRecords /\ task[r] \in Seq(TaskRecords) /\ sub[r] \in Subscriptions
         /\ rec[r].log \in Seq(Kinds) /\ EmittedOK(rec[r])
         /\ rec = [rec EXCEPT ![r] = rec[r]] /\ task = [task EXCEPT ![r] = task[r]]
         /\ sub = [sub EXCEPT ![r] = sub[r]]
         /\ DOMAIN rec = Runs /\ DOMAIN task = Runs /\ DOMAIN sub = Runs
  BY DEF MemoryInv, RunInv, RunShape, LogOK, RunRecords

LEMMA StartStep ==
  ASSUME MemoryInv, NEW r \in Runs, Memory!Start(r)
  PROVE  MemoryInv'
<1>1. r \notin waiting
  BY ShapeOfRun DEF RunInv, RunShape, Memory!Start, Memory!Terminal
<1>2. RunInv(r, rec'[r], task'[r], sub'[r], waiting')
  <2>1. /\ rec'[r] = Memory!Record("queued") /\ task'[r] = <<Memory!Task("new")>>
        /\ sub'[r] = Memory!NoSub /\ waiting' = waiting
    BY ShapeOfRun DEF Memory!Start
  <2>2. RunInv(r, Memory!Record("queued"), <<Memory!Task("new")>>, Memory!NoSub, waiting)
    BY <1>1, FreshRun
  <2> QED
    BY <2>1, <2>2
<1>3. About(r)
  BY ShapeOfRun DEF About, Memory!Start, MemoryInv
<1> QED
  BY <1>2, <1>3, Frame

LEMMA CleanupStep ==
  ASSUME MemoryInv, NEW r \in Runs, Memory!Cleanup(r)
  PROVE  MemoryInv'
<1>1. r \notin waiting'
  BY DEF Memory!Cleanup
<1>2. RunInv(r, rec'[r], task'[r], sub'[r], waiting')
  <2>1. /\ rec'[r] = Memory!Record("absent") /\ task'[r] = <<>> /\ sub'[r] = Memory!NoSub
    BY ShapeOfRun DEF Memory!Cleanup
  <2>2. RunInv(r, Memory!Record("absent"), <<>>, Memory!NoSub, waiting')
    BY <1>1, FreshRun
  <2> QED
    BY <2>1, <2>2
<1>3. About(r)
  BY ShapeOfRun DEF About, Memory!Cleanup, MemoryInv
<1> QED
  BY <1>2, <1>3, Frame

LEMMA ResumeStep ==
  ASSUME MemoryInv, NEW r \in Runs, NEW a \in Answers, Memory!Resume(r, a)
  PROVE  MemoryInv'
<1>1. RunInv(r, rec'[r], task'[r], sub'[r], waiting')
  <2>1. PICK R2 : R2 = [rec[r] EXCEPT !.status = "queued", !.gen = @ + 1, !.done = FALSE,
                                      !.answered = @ \cup {a}]
    OBVIOUS
  <2>2. PICK T2 : T2 = Append(task[r], Memory!Task("new"))
    OBVIOUS
  <2>3. rec' = [rec EXCEPT ![r] = R2] /\ task' = [task EXCEPT ![r] = T2]
    <3>1. rec' = [rec EXCEPT ![r] = R2]
      BY <2>1 DEF Memory!Resume
    <3>2. task' = [task EXCEPT ![r] = T2]
      BY <2>2 DEF Memory!Resume
    <3> QED
      BY <3>1, <3>2
  <2>4. rec'[r] = R2 /\ task'[r] = T2 /\ sub'[r] = sub[r] /\ waiting' = waiting
    BY <2>3, ShapeOfRun DEF Memory!Resume
  <2>5. RunInv(r, R2, T2, sub[r], waiting)
    BY <2>1, <2>2, ResumeKeeps, ShapeOfRun DEF Memory!Resume
  <2> QED
    BY <2>4, <2>5
<1>2. About(r)
  BY ShapeOfRun DEF About, Memory!Resume, MemoryInv
<1> QED
  BY <1>1, <1>2, Frame

LEMMA SubscribeStep ==
  ASSUME MemoryInv, NEW r \in Runs, NEW from \in 0 .. 1, Memory!Subscribe(r, from)
  PROVE  MemoryInv'
<1>1. PICK p \in {"gap", "poll"} :
        /\ sub' = [sub EXCEPT ![r] =
                     [Memory!NoSub EXCEPT !.cursor = from, !.batch = from, !.pc = p]]
        /\ p = "poll" => from <= Len(rec[r].log)
  <2>1. CASE from > Memory!Newest(r) \/ (Memory!Newest(r) > 0 /\ from < Memory!Oldest(r) - 1)
    BY <2>1 DEF Memory!Subscribe
  <2>2. CASE ~(from > Memory!Newest(r) \/ (Memory!Newest(r) > 0 /\ from < Memory!Oldest(r) - 1))
    BY <2>2, ShapeOfRun DEF Memory!Subscribe, Memory!Newest
  <2> QED
    BY <2>1, <2>2
<1>2. RunInv(r, rec'[r], task'[r], sub'[r], waiting')
  <2>1. PICK S2 : S2 = [Memory!NoSub EXCEPT !.cursor = from, !.batch = from, !.pc = p]
    OBVIOUS
  <2>2. sub' = [sub EXCEPT ![r] = S2]
    BY <1>1, <2>1
  <2>3. rec'[r] = rec[r] /\ task'[r] = task[r] /\ sub'[r] = S2 /\ waiting' = waiting
    BY <2>2, ShapeOfRun DEF Memory!Subscribe
  <2>4. RunInv(r, rec[r], task[r], S2, waiting)
    BY <1>1, <2>1, SubscribeKeeps, ShapeOfRun DEF Memory!Subscribe
  <2> QED
    BY <2>3, <2>4
<1>3. About(r)
  BY <1>1, ShapeOfRun DEF About, Memory!Subscribe, MemoryInv
<1> QED
  BY <1>2, <1>3, Frame

LEMMA PollStep ==
  ASSUME Buffer \in Nat \ {0}, MemoryInv, NEW r \in Runs, Memory!Poll(r)
  PROVE  MemoryInv'
<1>1. PICK still \in BOOLEAN : still <=> rec[r].status \in Memory!Terminal \cup {"waiting"}
  OBVIOUS
<1>2. PICK old : old = IF Len(rec[r].log) > Buffer THEN Len(rec[r].log) - Buffer + 1 ELSE 1
  OBVIOUS
<1>3. old \in Nat /\ Memory!Oldest(r) = old
  BY <1>2, ShapeOfRun DEF Memory!Oldest, Memory!Newest
<1>4. PICK S2 : S2 = [sub[r] EXCEPT !.pc = "deliver", !.batch = Len(rec[r].log), !.ends = still,
                                !.cursor = IF @ < old - 1 THEN old - 1 ELSE @]
  OBVIOUS
<1>5. sub' = [sub EXCEPT ![r] = S2]
  <2>1. (rec[r].status \in Memory!Terminal \cup {"waiting"}) = still
    BY <1>1
  <2> QED
    BY <1>3, <1>4, <2>1 DEF Memory!Poll, Memory!Newest
<1>6. RunInv(r, rec[r], task[r], S2, waiting)
  BY <1>1, <1>2, <1>3, <1>4, PollKeeps, ShapeOfRun DEF Memory!Poll
<1>7. RunInv(r, rec'[r], task'[r], sub'[r], waiting')
  <2>1. rec'[r] = rec[r] /\ task'[r] = task[r] /\ sub'[r] = S2 /\ waiting' = waiting
    BY <1>5, ShapeOfRun DEF Memory!Poll
  <2> QED
    BY <1>6, <2>1
<1>8. About(r)
  BY <1>5, ShapeOfRun DEF About, Memory!Poll, MemoryInv
<1> QED
  BY <1>7, <1>8, Frame

LEMMA DeliverStep ==
  ASSUME MemoryInv, NEW r \in Runs, Memory!Deliver(r)
  PROVE  MemoryInv'
<1>1. CASE sub[r].cursor < sub[r].batch
  <2>1. PICK S2 : S2 = [sub[r] EXCEPT !.cursor = @ + 1, !.got = Append(@, sub[r].cursor + 1)]
    OBVIOUS
  <2>2. sub' = [sub EXCEPT ![r] = S2]
    <3>1. PICK X : X = IF sub[r].cursor < sub[r].batch
                       THEN [sub[r] EXCEPT !.cursor = @ + 1, !.got = Append(@, sub[r].cursor + 1)]
                       ELSE [sub[r] EXCEPT !.pc = IF sub[r].ends /\ sub[r].cursor >= Memory!Newest(r)
                                                  THEN "closed" ELSE "poll"]
      OBVIOUS
    <3>2. sub' = [sub EXCEPT ![r] = X]
      BY <3>1 DEF Memory!Deliver
    <3>3. X = S2
      BY <1>1, <2>1, <3>1
    <3> QED
      BY <3>2, <3>3
  <2>3. RunInv(r, rec[r], task[r], S2, waiting)
    BY <1>1, <2>1, DeliverKeeps, ShapeOfRun DEF Memory!Deliver
  <2>4. RunInv(r, rec'[r], task'[r], sub'[r], waiting')
    <3>1. rec'[r] = rec[r] /\ task'[r] = task[r] /\ sub'[r] = S2 /\ waiting' = waiting
      BY <2>2, ShapeOfRun DEF Memory!Deliver
    <3> QED
      BY <2>3, <3>1
  <2>5. About(r)
    BY <2>2, ShapeOfRun DEF About, Memory!Deliver, MemoryInv
  <2> QED
    BY <2>4, <2>5, Frame
<1>2. CASE ~(sub[r].cursor < sub[r].batch)
  <2>1. PICK p \in {"poll", "closed"} :
          /\ p = "closed" => sub[r].ends /\ sub[r].cursor >= Len(rec[r].log)
          /\ p = IF sub[r].ends /\ sub[r].cursor >= Len(rec[r].log) THEN "closed" ELSE "poll"
    OBVIOUS
  <2>2. PICK S2 : S2 = [sub[r] EXCEPT !.pc = p]
    OBVIOUS
  <2>3. sub' = [sub EXCEPT ![r] = S2]
    BY <1>2, <2>1, <2>2 DEF Memory!Deliver, Memory!Newest
  <2>4. RunInv(r, rec[r], task[r], S2, waiting)
    BY <1>2, <2>1, <2>2, BatchEndKeeps, ShapeOfRun DEF Memory!Deliver
  <2>5. RunInv(r, rec'[r], task'[r], sub'[r], waiting')
    <3>1. rec'[r] = rec[r] /\ task'[r] = task[r] /\ sub'[r] = S2 /\ waiting' = waiting
      BY <2>3, ShapeOfRun DEF Memory!Deliver
    <3> QED
      BY <2>4, <3>1
  <2>6. About(r)
    BY <2>3, ShapeOfRun DEF About, Memory!Deliver, MemoryInv
  <2> QED
    BY <2>5, <2>6, Frame
<1> QED
  BY <1>1, <1>2

LEMMA ToIs ==
  ASSUME MemoryInv, NEW r \in Runs, NEW g \in DOMAIN task[r], NEW p, Memory!To(r, g, p)
  PROVE  /\ task' = [task EXCEPT ![r] = Moved(task[r], g, p)]
         /\ task'[r] = Moved(task[r], g, p)
<1>1. PICK U : U = [task[r] EXCEPT ![g].pc = p]
  OBVIOUS
<1>2. task' = [task EXCEPT ![r] = U]
  BY <1>1 DEF Memory!To
<1> QED
  BY <1>1, <1>2, ShapeOfRun DEF Moved

(* A step that changes nothing but the tasks of a run. *)
LEMMA TaskStep ==
  ASSUME MemoryInv, NEW r \in Runs, UNCHANGED <<rec, sub, waiting>>,
         NEW U \in Seq(TaskRecords), task' = [task EXCEPT ![r] = U], Len(U) = Len(task[r]),
         r \notin waiting => TasksOK(rec[r], U)
  PROVE  MemoryInv'
<1>1. RunInv(r, rec[r], U, sub[r], waiting)
  BY ShapeOfRun, TasksMove
<1>2. rec'[r] = rec[r] /\ task'[r] = U /\ sub'[r] = sub[r] /\ waiting' = waiting
  BY ShapeOfRun
<1>3. About(r)
  BY <1>2, ShapeOfRun DEF About, MemoryInv
<1> QED
  BY <1>1, <1>2, <1>3, Frame

(* A task that is over no longer counts, unless its run still needs it. *)
LEMMA LeaveStep ==
  ASSUME MemoryInv, NEW r \in Runs, NEW g \in DOMAIN task[r], Memory!Leave(r, g),
         rec[r].status = "queued" /\ rec[r].gen = g => task[r][g].cut,
         rec[r].status = "running" => rec[r].gen # g
  PROVE  MemoryInv'
<1>0. task[r] \in Seq(TaskRecords) /\ RunInv(r, rec[r], task[r], sub[r], waiting)
  BY ShapeOfRun
<1>1. PICK U : U = Moved(task[r], g, "over")
  OBVIOUS
<1>2. /\ U \in Seq(TaskRecords) /\ Len(U) = Len(task[r]) /\ DOMAIN U = DOMAIN task[r]
      /\ U[g].pc = "over" /\ U[g].cut = task[r][g].cut
      /\ \A h \in DOMAIN task[r] : h # g => U[h] = task[r][h]
  <2>1. "over" \in Locations
    BY DEF Locations
  <2> QED
    BY <1>0, <1>1, <2>1, MovedIs
<1>3. task' = [task EXCEPT ![r] = U]
  BY <1>1, ToIs DEF Memory!Leave
<1>4. r \notin waiting => TasksOK(rec[r], U)
  <2> SUFFICES ASSUME r \notin waiting PROVE TasksOK(rec[r], U)
    OBVIOUS
  <2>1. TasksOK(rec[r], task[r])
    BY <1>0 DEF RunInv
  <2>2. \A h \in DOMAIN U : h < rec[r].gen => U[h].pc \in {"paused", "over"}
    BY <1>2, <2>1 DEF TasksOK
  <2>3. rec[r].status # "absent" => rec[r].gen \in DOMAIN task[r]
    BY <1>0 DEF RunInv, RunShape, RunRecords
  <2>4. CASE rec[r].gen = g
    BY <1>2, <2>1, <2>2, <2>4 DEF TasksOK
  <2>5. CASE rec[r].gen # g
    <3>1. rec[r].status # "absent" => U[rec[r].gen] = task[r][rec[r].gen]
      BY <1>2, <2>3, <2>5
    <3> QED
      BY <2>1, <2>2, <3>1 DEF TasksOK
  <2> QED
    BY <2>4, <2>5
<1> QED
  BY <1>2, <1>3, <1>4, TaskStep DEF Memory!Leave

(* A task that ends its run; an earlier generation counts as late, or as a *)
(* cancellation.                                                           *)
LEMMA FinishStep ==
  ASSUME MemoryInv, NEW r \in Runs, NEW g \in DOMAIN task[r],
         NEW rc \in RunRecords, Memory!Finish(r, g, rc),
         rec[r].status # "absent", rc.status \in Memory!Terminal,
         rc.gen = rec[r].gen, rc.answered = rec[r].answered,
         EmittedOK(rc), Extends(rec[r].log, rc.log), r \in StreamRuns => rc.emitted,
         waiting' \in {waiting, waiting \cup {r}},
         r \notin waiting' => rc.status = "cancelled" \/ rec[r].gen = g
  PROVE  MemoryInv'
<1>0. task[r] \in Seq(TaskRecords) /\ RunInv(r, rec[r], task[r], sub[r], waiting)
  BY ShapeOfRun
<1>1. PICK Q : Q = [rc EXCEPT !.done = TRUE, !.by = g]
  OBVIOUS
<1>2. /\ Q \in RunRecords /\ Q.status = rc.status /\ Q.done /\ Q.by = g /\ Q.gen = rc.gen
      /\ Q.answered = rc.answered /\ Q.log = rc.log /\ Q.emitted = rc.emitted
  <2>1. g \in Nat
    BY <1>0
  <2> QED
    BY <1>1, <2>1 DEF RunRecords
<1>3. PICK U : U = Moved(task[r], g, "over")
  OBVIOUS
<1>4. /\ U \in Seq(TaskRecords) /\ Len(U) = Len(task[r])
      /\ \A h \in DOMAIN task[r] : U[h] = task[r][h] \/ U[h].pc = "over"
  <2>1. "over" \in Locations
    BY DEF Locations
  <2>2. /\ U \in Seq(TaskRecords) /\ Len(U) = Len(task[r]) /\ U[g].pc = "over"
        /\ \A h \in DOMAIN task[r] : h # g => U[h] = task[r][h]
    BY <1>0, <1>3, <2>1, MovedIs
  <2> QED
    BY <2>2
<1>5. rec' = [rec EXCEPT ![r] = Q] /\ task' = [task EXCEPT ![r] = U] /\ sub' = sub
  BY <1>1, <1>3, ToIs DEF Memory!Finish
<1>6. EmittedOK(Q)
  BY <1>2 DEF EmittedOK
<1>7. r \notin waiting' => r \notin waiting /\ (Q.status # "cancelled" => Q.by = Q.gen)
  BY <1>2
<1>8. RunInv(r, Q, U, sub[r], waiting')
  BY <1>0, <1>2, <1>4, <1>6, <1>7, RunEnds
<1>9. rec'[r] = Q /\ task'[r] = U /\ sub'[r] = sub[r]
  BY <1>5, ShapeOfRun
<1>10. About(r)
  BY <1>5, <1>9, ShapeOfRun DEF About, MemoryInv
<1> QED
  BY <1>8, <1>9, <1>10, Frame

LEMMA TaskHasRun ==
  ASSUME MemoryInv, NEW r \in Runs, NEW g \in DOMAIN task[r]
  PROVE  /\ rec[r].status # "absent" /\ g \in Nat /\ rec[r].gen \in Nat /\ g <= rec[r].gen
         /\ rec[r].gen \in DOMAIN task[r]
         /\ r \notin waiting => TasksOK(rec[r], task[r])
         /\ r \in waiting => rec[r].status \in Memory!Terminal
         /\ r \in StreamRuns /\ rec[r].status \in Memory!Terminal => rec[r].emitted
  BY ShapeOfRun DEF RunInv, RunShape, RunRecords, LogOK

LEMMA EnterStep ==
  ASSUME MemoryInv, NEW r \in Runs, NEW g \in DOMAIN task[r], Memory!Enter(r, g)
  PROVE  MemoryInv'
<1>0. task[r] \in Seq(TaskRecords)
  BY ShapeOfRun
<1>1. CASE task[r][g].cut
  <2>1. Memory!Leave(r, g)
    BY <1>1 DEF Memory!Enter, Memory!Leave
  <2>2. rec[r].status = "running" => rec[r].gen # g
    BY TaskHasRun DEF Memory!Enter, TasksOK, Memory!Terminal
  <2> QED
    BY <1>1, <2>1, <2>2, LeaveStep
<1>2. CASE ~task[r][g].cut
  <2>1. PICK U : U = Moved(task[r], g, "sem")
    OBVIOUS
  <2>2. /\ U \in Seq(TaskRecords) /\ Len(U) = Len(task[r]) /\ DOMAIN U = DOMAIN task[r]
        /\ U[g].pc = "sem"
        /\ \A h \in DOMAIN task[r] : h # g => U[h] = task[r][h]
    <3>1. "sem" \in Locations
      BY DEF Locations
    <3> QED
      BY <1>0, <2>1, <3>1, MovedIs
  <2>3. task' = [task EXCEPT ![r] = U] /\ UNCHANGED <<rec, sub, waiting>>
    BY <1>2, <2>1, ToIs DEF Memory!Enter
  <2>4. r \notin waiting => TasksOK(rec[r], U)
    <3> SUFFICES ASSUME r \notin waiting PROVE TasksOK(rec[r], U)
      OBVIOUS
    <3>1. TasksOK(rec[r], task[r]) /\ rec[r].gen \in DOMAIN task[r] /\ task[r][g].pc = "new"
      BY TaskHasRun DEF Memory!Enter
    <3>2. \A h \in DOMAIN U : h < rec[r].gen => U[h].pc \in {"paused", "over"}
      BY <2>2, <3>1 DEF TasksOK
    <3>3. CASE rec[r].gen = g
      BY <1>2, <2>2, <3>1, <3>2, <3>3 DEF TasksOK
    <3>4. CASE rec[r].gen # g
      BY <2>2, <3>1, <3>2, <3>4 DEF TasksOK
    <3> QED
      BY <3>3, <3>4
  <2> QED
    BY <2>2, <2>3, <2>4, TaskStep
<1> QED
  BY <1>1, <1>2

LEMMA AcquireStep ==
  ASSUME MemoryInv, NEW r \in Runs, NEW g \in DOMAIN task[r], Memory!Acquire(r, g)
  PROVE  MemoryInv'
<1>1. CASE rec[r].gen # g \/ rec[r].status # "queued"
  <2>1. Memory!Leave(r, g)
    BY <1>1 DEF Memory!Acquire
  <2>2. rec[r].status = "running" => rec[r].gen # g
    BY TaskHasRun DEF Memory!Acquire, TasksOK, Memory!Terminal
  <2> QED
    BY <1>1, <2>1, <2>2, LeaveStep
<1>2. CASE ~(rec[r].gen # g \/ rec[r].status # "queued")
  <2>1. PICK Q : Q = [rec[r] EXCEPT !.status = "running"]
    OBVIOUS
  <2>2. PICK U : U = Moved(task[r], g, "run")
    OBVIOUS
  <2>3. RunInv(r, Q, U, sub[r], waiting)
    BY <1>2, <2>1, <2>2, ShapeOfRun, AcquireKeeps DEF Memory!Acquire
  <2>4. /\ rec' = [rec EXCEPT ![r] = Q] /\ task' = [task EXCEPT ![r] = U]
        /\ UNCHANGED <<sub, waiting>>
    BY <1>2, <2>1, <2>2, ToIs DEF Memory!Acquire
  <2>5. rec'[r] = Q /\ task'[r] = U /\ sub'[r] = sub[r] /\ waiting' = waiting
    BY <2>4, ShapeOfRun
  <2>6. About(r)
    BY <2>4, <2>5, ShapeOfRun DEF About, MemoryInv
  <2> QED
    BY <2>3, <2>5, <2>6, Frame
<1> QED
  BY <1>1, <1>2

LEMMA ProduceStep ==
  ASSUME MemoryInv, NEW r \in Runs, NEW g \in DOMAIN task[r], Memory!Produce(r, g)
  PROVE  MemoryInv'
<1>1. PICK kind \in {"data", "done", "oversize"} :
        rec' = [rec EXCEPT ![r] =
                  [Memory!Append1(rec[r], IF kind = "oversize" THEN "error" ELSE kind)
                     EXCEPT !.broken = @ \/ kind = "oversize"]]
  BY DEF Memory!Produce
<1>2. PICK k \in {"data", "done", "error"} : k = IF kind = "oversize" THEN "error" ELSE kind
  OBVIOUS
<1>3. PICK b \in BOOLEAN : b <=> Memory!Append1(rec[r], k).broken \/ kind = "oversize"
  OBVIOUS
<1>4. PICK Q : Q = [Memory!Append1(rec[r], k) EXCEPT !.broken = b]
  OBVIOUS
<1>5. rec' = [rec EXCEPT ![r] = Q]
  <2>1. (Memory!Append1(rec[r], k).broken \/ kind = "oversize") = b
    BY <1>3
  <2> QED
    BY <1>1, <1>2, <1>4, <2>1
<1>6. PICK U : U = [task[r] EXCEPT ![g].data = @ + 1]
  OBVIOUS
<1>7. task' = [task EXCEPT ![r] = U] /\ UNCHANGED <<sub, waiting>>
  BY <1>6 DEF Memory!Produce
<1>8. RunInv(r, Q, U, sub[r], waiting)
  BY <1>4, <1>6, ShapeOfRun, ProduceKeeps DEF Memory!Produce
<1>9. rec'[r] = Q /\ task'[r] = U /\ sub'[r] = sub[r] /\ waiting' = waiting
  BY <1>5, <1>7, ShapeOfRun
<1>10. About(r)
  BY <1>5, <1>7, <1>9, ShapeOfRun DEF About, MemoryInv
<1> QED
  BY <1>8, <1>9, <1>10, Frame

LEMMA PauseStep ==
  ASSUME MemoryInv, NEW r \in Runs, NEW g \in DOMAIN task[r], Memory!Pause(r, g)
  PROVE  MemoryInv'
<1>1. PICK Q : Q = [Memory!Append1(rec[r], "question") EXCEPT !.status = "waiting", !.done = FALSE]
  OBVIOUS
<1>2. PICK U : U = Moved(task[r], g, "paused")
  OBVIOUS
<1>3. RunInv(r, Q, U, sub[r], waiting)
  BY <1>1, <1>2, ShapeOfRun, PauseKeeps DEF Memory!Pause
<1>4. rec' = [rec EXCEPT ![r] = Q] /\ task' = [task EXCEPT ![r] = U] /\ UNCHANGED <<sub, waiting>>
  BY <1>1, <1>2, ToIs DEF Memory!Pause
<1>5. rec'[r] = Q /\ task'[r] = U /\ sub'[r] = sub[r] /\ waiting' = waiting
  BY <1>4, ShapeOfRun
<1>6. About(r)
  BY <1>4, <1>5, ShapeOfRun DEF About, MemoryInv
<1> QED
  BY <1>3, <1>5, <1>6, Frame

(* A status that is written is one of the ended ones. *)
LEMMA StatusIs ==
  ASSUME NEW R \in RunRecords, EmittedOK(R), NEW st \in Memory!Terminal,
         NEW Q, Q = [R EXCEPT !.status = st]
  PROVE  /\ Q \in RunRecords /\ Q.status = st /\ Q.gen = R.gen /\ Q.answered = R.answered
         /\ Q.log = R.log /\ Q.emitted = R.emitted /\ EmittedOK(Q)
         /\ Q.status \in Memory!Terminal
<1>1. /\ Q \in RunRecords /\ Q.status = st /\ Q.gen = R.gen /\ Q.answered = R.answered
      /\ Q.log = R.log /\ Q.emitted = R.emitted
  BY DEF RunRecords, Statuses
<1> QED
  BY <1>1 DEF EmittedOK

Marked(R, st) == [R EXCEPT !.status = st]

LEMMA ReturnsStep ==
  ASSUME MemoryInv, NEW r \in Runs, NEW g \in DOMAIN task[r], Memory!Returns(r, g)
  PROVE  MemoryInv'
<1>0. rec[r] \in RunRecords /\ EmittedOK(rec[r]) /\ rec[r].log \in Seq(Kinds)
  BY ShapeOfRun
<1>1. CASE rec[r].gen # g \/ rec[r].status = "waiting"
  <2>1. Memory!Leave(r, g)
    BY <1>1 DEF Memory!Returns
  <2>2. rec[r].status = "queued" => rec[r].gen # g
    BY TaskHasRun DEF Memory!Returns, TasksOK, Memory!Terminal
  <2>3. rec[r].status = "running" => rec[r].gen # g
    BY <1>1
  <2> QED
    BY <2>1, <2>2, <2>3, LeaveStep
<1>2. CASE ~(rec[r].gen # g \/ rec[r].status = "waiting")
  <2>1. PICK rc : rc = IF r \in StreamRuns /\ ~rec[r].emitted
                       THEN Memory!Append1(rec[r], "done") ELSE rec[r]
    OBVIOUS
  <2>2. /\ rc \in RunRecords /\ rc.gen = rec[r].gen /\ rc.answered = rec[r].answered
        /\ EmittedOK(rc) /\ Extends(rec[r].log, rc.log) /\ (r \in StreamRuns => rc.emitted)
    <3>1. CASE r \in StreamRuns /\ ~rec[r].emitted
      <4>1. rc = Memory!Append1(rec[r], "done")
        BY <2>1, <3>1
      <4>2. rc \in RunRecords /\ rc.gen = rec[r].gen /\ rc.answered = rec[r].answered
        BY <1>0, <4>1, Append1Is DEF Kinds
      <4>3. EmittedOK(rc) /\ Extends(rec[r].log, rc.log) /\ rc.emitted
        BY <1>0, <4>1, AppendEmits
      <4> QED
        BY <4>2, <4>3
    <3>2. CASE ~(r \in StreamRuns /\ ~rec[r].emitted)
      BY <1>0, <2>1, <3>2 DEF Extends
    <3> QED
      BY <3>1, <3>2
  <2>3. PICK st \in Memory!Terminal : st = IF rc.broken THEN "failed" ELSE "completed"
    BY DEF Memory!Terminal
  <2>4. PICK Q : Q = [rc EXCEPT !.status = st]
    OBVIOUS
  <2>5. Memory!Finish(r, g, Q) /\ waiting' = waiting
    BY <1>2, <2>1, <2>3, <2>4 DEF Memory!Returns
  <2>6. /\ Q \in RunRecords /\ Q.gen = rc.gen /\ Q.answered = rc.answered
        /\ Q.log = rc.log /\ Q.emitted = rc.emitted /\ EmittedOK(Q)
        /\ Q.status \in Memory!Terminal
    BY <2>2, <2>4, StatusIs
  <2>7. rec[r].status # "absent"
    BY TaskHasRun
  <2> QED
    BY <1>2, <2>2, <2>5, <2>6, <2>7, FinishStep
<1> QED
  BY <1>1, <1>2

LEMMA RaisesStep ==
  ASSUME MemoryInv, NEW r \in Runs, NEW g \in DOMAIN task[r], Memory!Raises(r, g)
  PROVE  MemoryInv'
<1>0. rec[r] \in RunRecords /\ EmittedOK(rec[r])
  BY ShapeOfRun
<1>1. CASE rec[r].status = "waiting"
  <2>1. Memory!Leave(r, g)
    BY <1>1 DEF Memory!Raises
  <2> QED
    BY <1>1, <2>1, LeaveStep
<1>2. CASE rec[r].status # "waiting"
  <2>1. PICK st \in {"timed_out", "failed"} :
          /\ Memory!Finish(r, g, Memory!WithError(r, [rec[r] EXCEPT !.status = st]))
          /\ waiting' = IF rec[r].gen # g THEN waiting \cup {r} ELSE waiting
    BY <1>2 DEF Memory!Raises
  <2>2. PICK Q : Q = Memory!WithError(r, Marked(rec[r], st))
    OBVIOUS
  <2>3. /\ Q \in RunRecords /\ Q.status = st /\ Q.status \in Memory!Terminal
        /\ Q.gen = rec[r].gen /\ Q.answered = rec[r].answered
        /\ EmittedOK(Q) /\ Extends(rec[r].log, Q.log) /\ (r \in StreamRuns => Q.emitted)
    <3>1. st \in Memory!Terminal
      BY DEF Memory!Terminal
    <3>2. PICK P : P = Marked(rec[r], st)
      OBVIOUS
    <3>3. /\ P \in RunRecords /\ P.status = st /\ P.gen = rec[r].gen
          /\ P.answered = rec[r].answered /\ P.log = rec[r].log /\ EmittedOK(P)
      BY <1>0, <3>1, <3>2, StatusIs DEF Marked
    <3>4. Q = Memory!WithError(r, P)
      BY <2>2, <3>2
    <3> QED
      BY <3>1, <3>3, <3>4, WithErrorIs
  <2>4. waiting' \in {waiting, waiting \cup {r}} /\ (r \notin waiting' => rec[r].gen = g)
    BY <2>1
  <2>5. rec[r].status # "absent"
    BY TaskHasRun
  <2> QED
    <3>1. Memory!Finish(r, g, Q)
      BY <2>1, <2>2 DEF Marked
    <3> QED
      BY <2>3, <2>4, <2>5, <3>1, FinishStep
<1> QED
  BY <1>1, <1>2

LEMMA InterruptedStep ==
  ASSUME MemoryInv, NEW r \in Runs, NEW g \in DOMAIN task[r], Memory!Interrupted(r, g)
  PROVE  MemoryInv'
<1>0. rec[r] \in RunRecords /\ EmittedOK(rec[r])
  BY ShapeOfRun
<1>1. PICK Q : Q = Memory!WithError(r, Marked(rec[r], "cancelled"))
  OBVIOUS
<1>2. /\ Q \in RunRecords /\ Q.status = "cancelled" /\ Q.status \in Memory!Terminal
      /\ Q.gen = rec[r].gen /\ Q.answered = rec[r].answered
      /\ EmittedOK(Q) /\ Extends(rec[r].log, Q.log) /\ (r \in StreamRuns => Q.emitted)
  <2>1. "cancelled" \in Memory!Terminal
    BY DEF Memory!Terminal
  <2>2. PICK P : P = Marked(rec[r], "cancelled")
    OBVIOUS
  <2>3. /\ P \in RunRecords /\ P.status = "cancelled" /\ P.gen = rec[r].gen
        /\ P.answered = rec[r].answered /\ P.log = rec[r].log /\ EmittedOK(P)
    BY <1>0, <2>1, <2>2, StatusIs DEF Marked
  <2>4. Q = Memory!WithError(r, P)
    BY <1>1, <2>2
  <2> QED
    BY <2>1, <2>3, <2>4, WithErrorIs
<1>3. Memory!Finish(r, g, Q) /\ waiting' = waiting
  BY <1>1 DEF Memory!Interrupted, Marked
<1>4. rec[r].status # "absent"
  BY TaskHasRun
<1> QED
  BY <1>2, <1>3, <1>4, FinishStep

LEMMA CancelStep ==
  ASSUME MemoryInv, NEW r \in Runs, Memory!Cancel(r)
  PROVE  MemoryInv'
<1>0. /\ rec[r] \in RunRecords /\ EmittedOK(rec[r]) /\ task[r] \in Seq(TaskRecords)
      /\ RunInv(r, rec[r], task[r], sub[r], waiting) /\ rec[r].gen \in Nat \ {0}
  BY ShapeOfRun DEF RunRecords
<1>1. /\ rec[r].status # "absent" /\ rec[r].status \notin Memory!Terminal
      /\ r \notin waiting /\ Len(task[r]) = rec[r].gen /\ rec[r].gen \in DOMAIN task[r]
  BY <1>0 DEF Memory!Cancel, RunInv, RunShape
<1>2. PICK g : g = rec[r].gen
  OBVIOUS
<1>3. CASE Memory!Live(task[r][g])
  <2>1. PICK t : t = [task[r][g] EXCEPT !.cut = TRUE]
    OBVIOUS
  <2>2. t \in TaskRecords /\ t.pc = task[r][g].pc /\ t.cut
    <3>1. task[r][g] \in TaskRecords
      BY <1>0, <1>1, <1>2
    <3> QED
      BY <2>1, <3>1 DEF TaskRecords
  <2>3. PICK U : U = [task[r] EXCEPT ![g] = t]
    OBVIOUS
  <2>4. /\ U \in Seq(TaskRecords) /\ Len(U) = Len(task[r]) /\ DOMAIN U = DOMAIN task[r]
        /\ U[g] = t /\ \A h \in DOMAIN task[r] : h # g => U[h] = task[r][h]
    BY <1>0, <1>1, <1>2, <2>2, <2>3, SetTask
  <2>5. task' = [task EXCEPT ![r] = U] /\ UNCHANGED <<rec, sub, waiting>>
    BY <1>2, <1>3, <2>1, <2>3 DEF Memory!Cancel
  <2>6. TasksOK(rec[r], U)
    <3>1. TasksOK(rec[r], task[r])
      BY <1>0, <1>1 DEF RunInv
    <3>2. \A h \in DOMAIN U : h < rec[r].gen => U[h].pc \in {"paused", "over"}
      BY <1>2, <2>4, <3>1 DEF TasksOK
    <3> QED
      BY <1>2, <2>2, <2>4, <3>1, <3>2 DEF TasksOK
  <2> QED
    BY <2>4, <2>5, <2>6, TaskStep
<1>4. CASE ~Memory!Live(task[r][g])
  <2>1. PICK W : W = Memory!WithError(r, Marked(rec[r], "cancelled"))
    OBVIOUS
  <2>2. /\ W \in RunRecords /\ W.status = "cancelled" /\ W.status \in Memory!Terminal
        /\ W.gen = rec[r].gen /\ W.answered = rec[r].answered
        /\ EmittedOK(W) /\ Extends(rec[r].log, W.log) /\ (r \in StreamRuns => W.emitted)
    <3>1. "cancelled" \in Memory!Terminal
      BY DEF Memory!Terminal
    <3>2. PICK P : P = Marked(rec[r], "cancelled")
      OBVIOUS
    <3>3. /\ P \in RunRecords /\ P.status = "cancelled" /\ P.gen = rec[r].gen
          /\ P.answered = rec[r].answered /\ P.log = rec[r].log /\ EmittedOK(P)
      BY <1>0, <3>1, <3>2, StatusIs DEF Marked
    <3>4. W = Memory!WithError(r, P)
      BY <2>1, <3>2
    <3> QED
      BY <3>1, <3>3, <3>4, WithErrorIs
  <2>3. PICK Q : Q = [W EXCEPT !.done = TRUE, !.by = g]
    OBVIOUS
  <2>4. /\ Q \in RunRecords /\ Q.status = "cancelled" /\ Q.done /\ Q.gen = rec[r].gen
        /\ Q.answered = rec[r].answered /\ Q.log = W.log /\ Q.emitted = W.emitted
    BY <1>0, <1>2, <2>2, <2>3 DEF RunRecords
  <2>5. EmittedOK(Q) /\ Q.status \in Memory!Terminal
    BY <2>2, <2>4 DEF EmittedOK, Memory!Terminal
  <2>6. RunInv(r, Q, task[r], sub[r], waiting)
    BY <1>0, <1>1, <2>2, <2>4, <2>5, RunEnds
  <2>7. rec' = [rec EXCEPT ![r] = Q] /\ UNCHANGED <<task, sub, waiting>>
    BY <1>2, <1>4, <2>1, <2>3 DEF Memory!Cancel, Marked
  <2>8. rec'[r] = Q /\ task'[r] = task[r] /\ sub'[r] = sub[r] /\ waiting' = waiting
    BY <2>7, ShapeOfRun
  <2>9. About(r)
    BY <2>7, <2>8, ShapeOfRun DEF About, MemoryInv
  <2> QED
    BY <2>6, <2>8, <2>9, Frame
<1> QED
  BY <1>3, <1>4

LEMMA ShutdownStep ==
  ASSUME MemoryInv, Memory!Shutdown
  PROVE  MemoryInv'
<1>1. ASSUME NEW r \in Runs
      PROVE  RunInv(r, rec'[r], task'[r], sub'[r], waiting')
  <2>0. /\ RunInv(r, rec[r], task[r], sub[r], waiting) /\ task[r] \in Seq(TaskRecords)
    BY ShapeOfRun
  <2>1. PICK U : U = task'[r]
    OBVIOUS
  <2>2. U = [g \in DOMAIN task[r] |->
               [task[r][g] EXCEPT !.cut = @ \/ (g = rec[r].gen /\ task[r][g].pc # "over")]]
    BY <2>1 DEF Memory!Shutdown
  <2>3. \A g \in DOMAIN task[r] : /\ U[g] \in TaskRecords /\ U[g].pc = task[r][g].pc
                                  /\ task[r][g].cut => U[g].cut
    <3> TAKE g \in DOMAIN task[r]
    <3>1. task[r][g] \in TaskRecords
      BY <2>0
    <3>2. PICK c \in BOOLEAN : c <=> task[r][g].cut \/ (g = rec[r].gen /\ task[r][g].pc # "over")
      OBVIOUS
    <3>3. U[g] = [task[r][g] EXCEPT !.cut = c]
      <4>1. (task[r][g].cut \/ (g = rec[r].gen /\ task[r][g].pc # "over")) = c
        BY <3>2
      <4> QED
        BY <2>2, <4>1
    <3>4. U[g] \in TaskRecords /\ U[g].pc = task[r][g].pc /\ U[g].cut = c
      BY <3>1, <3>3 DEF TaskRecords
    <3> QED
      BY <3>2, <3>4
  <2>4. U \in Seq(TaskRecords) /\ Len(U) = Len(task[r]) /\ DOMAIN U = DOMAIN task[r]
    <3>1. DOMAIN task[r] = 1 .. Len(task[r]) /\ Len(task[r]) \in Nat
      BY <2>0
    <3>2. U \in [1 .. Len(task[r]) -> TaskRecords]
      BY <2>2, <2>3, <3>1
    <3> QED
      BY <3>1, <3>2
  <2>5. r \notin waiting => TasksOK(rec[r], U)
    <3> SUFFICES ASSUME r \notin waiting PROVE TasksOK(rec[r], U)
      OBVIOUS
    <3>1. TasksOK(rec[r], task[r])
      BY <2>0 DEF RunInv
    <3>2. \A h \in DOMAIN U : h < rec[r].gen => U[h].pc \in {"paused", "over"}
      BY <2>3, <2>4, <3>1 DEF TasksOK
    <3>3. rec[r].status # "absent" => rec[r].gen \in DOMAIN task[r]
      BY <2>0 DEF RunInv, RunShape, RunRecords
    <3> QED
      BY <2>3, <3>1, <3>2, <3>3 DEF TasksOK
  <2>6. RunInv(r, rec[r], U, sub[r], waiting)
    BY <2>0, <2>4, <2>5, TasksMove
  <2> QED
    BY <2>1, <2>6 DEF Memory!Shutdown
<1> QED
  BY <1>1 DEF MemoryInv, Memory!Shutdown

LEMMA MemoryStep ==
  ASSUME Buffer \in Nat \ {0}, MemoryInv, [Memory!Next]_(Memory!vars)
  PROVE  MemoryInv'
<1>1. CASE UNCHANGED Memory!vars
  BY <1>1 DEF Memory!vars, MemoryInv
<1>2. ASSUME NEW r \in Runs, NEW g \in DOMAIN task[r], Memory!Execute(r, g)
      PROVE  MemoryInv'
  BY <1>2, EnterStep, AcquireStep, ProduceStep, PauseStep, ReturnsStep, RaisesStep,
     InterruptedStep DEF Memory!Execute
<1>3. ASSUME NEW r \in Runs,
             Memory!Start(r) \/ Memory!Cancel(r) \/ Memory!Cleanup(r) \/ Memory!Poll(r)
               \/ Memory!Deliver(r)
      PROVE  MemoryInv'
  BY <1>3, StartStep, CancelStep, CleanupStep, PollStep, DeliverStep
<1> QED
  BY <1>1, <1>2, <1>3, ResumeStep, SubscribeStep, ShutdownStep DEF Memory!Next

LEMMA MemoryInit ==
  Memory!Init => MemoryInv
<1> SUFFICES ASSUME Memory!Init PROVE MemoryInv
  OBVIOUS
<1>1. ASSUME NEW r \in Runs PROVE RunInv(r, rec[r], task[r], sub[r], waiting)
  <2>1. rec[r] = Memory!Record("absent") /\ task[r] = <<>> /\ sub[r] = Memory!NoSub /\ r \notin waiting
    BY DEF Memory!Init
  <2>2. RunInv(r, Memory!Record("absent"), <<>>, Memory!NoSub, waiting)
    BY <2>1, FreshRun
  <2> QED
    BY <2>1, <2>2
<1> QED
  BY <1>1 DEF Memory!Init, MemoryInv

LEMMA MemoryGoal ==
  ASSUME StreamRuns \subseteq Runs, MemoryInv
  PROVE  Memory!MemorySound
<1>1. ASSUME NEW r \in Runs
      PROVE  /\ RunInv(r, rec[r], task[r], sub[r], waiting)
             /\ rec[r] \in RunRecords /\ task[r] \in Seq(TaskRecords)
             /\ sub[r] \in Subscriptions
  BY ShapeOfRun
<1>2. Memory!TypeOK
  <2>1. \A S : Memory!Cardinality(S) = Cardinality(S)
    BY DEF Memory!Cardinality, Cardinality
  <2>2. ASSUME NEW r \in Runs
        PROVE  /\ rec[r].status \in Memory!Terminal \cup {"absent", "queued", "running", "waiting"}
               /\ rec[r].status # "absent" => Len(task[r]) = rec[r].gen
               /\ rec[r].gen = 1 + Cardinality(rec[r].answered)
               /\ sub[r].pc \in {"off", "gap", "poll", "deliver", "closed"}
    BY <1>1 DEF RunInv, RunShape, RunRecords, Subscriptions, Statuses
  <2> QED
    BY <2>1, <2>2 DEF Memory!TypeOK, MemoryInv
<1>3. ASSUME NEW r \in Runs \ waiting
      PROVE  /\ TasksOK(rec[r], task[r]) /\ LogOK(r, rec[r])
             /\ DOMAIN task[r] = IF rec[r].status = "absent" THEN {} ELSE 1 .. rec[r].gen
             /\ rec[r].gen \in Nat \ {0}
  BY <1>1 DEF RunInv, RunShape, RunRecords
<1>4. Memory!EndIsAnnounced
  <2> SUFFICES ASSUME NEW r \in Runs \ waiting
               PROVE  /\ rec[r].done <=> rec[r].status \in Memory!Terminal
                      /\ rec[r].done /\ rec[r].status # "cancelled" => rec[r].by = rec[r].gen
                      /\ rec[r].done /\ r \in StreamRuns => "done" \in Memory!Range(rec[r].log)
    BY DEF Memory!EndIsAnnounced
  <2>1. /\ rec[r].done <=> rec[r].status \in Memory!Terminal
        /\ rec[r].done /\ rec[r].status # "cancelled" => rec[r].by = rec[r].gen
    BY <1>3 DEF TasksOK
  <2>2. rec[r].done /\ r \in StreamRuns => \E i \in DOMAIN rec[r].log : rec[r].log[i] = "done"
    BY <1>3, <2>1 DEF LogOK, EmittedOK
  <2> QED
    BY <2>1, <2>2 DEF Memory!Range
<1>5. Memory!OneAtWork
  <2> SUFFICES ASSUME NEW r \in Runs \ waiting
               PROVE  /\ rec[r].status = "running" => task[r][rec[r].gen].pc = "run"
                      /\ \A g \in DOMAIN task[r] : task[r][g].pc = "run" => g = rec[r].gen
    BY DEF Memory!OneAtWork
  <2>1. \A g \in DOMAIN task[r] : g < rec[r].gen \/ g = rec[r].gen
    BY <1>3
  <2> QED
    BY <1>3, <2>1 DEF TasksOK
<1>6. Memory!Accounted
  <2> SUFFICES ASSUME NEW r \in Runs \ waiting, rec[r].status \in {"queued", "running"}
               PROVE  \/ \E g \in DOMAIN task[r] : Memory!Live(task[r][g])
                      \/ rec[r].status = "queued" /\ task[r][rec[r].gen].cut
    BY DEF Memory!Accounted
  <2>1. rec[r].gen \in DOMAIN task[r]
    BY <1>3
  <2>2. \/ task[r][rec[r].gen].pc \in {"new", "sem", "run"}
        \/ rec[r].status = "queued" /\ task[r][rec[r].gen].cut
    BY <1>3 DEF TasksOK
  <2> QED
    BY <2>1, <2>2 DEF Memory!Live
<1>7. Memory!Delivered
  <2> SUFFICES ASSUME NEW r \in StreamRuns
               PROVE  /\ \A i, j \in DOMAIN sub[r].got : i < j => sub[r].got[i] < sub[r].got[j]
                      /\ sub[r].pc = "closed" /\ sub[r].got # <<>> =>
                           /\ sub[r].cursor = Memory!Last(sub[r].got)
                           /\ rec[r].log[sub[r].cursor] \in {"done", "error", "question"}
    BY DEF Memory!Delivered
  <2>1. SubOK(r, rec[r], sub[r])
    BY <1>1 DEF RunInv
  <2> QED
    BY <2>1 DEF SubOK, Ending, Memory!Last
<1> QED
  BY <1>2, <1>4, <1>5, <1>6, <1>7 DEF Memory!MemorySound

(* Of every registry in one process, whatever the order in which tasks that *)
(* pause, resume, fail late and are cancelled take their steps: done is set *)
(* exactly when a run ended and by the generation that is current, at most  *)
(* one task works for it, none is forgotten, a streamed run that ended has  *)
(* its DONE, and a client that follows one receives its events in order and *)
(* is left only at the end of the run or at a question (MemorySound).       *)
LEMMA RegistryOK ==
  ASSUME Buffer \in Nat \ {0}, StreamRuns \subseteq Runs
  PROVE  Memory!Spec => []Memory!MemorySound
<1>1. Memory!Init => MemoryInv
  BY MemoryInit
<1>2. MemoryInv /\ [Memory!Next]_(Memory!vars) => MemoryInv'
  BY MemoryStep
<1>3. MemoryInv => Memory!MemorySound
  BY MemoryGoal
<1> QED
  BY <1>1, <1>2, <1>3, PTL DEF Memory!Spec

THEOREM RegistryInMemory ==
  ASSUME Buffer \in Nat \ {0}, StreamRuns \subseteq Runs
  PROVE  PlatformSpec => []MemorySound
<1>1. part = "memory" /\ [part' = part]_part => (part = "memory")'
  OBVIOUS
<1>2. ~(part = "memory") /\ [part' = part]_part => (~(part = "memory"))'
  OBVIOUS
<1>3. Memory!MemorySound \/ ~(part = "memory") => MemorySound
  BY DEF MemorySound
<1> QED
  BY <1>1, <1>2, <1>3, RegistryOK, PTL DEF PlatformSpec

-----------------------------------------------------------------------------
(***************************************************************************)
(* Lemmas on finite sets of numbers: induction in the form of minimal      *)
(* elements of a set, which takes no operator as a parameter.              *)
(***************************************************************************)
LEMMA LeastNatural ==
  ASSUME NEW T \in SUBSET Nat, T # {}
  PROVE  \E m \in T : \A k \in T : m <= k
<1>1. PICK Q : /\ IsWellFoundedOn(Q, Nat)
               /\ \A x, y \in Nat : <<y, x>> \in Q <=> y < x
  <2>1. \A x, y \in Nat : <<y, x>> \in OpToRel(<, Nat) <=> y < x
    BY DEF OpToRel
  <2> QED
    BY <2>1, NatLessThanWellFounded
<1>2. PICK m \in T : \A y \in T : ~ (<<y, m>> \in Q)
  BY <1>1, WFMin
<1>3. \A k \in T : ~ (k < m)
  BY <1>1, <1>2
<1>4. \A k \in T : m <= k
  BY <1>3
<1> QED
  BY <1>4

LEMMA GreatestUpTo ==
  ASSUME NEW n \in Nat, NEW S \in SUBSET (0 .. n), S # {}
  PROVE  \E m \in S : \A k \in S : k <= m
<1> DEFINE T == {n - k : k \in S}
<1>1. T \in SUBSET Nat /\ T # {}
  <2>1. \A k \in S : n - k \in Nat
    OBVIOUS
  <2>2. T \subseteq Nat
    BY <2>1
  <2> QED
    BY <2>2
<1>2. PICK d \in T : \A e \in T : d <= e
  BY <1>1, LeastNatural
<1>3. PICK m \in S : d = n - m
  BY <1>2
<1>4. ASSUME NEW k \in S
      PROVE  k <= m
  <2>1. n - k \in T
    OBVIOUS
  <2>2. n - m <= n - k
    BY <2>1, <1>2, <1>3
  <2> QED
    BY <2>2
<1> QED
  BY <1>4

LEMMA InitialPart ==
  ASSUME NEW n \in Nat, NEW S \in SUBSET (0 .. n)
  PROVE  IsFiniteSet(S)
<1>1. IsFiniteSet(0 .. n)
  BY FS_Interval
<1> QED
  BY <1>1, FS_Subset

LEMMA OutboxCardinality ==
  ASSUME NEW S
  PROVE  Outbox!Cardinality(S) = Cardinality(S)
  BY DEF Outbox!Cardinality, Cardinality

LEMMA FirstOfSize ==
  ASSUME NEW n \in Nat, NEW S \in SUBSET (0 .. n), NEW b \in Nat, NEW F, F = Outbox!FirstOf(S, b)
  PROVE  F \subseteq S /\ IsFiniteSet(F) /\ Cardinality(F) <= b
<1>1. F = {i \in S : Cardinality({j \in S : j < i}) < b}
  BY OutboxCardinality DEF Outbox!FirstOf
<1>2. F \subseteq S /\ F \in SUBSET (0 .. n)
  BY <1>1
<1>3. IsFiniteSet(F)
  BY <1>2, InitialPart
<1>4. CASE F = {}
  BY <1>4, <1>3, FS_EmptySet
<1>5. CASE F # {}
  <2>1. PICK m \in F : \A k \in F : k <= m
    BY <1>2, <1>5, GreatestUpTo
  <2> DEFINE Below == {j \in S : j < m}
  <2>2. Cardinality(Below) < b
    BY <1>1, <2>1
  <2>3. IsFiniteSet(Below)
    BY InitialPart
  <2>4. F \ {m} \subseteq Below
    BY <1>2, <2>1
  <2>5. Cardinality(F \ {m}) <= Cardinality(Below) /\ IsFiniteSet(F \ {m})
    BY <2>3, <2>4, FS_Subset
  <2>6. Cardinality(F \ {m}) = Cardinality(F) - 1
    BY <1>3, <2>1, FS_RemoveElement
  <2>7. Cardinality(F) \in Nat /\ Cardinality(Below) \in Nat
    BY <1>3, <2>3, FS_CardinalityType
  <2>8. Cardinality(F) <= b
    BY <2>2, <2>5, <2>6, <2>7
  <2> QED
    BY <1>2, <1>3, <2>8
<1> QED
  BY <1>2, <1>3, <1>4, <1>5

LEMMA FirstOfClosed ==
  ASSUME NEW n \in Nat, NEW S \in SUBSET (0 .. n), NEW b \in Nat, NEW F, F = Outbox!FirstOf(S, b),
         NEW i \in F, NEW j \in S, j <= i
  PROVE  j \in F
<1>1. F = {k \in S : Cardinality({l \in S : l < k}) < b}
  BY OutboxCardinality DEF Outbox!FirstOf
<1> DEFINE Under(k) == {l \in S : l < k}
<1>2. Under(j) \subseteq Under(i) /\ Under(i) \in SUBSET (0 .. n) /\ i \in S
  <2>1. i \in S /\ i \in Int /\ j \in Int
    BY <1>1
  <2>2. \A l \in S : l \in Int
    OBVIOUS
  <2>3. \A l \in S : l < j => l < i
    BY <2>1, <2>2
  <2> QED
    BY <2>1, <2>3
<1>3. IsFiniteSet(Under(i))
  BY <1>2, InitialPart
<1>4. Cardinality(Under(j)) <= Cardinality(Under(i)) /\ IsFiniteSet(Under(j))
  BY <1>2, <1>3, FS_Subset
<1>5. Cardinality(Under(j)) \in Nat /\ Cardinality(Under(i)) \in Nat
  BY <1>3, <1>4, FS_CardinalityType
<1>6. Cardinality(Under(i)) < b
  BY <1>1
<1>7. Cardinality(Under(j)) < b
  BY <1>4, <1>5, <1>6
<1> QED
  BY <1>1, <1>7

LEMMA OutboxMax ==
  ASSUME NEW n \in Nat, NEW S \in SUBSET (0 .. n), S # {}
  PROVE  Outbox!Max(S) \in S /\ \A k \in S : k <= Outbox!Max(S)
<1>1. PICK m \in S : \A k \in S : k <= m
  BY GreatestUpTo
<1>2. m \in S /\ \A k \in S : m >= k
  BY <1>1
<1>3. Outbox!Max(S) = CHOOSE x \in S : \A k \in S : x >= k
  BY DEF Outbox!Max
<1>4. Outbox!Max(S) \in S /\ \A k \in S : Outbox!Max(S) >= k
  BY <1>2, <1>3
<1> QED
  BY <1>4


-----------------------------------------------------------------------------
(***************************************************************************)
(* The audit relay.  What a relay has in hand was delivered to the group,  *)
(* never exceeds its batch, and is acknowledged only behind a send that    *)
(* Kafka took.                                                             *)
(***************************************************************************)
Hands == {"reclaimed", "fresh", "ack reclaimed", "ack fresh"}
RelayRecords ==
  [pc : Hands \cup {"claim", "read"}, batch : SUBSET Nat, room : 0 .. BatchSize, cursor : Nat, due : BOOLEAN]

RelayOK(R, g, Published) ==
  /\ R \in RelayRecords
  /\ R.batch \subseteq 1 .. g
  /\ R.pc \in Hands => Cardinality(R.batch) <= R.room
  /\ R.pc \in {"ack reclaimed", "ack fresh"} =>
       \A e \in Outbox!Head1(R.batch) : e \in Published /\ e \notin Malformed

Numbering ==
  /\ added \in Nat /\ given \in 0 .. added
  /\ stream \subseteq 1 .. added
  /\ idle \subseteq pend /\ pend \subseteq 1 .. given
  /\ topic \in Seq(1 .. added)

OutboxInv ==
  /\ Numbering
  /\ Outbox!NothingLost
  /\ relay \in [Relays -> RelayRecords]
  /\ \A c \in Relays : RelayOK(relay[c], given, Outbox!Range(topic))

LEMMA OutboxInit ==
  ASSUME BatchSize \in Nat, Outbox!Init
  PROVE  OutboxInv
<1>1. Cardinality({}) = 0
  BY FS_EmptySet
<1>2. Outbox!Idle \in RelayRecords
  BY DEF Outbox!Idle, RelayRecords, Hands
<1>3. RelayOK(Outbox!Idle, given, Outbox!Range(topic))
  BY <1>1, <1>2 DEF RelayOK, Outbox!Idle, Hands
<1>4. relay = [c \in Relays |-> Outbox!Idle]
  BY DEF Outbox!Init
<1>5. Numbering
  BY DEF Outbox!Init, Numbering
<1>6. Outbox!NothingLost
  BY DEF Outbox!Init, Outbox!NothingLost
<1> QED
  BY <1>2, <1>3, <1>4, <1>5, <1>6 DEF OutboxInv

LEMMA RelayGrows ==
  ASSUME NEW R, NEW g \in Int, NEW P, RelayOK(R, g, P), NEW h \in Int, g <= h, NEW Q, P \subseteq Q
  PROVE  RelayOK(R, h, Q)
<1>1. R.batch \subseteq 1 .. h
  <2>1. R.batch \subseteq 1 .. g
    BY DEF RelayOK
  <2>2. \A e \in 1 .. g : e \in 1 .. h
    OBVIOUS
  <2> QED
    BY <2>1, <2>2
<1> QED
  BY <1>1 DEF RelayOK

(* What a step of one relay has to show when the outbox grows or stays. *)
LEMMA OutboxFrame ==
  ASSUME OutboxInv, Numbering', Outbox!NothingLost',
         given <= given', Outbox!Range(topic) \subseteq Outbox!Range(topic'),
         NEW c \in Relays,
         \E X : relay' = [relay EXCEPT ![c] = X] /\ RelayOK(X, given', Outbox!Range(topic'))
  PROVE  OutboxInv'
<1>1. relay \in [Relays -> RelayRecords] /\ \A d \in Relays : RelayOK(relay[d], given, Outbox!Range(topic))
  BY DEF OutboxInv
<1>2. PICK X : relay' = [relay EXCEPT ![c] = X] /\ RelayOK(X, given', Outbox!Range(topic'))
  OBVIOUS
<1>3. given \in Int /\ given' \in Int
  BY DEF OutboxInv, Numbering
<1>4. X \in RelayRecords
  BY <1>2 DEF RelayOK
<1>5. relay' \in [Relays -> RelayRecords]
  BY <1>1, <1>2, <1>4
<1>6. ASSUME NEW d \in Relays
      PROVE  RelayOK(relay'[d], given', Outbox!Range(topic'))
  <2>1. CASE d = c
    <3>1. relay'[d] = X
      BY <1>1, <1>2, <2>1
    <3> QED
      BY <1>2, <3>1
  <2>2. CASE d # c
    <3>1. relay'[d] = relay[d]
      BY <1>1, <1>2, <2>2
    <3>2. RelayOK(relay[d], given, Outbox!Range(topic))
      BY <1>1
    <3>3. RelayOK(relay[d], given', Outbox!Range(topic'))
      BY <1>3, <3>2, RelayGrows
    <3> QED
      BY <3>1, <3>3
  <2> QED
    BY <2>1, <2>2
<1> QED
  BY <1>5, <1>6 DEF OutboxInv

LEMMA OutboxAdd ==
  ASSUME OutboxInv, Outbox!Add
  PROVE  OutboxInv'
<1>1. /\ added' = added + 1 /\ stream' = stream \cup {added + 1}
      /\ given' = given /\ pend' = pend /\ idle' = idle /\ topic' = topic /\ relay' = relay
  BY DEF Outbox!Add
<1>2. Numbering /\ Outbox!NothingLost
  BY DEF OutboxInv
<1>3. topic \in Seq(1 .. added + 1)
  BY <1>2 DEF Numbering
<1>4. Numbering'
  BY <1>1, <1>2, <1>3 DEF Numbering
<1>5. 1 .. added + 1 = (1 .. added) \cup {added + 1}
  BY <1>2 DEF Numbering
<1>6. Outbox!NothingLost'
  BY <1>1, <1>2, <1>5 DEF Outbox!NothingLost, Numbering
<1> QED
  BY <1>1, <1>4, <1>6 DEF OutboxInv

LEMMA OutboxTime ==
  ASSUME OutboxInv, Outbox!Time
  PROVE  OutboxInv'
<1>1. /\ idle' = pend /\ relay' = [c \in Relays |-> [relay[c] EXCEPT !.due = TRUE]]
      /\ stream' = stream /\ added' = added /\ given' = given /\ pend' = pend /\ topic' = topic
  BY DEF Outbox!Time
<1>2. Numbering'
  BY <1>1 DEF OutboxInv, Numbering
<1>3. Outbox!NothingLost'
  BY <1>1 DEF OutboxInv, Outbox!NothingLost
<1>4. ASSUME NEW c \in Relays
      PROVE  RelayOK([relay[c] EXCEPT !.due = TRUE], given, Outbox!Range(topic))
  <2>1. PICK R : R = relay[c]
    OBVIOUS
  <2>2. RelayOK(R, given, Outbox!Range(topic))
    BY <2>1 DEF OutboxInv
  <2>3. R \in RelayRecords
    BY <2>2 DEF RelayOK
  <2>4. PICK X : X = [R EXCEPT !.due = TRUE]
    OBVIOUS
  <2>5. X \in RelayRecords /\ X.pc = R.pc /\ X.batch = R.batch /\ X.room = R.room
    BY <2>3, <2>4 DEF RelayRecords
  <2>6. RelayOK(X, given, Outbox!Range(topic))
    BY <2>2, <2>5 DEF RelayOK
  <2> QED
    BY <2>1, <2>4, <2>6
<1>5. \A c \in Relays : [relay[c] EXCEPT !.due = TRUE] \in RelayRecords
  BY <1>4 DEF RelayOK
<1> QED
  BY <1>1, <1>2, <1>3, <1>4, <1>5 DEF OutboxInv

(* The batch of XAUTOCLAIM. *)
LEMMA OutboxClaim ==
  ASSUME OutboxInv, BatchSize \in Nat, NEW c \in Relays, Outbox!Claim(c)
  PROVE  OutboxInv'
<1>1. PICK R : R = relay[c]
  OBVIOUS
<1>2. RelayOK(R, given, Outbox!Range(topic)) /\ R \in RelayRecords
  BY <1>1 DEF OutboxInv
<1>3. PICK S : S = {i \in idle : i >= relay[c].cursor}
  OBVIOUS
<1>4. PICK F : F = Outbox!FirstOf(S, BatchSize)
  OBVIOUS
<1>5. PICK k : k = Outbox!CursorAfter(F)
  OBVIOUS
<1>6. PICK X : X = [R EXCEPT !.pc = "reclaimed", !.batch = F, !.cursor = k, !.room = BatchSize]
  OBVIOUS
<1>7. /\ idle' = idle \ F /\ relay' = [relay EXCEPT ![c] = X]
      /\ stream' = stream /\ added' = added /\ given' = given /\ pend' = pend /\ topic' = topic
  BY <1>1, <1>3, <1>4, <1>5, <1>6 DEF Outbox!Claim
<1>8. given \in Nat /\ S \in SUBSET (0 .. given) /\ S \subseteq 1 .. given
  <2>1. given \in Nat /\ S \subseteq 1 .. given
    <3>1. S \subseteq idle
      BY <1>3
    <3> QED
      BY <3>1 DEF OutboxInv, Numbering
  <2>2. \A i \in 1 .. given : i \in 0 .. given
    BY <2>1
  <2> QED
    BY <2>1, <2>2
<1>9. F \subseteq S /\ Cardinality(F) <= BatchSize
  BY <1>4, <1>8, FirstOfSize
<1>10. k \in Nat
  <2>1. CASE F = {}
    BY <2>1, <1>5 DEF Outbox!CursorAfter
  <2>2. CASE F # {}
    <3>1. F \in SUBSET (0 .. given)
      BY <1>8, <1>9
    <3>2. Outbox!Max(F) \in F
      BY <1>8, <3>1, <2>2, OutboxMax
    <3>3. \A i \in F : i \in Nat /\ i + 1 \in Nat
      BY <1>8, <3>1
    <3> QED
      BY <1>5, <3>2, <3>3 DEF Outbox!CursorAfter
  <2> QED
    BY <2>1, <2>2
<1>11. F \in SUBSET Nat
  BY <1>8, <1>9
<1>12. X \in RelayRecords /\ X.pc = "reclaimed" /\ X.batch = F /\ X.room = BatchSize
  <2>1. BatchSize \in 0 .. BatchSize
    OBVIOUS
  <2> QED
    BY <1>2, <1>6, <1>10, <1>11, <2>1 DEF RelayRecords, Hands
<1>13. RelayOK(X, given', Outbox!Range(topic'))
  <2>1. F \subseteq 1 .. given
    BY <1>8, <1>9
  <2> QED
    BY <1>7, <1>9, <1>12, <2>1 DEF RelayOK
<1>14. Numbering'
  BY <1>7 DEF OutboxInv, Numbering
<1>15. Outbox!NothingLost'
  BY <1>7 DEF OutboxInv, Outbox!NothingLost
<1>16. given <= given' /\ Outbox!Range(topic) \subseteq Outbox!Range(topic')
  BY <1>7, <1>8
<1> QED
  BY <1>7, <1>13, <1>14, <1>15, <1>16, OutboxFrame

LEMMA OutboxNotDue ==
  ASSUME OutboxInv, BatchSize \in Nat, NEW c \in Relays, Outbox!NotDue(c)
  PROVE  OutboxInv'
<1>1. PICK R : R = relay[c]
  OBVIOUS
<1>2. RelayOK(R, given, Outbox!Range(topic)) /\ R \in RelayRecords
  BY <1>1 DEF OutboxInv
<1>3. PICK X : X = [R EXCEPT !.pc = "read", !.room = BatchSize]
  OBVIOUS
<1>4. /\ relay' = [relay EXCEPT ![c].pc = "read", ![c].room = BatchSize]
      /\ stream' = stream /\ added' = added /\ given' = given /\ pend' = pend /\ idle' = idle /\ topic' = topic
  BY DEF Outbox!NotDue, Outbox!redisVars
<1>5. relay \in [Relays -> RelayRecords]
  BY DEF OutboxInv
<1>6. relay' = [relay EXCEPT ![c] = X]
  BY <1>1, <1>3, <1>4, <1>5
<1>7. X \in RelayRecords /\ X.pc = "read" /\ X.batch = R.batch
  <2>1. BatchSize \in 0 .. BatchSize
    OBVIOUS
  <2> QED
    BY <1>2, <1>3, <2>1 DEF RelayRecords, Hands
<1>8. RelayOK(X, given', Outbox!Range(topic'))
  BY <1>2, <1>4, <1>7 DEF RelayOK, Hands
<1>9. Numbering' /\ given <= given' /\ Outbox!Range(topic) \subseteq Outbox!Range(topic')
  BY <1>4 DEF OutboxInv, Numbering
<1>10. Outbox!NothingLost'
  BY <1>4 DEF OutboxInv, Outbox!NothingLost
<1> QED
  BY <1>4, <1>6, <1>8, <1>9, <1>10, OutboxFrame

(* XREADGROUP delivers from the group's position on, without a gap. *)
LEMMA OutboxRead ==
  ASSUME OutboxInv, BatchSize \in Nat, NEW c \in Relays, Outbox!Read(c)
  PROVE  OutboxInv'
<1>1. PICK R : R = relay[c]
  OBVIOUS
<1>2. RelayOK(R, given, Outbox!Range(topic)) /\ R \in RelayRecords
  BY <1>1 DEF OutboxInv
<1>3. PICK S : S = {i \in stream : i > given}
  OBVIOUS
<1>4. PICK F : F = Outbox!FirstOf(S, R.room)
  OBVIOUS
<1>5. PICK X : X = [R EXCEPT !.pc = "fresh", !.batch = F]
  OBVIOUS
<1>6. /\ given' = (IF F = {} THEN given ELSE Outbox!Max(F)) /\ pend' = pend \cup F
      /\ relay' = [relay EXCEPT ![c].pc = "fresh", ![c].batch = F]
      /\ stream' = stream /\ added' = added /\ idle' = idle /\ topic' = topic
  BY <1>1, <1>3, <1>4 DEF Outbox!Read
<1>7. relay \in [Relays -> RelayRecords] /\ Numbering /\ Outbox!NothingLost
  BY DEF OutboxInv
<1>8. relay' = [relay EXCEPT ![c] = X]
  BY <1>1, <1>5, <1>6, <1>7
<1>9. added \in Nat /\ S \in SUBSET (0 .. added) /\ S \subseteq 1 .. added
  <2>1. added \in Nat /\ S \subseteq 1 .. added
    <3>1. S \subseteq stream
      BY <1>3
    <3> QED
      BY <3>1, <1>7 DEF Numbering
  <2>2. \A i \in 1 .. added : i \in 0 .. added
    BY <2>1
  <2> QED
    BY <2>1, <2>2
<1>10. R.room \in Nat
  BY <1>2 DEF RelayRecords
<1>11. F \subseteq S /\ Cardinality(F) <= R.room
  <2>1. PICK b : b = R.room
    OBVIOUS
  <2>2. b \in Nat /\ F = Outbox!FirstOf(S, b)
    BY <2>1, <1>4, <1>10
  <2>3. F \subseteq S /\ Cardinality(F) <= b
    BY <2>2, <1>9, FirstOfSize
  <2> QED
    BY <2>1, <2>3
<1>12. \A i \in F : i \in Nat /\ i > given /\ i <= added
  BY <1>3, <1>9, <1>11, <1>7 DEF Numbering
<1>13. /\ given' \in given .. added
       /\ \A i \in F : i <= given'
       /\ F # {} => given' \in F
  <2>1. CASE F = {}
    BY <2>1, <1>6, <1>7 DEF Numbering
  <2>2. CASE F # {}
    <3>1. F \in SUBSET (0 .. added)
      BY <1>9, <1>11
    <3>2. Outbox!Max(F) \in F /\ \A i \in F : i <= Outbox!Max(F)
      BY <1>9, <3>1, <2>2, OutboxMax
    <3> QED
      BY <2>2, <1>6, <1>7, <1>12, <3>2 DEF Numbering
  <2> QED
    BY <2>1, <2>2
<1>14. F \subseteq 1 .. given'
  BY <1>7, <1>12, <1>13 DEF Numbering
<1>15. X \in RelayRecords /\ X.pc = "fresh" /\ X.batch = F /\ X.room = R.room
  <2>1. F \in SUBSET Nat
    BY <1>12
  <2> QED
    BY <1>2, <1>5, <2>1 DEF RelayRecords, Hands
<1>16. RelayOK(X, given', Outbox!Range(topic))
  BY <1>11, <1>14, <1>15 DEF RelayOK
<1>17. Numbering'
  BY <1>6, <1>7, <1>13, <1>14 DEF Numbering
<1>18. \A i \in stream : i > given' \/ i \in pend'
  <2> SUFFICES ASSUME NEW i \in stream, i <= given'
               PROVE  i \in pend'
    BY <1>7, <1>13 DEF Numbering
  <2>1. CASE i <= given
    BY <2>1, <1>6, <1>7 DEF Outbox!NothingLost, Numbering
  <2>2. CASE i > given
    <3>1. i \in S
      BY <2>2, <1>3
    <3>2. given' \in F
      BY <2>2, <1>6, <1>7, <1>13 DEF Numbering
    <3>3. i \in F
      BY <1>4, <1>9, <1>10, <3>1, <3>2, FirstOfClosed
    <3> QED
      BY <3>3, <1>6
  <2> QED
    BY <2>1, <2>2, <1>7 DEF Numbering
<1>19. Outbox!NothingLost'
  BY <1>6, <1>7, <1>18 DEF Outbox!NothingLost
<1>20. given <= given'
  BY <1>7, <1>13 DEF Numbering
<1> QED
  BY <1>6, <1>8, <1>16, <1>17, <1>19, <1>20, OutboxFrame

(* The steps that leave Redis and Kafka as they are. *)
LEMMA OutboxStays ==
  ASSUME OutboxInv, UNCHANGED Outbox!redisVars, topic' = topic,
         NEW c \in Relays, NEW X, relay' = [relay EXCEPT ![c] = X], RelayOK(X, given, Outbox!Range(topic))
  PROVE  OutboxInv'
<1>1. /\ stream' = stream /\ added' = added /\ given' = given /\ pend' = pend /\ idle' = idle
  BY DEF Outbox!redisVars
<1>2. Numbering' /\ given <= given' /\ Outbox!Range(topic) \subseteq Outbox!Range(topic')
  BY <1>1 DEF OutboxInv, Numbering
<1>3. Outbox!NothingLost'
  BY <1>1 DEF OutboxInv, Outbox!NothingLost
<1>4. RelayOK(X, given', Outbox!Range(topic'))
  BY <1>1
<1> QED
  BY <1>2, <1>3, <1>4, OutboxFrame

LEMMA SmallerBatch ==
  ASSUME NEW R \in RelayRecords, NEW g \in Nat, R.batch \subseteq 1 .. g, NEW e \in R.batch
  PROVE  /\ Cardinality(R.batch) \in Nat
         /\ Cardinality(R.batch \ {e}) = Cardinality(R.batch) - 1
         /\ Cardinality(R.batch) >= 1
<1>1. PICK B : B = R.batch
  OBVIOUS
<1>2. B \in SUBSET (0 .. g)
  <2>1. \A i \in 1 .. g : i \in 0 .. g
    OBVIOUS
  <2> QED
    BY <1>1, <2>1
<1>3. IsFiniteSet(B) /\ e \in B
  BY <1>1, <1>2, InitialPart
<1>4. Cardinality(B) \in Nat /\ Cardinality(B \ {e}) = Cardinality(B) - 1
  BY <1>3, FS_RemoveElement, FS_CardinalityType
<1>5. B \ {e} \subseteq B /\ IsFiniteSet(B \ {e})
  BY <1>3, FS_Subset
<1>6. Cardinality(B \ {e}) \in Nat
  BY <1>5, FS_CardinalityType
<1> QED
  BY <1>1, <1>4, <1>6

LEMMA OutboxBatchDone ==
  ASSUME OutboxInv, BatchSize \in Nat, NEW c \in Relays, Outbox!BatchDone(c)
  PROVE  OutboxInv'
<1>1. PICK R : R = relay[c]
  OBVIOUS
<1>2. RelayOK(R, given, Outbox!Range(topic)) /\ R \in RelayRecords
  BY <1>1 DEF OutboxInv
<1>3. PICK X : X = [R EXCEPT !.pc = IF R.pc = "reclaimed" /\ R.room > 0 THEN "read" ELSE "claim",
                             !.due = R.due /\ R.pc # "reclaimed"]
  OBVIOUS
<1>4. relay' = [relay EXCEPT ![c] = X] /\ UNCHANGED Outbox!redisVars /\ topic' = topic
  BY <1>1, <1>3 DEF Outbox!BatchDone
<1>5. PICK b \in BOOLEAN : b <=> R.due /\ R.pc # "reclaimed"
  OBVIOUS
<1>6. PICK p \in {"read", "claim"} : p = IF R.pc = "reclaimed" /\ R.room > 0 THEN "read" ELSE "claim"
  OBVIOUS
<1>7. (R.due /\ R.pc # "reclaimed") = b
  BY <1>2, <1>5 DEF RelayRecords
<1>8. X = [R EXCEPT !.pc = p, !.due = b]
  BY <1>3, <1>6, <1>7
<1>9. X \in RelayRecords /\ X.pc = p /\ X.batch = R.batch
  BY <1>2, <1>8 DEF RelayRecords
<1>10. RelayOK(X, given, Outbox!Range(topic))
  BY <1>2, <1>9 DEF RelayOK, Hands
<1> QED
  BY <1>4, <1>10, OutboxStays

LEMMA OutboxSkip ==
  ASSUME OutboxInv, BatchSize \in Nat, NEW c \in Relays, Outbox!Skip(c)
  PROVE  OutboxInv'
<1>1. PICK R : R = relay[c]
  OBVIOUS
<1>2. RelayOK(R, given, Outbox!Range(topic)) /\ R \in RelayRecords
  BY <1>1 DEF OutboxInv
<1>3. PICK e \in Outbox!Head1(R.batch) : relay' = [relay EXCEPT ![c].batch = @ \ {e}]
  BY <1>1 DEF Outbox!Skip
<1>4. UNCHANGED Outbox!redisVars /\ topic' = topic /\ R.pc \in {"reclaimed", "fresh"}
  BY <1>1 DEF Outbox!Skip
<1>5. PICK X : X = [R EXCEPT !.batch = R.batch \ {e}]
  OBVIOUS
<1>6. relay' = [relay EXCEPT ![c] = X]
  BY <1>1, <1>3, <1>5 DEF OutboxInv
<1>7. X \in RelayRecords /\ X.pc = R.pc /\ X.batch = R.batch \ {e} /\ X.room = R.room
  BY <1>2, <1>5 DEF RelayRecords
<1>8. e \in R.batch
  BY <1>3 DEF Outbox!Head1
<1>9. given \in Nat /\ R.batch \subseteq 1 .. given
  <2>1. given \in Nat
    BY DEF OutboxInv, Numbering
  <2>2. R.batch \subseteq 1 .. given
    BY <1>2 DEF RelayOK
  <2> QED
    BY <2>1, <2>2
<1>10. Cardinality(R.batch) \in Nat /\ Cardinality(R.batch \ {e}) = Cardinality(R.batch) - 1
  BY <1>2, <1>8, <1>9, SmallerBatch
<1>11. Cardinality(R.batch) <= R.room /\ R.room \in Int
  <2>1. Cardinality(R.batch) <= R.room
    BY <1>2, <1>4 DEF RelayOK, Hands
  <2>2. R.room \in 0 .. BatchSize
    BY <1>2 DEF RelayRecords
  <2> QED
    BY <2>1, <2>2
<1>12. Cardinality(X.batch) <= X.room
  BY <1>7, <1>10, <1>11
<1>13. RelayOK(X, given, Outbox!Range(topic))
  BY <1>4, <1>7, <1>9, <1>12 DEF RelayOK
<1> QED
  BY <1>4, <1>6, <1>13, OutboxStays

LEMMA OutboxRestart ==
  ASSUME OutboxInv, BatchSize \in Nat, NEW c \in Relays, Outbox!Restart(c)
  PROVE  OutboxInv'
<1>1. Cardinality({}) = 0
  BY FS_EmptySet
<1>2. PICK X : X = Outbox!Idle
  OBVIOUS
<1>3. X \in RelayRecords /\ X.pc = "claim" /\ X.batch = {}
  BY <1>2 DEF Outbox!Idle, RelayRecords, Hands
<1>4. RelayOK(X, given, Outbox!Range(topic))
  BY <1>3 DEF RelayOK, Hands
<1>5. relay' = [relay EXCEPT ![c] = X] /\ UNCHANGED Outbox!redisVars /\ topic' = topic
  BY <1>2 DEF Outbox!Restart
<1> QED
  BY <1>4, <1>5, OutboxStays

LEMMA PublishedGrows ==
  ASSUME NEW S, NEW t \in Seq(S), NEW e \in S
  PROVE  Outbox!Range(Append(t, e)) = Outbox!Range(t) \cup {e}
<1>1. Append(t, e) \in Seq(S) /\ Len(Append(t, e)) = Len(t) + 1 /\ DOMAIN t = 1 .. Len(t) /\ Len(t) \in Nat
  OBVIOUS
<1>2. DOMAIN Append(t, e) = 1 .. Len(t) + 1
  BY <1>1
<1>3. \A i \in 1 .. Len(t) : Append(t, e)[i] = t[i]
  OBVIOUS
<1>4. Append(t, e)[Len(t) + 1] = e
  OBVIOUS
<1>5. 1 .. Len(t) + 1 = (1 .. Len(t)) \cup {Len(t) + 1}
  BY <1>1
<1> QED
  BY <1>1, <1>2, <1>3, <1>4, <1>5 DEF Outbox!Range

(* send_and_wait may or may not reach Kafka, and the relay may or may not learn it. *)
LEMMA OutboxSend ==
  ASSUME OutboxInv, NEW c \in Relays, Outbox!Send(c)
  PROVE  OutboxInv'
<1>1. PICK R : R = relay[c]
  OBVIOUS
<1>2. RelayOK(R, given, Outbox!Range(topic)) /\ R \in RelayRecords
  BY <1>1 DEF OutboxInv
<1>3. PICK e \in Outbox!Sending(c), sent \in BOOLEAN, told \in BOOLEAN :
         /\ topic' = (IF sent THEN Append(topic, e) ELSE topic)
         /\ told => sent
         /\ IF told THEN relay' = [relay EXCEPT ![c].pc = Outbox!Acking[@]] ELSE Outbox!Raised(c)
  BY DEF Outbox!Send
<1>4. R.pc \in {"reclaimed", "fresh"} /\ e \in Outbox!Head1(R.batch) /\ e \notin Malformed
  BY <1>1, <1>3 DEF Outbox!Sending
<1>5. stream' = stream /\ added' = added /\ given' = given /\ pend' = pend /\ idle' = idle
  BY DEF Outbox!Send, Outbox!redisVars
<1>6. Numbering /\ Outbox!NothingLost /\ relay \in [Relays -> RelayRecords]
  BY DEF OutboxInv
<1>7. e \in 1 .. added
  <2>1. e \in R.batch
    BY <1>4 DEF Outbox!Head1
  <2>2. e \in 1 .. given
    BY <1>2, <2>1 DEF RelayOK
  <2> QED
    BY <1>6, <2>2 DEF Numbering
<1>8. Outbox!Range(Append(topic, e)) = Outbox!Range(topic) \cup {e}
  BY <1>6, <1>7, PublishedGrows DEF Numbering
<1>9. Outbox!Range(topic) \subseteq Outbox!Range(topic') /\ (told => e \in Outbox!Range(topic'))
  BY <1>3, <1>8
<1>10. topic' \in Seq(1 .. added)
  <2>1. topic \in Seq(1 .. added)
    BY <1>6 DEF Numbering
  <2>2. Append(topic, e) \in Seq(1 .. added)
    BY <1>7, <2>1
  <2> QED
    BY <1>3, <2>1, <2>2
<1>11. Numbering' /\ given <= given'
  BY <1>5, <1>6, <1>10 DEF Numbering
<1>12. Outbox!NothingLost'
  BY <1>5, <1>6, <1>9 DEF Outbox!NothingLost
<1>13. CASE told
  <2>1. PICK p : p = Outbox!Acking[R.pc]
    OBVIOUS
  <2>2. p \in {"ack reclaimed", "ack fresh"}
    <3>1. /\ Outbox!Acking.reclaimed = "ack reclaimed"
          /\ Outbox!Acking.fresh = "ack fresh"
      BY DEF Outbox!Acking
    <3>2. /\ Outbox!Acking["reclaimed"] = "ack reclaimed"
          /\ Outbox!Acking["fresh"] = "ack fresh"
      BY <3>1
    <3> QED
      BY <1>4, <2>1, <3>2
  <2>3. PICK X : X = [R EXCEPT !.pc = p]
    OBVIOUS
  <2>4. relay' = [relay EXCEPT ![c] = X]
    BY <1>1, <1>3, <1>6, <1>13, <2>1, <2>3
  <2>5. X \in RelayRecords /\ X.pc = p /\ X.batch = R.batch /\ X.room = R.room
    BY <1>2, <2>2, <2>3 DEF RelayRecords, Hands
  <2>6. \A h \in Outbox!Head1(R.batch) : h = e
    <3>1. \A h \in R.batch : h \in Int
      BY <1>2 DEF RelayRecords
    <3> QED
      BY <3>1, <1>4 DEF Outbox!Head1
  <2>7. \A h \in Outbox!Head1(X.batch) : h \in Outbox!Range(topic') /\ h \notin Malformed
    BY <1>4, <1>9, <1>13, <2>5, <2>6
  <2>8. Cardinality(X.batch) <= X.room
    BY <1>2, <1>4, <2>5 DEF RelayOK, Hands
  <2>9. RelayOK(X, given', Outbox!Range(topic'))
    BY <1>2, <1>5, <2>5, <2>7, <2>8 DEF RelayOK
  <2> QED
    BY <1>9, <1>11, <1>12, <2>4, <2>9, OutboxFrame
<1>14. CASE ~told
  <2>1. PICK X : X = [R EXCEPT !.pc = "claim", !.batch = {}]
    OBVIOUS
  <2>2. relay' = [relay EXCEPT ![c] = X]
    BY <1>1, <1>3, <1>6, <1>14, <2>1 DEF Outbox!Raised
  <2>3. X \in RelayRecords /\ X.pc = "claim" /\ X.batch = {}
    BY <1>2, <2>1 DEF RelayRecords, Hands
  <2>4. RelayOK(X, given', Outbox!Range(topic'))
    BY <2>3 DEF RelayOK, Hands
  <2> QED
    BY <1>9, <1>11, <1>12, <2>2, <2>4, OutboxFrame
<1> QED
  BY <1>13, <1>14

(* An entry is acknowledged and deleted in one script, behind its send. *)
LEMMA OutboxAck ==
  ASSUME OutboxInv, BatchSize \in Nat, NEW c \in Relays, Outbox!Ack(c)
  PROVE  OutboxInv'
<1>1. PICK R : R = relay[c]
  OBVIOUS
<1>2. RelayOK(R, given, Outbox!Range(topic)) /\ R \in RelayRecords
  BY <1>1 DEF OutboxInv
<1>3. PICK e \in Outbox!Head1(R.batch), done \in BOOLEAN, told \in BOOLEAN :
         /\ pend' = (IF done THEN pend \ {e} ELSE pend)
         /\ idle' = (IF done THEN idle \ {e} ELSE idle)
         /\ stream' = (IF done /\ e \in pend THEN stream \ {e} ELSE stream)
         /\ IF done /\ told /\ e \in pend
            THEN relay' = [relay EXCEPT ![c] =
                   [relay[c] EXCEPT !.batch = @ \ {e}, !.room = @ - 1,
                                    !.pc = IF @ = "ack fresh" THEN "fresh" ELSE "reclaimed"]]
            ELSE Outbox!Raised(c)
  BY <1>1 DEF Outbox!Ack
<1>4. R.pc \in {"ack reclaimed", "ack fresh"}
  BY <1>1 DEF Outbox!Ack
<1>5. added' = added /\ given' = given /\ topic' = topic
  BY DEF Outbox!Ack
<1>6. Numbering /\ Outbox!NothingLost /\ relay \in [Relays -> RelayRecords]
  BY DEF OutboxInv
<1>7. e \in Outbox!Range(topic) /\ e \notin Malformed /\ e \in R.batch
  BY <1>2, <1>3, <1>4 DEF RelayOK, Outbox!Head1
<1>8. Numbering' /\ given <= given' /\ Outbox!Range(topic) \subseteq Outbox!Range(topic')
  BY <1>3, <1>5, <1>6 DEF Numbering
<1>9. /\ stream' \subseteq stream
      /\ stream \ {e} \subseteq stream'
      /\ \A i \in stream' : i \in pend => i \in pend'
  <2>1. CASE done /\ e \in pend
    BY <2>1, <1>3
  <2>2. CASE ~(done /\ e \in pend)
    BY <2>2, <1>3
  <2> QED
    BY <2>1, <2>2
<1>10. Outbox!NothingLost'
  BY <1>5, <1>6, <1>7, <1>9 DEF Outbox!NothingLost
<1>11. CASE done /\ told /\ e \in pend
  <2>1. PICK p \in {"reclaimed", "fresh"} : p = IF R.pc = "ack fresh" THEN "fresh" ELSE "reclaimed"
    OBVIOUS
  <2>2. PICK X : X = [R EXCEPT !.batch = R.batch \ {e}, !.room = R.room - 1, !.pc = p]
    OBVIOUS
  <2>3. relay' = [relay EXCEPT ![c] = X]
    BY <1>1, <1>3, <1>11, <2>1, <2>2
  <2>4. given \in Nat /\ R.batch \subseteq 1 .. given
    <3>1. given \in Nat
      BY <1>6 DEF Numbering
    <3>2. R.batch \subseteq 1 .. given
      BY <1>2 DEF RelayOK
    <3> QED
      BY <3>1, <3>2
  <2>5. /\ Cardinality(R.batch) \in Nat /\ Cardinality(R.batch) >= 1
        /\ Cardinality(R.batch \ {e}) = Cardinality(R.batch) - 1
    BY <1>2, <1>7, <2>4, SmallerBatch
  <2>6. Cardinality(R.batch) <= R.room /\ R.room \in 0 .. BatchSize
    BY <1>2, <1>4 DEF RelayOK, Hands, RelayRecords
  <2>7. R.room - 1 \in 0 .. BatchSize
    BY <2>5, <2>6
  <2>8. X \in RelayRecords /\ X.pc = p /\ X.batch = R.batch \ {e} /\ X.room = R.room - 1
    BY <1>2, <2>2, <2>7 DEF RelayRecords, Hands
  <2>9. Cardinality(X.batch) <= X.room
    BY <2>5, <2>6, <2>8
  <2>10. RelayOK(X, given', Outbox!Range(topic'))
    BY <1>5, <2>4, <2>8, <2>9 DEF RelayOK
  <2> QED
    BY <1>8, <1>10, <2>3, <2>10, OutboxFrame
<1>12. CASE ~(done /\ told /\ e \in pend)
  <2>1. PICK X : X = [R EXCEPT !.pc = "claim", !.batch = {}]
    OBVIOUS
  <2>2. relay' = [relay EXCEPT ![c] = X]
    BY <1>1, <1>3, <1>6, <1>12, <2>1 DEF Outbox!Raised
  <2>3. X \in RelayRecords /\ X.pc = "claim" /\ X.batch = {}
    BY <1>2, <2>1 DEF RelayRecords, Hands
  <2>4. RelayOK(X, given', Outbox!Range(topic'))
    BY <2>3 DEF RelayOK, Hands
  <2> QED
    BY <1>8, <1>10, <2>2, <2>4, OutboxFrame
<1> QED
  BY <1>11, <1>12

LEMMA OutboxStep ==
  ASSUME BatchSize \in Nat, OutboxInv, [Outbox!Next]_(Outbox!vars)
  PROVE  OutboxInv'
<1>1. CASE Outbox!Add
  BY <1>1, OutboxAdd
<1>2. CASE Outbox!Time
  BY <1>2, OutboxTime
<1>3. ASSUME NEW c \in Relays, Outbox!Step(c) \/ Outbox!Restart(c)
      PROVE  OutboxInv'
  BY <1>3, OutboxClaim, OutboxNotDue, OutboxRead, OutboxBatchDone, OutboxSkip, OutboxSend, OutboxAck,
     OutboxRestart DEF Outbox!Step
<1>4. CASE UNCHANGED Outbox!vars
  <2>1. /\ stream' = stream /\ added' = added /\ given' = given /\ pend' = pend /\ idle' = idle
        /\ topic' = topic /\ relay' = relay
    BY <1>4 DEF Outbox!vars
  <2> QED
    BY <2>1 DEF OutboxInv, Numbering, Outbox!NothingLost
<1> QED
  BY <1>1, <1>2, <1>3, <1>4 DEF Outbox!Next

LEMMA OutboxGoal ==
  ASSUME OutboxInv
  PROVE  Outbox!AuditSound
<1>1. Numbering /\ Outbox!NothingLost
  BY DEF OutboxInv
<1>2. \A c \in Relays : relay[c].room \in 0 .. BatchSize
  BY DEF OutboxInv, RelayRecords
<1> QED
  BY <1>1, <1>2 DEF Outbox!AuditSound, Outbox!TypeOK, Numbering

(* Audit data is never lost, for any number of relays, entries and faults:  *)
(* whatever sends, acknowledgements and processes fail between two steps,   *)
(* and whichever relays are given the same entry, an entry leaves the       *)
(* outbox only behind its publication, a malformed one never, and what was  *)
(* delivered and not acknowledged stays claimable (AuditSound).             *)
LEMMA OutboxOK ==
  ASSUME BatchSize \in Nat
  PROVE  Outbox!Spec => []Outbox!AuditSound
<1>1. Outbox!Init => OutboxInv
  BY OutboxInit
<1>2. OutboxInv /\ [Outbox!Next]_(Outbox!vars) => OutboxInv'
  BY OutboxStep
<1>3. OutboxInv => Outbox!AuditSound
  BY OutboxGoal
<1> QED
  BY <1>1, <1>2, <1>3, PTL DEF Outbox!Spec

THEOREM AuditKept ==
  ASSUME BatchSize \in Nat
  PROVE  PlatformSpec => []AuditSound
<1>1. part = "audit" /\ [part' = part]_part => (part = "audit")'
  OBVIOUS
<1>2. ~(part = "audit") /\ [part' = part]_part => (~(part = "audit"))'
  OBVIOUS
<1>3. Outbox!AuditSound \/ ~(part = "audit") => AuditSound
  BY DEF AuditSound
<1> QED
  BY <1>1, <1>2, <1>3, OutboxOK, PTL DEF PlatformSpec
-----------------------------------------------------------------------------
Modes == {"local", "job"}
PathKinds == {"low", "generator", "denied"}
TrialInputs ==
  [mode : Modes, required : Modes, identity : BOOLEAN, pinned : BOOLEAN,
   plan : SUBSET PathKinds, bundle : SUBSET PathKinds]
Verdicts == {"passed", "failed", "policy_rejected", "error"}
Results == Seq({"passed", "failed", "unloaded"})
Reports ==
  [verdict : Verdicts \cup {"none"}, results : Results, clean : BOOLEAN, mode : Modes \cup {"none"},
   cad : BOOLEAN, files : SUBSET PathKinds]
Claims == {"none", "PASSED", "FAILED", "POLICY_REJECTED", "ENVIRONMENT_ISSUE"}
SignedProofs == [n : Nat, verdict : Claims, guardrail : BOOLEAN, report : Reports]
Stages ==
  {"idle", "refused", "materialize", "evals", "clean", "report", "job", "wait", "raised", "done", "lost"}
Objects == {"tree", "entry", "configmap", "job"}
Executors ==
  [pc : Stages, results : Results, verdict : Verdicts \cup {"raised"}, left : SUBSET Objects,
   made : SUBSET Objects, files : SUBSET PathKinds, report : Reports]
Workflows ==
  [pc : {"evaluate", "failure", "attest", "deliver", "ended"}, attempt : 1 .. TrialAttempts,
   report : Reports, from : Nat, proof : SignedProofs,
   status : {"running", "failed", "awaiting", "rejected"}]

(* What an executor found holds of the patch and of what it left behind.   *)
ExecutorOK(s, e) ==
  /\ e \in Executors
  /\ e.verdict = "passed" => Evolve!AllPassed(e.results) /\ e.files = s.bundle /\ Evolve!PatchAllowed(s)
  /\ \A p \in e.files : Evolve!PathAllowed(p)
  /\ e.pc = "idle" => e = Evolve!NoExecutor
  /\ e.pc \in {"materialize", "evals"} => s.mode = "local" /\ Evolve!PatchAllowed(s)
  /\ e.pc = "evals" => e.files = s.bundle
  /\ e.pc \in {"job", "wait"} => s.mode = "job" /\ e.left \subseteq e.made
  /\ e.verdict = "raised" => s.mode = "job"
  /\ e.pc = "clean" /\ s.mode = "job" /\ e.verdict # "raised" => e.left \subseteq e.made
  /\ e.pc = "report" => e.verdict # "raised" /\ (e.report.clean => e.left = {})
  /\ e.pc = "done" => /\ e.report.verdict \in Verdicts
                      /\ e.report.verdict = "passed" => e.verdict = "passed" /\ e.left = {}

(* The report the workflow holds is that of the attempt it names.          *)
WorkflowOK(s, w, E) ==
  /\ w \in Workflows
  /\ w.pc \in {"evaluate", "failure"} => w.report.verdict = "none"
  /\ w.pc \in {"attest", "deliver", "ended"} => w.report.verdict \in Verdicts
  /\ w.report.verdict = "passed" =>
       w.from \in 1 .. TrialAttempts /\ E[w.from].verdict = "passed" /\ E[w.from].left = {}
  /\ w.status = "awaiting" => w.pc = "ended" /\ w.report.verdict = "passed"

(* There is one proof, nobody has it before it is delivered, and what it    *)
(* claims was earned.                                                       *)
ProofOK(s, w, cl, received) ==
  /\ cl \in [starts : Nat, proof : SignedProofs]
  /\ cl.proof \in {Evolve!NoProof, w.proof} /\ received \subseteq {w.proof}
  /\ w.pc \in {"evaluate", "failure", "attest"} =>
       received = {} /\ cl.proof = Evolve!NoProof /\ w.proof.verdict = "none" /\ ~w.proof.guardrail
  /\ w.proof.guardrail => /\ Evolve!AllPassed(w.proof.report.results) /\ w.proof.report.clean
                          /\ w.proof.report.mode = s.required
                          /\ "generator" \in s.plan => w.proof.report.mode = "job"
  /\ w.status = "awaiting" => w.proof \in received

TrialInv ==
  /\ setup \in TrialSetups
  /\ ex \in [1 .. TrialAttempts -> Executors]
  /\ \A a \in 1 .. TrialAttempts : ExecutorOK(setup, ex[a])
  /\ WorkflowOK(setup, wf, ex)
  /\ ProofOK(setup, wf, client, cp)

LEMMA NoReportOK ==
  /\ <<>> \in Results /\ Evolve!NoReport \in Reports
  /\ Evolve!NoReport.verdict = "none"
<1>1. <<>> \in Results
  BY DEF Results
<1> QED
  BY <1>1 DEF Evolve!NoReport, Reports

LEMMA NoExecutorOK ==
  ASSUME NEW s
  PROVE  /\ ExecutorOK(s, Evolve!NoExecutor)
         /\ \A lost \in SUBSET Objects :
              ExecutorOK(s, [Evolve!NoExecutor EXCEPT !.pc = "lost", !.left = lost])
<1>1. Evolve!NoExecutor \in Executors
  BY NoReportOK DEF Evolve!NoExecutor, Executors, Verdicts, Stages
<1>2. Evolve!NoExecutor.verdict = "error" /\ Evolve!NoExecutor.files = {} /\ Evolve!NoExecutor.pc = "idle"
  BY DEF Evolve!NoExecutor
<1>3. ExecutorOK(s, Evolve!NoExecutor)
  BY <1>1, <1>2 DEF ExecutorOK
<1>4. ASSUME NEW lost \in SUBSET Objects
      PROVE  ExecutorOK(s, [Evolve!NoExecutor EXCEPT !.pc = "lost", !.left = lost])
  <2>1. PICK e : e = [Evolve!NoExecutor EXCEPT !.pc = "lost", !.left = lost]
    OBVIOUS
  <2>2. e \in Executors /\ e.verdict = "error" /\ e.files = {} /\ e.pc = "lost"
    BY <1>1, <1>2, <2>1 DEF Executors, Stages, Objects
  <2>3. ExecutorOK(s, e)
    BY <2>2 DEF ExecutorOK
  <2> QED
    BY <2>1, <2>3
<1> QED
  BY <1>3, <1>4

LEMMA TrialInit ==
  ASSUME Evolve!Init, TrialAttempts \in Nat \ {0}
  PROVE  TrialInv
<1>1. setup \in TrialSetups /\ ex = [a \in 1 .. TrialAttempts |-> Evolve!NoExecutor] /\ cp = {}
  BY DEF Evolve!Init
<1>2. ex \in [1 .. TrialAttempts -> Executors] /\ \A a \in 1 .. TrialAttempts : ExecutorOK(setup, ex[a])
  BY <1>1, NoExecutorOK DEF ExecutorOK
<1>3. Evolve!NoReport \in Reports /\ Evolve!NoReport.verdict = "none"
  BY NoReportOK
<1>4. Evolve!NoProof \in SignedProofs /\ Evolve!NoProof.verdict = "none" /\ Evolve!NoProof.guardrail = FALSE
  BY <1>3 DEF Evolve!NoProof, SignedProofs, Claims
<1>5. wf = [pc |-> "evaluate", attempt |-> 1, report |-> Evolve!NoReport, from |-> 0,
            proof |-> Evolve!NoProof, status |-> "running"]
  BY DEF Evolve!Init
<1>6. wf \in Workflows /\ wf.pc = "evaluate" /\ wf.report.verdict = "none" /\ wf.status = "running"
      /\ wf.proof = Evolve!NoProof
  BY <1>3, <1>4, <1>5 DEF Workflows
<1>7. WorkflowOK(setup, wf, ex)
  BY <1>6 DEF WorkflowOK
<1>8. client \in [starts : Nat, proof : SignedProofs] /\ client.proof = Evolve!NoProof
  BY <1>4 DEF Evolve!Init
<1>9. ProofOK(setup, wf, client, cp)
  BY <1>1, <1>4, <1>6, <1>8 DEF ProofOK
<1> QED
  BY <1>1, <1>2, <1>7, <1>9 DEF TrialInv

(* A step of an executor that leaves it sound leaves the trial sound.       *)
LEMMA ExecutorMoves ==
  ASSUME TrialInv, NEW a \in 1 .. TrialAttempts, wf.pc = "evaluate",
         NEW r, ExecutorOK(setup, r), Evolve!To(a, r),
         setup' = setup /\ wf' = wf /\ client' = client /\ cp' = cp
  PROVE  TrialInv'
<1>1. PICK x : x = IF r.pc \in {"done", "raised", "refused", "lost"} /\ ~Evolve!Running(a)
                   THEN [Evolve!NoExecutor EXCEPT !.pc = "lost", !.left = r.left] ELSE r
  OBVIOUS
<1>2. ex' = [ex EXCEPT ![a] = x]
  BY <1>1 DEF Evolve!To
<1>3. r.left \in SUBSET Objects
  BY DEF ExecutorOK, Executors
<1>4. ExecutorOK(setup, x)
  BY <1>1, <1>3, NoExecutorOK
<1>5. /\ setup \in TrialSetups /\ ex \in [1 .. TrialAttempts -> Executors]
      /\ \A b \in 1 .. TrialAttempts : ExecutorOK(setup, ex[b])
      /\ WorkflowOK(setup, wf, ex) /\ ProofOK(setup, wf, client, cp)
  BY DEF TrialInv
<1>6. x \in Executors
  BY <1>4 DEF ExecutorOK
<1>7. ex' \in [1 .. TrialAttempts -> Executors] /\ \A b \in 1 .. TrialAttempts : ExecutorOK(setup, ex'[b])
  BY <1>2, <1>4, <1>5, <1>6
<1>8. WorkflowOK(setup, wf, ex')
  <2>1. wf.report.verdict # "passed"
    BY <1>5 DEF WorkflowOK
  <2> QED
    BY <1>5, <2>1 DEF WorkflowOK
<1> QED
  BY <1>5, <1>7, <1>8 DEF TrialInv

LEMMA TrialRefuse ==
  ASSUME TrialInv, NEW a \in 1 .. TrialAttempts, wf.pc = "evaluate", Evolve!Refuse(a)
  PROVE  TrialInv'
<1>1. PICK e : e = ex[a]
  OBVIOUS
<1>2. ExecutorOK(setup, e) /\ e.pc = "idle"
  BY <1>1 DEF TrialInv, Evolve!Refuse
<1>3. PICK r : r = [e EXCEPT !.pc = "refused"]
  OBVIOUS
<1>4. r \in Executors /\ r.pc = "refused" /\ r.verdict = "error" /\ r.files = {}
  BY <1>2, <1>3 DEF ExecutorOK, Executors, Stages, Evolve!NoExecutor
<1>5. ExecutorOK(setup, r)
  BY <1>4 DEF ExecutorOK
<1>6. Evolve!To(a, r) /\ setup' = setup /\ wf' = wf /\ client' = client /\ cp' = cp
  BY <1>1, <1>3 DEF Evolve!Refuse
<1> QED
  BY <1>5, <1>6, ExecutorMoves

LEMMA AllowedPatch ==
  ASSUME NEW s \in TrialInputs, Evolve!PatchAllowed(s)
  PROVE  s.bundle \in SUBSET PathKinds /\ s.bundle = s.plan /\ \A p \in s.bundle : Evolve!PathAllowed(p)
BY DEF TrialInputs, Evolve!PatchAllowed, Evolve!BundleAllowed

LEMMA TrialAddWorktree ==
  ASSUME TrialInv, NEW a \in 1 .. TrialAttempts, wf.pc = "evaluate", Evolve!AddWorktree(a)
  PROVE  TrialInv'
<1>1. PICK e : e = ex[a]
  OBVIOUS
<1>2. ExecutorOK(setup, e) /\ e.pc = "idle" /\ setup.mode = "local"
  BY <1>1 DEF TrialInv, Evolve!AddWorktree
<1>3. e \in Executors /\ e.verdict = "error" /\ e.files = {} /\ e.left = {}
  BY <1>2 DEF ExecutorOK, Evolve!NoExecutor
<1>4. setup' = setup /\ wf' = wf /\ client' = client /\ cp' = cp
  BY DEF Evolve!AddWorktree
<1>5. CASE Evolve!To(a, [e EXCEPT !.pc = "report", !.verdict = "policy_rejected", !.report.clean = TRUE])
  <2>1. PICK r : r = [e EXCEPT !.pc = "report", !.verdict = "policy_rejected", !.report.clean = TRUE]
    OBVIOUS
  <2>2. r \in Executors /\ r.pc = "report" /\ r.verdict = "policy_rejected" /\ r.files = {} /\ r.left = {}
    BY <1>3, <2>1 DEF Executors, Reports, Verdicts, Stages
  <2>3. ExecutorOK(setup, r)
    BY <2>2 DEF ExecutorOK
  <2> QED
    BY <1>4, <1>5, <2>1, <2>3, ExecutorMoves
<1>6. CASE /\ Evolve!PatchAllowed(setup)
           /\ Evolve!To(a, [e EXCEPT !.pc = "materialize", !.left = {"tree", "entry"}, !.made = {"tree"}])
  <2>1. PICK r : r = [e EXCEPT !.pc = "materialize", !.left = {"tree", "entry"}, !.made = {"tree"}]
    OBVIOUS
  <2>2. r \in Executors /\ r.pc = "materialize" /\ r.verdict = "error" /\ r.files = {}
    BY <1>3, <2>1 DEF Executors, Stages, Objects
  <2>3. ExecutorOK(setup, r)
    BY <1>2, <1>6, <2>2 DEF ExecutorOK
  <2> QED
    BY <1>4, <1>6, <2>1, <2>3, ExecutorMoves
<1>7. CASE Evolve!To(a, [e EXCEPT !.pc = "clean", !.left = {"tree"}])
  <2>1. PICK r : r = [e EXCEPT !.pc = "clean", !.left = {"tree"}]
    OBVIOUS
  <2>2. r \in Executors /\ r.pc = "clean" /\ r.verdict = "error" /\ r.files = {}
    BY <1>3, <2>1 DEF Executors, Stages, Objects
  <2>3. ExecutorOK(setup, r)
    BY <1>2, <2>2 DEF ExecutorOK
  <2> QED
    BY <1>4, <1>7, <2>1, <2>3, ExecutorMoves
<1> QED
  BY <1>1, <1>5, <1>6, <1>7 DEF Evolve!AddWorktree

LEMMA TrialMaterialize ==
  ASSUME TrialInv, NEW a \in 1 .. TrialAttempts, wf.pc = "evaluate", Evolve!Materialize(a),
         TrialSetups \subseteq TrialInputs
  PROVE  TrialInv'
<1>1. PICK e : e = ex[a]
  OBVIOUS
<1>2. ExecutorOK(setup, e) /\ e.pc = "materialize"
  BY <1>1 DEF TrialInv, Evolve!Materialize
<1>3. e \in Executors /\ setup.mode = "local" /\ Evolve!PatchAllowed(setup)
  BY <1>2 DEF ExecutorOK
<1>4. setup.bundle \in SUBSET PathKinds /\ \A p \in setup.bundle : Evolve!PathAllowed(p)
  BY <1>3, AllowedPatch DEF TrialInv
<1>5. setup' = setup /\ wf' = wf /\ client' = client /\ cp' = cp
  BY DEF Evolve!Materialize
<1>6. e.verdict # "raised"
  BY <1>2, <1>3 DEF ExecutorOK
<1>7. CASE Evolve!To(a, [e EXCEPT !.pc = "evals", !.files = setup.bundle])
  <2>1. PICK r : r = [e EXCEPT !.pc = "evals", !.files = setup.bundle]
    OBVIOUS
  <2>2. r \in Executors /\ r.pc = "evals" /\ r.verdict = e.verdict /\ r.files = setup.bundle
        /\ r.results = e.results
    BY <1>3, <1>4, <2>1 DEF Executors, Stages, Objects
  <2>3. r.verdict = "passed" => Evolve!AllPassed(r.results)
    BY <1>2, <2>2 DEF ExecutorOK
  <2>4. ExecutorOK(setup, r)
    BY <1>3, <1>4, <1>6, <2>2, <2>3 DEF ExecutorOK
  <2> QED
    BY <1>5, <1>7, <2>1, <2>4, ExecutorMoves
<1>8. ASSUME NEW v \in {"policy_rejected", "error"}, NEW done \in SUBSET setup.bundle, NEW r,
             \/ r = [e EXCEPT !.pc = "clean", !.verdict = v]
             \/ r = [e EXCEPT !.pc = "clean", !.verdict = v, !.files = done],
             Evolve!To(a, r)
      PROVE  TrialInv'
  <2>1. r \in Executors /\ r.pc = "clean" /\ r.verdict = v /\ r.files \in {e.files, done}
    BY <1>3, <1>4, <1>8 DEF Executors, Verdicts, Stages
  <2>2. \A p \in r.files : Evolve!PathAllowed(p)
    BY <1>2, <1>4, <2>1 DEF ExecutorOK
  <2>3. ExecutorOK(setup, r)
    BY <1>3, <2>1, <2>2 DEF ExecutorOK
  <2> QED
    BY <1>5, <1>8, <2>3, ExecutorMoves
<1>9. {} \in SUBSET setup.bundle
  OBVIOUS
<1> QED
  BY <1>1, <1>7, <1>8, <1>9 DEF Evolve!Materialize

LEMMA TrialRunEval ==
  ASSUME TrialInv, NEW a \in 1 .. TrialAttempts, wf.pc = "evaluate", Evolve!RunEval(a)
  PROVE  TrialInv'
<1>1. PICK e : e = ex[a]
  OBVIOUS
<1>2. ExecutorOK(setup, e) /\ e.pc = "evals"
  BY <1>1 DEF TrialInv, Evolve!RunEval
<1>3. e \in Executors /\ setup.mode = "local" /\ Evolve!PatchAllowed(setup) /\ e.files = setup.bundle
      /\ \A p \in e.files : Evolve!PathAllowed(p)
  BY <1>2 DEF ExecutorOK
<1>4. setup' = setup /\ wf' = wf /\ client' = client /\ cp' = cp
  BY DEF Evolve!RunEval
<1>5. ASSUME NEW o \in {"passed", "failed", "unloaded"}, NEW rs, rs = Append(e.results, o),
             Evolve!To(a, [e EXCEPT !.results = rs,
                 !.pc = IF o = "passed" /\ Len(rs) < Len(EvalIds) THEN "evals" ELSE "clean",
                 !.verdict = IF Evolve!AllPassed(rs) THEN "passed" ELSE "failed"])
      PROVE  TrialInv'
  <2>1. PICK pc \in {"evals", "clean"} : pc = IF o = "passed" /\ Len(rs) < Len(EvalIds) THEN "evals" ELSE "clean"
    OBVIOUS
  <2>2. PICK v \in {"passed", "failed"} : v = IF Evolve!AllPassed(rs) THEN "passed" ELSE "failed"
    OBVIOUS
  <2>3. PICK r : r = [e EXCEPT !.results = rs, !.pc = pc, !.verdict = v]
    OBVIOUS
  <2>4. rs \in Results
    BY <1>3, <1>5 DEF Executors, Results
  <2>5. r \in Executors /\ r.pc = pc /\ r.verdict = v /\ r.files = e.files /\ r.results = rs
    BY <1>3, <2>3, <2>4 DEF Executors, Stages, Verdicts
  <2>6. v = "passed" => Evolve!AllPassed(rs)
    BY <2>2
  <2>7. ExecutorOK(setup, r)
    BY <1>3, <2>5, <2>6 DEF ExecutorOK
  <2> QED
    BY <1>4, <1>5, <2>1, <2>2, <2>3, <2>7, ExecutorMoves
<1>6. CASE Evolve!To(a, [e EXCEPT !.pc = "clean", !.verdict = "error"])
  <2>1. PICK r : r = [e EXCEPT !.pc = "clean", !.verdict = "error"]
    OBVIOUS
  <2>2. r \in Executors /\ r.pc = "clean" /\ r.verdict = "error" /\ r.files = e.files
    BY <1>3, <2>1 DEF Executors, Stages, Verdicts
  <2>3. ExecutorOK(setup, r)
    BY <1>3, <2>2 DEF ExecutorOK
  <2> QED
    BY <1>4, <1>6, <2>1, <2>3, ExecutorMoves
<1>7. \A i : Evolve!Outcomes("local", i) \subseteq {"passed", "failed", "unloaded"}
  BY DEF Evolve!Outcomes
<1> QED
  BY <1>1, <1>5, <1>6, <1>7 DEF Evolve!RunEval

LEMMA TrialCleanWorktree ==
  ASSUME TrialInv, NEW a \in 1 .. TrialAttempts, wf.pc = "evaluate", Evolve!CleanWorktree(a)
  PROVE  TrialInv'
<1>1. PICK e : e = ex[a]
  OBVIOUS
<1>2. ExecutorOK(setup, e) /\ e.pc = "clean" /\ setup.mode = "local"
  BY <1>1 DEF TrialInv, Evolve!CleanWorktree
<1>3. e \in Executors /\ e.verdict # "raised"
  BY <1>2 DEF ExecutorOK
<1>4. setup' = setup /\ wf' = wf /\ client' = client /\ cp' = cp
  BY DEF Evolve!CleanWorktree
<1>5. PICK removed \in BOOLEAN, left \in SUBSET e.left :
        Evolve!To(a, [e EXCEPT !.pc = "report", !.left = left,
                      !.report.clean = Evolve!Cleanup(e.made # {}, left, removed)])
  BY <1>1 DEF Evolve!CleanWorktree
<1>6. PICK clean \in BOOLEAN : clean = Evolve!Cleanup(e.made # {}, left, removed)
  BY DEF Evolve!Cleanup
<1>7. PICK r : r = [e EXCEPT !.pc = "report", !.left = left, !.report.clean = clean]
  OBVIOUS
<1>8. left \in SUBSET Objects
  BY <1>3, <1>5 DEF Executors
<1>9. r \in Executors /\ r.pc = "report" /\ r.left = left /\ r.verdict = e.verdict /\ r.files = e.files
      /\ r.results = e.results /\ r.report.clean = clean
  BY <1>3, <1>7, <1>8 DEF Executors, Stages, Reports
<1>10. clean => left = {}
  BY <1>6 DEF Evolve!Cleanup
<1>11. ExecutorOK(setup, r)
  BY <1>2, <1>3, <1>9, <1>10 DEF ExecutorOK
<1> QED
  BY <1>4, <1>5, <1>6, <1>7, <1>11, ExecutorMoves

LEMMA TrialCreate ==
  ASSUME TrialInv, NEW a \in 1 .. TrialAttempts, wf.pc = "evaluate", setup.mode = "job",
         NEW pc \in {"idle", "job"}, NEW object \in Objects, NEW then \in {"job", "wait"},
         Evolve!Create(a, pc, object, then)
  PROVE  TrialInv'
<1>1. PICK e : e = ex[a]
  OBVIOUS
<1>2. ExecutorOK(setup, e) /\ e.pc = pc
  BY <1>1 DEF TrialInv, Evolve!Create
<1>3. e \in Executors /\ e.left \subseteq e.made
  BY <1>2 DEF ExecutorOK, Evolve!NoExecutor
<1>4. setup' = setup /\ wf' = wf /\ client' = client /\ cp' = cp
  BY DEF Evolve!Create
<1>5. CASE Evolve!To(a, [e EXCEPT !.pc = then, !.left = e.left \cup {object}, !.made = e.made \cup {object}])
  <2>1. PICK r : r = [e EXCEPT !.pc = then, !.left = e.left \cup {object}, !.made = e.made \cup {object}]
    OBVIOUS
  <2>2. e.left \cup {object} \in SUBSET Objects /\ e.made \cup {object} \in SUBSET Objects
    BY <1>3 DEF Executors
  <2>3. r \in Executors /\ r.pc = then /\ r.verdict = e.verdict /\ r.files = e.files /\ r.results = e.results
        /\ r.left = e.left \cup {object} /\ r.made = e.made \cup {object}
    BY <1>3, <2>1, <2>2 DEF Executors, Stages
  <2>4. r.left \subseteq r.made
    BY <1>3, <2>3
  <2>5. ExecutorOK(setup, r)
    BY <1>2, <2>3, <2>4 DEF ExecutorOK
  <2> QED
    BY <1>4, <1>5, <2>1, <2>5, ExecutorMoves
<1>6. ASSUME NEW left \in {{}, {object}},
             Evolve!To(a, [e EXCEPT !.pc = "clean", !.verdict = "raised", !.left = e.left \cup left])
      PROVE  TrialInv'
  <2>1. PICK r : r = [e EXCEPT !.pc = "clean", !.verdict = "raised", !.left = e.left \cup left]
    OBVIOUS
  <2>2. e.left \cup left \in SUBSET Objects
    BY <1>3 DEF Executors
  <2>3. r \in Executors /\ r.pc = "clean" /\ r.verdict = "raised" /\ r.files = e.files
    BY <1>3, <2>1, <2>2 DEF Executors, Stages
  <2>4. ExecutorOK(setup, r)
    BY <1>2, <2>3 DEF ExecutorOK
  <2> QED
    BY <1>4, <1>6, <2>1, <2>4, ExecutorMoves
<1> QED
  BY <1>1, <1>5, <1>6 DEF Evolve!Create

LEMMA TrialStatuses ==
  ASSUME NEW rs \in Evolve!StatusesOf
  PROVE  rs \in Results
<1>1. PICK n \in 0 .. Len(EvalIds) : rs \in [1 .. n -> {"passed", "failed", "unloaded"}]
  BY DEF Evolve!StatusesOf
<1>2. n \in Nat
  BY <1>1
<1> QED
  BY <1>1, <1>2 DEF Results

LEMMA TrialJobEnds ==
  ASSUME TrialInv, NEW a \in 1 .. TrialAttempts, wf.pc = "evaluate", Evolve!JobEnds(a),
         TrialSetups \subseteq TrialInputs
  PROVE  TrialInv'
<1>1. PICK e : e = ex[a]
  OBVIOUS
<1>2. ExecutorOK(setup, e) /\ e.pc = "wait"
  BY <1>1 DEF TrialInv, Evolve!JobEnds
<1>3. e \in Executors /\ e.left \subseteq e.made /\ setup.mode = "job"
  BY <1>2 DEF ExecutorOK
<1>4. setup' = setup /\ wf' = wf /\ client' = client /\ cp' = cp
  BY DEF Evolve!JobEnds
<1>5. ASSUME NEW code \in Evolve!MaterializerCodes, NEW rs \in Evolve!StatusesOf,
             Evolve!To(a, [e EXCEPT !.pc = "clean", !.results = rs, !.verdict = Evolve!JobVerdict(code, rs),
                           !.files = IF code = "0" THEN setup.bundle ELSE {}])
      PROVE  TrialInv'
  <2>1. PICK v : v = Evolve!JobVerdict(code, rs)
    OBVIOUS
  <2>2. v \in Verdicts /\ (v = "passed" => code = "0" /\ Evolve!AllPassed(rs))
    <3>1. CASE code = "10"
      BY <2>1, <3>1 DEF Evolve!JobVerdict, Verdicts
    <3>2. CASE code # "10" /\ code # "0"
      BY <2>1, <3>2 DEF Evolve!JobVerdict, Verdicts
    <3>3. CASE code = "0" /\ Len(rs) # Len(EvalIds)
      BY <2>1, <3>3 DEF Evolve!JobVerdict, Verdicts
    <3>4. CASE code = "0" /\ Len(rs) = Len(EvalIds)
      BY <2>1, <3>4 DEF Evolve!JobVerdict, Verdicts
    <3> QED
      BY <3>1, <3>2, <3>3, <3>4
  <2>3. code = "0" => Evolve!PatchAllowed(setup)
    BY DEF Evolve!MaterializerCodes
  <2>4. setup \in TrialInputs
    BY DEF TrialInv
  <2>5. PICK files : files = IF code = "0" THEN setup.bundle ELSE {}
    OBVIOUS
  <2>6. files \in SUBSET PathKinds /\ \A p \in files : Evolve!PathAllowed(p)
    BY <2>3, <2>4, <2>5, AllowedPatch
  <2>7. PICK r : r = [e EXCEPT !.pc = "clean", !.results = rs, !.verdict = v, !.files = files]
    OBVIOUS
  <2>8. rs \in Results
    BY TrialStatuses
  <2>9. r \in Executors /\ r.pc = "clean" /\ r.verdict = v /\ r.files = files /\ r.results = rs
        /\ r.left = e.left /\ r.made = e.made
    BY <1>3, <2>2, <2>6, <2>7, <2>8 DEF Executors, Stages
  <2>10. v = "passed" => files = setup.bundle
    BY <2>2, <2>5
  <2>11. v # "raised"
    BY <2>2 DEF Verdicts
  <2>12. ExecutorOK(setup, r)
    BY <1>3, <2>2, <2>3, <2>6, <2>9, <2>10, <2>11 DEF ExecutorOK
  <2> QED
    BY <1>4, <1>5, <2>1, <2>5, <2>7, <2>12, ExecutorMoves
<1>6. CASE Evolve!To(a, [e EXCEPT !.pc = "clean", !.verdict = "raised"])
  <2>1. PICK r : r = [e EXCEPT !.pc = "clean", !.verdict = "raised"]
    OBVIOUS
  <2>2. r \in Executors /\ r.pc = "clean" /\ r.verdict = "raised" /\ r.files = e.files
    BY <1>3, <2>1 DEF Executors, Stages
  <2>3. ExecutorOK(setup, r)
    BY <1>2, <1>3, <2>2 DEF ExecutorOK
  <2> QED
    BY <1>4, <1>6, <2>1, <2>3, ExecutorMoves
<1> QED
  BY <1>1, <1>5, <1>6 DEF Evolve!JobEnds

LEMMA TrialDeleteObjects ==
  ASSUME TrialInv, NEW a \in 1 .. TrialAttempts, wf.pc = "evaluate", Evolve!DeleteObjects(a)
  PROVE  TrialInv'
<1>1. PICK e : e = ex[a]
  OBVIOUS
<1>2. ExecutorOK(setup, e) /\ e.pc = "clean" /\ setup.mode = "job"
  BY <1>1 DEF TrialInv, Evolve!DeleteObjects
<1>3. e \in Executors /\ (e.verdict # "raised" => e.left \subseteq e.made)
  BY <1>2 DEF ExecutorOK
<1>4. setup' = setup /\ wf' = wf /\ client' = client /\ cp' = cp
  BY DEF Evolve!DeleteObjects
<1>5. PICK gone \in SUBSET e.made :
        Evolve!To(a, [e EXCEPT !.left = e.left \ gone, !.report.clean = (gone = e.made),
                      !.pc = IF e.verdict = "raised" THEN "raised" ELSE "report"])
  BY <1>1 DEF Evolve!DeleteObjects
<1>6. PICK clean \in BOOLEAN : clean = (gone = e.made)
  OBVIOUS
<1>7. PICK pc \in {"raised", "report"} : pc = IF e.verdict = "raised" THEN "raised" ELSE "report"
  OBVIOUS
<1>8. PICK r : r = [e EXCEPT !.left = e.left \ gone, !.report.clean = clean, !.pc = pc]
  OBVIOUS
<1>9. e.left \ gone \in SUBSET Objects
  BY <1>3 DEF Executors
<1>10. r \in Executors /\ r.pc = pc /\ r.left = e.left \ gone /\ r.verdict = e.verdict /\ r.files = e.files
       /\ r.results = e.results /\ r.report.clean = clean
  BY <1>3, <1>8, <1>9 DEF Executors, Stages, Reports
<1>11. pc = "report" => e.verdict # "raised" /\ (clean => e.left \ gone = {})
  BY <1>3, <1>6, <1>7
<1>12. ExecutorOK(setup, r)
  BY <1>2, <1>10, <1>11 DEF ExecutorOK
<1> QED
  BY <1>4, <1>5, <1>6, <1>7, <1>8, <1>12, ExecutorMoves

LEMMA TrialReturn ==
  ASSUME TrialInv, NEW a \in 1 .. TrialAttempts, wf.pc = "evaluate", Evolve!Return(a),
         TrialSetups \subseteq TrialInputs
  PROVE  TrialInv'
<1>1. PICK e : e = ex[a]
  OBVIOUS
<1>2. ExecutorOK(setup, e) /\ e.pc = "report"
  BY <1>1 DEF TrialInv, Evolve!Return
<1>3. e \in Executors /\ e.verdict \in Verdicts /\ (e.report.clean => e.left = {})
  BY <1>2 DEF ExecutorOK, Executors
<1>4. setup' = setup /\ wf' = wf /\ client' = client /\ cp' = cp
  BY DEF Evolve!Return
<1>5. PICK q : q = Evolve!ReportOf(e)
  OBVIOUS
<1>6. PICK v : v = IF ~e.report.clean /\ (e.verdict = "passed" \/ setup.mode = "job") THEN "error" ELSE e.verdict
  OBVIOUS
<1>7. v \in Verdicts /\ (v = "passed" => e.verdict = "passed" /\ e.report.clean)
  BY <1>3, <1>6 DEF Verdicts
<1>8. PICK cad \in BOOLEAN : cad = (Evolve!Generator /\ e.results # <<>> /\ e.results[1] = "passed")
  BY DEF Evolve!Generator
<1>9. q = [verdict |-> v, results |-> e.results, clean |-> e.report.clean, mode |-> setup.mode,
           cad |-> cad, files |-> e.files]
  BY <1>5, <1>6, <1>8 DEF Evolve!ReportOf
<1>10. e.results \in Results /\ e.report.clean \in BOOLEAN /\ e.files \in SUBSET PathKinds
  BY <1>3 DEF Executors, Reports
<1>11. setup.mode \in Modes
  BY DEF TrialInv, TrialInputs
<1>12. q \in Reports /\ q.verdict = v
  BY <1>7, <1>9, <1>10, <1>11 DEF Reports
<1>13. PICK r : r = [e EXCEPT !.pc = "done", !.report = q]
  OBVIOUS
<1>14. r \in Executors /\ r.pc = "done" /\ r.left = e.left /\ r.verdict = e.verdict /\ r.files = e.files
       /\ r.results = e.results /\ r.report = q
  BY <1>3, <1>12, <1>13 DEF Executors, Stages
<1>15. ExecutorOK(setup, r)
  BY <1>2, <1>3, <1>7, <1>12, <1>14 DEF ExecutorOK
<1>16. Evolve!To(a, r)
  BY <1>1, <1>5, <1>13 DEF Evolve!Return
<1> QED
  BY <1>4, <1>15, <1>16, ExecutorMoves

LEMMA TrialWorkerStops ==
  ASSUME TrialInv, NEW a \in 1 .. TrialAttempts, wf.pc = "evaluate", Evolve!WorkerStops(a)
  PROVE  TrialInv'
<1>1. PICK e : e = ex[a]
  OBVIOUS
<1>2. ExecutorOK(setup, e)
  BY <1>1 DEF TrialInv
<1>3. PICK r : r = [e EXCEPT !.pc = "lost"]
  OBVIOUS
<1>4. r \in Executors /\ r.pc = "lost" /\ r.verdict = e.verdict /\ r.files = e.files /\ r.results = e.results
  BY <1>2, <1>3 DEF ExecutorOK, Executors, Stages
<1>5. ExecutorOK(setup, r)
  BY <1>2, <1>4 DEF ExecutorOK
<1>6. Evolve!To(a, r) /\ setup' = setup /\ wf' = wf /\ client' = client /\ cp' = cp
  BY <1>1, <1>3 DEF Evolve!WorkerStops
<1> QED
  BY <1>5, <1>6, ExecutorMoves

LEMMA TrialExecutor ==
  ASSUME TrialInv, NEW a \in 1 .. TrialAttempts, Evolve!Executor(a), TrialSetups \subseteq TrialInputs
  PROVE  TrialInv'
<1>1. wf.pc = "evaluate"
  BY DEF Evolve!Executor
<1>2. CASE Evolve!CreateConfigMap(a)
  BY <1>1, <1>2, TrialCreate DEF Evolve!CreateConfigMap, Objects
<1>3. CASE Evolve!CreateJob(a)
  <2>1. setup.mode = "job"
    BY <1>3 DEF Evolve!CreateJob, Evolve!Create, TrialInv, ExecutorOK
  <2> QED
    BY <1>1, <1>3, <2>1, TrialCreate DEF Evolve!CreateJob, Objects
<1> QED
  BY <1>1, <1>2, <1>3, TrialRefuse, TrialAddWorktree, TrialMaterialize, TrialRunEval, TrialCleanWorktree,
     TrialJobEnds, TrialDeleteObjects, TrialReturn, TrialWorkerStops DEF Evolve!Executor

(* After the evaluation only the attempt that was read is followed.         *)
LEMMA Followed ==
  ASSUME TrialInv, NEW followed, Evolve!Follow(followed)
  PROVE  /\ ex' \in [1 .. TrialAttempts -> Executors]
         /\ \A a \in 1 .. TrialAttempts : ExecutorOK(setup, ex'[a]) /\ (a \in followed => ex'[a] = ex[a])
<1>1. ex \in [1 .. TrialAttempts -> Executors] /\ \A a \in 1 .. TrialAttempts : ExecutorOK(setup, ex[a])
  BY DEF TrialInv
<1>2. ExecutorOK(setup, Evolve!NoExecutor) /\ Evolve!NoExecutor \in Executors
  BY NoExecutorOK DEF ExecutorOK
<1>3. ex' = [a \in 1 .. TrialAttempts |-> IF a \in followed THEN ex[a] ELSE Evolve!NoExecutor]
  BY DEF Evolve!Follow
<1> QED
  BY <1>1, <1>2, <1>3

LEMMA TrialEvaluated ==
  ASSUME TrialInv, TrialAttempts \in Nat \ {0}, Evolve!Evaluated
  PROVE  TrialInv'
<1>1. PICK a \in 1 .. TrialAttempts : a = wf.attempt
  BY DEF TrialInv, WorkflowOK, Workflows
<1>2. PICK e : e = ex[a]
  OBVIOUS
<1>3. ExecutorOK(setup, e) /\ e.pc = "done" /\ wf.pc = "evaluate"
  BY <1>1, <1>2 DEF TrialInv, Evolve!Evaluated
<1>4. e.report \in Reports /\ e.report.verdict \in Verdicts
      /\ (e.report.verdict = "passed" => e.verdict = "passed" /\ e.left = {})
  BY <1>3 DEF ExecutorOK, Executors
<1>5. WorkflowOK(setup, wf, ex) /\ ProofOK(setup, wf, client, cp) /\ setup \in TrialSetups
  BY DEF TrialInv
<1>6. wf \in Workflows /\ wf.status # "awaiting"
  BY <1>3, <1>5 DEF WorkflowOK
<1>7. wf' = [wf EXCEPT !.pc = "attest", !.report = e.report, !.from = a, !.attempt = 1]
  BY <1>1, <1>2 DEF Evolve!Evaluated
<1>8. wf' \in Workflows /\ wf'.pc = "attest" /\ wf'.report = e.report /\ wf'.from = a
      /\ wf'.proof = wf.proof /\ wf'.status = wf.status
  <2>1. 1 \in 1 .. TrialAttempts /\ a \in Nat
    OBVIOUS
  <2> QED
    BY <1>4, <1>6, <1>7, <2>1 DEF Workflows
<1>9. setup' = setup /\ client' = client /\ cp' = cp /\ Evolve!Follow({a})
  BY <1>1 DEF Evolve!Evaluated
<1>10. ex' \in [1 .. TrialAttempts -> Executors] /\ ex'[a] = e
       /\ \A b \in 1 .. TrialAttempts : ExecutorOK(setup, ex'[b])
  BY <1>2, <1>9, Followed
<1>11. WorkflowOK(setup, wf', ex')
  BY <1>4, <1>6, <1>8, <1>10 DEF WorkflowOK
<1>12. ProofOK(setup, wf', client, cp)
  BY <1>3, <1>5, <1>6, <1>8 DEF ProofOK
<1> QED
  BY <1>5, <1>9, <1>10, <1>11, <1>12 DEF TrialInv

LEMMA TrialAttemptFails ==
  ASSUME TrialInv, TrialAttempts \in Nat \ {0}, Evolve!AttemptFails
  PROVE  TrialInv'
<1>1. /\ setup \in TrialSetups /\ ex \in [1 .. TrialAttempts -> Executors]
      /\ \A b \in 1 .. TrialAttempts : ExecutorOK(setup, ex[b])
      /\ WorkflowOK(setup, wf, ex) /\ ProofOK(setup, wf, client, cp)
  BY DEF TrialInv
<1>2. wf \in Workflows /\ wf.pc = "evaluate" /\ wf.status # "awaiting" /\ wf.report.verdict = "none"
  BY <1>1 DEF WorkflowOK, Evolve!AttemptFails
<1>3. setup' = setup /\ client' = client /\ cp' = cp
  BY DEF Evolve!AttemptFails
<1>4. CASE wf.attempt < TrialAttempts /\ wf' = [wf EXCEPT !.attempt = @ + 1] /\ ex' = ex
  <2>1. wf.attempt + 1 \in 1 .. TrialAttempts
    BY <1>2, <1>4 DEF Workflows
  <2>2. wf' \in Workflows /\ wf'.pc = wf.pc /\ wf'.report = wf.report /\ wf'.proof = wf.proof
        /\ wf'.status = wf.status
    BY <1>2, <1>4, <2>1 DEF Workflows
  <2>3. WorkflowOK(setup, wf', ex)
    BY <1>2, <2>2 DEF WorkflowOK
  <2>4. ProofOK(setup, wf', client, cp)
    BY <1>1, <1>2, <2>2 DEF ProofOK
  <2> QED
    BY <1>1, <1>3, <1>4, <2>3, <2>4 DEF TrialInv
<1>5. CASE wf' = [wf EXCEPT !.pc = "failure", !.attempt = 1] /\ Evolve!Follow({})
  <2>1. wf' \in Workflows /\ wf'.pc = "failure" /\ wf'.report = wf.report /\ wf'.proof = wf.proof
        /\ wf'.status = wf.status
    <3>1. 1 \in 1 .. TrialAttempts
      OBVIOUS
    <3> QED
      BY <1>2, <1>5, <3>1 DEF Workflows
  <2>2. ex' \in [1 .. TrialAttempts -> Executors]
        /\ \A b \in 1 .. TrialAttempts : ExecutorOK(setup, ex'[b])
    BY <1>5, Followed
  <2>3. WorkflowOK(setup, wf', ex')
    BY <1>2, <2>1 DEF WorkflowOK
  <2>4. ProofOK(setup, wf', client, cp)
    BY <1>1, <1>2, <2>1 DEF ProofOK
  <2> QED
    BY <1>1, <1>3, <2>2, <2>3, <2>4 DEF TrialInv
<1> QED
  BY <1>4, <1>5 DEF Evolve!AttemptFails

LEMMA TrialFailureReport ==
  ASSUME TrialInv, Evolve!FailureReport, TrialSetups \subseteq TrialInputs
  PROVE  TrialInv'
<1>1. /\ setup \in TrialSetups /\ ex \in [1 .. TrialAttempts -> Executors]
      /\ \A b \in 1 .. TrialAttempts : ExecutorOK(setup, ex[b])
      /\ WorkflowOK(setup, wf, ex) /\ ProofOK(setup, wf, client, cp)
  BY DEF TrialInv
<1>2. wf \in Workflows /\ wf.pc = "failure" /\ wf.status # "awaiting"
  BY <1>1 DEF WorkflowOK, Evolve!FailureReport
<1>3. setup' = setup /\ client' = client /\ cp' = cp /\ ex' = ex
  BY DEF Evolve!FailureReport
<1>4. PICK q : q = [Evolve!NoReport EXCEPT !.verdict = "error", !.mode = setup.required]
  OBVIOUS
<1>5. setup.required \in Modes
  BY <1>1 DEF TrialInputs
<1>6. q \in Reports /\ q.verdict = "error"
  BY <1>4, <1>5, NoReportOK DEF Reports, Verdicts
<1>7. wf' = [wf EXCEPT !.pc = "attest", !.report = q]
  BY <1>4 DEF Evolve!FailureReport
<1>8. wf' \in Workflows /\ wf'.pc = "attest" /\ wf'.report = q /\ wf'.proof = wf.proof /\ wf'.status = wf.status
  BY <1>2, <1>6, <1>7 DEF Workflows
<1>9. WorkflowOK(setup, wf', ex)
  BY <1>2, <1>6, <1>8 DEF WorkflowOK, Verdicts
<1>10. ProofOK(setup, wf', client, cp)
  BY <1>1, <1>2, <1>8 DEF ProofOK
<1> QED
  BY <1>1, <1>3, <1>9, <1>10 DEF TrialInv

LEMMA TrialAttest ==
  ASSUME TrialInv, TrialAttempts \in Nat \ {0}, Evolve!Attest
  PROVE  TrialInv'
<1>1. /\ setup \in TrialSetups /\ ex \in [1 .. TrialAttempts -> Executors]
      /\ \A b \in 1 .. TrialAttempts : ExecutorOK(setup, ex[b])
      /\ WorkflowOK(setup, wf, ex) /\ ProofOK(setup, wf, client, cp)
  BY DEF TrialInv
<1>2. wf \in Workflows /\ wf.pc = "attest" /\ wf.status # "awaiting" /\ wf.report.verdict \in Verdicts
  BY <1>1 DEF WorkflowOK, Evolve!Attest
<1>3. setup' = setup /\ client' = client /\ cp' = cp /\ ex' = ex
  BY DEF Evolve!Attest
<1>4. cp = {} /\ client.proof = Evolve!NoProof /\ wf.proof.verdict = "none" /\ ~wf.proof.guardrail
      /\ client \in [starts : Nat, proof : SignedProofs]
  BY <1>1, <1>2 DEF ProofOK
<1>5. PICK q : q = wf.report
  OBVIOUS
<1>6. q \in Reports /\ wf.proof \in SignedProofs /\ q.verdict \in Verdicts
  BY <1>2, <1>5 DEF Workflows
<1>7. PICK claim : claim = Evolve!VerdictOf(q)
  OBVIOUS
<1>8. claim \in Claims
  BY <1>6, <1>7 DEF Evolve!VerdictOf, Verdicts, Claims
<1>9. PICK earned \in BOOLEAN : earned = Evolve!Guardrail(q)
  BY DEF Evolve!Guardrail
<1>10. PICK n \in Nat : n = wf.proof.n + 1
  BY <1>6 DEF SignedProofs
<1>11. PICK p : p = [n |-> n, verdict |-> claim, guardrail |-> earned, report |-> q]
  OBVIOUS
<1>12. p \in SignedProofs /\ p.guardrail = earned /\ p.report = q
  BY <1>6, <1>8, <1>11 DEF SignedProofs
<1>13. \/ wf' = [wf EXCEPT !.pc = "deliver", !.proof = p, !.attempt = 1]
       \/ wf' = [wf EXCEPT !.proof.n = n]
       \/ wf' = [wf EXCEPT !.pc = "ended", !.status = "failed"]
  BY <1>5, <1>7, <1>9, <1>10, <1>11 DEF Evolve!Attest
<1>14. CASE wf' = [wf EXCEPT !.pc = "deliver", !.proof = p, !.attempt = 1]
  <2>1. 1 \in 1 .. TrialAttempts
    OBVIOUS
  <2>2. wf' \in Workflows /\ wf'.pc = "deliver" /\ wf'.proof = p /\ wf'.report = q /\ wf'.from = wf.from
        /\ wf'.status = wf.status
    BY <1>2, <1>5, <1>12, <1>14, <2>1 DEF Workflows
  <2>3. WorkflowOK(setup, wf', ex)
    BY <1>1, <1>2, <1>5, <2>2 DEF WorkflowOK
  <2>4. earned => /\ Evolve!AllPassed(q.results) /\ q.clean /\ q.mode = setup.required
                  /\ "generator" \in setup.plan => q.mode = "job"
    <3>1. ASSUME earned
          PROVE  q.verdict = "passed" /\ q.clean /\ Evolve!AllPassed(q.results) /\ q.mode = setup.required
                 /\ ("generator" \in setup.bundle => q.mode = "job")
      BY <1>9, <3>1 DEF Evolve!Guardrail, Evolve!Generator
    <3>2. ASSUME q.verdict = "passed"
          PROVE  setup.bundle = setup.plan
      BY <1>1, <1>5, <3>2 DEF WorkflowOK, ExecutorOK, Evolve!PatchAllowed, Evolve!BundleAllowed
    <3> QED
      BY <3>1, <3>2
  <2>5. ProofOK(setup, wf', client, cp)
    BY <1>2, <1>4, <1>12, <2>2, <2>4 DEF ProofOK
  <2> QED
    BY <1>1, <1>3, <2>3, <2>5 DEF TrialInv
<1>15. CASE wf' = [wf EXCEPT !.proof.n = n]
  <2>1. PICK again : again = [wf.proof EXCEPT !.n = n]
    OBVIOUS
  <2>2. again \in SignedProofs /\ again.verdict = "none" /\ ~again.guardrail
    BY <1>4, <1>6, <2>1 DEF SignedProofs
  <2>3. wf' \in Workflows /\ wf'.pc = wf.pc /\ wf'.proof = again /\ wf'.report = wf.report /\ wf'.from = wf.from
        /\ wf'.status = wf.status
    BY <1>2, <1>15, <2>1, <2>2 DEF Workflows
  <2>4. WorkflowOK(setup, wf', ex)
    BY <1>1, <1>2, <2>3 DEF WorkflowOK
  <2>5. ProofOK(setup, wf', client, cp)
    BY <1>2, <1>4, <2>2, <2>3 DEF ProofOK
  <2> QED
    BY <1>1, <1>3, <2>4, <2>5 DEF TrialInv
<1>16. CASE wf' = [wf EXCEPT !.pc = "ended", !.status = "failed"]
  <2>1. wf' \in Workflows /\ wf'.pc = "ended" /\ wf'.proof = wf.proof /\ wf'.report = wf.report
        /\ wf'.from = wf.from /\ wf'.status = "failed"
    BY <1>2, <1>16 DEF Workflows
  <2>2. WorkflowOK(setup, wf', ex)
    BY <1>1, <1>2, <2>1 DEF WorkflowOK
  <2>3. ProofOK(setup, wf', client, cp)
    BY <1>2, <1>4, <2>1 DEF ProofOK
  <2> QED
    BY <1>1, <1>3, <2>2, <2>3 DEF TrialInv
<1> QED
  BY <1>13, <1>14, <1>15, <1>16

LEMMA TrialDeliver ==
  ASSUME TrialInv, TrialAttempts \in Nat \ {0}, Evolve!Deliver
  PROVE  TrialInv'
<1>1. /\ setup \in TrialSetups /\ ex \in [1 .. TrialAttempts -> Executors]
      /\ \A b \in 1 .. TrialAttempts : ExecutorOK(setup, ex[b])
      /\ WorkflowOK(setup, wf, ex) /\ ProofOK(setup, wf, client, cp)
  BY DEF TrialInv
<1>2. wf \in Workflows /\ wf.pc = "deliver" /\ wf.status # "awaiting"
  BY <1>1 DEF WorkflowOK, Evolve!Deliver
<1>3. setup' = setup /\ client' = client /\ ex' = ex
  BY DEF Evolve!Deliver
<1>4. cp' \subseteq {wf.proof}
  BY <1>1 DEF ProofOK, Evolve!Deliver
<1>5. ASSUME NEW status \in {"awaiting", "rejected", "failed"},
             wf' = [wf EXCEPT !.pc = "ended", !.status = status],
             status = "awaiting" => wf.report.verdict = "passed" /\ wf.proof \in cp'
      PROVE  TrialInv'
  <2>1. wf' \in Workflows /\ wf'.pc = "ended" /\ wf'.proof = wf.proof /\ wf'.report = wf.report
        /\ wf'.from = wf.from /\ wf'.status = status
    BY <1>2, <1>5 DEF Workflows
  <2>2. WorkflowOK(setup, wf', ex)
    BY <1>1, <1>2, <1>5, <2>1 DEF WorkflowOK
  <2>3. ProofOK(setup, wf', client, cp')
    BY <1>1, <1>2, <1>4, <1>5, <2>1 DEF ProofOK
  <2> QED
    BY <1>1, <1>3, <2>2, <2>3 DEF TrialInv
<1>6. ASSUME wf.attempt < TrialAttempts, wf' = [wf EXCEPT !.attempt = @ + 1]
      PROVE  TrialInv'
  <2>1. wf.attempt + 1 \in 1 .. TrialAttempts
    BY <1>2, <1>6 DEF Workflows
  <2>2. wf' \in Workflows /\ wf'.pc = wf.pc /\ wf'.proof = wf.proof /\ wf'.report = wf.report
        /\ wf'.from = wf.from /\ wf'.status = wf.status
    BY <1>2, <1>6, <2>1 DEF Workflows
  <2>3. WorkflowOK(setup, wf', ex)
    BY <1>1, <1>2, <2>2 DEF WorkflowOK
  <2>4. ProofOK(setup, wf', client, cp')
    BY <1>1, <1>2, <1>4, <2>2 DEF ProofOK
  <2> QED
    BY <1>1, <1>3, <2>3, <2>4 DEF TrialInv
<1>7. PICK status \in {"awaiting", "rejected"} : status = Evolve!Gate(wf.report)
  BY DEF Evolve!Gate
<1>8. status = "awaiting" => wf.report.verdict = "passed"
  BY <1>7 DEF Evolve!Gate
<1>9. \/ cp' = cp \cup {wf.proof} /\ wf' = [wf EXCEPT !.pc = "ended", !.status = status]
      \/ wf.attempt < TrialAttempts /\ wf' = [wf EXCEPT !.attempt = @ + 1]
      \/ wf' = [wf EXCEPT !.pc = "ended", !.status = "failed"]
  BY <1>7 DEF Evolve!Deliver
<1> QED
  BY <1>5, <1>6, <1>8, <1>9

LEMMA TrialClient ==
  ASSUME TrialInv, Evolve!Attach \/ Evolve!Redeliver
  PROVE  TrialInv'
<1>1. /\ setup \in TrialSetups /\ ex \in [1 .. TrialAttempts -> Executors]
      /\ \A b \in 1 .. TrialAttempts : ExecutorOK(setup, ex[b])
      /\ WorkflowOK(setup, wf, ex) /\ ProofOK(setup, wf, client, cp)
  BY DEF TrialInv
<1>2. setup' = setup /\ wf' = wf /\ ex' = ex
  BY DEF Evolve!Attach, Evolve!Redeliver
<1>3. wf \in Workflows /\ wf.proof \in SignedProofs /\ client \in [starts : Nat, proof : SignedProofs]
  BY <1>1 DEF WorkflowOK, ProofOK, Workflows
<1>4. CASE Evolve!Attach
  <2>1. client' = [starts |-> client.starts + 1, proof |-> wf.proof] /\ wf.proof.verdict # "none" /\ cp' = cp
    BY <1>4 DEF Evolve!Attach
  <2>2. client' \in [starts : Nat, proof : SignedProofs] /\ client'.proof = wf.proof
    BY <1>3, <2>1
  <2>3. ProofOK(setup, wf, client', cp)
    BY <1>1, <2>1, <2>2 DEF ProofOK
  <2> QED
    BY <1>1, <1>2, <2>1, <2>3 DEF TrialInv
<1>5. CASE Evolve!Redeliver
  <2>1. client' = [client EXCEPT !.proof = Evolve!NoProof] /\ client.proof # Evolve!NoProof
        /\ cp' \in {cp, cp \cup {client.proof}}
    BY <1>5 DEF Evolve!Redeliver
  <2>2. Evolve!NoProof \in SignedProofs
    BY NoReportOK DEF Evolve!NoProof, SignedProofs, Claims
  <2>3. client' \in [starts : Nat, proof : SignedProofs] /\ client'.proof = Evolve!NoProof
    BY <1>3, <2>1, <2>2
  <2>4. client.proof = wf.proof /\ wf.pc \notin {"evaluate", "failure", "attest"}
    BY <1>1, <2>1 DEF ProofOK
  <2>5. cp' \subseteq {wf.proof} /\ cp \subseteq cp'
    BY <1>1, <2>1, <2>4 DEF ProofOK
  <2>6. ProofOK(setup, wf, client', cp')
    BY <1>1, <2>3, <2>4, <2>5 DEF ProofOK
  <2> QED
    BY <1>1, <1>2, <2>6 DEF TrialInv
<1> QED
  BY <1>4, <1>5

LEMMA TrialStep ==
  ASSUME TrialInv, TrialAttempts \in Nat \ {0}, TrialSetups \subseteq TrialInputs,
         [Evolve!Next]_(Evolve!vars)
  PROVE  TrialInv'
<1>1. CASE UNCHANGED Evolve!vars
  <2>1. setup' = setup /\ wf' = wf /\ ex' = ex /\ client' = client /\ cp' = cp
    BY <1>1 DEF Evolve!vars
  <2> QED
    BY <2>1 DEF TrialInv
<1> QED
  BY <1>1, TrialExecutor, TrialEvaluated, TrialAttemptFails, TrialFailureReport, TrialAttest, TrialDeliver,
     TrialClient DEF Evolve!Next

LEMMA TrialGoal ==
  ASSUME TrialInv
  PROVE  Evolve!TrialSound
<1>1. /\ ex \in [1 .. TrialAttempts -> Executors]
      /\ \A b \in 1 .. TrialAttempts : ExecutorOK(setup, ex[b])
      /\ WorkflowOK(setup, wf, ex) /\ ProofOK(setup, wf, client, cp)
  BY DEF TrialInv
<1>2. Evolve!WritesAllowed
  BY <1>1 DEF Evolve!WritesAllowed, ExecutorOK
<1>3. Evolve!OneProof
  BY <1>1 DEF Evolve!OneProof, ProofOK
<1>4. ASSUME wf.status = "awaiting"
      PROVE  /\ wf.from # 0 /\ Evolve!AllPassed(ex[wf.from].results) /\ ex[wf.from].left = {}
             /\ ex[wf.from].files = setup.bundle /\ wf.proof \in cp
  <2>1. wf.from \in 1 .. TrialAttempts /\ ex[wf.from].verdict = "passed" /\ ex[wf.from].left = {}
    BY <1>1, <1>4 DEF WorkflowOK
  <2>2. Evolve!AllPassed(ex[wf.from].results) /\ ex[wf.from].files = setup.bundle
    BY <1>1, <2>1 DEF ExecutorOK
  <2>3. wf.proof \in cp /\ wf.from # 0
    BY <1>1, <1>4, <2>1 DEF ProofOK
  <2> QED
    BY <2>1, <2>2, <2>3
<1> QED
  BY <1>2, <1>3, <1>4 DEF Evolve!TrialSound, Evolve!ApprovalGrounded

(* A trial is sound for any number of evaluations, attempts and repeated    *)
(* starts and any patch: whatever attempts are given up, fail or stop with  *)
(* their cleanup half done, and however often the proof is sent, approval   *)
(* is asked only for an evaluated, clean attempt, and the control plane     *)
(* sees one proof that claims no more than was earned (TrialSound).         *)
LEMMA TrialOK ==
  ASSUME TrialAttempts \in Nat \ {0}, TrialSetups \subseteq TrialInputs
  PROVE  Evolve!Spec => []Evolve!TrialSound
<1>1. Evolve!Init => TrialInv
  BY TrialInit
<1>2. TrialInv /\ [Evolve!Next]_(Evolve!vars) => TrialInv'
  BY TrialStep
<1>3. TrialInv => Evolve!TrialSound
  BY TrialGoal
<1> QED
  BY <1>1, <1>2, <1>3, PTL DEF Evolve!Spec

THEOREM TrialsSound ==
  ASSUME TrialAttempts \in Nat \ {0}, TrialSetups \subseteq TrialInputs
  PROVE  PlatformSpec => []TrialSound
<1>1. part = "trial" /\ [part' = part]_part => (part = "trial")'
  OBVIOUS
<1>2. ~(part = "trial") /\ [part' = part]_part => (~(part = "trial"))'
  OBVIOUS
<1>3. Evolve!TrialSound \/ ~(part = "trial") => TrialSound
  BY DEF TrialSound
<1> QED
  BY <1>1, <1>2, <1>3, TrialOK, PTL DEF PlatformSpec
=============================================================================
