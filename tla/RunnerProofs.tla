---------------------------- MODULE RunnerProofs ----------------------------
(***************************************************************************)
(* What the pipeline runner guarantees for any number of steps, any        *)
(* budgets, however the gates and the model answer, whatever raises and    *)
(* wherever the process stops: RunnerSound.                                *)
(*                                                                         *)
(* The inductive invariant RunnerInv relates four things: the state in     *)
(* memory, the checkpoint on disk, the files of the workspace and the      *)
(* snapshots.  The gist: results are a canonical prefix and so is every    *)
(* baseline (Prefix, BaseOK); the turn acted on is the last one and about  *)
(* the next step, an open candidate covers it (Positions); the checkpoint  *)
(* is an ancestor of the state, with a lower revision or a shorter prefix  *)
(* (LineageInv); and the files are those the checkpoint describes but for  *)
(* the steps an unsaved continuation is about to redo (FilesInv).          *)
(***************************************************************************)
EXTENDS PipelineRunner, WellFoundedInduction, FiniteSetTheorems, SequenceTheorems, TLAPS

ArtMap == [Steps -> ArtOrNone]
KindOf == Kinds \cup {"design"}
ResultT == [step : Steps, score : 0 .. MaxScore, exec : BOOLEAN, kind : KindOf]
ResumeT == [step : 0 .. N, tok : Nat]
BaseT == [snap : Nat, res : Seq(ResultT), art : ArtMap, cand : ArtMap, resume : ResumeT]
ReplanStatuses == {"scheduled", "recovered", "stagnated", "exhausted", "deferred"}
TurnStatuses == {"planned", "acted", "verified", "improved", "rejected", "error", "exhausted", "awaiting_human"}
Actions == {"local", "retry", "replan", "ask", "stop", "unavailable"}
ReplanT == [trig : Steps, to : Steps, kind : KindOf, status : ReplanStatuses, fp : ArtOrNone,
            inter : 0 .. MaxInter, base : BaseT \cup {NoBase}]
TurnT == [step : Steps, target : 0 .. N, action : Actions, kind : KindOf, status : TurnStatuses,
          before : Nat, fp : ArtOrNone, base : BaseT \cup {NoBase}]
StateT == [res : Seq(ResultT), art : ArtMap, cand : ArtMap, rev : Nat, replans : Seq(ReplanT),
           turns : Seq(TurnT), resume : ResumeT, gen : Nat]

RunnerTypes ==
  /\ pc \in {"idle", "loop", "ran", "gate", "decide", "save", "refused", "load_error",
             "order_error", "lost"}
  /\ after \in {"idle", "loop"}
  /\ st \in StateT /\ ck \in StateT
  /\ files \in ArtMap
  /\ until \in Steps /\ tries \in 0 .. ExecRetries
  /\ count \in [launch : Nat, tok : Nat, snap : Nat]
  /\ req \in ResumeT
  /\ DOMAIN snaps \subseteq 1 .. count.snap
  /\ \A n \in DOMAIN snaps : snaps[n] \in ArtMap

(* Results in canonical order, done but perhaps the last one; what is done *)
(* has its artifact, and nothing beyond has one.                           *)
Prefix(results, art) ==
  /\ \A i \in 1 .. Len(results) : results[i].step = i
  /\ \A i \in 1 .. Len(results) : results[i].exec => i = Len(results) /\ results[i].score > 0 /\ art[i] = NoArt
  /\ \A i \in 1 .. Len(results) : ~results[i].exec => art[i] # NoArt
  /\ \A s \in Steps : art[s] # NoArt => s <= Len(results)

NoExec(results) == \A i \in 1 .. Len(results) : ~results[i].exec

BasedTurns(t) == {i \in DOMAIN t.turns : HasBase(t.turns[i])}
Matches(art, f) == \A s \in Steps : art[s] # NoArt => f[s] = art[s]

(* A token is never newer than the continuation of the current workflow.   *)
Known(r, cnt, q) == r.tok <= cnt.tok /\ (r.tok = cnt.tok => r = q)

(* A baseline of step s, in a state continued from step c.                 *)
BaseOK(b, s, c, cnt, q, sn) ==
  /\ b.snap \in 1 .. cnt.snap
  /\ Prefix(b.res, b.art) /\ Len(b.res) = s
  /\ b.resume.step = c /\ Known(b.resume, cnt, q)
  /\ "undone" \notin CrashPoints /\ b.snap \in DOMAIN sn => Matches(b.art, sn[b.snap])

Baselines(t, cnt, q, sn) ==
  /\ \A i \in BasedTurns(t) : BaseOK(t.turns[i].base, t.turns[i].step, t.resume.step, cnt, q, sn)
  /\ \A i \in OpenReplans(t) : BaseOK(t.replans[i].base, t.replans[i].trig, t.resume.step, cnt, q, sn)
  /\ \A i, j \in OpenReplans(t) : t.replans[i].base.snap = t.replans[j].base.snap => i = j
  /\ \A i \in OpenReplans(t), j \in BasedTurns(t) : t.replans[i].base.snap # t.turns[j].base.snap

(* Every open baseline of u is one of t.                                   *)
Within(u, t) ==
  /\ u.resume.step = t.resume.step
  /\ \A i \in BasedTurns(u) : /\ i \in BasedTurns(t) /\ u.turns[i].base = t.turns[i].base
                              /\ u.turns[i].step = t.turns[i].step
  /\ \A i \in OpenReplans(u) : /\ i \in OpenReplans(t) /\ u.replans[i].base = t.replans[i].base
                               /\ u.replans[i].trig = t.replans[i].trig

(* A state whose next step is k.  The turn acted on is the last one and    *)
(* about that step; an open replan covers it, and is the only one.         *)
Positions(t, k) ==
  /\ \A i \in BasedTurns(t) : /\ i = Len(t.turns) /\ t.turns[i].status = "acted" /\ t.turns[i].step = k
  /\ RepairRelease => /\ \A i, j \in OpenReplans(t) : i = j
                      /\ \A i \in OpenReplans(t) : t.replans[i].to <= k /\ k <= t.replans[i].trig
                      /\ \A i \in DOMAIN t.replans : t.replans[i].status = "scheduled" => HasBase(t.replans[i])
  /\ DraftFirst => BasedTurns(t) = {} /\ OpenReplans(t) = {}
  /\ \A i \in DOMAIN t.replans : t.replans[i].to < t.replans[i].trig

Settled(t, cnt, q, sn) ==
  /\ Prefix(t.res, t.art) /\ Known(t.resume, cnt, q) /\ Baselines(t, cnt, q, sn)

Saved(t) ==
  /\ Positions(t, Len(t.res) + 1)
  /\ BasedTurns(t) # {} => NoExec(t.res)
  /\ RepairRelease /\ OpenReplans(t) # {} => NoExec(t.res)

(* Snapshots a rollback may need.                                          *)
TurnSnaps(t) == {t.turns[i].base.snap : i \in BasedTurns(t)}
ReplanSnaps(t) == {t.replans[i].base.snap : i \in OpenReplans(t)}

Active == pc \in {"loop", "ran", "gate", "decide", "save"}
Executed == pc \in {"ran", "gate", "decide"}

CheckpointInv ==
  /\ Settled(ck, count, req, snaps) /\ Saved(ck)
  /\ ck.gen = 0 => ck = Fresh
  /\ req.tok = count.tok
  /\ req # NoResume => req.step \in Steps /\ ck.gen > 0
  /\ ck.resume.step = req.step \/ ExpectedResume(ck) = req.step

StateInv ==
  Active =>
    /\ Settled(st, count, req, snaps)
    /\ st.resume.step = req.step
    /\ pc = "loop" => NoExec(st.res) /\ Saved(st)
    /\ pc = "save" => Saved(st) /\ (after = "loop" => NoExec(st.res))
    /\ Executed => Len(st.res) > 0 /\ Positions(st, Len(st.res))
    /\ pc \in {"gate", "decide"} => BasedTurns(st) = {}
    /\ pc = "decide" => ~DraftFirst /\ Blocked(Res)

LineageInv ==
  Active =>
    /\ st.gen = ck.gen
    /\ \/ ck.rev < st.rev
       \/ ck.rev = st.rev /\ Len(ck.res) <= (IF Executed THEN Len(st.res) - 1 ELSE Len(st.res))

(* Files and checkpoint agree but for what an unsaved continuation redoes. *)
Redoes(c, q, s) == c.resume # q /\ ExpectedResume(c) = q.step /\ q.step <= s
Agrees(c, q, f) ==
  \A s \in Steps : c.art[s] # NoArt /\ f[s] # c.art[s] => Redoes(c, q, s)

FilesInv ==
  "undone" \notin CrashPoints =>
    /\ pc # "lost"
    /\ Active => /\ Matches(st.art, files)
                 /\ TurnSnaps(st) \cup ReplanSnaps(st) \subseteq DOMAIN snaps
    /\ pc \in {"loop", "ran", "gate", "decide"} =>
         TurnSnaps(st) \cup ReplanSnaps(st) \subseteq TurnSnaps(ck) \cup ReplanSnaps(ck)
    /\ pc \in {"idle", "loop", "ran"} =>
         /\ TurnSnaps(ck) \subseteq DOMAIN snaps
         /\ RepairRelease => ReplanSnaps(ck) \subseteq DOMAIN snaps
         /\ Agrees(ck, req, files)
    /\ pc \in {"gate", "decide", "save"} /\ TurnSnaps(ck) \cup ReplanSnaps(ck) \subseteq DOMAIN snaps =>
         Agrees(ck, req, files)
    /\ pc = "loop" /\ Len(st.res) < Len(ck.res) =>
         \A s \in Steps : s > Len(st.res) /\ ck.art[s] # NoArt => Redoes(ck, req, s)

RunnerInv ==
  /\ RunnerTypes /\ CheckpointInv /\ StateInv /\ LineageInv /\ FilesInv
  /\ pc \notin {"refused", "order_error"} /\ ResumeAdmitted
-----------------------------------------------------------------------------
(* A set of numbers that is not empty has a least one.                     *)
LEMMA LeastNumber ==
  ASSUME NEW T \in SUBSET Nat, T # {}
  PROVE  \E m \in T : \A k \in T : m <= k
<1>1. PICK Q : /\ IsWellFoundedOn(Q, Nat)
               /\ \A x, y \in Nat : <<y, x>> \in Q <=> y < x
  <2>1. \A x, y \in Nat : <<y, x>> \in OpToRel(<, Nat) <=> y < x
    BY DEF OpToRel
  <2> QED
    BY <2>1, NatLessThanWellFounded
<1>2. PICK m \in T : \A y \in T : ~ (<<y, m>> \in Q)
  BY <1>1, WFMin
<1>3. \A k \in T : ~ (k < m)
  BY <1>1, <1>2
<1>4. \A k \in T : m <= k
  BY <1>3
<1> QED
  BY <1>4

(* The most recent of some positions is one of them and none is later; 0   *)
(* stands for none (the reversed scans of _active_replan and its like).    *)
LEMMA LatestIsIn ==
  ASSUME NEW n \in Nat, NEW hits \in SUBSET (1 .. n)
  PROVE  /\ hits = {} => Latest(hits) = 0
         /\ hits # {} => Latest(hits) \in hits /\ \A j \in hits : j <= Latest(hits)
<1>1. CASE hits = {}
  BY <1>1 DEF Latest
<1>2. CASE hits # {}
  <2> DEFINE T == {n - k : k \in hits}
  <2>1. T \in SUBSET Nat /\ T # {}
    <3>1. \A k \in hits : n - k \in Nat
      OBVIOUS
    <3>2. T \subseteq Nat
      BY <3>1
    <3> QED
      BY <3>2, <1>2
  <2>2. PICK d \in T : \A e \in T : d <= e
    BY <2>1, LeastNumber
  <2>3. PICK m \in hits : d = n - m
    BY <2>2
  <2>4. ASSUME NEW k \in hits PROVE m >= k
    <3>1. n - k \in T
      OBVIOUS
    <3>2. n - m <= n - k
      BY <2>2, <2>3, <3>1
    <3> QED
      BY <3>2
  <2>5. Max(hits) \in hits /\ \A k \in hits : Max(hits) >= k
    BY <2>4, <1>2 DEF Max
  <2>6. Latest(hits) = Max(hits)
    BY <1>2 DEF Latest
  <2>7. \A k \in hits : k <= Max(hits)
    BY <2>5
  <2> QED
    BY <1>2, <2>5, <2>6, <2>7
<1> QED
  BY <1>1, <1>2

(* The recursive function behind Select exists and is unfolded by its      *)
(* equation: were it not, there would be a shortest prefix without one.    *)
Filtered(f, n, seq, kept) ==
  f = [i \in 0 .. n |-> IF i = 0 THEN <<>> ELSE IF i \in kept THEN Append(f[i - 1], seq[i]) ELSE f[i - 1]]

(* A function that filters the first n elements exists for every n.        *)
LEMMA FilteredExists ==
  ASSUME NEW seq, NEW kept, NEW n \in Nat
  PROVE  \E f : Filtered(f, n, seq, kept)
<1> DEFINE T == {m \in Nat : ~ \E f : Filtered(f, m, seq, kept)}
<1>1. SUFFICES ASSUME T # {} PROVE FALSE
  OBVIOUS
<1>2. PICK m \in T : \A k \in T : m <= k
  <2>1. T \in SUBSET Nat
    OBVIOUS
  <2> QED
    BY <1>1, <2>1, LeastNumber
<1>3. m # 0
  <2>1. PICK f : f = [i \in 0 .. 0 |-> <<>>]
    OBVIOUS
  <2>2. Filtered(f, 0, seq, kept)
    BY <2>1 DEF Filtered
  <2> QED
    BY <1>2, <2>2
<1>4. m - 1 \in Nat /\ m - 1 \notin T
  BY <1>2, <1>3
<1>5. PICK f : Filtered(f, m - 1, seq, kept)
  BY <1>4
<1>6. PICK g : g = [i \in 0 .. m |-> IF i = m THEN IF m \in kept THEN Append(f[m - 1], seq[m]) ELSE f[m - 1] ELSE f[i]]
  OBVIOUS
<1>7. \A i \in 0 .. m : g[i] = (IF i = 0 THEN <<>> ELSE IF i \in kept THEN Append(g[i - 1], seq[i]) ELSE g[i - 1])
  <2>1. \A i \in 0 .. (m - 1) :
          f[i] = (IF i = 0 THEN <<>> ELSE IF i \in kept THEN Append(f[i - 1], seq[i]) ELSE f[i - 1])
    BY <1>5, <1>4 DEF Filtered
  <2>2. \A i \in 0 .. m : i # m => i \in 0 .. (m - 1)
    BY <1>2
  <2>3. \A i \in 0 .. m : g[i] = (IF i = m THEN IF m \in kept THEN Append(f[m - 1], seq[m]) ELSE f[m - 1] ELSE f[i])
    BY <1>6
  <2>4. \A i \in 0 .. m : i # 0 => i - 1 \in 0 .. m /\ i - 1 # m
    BY <1>2
  <2>5. ASSUME NEW i \in 0 .. m, i # m
        PROVE  g[i] = (IF i = 0 THEN <<>> ELSE IF i \in kept THEN Append(g[i - 1], seq[i]) ELSE g[i - 1])
    <3>1. g[i] = f[i] /\ (i # 0 => g[i - 1] = f[i - 1])
      BY <2>3, <2>4, <2>5
    <3> QED
      BY <2>1, <2>2, <2>5, <3>1
  <2>6. m \in 0 .. m /\ m - 1 \in 0 .. m /\ m - 1 # m
    BY <1>2, <1>3
  <2>7. g[m] = (IF m \in kept THEN Append(g[m - 1], seq[m]) ELSE g[m - 1])
    BY <2>3, <2>6
  <2> QED
    BY <1>3, <2>5, <2>7
<1>8. Filtered(g, m, seq, kept)
  BY <1>6, <1>7 DEF Filtered
<1> QED
  BY <1>2, <1>8

(* So Select is that function at the length of the list.                   *)
LEMMA SelectUnfolds ==
  ASSUME NEW seq, NEW kept, Len(seq) \in Nat
  PROVE  \E f : /\ Filtered(f, Len(seq), seq, kept)
                /\ Select(seq, kept) = f[Len(seq)]
<1> DEFINE F == CHOOSE f : Filtered(f, Len(seq), seq, kept)
<1>1. Filtered(F, Len(seq), seq, kept)
  BY FilteredExists
<1>2. Select(seq, kept) = F[Len(seq)]
  BY DEF Select, Filtered
<1> QED
  BY <1>1, <1>2

(* Every element selected is one of the list, at a position that is kept.  *)
LEMMA SelectElements ==
  ASSUME NEW S, NEW seq \in Seq(S), NEW kept
  PROVE  /\ Select(seq, kept) \in Seq(S)
         /\ \A k \in 1 .. Len(Select(seq, kept)) : \E j \in DOMAIN seq : j \in kept /\ Select(seq, kept)[k] = seq[j]
<1>1. PICK f : Filtered(f, Len(seq), seq, kept) /\ Select(seq, kept) = f[Len(seq)]
  BY SelectUnfolds
<1> DEFINE Good(x) == /\ x \in Seq(S)
                      /\ \A k \in 1 .. Len(x) : \E j \in DOMAIN seq : j \in kept /\ x[k] = seq[j]
           T == {m \in 0 .. Len(seq) : ~ Good(f[m])}
<1>2. SUFFICES ASSUME T # {} PROVE FALSE
  <2>1. Len(seq) \in 0 .. Len(seq)
    OBVIOUS
  <2> QED
    BY <1>1, <2>1
<1>3. PICK m \in T : \A k \in T : m <= k
  <2>1. T \in SUBSET Nat
    OBVIOUS
  <2> QED
    BY <1>2, <2>1, LeastNumber
<1>4. \A i \in 0 .. Len(seq) : f[i] = (IF i = 0 THEN <<>> ELSE IF i \in kept THEN Append(f[i - 1], seq[i]) ELSE f[i - 1])
  BY <1>1 DEF Filtered
<1>5. m # 0
  <2>1. f[0] = <<>>
    BY <1>4
  <2>2. Good(<<>>)
    OBVIOUS
  <2>3. Good(f[0])
    BY <2>1, <2>2
  <2>4. ~ Good(f[m])
    BY <1>3
  <2> HIDE DEF Good
  <2> QED
    BY <2>3, <2>4
<1>6. m - 1 \in 0 .. Len(seq) /\ m - 1 \notin T
  BY <1>3, <1>5
<1>7. Good(f[m - 1])
  BY <1>6
<1>8. m \in DOMAIN seq /\ seq[m] \in S
  BY <1>3, <1>5
<1>9. f[m] = f[m - 1] \/ (m \in kept /\ f[m] = Append(f[m - 1], seq[m]))
  BY <1>3, <1>4, <1>5
<1>10. CASE m \in kept /\ f[m] = Append(f[m - 1], seq[m])
  <2>1. f[m] \in Seq(S) /\ Len(f[m]) = Len(f[m - 1]) + 1
    BY <1>7, <1>8, <1>10
  <2>2. ASSUME NEW k \in 1 .. Len(f[m])
        PROVE  \E j \in DOMAIN seq : j \in kept /\ f[m][k] = seq[j]
    <3>1. CASE k = Len(f[m - 1]) + 1
      BY <1>7, <1>8, <1>10, <3>1
    <3>2. CASE k \in 1 .. Len(f[m - 1])
      <4>1. f[m][k] = f[m - 1][k]
        BY <1>7, <1>8, <1>10, <3>2
      <4> QED
        BY <1>7, <3>2, <4>1
    <3> QED
      BY <2>1, <3>1, <3>2, <1>7
  <2> QED
    BY <2>1, <2>2, <1>3
<1> QED
  BY <1>3, <1>7, <1>9, <1>10

(* Keeping the first positions keeps the beginning of the list.            *)
LEMMA SelectPrefix ==
  ASSUME NEW S, NEW seq \in Seq(S), NEW kept, NEW m \in 0 .. Len(seq),
         \A i \in 1 .. Len(seq) : i \in kept <=> i <= m
  PROVE  /\ Select(seq, kept) \in Seq(S) /\ Len(Select(seq, kept)) = m
         /\ \A i \in 1 .. m : Select(seq, kept)[i] = seq[i]
<1>1. PICK f : Filtered(f, Len(seq), seq, kept) /\ Select(seq, kept) = f[Len(seq)]
  BY SelectUnfolds
<1> DEFINE Size(n) == IF n <= m THEN n ELSE m
           Good(n) == /\ f[n] \in Seq(S) /\ Len(f[n]) = Size(n)
                      /\ \A i \in 1 .. Size(n) : f[n][i] = seq[i]
           T == {n \in 0 .. Len(seq) : ~ Good(n)}
<1>2. SUFFICES ASSUME T # {} PROVE FALSE
  <2>1. Len(seq) \in 0 .. Len(seq) /\ Size(Len(seq)) = m
    OBVIOUS
  <2> QED
    BY <1>1, <2>1
<1>3. PICK n \in T : \A k \in T : n <= k
  <2>1. T \in SUBSET Nat
    OBVIOUS
  <2> QED
    BY <1>2, <2>1, LeastNumber
<1>4. \A i \in 0 .. Len(seq) : f[i] = (IF i = 0 THEN <<>> ELSE IF i \in kept THEN Append(f[i - 1], seq[i]) ELSE f[i - 1])
  BY <1>1 DEF Filtered
<1>5. n # 0
  <2>1. f[0] = <<>> /\ Size(0) = 0
    BY <1>4
  <2>2. Good(0)
    BY <2>1
  <2> QED
    BY <1>3, <2>2
<1>6. n - 1 \in 0 .. Len(seq) /\ n - 1 \notin T
  BY <1>3, <1>5
<1>7. Good(n - 1)
  BY <1>6
<1>8. n \in 1 .. Len(seq) /\ seq[n] \in S
  BY <1>3, <1>5
<1>9. CASE n <= m
  <2>1. f[n] = Append(f[n - 1], seq[n]) /\ Size(n) = n /\ Size(n - 1) = n - 1
    <3>1. n \in kept /\ n \in 0 .. Len(seq)
      BY <1>8, <1>9
    <3>2. f[n] = Append(f[n - 1], seq[n])
      BY <1>4, <1>5, <3>1
    <3> QED
      BY <1>8, <1>9, <3>2
  <2>2. f[n] \in Seq(S) /\ Len(f[n]) = n
    BY <1>7, <1>8, <2>1
  <2>3. ASSUME NEW i \in 1 .. n PROVE f[n][i] = seq[i]
    BY <1>7, <1>8, <2>1
  <2> QED
    BY <1>3, <2>1, <2>2, <2>3
<1>10. CASE ~ (n <= m)
  <2>1. f[n] = f[n - 1] /\ Size(n) = m /\ Size(n - 1) = m
    <3>1. n \notin kept /\ n \in 0 .. Len(seq)
      BY <1>8, <1>10
    <3>2. f[n] = f[n - 1]
      BY <1>4, <1>5, <3>1
    <3> QED
      BY <1>8, <1>10, <3>2
  <2> QED
    BY <1>3, <1>7, <2>1
<1> QED
  BY <1>9, <1>10

(* Cutting a prefix before one of its steps, or right after it, leaves the *)
(* prefix of the earlier steps.                                            *)
LEMMA ResultsCut ==
  ASSUME RunnerConstants, NEW results \in Seq(ResultT), NEW s \in Steps, s <= Len(results) + 1,
         \A i \in 1 .. Len(results) : results[i].step = i
  PROVE  /\ ResultsBefore(results, s) \in Seq(ResultT) /\ Len(ResultsBefore(results, s)) = s - 1
         /\ \A i \in 1 .. (s - 1) : ResultsBefore(results, s)[i] = results[i]
<1> DEFINE kept == {i \in DOMAIN results : results[i].step < s}
<1>1. s - 1 \in 0 .. Len(results)
  BY DEF RunnerConstants, Steps
<1>2. \A i \in 1 .. Len(results) : i \in kept <=> i <= s - 1
  <2>1. DOMAIN results = 1 .. Len(results) /\ s \in Nat
    BY DEF Steps
  <2>2. ASSUME NEW i \in 1 .. Len(results) PROVE i \in kept <=> i <= s - 1
    BY <2>1
  <2> QED
    BY <2>2
<1> HIDE DEF kept
<1>3. /\ Select(results, kept) \in Seq(ResultT) /\ Len(Select(results, kept)) = s - 1
      /\ \A i \in 1 .. (s - 1) : Select(results, kept)[i] = results[i]
  BY <1>1, <1>2, SelectPrefix
<1> QED
  BY <1>3 DEF ResultsBefore, kept

(* Cutting a state back to before step s leaves s - 1 results in order,    *)
(* keeps the artifacts of those and touches no history.                    *)
LEMMA TruncateOK ==
  ASSUME RunnerConstants, NEW t \in StateT, Prefix(t.res, t.art), NEW s \in Steps, s <= Len(t.res) + 1
  PROVE  LET u == Truncate(s, t) IN
         /\ u \in StateT /\ Len(u.res) = s - 1 /\ Prefix(u.res, u.art)
         /\ s <= Len(t.res) \/ NoExec(t.res) => NoExec(u.res)
         /\ \A x \in Steps : u.art[x] # NoArt => u.art[x] = t.art[x]
         /\ u.turns = t.turns /\ u.replans = t.replans /\ u.resume = t.resume /\ u.rev = t.rev /\ u.gen = t.gen
<1> DEFINE u == Truncate(s, t)
<1>1. /\ ResultsBefore(t.res, s) \in Seq(ResultT) /\ Len(ResultsBefore(t.res, s)) = s - 1
      /\ \A i \in 1 .. (s - 1) : ResultsBefore(t.res, s)[i] = t.res[i]
  <2>1. t.res \in Seq(ResultT)
    BY DEF StateT
  <2> QED
    BY <2>1, ResultsCut DEF Prefix
<1>2. /\ u.res = ResultsBefore(t.res, s) /\ u.art = [x \in Steps |-> IF x < s THEN t.art[x] ELSE NoArt]
      /\ u.turns = t.turns /\ u.replans = t.replans /\ u.resume = t.resume /\ u.rev = t.rev /\ u.gen = t.gen
      /\ u.cand = t.cand
  BY DEF Truncate, StateT
<1>3. u \in StateT
  <2>1. u.art \in ArtMap
    BY <1>2 DEF StateT, ArtMap, ArtOrNone
  <2> QED
    BY <1>1, <1>2, <2>1 DEF Truncate, StateT
<1>4. \A x \in Steps : u.art[x] = IF x < s THEN t.art[x] ELSE NoArt
  BY <1>2
<1>5. Prefix(u.res, u.art) /\ (s <= Len(t.res) \/ NoExec(t.res) => NoExec(u.res))
  <2>1. Len(t.res) \in Nat /\ s \in Nat /\ \A i \in 1 .. (s - 1) : i \in 1 .. Len(t.res) /\ i \in Steps /\ i < s
    <3>1. Len(t.res) \in Nat
      BY DEF StateT
    <3> QED
      BY <3>1 DEF Steps, RunnerConstants
  <2>2. \A i \in 1 .. (s - 1) : u.res[i] = t.res[i] /\ u.art[i] = t.art[i]
    BY <1>1, <1>2, <1>4, <2>1
  <2>3. \A x \in Steps : u.art[x] # NoArt => x <= s - 1
    BY <1>4, <2>1 DEF Steps, RunnerConstants
  <2>4. ASSUME NEW i \in 1 .. (s - 1), u.res[i].exec PROVE s = Len(t.res) + 1 /\ i = Len(t.res)
    BY <2>1, <2>2, <2>4 DEF Prefix
  <2>5. s <= Len(t.res) \/ NoExec(t.res) => NoExec(u.res)
    BY <1>1, <1>2, <2>1, <2>2, <2>4 DEF NoExec
  <2>6. \A i \in 1 .. (s - 1) : u.res[i].exec => i = s - 1 /\ u.res[i].score > 0 /\ u.art[i] = NoArt
    BY <2>1, <2>2, <2>4 DEF Prefix
  <2>7. \A i \in 1 .. (s - 1) : u.res[i].step = i /\ (~u.res[i].exec => u.art[i] # NoArt)
    BY <2>1, <2>2 DEF Prefix
  <2>8. Len(u.res) = s - 1
    BY <1>1, <1>2
  <2> HIDE DEF u
  <2> QED
    BY <2>3, <2>5, <2>6, <2>7, <2>8 DEF Prefix
<1> QED
  BY <1>1, <1>2, <1>3, <1>4, <1>5

(* Re-entering a gate differs from cutting before it by the candidate.     *)
LEMMA ReopenOK ==
  ASSUME RunnerConstants, NEW t \in StateT, Prefix(t.res, t.art), NEW s \in Steps, s <= Len(t.res)
  PROVE  LET u == Reopen(s, t) IN
         /\ u \in StateT /\ Len(u.res) = s - 1 /\ Prefix(u.res, u.art) /\ NoExec(u.res)
         /\ \A x \in Steps : u.art[x] # NoArt => u.art[x] = t.art[x]
         /\ u.turns = t.turns /\ u.replans = t.replans /\ u.resume = t.resume /\ u.rev = t.rev /\ u.gen = t.gen
<1> DEFINE v == IF t.art[s] # NoArt THEN [t EXCEPT !.cand[s] = t.art[s]] ELSE t
<1>1. v \in StateT /\ v.res = t.res /\ v.art = t.art /\ v.turns = t.turns /\ v.replans = t.replans
      /\ v.resume = t.resume /\ v.rev = t.rev /\ v.gen = t.gen
  BY DEF StateT, ArtMap
<1>2. s <= Len(v.res) + 1 /\ s <= Len(v.res)
  <2>1. Len(t.res) \in Nat /\ s \in Nat
    BY DEF StateT, Steps
  <2> QED
    BY <1>1, <2>1
<1> HIDE DEF v
<1>3. Prefix(v.res, v.art)
  BY <1>1
<1>4. LET u == Truncate(s, v) IN
         /\ u \in StateT /\ Len(u.res) = s - 1 /\ Prefix(u.res, u.art) /\ NoExec(u.res)
         /\ \A x \in Steps : u.art[x] # NoArt => u.art[x] = v.art[x]
         /\ u.turns = v.turns /\ u.replans = v.replans /\ u.resume = v.resume /\ u.rev = v.rev /\ u.gen = v.gen
  BY <1>1, <1>2, <1>3, TruncateOK
<1>5. Reopen(s, t) = Truncate(s, v)
  BY DEF Reopen, v
<1> QED
  BY <1>1, <1>4, <1>5

(* A rollback brings back results, artifacts and continuation of the       *)
(* baseline and keeps the histories.                                       *)
LEMMA RestoredOK ==
  ASSUME NEW t \in StateT, NEW base \in BaseT
  PROVE  LET u == Restored(t, base) IN
         /\ u \in StateT /\ u.res = base.res /\ u.art = base.art /\ u.resume = base.resume
         /\ u.turns = t.turns /\ u.replans = t.replans /\ u.rev = t.rev /\ u.gen = t.gen
  BY DEF Restored, StateT, BaseT

(* A baseline taken of a state holds its results, artifacts and            *)
(* continuation.                                                           *)
LEMMA CapturedOK ==
  ASSUME NEW t \in StateT, NEW n \in Nat \ {0}
  PROVE  LET b == Captured(t, n) IN
         /\ b \in BaseT /\ b # NoBase /\ b.snap = n /\ b.res = t.res /\ b.art = t.art /\ b.resume = t.resume
<1>1. Captured(t, n) \in BaseT
  BY DEF Captured, StateT, BaseT
<1>2. Captured(t, n).snap = n /\ Captured(t, n).res = t.res /\ Captured(t, n).art = t.art
      /\ Captured(t, n).resume = t.resume
  BY DEF Captured
<1>3. NoBase.snap = 0
  BY DEF NoBase
<1> QED
  BY <1>1, <1>2, <1>3

(* A list with one element replaced.                                       *)
LEMMA SeqEdit ==
  ASSUME NEW S, NEW seq \in Seq(S), NEW i \in DOMAIN seq, NEW e \in S
  PROVE  LET f == [seq EXCEPT ![i] = e] IN
         /\ f \in Seq(S) /\ Len(f) = Len(seq) /\ DOMAIN f = DOMAIN seq /\ f[i] = e
         /\ \A k \in DOMAIN seq : k # i => f[k] = seq[k]
  BY ExceptSeq

(* A function on 1 .. n is a list of length n.                             *)
LEMMA SeqOfMap ==
  ASSUME NEW S, NEW n \in Nat, NEW f \in [1 .. n -> S]
  PROVE  f \in Seq(S) /\ Len(f) = n /\ DOMAIN f = 1 .. n
  OBVIOUS

(* What holds of the baselines of a state holds of a state with fewer, and *)
(* in a world with more snapshots.                                         *)
LEMMA WithinOK ==
  ASSUME NEW t, NEW u, NEW cnt, NEW q, NEW sn, Baselines(t, cnt, q, sn), Within(u, t)
  PROVE  /\ Baselines(u, cnt, q, sn)
         /\ TurnSnaps(u) \subseteq TurnSnaps(t) /\ ReplanSnaps(u) \subseteq ReplanSnaps(t)
<1>1. \A i \in BasedTurns(u) : BaseOK(u.turns[i].base, u.turns[i].step, u.resume.step, cnt, q, sn)
  BY DEF Within, Baselines
<1>2. \A i \in OpenReplans(u) : BaseOK(u.replans[i].base, u.replans[i].trig, u.resume.step, cnt, q, sn)
  BY DEF Within, Baselines
<1>3. \A i, j \in OpenReplans(u) : u.replans[i].base.snap = u.replans[j].base.snap => i = j
  BY DEF Within, Baselines
<1>4. ASSUME NEW i \in OpenReplans(u), NEW j \in BasedTurns(u)
      PROVE  u.replans[i].base.snap # u.turns[j].base.snap
  <2>1. /\ i \in OpenReplans(t) /\ j \in BasedTurns(t) /\ u.replans[i].base = t.replans[i].base
        /\ u.turns[j].base = t.turns[j].base
    BY DEF Within
  <2>2. t.replans[i].base.snap # t.turns[j].base.snap
    BY <2>1 DEF Baselines
  <2> QED
    BY <2>1, <2>2
<1>5. TurnSnaps(u) \subseteq TurnSnaps(t) /\ ReplanSnaps(u) \subseteq ReplanSnaps(t)
  BY DEF Within, TurnSnaps, ReplanSnaps
<1> QED
  BY <1>1, <1>2, <1>3, <1>4, <1>5 DEF Baselines

CountT == [launch : Nat, tok : Nat, snap : Nat]

(* The world goes on: tokens stay, names of snapshots are only added, and  *)
(* a snapshot is never written again.                                      *)
Later(cnt, sn, cnt2, sn2) ==
  /\ cnt2.tok = cnt.tok /\ cnt.snap <= cnt2.snap
  /\ \A n \in DOMAIN sn2 : n \in 1 .. cnt.snap => n \in DOMAIN sn /\ sn2[n] = sn[n]

(* A baseline stays good when counters grow and snapshots go, as long as   *)
(* none is rewritten.                                                      *)
LEMMA BaseLater ==
  ASSUME NEW b, NEW s, NEW c, NEW cnt \in CountT, NEW q, NEW sn, NEW cnt2 \in CountT, NEW sn2,
         BaseOK(b, s, c, cnt, q, sn), Later(cnt, sn, cnt2, sn2)
  PROVE  BaseOK(b, s, c, cnt2, q, sn2)
<1>1. b.snap \in 1 .. cnt2.snap
  BY DEF BaseOK, Later, CountT
<1>2. Known(b.resume, cnt2, q)
  BY DEF BaseOK, Later, Known
<1>3. "undone" \notin CrashPoints /\ b.snap \in DOMAIN sn2 => Matches(b.art, sn2[b.snap])
  BY DEF BaseOK, Later
<1> QED
  BY <1>1, <1>2, <1>3 DEF BaseOK

(* So does everything a settled state says.                                *)
LEMMA SettledLater ==
  ASSUME NEW t, NEW cnt \in CountT, NEW q, NEW sn, NEW cnt2 \in CountT, NEW sn2,
         Settled(t, cnt, q, sn), Later(cnt, sn, cnt2, sn2)
  PROVE  Settled(t, cnt2, q, sn2)
<1>1. Baselines(t, cnt2, q, sn2)
  BY BaseLater DEF Settled, Baselines
<1>2. Known(t.resume, cnt2, q)
  BY DEF Settled, Later, Known
<1> QED
  BY <1>1, <1>2 DEF Settled

(* A state with no other baselines than a settled one is settled.          *)
LEMMA SettledWithin ==
  ASSUME NEW t, NEW u, NEW cnt, NEW q, NEW sn, Settled(t, cnt, q, sn), Within(u, t),
         Prefix(u.res, u.art), Known(u.resume, cnt, q)
  PROVE  /\ Settled(u, cnt, q, sn)
         /\ TurnSnaps(u) \subseteq TurnSnaps(t) /\ ReplanSnaps(u) \subseteq ReplanSnaps(t)
  BY WithinOK DEF Settled

(* The edits of the histories.                                             *)
ClosedTurn(t, i, stat) == [t EXCEPT !.turns[i].status = stat, !.turns[i].base = NoBase]
MarkedTurn(t, i, stat) == [t EXCEPT !.turns[i].status = stat]
AddedTurn(t, e) == [t EXCEPT !.turns = Append(@, e)]
EditedReplan(t, i, e) == [t EXCEPT !.replans[i] = e]
ClosedReplan(t, i, stat) == [t EXCEPT !.replans[i].status = stat, !.replans[i].base = NoBase]
MarkedReplan(t, i, stat) == [t EXCEPT !.replans[i].status = stat]
ExtendedReplan(t, i) == [t EXCEPT !.replans[i].inter = @ + 1]

(* Closing a recovery turn drops its baseline and leaves the other turns.  *)
LEMMA TurnClosed ==
  ASSUME NEW t \in StateT, NEW i \in DOMAIN t.turns, NEW stat \in TurnStatuses
  PROVE  LET u == ClosedTurn(t, i, stat) IN
         /\ u \in StateT /\ Within(u, t) /\ i \notin BasedTurns(u) /\ u.replans = t.replans
         /\ \A k \in BasedTurns(t) : k # i => k \in BasedTurns(u) /\ u.turns[k] = t.turns[k]
         /\ Len(u.turns) = Len(t.turns)
         /\ u.res = t.res /\ u.art = t.art /\ u.resume = t.resume /\ u.rev = t.rev /\ u.gen = t.gen
<1> DEFINE e == [t.turns[i] EXCEPT !.status = stat, !.base = NoBase]
           u == [t EXCEPT !.turns[i].status = stat, !.turns[i].base = NoBase]
<1> HIDE DEF u
<1>1. t.turns \in Seq(TurnT)
  BY DEF StateT
<1>2. e \in TurnT /\ e.base = NoBase /\ e.step = t.turns[i].step
  <2>1. t.turns[i] \in TurnT
    BY <1>1
  <2>2. e = [t.turns[i] EXCEPT !.status = stat, !.base = NoBase]
    OBVIOUS
  <2>3. \A r \in TurnT, b \in BaseT \cup {NoBase} :
          LET f == [r EXCEPT !.status = stat, !.base = b] IN f \in TurnT /\ f.base = b /\ f.step = r.step
    BY DEF TurnT
  <2> QED
    BY <2>1, <2>3
<1>0. u = [t EXCEPT !.turns[i].status = stat, !.turns[i].base = NoBase]
  BY DEF u
<1>3. u.turns = [t.turns EXCEPT ![i] = e]
  BY <1>0, <1>1, <1>2 DEF StateT, TurnT
<1>4. /\ u.turns \in Seq(TurnT) /\ Len(u.turns) = Len(t.turns) /\ DOMAIN u.turns = DOMAIN t.turns /\ u.turns[i] = e
      /\ \A k \in DOMAIN t.turns : k # i => u.turns[k] = t.turns[k]
  <2> DEFINE f == [t.turns EXCEPT ![i] = e]
  <2>1. /\ f \in Seq(TurnT) /\ Len(f) = Len(t.turns) /\ DOMAIN f = DOMAIN t.turns /\ f[i] = e
        /\ \A k \in DOMAIN t.turns : k # i => f[k] = t.turns[k]
    <3> HIDE DEF e
    <3> QED
      BY <1>1, <1>2, SeqEdit
  <2> HIDE DEF e, f
  <2>2. u.turns = f
    BY <1>3 DEF e, f
  <2> QED
    BY <2>1, <2>2
<1>5. u.res = t.res /\ u.art = t.art /\ u.resume = t.resume /\ u.rev = t.rev /\ u.gen = t.gen
      /\ u.replans = t.replans /\ u.cand = t.cand
  BY <1>0 DEF StateT
<1>6. u \in StateT
  BY <1>0, <1>4, <1>5 DEF StateT
<1>7. Within(u, t) /\ i \notin BasedTurns(u) /\ \A k \in BasedTurns(t) : k # i => k \in BasedTurns(u) /\ u.turns[k] = t.turns[k]
  <2> HIDE DEF e
  <2> QED
    BY <1>2, <1>4, <1>5 DEF Within, BasedTurns, OpenReplans, HasBase
<1>9. ClosedTurn(t, i, stat) = u
  BY <1>0 DEF ClosedTurn
<1> QED
  BY <1>9, <1>4, <1>5, <1>6, <1>7

(* An edited replan keeps the others; it opens nothing that was closed.    *)
LEMMA ReplanEdited ==
  ASSUME NEW t \in StateT, NEW i \in DOMAIN t.replans, NEW e \in ReplanT,
         e.trig = t.replans[i].trig, e.to = t.replans[i].to,
         e.status = "scheduled" /\ HasBase(e) => t.replans[i].status = "scheduled" /\ e.base = t.replans[i].base
  PROVE  LET u == EditedReplan(t, i, e) IN
         /\ u \in StateT /\ Within(u, t) /\ u.turns = t.turns
         /\ u.replans \in Seq(ReplanT) /\ DOMAIN u.replans = DOMAIN t.replans /\ u.replans[i] = e
         /\ \A k \in DOMAIN t.replans : k # i => u.replans[k] = t.replans[k]
         /\ u.res = t.res /\ u.art = t.art /\ u.resume = t.resume /\ u.rev = t.rev /\ u.gen = t.gen
<1> DEFINE u == [t EXCEPT !.replans[i] = e]
<1>1. t.replans \in Seq(ReplanT)
  BY DEF StateT
<1>2. u.replans = [t.replans EXCEPT ![i] = e]
  BY <1>1 DEF StateT
<1>3. u.res = t.res /\ u.art = t.art /\ u.resume = t.resume /\ u.rev = t.rev /\ u.gen = t.gen
      /\ u.turns = t.turns /\ u.cand = t.cand
  BY DEF StateT
<1>4. /\ u.replans \in Seq(ReplanT) /\ DOMAIN u.replans = DOMAIN t.replans /\ u.replans[i] = e
      /\ \A k \in DOMAIN t.replans : k # i => u.replans[k] = t.replans[k]
  <2> HIDE DEF u
  <2> QED
    BY <1>1, <1>2, SeqEdit
<1>5. u \in StateT
  BY <1>4, <1>3 DEF StateT
<1>6. Within(u, t)
  <2> HIDE DEF u
  <2>1. BasedTurns(u) = BasedTurns(t)
    BY <1>3 DEF BasedTurns
  <2>2. ASSUME NEW k \in OpenReplans(u)
        PROVE  k \in OpenReplans(t) /\ u.replans[k].base = t.replans[k].base /\ u.replans[k].trig = t.replans[k].trig
    <3>1. CASE k = i
      BY <1>4, <3>1 DEF OpenReplans, HasBase
    <3>2. CASE k # i
      BY <1>4, <3>2 DEF OpenReplans
    <3> QED
      BY <3>1, <3>2
  <2> QED
    BY <1>3, <2>1, <2>2 DEF Within
<1>9. EditedReplan(t, i, e) = u
  BY SMTT(30) DEF EditedReplan
<1> HIDE DEF u
<1> QED
  BY <1>9, <1>3, <1>4, <1>5, <1>6

(* A replan is closed: its baseline is given up.                           *)
LEMMA ReplanClosed ==
  ASSUME NEW t \in StateT, NEW i \in DOMAIN t.replans, NEW stat \in ReplanStatuses
  PROVE  LET u == ClosedReplan(t, i, stat) IN
         /\ u \in StateT /\ Within(u, t) /\ u.turns = t.turns /\ i \notin OpenReplans(u)
         /\ DOMAIN u.replans = DOMAIN t.replans /\ u.replans[i].status = stat
         /\ \A k \in DOMAIN t.replans : u.replans[k].to = t.replans[k].to /\ u.replans[k].trig = t.replans[k].trig
         /\ \A k \in DOMAIN t.replans : k # i => u.replans[k] = t.replans[k]
         /\ u.res = t.res /\ u.art = t.art /\ u.resume = t.resume /\ u.rev = t.rev /\ u.gen = t.gen
<1> DEFINE e == [t.replans[i] EXCEPT !.status = stat, !.base = NoBase]
           u == [t EXCEPT !.replans[i] = e]
<1>1. t.replans[i] \in ReplanT
  BY DEF StateT
<1>2. e \in ReplanT /\ e.base = NoBase /\ e.status = stat /\ e.trig = t.replans[i].trig /\ e.to = t.replans[i].to
  <2>1. \A r \in ReplanT, b \in BaseT \cup {NoBase} :
          LET f == [r EXCEPT !.status = stat, !.base = b]
          IN  f \in ReplanT /\ f.base = b /\ f.status = stat /\ f.trig = r.trig /\ f.to = r.to
    BY DEF ReplanT
  <2> QED
    BY <1>1, <2>1
<1>3. [t EXCEPT !.replans[i].status = stat, !.replans[i].base = NoBase] = u
  <2>1. t.replans \in Seq(ReplanT)
    BY DEF StateT
  <2> QED
    BY <1>1, <2>1 DEF StateT, ReplanT
<1> HIDE DEF e, u
<1>4. ~HasBase(e)
  BY <1>2 DEF HasBase
<1>5. /\ u \in StateT /\ Within(u, t) /\ u.turns = t.turns
      /\ u.replans \in Seq(ReplanT) /\ DOMAIN u.replans = DOMAIN t.replans /\ u.replans[i] = e
      /\ \A k \in DOMAIN t.replans : k # i => u.replans[k] = t.replans[k]
      /\ u.res = t.res /\ u.art = t.art /\ u.resume = t.resume /\ u.rev = t.rev /\ u.gen = t.gen
  BY <1>2, <1>4, ReplanEdited DEF u, EditedReplan
<1>6. i \notin OpenReplans(u)
  BY <1>4, <1>5 DEF OpenReplans
<1>7. \A k \in DOMAIN t.replans : u.replans[k].to = t.replans[k].to /\ u.replans[k].trig = t.replans[k].trig
  BY <1>2, <1>5
<1>9. ClosedReplan(t, i, stat) = u
  BY <1>3 DEF ClosedReplan
<1> HIDE DEF u
<1> QED
  BY <1>9, <1>2, <1>3, <1>5, <1>6, <1>7

(* A replan changes its status to one that is not scheduled, or counts one *)
(* more repair.                                                            *)
LEMMA ReplanGivenUp ==
  ASSUME NEW t \in StateT, NEW i \in DOMAIN t.replans, NEW stat \in ReplanStatuses, stat # "scheduled"
  PROVE  LET u == MarkedReplan(t, i, stat) IN
         /\ u \in StateT /\ Within(u, t) /\ u.turns = t.turns
         /\ DOMAIN u.replans = DOMAIN t.replans /\ u.replans[i].status = stat
         /\ \A k \in DOMAIN t.replans : u.replans[k].to = t.replans[k].to /\ u.replans[k].trig = t.replans[k].trig
         /\ \A k \in DOMAIN t.replans : k # i => u.replans[k] = t.replans[k]
         /\ u.res = t.res /\ u.art = t.art /\ u.resume = t.resume /\ u.rev = t.rev /\ u.gen = t.gen
<1> DEFINE e == [t.replans[i] EXCEPT !.status = stat]
           u == [t EXCEPT !.replans[i] = e]
<1>1. t.replans[i] \in ReplanT
  BY DEF StateT
<1>2. e \in ReplanT /\ e.status = stat /\ e.trig = t.replans[i].trig /\ e.to = t.replans[i].to
  <2>1. \A r \in ReplanT :
          LET f == [r EXCEPT !.status = stat] IN f \in ReplanT /\ f.status = stat /\ f.trig = r.trig /\ f.to = r.to
    BY DEF ReplanT
  <2> QED
    BY <1>1, <2>1
<1>3. [t EXCEPT !.replans[i].status = stat] = u
  OBVIOUS
<1> HIDE DEF e, u
<1>4. e.status # "scheduled"
  BY <1>2
<1>5. /\ u \in StateT /\ Within(u, t) /\ u.turns = t.turns
      /\ u.replans \in Seq(ReplanT) /\ DOMAIN u.replans = DOMAIN t.replans /\ u.replans[i] = e
      /\ \A k \in DOMAIN t.replans : k # i => u.replans[k] = t.replans[k]
      /\ u.res = t.res /\ u.art = t.art /\ u.resume = t.resume /\ u.rev = t.rev /\ u.gen = t.gen
  BY <1>2, <1>4, ReplanEdited DEF u, EditedReplan
<1>6. \A k \in DOMAIN t.replans : u.replans[k].to = t.replans[k].to /\ u.replans[k].trig = t.replans[k].trig
  BY <1>2, <1>5
<1>9. MarkedReplan(t, i, stat) = u
  BY <1>3 DEF MarkedReplan
<1> HIDE DEF u
<1> QED
  BY <1>2, <1>5, <1>6, <1>9

(* An interaction counted on an open replan changes nothing else of it.    *)
LEMMA ReplanExtended ==
  ASSUME RunnerConstants, NEW t \in StateT, NEW i \in DOMAIN t.replans, t.replans[i].inter < MaxInter
  PROVE  LET u == ExtendedReplan(t, i) IN
         /\ u \in StateT /\ Within(u, t) /\ u.turns = t.turns
         /\ DOMAIN u.replans = DOMAIN t.replans
         /\ \A k \in DOMAIN t.replans : /\ u.replans[k].to = t.replans[k].to /\ u.replans[k].trig = t.replans[k].trig
                                        /\ u.replans[k].status = t.replans[k].status
                                        /\ u.replans[k].base = t.replans[k].base
         /\ u.res = t.res /\ u.art = t.art /\ u.resume = t.resume /\ u.rev = t.rev /\ u.gen = t.gen
<1> DEFINE e == [t.replans[i] EXCEPT !.inter = @ + 1]
           u == [t EXCEPT !.replans[i] = e]
<1>1. t.replans[i] \in ReplanT
  BY DEF StateT
<1>2. e \in ReplanT /\ e.status = t.replans[i].status /\ e.trig = t.replans[i].trig /\ e.to = t.replans[i].to
      /\ e.base = t.replans[i].base
  BY <1>1 DEF ReplanT, RunnerConstants
<1>3. [t EXCEPT !.replans[i].inter = @ + 1] = u
  OBVIOUS
<1> HIDE DEF e, u
<1>5. /\ u \in StateT /\ Within(u, t) /\ u.turns = t.turns
      /\ u.replans \in Seq(ReplanT) /\ DOMAIN u.replans = DOMAIN t.replans /\ u.replans[i] = e
      /\ \A k \in DOMAIN t.replans : k # i => u.replans[k] = t.replans[k]
      /\ u.res = t.res /\ u.art = t.art /\ u.resume = t.resume /\ u.rev = t.rev /\ u.gen = t.gen
  BY <1>2, ReplanEdited DEF u, EditedReplan
<1>6. \A k \in DOMAIN t.replans : /\ u.replans[k].to = t.replans[k].to /\ u.replans[k].trig = t.replans[k].trig
                                  /\ u.replans[k].status = t.replans[k].status
                                  /\ u.replans[k].base = t.replans[k].base
  BY <1>2, <1>5
<1>9. ExtendedReplan(t, i) = u
  BY <1>3 DEF ExtendedReplan
<1> HIDE DEF u
<1> QED
  BY <1>9, <1>3, <1>5, <1>6

(* A turn that has no baseline changes its status, or is added.            *)
LEMMA TurnMarked ==
  ASSUME NEW t \in StateT, NEW i \in DOMAIN t.turns, NEW stat \in TurnStatuses, BasedTurns(t) = {}
  PROVE  LET u == MarkedTurn(t, i, stat) IN
         /\ u \in StateT /\ BasedTurns(u) = {} /\ Within(u, t) /\ u.replans = t.replans
         /\ u.res = t.res /\ u.art = t.art /\ u.resume = t.resume /\ u.rev = t.rev /\ u.gen = t.gen
<1> DEFINE e == [t.turns[i] EXCEPT !.status = stat]
           u == [t EXCEPT !.turns[i] = e]
<1>1. t.turns \in Seq(TurnT) /\ t.turns[i] \in TurnT
  BY DEF StateT
<1>2. e \in TurnT /\ e.base = t.turns[i].base
  BY <1>1 DEF TurnT
<1>3. [t EXCEPT !.turns[i].status = stat] = u
  OBVIOUS
<1>4. u.turns = [t.turns EXCEPT ![i] = e]
  BY DEF StateT
<1>5. u.res = t.res /\ u.art = t.art /\ u.resume = t.resume /\ u.rev = t.rev /\ u.gen = t.gen
      /\ u.replans = t.replans /\ u.cand = t.cand
  BY DEF StateT
<1>6. /\ u.turns \in Seq(TurnT) /\ DOMAIN u.turns = DOMAIN t.turns /\ u.turns[i] = e
      /\ \A k \in DOMAIN t.turns : k # i => u.turns[k] = t.turns[k]
  <2> HIDE DEF e, u
  <2> QED
    BY <1>1, <1>2, <1>4, SeqEdit
<1>7. u \in StateT
  BY <1>5, <1>6 DEF StateT
<1>8. BasedTurns(u) = {} /\ Within(u, t)
  <2> HIDE DEF e, u
  <2> QED
    BY <1>2, <1>5, <1>6 DEF BasedTurns, HasBase, Within, OpenReplans
<1>9. MarkedTurn(t, i, stat) = u
  BY <1>3 DEF MarkedTurn
<1> HIDE DEF u
<1> QED
  BY <1>9, <1>3, <1>5, <1>7, <1>8

(* A turn without a baseline opens nothing.                                *)
LEMMA TurnAdded ==
  ASSUME NEW t \in StateT, NEW e \in TurnT, e.base = NoBase, BasedTurns(t) = {}
  PROVE  LET u == AddedTurn(t, e) IN
         /\ u \in StateT /\ BasedTurns(u) = {} /\ Within(u, t) /\ u.replans = t.replans
         /\ Len(u.turns) = Len(t.turns) + 1 /\ Len(u.turns) \in DOMAIN u.turns
         /\ u.res = t.res /\ u.art = t.art /\ u.resume = t.resume /\ u.rev = t.rev /\ u.gen = t.gen
<1> DEFINE u == [t EXCEPT !.turns = Append(@, e)]
<1>1. t.turns \in Seq(TurnT)
  BY DEF StateT
<1>2. u.turns = Append(t.turns, e)
  BY DEF StateT
<1>3. u.res = t.res /\ u.art = t.art /\ u.resume = t.resume /\ u.rev = t.rev /\ u.gen = t.gen
      /\ u.replans = t.replans /\ u.cand = t.cand
  BY DEF StateT
<1>4. /\ u.turns \in Seq(TurnT) /\ Len(u.turns) = Len(t.turns) + 1 /\ DOMAIN u.turns = 1 .. (Len(t.turns) + 1)
      /\ u.turns[Len(t.turns) + 1] = e /\ \A k \in 1 .. Len(t.turns) : u.turns[k] = t.turns[k]
  BY <1>1, <1>2, AppendProperties
<1>5. u \in StateT
  BY <1>3, <1>4 DEF StateT
<1>6. BasedTurns(u) = {} /\ Within(u, t)
  <2> HIDE DEF u
  <2>1. BasedTurns(u) = {}
    BY <1>1, <1>4 DEF BasedTurns, HasBase
  <2> QED
    BY <1>3, <2>1 DEF Within, OpenReplans
<1>7. Len(u.turns) \in DOMAIN u.turns
  BY <1>1, <1>4
<1>9. AddedTurn(t, e) = u
  BY DEF AddedTurn
<1> HIDE DEF u
<1> QED
  BY <1>9, <1>3, <1>4, <1>5, <1>6, <1>7

(* A turn or a replan is opened with a baseline of its own.                *)
LEMMA TurnOpened ==
  ASSUME NEW t \in StateT, NEW u \in StateT, NEW e \in TurnT, NEW cnt, NEW q, NEW sn,
         u.turns = Append(t.turns, e), u.replans = t.replans, u.resume = t.resume,
         HasBase(e), BasedTurns(t) = {}, Baselines(t, cnt, q, sn),
         BaseOK(e.base, e.step, t.resume.step, cnt, q, sn), e.base.snap \notin ReplanSnaps(t)
  PROVE  /\ Baselines(u, cnt, q, sn) /\ OpenReplans(u) = OpenReplans(t) /\ ReplanSnaps(u) = ReplanSnaps(t)
         /\ BasedTurns(u) = {Len(u.turns)} /\ TurnSnaps(u) = {e.base.snap} /\ u.turns[Len(u.turns)] = e
<1>1. t.turns \in Seq(TurnT)
  BY DEF StateT
<1>2. /\ Len(u.turns) = Len(t.turns) + 1 /\ DOMAIN u.turns = 1 .. (Len(t.turns) + 1) /\ Len(t.turns) \in Nat
      /\ u.turns[Len(u.turns)] = e /\ \A k \in 1 .. Len(t.turns) : u.turns[k] = t.turns[k]
  BY <1>1, AppendProperties
<1>3. BasedTurns(u) = {Len(u.turns)}
  <2>1. \A k \in 1 .. Len(t.turns) : ~HasBase(u.turns[k])
    <3>1. \A k \in 1 .. Len(t.turns) : ~HasBase(t.turns[k])
      BY <1>1 DEF BasedTurns
    <3> QED
      BY <3>1, <1>2
  <2>2. Len(u.turns) \in BasedTurns(u)
    BY <1>2 DEF BasedTurns
  <2>3. ASSUME NEW k \in DOMAIN u.turns, k # Len(u.turns) PROVE k \notin BasedTurns(u)
    <3>1. k \in 1 .. Len(t.turns)
      BY <1>2, <2>3
    <3> QED
      BY <2>1, <3>1 DEF BasedTurns
  <2>4. BasedTurns(u) \subseteq DOMAIN u.turns
    BY DEF BasedTurns
  <2> QED
    BY <2>2, <2>3, <2>4
<1>4. OpenReplans(u) = OpenReplans(t) /\ ReplanSnaps(u) = ReplanSnaps(t)
  BY DEF OpenReplans, ReplanSnaps
<1>5. TurnSnaps(u) = {e.base.snap}
  BY <1>2, <1>3 DEF TurnSnaps
<1>6. Baselines(u, cnt, q, sn)
  <2>1. \A i \in BasedTurns(u) : BaseOK(u.turns[i].base, u.turns[i].step, u.resume.step, cnt, q, sn)
    BY <1>2, <1>3
  <2>2. /\ \A i \in OpenReplans(u) : BaseOK(u.replans[i].base, u.replans[i].trig, u.resume.step, cnt, q, sn)
        /\ \A i, j \in OpenReplans(u) : u.replans[i].base.snap = u.replans[j].base.snap => i = j
    BY <1>4 DEF Baselines
  <2>3. \A i \in OpenReplans(u), j \in BasedTurns(u) : u.replans[i].base.snap # u.turns[j].base.snap
    BY <1>2, <1>3, <1>4 DEF ReplanSnaps
  <2> QED
    BY <2>1, <2>2, <2>3 DEF Baselines
<1> QED
  BY <1>2, <1>3, <1>4, <1>5, <1>6

(* A new candidate with a fresh snapshot opens exactly one baseline.       *)
LEMMA ReplanOpened ==
  ASSUME NEW t \in StateT, NEW u \in StateT, NEW e \in ReplanT, NEW cnt, NEW q, NEW sn,
         u.replans = Append(t.replans, e), u.resume = t.resume, BasedTurns(u) = {},
         HasBase(e), e.status = "scheduled", Baselines(t, cnt, q, sn),
         BaseOK(e.base, e.trig, t.resume.step, cnt, q, sn), e.base.snap \notin ReplanSnaps(t)
  PROVE  LET n == Len(t.replans) + 1 IN
         /\ Baselines(u, cnt, q, sn) /\ OpenReplans(u) = OpenReplans(t) \cup {n}
         /\ ReplanSnaps(u) = ReplanSnaps(t) \cup {e.base.snap}
         /\ DOMAIN u.replans = DOMAIN t.replans \cup {n} /\ u.replans[n] = e
         /\ \A k \in DOMAIN t.replans : u.replans[k] = t.replans[k]
<1> DEFINE n == Len(t.replans) + 1
<1>1. t.replans \in Seq(ReplanT)
  BY DEF StateT
<1>2. /\ DOMAIN u.replans = 1 .. n /\ DOMAIN t.replans = 1 .. Len(t.replans) /\ Len(t.replans) \in Nat
      /\ u.replans[n] = e /\ \A k \in DOMAIN t.replans : u.replans[k] = t.replans[k]
  BY <1>1, AppendProperties
<1>3. DOMAIN u.replans = DOMAIN t.replans \cup {n} /\ n \notin DOMAIN t.replans
  BY <1>2
<1> HIDE DEF n
<1>4. OpenReplans(u) = OpenReplans(t) \cup {n} /\ n \notin OpenReplans(t)
  BY <1>2, <1>3 DEF OpenReplans
<1>5. \A k \in OpenReplans(t) : u.replans[k] = t.replans[k]
  BY <1>2 DEF OpenReplans
<1>6. ReplanSnaps(u) = ReplanSnaps(t) \cup {e.base.snap}
  <2> DEFINE f(k) == u.replans[k].base.snap
  <2>1. ReplanSnaps(u) = {f(k) : k \in OpenReplans(t) \cup {n}}
    BY <1>4 DEF ReplanSnaps
  <2> DEFINE g(k) == t.replans[k].base.snap
  <2>2. ReplanSnaps(t) = {g(k) : k \in OpenReplans(t)}
    BY DEF ReplanSnaps
  <2>3. f(n) = e.base.snap /\ \A k \in OpenReplans(t) : f(k) = g(k)
    BY <1>2, <1>5
  <2> HIDE DEF f, g
  <2> QED
    BY <2>1, <2>2, <2>3
<1>7. Baselines(u, cnt, q, sn)
  <2>1. \A i \in OpenReplans(u) : BaseOK(u.replans[i].base, u.replans[i].trig, u.resume.step, cnt, q, sn)
    BY <1>2, <1>4, <1>5 DEF Baselines
  <2>2. ASSUME NEW i \in OpenReplans(u), NEW j \in OpenReplans(u), u.replans[i].base.snap = u.replans[j].base.snap
        PROVE  i = j
    <3>1. \A k \in OpenReplans(t) : u.replans[k].base.snap # e.base.snap
      BY <1>5 DEF ReplanSnaps
    <3>2. CASE i = n \/ j = n
      BY <1>2, <1>4, <2>2, <3>1, <3>2
    <3>3. CASE i # n /\ j # n
      <4>1. i \in OpenReplans(t) /\ j \in OpenReplans(t)
        BY <1>4, <3>3
      <4> QED
        BY <1>5, <2>2, <4>1 DEF Baselines
    <3> QED
      BY <3>2, <3>3
  <2> QED
    BY <2>1, <2>2 DEF Baselines
<1> QED
  BY <1>2, <1>3, <1>4, <1>6, <1>7 DEF n

(* Where a state stands in its histories depends on the histories alone.   *)
LEMMA SameHistories ==
  ASSUME NEW t, NEW u, u.turns = t.turns, u.replans = t.replans
  PROVE  /\ BasedTurns(u) = BasedTurns(t) /\ OpenReplans(u) = OpenReplans(t)
         /\ TurnSnaps(u) = TurnSnaps(t) /\ ReplanSnaps(u) = ReplanSnaps(t)
         /\ \A k : Positions(u, k) <=> Positions(t, k)
         /\ u.resume.step = t.resume.step => Within(u, t)
<1>1. BasedTurns(u) = BasedTurns(t) /\ OpenReplans(u) = OpenReplans(t)
  BY DEF BasedTurns, OpenReplans
<1>2. TurnSnaps(u) = TurnSnaps(t) /\ ReplanSnaps(u) = ReplanSnaps(t)
  BY <1>1 DEF TurnSnaps, ReplanSnaps
<1>3. \A k : Positions(u, k) <=> Positions(t, k)
  BY <1>1 DEF Positions
<1>4. u.resume.step = t.resume.step => Within(u, t)
  BY <1>1 DEF Within
<1> QED
  BY <1>1, <1>2, <1>3, <1>4

(* Positions survive when turns are closed and replans only closed.        *)
LEMMA PositionsWithin ==
  ASSUME NEW t, NEW u, NEW k, Positions(t, k), BasedTurns(u) = {},
         \A i \in DOMAIN u.replans :
           /\ i \in DOMAIN t.replans
           /\ u.replans[i].to = t.replans[i].to /\ u.replans[i].trig = t.replans[i].trig
           /\ u.replans[i].status = "scheduled" =>
                t.replans[i].status = "scheduled" /\ u.replans[i].base = t.replans[i].base
  PROVE  Positions(u, k) /\ OpenReplans(u) \subseteq OpenReplans(t)
<1>1. OpenReplans(u) \subseteq OpenReplans(t)
  BY DEF OpenReplans, HasBase
<1>2. \A i \in OpenReplans(u) : i \in DOMAIN u.replans
  BY DEF OpenReplans
<1>3. ASSUME RepairRelease
      PROVE  /\ \A i, j \in OpenReplans(u) : i = j
             /\ \A i \in OpenReplans(u) : u.replans[i].to <= k /\ k <= u.replans[i].trig
             /\ \A i \in DOMAIN u.replans : u.replans[i].status = "scheduled" => HasBase(u.replans[i])
  BY <1>1, <1>2, <1>3 DEF Positions, HasBase
<1>4. DraftFirst => OpenReplans(u) = {}
  BY <1>1 DEF Positions
<1>5. \A i \in DOMAIN u.replans : u.replans[i].to < u.replans[i].trig
  BY DEF Positions
<1> QED
  BY <1>1, <1>3, <1>4, <1>5 DEF Positions

(* The heart of a rollback: the baseline's results and artifacts are back, *)
(* cut before the gate that is entered again, and they are what the files  *)
(* of the snapshot hold.                                                   *)
LEMMA RolledBack ==
  ASSUME RunnerConstants, NEW u \in StateT, NEW base \in BaseT, NEW s \in Steps,
         NEW cnt, NEW q, NEW sn,
         BaseOK(base, s, u.resume.step, cnt, q, sn), Baselines(u, cnt, q, sn)
  PROVE  LET v == Reopen(s, Restored(u, base)) IN
         /\ v \in StateT /\ Len(v.res) = s - 1 /\ NoExec(v.res) /\ Settled(v, cnt, q, sn)
         /\ v.turns = u.turns /\ v.replans = u.replans /\ v.rev = u.rev /\ v.gen = u.gen
         /\ v.resume.step = u.resume.step
         /\ "undone" \notin CrashPoints /\ base.snap \in DOMAIN sn => Matches(v.art, sn[base.snap])
<1> DEFINE w == Restored(u, base)
           v == Reopen(s, w)
<1>1. /\ w \in StateT /\ w.res = base.res /\ w.art = base.art /\ w.resume = base.resume
      /\ w.turns = u.turns /\ w.replans = u.replans /\ w.rev = u.rev /\ w.gen = u.gen
  BY RestoredOK
<1> HIDE DEF w
<1>2. Prefix(w.res, w.art) /\ s <= Len(w.res)
  BY <1>1 DEF BaseOK, Steps
<1>3. /\ v \in StateT /\ Len(v.res) = s - 1 /\ Prefix(v.res, v.art) /\ NoExec(v.res)
      /\ \A x \in Steps : v.art[x] # NoArt => v.art[x] = w.art[x]
      /\ v.turns = w.turns /\ v.replans = w.replans /\ v.resume = w.resume /\ v.rev = w.rev /\ v.gen = w.gen
  BY <1>1, <1>2, ReopenOK
<1> HIDE DEF v
<1>4. v.resume.step = u.resume.step /\ Known(v.resume, cnt, q)
  BY <1>1, <1>3 DEF BaseOK
<1>5. Within(v, u)
  BY <1>1, <1>3, <1>4, SameHistories
<1>6. Settled(v, cnt, q, sn)
  BY <1>3, <1>4, <1>5, WithinOK DEF Settled
<1>7. "undone" \notin CrashPoints /\ base.snap \in DOMAIN sn => Matches(v.art, sn[base.snap])
  BY <1>1, <1>3 DEF BaseOK, Matches
<1> QED
  BY <1>1, <1>3, <1>4, <1>6, <1>7 DEF v, w

(* Appending a result that is not exec, or one that is.                    *)
LEMMA PrefixReturns ==
  ASSUME RunnerConstants, NEW results \in Seq(ResultT), NEW art \in ArtMap, NEW a \in Arts, NEW r \in ResultT,
         Prefix(results, art), NoExec(results), Len(results) < N, r.step = Len(results) + 1, ~r.exec
  PROVE  LET more == Append(results, r) map == [art EXCEPT ![Len(results) + 1] = a] IN
         /\ more \in Seq(ResultT) /\ map \in ArtMap /\ Len(more) = Len(results) + 1
         /\ Prefix(more, map) /\ NoExec(more)
<1> DEFINE more == Append(results, r)
           s == Len(results) + 1
           map == [art EXCEPT ![s] = a]
<1>1. Len(results) \in Nat /\ s \in Steps
  BY DEF RunnerConstants, Steps
<1>2. /\ more \in Seq(ResultT) /\ Len(more) = s /\ more[s] = r
      /\ \A i \in 1 .. Len(results) : more[i] = results[i]
  BY AppendProperties
<1>3. map \in ArtMap /\ map[s] = a /\ a # NoArt /\ \A x \in Steps : x # s => map[x] = art[x]
  BY <1>1 DEF ArtMap, ArtOrNone, RunnerConstants
<1>4. \A i \in 1 .. s : i = s \/ (i \in 1 .. Len(results) /\ i \in Steps /\ i # s)
  BY <1>1 DEF Steps, RunnerConstants
<1> HIDE DEF more, map
<1>5. NoExec(more)
  <2>1. \A i \in 1 .. s : ~more[i].exec
    BY <1>2, <1>4 DEF NoExec
  <2> QED
    BY <1>2, <2>1 DEF NoExec
<1>6. \A i \in 1 .. s : more[i].step = i /\ map[i] # NoArt
  BY <1>2, <1>3, <1>4 DEF Prefix, NoExec
<1>7. \A x \in Steps : map[x] # NoArt => x <= s
  BY <1>1, <1>3 DEF Prefix, Steps
<1> HIDE DEF s
<1>8. Prefix(more, map)
  BY <1>2, <1>5, <1>6, <1>7 DEF Prefix, NoExec
<1> QED
  BY <1>2, <1>3, <1>5, <1>8 DEF more, map, s

(* A raising step adds its result to the prefix and no artifact.           *)
LEMMA PrefixRaises ==
  ASSUME RunnerConstants, NEW results \in Seq(ResultT), NEW art \in ArtMap, NEW r \in ResultT,
         Prefix(results, art), NoExec(results), Len(results) < N, r.step = Len(results) + 1, r.exec, r.score > 0
  PROVE  LET more == Append(results, r) IN
         /\ more \in Seq(ResultT) /\ Len(more) = Len(results) + 1 /\ Prefix(more, art)
<1> DEFINE more == Append(results, r)
           s == Len(results) + 1
<1>1. Len(results) \in Nat /\ s \in Steps
  BY DEF RunnerConstants, Steps
<1>2. /\ more \in Seq(ResultT) /\ Len(more) = s /\ more[s] = r
      /\ \A i \in 1 .. Len(results) : more[i] = results[i]
  BY AppendProperties
<1>4. \A i \in 1 .. s : i = s \/ (i \in 1 .. Len(results) /\ i # s)
  BY <1>1
<1> HIDE DEF more
<1>3. art[s] = NoArt
  <2>1. ~(s <= Len(results))
    BY <1>1
  <2> QED
    BY <1>1, <2>1 DEF Prefix
<1>5. \A i \in 1 .. s : more[i].exec => i = s /\ more[i].score > 0 /\ art[i] = NoArt
  BY <1>2, <1>3, <1>4 DEF NoExec
<1>6. \A i \in 1 .. s : more[i].step = i /\ (~more[i].exec => art[i] # NoArt)
  BY <1>2, <1>4 DEF Prefix
<1>7. \A x \in Steps : art[x] # NoArt => x <= s
  BY <1>1 DEF Prefix, Steps
<1> HIDE DEF s
<1>8. Prefix(more, art)
  BY <1>2, <1>5, <1>6, <1>7 DEF Prefix
<1> QED
  BY <1>2, <1>8 DEF more, s

(* Dropping the last result with its artifact.                             *)
LEMMA PrefixFront ==
  ASSUME RunnerConstants, NEW results \in Seq(ResultT), NEW art \in ArtMap, Prefix(results, art), Len(results) > 0
  PROVE  LET less == Front(results) n == Len(results) map == [art EXCEPT ![n] = NoArt] IN
         /\ n \in 1 .. Len(results) /\ less \in Seq(ResultT) /\ map \in ArtMap /\ Len(less) = n - 1
         /\ Prefix(less, map) /\ NoExec(less)
         /\ \A x \in Steps : map[x] # NoArt => map[x] = art[x]
<1> DEFINE less == Front(results)
           n == Len(results)
           map == [art EXCEPT ![n] = NoArt]
<1>1. n \in Nat \ {0}
  OBVIOUS
<1>2. less \in Seq(ResultT) /\ Len(less) = n - 1 /\ \A i \in 1 .. (n - 1) : less[i] = results[i]
  <2>1. \A i \in 1 .. (n - 1) : results[i] \in ResultT
    OBVIOUS
  <2>2. less = SubSeq(results, 1, n - 1)
    BY DEF Front
  <2> HIDE DEF less, n
  <2>3. /\ less \in Seq(ResultT) /\ Len(less) = IF 1 <= n - 1 THEN n - 1 - 1 + 1 ELSE 0
        /\ \A i \in 1 .. n - 1 - 1 + 1 : less[i] = results[1 + i - 1]
    BY <1>1, <2>1, <2>2, SubSeqProperties
  <2> QED
    BY <1>1, <2>3
<1>3. map \in ArtMap /\ \A x \in Steps : map[x] = IF x = n THEN NoArt ELSE art[x]
  BY DEF ArtMap, ArtOrNone
<1> HIDE DEF less, map
<1>4. \A i \in 1 .. (n - 1) : i \in 1 .. n /\ i # n
  BY <1>1
<1>5. NoExec(less)
  <2>1. \A i \in 1 .. (n - 1) : ~less[i].exec
    BY <1>2, <1>4 DEF Prefix
  <2> QED
    BY <1>2, <2>1 DEF NoExec
<1>6. \A i \in 1 .. (n - 1) : less[i].step = i /\ map[i] # NoArt
  <2>1. \A i \in 1 .. (n - 1) : less[i].step = i /\ art[i] # NoArt
    BY <1>2, <1>4 DEF Prefix
  <2>2. \A i \in 1 .. (n - 1) : map[i] = art[i]
    <3>1. DOMAIN art = Steps
      BY DEF ArtMap
    <3> QED
      BY <1>4, <3>1 DEF map
  <2> QED
    BY <2>1, <2>2
<1>7. \A x \in Steps : map[x] # NoArt => x <= n - 1 /\ map[x] = art[x]
  BY <1>1, <1>3 DEF Prefix, Steps
<1>8. Prefix(less, map)
  BY <1>2, <1>5, <1>6, <1>7 DEF Prefix, NoExec
<1> QED
  BY <1>1, <1>2, <1>3, <1>5, <1>7, <1>8 DEF less, map, n

(***************************************************************************)
(* Steps.  The checkpoint stays sound while the run only goes on.          *)
(***************************************************************************)
WorldTypes(f, sn, cnt) ==
  /\ f \in ArtMap /\ cnt \in CountT /\ DOMAIN sn \subseteq 1 .. cnt.snap
  /\ \A n \in DOMAIN sn : sn[n] \in ArtMap

(* What is true of the checkpoint stays so while nothing is saved and no   *)
(* baseline is rewritten.                                                  *)
LEMMA CheckpointStays ==
  ASSUME RunnerTypes, CheckpointInv, UNCHANGED <<ck, req>>, count' \in CountT,
         Later(count, snaps, count', snaps')
  PROVE  CheckpointInv'
<1>1. count \in CountT
  BY DEF RunnerTypes, CountT
<1>2. Settled(ck, count', req, snaps')
  BY <1>1, SettledLater DEF CheckpointInv
<1>3. req.tok = count'.tok
  BY DEF CheckpointInv, Later
<1> QED
  BY <1>2, <1>3 DEF CheckpointInv

(* What a step must provide that leads to the next save.                   *)
Savable(t, f, sn, cnt) ==
  /\ t \in StateT /\ Settled(t, cnt, req, sn) /\ t.resume.step = req.step /\ Saved(t)
  /\ t.gen = ck.gen
  /\ ck.rev < t.rev \/ (ck.rev = t.rev /\ Len(ck.res) <= Len(t.res))
  /\ "undone" \notin CrashPoints =>
       /\ Matches(t.art, f)
       /\ TurnSnaps(t) \cup ReplanSnaps(t) \subseteq DOMAIN sn
       /\ TurnSnaps(ck) \cup ReplanSnaps(ck) \subseteq DOMAIN sn => Agrees(ck, req, f)

(* A step that leads to a save keeps the invariant when the state is fit   *)
(* to be saved.                                                            *)
LEMMA ToSave ==
  ASSUME RunnerConstants, RunnerInv, pc' = "save", after' \in {"idle", "loop"}, UNCHANGED <<ck, until, tries, req>>,
         WorldTypes(files', snaps', count'), Later(count, snaps, count', snaps'),
         Savable(st', files', snaps', count'), after' = "loop" => NoExec(st'.res)
  PROVE  RunnerInv'
<1>1. CheckpointInv'
  BY CheckpointStays DEF RunnerInv, WorldTypes
<1>2. RunnerTypes'
  BY DEF RunnerInv, RunnerTypes, WorldTypes, Savable, CountT
<1>3. StateInv'
  BY DEF StateInv, Savable, Executed
<1>4. LineageInv'
  BY DEF LineageInv, Savable, Executed
<1>5. FilesInv'
  BY DEF FilesInv, Savable
<1>6. ResumeAdmitted'
  BY DEF ResumeAdmitted
<1> QED
  BY <1>1, <1>2, <1>3, <1>4, <1>5, <1>6 DEF RunnerInv

(* Files and snapshots as before, and perhaps more names given out.        *)
LEMMA WorldSame ==
  ASSUME RunnerTypes, count' \in CountT, UNCHANGED <<files, snaps>>, count'.tok = count.tok, count.snap <= count'.snap
  PROVE  WorldTypes(files', snaps', count') /\ Later(count, snaps, count', snaps')
<1>1. count.snap \in Nat /\ count'.snap \in Nat
  BY DEF RunnerTypes, CountT
<1> QED
  BY <1>1 DEF RunnerTypes, WorldTypes, Later

(* The counters have their types.                                          *)
LEMMA WorldCounts ==
  ASSUME RunnerTypes PROVE count \in CountT
  BY DEF RunnerTypes, CountT

(* A state at the head of the loop, or whose gate has let it go on, can be *)
(* saved as it is.                                                         *)
LEMMA ReturnKeeps ==
  ASSUME RunnerConstants, RunnerInv, Return
  PROVE  RunnerInv'
<1>1. pc = "loop" /\ pc' = "save" /\ after' = "idle" /\ UNCHANGED <<st, ck, files, snaps, until, tries, req, count>>
  BY DEF Return, SaveThen
<1>2. WorldTypes(files', snaps', count') /\ Later(count, snaps, count', snaps')
  BY <1>1, WorldSame, WorldCounts DEF RunnerInv, CountT, RunnerTypes
<1>3. Savable(st, files, snaps, count)
  <2>1. /\ st \in StateT /\ Settled(st, count, req, snaps) /\ st.resume.step = req.step /\ Saved(st)
    BY <1>1 DEF RunnerInv, RunnerTypes, StateInv, Active
  <2>2. st.gen = ck.gen /\ (ck.rev < st.rev \/ (ck.rev = st.rev /\ Len(ck.res) <= Len(st.res)))
    BY <1>1 DEF RunnerInv, LineageInv, Active, Executed
  <2>3. "undone" \notin CrashPoints =>
       /\ Matches(st.art, files)
       /\ TurnSnaps(st) \cup ReplanSnaps(st) \subseteq DOMAIN snaps
       /\ Agrees(ck, req, files)
    BY <1>1 DEF RunnerInv, FilesInv, Active
  <2> QED
    BY <2>1, <2>2, <2>3 DEF Savable
<1> QED
  BY <1>1, <1>2, <1>3, ToSave

(* What is known of a step that has executed, and of its result.           *)
LEMMA ExecutedFacts ==
  ASSUME RunnerConstants, RunnerInv, Executed
  PROVE  /\ st \in StateT /\ Settled(st, count, req, snaps) /\ st.resume.step = req.step
         /\ Cur \in Steps /\ Cur \in 1 .. Len(st.res) /\ Res \in ResultT /\ Res.step = Cur
         /\ Res.exec => Res.score > 0
         /\ ~Res.exec => NoExec(st.res)
         /\ Positions(st, Cur) /\ st.gen = ck.gen /\ ck \in StateT /\ ck.rev \in Nat /\ st.rev \in Nat
         /\ ck.rev < st.rev \/ (ck.rev = st.rev /\ Len(ck.res) <= Cur - 1)
         /\ Len(ck.res) \in Nat
<1>1. /\ st \in StateT /\ Settled(st, count, req, snaps) /\ st.resume.step = req.step /\ ck \in StateT
      /\ Len(st.res) > 0 /\ Positions(st, Len(st.res)) /\ st.gen = ck.gen
      /\ ck.rev < st.rev \/ (ck.rev = st.rev /\ Len(ck.res) <= Len(st.res) - 1)
  BY DEF RunnerInv, RunnerTypes, StateInv, LineageInv, Active, Executed
<1>2. st.res \in Seq(ResultT) /\ Len(st.res) \in Nat /\ Len(ck.res) \in Nat /\ ck.rev \in Nat /\ st.rev \in Nat
  BY <1>1 DEF StateT
<1>3. Cur \in 1 .. Len(st.res) /\ Res \in ResultT
  BY <1>1, <1>2 DEF Cur, Res
<1>4. Prefix(st.res, st.art)
  BY <1>1 DEF Settled
<1>5. Res.step = Cur /\ (Res.exec => Res.score > 0)
  BY <1>3, <1>4 DEF Prefix, Res
<1>6. Cur \in Steps
  BY <1>3, <1>5 DEF ResultT
<1>7. ~Res.exec => NoExec(st.res)
  BY <1>3, <1>4 DEF Prefix, NoExec, Res, Cur
<1> QED
  BY <1>1, <1>2, <1>3, <1>5, <1>6, <1>7 DEF Cur

(* A blocked step of a draft ends the call with a save (pipeline.py,       *)
(* run_until).                                                             *)
LEMMA DraftStopsKeeps ==
  ASSUME RunnerConstants, RunnerInv, DraftStops
  PROVE  RunnerInv'
<1>1. /\ pc = "gate" /\ DraftFirst /\ pc' = "save" /\ after' = "idle"
      /\ UNCHANGED <<st, ck, files, snaps, until, tries, req, count>>
  BY DEF DraftStops, SaveThen
<1>2. WorldTypes(files', snaps', count') /\ Later(count, snaps, count', snaps')
  BY <1>1, WorldSame, WorldCounts DEF RunnerInv, CountT, RunnerTypes
<1>3. Savable(st, files, snaps, count)
  <2>1. Executed
    BY <1>1 DEF Executed
  <2>2. BasedTurns(st) = {} /\ OpenReplans(st) = {}
    BY <1>1, <2>1, ExecutedFacts DEF Positions
  <2>3. Positions(st, Len(st.res) + 1)
    BY <2>1, <2>2, ExecutedFacts DEF Positions
  <2>4. Saved(st)
    BY <2>2, <2>3 DEF Saved
  <2>5. ck.rev < st.rev \/ (ck.rev = st.rev /\ Len(ck.res) <= Len(st.res))
    BY <2>1, ExecutedFacts DEF Cur
  <2>6. "undone" \notin CrashPoints =>
       /\ Matches(st.art, files)
       /\ TurnSnaps(st) \cup ReplanSnaps(st) \subseteq DOMAIN snaps
       /\ TurnSnaps(ck) \cup ReplanSnaps(ck) \subseteq DOMAIN snaps => Agrees(ck, req, files)
    BY <1>1 DEF RunnerInv, FilesInv, Active
  <2> QED
    BY <2>1, <2>4, <2>5, <2>6, ExecutedFacts DEF Savable
<1> QED
  BY <1>1, <1>2, <1>3, ToSave

(* One snapshot removed.                                                   *)
LEMMA WorldWithout ==
  ASSUME RunnerTypes, NEW base, UNCHANGED count, files' \in ArtMap, snaps' = Without(base)
  PROVE  /\ WorldTypes(files', snaps', count') /\ Later(count, snaps, count', snaps')
         /\ DOMAIN snaps' = DOMAIN snaps \ {base.snap}
<1>1. DOMAIN snaps' = DOMAIN snaps \ {base.snap} /\ \A n \in DOMAIN snaps' : snaps'[n] = snaps[n]
  BY DEF Without
<1>2. count \in CountT /\ count.snap <= count.snap
  <2>1. count \in CountT
    BY WorldCounts
  <2> QED
    BY <2>1 DEF CountT
<1> QED
  BY <1>1, <1>2 DEF RunnerTypes, WorldTypes, Later

(* The turn acted on is the one that has a baseline, when one has.         *)
LEMMA ActiveTurnFacts ==
  ASSUME NEW t \in StateT, NEW s, Positions(t, s)
  PROVE  LET i == ActiveTurn(t, s) IN
         /\ i = 0 => BasedTurns(t) = {}
         /\ i # 0 => i \in DOMAIN t.turns /\ t.turns[i].step = s /\ BasedTurns(t) \subseteq {i}
<1> DEFINE hits == {i \in DOMAIN t.turns : t.turns[i].step = s /\ t.turns[i].status = "acted"}
           i == ActiveTurn(t, s)
<1>1. DOMAIN t.turns = 1 .. Len(t.turns) /\ Len(t.turns) \in Nat
  BY DEF StateT
<1>2. hits \in SUBSET (1 .. Len(t.turns))
  BY <1>1
<1>3. i = Latest(hits)
  BY DEF ActiveTurn
<1> HIDE DEF hits, i
<1>4. (hits = {} => i = 0) /\ (hits # {} => i \in hits /\ \A j \in hits : j <= i)
  BY <1>1, <1>2, <1>3, LatestIsIn
<1>5. \A j \in BasedTurns(t) : j \in hits /\ j = Len(t.turns)
  BY DEF Positions, BasedTurns, hits
<1>6. 0 \notin hits
  BY <1>2
<1>7. ASSUME NEW j \in BasedTurns(t) PROVE j = i
  <2>1. j \in hits /\ j = Len(t.turns)
    BY <1>5
  <2>2. i \in 1 .. Len(t.turns) /\ j <= i
    BY <1>2, <1>4, <2>1
  <2> QED
    BY <1>1, <2>1, <2>2
<1>8. i = 0 => BasedTurns(t) = {}
  BY <1>4, <1>5, <1>6
<1>9. i # 0 => i \in DOMAIN t.turns /\ t.turns[i].step = s
  BY <1>4 DEF hits
<1> QED
  BY <1>7, <1>8, <1>9 DEF i

(* A step that leads from an executed step to its gate or to the decision  *)
(* keeps the invariant when it closes the turn and opens nothing.          *)
LEMMA ToGate ==
  ASSUME RunnerConstants, RunnerInv, Executed, pc' \in {"gate", "decide"},
         UNCHANGED <<ck, files, until, tries, after, req, count>>,
         WorldTypes(files', snaps', count'), Later(count, snaps, count', snaps'),
         st' \in StateT, Within(st', st), BasedTurns(st') = {}, Positions(st', Cur),
         st'.res = st.res, st'.art = st.art, st'.resume = st.resume, st'.rev = st.rev, st'.gen = st.gen,
         "undone" \notin CrashPoints =>
           /\ ReplanSnaps(st') \subseteq DOMAIN snaps'
           /\ TurnSnaps(ck) \cup ReplanSnaps(ck) \subseteq DOMAIN snaps' => Agrees(ck, req, files),
         pc' = "decide" => ~DraftFirst /\ Blocked(Res)
  PROVE  RunnerInv'
<1>1. CheckpointInv'
  BY CheckpointStays DEF RunnerInv, WorldTypes
<1>2. RunnerTypes'
  BY DEF RunnerInv, RunnerTypes, WorldTypes, CountT
<1>3. Settled(st', count', req, snaps')
  <2>1. Settled(st', count, req, snaps)
    BY ExecutedFacts, SettledWithin DEF Settled
  <2> QED
    BY <2>1, SettledLater, WorldCounts DEF RunnerInv, WorldTypes
<1>4. StateInv'
  BY <1>3, ExecutedFacts DEF StateInv, Active, Executed, Cur, Res
<1>5. LineageInv'
  BY ExecutedFacts DEF LineageInv, Executed, Cur
<1>6. FilesInv'
  <2>1. TurnSnaps(st') = {} /\ ReplanSnaps(st') \subseteq ReplanSnaps(st)
    BY ExecutedFacts, SettledWithin DEF Settled, TurnSnaps
  <2>2. "undone" \notin CrashPoints =>
          /\ Matches(st.art, files)
          /\ TurnSnaps(st) \cup ReplanSnaps(st) \subseteq TurnSnaps(ck) \cup ReplanSnaps(ck)
    BY DEF RunnerInv, FilesInv, Active, Executed
  <2> QED
    BY <2>1, <2>2 DEF FilesInv
<1>7. ResumeAdmitted'
  BY DEF ResumeAdmitted
<1> QED
  BY <1>1, <1>2, <1>4, <1>5, <1>6, <1>7 DEF RunnerInv

(* Closing the turn that was acted on leaves no baseline but the replans'. *)
LEMMA SeenTurn ==
  ASSUME RunnerConstants, RunnerInv, pc = "ran", NEW i, i = ActiveTurn(st, Cur), i # 0, NEW stat \in TurnStatuses
  PROVE  LET seen == ClosedTurn(st, i, stat) IN
         /\ i \in DOMAIN st.turns /\ st.turns[i].step = Cur
         /\ seen \in StateT /\ Within(seen, st) /\ BasedTurns(seen) = {} /\ Positions(seen, Cur)
         /\ seen.replans = st.replans /\ ReplanSnaps(seen) = ReplanSnaps(st)
         /\ seen.res = st.res /\ seen.art = st.art /\ seen.resume = st.resume /\ seen.rev = st.rev /\ seen.gen = st.gen
<1> DEFINE seen == ClosedTurn(st, i, stat)
<1>1. Executed
  BY DEF Executed
<1>2. i \in DOMAIN st.turns /\ st.turns[i].step = Cur /\ BasedTurns(st) \subseteq {i}
  BY <1>1, ExecutedFacts, ActiveTurnFacts
<1>3. /\ seen \in StateT /\ Within(seen, st) /\ i \notin BasedTurns(seen) /\ seen.replans = st.replans
      /\ seen.res = st.res /\ seen.art = st.art /\ seen.resume = st.resume /\ seen.rev = st.rev /\ seen.gen = st.gen
  <2>1. st \in StateT /\ i \in DOMAIN st.turns
    BY <1>1, <1>2, ExecutedFacts
  <2> QED
    BY <2>1, TurnClosed
<1> HIDE DEF seen
<1>4. BasedTurns(seen) = {}
  BY <1>2, <1>3 DEF Within
<1>5. Positions(st, Cur)
  BY <1>1, ExecutedFacts
<1>6. Positions(seen, Cur)
  BY <1>3, <1>4, <1>5, PositionsWithin
<1>7. ReplanSnaps(seen) = ReplanSnaps(st)
  BY <1>3 DEF ReplanSnaps, OpenReplans
<1> QED
  BY <1>2, <1>3, <1>4, <1>6, <1>7 DEF seen

(* The baseline of the turn acted on is good and shared with no replan.    *)
LEMMA TurnBase ==
  ASSUME RunnerConstants, RunnerInv, Executed, NEW i \in DOMAIN st.turns, HasBase(st.turns[i])
  PROVE  LET b == st.turns[i].base IN
         /\ b \in BaseT /\ BaseOK(b, st.turns[i].step, st.resume.step, count, req, snaps)
         /\ b.snap \in TurnSnaps(st) /\ b.snap \notin ReplanSnaps(st)
<1>1. i \in BasedTurns(st) /\ st.turns[i].base \in BaseT
  <2>1. st.turns[i] \in TurnT
    BY ExecutedFacts DEF StateT
  <2> QED
    BY <2>1 DEF TurnT, HasBase, BasedTurns
<1>2. Baselines(st, count, req, snaps)
  BY ExecutedFacts DEF Settled
<1>3. BaseOK(st.turns[i].base, st.turns[i].step, st.resume.step, count, req, snaps)
  BY <1>1, <1>2 DEF Baselines
<1>4. st.turns[i].base.snap \in TurnSnaps(st) /\ st.turns[i].base.snap \notin ReplanSnaps(st)
  <2>1. st.turns[i].base.snap \in TurnSnaps(st)
    BY <1>1 DEF TurnSnaps
  <2>2. \A k \in OpenReplans(st) : st.replans[k].base.snap # st.turns[i].base.snap
    BY <1>1, <1>2 DEF Baselines
  <2> QED
    BY <2>1, <2>2 DEF ReplanSnaps
<1> QED
  BY <1>1, <1>3, <1>4

(* The observation of a recovery turn keeps the invariant: the turn is     *)
(* closed, and on a rejection its baseline comes back                      *)
(* (_observe_recovery_turn).                                               *)
LEMMA ObserveKeeps ==
  ASSUME RunnerConstants, RunnerInv, Observe
  PROVE  RunnerInv'
<1> DEFINE i    == ActiveTurn(st, Cur)
           stat == TurnStatus(st.turns[i], Res)
           base == st.turns[i].base
           seen == ClosedTurn(st, i, stat)
<1>1. pc = "ran" /\ Executed /\ UNCHANGED <<ck, until, tries, req, count>>
  BY DEF Observe, Executed
<1>2. RunnerTypes /\ files \in ArtMap /\ count \in CountT /\ count.snap <= count.snap
  BY WorldCounts DEF RunnerInv, RunnerTypes, CountT
<1>3. "undone" \notin CrashPoints =>
         /\ TurnSnaps(st) \cup ReplanSnaps(st) \subseteq DOMAIN snaps
         /\ TurnSnaps(st) \cup ReplanSnaps(st) \subseteq TurnSnaps(ck) \cup ReplanSnaps(ck)
         /\ Agrees(ck, req, files)
  BY <1>1 DEF RunnerInv, FilesInv, Active
<1>4. stat \in TurnStatuses
  <2>1. \A turn, r : TurnStatus(turn, r) \in TurnStatuses
    BY DEF TurnStatus, TurnStatuses
  <2> QED
    BY <2>1
<1>5. CASE i = 0
  <2>1. pc' = "gate" /\ UNCHANGED <<st, files, snaps, after>>
    BY <1>5 DEF Observe
  <2>2. BasedTurns(st) = {} /\ Positions(st, Cur) /\ st \in StateT
    BY <1>1, <1>5, ExecutedFacts, ActiveTurnFacts
  <2>3. Within(st, st)
    BY SameHistories
  <2>4. WorldTypes(files', snaps', count') /\ Later(count, snaps, count', snaps')
    BY <1>1, <1>2, <2>1, WorldSame
  <2> QED
    BY <1>1, <1>3, <2>1, <2>2, <2>3, <2>4, ToGate
<1>6. ASSUME i # 0
      PROVE  /\ i \in DOMAIN st.turns /\ st.turns[i].step = Cur
             /\ seen \in StateT /\ Within(seen, st) /\ BasedTurns(seen) = {} /\ Positions(seen, Cur)
             /\ seen.replans = st.replans /\ ReplanSnaps(seen) = ReplanSnaps(st)
             /\ seen.res = st.res /\ seen.art = st.art /\ seen.resume = st.resume
             /\ seen.rev = st.rev /\ seen.gen = st.gen
  <2> HIDE DEF stat
  <2> QED
    BY <1>1, <1>4, <1>6, SeenTurn
<1>7. CASE i # 0 /\ base = NoBase
  <2>1. pc' = "gate" /\ st' = seen /\ UNCHANGED <<files, snaps, after>>
    BY <1>7 DEF Observe, ClosedTurn
  <2> HIDE DEF seen
  <2>2. WorldTypes(files', snaps', count') /\ Later(count, snaps, count', snaps')
    BY <1>1, <1>2, <2>1, WorldSame
  <2> QED
    BY <1>1, <1>3, <1>6, <1>7, <2>1, <2>2, ToGate
<1>8. ASSUME i # 0, base # NoBase
      PROVE  /\ base \in BaseT /\ BaseOK(base, Cur, st.resume.step, count, req, snaps)
             /\ base.snap \in TurnSnaps(st) /\ base.snap \notin ReplanSnaps(st)
  <2>1. i \in DOMAIN st.turns /\ st.turns[i].step = Cur /\ HasBase(st.turns[i])
    BY <1>6, <1>8 DEF HasBase
  <2> QED
    BY <1>1, <2>1, TurnBase
<1>9. CASE i # 0 /\ base # NoBase /\ stat \notin {"rejected", "error"}
  <2>1. pc' = "gate" /\ st' = seen /\ snaps' = Without(base) /\ UNCHANGED <<files, after>>
    BY <1>9 DEF Observe, ClosedTurn
  <2> HIDE DEF seen
  <2>2. /\ WorldTypes(files', snaps', count') /\ Later(count, snaps, count', snaps')
        /\ DOMAIN snaps' = DOMAIN snaps \ {base.snap}
    BY <1>1, <1>2, <2>1, WorldWithout
  <2>3. "undone" \notin CrashPoints =>
           /\ ReplanSnaps(st') \subseteq DOMAIN snaps'
           /\ TurnSnaps(ck) \cup ReplanSnaps(ck) \subseteq DOMAIN snaps' => Agrees(ck, req, files)
    BY <1>3, <1>6, <1>8, <1>9, <2>1, <2>2
  <2> QED
    BY <1>1, <1>6, <1>9, <2>1, <2>2, <2>3, ToGate
<1>10. CASE i # 0 /\ base # NoBase /\ stat \in {"rejected", "error"} /\ ~SnapshotExists(base)
  <2>1. pc' = "lost" /\ UNCHANGED <<st, files, snaps, after>>
    BY <1>10 DEF Observe
  <2>2. "undone" \in CrashPoints
    BY <1>3, <1>8, <1>10 DEF SnapshotExists
  <2>3. WorldTypes(files', snaps', count') /\ Later(count, snaps, count', snaps')
    BY <1>1, <1>2, <2>1, WorldSame
  <2>4. CheckpointInv'
    BY <1>1, <2>3, CheckpointStays DEF RunnerInv, WorldTypes
  <2> QED
    BY <1>1, <2>1, <2>2, <2>4
       DEF RunnerInv, RunnerTypes, StateInv, LineageInv, FilesInv, ResumeAdmitted, Active
<1>11. CASE i # 0 /\ base # NoBase /\ stat \in {"rejected", "error"} /\ SnapshotExists(base)
  <2> DEFINE v == Reopen(st.turns[i].step, Restored(seen, base))
  <2>1. st' = v /\ files' = snaps[base.snap] /\ snaps' = Without(base) /\ pc' = "save" /\ after' = "loop"
    BY <1>11 DEF Observe, SaveThen, ClosedTurn
  <2>2. base.snap \in DOMAIN snaps /\ files' \in ArtMap
    BY <1>2, <1>11, <2>1 DEF SnapshotExists, RunnerTypes
  <2>3. /\ WorldTypes(files', snaps', count') /\ Later(count, snaps, count', snaps')
        /\ DOMAIN snaps' = DOMAIN snaps \ {base.snap}
    BY <1>1, <1>2, <2>1, <2>2, WorldWithout
  <2> HIDE DEF seen, base, i, stat
  <2>4. Baselines(seen, count, req, snaps) /\ BaseOK(base, Cur, seen.resume.step, count, req, snaps) /\ base \in BaseT
        /\ st.turns[i].step = Cur /\ seen \in StateT /\ Cur \in Steps
    BY <1>1, <1>6, <1>8, <1>11, ExecutedFacts, WithinOK DEF Settled
  <2>5. /\ v \in StateT /\ Len(v.res) = Cur - 1 /\ NoExec(v.res) /\ Settled(v, count, req, snaps)
        /\ v.turns = seen.turns /\ v.replans = seen.replans /\ v.rev = seen.rev /\ v.gen = seen.gen
        /\ v.resume.step = seen.resume.step
        /\ "undone" \notin CrashPoints /\ base.snap \in DOMAIN snaps => Matches(v.art, snaps[base.snap])
    BY <2>4, RolledBack
  <2> HIDE DEF v
  <2>6. /\ BasedTurns(v) = {} /\ TurnSnaps(v) = {} /\ ReplanSnaps(v) = ReplanSnaps(st) /\ Positions(v, Cur)
    BY <1>6, <1>11, <2>5, SameHistories DEF TurnSnaps
  <2>7. Saved(v)
    <3>1. Len(v.res) + 1 = Cur
      BY <2>4, <2>5 DEF Steps
    <3> QED
      BY <2>5, <2>6, <3>1 DEF Saved
  <2>8. Settled(v, count', req, snaps')
    BY <1>1, <1>2, <2>3, <2>5, SettledLater
  <2>9. v.gen = ck.gen /\ v.resume.step = req.step /\ (ck.rev < v.rev \/ (ck.rev = v.rev /\ Len(ck.res) <= Len(v.res)))
    BY <1>1, <1>6, <1>11, <2>5, ExecutedFacts
  <2>10. "undone" \notin CrashPoints =>
           /\ Matches(v.art, files')
           /\ TurnSnaps(v) \cup ReplanSnaps(v) \subseteq DOMAIN snaps'
           /\ TurnSnaps(ck) \cup ReplanSnaps(ck) \subseteq DOMAIN snaps' => Agrees(ck, req, files')
    BY <1>3, <1>8, <1>11, <2>1, <2>2, <2>3, <2>5, <2>6
  <2>11. Savable(st', files', snaps', count')
    BY <2>1, <2>5, <2>7, <2>8, <2>9, <2>10 DEF Savable
  <2> QED
    BY <1>1, <2>1, <2>3, <2>5, <2>11, ToSave
<1> QED
  BY <1>5, <1>7, <1>9, <1>10, <1>11

(* What the scans for a pending and an active replan find.                 *)
LEMMA ReplanFound ==
  ASSUME NEW t \in StateT, NEW s
  PROVE  /\ PendingReplan(t, s) = 0 => \A j \in DOMAIN t.replans : t.replans[j].status = "scheduled" => t.replans[j].trig # s
         /\ PendingReplan(t, s) # 0 => LET i == PendingReplan(t, s) IN
              i \in DOMAIN t.replans /\ t.replans[i].status = "scheduled" /\ t.replans[i].trig = s
         /\ ActiveReplan(t, s) = 0 => \A j \in DOMAIN t.replans :
              t.replans[j].status = "scheduled" => ~(t.replans[j].to <= s /\ s <= t.replans[j].trig)
         /\ ActiveReplan(t, s) # 0 => LET i == ActiveReplan(t, s) IN
              i \in DOMAIN t.replans /\ t.replans[i].status = "scheduled" /\ s <= t.replans[i].trig
<1>1. DOMAIN t.replans = 1 .. Len(t.replans) /\ Len(t.replans) \in Nat
  BY DEF StateT
<1> DEFINE pending == {i \in DOMAIN t.replans : t.replans[i].trig = s /\ t.replans[i].status = "scheduled"}
           active == {i \in DOMAIN t.replans : /\ t.replans[i].status = "scheduled"
                                               /\ t.replans[i].to <= s /\ s <= t.replans[i].trig}
<1>2. pending \in SUBSET (1 .. Len(t.replans)) /\ active \in SUBSET (1 .. Len(t.replans))
  BY <1>1
<1>3. PendingReplan(t, s) = Latest(pending) /\ ActiveReplan(t, s) = Latest(active)
  BY DEF PendingReplan, ActiveReplan
<1> HIDE DEF pending, active
<1>4. (pending = {} => PendingReplan(t, s) = 0) /\ (pending # {} => PendingReplan(t, s) \in pending)
  BY <1>1, <1>2, <1>3, LatestIsIn
<1>5. (active = {} => ActiveReplan(t, s) = 0) /\ (active # {} => ActiveReplan(t, s) \in active)
  BY <1>1, <1>2, <1>3, LatestIsIn
<1>6. 0 \notin pending /\ 0 \notin active
  BY <1>1, <1>2
<1> QED
  BY <1>4, <1>5, <1>6 DEF pending, active

(* A state without an open turn, whose open replan does not end at k, is   *)
(* placed for step k + 1.                                                  *)
LEMMA PositionsNext ==
  ASSUME NEW t \in StateT, NEW k \in Nat, Positions(t, k), BasedTurns(t) = {},
         RepairRelease => \A i \in OpenReplans(t) : t.replans[i].trig # k
  PROVE  Positions(t, k + 1)
<1>1. \A i \in OpenReplans(t) : t.replans[i].to \in Nat /\ t.replans[i].trig \in Nat
  <2>1. \A i \in OpenReplans(t) : t.replans[i] \in ReplanT
    BY DEF OpenReplans, StateT
  <2> QED
    BY <2>1 DEF ReplanT, Steps
<1>2. RepairRelease => \A i \in OpenReplans(t) : t.replans[i].to <= k + 1 /\ k + 1 <= t.replans[i].trig
  BY <1>1 DEF Positions
<1> QED
  BY <1>2 DEF Positions

(* The baseline of an open replan is good, is its own and is gone once the *)
(* replan is closed.                                                       *)
LEMMA ReplanBase ==
  ASSUME RunnerConstants, NEW t \in StateT, NEW cnt, NEW q, NEW sn, Baselines(t, cnt, q, sn), NEW i \in OpenReplans(t)
  PROVE  LET b == t.replans[i].base IN
         /\ b \in BaseT /\ BaseOK(b, t.replans[i].trig, t.resume.step, cnt, q, sn)
         /\ b.snap \in ReplanSnaps(t) /\ b.snap \notin TurnSnaps(t) /\ t.replans[i].trig \in Steps
         /\ \A u : Within(u, t) /\ i \notin OpenReplans(u) => b.snap \notin ReplanSnaps(u) /\ b.snap \notin TurnSnaps(u)
<1>1. t.replans[i] \in ReplanT /\ HasBase(t.replans[i])
  BY DEF OpenReplans, StateT
<1>2. t.replans[i].base \in BaseT /\ t.replans[i].trig \in Steps
  BY <1>1 DEF ReplanT, HasBase
<1>3. t.replans[i].base.snap \in ReplanSnaps(t) /\ t.replans[i].base.snap \notin TurnSnaps(t)
  BY DEF ReplanSnaps, TurnSnaps, Baselines
<1>4. BaseOK(t.replans[i].base, t.replans[i].trig, t.resume.step, cnt, q, sn)
  BY DEF Baselines
<1>5. ASSUME NEW u, Within(u, t), i \notin OpenReplans(u)
      PROVE  t.replans[i].base.snap \notin ReplanSnaps(u) /\ t.replans[i].base.snap \notin TurnSnaps(u)
  <2>1. t.replans[i].base.snap \notin TurnSnaps(u)
    BY <1>3, <1>5, WithinOK
  <2>2. ASSUME NEW j \in OpenReplans(u) PROVE u.replans[j].base.snap # t.replans[i].base.snap
    <3>1. j \in OpenReplans(t) /\ u.replans[j].base = t.replans[j].base /\ j # i
      BY <1>5 DEF Within
    <3> QED
      BY <3>1 DEF Baselines
  <2> QED
    BY <2>1, <2>2 DEF ReplanSnaps
<1> QED
  BY <1>2, <1>3, <1>4, <1>5

(* What the files and snapshots are like once a step has executed.         *)
LEMMA ExecutedFiles ==
  ASSUME RunnerInv, Executed, "undone" \notin CrashPoints
  PROVE  /\ Matches(st.art, files)
         /\ TurnSnaps(st) \cup ReplanSnaps(st) \subseteq DOMAIN snaps
         /\ TurnSnaps(st) \cup ReplanSnaps(st) \subseteq TurnSnaps(ck) \cup ReplanSnaps(ck)
         /\ TurnSnaps(ck) \cup ReplanSnaps(ck) \subseteq DOMAIN snaps => Agrees(ck, req, files)
  BY DEF RunnerInv, FilesInv, Executed, Active

(* An accepted step keeps the invariant, with or without the replan that   *)
(* ends there.                                                             *)
LEMMA StepAcceptedKeeps ==
  ASSUME RunnerConstants, RunnerInv, StepAccepted
  PROVE  RunnerInv'
<1> DEFINE i == PendingReplan(st, Cur)
           base == st.replans[i].base
<1>1. pc = "gate" /\ pc' = "save" /\ after' = "loop" /\ CanContinue /\ UNCHANGED <<ck, files, until, tries, req, count>>
  BY DEF StepAccepted, SaveThen
<1>2. Executed /\ RunnerTypes /\ count \in CountT /\ count.snap <= count.snap /\ files \in ArtMap
  BY <1>1, WorldCounts DEF RunnerInv, RunnerTypes, CountT, Executed
<1>3. BasedTurns(st) = {} /\ TurnSnaps(st) = {}
  BY <1>1 DEF RunnerInv, StateInv, Active, TurnSnaps
<1>4. NoExec(st.res)
  <2>1. ~Res.exec
    BY <1>1, <1>2, ExecutedFacts DEF CanContinue, Blocked
  <2> QED
    BY <1>2, <2>1, ExecutedFacts
<1>5. /\ st \in StateT /\ Settled(st, count, req, snaps) /\ st.resume.step = req.step /\ Positions(st, Cur)
      /\ Cur \in Nat /\ Len(st.res) = Cur /\ st.gen = ck.gen
      /\ (ck.rev < st.rev \/ (ck.rev = st.rev /\ Len(ck.res) <= Len(st.res)))
  BY <1>2, ExecutedFacts DEF Cur, Steps
<1>6. CASE ~(i # 0 /\ ~Blocked(Res))
  <2>1. UNCHANGED <<st, snaps>>
    BY <1>6 DEF StepAccepted
  <2>2. RepairRelease => \A j \in OpenReplans(st) : st.replans[j].trig # Cur
    <3>1. CASE Blocked(Res)
      BY <1>1, <1>5, <3>1 DEF CanContinue, Positions
    <3>2. CASE i = 0
      BY <1>5, <3>2, ReplanFound DEF OpenReplans
    <3> QED
      BY <1>6, <3>1, <3>2
  <2>3. Positions(st, Len(st.res) + 1)
    BY <1>3, <1>5, <2>2, PositionsNext
  <2>4. Saved(st)
    BY <1>3, <1>4, <2>3 DEF Saved
  <2>5. WorldTypes(files', snaps', count') /\ Later(count, snaps, count', snaps')
    BY <1>1, <1>2, <2>1, WorldSame
  <2>6. Savable(st', files', snaps', count')
    BY <1>1, <1>2, <1>5, <2>1, <2>4, ExecutedFiles DEF Savable
  <2> QED
    BY <1>1, <1>4, <2>1, <2>5, <2>6, ToSave
<1>7. CASE i # 0 /\ ~Blocked(Res)
  <2> DEFINE u == ClosedReplan(st, i, "recovered")
  <2>1. st' = u /\ snaps' = IF HasBase(st.replans[i]) THEN Without(base) ELSE snaps
    BY <1>7 DEF StepAccepted, ClosedReplan
  <2>2. i \in DOMAIN st.replans /\ st.replans[i].status = "scheduled" /\ st.replans[i].trig = Cur
    BY <1>5, <1>7, ReplanFound
  <2> HIDE DEF i
  <2>3. /\ u \in StateT /\ Within(u, st) /\ u.turns = st.turns /\ i \notin OpenReplans(u)
        /\ DOMAIN u.replans = DOMAIN st.replans /\ u.replans[i].status = "recovered"
        /\ \A k \in DOMAIN st.replans : u.replans[k].to = st.replans[k].to /\ u.replans[k].trig = st.replans[k].trig
        /\ \A k \in DOMAIN st.replans : k # i => u.replans[k] = st.replans[k]
        /\ u.res = st.res /\ u.art = st.art /\ u.resume = st.resume /\ u.rev = st.rev /\ u.gen = st.gen
    <3>1. "recovered" \in ReplanStatuses
      BY DEF ReplanStatuses
    <3> QED
      BY <1>5, <2>2, <3>1, ReplanClosed
  <2> HIDE DEF u
  <2>4. BasedTurns(u) = {}
    BY <1>3, <2>3 DEF Within
  <2>5. Positions(u, Cur)
    BY <1>5, <2>3, <2>4, PositionsWithin
  <2>6. RepairRelease => OpenReplans(u) = {}
    <3>1. ASSUME RepairRelease, NEW j \in OpenReplans(u) PROVE FALSE
      <4>1. i \in OpenReplans(st) /\ j \in OpenReplans(st)
        BY <1>5, <2>2, <2>3, <3>1 DEF Positions, OpenReplans, Within
      <4> QED
        BY <1>5, <2>3, <3>1, <4>1 DEF Positions
    <3> QED
      BY <3>1
  <2>7. Saved(u)
    <3>1. Positions(u, Len(u.res) + 1)
      BY <1>5, <2>3, <2>4, <2>5, <2>6, PositionsNext
    <3> QED
      BY <2>4, <2>6, <3>1 DEF Saved
  <2>8. Settled(u, count, req, snaps) /\ TurnSnaps(u) = {} /\ ReplanSnaps(u) \subseteq ReplanSnaps(st)
    BY <1>3, <1>5, <2>3, SettledWithin DEF Settled
  <2>9. /\ WorldTypes(files', snaps', count') /\ Later(count, snaps, count', snaps')
        /\ DOMAIN snaps' = IF HasBase(st.replans[i]) THEN DOMAIN snaps \ {base.snap} ELSE DOMAIN snaps
    <3>1. CASE HasBase(st.replans[i])
      BY <1>1, <1>2, <2>1, <3>1, WorldWithout
    <3>2. CASE ~HasBase(st.replans[i])
      BY <1>1, <1>2, <2>1, <3>2, WorldSame
    <3> QED
      BY <3>1, <3>2
  <2>10. ASSUME "undone" \notin CrashPoints
         PROVE  /\ Matches(u.art, files')
                /\ TurnSnaps(u) \cup ReplanSnaps(u) \subseteq DOMAIN snaps'
                /\ TurnSnaps(ck) \cup ReplanSnaps(ck) \subseteq DOMAIN snaps' => Agrees(ck, req, files')
    <3>1. CASE HasBase(st.replans[i])
      <4>1. i \in OpenReplans(st)
        BY <2>2, <3>1 DEF OpenReplans
      <4>2. base.snap \in ReplanSnaps(st) /\ base.snap \notin ReplanSnaps(u)
        BY <1>5, <2>3, <4>1, ReplanBase DEF Settled
      <4> QED
        BY <1>1, <1>2, <2>3, <2>8, <2>9, <2>10, <3>1, <4>2, ExecutedFiles
    <3>2. CASE ~HasBase(st.replans[i])
      BY <1>1, <1>2, <2>3, <2>8, <2>9, <2>10, <3>2, ExecutedFiles
    <3> QED
      BY <3>1, <3>2
  <2>11. Settled(u, count', req, snaps')
    BY <1>1, <1>2, <2>8, <2>9, SettledLater
  <2>12. Savable(st', files', snaps', count')
    BY <1>5, <2>1, <2>3, <2>7, <2>10, <2>11 DEF Savable
  <2> QED
    BY <1>1, <1>4, <2>1, <2>3, <2>9, <2>12, ToSave
<1> QED
  BY <1>6, <1>7

(* A workflow that has not started.                                        *)
LEMMA FreshOK ==
  ASSUME RunnerConstants
  PROVE  /\ Fresh \in StateT /\ Fresh.res = <<>> /\ Fresh.resume = NoResume /\ Fresh.rev = 0 /\ Fresh.gen = 0
         /\ Len(Fresh.res) = 0
         /\ \A x \in Steps : Fresh.art[x] = NoArt
         /\ Prefix(Fresh.res, Fresh.art) /\ NoExec(Fresh.res)
         /\ BasedTurns(Fresh) = {} /\ OpenReplans(Fresh) = {} /\ DOMAIN Fresh.replans = {}
         /\ TurnSnaps(Fresh) = {} /\ ReplanSnaps(Fresh) = {}
<1>1. Fresh \in StateT
  <2>1. [s \in Steps |-> NoArt] \in ArtMap /\ NoResume \in ResumeT /\ <<>> \in Seq(ResultT) /\ <<>> \in Seq(ReplanT)
        /\ <<>> \in Seq(TurnT)
    BY DEF ArtMap, ArtOrNone, NoResume, ResumeT, RunnerConstants
  <2> QED
    BY <2>1 DEF Fresh, StateT
<1>2. /\ Fresh.res = <<>> /\ Fresh.resume = NoResume /\ Fresh.rev = 0 /\ Fresh.gen = 0 /\ Len(Fresh.res) = 0
      /\ \A x \in Steps : Fresh.art[x] = NoArt
      /\ DOMAIN Fresh.turns = {} /\ DOMAIN Fresh.replans = {}
  BY DEF Fresh
<1> HIDE DEF Fresh
<1>3. Prefix(Fresh.res, Fresh.art) /\ NoExec(Fresh.res)
  BY <1>2 DEF Prefix, NoExec
<1>4. BasedTurns(Fresh) = {} /\ OpenReplans(Fresh) = {}
  BY <1>2 DEF BasedTurns, OpenReplans
<1>5. TurnSnaps(Fresh) = {} /\ ReplanSnaps(Fresh) = {}
  BY <1>4 DEF TurnSnaps, ReplanSnaps
<1> QED
  BY <1>1, <1>2, <1>3, <1>4, <1>5

(* What is true when the loop is about to execute a step.                  *)
LEMMA LoopFacts ==
  ASSUME RunnerConstants, RunnerInv, pc = "loop", Next0(st) <= until
  PROVE  /\ st \in StateT /\ Settled(st, count, req, snaps) /\ st.resume.step = req.step
         /\ NoExec(st.res) /\ Saved(st) /\ st.gen = ck.gen /\ ck \in StateT /\ ck.rev \in Nat /\ st.rev \in Nat
         /\ ck.rev < st.rev \/ (ck.rev = st.rev /\ Len(ck.res) <= Len(st.res))
         /\ Len(ck.res) \in Nat /\ Len(st.res) \in Nat /\ Len(st.res) < N /\ Next0(st) = Len(st.res) + 1
         /\ Next0(st) \in Steps
<1>1. /\ st \in StateT /\ Settled(st, count, req, snaps) /\ st.resume.step = req.step /\ ck \in StateT
      /\ NoExec(st.res) /\ Saved(st) /\ st.gen = ck.gen /\ until \in Steps
      /\ ck.rev < st.rev \/ (ck.rev = st.rev /\ Len(ck.res) <= Len(st.res))
  BY DEF RunnerInv, RunnerTypes, StateInv, LineageInv, Active, Executed
<1>2. Len(st.res) \in Nat /\ Len(ck.res) \in Nat /\ ck.rev \in Nat /\ st.rev \in Nat
  BY <1>1 DEF StateT
<1>3. Next0(st) = Len(st.res) + 1
  BY DEF Next0
<1> QED
  BY <1>1, <1>2, <1>3 DEF Steps, RunnerConstants

(* What is true of the files then.                                         *)
LEMMA LoopFiles ==
  ASSUME RunnerInv, pc = "loop", "undone" \notin CrashPoints
  PROVE  /\ Matches(st.art, files) /\ Agrees(ck, req, files)
         /\ TurnSnaps(st) \cup ReplanSnaps(st) \subseteq DOMAIN snaps
         /\ TurnSnaps(st) \cup ReplanSnaps(st) \subseteq TurnSnaps(ck) \cup ReplanSnaps(ck)
         /\ TurnSnaps(ck) \subseteq DOMAIN snaps
         /\ RepairRelease => ReplanSnaps(ck) \subseteq DOMAIN snaps
         /\ Len(st.res) < Len(ck.res) =>
              \A s \in Steps : s > Len(st.res) /\ ck.art[s] # NoArt => Redoes(ck, req, s)
  BY DEF RunnerInv, FilesInv, Active

(* A step ran, with a result or with an error: st' has one more result.    *)
LEMMA ToRan ==
  ASSUME RunnerConstants, RunnerInv, pc = "loop", Next0(st) <= until, pc' = "ran", tries' = 0,
         UNCHANGED <<ck, snaps, until, after, req, count>>, files' \in ArtMap,
         st' \in StateT, Len(st'.res) = Len(st.res) + 1, Prefix(st'.res, st'.art),
         st'.turns = st.turns, st'.replans = st.replans, st'.resume = st.resume, st'.rev = st.rev, st'.gen = st.gen,
         "undone" \notin CrashPoints => Matches(st'.art, files') /\ Agrees(ck, req, files')
  PROVE  RunnerInv'
<1>1. count \in CountT /\ RunnerTypes /\ Later(count, snaps, count', snaps')
  <2>1. count \in CountT
    BY WorldCounts DEF RunnerInv
  <2> QED
    BY <2>1 DEF RunnerInv, Later, CountT
<1>2. CheckpointInv'
  BY <1>1, CheckpointStays DEF RunnerInv
<1>3. RunnerTypes'
  BY <1>1 DEF RunnerTypes, RunnerConstants
<1>4. /\ Within(st', st) /\ Positions(st', Len(st'.res))
      /\ BasedTurns(st') = BasedTurns(st) /\ TurnSnaps(st') = TurnSnaps(st) /\ ReplanSnaps(st') = ReplanSnaps(st)
  BY LoopFacts, SameHistories DEF Saved
<1>5. Settled(st', count, req, snaps)
  BY <1>4, LoopFacts, SettledWithin DEF Settled
<1>6. StateInv'
  BY <1>4, <1>5, LoopFacts DEF StateInv, Executed
<1>7. LineageInv'
  BY LoopFacts DEF LineageInv, Executed
<1>8. FilesInv'
  BY <1>4, LoopFiles DEF FilesInv
<1>9. ResumeAdmitted'
  BY DEF ResumeAdmitted
<1> QED
  BY <1>2, <1>3, <1>6, <1>7, <1>8, <1>9 DEF RunnerInv

(* A step that returns writes its file and its result (StepRunner.run).    *)
LEMMA StepReturnsKeeps ==
  ASSUME RunnerConstants, RunnerInv, NEW a \in Arts, NEW score \in 0 .. MaxScore, NEW kind \in KindOf,
         StepReturns(a, score, kind)
  PROVE  RunnerInv'
<1> DEFINE s == Next0(st)
           r == Result(s, score, FALSE, kind)
<1>1. /\ pc = "loop" /\ s <= until /\ pc' = "ran" /\ tries' = 0 /\ UNCHANGED <<ck, snaps, until, after, req, count>>
      /\ st' = [st EXCEPT !.cand[s] = NoArt, !.art[s] = a, !.res = Append(@, r)]
      /\ files' = [files EXCEPT ![s] = a]
  BY DEF StepReturns
<1>2. s \in Steps /\ s = Len(st.res) + 1 /\ Len(st.res) < N /\ st \in StateT /\ NoExec(st.res) /\ Prefix(st.res, st.art)
  BY <1>1, LoopFacts DEF Settled
<1> HIDE DEF s
<1>3. r \in ResultT /\ r.step = s /\ ~r.exec
  BY <1>2 DEF Result, ResultT
<1> HIDE DEF r
<1>4. st.res \in Seq(ResultT) /\ st.art \in ArtMap /\ st.cand \in ArtMap
  BY <1>2 DEF StateT
<1> DEFINE more == Append(st.res, r)
           map == [st.art EXCEPT ![s] = a]
<1>5. more \in Seq(ResultT) /\ map \in ArtMap /\ Len(more) = Len(st.res) + 1 /\ Prefix(more, map)
  BY <1>2, <1>3, <1>4, PrefixReturns
<1>6. /\ st'.res = more /\ st'.art = map /\ st'.cand = [st.cand EXCEPT ![s] = NoArt]
      /\ st'.turns = st.turns /\ st'.replans = st.replans /\ st'.resume = st.resume /\ st'.rev = st.rev
      /\ st'.gen = st.gen
  BY <1>1, <1>2 DEF StateT
<1>7. st' \in StateT
  <2>1. [st.cand EXCEPT ![s] = NoArt] \in ArtMap
    BY <1>2, <1>4 DEF ArtMap, ArtOrNone
  <2> HIDE DEF more, map
  <2> QED
    BY <1>1, <1>2, <1>5, <1>6, <2>1 DEF StateT
<1>8. files' \in ArtMap /\ files'[s] = a /\ \A x \in Steps : x # s => files'[x] = files[x]
  <2>1. files \in ArtMap
    BY DEF RunnerInv, RunnerTypes
  <2> QED
    BY <1>1, <1>2, <2>1 DEF ArtMap, ArtOrNone
<1>9. map[s] = a /\ \A x \in Steps : x # s => map[x] = st.art[x]
  BY <1>2, <1>4 DEF ArtMap
<1> HIDE DEF more, map
<1>10. ASSUME "undone" \notin CrashPoints
       PROVE  Matches(st'.art, files') /\ Agrees(ck, req, files')
  <2>1. /\ Matches(st.art, files) /\ Agrees(ck, req, files)
        /\ Len(st.res) < Len(ck.res) =>
              \A x \in Steps : x > Len(st.res) /\ ck.art[x] # NoArt => Redoes(ck, req, x)
    BY <1>1, <1>10, LoopFiles
  <2>2. Matches(st'.art, files')
    BY <1>6, <1>8, <1>9, <2>1 DEF Matches
  <2>3. ASSUME NEW x \in Steps, ck.art[x] # NoArt, files'[x] # ck.art[x]
        PROVE  Redoes(ck, req, x)
    <3>1. CASE x # s
      BY <1>8, <2>1, <2>3, <3>1 DEF Agrees
    <3>2. CASE x = s
      <4>1. x <= Len(ck.res)
        BY <2>3 DEF RunnerInv, CheckpointInv, Settled, Prefix
      <4>2. Len(st.res) \in Nat /\ Len(ck.res) \in Nat
        BY <1>1, LoopFacts DEF s
      <4>3. x > Len(st.res) /\ Len(st.res) < Len(ck.res)
        BY <1>2, <3>2, <4>1, <4>2 DEF Steps
      <4> QED
        BY <2>1, <2>3, <4>3
    <3> QED
      BY <3>1, <3>2
  <2> QED
    BY <2>2, <2>3 DEF Agrees
<1>11. Next0(st) <= until
  BY <1>1 DEF s
<1> QED
  BY <1>1, <1>5, <1>6, <1>7, <1>8, <1>10, <1>11, ToRan

(* The run ends without a save, or is stopped.                             *)
LEMMA ToIdle ==
  ASSUME RunnerConstants, RunnerInv, pc' = "idle", st' = Fresh, tries' = 0,
         UNCHANGED <<ck, files, snaps, until, after, req, count>>,
         "undone" \notin CrashPoints =>
           /\ TurnSnaps(ck) \subseteq DOMAIN snaps
           /\ RepairRelease => ReplanSnaps(ck) \subseteq DOMAIN snaps
           /\ Agrees(ck, req, files)
  PROVE  RunnerInv'
<1>1. count \in CountT /\ RunnerTypes /\ Later(count, snaps, count', snaps')
  <2>1. count \in CountT
    BY WorldCounts DEF RunnerInv
  <2> QED
    BY <2>1 DEF RunnerInv, Later, CountT
<1>2. CheckpointInv'
  BY <1>1, CheckpointStays DEF RunnerInv
<1>3. RunnerTypes'
  BY <1>1, FreshOK DEF RunnerTypes, RunnerConstants
<1>4. StateInv' /\ LineageInv'
  BY DEF StateInv, LineageInv, Active
<1>5. FilesInv'
  BY DEF FilesInv, Active
<1>6. ResumeAdmitted'
  BY DEF ResumeAdmitted
<1> QED
  BY <1>2, <1>3, <1>4, <1>5, <1>6 DEF RunnerInv

(* A stop of the process loses the state and keeps files, snapshots and    *)
(* checkpoint.                                                             *)
LEMMA CrashKeeps ==
  ASSUME RunnerConstants, RunnerInv, Crash
  PROVE  RunnerInv'
<1>1. /\ pc \in {"loop", "ran", "gate", "decide", "save"} /\ Point \in CrashPoints
      /\ pc' = "idle" /\ st' = Fresh /\ tries' = 0 /\ UNCHANGED <<ck, files, snaps, until, after, req, count>>
  BY DEF Crash
<1>2. ASSUME "undone" \notin CrashPoints
      PROVE  /\ TurnSnaps(ck) \subseteq DOMAIN snaps /\ (RepairRelease => ReplanSnaps(ck) \subseteq DOMAIN snaps)
             /\ Agrees(ck, req, files)
  <2>1. ~Undone
    BY <1>1, <1>2 DEF Point
  <2>2. TurnSnaps(ck) \cup ReplanSnaps(ck) \subseteq DOMAIN snaps
    BY <2>1 DEF Undone, TurnSnaps, ReplanSnaps, BasedTurns, OpenReplans, SnapshotExists
  <2> QED
    BY <1>1, <1>2, <2>2 DEF RunnerInv, FilesInv
<1> QED
  BY <1>1, <1>2, ToIdle

(* A step that raises past its retries records an execution failure.       *)
LEMMA StepRaisesKeeps ==
  ASSUME RunnerConstants, RunnerInv, StepRaises
  PROVE  RunnerInv'
<1> DEFINE s == Next0(st)
           t == [st EXCEPT !.cand[s] = NoArt]
           r == Result(s, 1, TRUE, "design")
<1>1. pc = "loop" /\ s <= until /\ UNCHANGED <<ck, files, snaps, until, after, req, count>>
  BY DEF StepRaises
<1>2. s \in Steps /\ s = Len(st.res) + 1 /\ Len(st.res) < N /\ st \in StateT /\ NoExec(st.res) /\ Prefix(st.res, st.art)
  BY <1>1, LoopFacts DEF Settled
<1>3. /\ t \in StateT /\ t.res = st.res /\ t.art = st.art /\ t.turns = st.turns /\ t.replans = st.replans
      /\ t.resume = st.resume /\ t.rev = st.rev /\ t.gen = st.gen /\ t.cand \in ArtMap
  BY <1>2 DEF StateT, ArtMap, ArtOrNone
<1>4. count \in CountT /\ RunnerTypes /\ Later(count, snaps, count', snaps')
  <2>1. count \in CountT
    BY WorldCounts DEF RunnerInv
  <2> QED
    BY <1>1, <2>1 DEF RunnerInv, Later, CountT
<1>5. CASE ~Capture /\ pc' = "idle" /\ st' = Fresh /\ tries' = 0
  BY <1>1, <1>5, LoopFiles, ToIdle
<1>6. CASE tries < ExecRetries /\ tries' = tries + 1 /\ st' = t /\ pc' = pc
  <2>1. CheckpointInv'
    BY <1>1, <1>4, CheckpointStays DEF RunnerInv
  <2> HIDE DEF t
  <2>2. /\ Within(st', st) /\ \A k : Positions(st', k) <=> Positions(st, k)
        /\ BasedTurns(st') = BasedTurns(st) /\ TurnSnaps(st') = TurnSnaps(st) /\ ReplanSnaps(st') = ReplanSnaps(st)
        /\ OpenReplans(st') = OpenReplans(st)
    BY <1>3, <1>6, SameHistories
  <2>3. Settled(st', count, req, snaps) /\ Saved(st') /\ NoExec(st'.res)
    <3>1. Settled(st, count, req, snaps) /\ Saved(st) /\ NoExec(st.res)
      BY <1>1, LoopFacts
    <3>2. Settled(st', count, req, snaps)
      BY <1>3, <1>6, <2>2, <3>1, SettledWithin DEF Settled
    <3> QED
      BY <1>3, <1>6, <2>2, <3>1, <3>2 DEF Saved
  <2>4. RunnerTypes'
    BY <1>1, <1>3, <1>4, <1>6 DEF RunnerTypes, RunnerConstants
  <2>5. StateInv'
    BY <1>1, <1>3, <1>6, <2>3, LoopFacts DEF StateInv, Executed
  <2>6. LineageInv'
    BY <1>1, <1>3, <1>6, LoopFacts DEF LineageInv, Executed
  <2>7. FilesInv'
    BY <1>1, <1>3, <1>6, <2>2, LoopFiles DEF FilesInv
  <2>8. ResumeAdmitted'
    BY <1>1, <1>6 DEF ResumeAdmitted
  <2> QED
    BY <1>1, <1>6, <2>1, <2>4, <2>5, <2>6, <2>7, <2>8 DEF RunnerInv
<1>7. CASE tries' = 0 /\ pc' = "ran" /\ st' = [t EXCEPT !.res = Append(@, r)]
  <2>1. r \in ResultT /\ r.step = s /\ r.exec /\ r.score > 0
    BY <1>2 DEF Result, ResultT, KindOf, RunnerConstants
  <2> HIDE DEF r
  <2> DEFINE more == Append(st.res, r)
  <2>2. more \in Seq(ResultT) /\ Len(more) = Len(st.res) + 1 /\ Prefix(more, st.art)
    <3>1. st.res \in Seq(ResultT) /\ st.art \in ArtMap
      BY <1>2 DEF StateT
    <3> QED
      BY <1>2, <2>1, <3>1, PrefixRaises
  <2>3. /\ st'.res = more /\ st'.art = st.art /\ st'.turns = st.turns /\ st'.replans = st.replans
        /\ st'.resume = st.resume /\ st'.rev = st.rev /\ st'.gen = st.gen /\ st' = [t EXCEPT !.res = more]
    <3> HIDE DEF t
    <3> QED
      BY <1>3, <1>7 DEF StateT
  <2>4. st' \in StateT
    <3> HIDE DEF t, more
    <3> QED
      BY <1>3, <2>2, <2>3 DEF StateT
  <2>5. "undone" \notin CrashPoints => Matches(st'.art, files') /\ Agrees(ck, req, files')
    BY <1>1, <2>3, LoopFiles
  <2>6. files' \in ArtMap /\ Next0(st) <= until
    BY <1>1, <1>4 DEF RunnerTypes
  <2> HIDE DEF more, t
  <2> QED
    BY <1>1, <1>7, <2>2, <2>3, <2>4, <2>5, <2>6, ToRan
<1> QED
  BY <1>5, <1>6, <1>7 DEF StepRaises

(* A progress save of a running step keeps the invariant: files ahead of   *)
(* the checkpoint stay described.                                          *)
LEMMA StepProgressKeeps ==
  ASSUME RunnerConstants, RunnerInv, NEW a \in Arts, StepProgress(a)
  PROVE  RunnerInv'
<1> DEFINE s == Next0(st)
           t == [st EXCEPT !.cand[s] = a]
<1>1. pc = "loop" /\ s <= until /\ UNCHANGED <<files, snaps, until, tries, after, req, count>>
  BY DEF StepProgress
<1>2. /\ s \in Steps /\ st \in StateT /\ ck \in StateT /\ Len(ck.res) \in Nat /\ Len(st.res) \in Nat
      /\ ck.rev \in Nat /\ st.rev \in Nat /\ st.gen = ck.gen
      /\ ck.rev < st.rev \/ (ck.rev = st.rev /\ Len(ck.res) <= Len(st.res))
      /\ Settled(st, count, req, snaps) /\ Saved(st) /\ NoExec(st.res) /\ st.resume.step = req.step
  BY <1>1, LoopFacts
<1> HIDE DEF s
<1>3. /\ t \in StateT /\ t.res = st.res /\ t.art = st.art /\ t.turns = st.turns /\ t.replans = st.replans
      /\ t.resume = st.resume /\ t.rev = st.rev /\ t.gen = st.gen /\ t.cand \in ArtMap
  BY <1>2 DEF StateT, ArtMap, ArtOrNone
<1>4. ~Refuses(t, ck)
  BY <1>2, <1>3 DEF Refuses
<1>5. ck' = [t EXCEPT !.gen = ck.gen + 1] /\ st' = [st EXCEPT !.gen = ck.gen + 1, !.cand[s] = NoArt] /\ pc' = pc
  BY <1>4 DEF StepProgress, s
<1>6. /\ ck' \in StateT /\ ck'.res = st.res /\ ck'.art = st.art /\ ck'.turns = st.turns /\ ck'.replans = st.replans
      /\ ck'.resume = st.resume /\ ck'.rev = st.rev /\ ck'.gen = ck.gen + 1
  <2>1. ck.gen + 1 \in Nat
    BY <1>2 DEF StateT
  <2>2. \A x \in StateT, g \in Nat : LET y == [x EXCEPT !.gen = g] IN
          /\ y \in StateT /\ y.res = x.res /\ y.art = x.art /\ y.turns = x.turns /\ y.replans = x.replans
          /\ y.resume = x.resume /\ y.rev = x.rev /\ y.gen = g
    BY DEF StateT
  <2> HIDE DEF t
  <2> QED
    BY <1>3, <1>5, <2>1, <2>2
<1>7. /\ st' \in StateT /\ st'.res = st.res /\ st'.art = st.art /\ st'.turns = st.turns /\ st'.replans = st.replans
      /\ st'.resume = st.resume /\ st'.rev = st.rev /\ st'.gen = ck.gen + 1
  <2>1. ck.gen + 1 \in Nat
    BY <1>2 DEF StateT
  <2> DEFINE g == ck.gen + 1
             m == [st.cand EXCEPT ![s] = NoArt]
  <2>2. st' = [st EXCEPT !.gen = g, !.cand = m]
    BY <1>2, <1>5 DEF StateT
  <2>3. m \in ArtMap
    BY <1>2 DEF StateT, ArtMap, ArtOrNone
  <2>4. \A x \in StateT, n \in Nat, c \in ArtMap : LET y == [x EXCEPT !.gen = n, !.cand = c] IN
          /\ y \in StateT /\ y.res = x.res /\ y.art = x.art /\ y.turns = x.turns /\ y.replans = x.replans
          /\ y.resume = x.resume /\ y.rev = x.rev /\ y.gen = n
    BY DEF StateT
  <2> HIDE DEF g, m
  <2>5. g \in Nat /\ g = ck.gen + 1
    BY <2>1 DEF g
  <2> QED
    <3>1. st \in StateT
      BY <1>2
    <3>2. LET y == [st EXCEPT !.gen = g, !.cand = m] IN
          /\ y \in StateT /\ y.res = st.res /\ y.art = st.art /\ y.turns = st.turns /\ y.replans = st.replans
          /\ y.resume = st.resume /\ y.rev = st.rev /\ y.gen = g
      BY <2>3, <2>4, <2>5, <3>1
    <3> QED
      BY <2>2, <2>5, <3>2
<1> HIDE DEF t
<1>8. /\ Within(st', st) /\ (\A k : Positions(st', k) <=> Positions(st, k))
      /\ BasedTurns(st') = BasedTurns(st) /\ TurnSnaps(st') = TurnSnaps(st) /\ ReplanSnaps(st') = ReplanSnaps(st)
      /\ OpenReplans(st') = OpenReplans(st)
  BY <1>7, SameHistories
<1>9. /\ Within(ck', st) /\ (\A k : Positions(ck', k) <=> Positions(st, k))
      /\ BasedTurns(ck') = BasedTurns(st) /\ TurnSnaps(ck') = TurnSnaps(st) /\ ReplanSnaps(ck') = ReplanSnaps(st)
      /\ OpenReplans(ck') = OpenReplans(st)
  BY <1>6, SameHistories
<1>10. Settled(st', count, req, snaps) /\ Saved(st')
  <2>1. Settled(st', count, req, snaps)
    BY <1>2, <1>7, <1>8, SettledWithin DEF Settled
  <2> QED
    BY SMTT(30), <1>2, <1>7, <1>8, <2>1 DEF Saved
<1>11. Settled(ck', count, req, snaps) /\ Saved(ck')
  <2>1. Settled(ck', count, req, snaps)
    BY <1>2, <1>6, <1>9, SettledWithin DEF Settled
  <2> QED
    BY <1>2, <1>6, <1>9, <2>1 DEF Saved
<1>12. ck.gen \in Nat /\ ck'.gen # 0 /\ ck'.gen > 0
  BY <1>2, <1>6 DEF StateT
<1>13. CheckpointInv'
  BY <1>1, <1>2, <1>6, <1>11, <1>12 DEF RunnerInv, CheckpointInv
<1>14. RunnerTypes'
  BY <1>1, <1>5, <1>6, <1>7 DEF RunnerInv, RunnerTypes
<1>15. StateInv'
  BY <1>1, <1>2, <1>5, <1>7, <1>10 DEF StateInv, Executed
<1>16. LineageInv'
  BY <1>1, <1>2, <1>5, <1>6, <1>7 DEF LineageInv, Executed
<1>17. FilesInv'
  <2>1. Matches(st.art, files) => Agrees(ck', req, files)
    BY <1>6 DEF Matches, Agrees
  <2>2. Len(st'.res) = Len(ck'.res)
    BY <1>6, <1>7
  <2> QED
    BY <1>1, <1>2, <1>5, <1>7, <1>8, <1>9, <2>1, <2>2, LoopFiles DEF FilesInv
<1>18. ResumeAdmitted'
  BY <1>1, <1>5 DEF ResumeAdmitted
<1> QED
  BY <1>1, <1>5, <1>13, <1>14, <1>15, <1>16, <1>17, <1>18 DEF RunnerInv

(* Closing a replan and marking its turn commute with the rollback.        *)
LEMMA RestoredEdits ==
  ASSUME NEW t \in StateT, NEW base \in BaseT, NEW i, NEW stat
  PROVE  /\ ClosedReplan(Restored(t, base), i, stat) = Restored(ClosedReplan(t, i, stat), base)
         /\ MarkedTurn(Restored(t, base), i, stat) = Restored(MarkedTurn(t, i, stat), base)
<1> DEFINE closed(r) == [[r EXCEPT ![i].status = stat] EXCEPT ![i].base = NoBase]
           marked(r) == [r EXCEPT ![i].status = stat]
<1>1. \A x \in StateT : /\ ClosedReplan(x, i, stat) = [x EXCEPT !.replans = closed(x.replans)]
                         /\ MarkedTurn(x, i, stat) = [x EXCEPT !.turns = marked(x.turns)]
  BY ZenonT(30) DEF ClosedReplan, MarkedTurn, StateT
<1>2. \A R : /\ [Restored(t, base) EXCEPT !.replans = R] = Restored([t EXCEPT !.replans = R], base)
             /\ [Restored(t, base) EXCEPT !.turns = R] = Restored([t EXCEPT !.turns = R], base)
  BY ZenonT(30) DEF Restored, StateT
<1>3. Restored(t, base) \in StateT /\ Restored(t, base).replans = t.replans /\ Restored(t, base).turns = t.turns
  BY RestoredOK
<1> HIDE DEF closed, marked
<1> QED
  BY SMTT(30), <1>1, <1>2, <1>3

(* A rejected replan is closed with the turn that scheduled it, and rolled *)
(* back to the gate that triggered it.                                     *)
LEMMA RejectedOK ==
  ASSUME RunnerConstants, NEW t \in StateT, NEW k, NEW cnt, NEW q, NEW sn,
         Settled(t, cnt, q, sn), Positions(t, k), BasedTurns(t) = {}, NEW i \in OpenReplans(t)
  PROVE  LET v == RejectedReplan(t, i) base == t.replans[i].base IN
         /\ v \in StateT /\ Len(v.res) = t.replans[i].trig - 1 /\ NoExec(v.res) /\ Settled(v, cnt, q, sn) /\ Saved(v)
         /\ v.rev = t.rev /\ v.gen = t.gen /\ v.resume.step = t.resume.step
         /\ TurnSnaps(v) = {} /\ ReplanSnaps(v) \subseteq ReplanSnaps(t) /\ base.snap \notin ReplanSnaps(v)
         /\ "undone" \notin CrashPoints /\ base.snap \in DOMAIN sn => Matches(v.art, sn[base.snap])
<1> DEFINE base == t.replans[i].base
           s == t.replans[i].trig
           turn == Latest({n \in DOMAIN t.turns : /\ t.turns[n].status = "acted" /\ t.turns[n].step = s
                                                  /\ t.turns[n].action = "replan"})
           u1 == ClosedReplan(t, i, "stagnated")
           u2 == IF turn = 0 THEN u1 ELSE MarkedTurn(u1, turn, "rejected")
           v == Reopen(s, Restored(u2, base))
<1>1. /\ base \in BaseT /\ BaseOK(base, s, t.resume.step, cnt, q, sn) /\ s \in Steps
      /\ \A u : Within(u, t) /\ i \notin OpenReplans(u) => base.snap \notin ReplanSnaps(u)
  BY ReplanBase DEF Settled
<1>2. i \in DOMAIN t.replans
  BY DEF OpenReplans
<1>3. turn = 0 \/ turn \in DOMAIN t.turns
  <2> DEFINE hits == {n \in DOMAIN t.turns : /\ t.turns[n].status = "acted" /\ t.turns[n].step = s
                                             /\ t.turns[n].action = "replan"}
  <2>1. DOMAIN t.turns = 1 .. Len(t.turns) /\ Len(t.turns) \in Nat
    BY DEF StateT
  <2>2. hits \in SUBSET (1 .. Len(t.turns)) /\ hits \subseteq DOMAIN t.turns
    BY <2>1
  <2> HIDE DEF hits
  <2>3. (hits = {} => Latest(hits) = 0) /\ (hits # {} => Latest(hits) \in hits)
    BY <2>1, <2>2, LatestIsIn
  <2> QED
    BY <2>2, <2>3 DEF hits
<1>4. RejectedReplan(t, i) = v
  <2>1. RejectedReplan(t, i) =
          Reopen(s, IF turn = 0 THEN ClosedReplan(Restored(t, base), i, "stagnated")
                    ELSE MarkedTurn(ClosedReplan(Restored(t, base), i, "stagnated"), turn, "rejected"))
    BY DEF RejectedReplan, ClosedReplan, MarkedTurn
  <2>2. ClosedReplan(Restored(t, base), i, "stagnated") = Restored(u1, base)
    BY <1>1, RestoredEdits
  <2>3. u1 \in StateT
    <3>1. "stagnated" \in ReplanStatuses
      BY DEF ReplanStatuses
    <3> QED
      BY <1>2, <3>1, ReplanClosed
  <2> HIDE DEF turn, u1, base, s
  <2>4. MarkedTurn(Restored(u1, base), turn, "rejected") = Restored(MarkedTurn(u1, turn, "rejected"), base)
    BY <1>1, <2>3, RestoredEdits
  <2> QED
    BY <2>1, <2>2, <2>4
<1> HIDE DEF turn, base, s
<1>5. /\ u1 \in StateT /\ Within(u1, t) /\ u1.turns = t.turns /\ i \notin OpenReplans(u1)
      /\ DOMAIN u1.replans = DOMAIN t.replans /\ u1.replans[i].status = "stagnated"
      /\ \A n \in DOMAIN t.replans : u1.replans[n].to = t.replans[n].to /\ u1.replans[n].trig = t.replans[n].trig
      /\ \A n \in DOMAIN t.replans : n # i => u1.replans[n] = t.replans[n]
      /\ u1.resume = t.resume /\ u1.rev = t.rev /\ u1.gen = t.gen
  <2>1. "stagnated" \in ReplanStatuses
    BY DEF ReplanStatuses
  <2> QED
    BY <1>2, <2>1, ReplanClosed
<1> HIDE DEF u1
<1>6. BasedTurns(u1) = {} /\ OpenReplans(u1) \subseteq OpenReplans(t)
  BY <1>5 DEF Within
<1>7. /\ u2 \in StateT /\ BasedTurns(u2) = {} /\ Within(u2, u1) /\ u2.replans = u1.replans
      /\ u2.resume = u1.resume /\ u2.rev = u1.rev /\ u2.gen = u1.gen
  <2>1. CASE turn = 0
    <3>1. Within(u1, u1)
      BY SameHistories
    <3> QED
      BY <1>5, <1>6, <2>1, <3>1
  <2>2. CASE turn # 0
    <3>1. turn \in DOMAIN u1.turns /\ "rejected" \in TurnStatuses
      BY <1>3, <1>5, <2>2 DEF TurnStatuses
    <3> QED
      BY <1>5, <1>6, <2>2, <3>1, TurnMarked
  <2> QED
    BY <2>1, <2>2
<1> HIDE DEF u2
<1>8. /\ Baselines(u2, cnt, q, sn) /\ BaseOK(base, s, u2.resume.step, cnt, q, sn)
      /\ ReplanSnaps(u2) \subseteq ReplanSnaps(t) /\ base.snap \notin ReplanSnaps(u2)
  <2>1. Baselines(u1, cnt, q, sn) /\ ReplanSnaps(u1) \subseteq ReplanSnaps(t) /\ base.snap \notin ReplanSnaps(u1)
    BY <1>1, <1>5, WithinOK DEF Settled
  <2>2. Baselines(u2, cnt, q, sn) /\ ReplanSnaps(u2) \subseteq ReplanSnaps(u1)
    BY <1>7, <2>1, WithinOK
  <2> QED
    BY <1>1, <1>5, <1>7, <2>1, <2>2
<1>9. /\ v \in StateT /\ Len(v.res) = s - 1 /\ NoExec(v.res) /\ Settled(v, cnt, q, sn)
      /\ v.turns = u2.turns /\ v.replans = u2.replans /\ v.rev = u2.rev /\ v.gen = u2.gen
      /\ v.resume.step = u2.resume.step
      /\ "undone" \notin CrashPoints /\ base.snap \in DOMAIN sn => Matches(v.art, sn[base.snap])
  BY <1>1, <1>7, <1>8, RolledBack
<1> HIDE DEF v
<1>10. /\ BasedTurns(v) = {} /\ TurnSnaps(v) = {} /\ ReplanSnaps(v) = ReplanSnaps(u2)
       /\ OpenReplans(v) \subseteq OpenReplans(t) \ {i} /\ v.replans = u1.replans
  <2>1. BasedTurns(v) = BasedTurns(u2) /\ ReplanSnaps(v) = ReplanSnaps(u2) /\ OpenReplans(v) = OpenReplans(u2)
    BY <1>9, SameHistories
  <2>2. OpenReplans(u2) \subseteq OpenReplans(u1)
    BY <1>7 DEF Within
  <2> QED
    BY <1>5, <1>6, <1>7, <1>9, <2>1, <2>2 DEF TurnSnaps
<1>11. Saved(v)
  <2>1. ~DraftFirst
    BY DEF Positions
  <2>2. RepairRelease => OpenReplans(v) = {}
    BY <1>10 DEF Positions
  <2>3. \A n \in DOMAIN v.replans : v.replans[n].to < v.replans[n].trig
    BY <1>5, <1>10 DEF Positions
  <2>4. ASSUME RepairRelease, NEW n \in DOMAIN v.replans, v.replans[n].status = "scheduled" PROVE HasBase(v.replans[n])
    <3>1. n # i /\ v.replans[n] = t.replans[n] /\ n \in DOMAIN t.replans
      BY <1>5, <1>10, <2>4
    <3> QED
      BY <2>4, <3>1 DEF Positions
  <2> QED
    BY <1>10, <2>1, <2>2, <2>3, <2>4 DEF Saved, Positions
<1> QED
  BY <1>4, <1>5, <1>7, <1>8, <1>9, <1>10, <1>11 DEF base, s

(* The rollback of a candidate keeps the invariant: what comes back is a   *)
(* prefix of the same continuation, with files to match (_reject_replan).  *)
LEMMA RejectKeeps ==
  ASSUME RunnerConstants, RunnerInv, Executed, NEW t \in StateT, NEW i,
         Within(t, st), BasedTurns(t) = {}, Positions(t, Cur), i \in OpenReplans(t), Cur <= t.replans[i].trig,
         t.res = st.res, t.art = st.art, t.resume = st.resume, t.rev = st.rev, t.gen = st.gen,
         Reject(t, i), UNCHANGED <<ck, until, tries, req, count>>
  PROVE  RunnerInv'
<1> DEFINE base == t.replans[i].base
           v == RejectedReplan(t, i)
<1>1. RunnerTypes /\ count \in CountT /\ count.snap <= count.snap /\ files \in ArtMap
  BY WorldCounts DEF RunnerInv, RunnerTypes, CountT
<1>2. Settled(t, count, req, snaps) /\ ReplanSnaps(t) \subseteq ReplanSnaps(st) /\ t.resume.step = req.step
  BY ExecutedFacts, SettledWithin DEF Settled
<1>3. base.snap \in ReplanSnaps(t) /\ t.replans[i].trig \in Steps
  BY <1>2, ReplanBase DEF Settled
<1>4. CASE ~SnapshotExists(base)
  <2>1. pc' = "lost" /\ UNCHANGED <<st, files, snaps, after>>
    BY <1>4 DEF Reject
  <2>2. "undone" \in CrashPoints
    BY <1>2, <1>3, <1>4, ExecutedFiles DEF SnapshotExists
  <2>3. WorldTypes(files', snaps', count') /\ Later(count, snaps, count', snaps')
    BY <1>1, <2>1, WorldSame
  <2>4. CheckpointInv'
    BY SMTT(30), <2>3, CheckpointStays DEF RunnerInv, WorldTypes
  <2> QED
    BY <2>1, <2>2, <2>4
       DEF RunnerInv, RunnerTypes, StateInv, LineageInv, FilesInv, ResumeAdmitted, Active
<1>5. CASE SnapshotExists(base)
  <2>1. st' = v /\ files' = snaps[base.snap] /\ snaps' = Without(base) /\ pc' = "save" /\ after' = "loop"
    BY <1>5 DEF Reject, SaveThen
  <2>2. base.snap \in DOMAIN snaps /\ files' \in ArtMap
    BY <1>1, <1>5, <2>1 DEF SnapshotExists, RunnerTypes
  <2>3. /\ WorldTypes(files', snaps', count') /\ Later(count, snaps, count', snaps')
        /\ DOMAIN snaps' = DOMAIN snaps \ {base.snap}
    BY <1>1, <2>1, <2>2, WorldWithout
  <2>4. /\ v \in StateT /\ Len(v.res) = t.replans[i].trig - 1 /\ NoExec(v.res) /\ Settled(v, count, req, snaps) /\ Saved(v)
        /\ v.rev = t.rev /\ v.gen = t.gen /\ v.resume.step = t.resume.step
        /\ TurnSnaps(v) = {} /\ ReplanSnaps(v) \subseteq ReplanSnaps(t) /\ base.snap \notin ReplanSnaps(v)
        /\ "undone" \notin CrashPoints /\ base.snap \in DOMAIN snaps => Matches(v.art, snaps[base.snap])
    BY <1>2, RejectedOK
  <2> HIDE DEF v
  <2>5. Settled(v, count', req, snaps')
    BY <1>1, <2>3, <2>4, SettledLater
  <2>6. v.gen = ck.gen /\ (ck.rev < v.rev \/ (ck.rev = v.rev /\ Len(ck.res) <= Len(v.res)))
    <3>1. /\ ck.rev < st.rev \/ (ck.rev = st.rev /\ Len(ck.res) <= Cur - 1)
          /\ st.gen = ck.gen /\ Cur \in Steps /\ Len(ck.res) \in Nat
      BY ExecutedFacts
    <3>2. Len(v.res) = t.replans[i].trig - 1 /\ v.rev = st.rev /\ v.gen = st.gen
      BY <2>4
    <3> QED
      BY <1>3, <3>1, <3>2 DEF Steps
  <2>7. ASSUME "undone" \notin CrashPoints
        PROVE  /\ Matches(v.art, files')
               /\ TurnSnaps(v) \cup ReplanSnaps(v) \subseteq DOMAIN snaps'
               /\ ~(TurnSnaps(ck) \cup ReplanSnaps(ck) \subseteq DOMAIN snaps')
    BY SMTT(30), <1>2, <1>3, <2>1, <2>2, <2>3, <2>4, <2>7, ExecutedFiles
  <2>8. Savable(st', files', snaps', count')
    BY <1>2, <2>1, <2>4, <2>5, <2>6, <2>7 DEF Savable
  <2> QED
    BY <2>1, <2>3, <2>4, <2>8, ToSave
<1> QED
  BY <1>4, <1>5

(* A candidate that cannot reach its trigger again is rolled back.         *)
LEMMA CandidateFailsKeeps ==
  ASSUME RunnerConstants, RunnerInv, CandidateFails
  PROVE  RunnerInv'
<1> DEFINE i == ActiveReplan(st, Cur)
<1>1. /\ pc = "gate" /\ i # 0 /\ HasBase(st.replans[i]) /\ Reject(st, i) /\ UNCHANGED <<ck, until, tries, req, count>>
  BY DEF CandidateFails
<1>2. Executed /\ BasedTurns(st) = {}
  BY <1>1 DEF Executed, RunnerInv, StateInv, Active
<1>3. st \in StateT /\ Positions(st, Cur)
  BY <1>2, ExecutedFacts
<1>4. i \in DOMAIN st.replans /\ st.replans[i].status = "scheduled" /\ Cur <= st.replans[i].trig
  BY <1>1, <1>3, ReplanFound
<1> HIDE DEF i
<1>5. i \in OpenReplans(st) /\ Within(st, st)
  BY <1>1, <1>4, SameHistories DEF OpenReplans
<1> QED
  BY <1>1, <1>2, <1>3, <1>4, <1>5, RejectKeeps

(* A failed gate hands over to the recovery decision.                      *)
LEMMA ToRecoveryKeeps ==
  ASSUME RunnerConstants, RunnerInv, ToRecovery
  PROVE  RunnerInv'
<1> DEFINE i == ActiveReplan(st, Cur)
<1>1. /\ pc = "gate" /\ ~CanContinue /\ ~DraftFirst /\ pc' = "decide"
      /\ UNCHANGED <<ck, files, snaps, until, tries, after, req, count>>
      /\ st' = IF Extends(i) THEN ExtendedReplan(st, i) ELSE st
  BY DEF ToRecovery, ExtendedReplan
<1>2. Executed /\ BasedTurns(st) = {} /\ TurnSnaps(st) = {} /\ Blocked(Res)
  BY <1>1 DEF Executed, RunnerInv, StateInv, Active, TurnSnaps, CanContinue
<1>3. st \in StateT /\ Positions(st, Cur) /\ Settled(st, count, req, snaps)
  BY <1>2, ExecutedFacts
<1>4. /\ st' \in StateT /\ Within(st', st) /\ BasedTurns(st') = {} /\ Positions(st', Cur)
      /\ st'.res = st.res /\ st'.art = st.art /\ st'.resume = st.resume /\ st'.rev = st.rev /\ st'.gen = st.gen
  <2>1. CASE Extends(i)
    <3>1. i \in DOMAIN st.replans /\ st.replans[i].inter < MaxInter
      BY <1>3, <2>1, ReplanFound DEF Extends
    <3> HIDE DEF i
    <3>2. /\ st' \in StateT /\ Within(st', st) /\ st'.turns = st.turns
          /\ DOMAIN st'.replans = DOMAIN st.replans
          /\ \A k \in DOMAIN st.replans : /\ st'.replans[k].to = st.replans[k].to /\ st'.replans[k].trig = st.replans[k].trig
                                          /\ st'.replans[k].status = st.replans[k].status
                                          /\ st'.replans[k].base = st.replans[k].base
          /\ st'.res = st.res /\ st'.art = st.art /\ st'.resume = st.resume /\ st'.rev = st.rev /\ st'.gen = st.gen
      BY <1>1, <1>3, <2>1, <3>1, ReplanExtended
    <3>3. BasedTurns(st') = {}
      BY <1>2, <3>2 DEF Within
    <3> QED
      BY <1>3, <3>2, <3>3, PositionsWithin
  <2>2. CASE ~Extends(i)
    BY <1>1, <1>2, <1>3, <2>2, SameHistories
  <2> QED
    BY <2>1, <2>2
<1>5. ReplanSnaps(st') \subseteq ReplanSnaps(st)
  BY <1>3, <1>4, SettledWithin DEF Settled
<1>6. WorldTypes(files', snaps', count') /\ Later(count, snaps, count', snaps')
  BY <1>1, WorldSame, WorldCounts DEF RunnerInv, CountT, RunnerTypes
<1> QED
  BY <1>1, <1>2, <1>4, <1>5, <1>6, ExecutedFiles, ToGate

(* The snapshots of open baselines have names given out before.            *)
LEMMA SnapsNamed ==
  ASSUME NEW t, NEW cnt, NEW q, NEW sn, Baselines(t, cnt, q, sn)
  PROVE  TurnSnaps(t) \cup ReplanSnaps(t) \subseteq 1 .. cnt.snap
  BY DEF Baselines, BaseOK, TurnSnaps, ReplanSnaps

(* Taking a snapshot adds one under a name that was never used.            *)
LEMMA WorldSnapshot ==
  ASSUME RunnerTypes, CheckpointInv, Snapshot, UNCHANGED <<ck, files>>, count' = [count EXCEPT !.snap = @ + 1]
  PROVE  /\ WorldTypes(files', snaps', count') /\ Later(count, snaps, count', snaps')
         /\ SnapName \in Nat \ {0} /\ SnapName \in 1 .. count'.snap /\ SnapName \notin 1 .. count.snap
         /\ DOMAIN snaps' = DOMAIN snaps \cup {SnapName} /\ snaps'[SnapName] = files
         /\ TurnSnaps(ck) \cup ReplanSnaps(ck) \subseteq DOMAIN snaps' =>
              TurnSnaps(ck) \cup ReplanSnaps(ck) \subseteq DOMAIN snaps
<1>1. /\ count \in CountT /\ count' \in CountT /\ count'.snap = count.snap + 1 /\ count'.tok = count.tok
      /\ count.snap \in Nat
  <2>1. count \in CountT
    BY WorldCounts
  <2> QED
    BY <2>1 DEF CountT
<1>2. SnapName = count.snap + 1
  BY DEF SnapName
<1>3. SnapName \in Nat \ {0} /\ SnapName \in 1 .. count'.snap /\ SnapName \notin 1 .. count.snap
  BY <1>1, <1>2
<1>4. /\ DOMAIN snaps' = DOMAIN snaps \cup {SnapName} /\ snaps'[SnapName] = files
      /\ \A n \in DOMAIN snaps : n # SnapName => snaps'[n] = snaps[n]
  BY DEF Snapshot
<1>5. DOMAIN snaps \subseteq 1 .. count.snap /\ files \in ArtMap /\ \A n \in DOMAIN snaps : snaps[n] \in ArtMap
  BY DEF RunnerTypes
<1>6. DOMAIN snaps' \subseteq 1 .. count'.snap
  BY <1>1, <1>3, <1>4, <1>5
<1>7. \A n \in DOMAIN snaps' : n = SnapName \/ (n # SnapName /\ n \in DOMAIN snaps)
  BY <1>4
<1>8. \A n \in DOMAIN snaps' : snaps'[n] \in ArtMap
  BY <1>4, <1>5, <1>7
<1>9. WorldTypes(files', snaps', count')
  BY <1>1, <1>5, <1>6, <1>8 DEF WorldTypes
<1>10. Later(count, snaps, count', snaps')
  <2>1. count.snap <= count'.snap
    BY <1>1
  <2>2. \A n \in DOMAIN snaps' : n \in 1 .. count.snap => n \in DOMAIN snaps /\ snaps'[n] = snaps[n]
    BY <1>3, <1>4, <1>7
  <2> QED
    BY <1>1, <2>1, <2>2 DEF Later
<1>11. TurnSnaps(ck) \cup ReplanSnaps(ck) \subseteq 1 .. count.snap
  BY SnapsNamed DEF CheckpointInv, Settled
<1> QED
  BY <1>3, <1>4, <1>9, <1>10, <1>11

(* A baseline captured now, of a step that has executed.                   *)
LEMMA CapturedBase ==
  ASSUME RunnerConstants, RunnerInv, Executed, Snapshot, UNCHANGED <<ck, files, req>>,
         count' = [count EXCEPT !.snap = @ + 1]
  PROVE  LET b == Captured(st, SnapName) IN
         /\ b \in BaseT /\ b # NoBase /\ BaseOK(b, Cur, st.resume.step, count', req, snaps')
         /\ b.snap = SnapName /\ SnapName \notin ReplanSnaps(st)
         /\ Baselines(st, count', req, snaps') /\ Known(st.resume, count', req)
<1> DEFINE b == Captured(st, SnapName)
<1>1. RunnerTypes /\ CheckpointInv /\ count \in CountT
  BY WorldCounts DEF RunnerInv
<1>2. /\ WorldTypes(files', snaps', count') /\ Later(count, snaps, count', snaps')
      /\ SnapName \in Nat \ {0} /\ SnapName \in 1 .. count'.snap /\ SnapName \notin 1 .. count.snap
      /\ DOMAIN snaps' = DOMAIN snaps \cup {SnapName} /\ snaps'[SnapName] = files
  BY <1>1, WorldSnapshot
<1>3. /\ st \in StateT /\ Settled(st, count, req, snaps) /\ Cur = Len(st.res)
  BY ExecutedFacts DEF Cur
<1>4. b \in BaseT /\ b # NoBase /\ b.snap = SnapName /\ b.res = st.res /\ b.art = st.art /\ b.resume = st.resume
  BY <1>2, <1>3, CapturedOK
<1> HIDE DEF b
<1>5. Settled(st, count', req, snaps')
  BY <1>1, <1>2, <1>3, SettledLater DEF WorldTypes
<1>6. BaseOK(b, Cur, st.resume.step, count', req, snaps')
  BY <1>2, <1>3, <1>4, <1>5, ExecutedFiles DEF BaseOK, Settled
<1>7. SnapName \notin ReplanSnaps(st)
  <2>1. ReplanSnaps(st) \subseteq 1 .. count.snap
    BY <1>3, SnapsNamed DEF Settled
  <2> QED
    BY <1>2, <2>1
<1> QED
  BY <1>4, <1>5, <1>6, <1>7 DEF b, Settled

(* A replan goes back to an earlier step, and only when none is open.      *)
LEMMA TargetsBelow ==
  ASSUME RunnerConstants, RunnerInv, Executed
  PROVE  /\ AllowedTargets \subseteq 1 .. (Cur - 1) /\ Cur \in Steps /\ AllowedTargets \subseteq Steps
         /\ AllowedTargets # {} => ActiveReplan(st, Cur) = 0 /\ Res.kind # "external"
         /\ AllowedTargets # {} => (CHOOSE x \in AllowedTargets : \A y \in AllowedTargets : y <= x) \in AllowedTargets
<1>1. Cur \in Steps /\ Cur \in Nat
  BY ExecutedFacts DEF Steps
<1>2. AllowedTargets \subseteq 1 .. (Cur - 1)
  BY <1>1 DEF AllowedTargets
<1>3. AllowedTargets \subseteq Steps
  BY <1>1, <1>2 DEF Steps, RunnerConstants
<1>4. AllowedTargets # {} => ActiveReplan(st, Cur) = 0 /\ Res.kind # "external"
  BY DEF AllowedTargets
<1>5. AllowedTargets # {} => \E x \in AllowedTargets : \A y \in AllowedTargets : y <= x
  <2>1. AllowedTargets \in SUBSET (1 .. N) /\ N \in Nat
    BY <1>3 DEF Steps, RunnerConstants
  <2> QED
    BY <2>1, LatestIsIn
<1> QED
  BY <1>1, <1>2, <1>3, <1>4, <1>5

(* A decision is one of the actions, and a replan names an allowed target. *)
LEMMA DecisionOK ==
  ASSUME RunnerConstants, RunnerInv, Executed, NEW proposal \in Proposals, NEW hint \in Hints
  PROVE  LET d == Decision(proposal, hint) IN
         d[1] \in Actions /\ d[2] \in 0 .. N /\ (d[1] = "replan" => d[2] \in AllowedTargets)
<1>1. Cur \in Steps /\ Steps \subseteq 0 .. N /\ 0 \in 0 .. N /\ AllowedTargets \subseteq Steps
  BY TargetsBelow DEF Steps, RunnerConstants
<1>2. CASE Admissible(proposal)
  <2>1. proposal[1] \in Actions /\ proposal[2] \in 0 .. N
    BY <1>1 DEF Proposals, Actions
  <2>2. proposal[1] = "replan" => proposal[2] \in AllowedTargets
    BY <1>2 DEF Admissible
  <2> QED
    BY <1>2, <2>1, <2>2 DEF Decision
<1>3. CASE ~Admissible(proposal)
  <2> DEFINE top == CHOOSE x \in AllowedTargets : \A y \in AllowedTargets : y <= x
  <2>1. AllowedTargets # {} => top \in AllowedTargets
    BY TargetsBelow
  <2> HIDE DEF top
  <2>2. \/ Fallback(hint) = <<"stop", 0>> \/ Fallback(hint) = <<"retry", Cur>>
        \/ Fallback(hint) = <<"replan", hint>> /\ hint \in AllowedTargets
        \/ Fallback(hint) = <<"local", Cur>> \/ Fallback(hint) = <<"ask", 0>>
        \/ Fallback(hint) = <<"replan", top>> /\ AllowedTargets # {}
    BY DEF Fallback, top
  <2>3. Decision(proposal, hint) = Fallback(hint)
    BY <1>3 DEF Decision
  <2> DEFINE d == Fallback(hint)
             ok(e) == e[1] \in Actions /\ e[2] \in 0 .. N /\ (e[1] = "replan" => e[2] \in AllowedTargets)
  <2>a. ok(<<"stop", 0>>) /\ ok(<<"ask", 0>>) /\ ok(<<"retry", Cur>>) /\ ok(<<"local", Cur>>)
    BY <1>1 DEF Actions
  <2>b. \A x \in AllowedTargets : ok(<<"replan", x>>)
    BY <1>1 DEF Actions
  <2>c. AllowedTargets # {} => ok(<<"replan", top>>)
    BY <2>1, <2>b
  <2> HIDE DEF ok
  <2>d. ok(Fallback(hint))
    BY <2>2, <2>a, <2>b, <2>c
  <2>4. d[1] \in Actions /\ d[2] \in 0 .. N /\ (d[1] = "replan" => d[2] \in AllowedTargets)
    BY <2>d DEF ok
  <2> QED
    BY <2>3, <2>4
<1> QED
  BY <1>2, <1>3

(* A decided turn is a turn about the current step.                        *)
LEMMA TurnTyped ==
  ASSUME RunnerConstants, RunnerInv, Executed, NEW d, d[1] \in Actions, d[2] \in 0 .. N,
         NEW status \in TurnStatuses, NEW base \in BaseT \cup {NoBase}
  PROVE  LET e == Turn(d, status, base) IN e \in TurnT /\ e.base = base /\ e.step = Cur /\ e.status = status
<1>1. Cur \in Steps /\ Res \in ResultT /\ st \in StateT
  BY ExecutedFacts
<1>2. Res.kind \in KindOf /\ Res.score \in Nat /\ st.art[Cur] \in ArtOrNone
  BY <1>1 DEF ResultT, StateT, ArtMap, RunnerConstants
<1> QED
  BY <1>1, <1>2 DEF Turn, TurnT

(* A state with the snapshot just taken can be saved when its baselines    *)
(* are known and its artifacts are those of the state it follows.          *)
LEMMA SnapshotSavable ==
  ASSUME RunnerConstants, RunnerInv, Executed, Snapshot, UNCHANGED <<ck, files, until, tries, req>>,
         count' = [count EXCEPT !.snap = @ + 1], pc' = "save", after' = "loop",
         st' \in StateT, Prefix(st'.res, st'.art), NoExec(st'.res), Saved(st'),
         Baselines(st', count', req, snaps'),
         TurnSnaps(st') \cup ReplanSnaps(st') \subseteq ReplanSnaps(st) \cup {SnapName},
         \A x \in Steps : st'.art[x] # NoArt => st'.art[x] = st.art[x],
         st'.resume = st.resume, st'.rev = st.rev + 1, st'.gen = st.gen
  PROVE  RunnerInv'
<1>1. RunnerTypes /\ CheckpointInv
  BY DEF RunnerInv
<1>2. /\ WorldTypes(files', snaps', count') /\ Later(count, snaps, count', snaps')
      /\ DOMAIN snaps' = DOMAIN snaps \cup {SnapName}
      /\ TurnSnaps(ck) \cup ReplanSnaps(ck) \subseteq DOMAIN snaps' =>
           TurnSnaps(ck) \cup ReplanSnaps(ck) \subseteq DOMAIN snaps
  BY <1>1, WorldSnapshot
<1>3. /\ st.resume.step = req.step /\ Known(st.resume, count', req) /\ st.gen = ck.gen
      /\ ck.rev \in Nat /\ st.rev \in Nat /\ (ck.rev < st.rev \/ ck.rev = st.rev)
  BY ExecutedFacts, CapturedBase
<1>4. ck.rev < st'.rev
  BY <1>3
<1>5. Settled(st', count', req, snaps')
  BY <1>3 DEF Settled
<1>6. ASSUME "undone" \notin CrashPoints
      PROVE  /\ Matches(st'.art, files')
             /\ TurnSnaps(st') \cup ReplanSnaps(st') \subseteq DOMAIN snaps'
             /\ TurnSnaps(ck) \cup ReplanSnaps(ck) \subseteq DOMAIN snaps' => Agrees(ck, req, files')
  BY <1>2, <1>6, ExecutedFiles DEF Matches
<1>7. Savable(st', files', snaps', count')
  BY <1>3, <1>4, <1>5, <1>6 DEF Savable
<1> QED
  BY <1>2, <1>7, ToSave

(* A new revision with other turns, results and artifacts.                 *)
Revised(r, x, y, z) == [r EXCEPT !.turns = x, !.rev = @ + 1, !.res = y, !.art = z]

(* A decision that redoes steps raises the revision.                       *)
LEMMA NewRevision ==
  ASSUME NEW r \in StateT, NEW x \in Seq(TurnT), NEW y \in Seq(ResultT), NEW z \in ArtMap
  PROVE  LET f == Revised(r, x, y, z) IN
         /\ f \in StateT /\ f.turns = x /\ f.replans = r.replans /\ f.resume = r.resume
         /\ f.res = y /\ f.art = z /\ f.rev = r.rev + 1 /\ f.gen = r.gen
<1>1. r.rev \in Nat /\ r.rev + 1 \in Nat
  BY DEF StateT
<1>2. \A v \in Nat : LET f == [r EXCEPT !.turns = x, !.rev = v, !.res = y, !.art = z] IN
         /\ f \in StateT /\ f.turns = x /\ f.replans = r.replans /\ f.resume = r.resume
         /\ f.res = y /\ f.art = z /\ f.rev = v /\ f.gen = r.gen
  BY DEF StateT
<1> QED
  BY <1>1, <1>2 DEF Revised

(* A local action: the failed result is dropped and the turn that acts on  *)
(* it holds the baseline.                                                  *)
LEMMA LocalKeeps ==
  ASSUME RunnerConstants, RunnerInv, pc = "decide", NEW d, d[1] \in Actions, d[2] \in 0 .. N,
         Snapshot, UNCHANGED <<ck, files, until, tries, req>>, st' = LocalState(d),
         count' = [count EXCEPT !.snap = @ + 1], pc' = "save", after' = "loop"
  PROVE  RunnerInv'
<1> DEFINE base == Captured(st, SnapName)
           e == Turn(d, "acted", base)
           n == Len(st.res)
<1>1. Executed /\ ~DraftFirst /\ BasedTurns(st) = {}
  BY DEF Executed, RunnerInv, StateInv, Active
<1>2. /\ st \in StateT /\ Cur \in Steps /\ Cur = n /\ Len(st.res) > 0 /\ st.rev \in Nat /\ Positions(st, Cur)
      /\ Prefix(st.res, st.art) /\ st.res \in Seq(ResultT) /\ st.art \in ArtMap /\ st.art[Cur] \in ArtOrNone
  <2>1. /\ st \in StateT /\ Cur \in Steps /\ Positions(st, Cur) /\ Settled(st, count, req, snaps) /\ Cur \in 1 .. Len(st.res)
        /\ st.rev \in Nat
    BY <1>1, ExecutedFacts
  <2>2. Cur = n
    BY DEF Cur
  <2>3. st.res \in Seq(ResultT) /\ st.art \in ArtMap /\ st.art[Cur] \in ArtOrNone
    BY <2>1 DEF StateT, ArtMap
  <2> QED
    BY <2>1, <2>2, <2>3 DEF Settled
<1>3. /\ base \in BaseT /\ base # NoBase /\ BaseOK(base, Cur, st.resume.step, count', req, snaps')
      /\ base.snap = SnapName /\ SnapName \notin ReplanSnaps(st)
      /\ Baselines(st, count', req, snaps') /\ Known(st.resume, count', req)
  BY <1>1, CapturedBase
<1>4. e \in TurnT /\ e.base = base /\ e.step = Cur /\ e.status = "acted"
  <2>1. "acted" \in TurnStatuses
    BY DEF TurnStatuses
  <2> QED
    BY <1>1, <1>3, <2>1, TurnTyped
<1>5. /\ n \in 1 .. Len(st.res) /\ Front(st.res) \in Seq(ResultT) /\ [st.art EXCEPT ![n] = NoArt] \in ArtMap
      /\ Len(Front(st.res)) = n - 1 /\ Prefix(Front(st.res), [st.art EXCEPT ![n] = NoArt]) /\ NoExec(Front(st.res))
      /\ \A x \in Steps : [st.art EXCEPT ![n] = NoArt][x] # NoArt => [st.art EXCEPT ![n] = NoArt][x] = st.art[x]
  BY <1>2, PrefixFront
<1>6. /\ st' \in StateT /\ st'.turns = Append(st.turns, e) /\ st'.replans = st.replans /\ st'.resume = st.resume
      /\ st'.res = Front(st.res) /\ st'.art = [st.art EXCEPT ![n] = NoArt]
      /\ st'.rev = st.rev + 1 /\ st'.gen = st.gen
  <2> DEFINE turns == Append(st.turns, e)
             front == Front(st.res)
             art == [st.art EXCEPT ![n] = NoArt]
             t == [st EXCEPT !.turns = turns, !.rev = @ + 1, !.res = front, !.art[Cur] = NoArt]
  <2>1. turns \in Seq(TurnT)
    BY <1>2, <1>4 DEF StateT
  <2>2. st' = IF d[1] = "local" THEN [t EXCEPT !.cand[Cur] = st.art[Cur]] ELSE t
    BY DEF LocalState
  <2>3. front \in Seq(ResultT) /\ art \in ArtMap /\ [st.art EXCEPT ![Cur] = NoArt] = art
    BY <1>2, <1>5
  <2> HIDE DEF e, turns, front, art, n
  <2>4. /\ t \in StateT /\ t.turns = turns /\ t.replans = st.replans /\ t.resume = st.resume
        /\ t.res = front /\ t.art = art /\ t.rev = st.rev + 1 /\ t.gen = st.gen
    <3>1. t = Revised(st, turns, front, art)
      BY <2>3 DEF Revised
    <3> HIDE DEF t
    <3> QED
      BY <1>2, <2>1, <2>3, <3>1, NewRevision
  <2> HIDE DEF t
  <2>5. [t.cand EXCEPT ![Cur] = st.art[Cur]] \in ArtMap
    BY <1>2, <2>4 DEF StateT, ArtMap
  <2>6. st' \in StateT /\ st'.turns = t.turns /\ st'.replans = t.replans /\ st'.resume = t.resume
        /\ st'.res = t.res /\ st'.art = t.art /\ st'.rev = t.rev /\ st'.gen = t.gen
    BY ZenonT(30), <2>2, <2>4, <2>5 DEF StateT
  <2> QED
    BY <2>4, <2>6 DEF turns, front, art
<1> HIDE DEF base, e
<1>7. /\ Baselines(st', count', req, snaps') /\ OpenReplans(st') = OpenReplans(st) /\ ReplanSnaps(st') = ReplanSnaps(st)
      /\ BasedTurns(st') = {Len(st'.turns)} /\ TurnSnaps(st') = {base.snap} /\ st'.turns[Len(st'.turns)] = e
  BY SMTT(30), <1>1, <1>2, <1>3, <1>4, <1>6, TurnOpened DEF HasBase
<1>8. Saved(st')
  <2>1. Len(st'.res) + 1 = Cur
    BY <1>2, <1>5, <1>6 DEF Steps
  <2>2. Positions(st', Cur)
    BY <1>1, <1>2, <1>4, <1>6, <1>7 DEF Positions
  <2> QED
    BY <1>5, <1>6, <2>1, <2>2 DEF Saved
<1> QED
  BY <1>1, <1>3, <1>5, <1>6, <1>7, <1>8, SnapshotSavable

(* A new revision with one more replan and another list of candidates.     *)
Scheduled(r, rec, c) == [r EXCEPT !.replans = Append(@, rec), !.rev = @ + 1, !.cand = c]

(* A scheduled replan raises the revision and is the last of the list.     *)
LEMMA ReplanScheduled ==
  ASSUME NEW r \in StateT, NEW rec \in ReplanT, NEW c \in ArtMap
  PROVE  LET f == Scheduled(r, rec, c) IN
         /\ f \in StateT /\ f.replans = Append(r.replans, rec) /\ f.turns = r.turns /\ f.resume = r.resume
         /\ f.res = r.res /\ f.art = r.art /\ f.rev = r.rev + 1 /\ f.gen = r.gen
<1>1. r.rev \in Nat /\ r.rev + 1 \in Nat /\ r.replans \in Seq(ReplanT) /\ Append(r.replans, rec) \in Seq(ReplanT)
  BY DEF StateT
<1>2. \A v \in Nat, l \in Seq(ReplanT) : LET f == [r EXCEPT !.replans = l, !.rev = v, !.cand = c] IN
         /\ f \in StateT /\ f.replans = l /\ f.turns = r.turns /\ f.resume = r.resume
         /\ f.res = r.res /\ f.art = r.art /\ f.rev = v /\ f.gen = r.gen
  BY ZenonT(30) DEF StateT
<1> QED
  BY <1>1, <1>2 DEF Scheduled

(* An upstream replan: everything from its target on is dropped, and the   *)
(* replan holds the only open baseline when releases are repaired.         *)
LEMMA ReplanKeeps ==
  ASSUME RunnerConstants, RunnerInv, pc = "decide", NEW t \in StateT, NEW x \in Steps, NEW acted \in BOOLEAN,
         BasedTurns(t) = {}, t.replans = st.replans, t.res = st.res, t.art = st.art,
         t.resume = st.resume, t.rev = st.rev, t.gen = st.gen,
         acted => Len(t.turns) \in DOMAIN t.turns, x < Cur, ActiveReplan(st, Cur) = 0,
         Snapshot, UNCHANGED <<ck, files, until, tries, req>>, st' = ReplanState(t, x, acted),
         count' = [count EXCEPT !.snap = @ + 1], pc' = "save", after' = "loop"
  PROVE  RunnerInv'
<1> DEFINE base == Captured(st, SnapName)
           rec == [trig |-> Cur, to |-> x, kind |-> Res.kind, status |-> "scheduled",
                   fp |-> t.art[x], inter |-> 0, base |-> base]
           cand == [s \in Steps |-> IF s < x THEN t.cand[s] ELSE IF s = x THEN t.art[x] ELSE NoArt]
           upd == Scheduled(t, rec, cand)
           w == IF acted THEN MarkedTurn(upd, Len(upd.turns), "acted") ELSE upd
           n == Len(st.replans) + 1
<1>1. Executed /\ ~DraftFirst /\ BasedTurns(st) = {}
  BY DEF Executed, RunnerInv, StateInv, Active
<1>2. /\ st \in StateT /\ Cur \in Steps /\ Cur = Len(st.res) /\ Positions(st, Cur) /\ Prefix(st.res, st.art)
      /\ Res.kind \in KindOf /\ t.art[x] \in ArtOrNone /\ cand \in ArtMap
  <2>1. st \in StateT /\ Cur \in Steps /\ Positions(st, Cur) /\ Settled(st, count, req, snaps) /\ Res \in ResultT
    BY <1>1, ExecutedFacts
  <2>2. Cur = Len(st.res)
    BY DEF Cur
  <2>3. t.art \in ArtMap /\ t.cand \in ArtMap /\ NoArt \in ArtOrNone
    BY DEF StateT, ArtOrNone
  <2>4. cand \in ArtMap /\ t.art[x] \in ArtOrNone
    BY <2>3 DEF ArtMap
  <2> HIDE DEF cand
  <2> QED
    BY <2>1, <2>2, <2>4 DEF Settled, ResultT
<1>3. /\ base \in BaseT /\ base # NoBase /\ BaseOK(base, Cur, st.resume.step, count', req, snaps')
      /\ base.snap = SnapName /\ SnapName \notin ReplanSnaps(st)
      /\ Baselines(st, count', req, snaps') /\ Known(st.resume, count', req)
  BY <1>1, CapturedBase
<1> HIDE DEF base, cand
<1>4. rec \in ReplanT /\ rec.trig = Cur /\ rec.to = x /\ rec.status = "scheduled" /\ rec.base = base
  <2>1. 0 \in 0 .. MaxInter /\ "scheduled" \in ReplanStatuses
    BY DEF RunnerConstants, ReplanStatuses
  <2> QED
    BY <1>2, <1>3, <2>1 DEF ReplanT
<1>5. st' = Truncate(x, w)
  BY DEF ReplanState, Scheduled, MarkedTurn, base, cand
<1> HIDE DEF rec
<1>6. /\ upd \in StateT /\ upd.replans = Append(t.replans, rec) /\ upd.turns = t.turns /\ upd.resume = t.resume
      /\ upd.res = t.res /\ upd.art = t.art /\ upd.rev = t.rev + 1 /\ upd.gen = t.gen
  BY <1>2, <1>4, ReplanScheduled
<1> HIDE DEF upd
<1>7. BasedTurns(upd) = {}
  BY <1>6 DEF BasedTurns
<1>8. /\ w \in StateT /\ BasedTurns(w) = {} /\ w.replans = upd.replans
      /\ w.res = upd.res /\ w.art = upd.art /\ w.resume = upd.resume /\ w.rev = upd.rev /\ w.gen = upd.gen
  <2>1. CASE acted
    <3>1. "acted" \in TurnStatuses /\ Len(upd.turns) \in DOMAIN upd.turns
      BY <1>6, <2>1 DEF TurnStatuses
    <3> QED
      BY <1>6, <1>7, <2>1, <3>1, TurnMarked
  <2>2. CASE ~acted
    BY <1>6, <1>7, <2>2
  <2> QED
    BY <2>1, <2>2
<1> HIDE DEF w
<1>9. /\ st' \in StateT /\ Len(st'.res) = x - 1 /\ Prefix(st'.res, st'.art) /\ NoExec(st'.res)
      /\ \A s \in Steps : st'.art[s] # NoArt => st'.art[s] = st.art[s]
      /\ st'.turns = w.turns /\ st'.replans = Append(st.replans, rec) /\ st'.resume = st.resume
      /\ st'.rev = st.rev + 1 /\ st'.gen = st.gen
  <2>1. x <= Len(w.res) /\ x <= Len(w.res) + 1 /\ Prefix(w.res, w.art)
    BY <1>2, <1>6, <1>8 DEF Steps
  <2>2. LET u == Truncate(x, w) IN
        /\ u \in StateT /\ Len(u.res) = x - 1 /\ Prefix(u.res, u.art)
        /\ x <= Len(w.res) \/ NoExec(w.res) => NoExec(u.res)
        /\ \A s \in Steps : u.art[s] # NoArt => u.art[s] = w.art[s]
        /\ u.turns = w.turns /\ u.replans = w.replans /\ u.resume = w.resume /\ u.rev = w.rev /\ u.gen = w.gen
    BY <1>8, <2>1, TruncateOK
  <2> QED
    BY <1>5, <1>6, <1>8, <2>1, <2>2
<1>10. BasedTurns(st') = {} /\ TurnSnaps(st') = {}
  BY <1>8, <1>9 DEF BasedTurns, TurnSnaps
<1>11. /\ Baselines(st', count', req, snaps') /\ OpenReplans(st') = OpenReplans(st) \cup {n}
       /\ ReplanSnaps(st') = ReplanSnaps(st) \cup {base.snap}
       /\ DOMAIN st'.replans = DOMAIN st.replans \cup {n} /\ st'.replans[n] = rec
       /\ \A k \in DOMAIN st.replans : st'.replans[k] = st.replans[k]
  <2>1. /\ HasBase(rec) /\ rec.base.snap = base.snap /\ rec.base.snap \notin ReplanSnaps(st)
        /\ BaseOK(rec.base, rec.trig, st.resume.step, count', req, snaps')
    BY <1>3, <1>4 DEF HasBase
  <2>2. /\ Baselines(st', count', req, snaps') /\ OpenReplans(st') = OpenReplans(st) \cup {Len(st.replans) + 1}
        /\ ReplanSnaps(st') = ReplanSnaps(st) \cup {rec.base.snap}
        /\ DOMAIN st'.replans = DOMAIN st.replans \cup {Len(st.replans) + 1}
        /\ st'.replans[Len(st.replans) + 1] = rec
        /\ \A k \in DOMAIN st.replans : st'.replans[k] = st.replans[k]
    BY SMTT(30), <1>2, <1>3, <1>4, <1>9, <1>10, <2>1, ReplanOpened
  <2> QED
    BY <2>1, <2>2
<1>12. RepairRelease => OpenReplans(st) = {}
  BY <1>2, ReplanFound DEF Positions, OpenReplans
<1>13. Saved(st')
  <2>1. Len(st'.res) + 1 = x /\ x <= x /\ x <= Cur
    BY <1>2, <1>9 DEF Steps
  <2>2. ASSUME RepairRelease
        PROVE  /\ \A i, j \in OpenReplans(st') : i = j
               /\ \A i \in OpenReplans(st') : st'.replans[i].to <= x /\ x <= st'.replans[i].trig
               /\ \A i \in DOMAIN st'.replans : st'.replans[i].status = "scheduled" => HasBase(st'.replans[i])
    <3>1. OpenReplans(st') = {n} /\ HasBase(rec)
      BY <1>3, <1>4, <1>11, <1>12, <2>2 DEF HasBase
    <3>2. \A i \in DOMAIN st.replans : st.replans[i].status = "scheduled" => HasBase(st.replans[i])
      BY <1>2, <2>2 DEF Positions
    <3> QED
      BY <1>4, <1>11, <2>1, <3>1, <3>2
  <2>3. \A i \in DOMAIN st'.replans : st'.replans[i].to < st'.replans[i].trig
    BY <1>2, <1>4, <1>11 DEF Positions
  <2> HIDE DEF n
  <2>4. Positions(st', x)
    BY <1>1, <1>10, <2>2, <2>3 DEF Positions
  <2> QED
    BY <1>9, <1>10, <2>1, <2>4 DEF Saved
<1> QED
  BY <1>1, <1>3, <1>9, <1>10, <1>11, <1>13, SnapshotSavable

(* Within is transitive.                                                   *)
LEMMA WithinStep ==
  ASSUME NEW u, NEW v, NEW t, Within(u, v), Within(v, t)
  PROVE  Within(u, t)
  BY DEF Within

(* Nothing can be scheduled: the candidate is rolled back, or the run      *)
(* stops with what it has.                                                 *)
LEMMA GiveUpKeeps ==
  ASSUME RunnerConstants, RunnerInv, pc = "decide", NEW t \in StateT,
         Within(t, st), BasedTurns(t) = {}, t.replans = st.replans, t.res = st.res, t.art = st.art,
         t.resume = st.resume, t.rev = st.rev, t.gen = st.gen,
         GiveUp(t), UNCHANGED <<ck, until, tries, req, count>>
  PROVE  RunnerInv'
<1> DEFINE p == PendingReplan(t, Cur)
           a == ActiveReplan(t, Cur)
           k == Len(t.turns)
           t1 == IF p # 0 /\ p # a THEN MarkedReplan(t, p, "exhausted") ELSE t
           stat == IF t1.turns[k].action = "ask" THEN "awaiting_human" ELSE "exhausted"
           t2 == IF k > 0 /\ t1.turns[k].status = "planned" THEN MarkedTurn(t1, k, stat) ELSE t1
<1>1. Executed /\ ~DraftFirst
  BY DEF Executed, RunnerInv, StateInv, Active
<1>2. IF a # 0 /\ HasBase(t2.replans[a]) THEN Reject(t2, a)
      ELSE /\ st' = t2 /\ SaveThen("idle") /\ UNCHANGED <<files, snaps>>
  BY DEF GiveUp, MarkedReplan, MarkedTurn
<1>3. st \in StateT /\ Positions(st, Cur) /\ Settled(st, count, req, snaps) /\ st.resume.step = req.step
      /\ Cur \in Steps /\ Cur \in Nat
  BY <1>1, ExecutedFacts DEF Steps
<1>4. Positions(t, Cur)
  BY <1>3, PositionsWithin
<1>5. /\ p # 0 => p \in DOMAIN t.replans
      /\ a # 0 => a \in DOMAIN t.replans /\ t.replans[a].status = "scheduled" /\ Cur <= t.replans[a].trig
      /\ a = 0 => \A j \in DOMAIN t.replans :
           t.replans[j].status = "scheduled" => ~(t.replans[j].to <= Cur /\ Cur <= t.replans[j].trig)
  BY ReplanFound
<1> HIDE DEF p, a
<1>6. /\ t1 \in StateT /\ Within(t1, t) /\ t1.turns = t.turns /\ DOMAIN t1.replans = DOMAIN t.replans
      /\ \A n \in DOMAIN t.replans :
           /\ t1.replans[n].to = t.replans[n].to /\ t1.replans[n].trig = t.replans[n].trig
           /\ t1.replans[n].status = "scheduled" => t1.replans[n] = t.replans[n]
      /\ a # 0 => t1.replans[a] = t.replans[a]
      /\ t1.res = t.res /\ t1.art = t.art /\ t1.resume = t.resume /\ t1.rev = t.rev /\ t1.gen = t.gen
  <2>1. CASE p # 0 /\ p # a
    <3>1. p \in DOMAIN t.replans /\ "exhausted" \in ReplanStatuses /\ "exhausted" # "scheduled" /\ t1 = MarkedReplan(t, p, "exhausted")
      BY <1>5, <2>1 DEF ReplanStatuses
    <3> HIDE DEF t1
    <3>2. /\ t1 \in StateT /\ Within(t1, t) /\ t1.turns = t.turns
          /\ DOMAIN t1.replans = DOMAIN t.replans /\ t1.replans[p].status = "exhausted"
          /\ \A n \in DOMAIN t.replans : t1.replans[n].to = t.replans[n].to /\ t1.replans[n].trig = t.replans[n].trig
          /\ \A n \in DOMAIN t.replans : n # p => t1.replans[n] = t.replans[n]
          /\ t1.res = t.res /\ t1.art = t.art /\ t1.resume = t.resume /\ t1.rev = t.rev /\ t1.gen = t.gen
      BY <3>1, ReplanGivenUp
    <3> QED
      BY <1>5, <2>1, <3>1, <3>2
  <2>2. CASE ~(p # 0 /\ p # a)
    <3>1. Within(t, t) /\ t1 = t
      BY <2>2, SameHistories
    <3> HIDE DEF t1
    <3> QED
      BY <3>1
  <2> QED
    BY <2>1, <2>2
<1> HIDE DEF t1
<1>7. BasedTurns(t1) = {}
  BY SMTT(30), <1>6 DEF BasedTurns
<1>8. /\ t2 \in StateT /\ BasedTurns(t2) = {} /\ Within(t2, t1) /\ t2.replans = t1.replans
      /\ t2.res = t1.res /\ t2.art = t1.art /\ t2.resume = t1.resume /\ t2.rev = t1.rev /\ t2.gen = t1.gen
  <2>1. CASE k > 0 /\ t1.turns[k].status = "planned"
    <3>1. k \in DOMAIN t1.turns /\ stat \in TurnStatuses
      BY <1>6, <2>1 DEF TurnStatuses, StateT
    <3> HIDE DEF k, stat
    <3> QED
      BY <1>6, <1>7, <2>1, <3>1, TurnMarked
  <2>2. CASE ~(k > 0 /\ t1.turns[k].status = "planned")
    <3>1. Within(t1, t1) /\ t2 = t1
      BY <2>2, SameHistories
    <3> QED
      BY <1>6, <1>7, <3>1
  <2> QED
    BY <2>1, <2>2
<1> HIDE DEF t2
<1>9. Within(t2, st)
  BY <1>6, <1>8, WithinStep
<1>10. Positions(t2, Cur) /\ OpenReplans(t2) \subseteq OpenReplans(t)
  BY <1>4, <1>6, <1>8, PositionsWithin
<1>11. CASE a # 0 /\ HasBase(t2.replans[a])
  <2>1. a \in OpenReplans(t2) /\ Cur <= t2.replans[a].trig
    BY SMTT(30), <1>5, <1>6, <1>8, <1>11 DEF OpenReplans
  <2> QED
    BY <1>1, <1>2, <1>6, <1>8, <1>9, <1>10, <1>11, <2>1, RejectKeeps
<1>12. CASE ~(a # 0 /\ HasBase(t2.replans[a]))
  <2>1. st' = t2 /\ pc' = "save" /\ after' = "idle" /\ UNCHANGED <<files, snaps>>
    BY <1>2, <1>12 DEF SaveThen
  <2>2. RepairRelease => OpenReplans(t2) = {}
    <3>1. ASSUME RepairRelease, NEW i \in OpenReplans(t2) PROVE FALSE
      <4>1. i \in DOMAIN t.replans /\ t.replans[i].status = "scheduled" /\ t.replans[i].to <= Cur /\ Cur <= t.replans[i].trig
        BY <1>4, <1>10, <3>1 DEF Positions, OpenReplans
      <4>2. a # 0
        BY <1>5, <4>1
      <4>3. HasBase(t.replans[a])
        BY <1>4, <1>5, <3>1, <4>2 DEF Positions
      <4>4. t2.replans[a] = t.replans[a]
        BY <1>6, <1>8, <4>2
      <4> QED
        BY <1>12, <4>2, <4>3, <4>4
    <3> QED
      BY <3>1
  <2>3. Positions(t2, Cur + 1)
    BY <1>3, <1>8, <1>10, <2>2, PositionsNext
  <2>4. Saved(t2)
    <3>1. t2.res = st.res /\ Cur = Len(st.res)
      BY <1>6, <1>8 DEF Cur
    <3> HIDE DEF Cur
    <3> QED
      BY <1>8, <2>2, <2>3, <3>1 DEF Saved
  <2>5. /\ Settled(t2, count, req, snaps)
        /\ TurnSnaps(t2) \subseteq TurnSnaps(st) /\ ReplanSnaps(t2) \subseteq ReplanSnaps(st)
    BY <1>3, <1>6, <1>8, <1>9, SettledWithin DEF Settled
  <2>6. WorldTypes(files', snaps', count') /\ Later(count, snaps, count', snaps')
    BY <2>1, WorldSame, WorldCounts DEF RunnerInv, CountT, RunnerTypes
  <2>7. t2.gen = ck.gen /\ (ck.rev < t2.rev \/ (ck.rev = t2.rev /\ Len(ck.res) <= Len(t2.res)))
    <3>1. /\ ck.rev < st.rev \/ (ck.rev = st.rev /\ Len(ck.res) <= Cur - 1)
          /\ st.gen = ck.gen /\ Len(ck.res) \in Nat
      BY <1>1, ExecutedFacts
    <3>2. Len(t2.res) = Cur /\ t2.rev = st.rev /\ t2.gen = st.gen
      BY <1>6, <1>8 DEF Cur
    <3> QED
      BY <1>3, <3>1, <3>2
  <2>8. "undone" \notin CrashPoints =>
          /\ Matches(t2.art, files)
          /\ TurnSnaps(t2) \cup ReplanSnaps(t2) \subseteq DOMAIN snaps
          /\ TurnSnaps(ck) \cup ReplanSnaps(ck) \subseteq DOMAIN snaps => Agrees(ck, req, files)
    BY <1>1, <1>6, <1>8, <2>5, ExecutedFiles
  <2>9. Savable(st', files', snaps', count')
    BY <1>3, <1>6, <1>8, <2>1, <2>4, <2>5, <2>7, <2>8 DEF Savable
  <2> QED
    BY <2>1, <2>6, <2>9, ToSave
<1> QED
  BY <1>11, <1>12

(* One decision on a failed gate.                                          *)
LEMMA RecoverKeeps ==
  ASSUME RunnerConstants, RunnerInv, NEW proposal \in Proposals, NEW hint \in Hints, NEW same \in BOOLEAN,
         Recover(proposal, hint, same)
  PROVE  RunnerInv'
<1> DEFINE d == Decision(proposal, hint)
           stag == Stagnant(d, same)
           stat == IF stag THEN "exhausted" ELSE "planned"
           e == Turn(d, stat, NoBase)
           t == IF AgenticBudget THEN AddedTurn(st, e) ELSE st
           x == IF ~AgenticBudget THEN (IF ActiveReplan(st, Cur) # 0 \/ Res.kind = "external" THEN 0 ELSE hint)
                ELSE IF d[1] = "replan" /\ ~stag THEN d[2] ELSE 0
           local == AgenticBudget /\ ~stag /\ d[1] \in {"local", "retry"}
<1>1. pc = "decide" /\ UNCHANGED <<ck, until, tries, req>>
  BY DEF Recover
<1>2. \/ /\ local
         /\ st' = LocalState(d) /\ Snapshot /\ SaveThen("loop") /\ count' = [count EXCEPT !.snap = @ + 1]
         /\ UNCHANGED files
      \/ /\ CanReplan(x)
         /\ st' = ReplanState(t, x, AgenticBudget) /\ Snapshot /\ SaveThen("loop")
         /\ count' = [count EXCEPT !.snap = @ + 1] /\ UNCHANGED files
      \/ GiveUp(t) /\ UNCHANGED count
  BY DEF Recover, AddedTurn
<1>3. Executed /\ BasedTurns(st) = {}
  BY <1>1 DEF Executed, RunnerInv, StateInv, Active
<1>4. d[1] \in Actions /\ d[2] \in 0 .. N /\ (d[1] = "replan" => d[2] \in AllowedTargets)
  BY <1>3, DecisionOK
<1>5. AgenticBudget \in BOOLEAN /\ st \in StateT
  BY <1>3, ExecutedFacts DEF AgenticBudget
<1> HIDE DEF d, stag
<1>6. e \in TurnT /\ e.base = NoBase
  <2>1. stat \in TurnStatuses
    BY DEF TurnStatuses
  <2> HIDE DEF stat
  <2> QED
    BY <1>3, <1>4, <2>1, TurnTyped
<1> HIDE DEF e
<1>7. /\ t \in StateT /\ BasedTurns(t) = {} /\ Within(t, st) /\ t.replans = st.replans
      /\ AgenticBudget => Len(t.turns) \in DOMAIN t.turns
      /\ t.res = st.res /\ t.art = st.art /\ t.resume = st.resume /\ t.rev = st.rev /\ t.gen = st.gen
  <2>1. CASE AgenticBudget
    BY <1>3, <1>5, <1>6, <2>1, TurnAdded
  <2>2. CASE ~AgenticBudget
    BY <1>3, <1>5, <2>2, SameHistories
  <2> QED
    BY <2>1, <2>2
<1>8. CanReplan(x) => x \in Steps /\ x < Cur /\ ActiveReplan(st, Cur) = 0
  <2>1. CanReplan(x) => x # 0 /\ x < Cur
    BY DEF CanReplan
  <2>2. CASE ~AgenticBudget
    BY <2>1, <2>2 DEF Hints, Steps, RunnerConstants
  <2>3. CASE AgenticBudget
    BY <1>3, <1>4, <2>1, <2>3, TargetsBelow
  <2> QED
    BY <2>2, <2>3
<1> HIDE DEF t, x
<1>9. CASE local /\ st' = LocalState(d) /\ Snapshot /\ SaveThen("loop") /\ count' = [count EXCEPT !.snap = @ + 1]
           /\ UNCHANGED files
  BY <1>1, <1>4, <1>9, LocalKeeps DEF SaveThen
<1>10. CASE CanReplan(x) /\ st' = ReplanState(t, x, AgenticBudget) /\ Snapshot /\ SaveThen("loop")
            /\ count' = [count EXCEPT !.snap = @ + 1] /\ UNCHANGED files
  BY <1>1, <1>5, <1>7, <1>8, <1>10, ReplanKeeps DEF SaveThen
<1>11. CASE GiveUp(t) /\ UNCHANGED count
  BY <1>1, <1>7, <1>11, GiveUpKeeps
<1> QED
  BY <1>2, <1>9, <1>10, <1>11

(* Writing the checkpoint: it is never refused, and what was true of the   *)
(* state in memory is true of the file.                                    *)
LEMMA SaveKeeps ==
  ASSUME RunnerConstants, RunnerInv, Save
  PROVE  RunnerInv'
<1> DEFINE c == [st EXCEPT !.gen = ck.gen + 1]
<1>1. /\ pc = "save" /\ Active /\ UNCHANGED <<files, snaps, until, tries, after, req, count>>
      /\ IF Refuses(st, ck) THEN pc' = "refused" /\ UNCHANGED <<st, ck>>
         ELSE ck' = c /\ st' = (IF after = "idle" THEN Fresh ELSE ck') /\ pc' = after
  BY DEF Save, Active
<1>2. /\ st \in StateT /\ ck \in StateT /\ after \in {"idle", "loop"}
      /\ ck.gen \in Nat /\ st.gen \in Nat /\ ck.rev \in Nat /\ st.rev \in Nat /\ Len(st.res) \in Nat /\ Len(ck.res) \in Nat
  BY DEF RunnerInv, RunnerTypes, StateT
<1>3. /\ st.gen = ck.gen /\ (ck.rev < st.rev \/ (ck.rev = st.rev /\ Len(ck.res) <= Len(st.res)))
  BY <1>1 DEF RunnerInv, LineageInv, Executed
<1>4. /\ Settled(st, count, req, snaps) /\ Saved(st) /\ st.resume.step = req.step /\ (after = "loop" => NoExec(st.res))
  BY <1>1 DEF RunnerInv, StateInv
<1>5. ~Refuses(st, ck)
  BY <1>2, <1>3 DEF Refuses
<1>6. /\ c \in StateT /\ c.turns = st.turns /\ c.replans = st.replans /\ c.res = st.res /\ c.art = st.art
      /\ c.resume = st.resume /\ c.rev = st.rev /\ c.gen = ck.gen + 1 /\ c.gen > 0
  <2>1. ck.gen + 1 \in Nat /\ ck.gen + 1 > 0
    BY <1>2
  <2>2. \A g \in Nat : LET f == [st EXCEPT !.gen = g] IN
          /\ f \in StateT /\ f.turns = st.turns /\ f.replans = st.replans /\ f.res = st.res /\ f.art = st.art
          /\ f.resume = st.resume /\ f.rev = st.rev /\ f.gen = g
    BY <1>2 DEF StateT
  <2> QED
    BY <2>1, <2>2
<1>7. ck' = c /\ st' = (IF after = "idle" THEN Fresh ELSE c) /\ pc' = after
  BY <1>1, <1>5
<1> HIDE DEF c
<1>8. /\ BasedTurns(c) = BasedTurns(st) /\ OpenReplans(c) = OpenReplans(st)
      /\ TurnSnaps(c) = TurnSnaps(st) /\ ReplanSnaps(c) = ReplanSnaps(st)
      /\ \A k : Positions(c, k) <=> Positions(st, k)
      /\ Within(c, st)
  BY <1>6, SameHistories
<1>9. Settled(c, count, req, snaps) /\ Saved(c)
  <2>1. Settled(c, count, req, snaps)
    BY <1>4, <1>6, <1>8, SettledWithin DEF Settled
  <2>2. Saved(c)
    BY <1>4, <1>6, <1>8 DEF Saved
  <2> QED
    BY <2>1, <2>2
<1>10. Fresh \in StateT
  BY FreshOK
<1>11. RunnerTypes'
  BY <1>1, <1>2, <1>6, <1>7, <1>10 DEF RunnerInv, RunnerTypes
<1>12. CheckpointInv'
  BY <1>1, <1>4, <1>6, <1>7, <1>9 DEF RunnerInv, CheckpointInv
<1>13. StateInv'
  BY <1>1, <1>2, <1>4, <1>6, <1>7, <1>9 DEF StateInv, Active, Executed
<1>14. LineageInv'
  BY <1>1, <1>2, <1>6, <1>7 DEF LineageInv, Active, Executed
<1>15. FilesInv'
  <2>1. ASSUME "undone" \notin CrashPoints
        PROVE  Matches(c.art, files) /\ TurnSnaps(c) \cup ReplanSnaps(c) \subseteq DOMAIN snaps
    BY <1>1, <1>6, <1>8, <2>1 DEF RunnerInv, FilesInv
  <2>2. ASSUME "undone" \notin CrashPoints PROVE Agrees(c, req, files)
    BY <2>1, <2>2 DEF Agrees, Matches
  <2> QED
    BY <1>1, <1>2, <1>7, <2>1, <2>2 DEF FilesInv, Active
<1> QED
  BY <1>2, <1>7, <1>11, <1>12, <1>13, <1>14, <1>15 DEF RunnerInv, ResumeAdmitted

(* The step a checkpoint is continued from: at most the one after its      *)
(* prefix, and everything before it has executed.                          *)
LEMMA ExpectedOK ==
  ASSUME RunnerConstants, NEW c \in StateT, Prefix(c.res, c.art)
  PROVE  /\ ExpectedResume(c) \in Steps /\ ExpectedResume(c) <= Len(c.res) + 1 /\ Len(c.res) <= N /\ Len(c.res) \in Nat
         /\ \A i \in 1 .. Len(c.res) : c.res[i].exec => ExpectedResume(c) <= i
<1> DEFINE bad == {i \in DOMAIN c.res : Blocked(c.res[i]) \/ c.res[i].exec}
           least == CHOOSE i \in bad : \A j \in bad : i <= j
<1>1. c.res \in Seq(ResultT) /\ Len(c.res) \in Nat /\ DOMAIN c.res = 1 .. Len(c.res) /\ N \in Nat /\ N > 0
  BY DEF StateT, RunnerConstants
<1>2. Len(c.res) <= N
  <2>1. CASE Len(c.res) = 0
    BY <1>1, <2>1
  <2>2. CASE Len(c.res) # 0
    <3>1. Len(c.res) \in 1 .. Len(c.res)
      BY <1>1, <2>2
    <3>2. c.res[Len(c.res)] \in ResultT /\ c.res[Len(c.res)].step = Len(c.res)
      BY <1>1, <3>1 DEF Prefix
    <3>3. Len(c.res) \in Steps
      BY <3>2 DEF ResultT
    <3> QED
      BY <1>1, <3>3 DEF Steps
  <2> QED
    BY <2>1, <2>2
<1>3. bad # {} => least \in bad /\ \A j \in bad : least <= j
  <2>1. bad \in SUBSET Nat
    BY <1>1
  <2>2. bad # {} => \E i \in bad : \A j \in bad : i <= j
    BY <2>1, LeastNumber
  <2> QED
    BY <2>2
<1>4. bad \subseteq 1 .. Len(c.res) /\ \A i \in 1 .. Len(c.res) : c.res[i].exec => i \in bad
  BY <1>1
<1>5. ExpectedResume(c) = IF bad # {} THEN least ELSE IF Len(c.res) < N THEN Len(c.res) + 1 ELSE N
  BY DEF ExpectedResume
<1> HIDE DEF bad, least
<1>6. CASE bad # {}
  <2>1. least \in 1 .. Len(c.res) /\ ExpectedResume(c) = least
    BY <1>3, <1>4, <1>5, <1>6
  <2>2. least \in Steps /\ least <= Len(c.res) + 1
    BY <1>1, <1>2, <2>1 DEF Steps
  <2> QED
    BY <1>1, <1>2, <1>3, <1>4, <1>6, <2>1, <2>2
<1>7. CASE bad = {}
  <2>1. ExpectedResume(c) = IF Len(c.res) < N THEN Len(c.res) + 1 ELSE N
    BY <1>5, <1>7
  <2>2. ExpectedResume(c) \in Steps /\ ExpectedResume(c) <= Len(c.res) + 1
    BY <1>1, <1>2, <2>1 DEF Steps
  <2> QED
    BY <1>1, <1>2, <1>4, <1>7, <2>2
<1> QED
  BY <1>6, <1>7

(* A continuation is requested: the new token is newer than every token of *)
(* the checkpoint.                                                         *)
LEMMA ContinueKeeps ==
  ASSUME RunnerConstants, RunnerInv, Continue
  PROVE  RunnerInv'
<1> DEFINE s == ExpectedResume(ck)
<1>1. /\ pc = "idle" /\ ck.gen > 0 /\ req' = [step |-> s, tok |-> count.tok + 1]
      /\ count' = [count EXCEPT !.tok = @ + 1]
      /\ UNCHANGED <<pc, st, ck, files, snaps, until, tries, after>>
  BY DEF Continue
<1>2. /\ ck \in StateT /\ count \in CountT /\ count.tok \in Nat /\ count.snap \in Nat /\ req \in ResumeT
      /\ Settled(ck, count, req, snaps) /\ Saved(ck) /\ req.tok = count.tok
  BY WorldCounts DEF RunnerInv, RunnerTypes, CheckpointInv, CountT
<1>3. s \in Steps
  BY <1>2, ExpectedOK DEF Settled
<1> HIDE DEF s
<1>4. count' \in CountT /\ count'.tok = count.tok + 1 /\ count'.snap = count.snap /\ count'.launch = count.launch
  BY <1>1, <1>2 DEF CountT
<1>5. req' \in ResumeT /\ req'.tok = count'.tok /\ req'.step = s
  BY <1>1, <1>2, <1>3, <1>4 DEF ResumeT, Steps
<1>6. \A r \in ResumeT : Known(r, count, req) => Known(r, count', req') /\ r # req'
  BY <1>2, <1>4, <1>5 DEF Known, ResumeT
<1>7. Settled(ck, count', req', snaps)
  <2>1. \A x : \A b \in BaseT : BaseOK(b, x, ck.resume.step, count, req, snaps) => BaseOK(b, x, ck.resume.step, count', req', snaps)
    <3>1. \A b \in BaseT : b.resume \in ResumeT
      BY DEF BaseT
    <3> QED
      BY <1>4, <1>6, <3>1 DEF BaseOK
  <2>2. \A i \in BasedTurns(ck) : ck.turns[i].base \in BaseT
    <3>1. \A i \in DOMAIN ck.turns : ck.turns[i] \in TurnT
      BY <1>2 DEF StateT
    <3>2. \A r \in TurnT : r.base \in BaseT \cup {NoBase}
      BY DEF TurnT
    <3> QED
      BY <3>1, <3>2 DEF BasedTurns, HasBase
  <2>3. \A i \in OpenReplans(ck) : ck.replans[i].base \in BaseT
    <3>1. \A i \in DOMAIN ck.replans : ck.replans[i] \in ReplanT
      BY <1>2 DEF StateT
    <3>2. \A r \in ReplanT : r.base \in BaseT \cup {NoBase}
      BY DEF ReplanT
    <3> QED
      BY <3>1, <3>2 DEF OpenReplans, HasBase
  <2>4. Baselines(ck, count', req', snaps)
    BY <1>2, <2>1, <2>2, <2>3 DEF Settled, Baselines
  <2>5. ck.resume \in ResumeT
    BY <1>2 DEF StateT
  <2> QED
    BY <1>2, <1>6, <2>4, <2>5 DEF Settled
<1>8. CheckpointInv'
  BY <1>1, <1>2, <1>3, <1>5, <1>7 DEF CheckpointInv, s
<1>9. RunnerTypes'
  BY <1>1, <1>4, <1>5 DEF RunnerInv, RunnerTypes, CountT
<1>10. FilesInv'
  <2>1. ASSUME "undone" \notin CrashPoints, Agrees(ck, req, files) PROVE Agrees(ck, req', files)
    <3>1. ck.resume # req'
      BY <1>2, <1>6 DEF Settled, StateT
    <3> QED
      BY <1>5, <2>1, <3>1 DEF Agrees, Redoes, s
  <2> QED
    BY <1>1, <2>1 DEF RunnerInv, FilesInv, Active
<1> QED
  BY <1>1, <1>8, <1>9, <1>10 DEF RunnerInv, StateInv, LineageInv, Active, Executed, ResumeAdmitted

(* A state with other results, artifacts, candidates and histories.        *)
Rebuilt(c, res, art, cand, replans, turns) ==
  [c EXCEPT !.res = res, !.art = art, !.cand = cand, !.replans = replans, !.turns = turns]

(* A state put together by the loader.                                     *)
LEMMA RebuiltOK ==
  ASSUME NEW c \in StateT, NEW res \in Seq(ResultT), NEW art \in ArtMap, NEW cand \in ArtMap,
         NEW replans \in Seq(ReplanT), NEW turns \in Seq(TurnT)
  PROVE  LET u == Rebuilt(c, res, art, cand, replans, turns) IN
         /\ u \in StateT /\ u.res = res /\ u.art = art /\ u.cand = cand /\ u.replans = replans /\ u.turns = turns
         /\ u.rev = c.rev /\ u.gen = c.gen /\ u.resume = c.resume
  BY DEF Rebuilt, StateT

(* The histories a continuation keeps are parts of the checkpoint's, about *)
(* steps before the one continued.                                         *)
ReplanParts(replans, s) ==
  /\ ReplansBefore(replans, s) \in Seq(ReplanT)
  /\ \A k \in DOMAIN ReplansBefore(replans, s) : \E j \in DOMAIN replans :
       replans[j].trig < s /\ ReplansBefore(replans, s)[k] = replans[j]
TurnParts(turns, s) ==
  /\ TurnsBefore(turns, s) \in Seq(TurnT)
  /\ \A k \in DOMAIN TurnsBefore(turns, s) : \E j \in DOMAIN turns :
       turns[j].step < s /\ TurnsBefore(turns, s)[k] = turns[j]

(* What the loader keeps of the histories is a sublist of records that are *)
(* all about earlier steps.                                                *)
LEMMA HistoriesCut ==
  ASSUME NEW replans \in Seq(ReplanT), NEW turns \in Seq(TurnT), NEW s
  PROVE  ReplanParts(replans, s) /\ TurnParts(turns, s)
<1> DEFINE keepR == {i \in DOMAIN replans : replans[i].trig < s /\ replans[i].to < s}
           keepT == {i \in DOMAIN turns : turns[i].step < s /\ turns[i].target < s}
<1>1. /\ Select(replans, keepR) \in Seq(ReplanT)
      /\ \A k \in 1 .. Len(Select(replans, keepR)) :
           \E j \in DOMAIN replans : j \in keepR /\ Select(replans, keepR)[k] = replans[j]
  <2> HIDE DEF keepR
  <2> QED
    BY SelectElements
<1>2. /\ Select(turns, keepT) \in Seq(TurnT)
      /\ \A k \in 1 .. Len(Select(turns, keepT)) :
           \E j \in DOMAIN turns : j \in keepT /\ Select(turns, keepT)[k] = turns[j]
  <2> HIDE DEF keepT
  <2> QED
    BY SelectElements
<1>3. ReplansBefore(replans, s) = Select(replans, keepR) /\ TurnsBefore(turns, s) = Select(turns, keepT)
  BY DEF ReplansBefore, TurnsBefore
<1>4. /\ DOMAIN Select(replans, keepR) = 1 .. Len(Select(replans, keepR))
      /\ DOMAIN Select(turns, keepT) = 1 .. Len(Select(turns, keepT))
  <2> HIDE DEF keepR, keepT
  <2> QED
    BY <1>1, <1>2
<1>5. \A j : (j \in keepR => replans[j].trig < s) /\ (j \in keepT => turns[j].step < s)
  OBVIOUS
<1> HIDE DEF keepR, keepT
<1> QED
  BY <1>1, <1>2, <1>3, <1>4, <1>5 DEF ReplanParts, TurnParts

(* Revalidation keeps the longest prefix before the step continued and     *)
(* before a result that records an error of the execution.                 *)
LEMMA RestoreFacts ==
  ASSUME RunnerConstants, NEW c \in StateT, Prefix(c.res, c.art), NEW invalid \in 0 .. N
  PROVE  LET b == RestoreState(c, invalid) m == Len(b.res) IN
         /\ b \in StateT /\ m \in Nat /\ m <= Len(c.res) /\ Prefix(b.res, b.art) /\ NoExec(b.res)
         /\ \A s \in Steps : b.art[s] # NoArt => s <= m /\ b.art[s] = c.art[s]
         /\ \A i \in 1 .. m : i # invalid /\ ~c.res[i].exec
         /\ m < Len(c.res) => m + 1 = invalid \/ c.res[m + 1].exec
         /\ b.rev = c.rev /\ b.gen = c.gen /\ b.resume = c.resume
         /\ b.replans = (IF invalid = 0 THEN c.replans ELSE ReplansBefore(c.replans, invalid))
         /\ b.turns = (IF invalid = 0 THEN c.turns ELSE TurnsBefore(c.turns, invalid))
<1> DEFINE cut == {i \in DOMAIN c.res : i = invalid \/ ~Readmitted(c.res[i], c)}
           least == CHOOSE i \in cut : \A j \in cut : i <= j
           m == IF cut = {} THEN Len(c.res) ELSE least - 1
           next == m + 1
           one == IF next > N \/ next = invalid THEN NoArt
                  ELSE IF next <= Len(c.res) /\ c.art[next] # NoArt THEN c.art[next]
                  ELSE c.cand[next]
           res == SubSeq(c.res, 1, m)
           art == [s \in Steps |-> IF s <= m THEN c.art[s] ELSE NoArt]
           cand == [s \in Steps |-> IF s = next THEN one ELSE NoArt]
           replans == IF invalid = 0 THEN c.replans ELSE ReplansBefore(c.replans, invalid)
           turns == IF invalid = 0 THEN c.turns ELSE TurnsBefore(c.turns, invalid)
<1>1. RestoreState(c, invalid) = Rebuilt(c, res, art, cand, replans, turns)
  BY DEF RestoreState, Rebuilt
<1>2. /\ c.res \in Seq(ResultT) /\ Len(c.res) \in Nat /\ DOMAIN c.res = 1 .. Len(c.res) /\ Len(c.res) <= N
      /\ c.art \in ArtMap /\ c.cand \in ArtMap /\ c.replans \in Seq(ReplanT) /\ c.turns \in Seq(TurnT) /\ N \in Nat
  BY ExpectedOK DEF StateT, RunnerConstants
<1>3. \A i \in 1 .. Len(c.res) : i \in cut <=> i = invalid \/ c.res[i].exec
  BY <1>2 DEF Readmitted, Prefix
<1>4. cut \subseteq 1 .. Len(c.res)
  BY <1>2
<1>5. cut # {} => least \in cut /\ \A j \in cut : least <= j
  <2>1. cut \in SUBSET Nat
    BY <1>4
  <2>2. cut # {} => \E i \in cut : \A j \in cut : i <= j
    BY <2>1, LeastNumber
  <2> QED
    BY <2>2
<1> HIDE DEF cut, least
<1>6. /\ m \in Nat /\ m <= Len(c.res)
      /\ \A i \in 1 .. m : i \in 1 .. Len(c.res) /\ i \notin cut
      /\ m < Len(c.res) => m + 1 \in cut /\ m + 1 \in 1 .. Len(c.res)
  <2>1. CASE cut = {}
    BY <1>2, <2>1
  <2>2. CASE cut # {}
    <3>1. least \in 1 .. Len(c.res) /\ m = least - 1
      BY <1>4, <1>5, <2>2
    <3>2. m \in Nat /\ m <= Len(c.res) /\ m + 1 = least
      BY <1>2, <3>1
    <3>3. \A i \in 1 .. m : i \in 1 .. Len(c.res) /\ ~(least <= i)
      BY <1>2, <3>1
    <3> HIDE DEF m
    <3> QED
      BY <1>5, <2>2, <3>1, <3>2, <3>3
  <2> QED
    BY <2>1, <2>2
<1> HIDE DEF m
<1>7. \A i \in 1 .. m : i # invalid /\ ~c.res[i].exec /\ c.art[i] # NoArt
  BY <1>3, <1>6 DEF Prefix
<1>8. m < Len(c.res) => m + 1 = invalid \/ c.res[m + 1].exec
  BY <1>3, <1>6
<1>9. res \in Seq(ResultT) /\ Len(res) = m /\ \A i \in 1 .. m : res[i] = c.res[i]
  <2>1. \A i \in 1 .. m : c.res[i] \in ResultT
    BY <1>2, <1>6
  <2>2. m \in Int /\ (1 <= m => m - 1 + 1 = m) /\ (~(1 <= m) => m = 0) /\ m - 1 + 1 = m
    BY <1>6
  <2>3. \A i \in 1 .. m : 1 + i - 1 = i
    BY <1>6
  <2>4. /\ SubSeq(c.res, 1, m) \in Seq(ResultT)
        /\ Len(SubSeq(c.res, 1, m)) = IF 1 <= m THEN m - 1 + 1 ELSE 0
        /\ \A i \in 1 .. m - 1 + 1 : SubSeq(c.res, 1, m)[i] = c.res[1 + i - 1]
    BY <2>1, <2>2, SubSeqProperties
  <2> QED
    BY <2>2, <2>3, <2>4
<1>10. /\ art \in ArtMap /\ \A i \in 1 .. m : art[i] = c.art[i]
       /\ \A s \in Steps : art[s] # NoArt => s <= m /\ art[s] = c.art[s]
  <2>1. NoArt \in ArtOrNone
    BY DEF ArtOrNone
  <2>2. art \in ArtMap
    BY <1>2, <2>1 DEF ArtMap
  <2>3. \A i \in 1 .. m : i \in Steps /\ i <= m
    BY <1>2, <1>6 DEF Steps
  <2> QED
    BY <2>2, <2>3
<1>11. cand \in ArtMap
  <2>1. NoArt \in ArtOrNone /\ next \in Nat /\ next > 0
    BY <1>6 DEF ArtOrNone
  <2>2. next <= N => next \in Steps
    BY <1>2, <2>1 DEF Steps
  <2>3. one \in ArtOrNone
    BY <1>2, <2>1, <2>2 DEF ArtMap
  <2> HIDE DEF one
  <2> QED
    BY <2>1, <2>3 DEF ArtMap
<1>12. replans \in Seq(ReplanT) /\ turns \in Seq(TurnT)
  BY <1>2, HistoriesCut DEF ReplanParts, TurnParts
<1> HIDE DEF res, art, cand, replans, turns
<1>13. LET u == Rebuilt(c, res, art, cand, replans, turns) IN
       /\ u \in StateT /\ u.res = res /\ u.art = art /\ u.cand = cand /\ u.replans = replans /\ u.turns = turns
       /\ u.rev = c.rev /\ u.gen = c.gen /\ u.resume = c.resume
  BY <1>9, <1>10, <1>11, <1>12, RebuiltOK
<1>14. Prefix(res, art) /\ NoExec(res)
  <2>1. \A i \in 1 .. m : ~res[i].exec /\ art[i] # NoArt /\ res[i].step = i
    BY <1>6, <1>7, <1>9, <1>10 DEF Prefix
  <2> QED
    BY <1>9, <1>10, <2>1 DEF Prefix, NoExec
<1> QED
  BY <1>1, <1>6, <1>7, <1>8, <1>9, <1>10, <1>13, <1>14 DEF replans, turns

(* Replans that cannot be resumed are retired: none when releases are      *)
(* repaired, and every scheduled one otherwise.                            *)
Deferred(r) == [r EXCEPT !.status = "deferred", !.base = NoBase]

(* A draft pipeline retires the candidates it finds open; a repairing one  *)
(* keeps its only one.                                                     *)
LEMMA RetiredOK ==
  ASSUME RunnerConstants, NEW t \in StateT,
         RepairRelease => /\ \A i, j \in OpenReplans(t) : i = j
                          /\ \A i \in DOMAIN t.replans : t.replans[i].status = "scheduled" => HasBase(t.replans[i])
  PROVE  LET u == Retired(t) IN
         /\ u \in StateT /\ u.turns = t.turns
         /\ u.res = t.res /\ u.art = t.art /\ u.resume = t.resume /\ u.rev = t.rev /\ u.gen = t.gen
         /\ DOMAIN u.replans = DOMAIN t.replans
         /\ \A i \in DOMAIN t.replans : u.replans[i].to = t.replans[i].to /\ u.replans[i].trig = t.replans[i].trig
         /\ RepairRelease => u.replans = t.replans /\ RetiredSnaps(t) = {}
         /\ ~RepairRelease => OpenReplans(u) = {} /\ RetiredSnaps(t) \subseteq ReplanSnaps(t)
<1> DEFINE u == Retired(t)
           durable == Latest(OpenReplans(t))
           retire(i) == /\ t.replans[i].status = "scheduled"
                        /\ i # durable \/ ~RepairRelease
           replans == [i \in DOMAIN t.replans |-> IF retire(i) THEN Deferred(t.replans[i]) ELSE t.replans[i]]
<1>1. /\ t.replans \in Seq(ReplanT) /\ Len(t.replans) \in Nat /\ DOMAIN t.replans = 1 .. Len(t.replans)
      /\ \A i \in DOMAIN t.replans : t.replans[i] \in ReplanT
  BY DEF StateT
<1>2. u = [t EXCEPT !.replans = replans]
  BY DEF Retired, Deferred
<1>3. \A r \in ReplanT : LET f == Deferred(r) IN
        f \in ReplanT /\ f.to = r.to /\ f.trig = r.trig /\ f.status # "scheduled"
  <2>1. "deferred" \in ReplanStatuses
    BY DEF ReplanStatuses
  <2>2. \A r \in ReplanT, b \in BaseT \cup {NoBase} : LET f == [r EXCEPT !.status = "deferred", !.base = b] IN
          f \in ReplanT /\ f.to = r.to /\ f.trig = r.trig /\ f.status # "scheduled"
    BY <2>1 DEF ReplanT
  <2> QED
    BY <2>2 DEF Deferred
<1> HIDE DEF durable, u
<1>4. /\ DOMAIN replans = DOMAIN t.replans
      /\ \A i \in DOMAIN t.replans :
           replans[i] = (IF retire(i) THEN Deferred(t.replans[i]) ELSE t.replans[i])
  OBVIOUS
<1>5. \A i \in DOMAIN t.replans : retire(i) <=> t.replans[i].status = "scheduled" /\ (i # durable \/ ~RepairRelease)
  OBVIOUS
<1> HIDE DEF retire
<1>6. \A i \in DOMAIN t.replans :
        /\ replans[i] \in ReplanT /\ replans[i].to = t.replans[i].to /\ replans[i].trig = t.replans[i].trig
        /\ retire(i) => replans[i].status # "scheduled"
        /\ ~retire(i) => replans[i] = t.replans[i]
  BY <1>1, <1>3, <1>4
<1>7. replans \in Seq(ReplanT)
  <2>1. replans \in [1 .. Len(t.replans) -> ReplanT]
    BY <1>1, <1>6
  <2> QED
    BY <1>1, <2>1, SeqOfMap
<1>8. /\ u \in StateT /\ u.replans = replans /\ u.turns = t.turns
      /\ u.res = t.res /\ u.art = t.art /\ u.resume = t.resume /\ u.rev = t.rev /\ u.gen = t.gen
  <2> HIDE DEF replans
  <2> QED
    BY <1>2, <1>7 DEF StateT
<1>9. RetiredSnaps(t) = {t.replans[i].base.snap : i \in {j \in DOMAIN t.replans : HasBase(t.replans[j]) /\ ~HasBase(replans[j])}}
  BY <1>8 DEF RetiredSnaps, u
<1>10. ASSUME RepairRelease PROVE u.replans = t.replans /\ RetiredSnaps(t) = {}
  <2>1. ASSUME NEW i \in DOMAIN t.replans PROVE ~retire(i)
    <3>1. CASE t.replans[i].status = "scheduled"
      <4>1. i \in OpenReplans(t)
        BY <1>10, <3>1 DEF OpenReplans
      <4>2. OpenReplans(t) \in SUBSET (1 .. Len(t.replans))
        BY <1>1 DEF OpenReplans
      <4>3. durable \in OpenReplans(t)
        BY <1>1, <4>1, <4>2, LatestIsIn DEF durable
      <4>4. i = durable
        BY <1>10, <4>1, <4>3
      <4> QED
        BY <1>5, <1>10, <4>4
    <3> QED
      BY <1>5, <3>1
  <2>2. \A i \in DOMAIN t.replans : replans[i] = t.replans[i]
    BY <1>6, <2>1
  <2>3. replans = t.replans
    <3> HIDE DEF replans
    <3>1. Len(replans) = Len(t.replans)
      BY <1>1, <1>4, <1>7
    <3>2. \A i \in 1 .. Len(replans) : replans[i] = t.replans[i]
      BY <1>1, <2>2, <3>1
    <3> QED
      BY <1>1, <1>7, <3>1, <3>2, SeqEqual
  <2> HIDE DEF replans
  <2> QED
    BY <1>8, <1>9, <2>3
<1>11. ASSUME ~RepairRelease PROVE OpenReplans(u) = {} /\ RetiredSnaps(t) \subseteq ReplanSnaps(t)
  <2>1. \A i \in DOMAIN t.replans : retire(i) <=> t.replans[i].status = "scheduled"
    BY <1>5, <1>11
  <2> HIDE DEF replans
  <2>2. OpenReplans(u) = {}
    BY <1>4, <1>6, <1>8, <2>1 DEF OpenReplans
  <2>3. \A i \in DOMAIN t.replans : HasBase(t.replans[i]) /\ ~HasBase(replans[i]) => i \in OpenReplans(t)
    BY <1>6, <2>1 DEF OpenReplans
  <2> QED
    BY <1>9, <2>2, <2>3 DEF ReplanSnaps
<1> HIDE DEF replans
<1> QED
  BY <1>4, <1>6, <1>8, <1>10, <1>11 DEF u

(***************************************************************************)
(* A run starts from the checkpoint.                                       *)
(***************************************************************************)
Loaded(t) ==
  /\ t \in StateT /\ Prefix(t.res, t.art) /\ NoExec(t.res) /\ t.resume = req /\ t.gen = ck.gen
  /\ \A s \in Steps : t.art[s] # NoArt => s <= Len(t.res) /\ t.art[s] = ck.art[s]
  /\ ck.rev < t.rev \/ (ck.rev = t.rev /\ Len(ck.res) <= Len(t.res))
  /\ ck.resume # req => Len(t.res) < req.step
  /\ Len(t.res) < Len(ck.res) => \A s \in Steps : s > Len(t.res) /\ ck.art[s] # NoArt => Redoes(ck, req, s)
  /\ ReplanSnaps(t) \subseteq ReplanSnaps(ck)
  /\ \A i \in DOMAIN t.replans : t.replans[i].to < t.replans[i].trig
  /\ \/ /\ BasedTurns(t) = {}
        /\ RepairRelease => \A i \in DOMAIN t.replans : t.replans[i].status # "scheduled"
     \/ t.turns = ck.turns /\ t.replans = ck.replans /\ ck.resume.step = req.step /\ Positions(t, Len(t.res) + 1)

(* The state with the revision and the continuation of the run.            *)
Continued(t, rev, resume) == [t EXCEPT !.rev = rev, !.resume = resume]

(* A continuation gets a revision and a token.                             *)
LEMMA ContinuedOK ==
  ASSUME NEW t \in StateT, NEW rev \in Nat, NEW resume \in ResumeT
  PROVE  LET u == Continued(t, rev, resume) IN
         /\ u \in StateT /\ u.turns = t.turns /\ u.replans = t.replans /\ u.res = t.res /\ u.art = t.art
         /\ u.gen = t.gen /\ u.rev = rev /\ u.resume = resume
  BY DEF Continued, StateT

(* Where the checkpoint stands.                                            *)
LEMMA CheckpointFacts ==
  ASSUME RunnerConstants, RunnerInv
  PROVE  /\ ck \in StateT /\ Settled(ck, count, req, snaps) /\ Saved(ck) /\ Prefix(ck.res, ck.art)
         /\ Len(ck.res) \in Nat /\ Len(ck.res) <= N /\ N \in Nat /\ ck.rev \in Nat /\ ck.resume \in ResumeT
         /\ ExpectedResume(ck) \in Steps /\ ExpectedResume(ck) \in Nat /\ ExpectedResume(ck) <= Len(ck.res) + 1
         /\ \A i \in 1 .. Len(ck.res) : ck.res[i].exec => ExpectedResume(ck) <= i
         /\ req \in ResumeT /\ req.tok = count.tok /\ Known(ck.resume, count, req)
         /\ ck.resume.step = req.step \/ ExpectedResume(ck) = req.step
         /\ req # NoResume => req.step \in Steps /\ ck.gen > 0
         /\ CanonicalPrefix(ck.res)
<1>1. /\ ck \in StateT /\ Settled(ck, count, req, snaps) /\ Saved(ck) /\ req \in ResumeT /\ req.tok = count.tok
      /\ ck.resume.step = req.step \/ ExpectedResume(ck) = req.step
      /\ req # NoResume => req.step \in Steps /\ ck.gen > 0
  BY DEF RunnerInv, RunnerTypes, CheckpointInv
<1>2. Prefix(ck.res, ck.art) /\ Known(ck.resume, count, req)
  BY <1>1 DEF Settled
<1>3. /\ ExpectedResume(ck) \in Steps /\ ExpectedResume(ck) <= Len(ck.res) + 1 /\ Len(ck.res) <= N /\ Len(ck.res) \in Nat
      /\ \A i \in 1 .. Len(ck.res) : ck.res[i].exec => ExpectedResume(ck) <= i
  BY <1>1, <1>2, ExpectedOK
<1>4. ck.rev \in Nat /\ ck.resume \in ResumeT /\ N \in Nat /\ DOMAIN ck.res = 1 .. Len(ck.res)
  BY <1>1 DEF StateT, RunnerConstants
<1>5. CanonicalPrefix(ck.res)
  BY <1>2, <1>4 DEF CanonicalPrefix, Prefix
<1> QED
  BY <1>1, <1>2, <1>3, <1>4, <1>5 DEF Steps

(* A continuation that cuts the prefix: it is admitted but for an older    *)
(* token of the same step, and no open baseline concerns what is kept.     *)
LEMMA ExplicitLoad ==
  ASSUME RunnerConstants, RunnerInv, ck.gen # 0, Explicit(ck, req)
  PROVE  LET l == Load(ck, req) IN
         /\ ~l.ok => ck.resume.step = req.step /\ ck.resume.tok < req.tok
         /\ l.ok => Loaded(l.st)
<1> DEFINE l == Load(ck, req)
           s == req.step
           back == RestoreState(ck, s)
           kept == IF ck.art[s] # NoArt THEN [back EXCEPT !.cand[s] = ck.art[s]] ELSE back
<1>1. /\ ck \in StateT /\ Saved(ck) /\ Prefix(ck.res, ck.art)
      /\ Len(ck.res) \in Nat /\ Len(ck.res) <= N /\ N \in Nat /\ ck.rev \in Nat /\ ck.resume \in ResumeT
      /\ ExpectedResume(ck) \in Steps /\ ExpectedResume(ck) \in Nat /\ ExpectedResume(ck) <= Len(ck.res) + 1
      /\ \A i \in 1 .. Len(ck.res) : ck.res[i].exec => ExpectedResume(ck) <= i
      /\ req \in ResumeT /\ req.tok = count.tok /\ Known(ck.resume, count, req)
      /\ ck.resume.step = req.step \/ ExpectedResume(ck) = req.step
      /\ req # NoResume => req.step \in Steps
  BY CheckpointFacts
<1>2. req # NoResume /\ ck.resume # req /\ s \in Steps /\ s \in Nat /\ s > 0 /\ s \in 0 .. N
  BY <1>1 DEF Explicit, Consumed, Steps
<1>3. l.ok <=> s = ExpectedResume(ck) /\ Len(back.res) = s - 1
  BY DEF Load, Admits
<1>4. l.st = Continued(kept, kept.rev + 1, req)
  BY <1>2 DEF Load, Continued
<1>5. /\ back \in StateT /\ Len(back.res) \in Nat /\ Len(back.res) <= Len(ck.res)
      /\ Prefix(back.res, back.art) /\ NoExec(back.res)
      /\ \A x \in Steps : back.art[x] # NoArt => x <= Len(back.res) /\ back.art[x] = ck.art[x]
      /\ \A i \in 1 .. Len(back.res) : i # s /\ ~ck.res[i].exec
      /\ Len(back.res) < Len(ck.res) => Len(back.res) + 1 = s \/ ck.res[Len(back.res) + 1].exec
      /\ back.rev = ck.rev /\ back.gen = ck.gen /\ back.resume = ck.resume
      /\ back.replans = ReplansBefore(ck.replans, s) /\ back.turns = TurnsBefore(ck.turns, s)
  <2>1. s # 0
    BY <1>2
  <2> QED
    BY SMTT(30), <1>1, <1>2, <2>1, RestoreFacts
<1> HIDE DEF l, back
<1>6. s = ExpectedResume(ck) => Len(back.res) = s - 1
  <2>1. ASSUME s = ExpectedResume(ck) PROVE Len(back.res) = s - 1
    <3>1. Len(back.res) < s
      BY <1>2, <1>5
    <3>2. CASE Len(back.res) < Len(ck.res)
      <4>1. Len(back.res) + 1 \in 1 .. Len(ck.res)
        BY <1>1, <1>5, <3>2
      <4>2. s <= Len(back.res) + 1
        BY <1>1, <1>2, <1>5, <2>1, <3>2, <4>1
      <4> QED
        BY <1>2, <1>5, <3>1, <4>2
    <3>3. CASE Len(back.res) = Len(ck.res)
      BY <1>1, <1>2, <1>5, <2>1, <3>1, <3>3
    <3> QED
      BY <1>1, <1>5, <3>2, <3>3
  <2> QED
    BY <2>1
<1>7. ~l.ok => ck.resume.step = req.step /\ ck.resume.tok < req.tok
  <2>1. ck.resume.tok \in Nat /\ req.tok \in Nat
    BY <1>1 DEF ResumeT
  <2> QED
    BY <1>1, <1>2, <1>3, <1>6, <2>1 DEF Known
<1>8. ASSUME l.ok PROVE Loaded(l.st)
  <2>1. s = ExpectedResume(ck) /\ Len(back.res) = s - 1
    BY <1>3, <1>8
  <2>2. /\ kept \in StateT /\ kept.turns = back.turns /\ kept.replans = back.replans /\ kept.res = back.res
        /\ kept.art = back.art /\ kept.rev = back.rev /\ kept.gen = back.gen
    <3>1. ck.art[s] \in ArtOrNone /\ back.cand \in ArtMap
      BY <1>1, <1>2, <1>5 DEF StateT, ArtMap
    <3>2. [back.cand EXCEPT ![s] = ck.art[s]] \in ArtMap
      BY <1>2, <3>1 DEF ArtMap
    <3> QED
      BY <1>5, <3>2 DEF StateT
  <2> HIDE DEF kept
  <2>3. kept.rev + 1 \in Nat
    BY <1>1, <1>5, <2>2
  <2>4. /\ l.st \in StateT /\ l.st.turns = kept.turns /\ l.st.replans = kept.replans /\ l.st.res = kept.res
        /\ l.st.art = kept.art /\ l.st.gen = kept.gen /\ l.st.rev = kept.rev + 1 /\ l.st.resume = req
    <3>1. req \in ResumeT /\ kept \in StateT
      BY <1>1, <2>2
    <3>2. LET u == Continued(kept, kept.rev + 1, req) IN
         /\ u \in StateT /\ u.turns = kept.turns /\ u.replans = kept.replans /\ u.res = kept.res /\ u.art = kept.art
         /\ u.gen = kept.gen /\ u.rev = kept.rev + 1 /\ u.resume = req
      BY <2>3, <3>1, ContinuedOK
    <3> QED
      BY <1>4, <3>2
  <2>5. Positions(ck, Len(ck.res) + 1) /\ s <= Len(ck.res) + 1
    BY <1>1, <2>1 DEF Saved
  <2>6. /\ ck.replans \in Seq(ReplanT) /\ ck.turns \in Seq(TurnT)
        /\ \A j \in DOMAIN ck.turns : ck.turns[j].step \in Nat
        /\ \A j \in DOMAIN ck.replans : ck.replans[j].trig \in Nat
    <3>1. ck.replans \in Seq(ReplanT) /\ ck.turns \in Seq(TurnT)
      BY <1>1 DEF StateT
    <3>2. \A r \in TurnT : r.step \in Nat
      BY DEF TurnT, Steps
    <3>3. \A r \in ReplanT : r.trig \in Nat
      BY DEF ReplanT, Steps
    <3> QED
      BY <3>1, <3>2, <3>3
  <2>7. /\ \A k \in DOMAIN l.st.replans : \E j \in DOMAIN ck.replans :
             ck.replans[j].trig < s /\ l.st.replans[k] = ck.replans[j]
        /\ \A k \in DOMAIN l.st.turns : \E j \in DOMAIN ck.turns :
             ck.turns[j].step < s /\ l.st.turns[k] = ck.turns[j]
    <3>1. l.st.replans = ReplansBefore(ck.replans, s) /\ l.st.turns = TurnsBefore(ck.turns, s)
      BY <1>5, <2>2, <2>4
    <3>2. /\ \A k \in DOMAIN ReplansBefore(ck.replans, s) : \E j \in DOMAIN ck.replans :
               ck.replans[j].trig < s /\ ReplansBefore(ck.replans, s)[k] = ck.replans[j]
          /\ \A k \in DOMAIN TurnsBefore(ck.turns, s) : \E j \in DOMAIN ck.turns :
               ck.turns[j].step < s /\ TurnsBefore(ck.turns, s)[k] = ck.turns[j]
      <4>1. ReplanParts(ck.replans, s) /\ TurnParts(ck.turns, s)
        BY <2>6, HistoriesCut
      <4> QED
        BY <4>1 DEF ReplanParts, TurnParts
    <3> QED
      BY <3>1, <3>2
  <2>8. BasedTurns(l.st) = {}
    <3>1. ASSUME NEW k \in BasedTurns(l.st) PROVE FALSE
      <4>1. k \in DOMAIN l.st.turns /\ HasBase(l.st.turns[k])
        BY <3>1 DEF BasedTurns
      <4>2. PICK j \in DOMAIN ck.turns : ck.turns[j].step < s /\ l.st.turns[k] = ck.turns[j]
        BY <2>7, <4>1
      <4>3. j \in BasedTurns(ck)
        BY <4>1, <4>2 DEF BasedTurns
      <4>4. ck.turns[j].step = Len(ck.res) + 1
        BY <2>5, <4>3 DEF Positions
      <4> QED
        BY <1>1, <1>2, <2>5, <4>2, <4>4
    <3> QED
      BY <3>1
  <2>9. RepairRelease => \A i \in DOMAIN l.st.replans : l.st.replans[i].status # "scheduled"
    <3>1. ASSUME RepairRelease, NEW k \in DOMAIN l.st.replans, l.st.replans[k].status = "scheduled" PROVE FALSE
      <4>1. PICK j \in DOMAIN ck.replans : ck.replans[j].trig < s /\ l.st.replans[k] = ck.replans[j]
        BY <2>7, <3>1
      <4>2. j \in OpenReplans(ck)
        BY <2>5, <3>1, <4>1 DEF Positions, OpenReplans
      <4>3. Len(ck.res) + 1 <= ck.replans[j].trig
        BY <2>5, <3>1, <4>2 DEF Positions
      <4> QED
        BY <1>1, <1>2, <2>5, <2>6, <4>1, <4>3
    <3> QED
      BY <3>1
  <2>10. /\ ReplanSnaps(l.st) \subseteq ReplanSnaps(ck)
         /\ \A i \in DOMAIN l.st.replans : l.st.replans[i].to < l.st.replans[i].trig
    <3>1. \A k \in OpenReplans(l.st) : \E j \in OpenReplans(ck) : l.st.replans[k] = ck.replans[j]
      BY <2>7 DEF OpenReplans
    <3>2. \A j \in DOMAIN ck.replans : ck.replans[j].to < ck.replans[j].trig
      BY <2>5 DEF Positions
    <3> QED
      BY <2>7, <3>1, <3>2 DEF ReplanSnaps
  <2>11. ck.rev < l.st.rev
    BY <1>1, <1>5, <2>2, <2>4
  <2>12. Len(l.st.res) = s - 1 /\ Len(l.st.res) < s
    BY <1>2, <2>1, <2>2, <2>4
  <2>13. \A x \in Steps : x > Len(l.st.res) => Redoes(ck, req, x)
    BY <1>2, <2>1, <2>12 DEF Redoes, Steps
  <2>14. \A x \in Steps : l.st.art[x] # NoArt => x <= Len(l.st.res) /\ l.st.art[x] = ck.art[x]
    BY <1>5, <2>2, <2>4
  <2>15. Prefix(l.st.res, l.st.art) /\ NoExec(l.st.res) /\ l.st.gen = ck.gen
    BY <1>5, <2>2, <2>4
  <2> QED
    BY <2>4, <2>8, <2>9, <2>10, <2>11, <2>12, <2>13, <2>14, <2>15 DEF Loaded
<1> QED
  BY <1>7, <1>8 DEF l

(* A call without a continuation, or with one the checkpoint has already   *)
(* been cut for: it is admitted, and the histories stay.                   *)
LEMMA PlainLoad ==
  ASSUME RunnerConstants, RunnerInv, ck.gen # 0, NEW r, ~Explicit(ck, r),
         r # NoResume => r = req, r = NoResume => ck.resume = req
  PROVE  LET l == Load(ck, r) IN l.ok /\ Loaded(l.st)
<1> DEFINE l == Load(ck, r)
           back == RestoreState(ck, 0)
           rev == IF Len(back.res) < Len(ck.res) THEN back.rev + 1 ELSE back.rev
           resume == IF r = NoResume THEN back.resume ELSE r
<1>1. /\ ck \in StateT /\ Saved(ck) /\ Prefix(ck.res, ck.art)
      /\ Len(ck.res) \in Nat /\ Len(ck.res) <= N /\ N \in Nat /\ ck.rev \in Nat /\ ck.resume \in ResumeT
      /\ req \in ResumeT /\ CanonicalPrefix(ck.res)
      /\ req # NoResume => req.step \in Steps
  BY CheckpointFacts
<1>2. r # NoResume => r = req /\ r.step \in Nat
  BY <1>1 DEF Steps
<1>3. l.ok <=> (IF Precut(ck, r) THEN Len(back.res) < r.step ELSE Consumed(ck, r) => Len(back.res) >= r.step - 1)
  BY DEF Load, Admits
<1>4. l.st = Continued(back, rev, resume)
  BY DEF Load, Continued
<1>5. /\ back \in StateT /\ Len(back.res) \in Nat /\ Len(back.res) <= Len(ck.res)
      /\ Prefix(back.res, back.art) /\ NoExec(back.res)
      /\ \A x \in Steps : back.art[x] # NoArt => x <= Len(back.res) /\ back.art[x] = ck.art[x]
      /\ Len(back.res) < Len(ck.res) => Len(back.res) + 1 = 0 \/ ck.res[Len(back.res) + 1].exec
      /\ back.rev = ck.rev /\ back.gen = ck.gen /\ back.resume = ck.resume
      /\ back.replans = ck.replans /\ back.turns = ck.turns
  <2>1. 0 \in 0 .. N
    BY <1>1
  <2> QED
    BY <1>1, <2>1, RestoreFacts
<1> HIDE DEF l, back
<1>6. Len(back.res) < Len(ck.res) =>
        /\ Len(back.res) + 1 = Len(ck.res) /\ ck.res[Len(ck.res)].exec /\ ck.art[Len(ck.res)] = NoArt
        /\ ~NoExec(ck.res)
  <2>1. ASSUME Len(back.res) < Len(ck.res)
        PROVE  /\ Len(back.res) + 1 = Len(ck.res) /\ ck.res[Len(ck.res)].exec /\ ck.art[Len(ck.res)] = NoArt
               /\ ~NoExec(ck.res)
    <3>1. Len(back.res) + 1 \in 1 .. Len(ck.res) /\ Len(back.res) + 1 # 0
      BY <1>1, <1>5, <2>1
    <3>2. ck.res[Len(back.res) + 1].exec
      BY <1>5, <2>1, <3>1
    <3> QED
      BY <1>1, <3>1, <3>2 DEF Prefix, NoExec
  <2> QED
    BY <2>1
<1>7. resume = req
  BY <1>2, <1>5
<1>8. ck.resume.step = req.step
  BY <1>2 DEF Explicit, Consumed, Precut
<1>9. ck.resume # req => Len(back.res) < req.step
  <2>1. ASSUME ck.resume # req PROVE Len(back.res) < req.step
    <3>1. Precut(ck, r) /\ r = req
      BY <1>2, <2>1 DEF Explicit, Consumed
    <3>2. Len(ck.res) < r.step /\ r.step \in Nat
      BY <1>2, <3>1 DEF Precut
    <3> QED
      BY <1>1, <1>5, <3>1, <3>2
  <2> QED
    BY <2>1
<1>10. l.ok
  <2>1. CASE Precut(ck, r)
    <3>1. Len(ck.res) < r.step /\ r.step \in Nat
      BY <1>2, <2>1 DEF Precut
    <3> QED
      BY <1>1, <1>3, <1>5, <2>1, <3>1
  <2>2. CASE ~Precut(ck, r)
    <3>1. ASSUME Consumed(ck, r) PROVE Len(back.res) >= r.step - 1
      <4>1. r # NoResume /\ r.step \in Nat /\ ~(Len(ck.res) < r.step)
        BY <1>1, <1>2, <2>2, <3>1 DEF Consumed, Precut
      <4>2. Len(back.res) + 1 >= Len(ck.res)
        BY <1>1, <1>5, <1>6
      <4> QED
        BY <1>1, <1>5, <4>1, <4>2
    <3> QED
      BY <1>3, <2>2, <3>1
  <2> QED
    BY <2>1, <2>2
<1>11. rev \in Nat /\ (ck.rev < rev \/ (ck.rev = rev /\ Len(ck.res) <= Len(back.res)))
  BY <1>1, <1>5
<1> HIDE DEF rev, resume
<1>12. /\ l.st \in StateT /\ l.st.turns = ck.turns /\ l.st.replans = ck.replans /\ l.st.res = back.res
       /\ l.st.art = back.art /\ l.st.gen = ck.gen /\ l.st.rev = rev /\ l.st.resume = req
  BY <1>1, <1>4, <1>5, <1>7, <1>11, ContinuedOK
<1>13. /\ BasedTurns(l.st) = BasedTurns(ck) /\ OpenReplans(l.st) = OpenReplans(ck) /\ ReplanSnaps(l.st) = ReplanSnaps(ck)
       /\ \A k : Positions(l.st, k) <=> Positions(ck, k)
  BY <1>12, SameHistories
<1>14. Positions(ck, Len(ck.res) + 1)
  BY <1>1 DEF Saved
<1>15. Positions(ck, Len(back.res) + 1)
  <2>1. CASE Len(back.res) < Len(ck.res)
    <3>1. BasedTurns(ck) = {} /\ (RepairRelease => OpenReplans(ck) = {})
      BY <1>1, <1>6, <2>1 DEF Saved
    <3> QED
      BY <1>14, <3>1 DEF Positions
  <2>2. CASE Len(back.res) = Len(ck.res)
    BY <1>14, <2>2
  <2> QED
    BY <1>1, <1>5, <2>1, <2>2
<1>16. \A i \in DOMAIN ck.replans : ck.replans[i].to < ck.replans[i].trig
  BY <1>14 DEF Positions
<1>17. Len(back.res) < Len(ck.res) => \A s \in Steps : s > Len(back.res) /\ ck.art[s] # NoArt => FALSE
  <2>1. ASSUME Len(back.res) < Len(ck.res), NEW s \in Steps, s > Len(back.res), ck.art[s] # NoArt PROVE FALSE
    <3>1. s <= Len(ck.res) /\ s \in Nat
      BY <1>1, <2>1 DEF Prefix, Steps
    <3>2. s = Len(ck.res)
      BY <1>1, <1>5, <1>6, <2>1, <3>1
    <3> QED
      BY <1>6, <2>1, <3>2
  <2> QED
    BY <2>1
<1> QED
  BY <1>5, <1>8, <1>9, <1>10, <1>11, <1>12, <1>13, <1>15, <1>16, <1>17 DEF Loaded, l

(* The run begins: what was loaded is sound, and retiring replans removes  *)
(* only the snapshots of those retired.                                    *)
LEMMA LaunchStarts ==
  ASSUME RunnerConstants, RunnerInv, pc = "idle", NEW t, Loaded(t), st' = Retired(t), until' \in Steps, tries' = 0,
         snaps' = [n \in DOMAIN snaps \ RetiredSnaps(t) |-> snaps[n]],
         pc' = IF CanonicalPrefix(st'.res) /\ ~AnyExec(st'.res) THEN "loop" ELSE "order_error",
         count' = [count EXCEPT !.launch = @ + 1], UNCHANGED <<ck, files, after, req>>
  PROVE  RunnerInv'
<1> DEFINE k == Len(t.res) + 1
<1>1. /\ ck \in StateT /\ Settled(ck, count, req, snaps) /\ ck.rev \in Nat /\ Len(ck.res) \in Nat
      /\ req \in ResumeT /\ req.tok = count.tok
  BY CheckpointFacts
<1>2. /\ t \in StateT /\ Prefix(t.res, t.art) /\ NoExec(t.res) /\ t.resume = req /\ t.gen = ck.gen
      /\ ReplanSnaps(t) \subseteq ReplanSnaps(ck)
      /\ \A i \in DOMAIN t.replans : t.replans[i].to < t.replans[i].trig
      /\ \/ /\ BasedTurns(t) = {}
            /\ RepairRelease => \A i \in DOMAIN t.replans : t.replans[i].status # "scheduled"
         \/ t.turns = ck.turns /\ t.replans = ck.replans /\ ck.resume.step = req.step /\ Positions(t, k)
  BY DEF Loaded
<1>3. RepairRelease => /\ \A i, j \in OpenReplans(t) : i = j
                       /\ \A i \in DOMAIN t.replans : t.replans[i].status = "scheduled" => HasBase(t.replans[i])
  BY <1>2 DEF Positions, OpenReplans
<1>4. /\ st' \in StateT /\ st'.turns = t.turns
      /\ st'.res = t.res /\ st'.art = t.art /\ st'.resume = t.resume /\ st'.rev = t.rev /\ st'.gen = t.gen
      /\ DOMAIN st'.replans = DOMAIN t.replans
      /\ \A i \in DOMAIN t.replans : st'.replans[i].to = t.replans[i].to /\ st'.replans[i].trig = t.replans[i].trig
      /\ RepairRelease => st'.replans = t.replans /\ RetiredSnaps(t) = {}
      /\ ~RepairRelease => OpenReplans(st') = {} /\ RetiredSnaps(t) \subseteq ReplanSnaps(t)
  BY <1>2, <1>3, RetiredOK
<1>5. BasedTurns(st') = BasedTurns(t) /\ TurnSnaps(st') = TurnSnaps(t)
  BY <1>4 DEF BasedTurns, TurnSnaps
<1>6. RetiredSnaps(t) \subseteq ReplanSnaps(ck) /\ (RepairRelease => RetiredSnaps(t) = {})
  BY <1>2, <1>4
<1>7. /\ count \in CountT /\ count' \in CountT /\ count'.tok = count.tok /\ count'.snap = count.snap /\ count.snap \in Nat
  BY WorldCounts DEF RunnerInv, CountT
<1>8. /\ DOMAIN snaps' = DOMAIN snaps \ RetiredSnaps(t) /\ \A n \in DOMAIN snaps' : snaps'[n] = snaps[n]
  OBVIOUS
<1>9. Later(count, snaps, count', snaps')
  BY <1>7, <1>8 DEF Later
<1>10. RunnerTypes'
  <2>1. RunnerTypes
    BY DEF RunnerInv
  <2>2. count' \in [launch : Nat, tok : Nat, snap : Nat]
    BY <1>7 DEF CountT
  <2>3. DOMAIN snaps' \subseteq 1 .. count'.snap /\ \A n \in DOMAIN snaps' : snaps'[n] \in ArtMap
    <3>1. DOMAIN snaps \subseteq 1 .. count.snap /\ \A n \in DOMAIN snaps : snaps[n] \in ArtMap
      BY <2>1 DEF RunnerTypes
    <3> QED
      BY <1>7, <1>8, <3>1
  <2>4. after' \in {"idle", "loop"} /\ ck' \in StateT /\ files' \in ArtMap /\ req' \in ResumeT
    BY <2>1 DEF RunnerTypes
  <2>5. tries' \in 0 .. ExecRetries
    BY DEF RunnerConstants
  <2> QED
    BY <1>4, <2>2, <2>3, <2>4, <2>5 DEF RunnerTypes
<1>11. CheckpointInv'
  BY <1>7, <1>9, CheckpointStays DEF RunnerInv
<1>12. pc' = "loop"
  <2>1. t.res \in Seq(ResultT) /\ DOMAIN t.res = 1 .. Len(t.res)
    BY <1>2 DEF StateT
  <2> QED
    BY <1>2, <1>4, <2>1 DEF CanonicalPrefix, AnyExec, Prefix, NoExec
<1>13. Settled(st', count', req, snaps') /\ Saved(st')
       /\ TurnSnaps(st') \subseteq TurnSnaps(ck) /\ ReplanSnaps(st') \subseteq ReplanSnaps(ck)
       /\ (~RepairRelease => ReplanSnaps(st') = {})
  <2>1. Known(st'.resume, count', req)
    BY <1>1, <1>2, <1>4, <1>7 DEF Known, ResumeT, CountT
  <2>2. CASE BasedTurns(t) = {} /\ (RepairRelease => \A i \in DOMAIN t.replans : t.replans[i].status # "scheduled")
    <3>1. BasedTurns(st') = {} /\ OpenReplans(st') = {}
      BY <1>4, <1>5, <2>2 DEF OpenReplans
    <3>2. Baselines(st', count', req, snaps')
      BY <3>1 DEF Baselines
    <3>3. Positions(st', k)
      BY <1>2, <1>4, <2>2, <3>1 DEF Positions
    <3>4. TurnSnaps(st') = {} /\ ReplanSnaps(st') = {}
      BY <3>1 DEF TurnSnaps, ReplanSnaps
    <3> QED
      BY <1>2, <1>4, <2>1, <3>1, <3>2, <3>3, <3>4 DEF Settled, Saved
  <2>3. CASE t.turns = ck.turns /\ t.replans = ck.replans /\ ck.resume.step = req.step /\ Positions(t, k)
    <3>1. CASE RepairRelease
      <4>1. st'.turns = ck.turns /\ st'.replans = ck.replans /\ st'.resume.step = ck.resume.step
        BY <1>2, <1>4, <2>3, <3>1
      <4>2. Within(st', ck) /\ (Positions(st', k) <=> Positions(t, k))
        BY <1>4, <2>3, <4>1, SameHistories
      <4>3. /\ Settled(st', count, req, snaps)
            /\ TurnSnaps(st') \subseteq TurnSnaps(ck) /\ ReplanSnaps(st') \subseteq ReplanSnaps(ck)
        <5>1. Known(st'.resume, count, req)
          BY <1>7, <2>1 DEF Known
        <5> QED
          BY <1>1, <1>2, <1>4, <4>2, <5>1, SettledWithin
      <4>4. Settled(st', count', req, snaps')
        BY <1>7, <1>9, <4>3, SettledLater
      <4> QED
        BY <1>2, <1>4, <2>3, <3>1, <4>2, <4>3, <4>4 DEF Saved
    <3>2. CASE ~RepairRelease
      <4>1. OpenReplans(st') = {} /\ BasedTurns(st') = BasedTurns(ck)
        BY <1>4, <1>5, <2>3, <3>2 DEF BasedTurns
      <4>2. Within(st', ck)
        BY <1>2, <1>4, <2>3, <4>1 DEF Within
      <4>3. /\ Settled(st', count, req, snaps)
            /\ TurnSnaps(st') \subseteq TurnSnaps(ck) /\ ReplanSnaps(st') \subseteq ReplanSnaps(ck)
        <5>1. Known(st'.resume, count, req)
          BY <1>7, <2>1 DEF Known
        <5> QED
          BY <1>1, <1>2, <1>4, <4>2, <5>1, SettledWithin
      <4>4. Settled(st', count', req, snaps')
        BY <1>7, <1>9, <4>3, SettledLater
      <4>5. Positions(st', k)
        BY <1>2, <1>4, <1>5, <2>3, <3>2, <4>1 DEF Positions
      <4>6. ReplanSnaps(st') = {}
        BY <4>1 DEF ReplanSnaps
      <4> QED
        BY <1>2, <1>4, <3>2, <4>1, <4>3, <4>4, <4>5, <4>6 DEF Saved
    <3> QED
      BY <3>1, <3>2
  <2> QED
    BY <1>2, <2>2, <2>3
<1>14. StateInv'
  BY <1>2, <1>4, <1>12, <1>13 DEF StateInv, Executed
<1>15. LineageInv'
  BY <1>4, <1>12 DEF LineageInv, Executed, Loaded
<1>16. FilesInv'
  <2>1. ASSUME "undone" \notin CrashPoints
        PROVE  /\ TurnSnaps(ck) \subseteq DOMAIN snaps /\ Agrees(ck, req, files)
               /\ RepairRelease => ReplanSnaps(ck) \subseteq DOMAIN snaps
    BY <2>1 DEF RunnerInv, FilesInv
  <2>2. TurnSnaps(ck) \cap ReplanSnaps(ck) = {}
    BY <1>1 DEF Settled, Baselines, TurnSnaps, ReplanSnaps
  <2>3. ASSUME "undone" \notin CrashPoints
        PROVE  /\ TurnSnaps(ck) \subseteq DOMAIN snaps' /\ (RepairRelease => ReplanSnaps(ck) \subseteq DOMAIN snaps')
               /\ TurnSnaps(st') \cup ReplanSnaps(st') \subseteq DOMAIN snaps'
    BY <1>6, <1>8, <1>13, <2>1, <2>2, <2>3
  <2>4. ASSUME "undone" \notin CrashPoints PROVE Matches(st'.art, files')
    <3>1. ASSUME NEW s \in Steps, st'.art[s] # NoArt PROVE files[s] = st'.art[s]
      <4>1. s <= Len(t.res) /\ st'.art[s] = ck.art[s] /\ ck.art[s] # NoArt
        BY <1>4, <3>1 DEF Loaded
      <4>2. CASE ck.resume = req
        BY <2>1, <2>4, <4>1, <4>2 DEF Agrees, Redoes
      <4>3. CASE ck.resume # req
        <5>1. Len(t.res) < req.step
          BY <4>3 DEF Loaded
        <5>2. ~(req.step <= s)
          <6>1. Len(t.res) \in Nat /\ req.step \in Nat /\ s \in Nat
            BY SMTT(30), <1>1, <1>2 DEF StateT, ResumeT, Steps
          <6> QED
            BY <4>1, <5>1, <6>1
        <5> QED
          BY <2>1, <2>4, <4>1, <5>2 DEF Agrees, Redoes
      <4> QED
        BY <4>2, <4>3
    <3> QED
      BY <3>1 DEF Matches
  <2>5. Len(st'.res) < Len(ck.res) => \A s \in Steps : s > Len(st'.res) /\ ck.art[s] # NoArt => Redoes(ck, req, s)
    BY <1>4 DEF Loaded
  <2> QED
    BY <1>12, <1>13, <2>1, <2>3, <2>4, <2>5 DEF FilesInv
<1> QED
  BY <1>10, <1>11, <1>12, <1>14, <1>15, <1>16 DEF RunnerInv, ResumeAdmitted

(* A call of the pipeline starts or is refused.                            *)
LEMMA LaunchKeeps ==
  ASSUME RunnerConstants, RunnerInv, NEW u \in Steps, Launch(u)
  PROVE  RunnerInv'
<1> DEFINE r == IF req.step = u THEN req ELSE NoResume
           l == Load(ck, r)
<1>1. /\ pc = "idle" /\ u = (IF ck.resume # req THEN req.step ELSE N) /\ until' = u /\ tries' = 0
      /\ count' = [count EXCEPT !.launch = @ + 1] /\ UNCHANGED <<ck, files, after, req>>
      /\ IF l.ok
         THEN /\ st' = Retired(l.st)
              /\ snaps' = [n \in DOMAIN snaps \ RetiredSnaps(l.st) |-> snaps[n]]
              /\ pc' = IF CanonicalPrefix(st'.res) /\ ~AnyExec(st'.res) THEN "loop" ELSE "order_error"
         ELSE pc' = "load_error" /\ UNCHANGED <<st, snaps>>
  BY DEF Launch
<1>2. /\ req # NoResume => req.step \in Steps /\ ck.gen > 0
      /\ 0 \notin Steps /\ N \in Nat
  BY CheckpointFacts DEF Steps
<1>3. r # NoResume => r = req
  OBVIOUS
<1>4. r = NoResume => ck.resume = req
  <2>1. NoResume.step = 0
    BY DEF NoResume
  <2> QED
    BY <1>1, <1>2, <2>1
<1>5. CASE ck.gen = 0
  <2>1. ck = Fresh /\ req = NoResume
    BY <1>2, <1>5 DEF RunnerInv, CheckpointInv
  <2>2. l.ok /\ l.st = Fresh
    BY <1>5 DEF Load
  <2>3. Loaded(Fresh)
    BY <2>1, FreshOK DEF Loaded
  <2> QED
    BY <1>1, <2>2, <2>3, LaunchStarts
<1>6. CASE ck.gen # 0
  <2>1. /\ ~l.ok => ck.resume.step = req.step /\ ck.resume.tok < req.tok
        /\ l.ok => Loaded(l.st)
    <3>1. CASE Explicit(ck, r)
      <4>1. r = req
        BY <1>3, <3>1 DEF Explicit
      <4> HIDE DEF r
      <4> QED
        BY <1>6, <3>1, <4>1, ExplicitLoad
    <3>2. CASE ~Explicit(ck, r)
      <4> HIDE DEF r
      <4> QED
        BY <1>3, <1>4, <1>6, <3>2, PlainLoad
    <3> QED
      BY <3>1, <3>2
  <2> HIDE DEF l
  <2>2. CASE l.ok
    BY <1>1, <2>1, <2>2, LaunchStarts
  <2>3. CASE ~l.ok
    <3>1. pc' = "load_error" /\ UNCHANGED <<st, snaps>>
      BY <1>1, <2>3
    <3>2. ResumeAdmitted'
      BY <1>1, <2>1, <2>3, <3>1 DEF ResumeAdmitted
    <3>3. /\ count \in CountT /\ count' \in CountT /\ count'.tok = count.tok /\ count'.snap = count.snap /\ count.snap \in Nat
      BY <1>1, WorldCounts DEF RunnerInv, CountT
    <3>4. Later(count, snaps, count', snaps')
      BY <3>1, <3>3 DEF Later
    <3>5. RunnerTypes'
      <4>1. RunnerTypes
        BY DEF RunnerInv
      <4>2. count' \in [launch : Nat, tok : Nat, snap : Nat]
        BY <3>3 DEF CountT
      <4>3. DOMAIN snaps' \subseteq 1 .. count'.snap /\ \A n \in DOMAIN snaps' : snaps'[n] \in ArtMap
        BY <3>1, <3>3, <4>1 DEF RunnerTypes
      <4>4. after' \in {"idle", "loop"} /\ ck' \in StateT /\ st' \in StateT /\ files' \in ArtMap /\ req' \in ResumeT
        BY <1>1, <3>1, <4>1 DEF RunnerTypes
      <4>5. tries' \in 0 .. ExecRetries /\ until' \in Steps
        BY <1>1 DEF RunnerConstants
      <4> QED
        BY <3>1, <4>2, <4>3, <4>4, <4>5 DEF RunnerTypes
    <3>6. CheckpointInv'
      BY <1>1, <3>3, <3>4, CheckpointStays DEF RunnerInv
    <3> QED
      BY <3>1, <3>2, <3>5, <3>6 DEF RunnerInv, StateInv, LineageInv, FilesInv, Active
  <2> QED
    BY <2>2, <2>3
<1> QED
  BY <1>5, <1>6

(***************************************************************************)
(* The invariant holds initially, and every step keeps it.                 *)
(***************************************************************************)
LEMMA InitKeeps ==
  ASSUME RunnerConstants, Init
  PROVE  RunnerInv
<1>1. /\ pc = "idle" /\ st = Fresh /\ ck = Fresh
      /\ files = [s \in Steps |-> NoArt] /\ snaps = [n \in {} |-> NoArt]
      /\ until = N /\ tries = 0 /\ after = "idle"
      /\ req = NoResume /\ count = [launch |-> 0, tok |-> 0, snap |-> 0]
  BY DEF Init
<1>2. DOMAIN snaps = {} /\ files \in ArtMap /\ N \in Steps /\ 0 \in 0 .. ExecRetries /\ NoResume \in ResumeT /\ NoResume.tok = 0
  BY <1>1 DEF ArtMap, ArtOrNone, Steps, RunnerConstants, NoResume, ResumeT
<1>3. count \in CountT /\ count.tok = 0
  BY <1>1 DEF CountT
<1>4. /\ Fresh \in StateT /\ Fresh.resume = NoResume /\ Fresh.gen = 0 /\ Len(Fresh.res) = 0
      /\ \A x \in Steps : Fresh.art[x] = NoArt
      /\ Prefix(Fresh.res, Fresh.art) /\ NoExec(Fresh.res)
      /\ BasedTurns(Fresh) = {} /\ OpenReplans(Fresh) = {} /\ DOMAIN Fresh.replans = {}
      /\ TurnSnaps(Fresh) = {} /\ ReplanSnaps(Fresh) = {}
  BY FreshOK
<1>5. RunnerTypes
  BY <1>1, <1>2, <1>3, <1>4 DEF RunnerTypes, CountT
<1>6. Settled(ck, count, req, snaps)
  BY <1>1, <1>2, <1>3, <1>4 DEF Settled, Known, Baselines
<1>7. Saved(ck)
  BY <1>1, <1>4 DEF Saved, Positions
<1>8. CheckpointInv
  BY <1>1, <1>2, <1>3, <1>4, <1>6, <1>7 DEF CheckpointInv
<1>9. FilesInv
  BY <1>1, <1>4 DEF FilesInv, Active, Agrees
<1> QED
  BY <1>1, <1>5, <1>8, <1>9 DEF RunnerInv, StateInv, LineageInv, Active, ResumeAdmitted

(* Nothing changes: the invariant does not either.                         *)
LEMMA StutterKeeps ==
  ASSUME RunnerInv, UNCHANGED vars
  PROVE  RunnerInv'
<1>1. UNCHANGED <<pc, st, ck, files, snaps, until, tries, after, req, count>>
  BY DEF vars
<1>2. Res' = Res /\ Cur' = Cur
  BY <1>1 DEF Res, Cur
<1>3. RunnerTypes'
  BY <1>1 DEF RunnerInv, RunnerTypes
<1>4. CheckpointInv'
  BY <1>1 DEF RunnerInv, CheckpointInv
<1>5. StateInv'
  BY <1>1, <1>2 DEF RunnerInv, StateInv, Active, Executed
<1>6. LineageInv'
  BY <1>1 DEF RunnerInv, LineageInv, Active, Executed
<1>7. FilesInv'
  BY <1>1 DEF RunnerInv, FilesInv, Active
<1> QED
  BY <1>1, <1>3, <1>4, <1>5, <1>6, <1>7 DEF RunnerInv, ResumeAdmitted

(* Every step of the runner, of its launches and of a stop.                *)
LEMMA NextKeeps ==
  ASSUME RunnerConstants, RunnerInv, [Next]_vars
  PROVE  RunnerInv'
<1>1. ASSUME NEW a \in Arts, StepReturns(a, 0, "design") PROVE RunnerInv'
  <2>1. 0 \in 0 .. MaxScore /\ "design" \in KindOf
    BY DEF RunnerConstants, KindOf
  <2> QED
    BY <1>1, <2>1, StepReturnsKeeps
<1>2. ASSUME NEW a \in Arts, NEW score \in 1 .. MaxScore, NEW kind \in Kinds, StepReturns(a, score, kind) PROVE RunnerInv'
  <2>1. score \in 0 .. MaxScore /\ kind \in KindOf
    BY DEF RunnerConstants, KindOf
  <2> QED
    BY <1>2, <2>1, StepReturnsKeeps
<1>3. ASSUME NEW p \in Proposals, NEW h \in Hints, NEW same \in BOOLEAN, Recover(p, h, same) PROVE RunnerInv'
  BY <1>3, RecoverKeeps
<1>4. CASE Step
  BY <1>1, <1>2, <1>3, <1>4, ReturnKeeps, SaveKeeps, ObserveKeeps, StepAcceptedKeeps, DraftStopsKeeps,
     CandidateFailsKeeps, ToRecoveryKeeps, StepRaisesKeeps DEF Step
<1>5. ASSUME NEW u \in Steps, Launch(u) PROVE RunnerInv'
  BY <1>5, LaunchKeeps
<1>6. ASSUME NEW a \in Arts, StepProgress(a) PROVE RunnerInv'
  BY <1>6, StepProgressKeeps
<1>7. CASE Next
  BY <1>4, <1>5, <1>6, <1>7, CrashKeeps, ContinueKeeps DEF Next
<1>8. CASE UNCHANGED vars
  BY <1>8, StutterKeeps
<1> QED
  BY <1>7, <1>8

(* A run that has ended leaves a fresh state, or the one it gave up with:  *)
(* its replans lead upstream and do not nest.                              *)
Quiet(t) ==
  /\ \A i \in DOMAIN t.replans : t.replans[i].to < t.replans[i].trig
  /\ RepairRelease => \A i, j \in OpenReplans(t) : i = j
EndedInv == ~Active => Quiet(st)

(* What the last call left in memory still nests no candidates.            *)
LEMMA EndedFacts ==
  ASSUME RunnerConstants, RunnerInv, EndedInv
  PROVE  Quiet(st) /\ Quiet(Fresh)
<1>1. Quiet(Fresh)
  BY FreshOK DEF Quiet
<1>2. CASE ~Active
  BY <1>1, <1>2 DEF EndedInv
<1>3. CASE Active
  <2>1. PICK k : Positions(st, k)
    BY <1>3 DEF Active, RunnerInv, StateInv, Saved, Executed
  <2>2. Quiet(st)
    BY <2>1 DEF Positions, Quiet
  <2> QED
    BY <1>1, <2>2
<1> QED
  BY <1>1, <1>2, <1>3

(* It stays so with every step.                                            *)
LEMMA EndedKeeps ==
  ASSUME RunnerConstants, RunnerInv, EndedInv, [Next]_vars
  PROVE  EndedInv'
<1>1. Active' \/ st' = Fresh \/ st' = st
  <2>1. ASSUME NEW a, NEW score, NEW kind, StepReturns(a, score, kind) PROVE Active'
    BY SMTT(30), <2>1 DEF StepReturns, Active
  <2>2. ASSUME NEW p, NEW h, NEW same, Recover(p, h, same) PROVE Active' \/ st' = st
    BY <2>2 DEF Recover, GiveUp, Reject, SaveThen, Active
  <2>3. CASE Return \/ StepAccepted \/ DraftStops \/ ToRecovery
    BY <2>3 DEF Return, StepAccepted, DraftStops, ToRecovery, SaveThen, Active
  <2>4. CASE Observe
    BY <2>4 DEF Observe, SaveThen, Active
  <2>5. CASE CandidateFails
    BY <2>5 DEF CandidateFails, Reject, SaveThen, Active
  <2>6. CASE Save
    <3>1. after \in {"idle", "loop"}
      BY DEF RunnerInv, RunnerTypes
    <3> QED
      BY <2>6, <3>1 DEF Save, Active
  <2>7. CASE StepRaises
    BY <2>7 DEF StepRaises, Active
  <2>8. CASE Crash \/ Continue
    BY <2>8 DEF Crash, Continue
  <2>9. ASSUME NEW u \in Steps, Launch(u) PROVE Active' \/ st' = st
    <3>1. RunnerInv' /\ (pc' = "load_error" => st' = st) /\ pc' \in {"loop", "order_error", "load_error"}
      BY <2>9, LaunchKeeps DEF Launch
    <3> QED
      BY <3>1 DEF RunnerInv, Active
  <2>10. ASSUME NEW a \in Arts, StepProgress(a) PROVE Active' \/ st' = st
    BY <2>10 DEF StepProgress, Active
  <2>11. CASE UNCHANGED vars
    BY <2>11 DEF vars
  <2> QED
    BY <2>1, <2>2, <2>3, <2>4, <2>5, <2>6, <2>7, <2>8, <2>9, <2>10, <2>11 DEF Next, Step
<1> QED
  BY <1>1, EndedFacts DEF EndedInv

(* What the invariant says of the runner's promises.                       *)
LEMMA SoundStates ==
  ASSUME RunnerConstants, RunnerInv, EndedInv
  PROVE  RunnerSound
<1>1. Quiet(st) /\ st \in StateT /\ ck \in StateT
  BY EndedFacts DEF RunnerInv, RunnerTypes
<1>2. Quiet(ck)
  BY CheckpointFacts DEF Saved, Positions, Quiet
<1>3. ASSUME NEW t \in StateT, Quiet(t) PROVE StateOK(t)
  <2>1. /\ \A i \in DOMAIN t.res : t.res[i] \in ResultT
        /\ \A i \in DOMAIN t.replans : t.replans[i] \in ReplanT
        /\ \A i \in DOMAIN t.turns : t.turns[i] \in TurnT
    BY DEF StateT
  <2>2. /\ \A r \in ResultT : r.step \in Steps /\ r.score \in 0 .. MaxScore
        /\ \A r \in ReplanT : r.inter \in 0 .. MaxInter
        /\ \A r \in TurnT : r.step \in Steps
    BY DEF ResultT, ReplanT, TurnT
  <2>3. t.art \in ArtMap /\ t.cand \in ArtMap /\ t.rev \in Nat /\ t.gen \in Nat /\ t.resume.step \in 0 .. N
    BY DEF StateT, ResumeT
  <2> QED
    BY <1>3, <2>1, <2>2, <2>3 DEF StateOK, Quiet, ArtMap
<1>4. TypeOK
  BY <1>1, <1>2, <1>3 DEF TypeOK, RunnerInv, RunnerTypes, ArtMap
<1>5. CheckpointAccepted /\ ResumeAdmitted
  BY DEF RunnerInv, CheckpointAccepted
<1>6. ASSUME "undone" \notin CrashPoints PROVE InputsMatchFiles /\ RollbackPossible
  <2>1. RollbackPossible
    BY <1>6 DEF RunnerInv, FilesInv, RollbackPossible
  <2>2. ASSUME pc = "ran", NEW s \in 1 .. (Cur - 1), st.art[s] # NoArt PROVE files[s] = st.art[s]
    <3>1. Executed
      BY <2>2 DEF Executed
    <3>2. Matches(st.art, files) /\ Cur \in Steps
      BY <1>6, <3>1, ExecutedFiles, ExecutedFacts
    <3>3. s \in Steps
      BY <3>2 DEF Steps, RunnerConstants
    <3> QED
      BY <2>2, <3>2, <3>3 DEF Matches
  <2> QED
    BY <2>1, <2>2 DEF InputsMatchFiles
<1>7. ASSUME RepairRelease PROVE OneOpenReplan
  <2>1. CASE OpenReplans(st) = {}
    BY <2>1, FS_EmptySet DEF OneOpenReplan
  <2>2. CASE OpenReplans(st) # {}
    <3>1. PICK i \in OpenReplans(st) : OpenReplans(st) = {i}
      BY <1>1, <1>7, <2>2 DEF Quiet
    <3>2. Cardinality(OpenReplans(st)) = 1
      BY <3>1, FS_Singleton
    <3> QED
      BY <3>2 DEF OneOpenReplan
  <2> QED
    BY <2>1, <2>2
<1> QED
  BY <1>4, <1>5, <1>6, <1>7 DEF RunnerSound

(* The runner keeps its promises for every number of steps, every budget   *)
(* and every place where the process may stop: its checkpoint is never     *)
(* refused by its writer, a continuation is refused only after a rollback  *)
(* brought back an older one, a step reads the files its inputs describe,  *)
(* a candidate can be rolled back, and candidates do not nest.             *)
THEOREM RunnerTheorem ==
  ASSUME RunnerConstants
  PROVE  Spec => []RunnerSound
<1>1. Init => RunnerInv /\ EndedInv
  <2>1. ASSUME Init PROVE RunnerInv /\ EndedInv
    <3>1. RunnerInv /\ st = Fresh
      BY <2>1, InitKeeps DEF Init
    <3> QED
      BY <3>1, FreshOK DEF EndedInv, Quiet
  <2> QED
    BY <2>1
<1>2. RunnerInv /\ EndedInv /\ [Next]_vars => RunnerInv' /\ EndedInv'
  BY NextKeeps, EndedKeeps
<1>3. RunnerInv /\ EndedInv => RunnerSound
  BY SoundStates
<1> QED
  BY <1>1, <1>2, <1>3, PTL DEF Spec
=============================================================================
