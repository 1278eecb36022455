------------------------- MODULE SandboxBrokerProofs -------------------------
(***************************************************************************)
(* The repair broker, for any number of concurrent requests and of Docker  *)
(* calls that fail: one request holds the slot, its script runs alone on   *)
(* its volume, and an ended request leaves nothing behind.                 *)
(***************************************************************************)
EXTENDS SandboxBroker, Integers, FiniteSetTheorems, TLAPS

Places == 0 .. 12 \cup 21 .. 23 \cup {31, 99}
Answers == {"none", "busy", "completed", "failed", "timeout", "unavailable"}

Tables ==
  /\ at \in [Requests -> Places]
  /\ exists \in [Requests -> SUBSET Things] /\ knows \in [Requests -> SUBSET Things]
  /\ runs \in [Requests -> BOOLEAN] /\ answer \in [Requests -> Answers]

Types == Tables /\ free \in BOOLEAN /\ failed \in 0 .. Failures /\ excused \subseteq Requests

(* What the daemon holds, and the broker knows, before each call of run.   *)
Owned == << {}, {}, {"volume"}, {"volume", "seed"}, {"volume", "seed"}, {"volume", "seed"},
            Things, Things, {"volume", "job"}, {"volume", "job"}, {"volume", "job"},
            {"volume", "job"} >>

(* What may still be there at each position of the finally block.          *)
Rest(a) == CASE a = 21 -> Things [] a = 22 -> {"seed", "volume"} [] OTHER -> {"volume"}

(* A request at position a with e in the daemon, k known and the script    *)
(* running or not (u), X the excused requests.                             *)
Good(r, a, e, k, u, X) ==
  /\ a = 0 => e = {} /\ k = {} /\ ~u
  /\ a \in 1 .. 12 => k = Owned[a] /\ e = Owned[a] /\ (u <=> a = 10)
  /\ u => {"volume", "job"} \subseteq e /\ "seed" \notin e
  /\ a \in 21 .. 23 /\ a # 21 => ~u
  /\ a \in 21 .. 23 /\ r \notin X => e \subseteq k \cap Rest(a)
  /\ a \in {31, 99} /\ r \notin X => e = {} /\ ~u

AllGood == \A r \in Requests : Good(r, at[r], exists[r], knows[r], runs[r], excused)

Slot ==
  /\ \A r, s \in Requests : at[r] \notin {0, 99} /\ at[s] \notin {0, 99} => r = s
  /\ free <=> \A r \in Requests : at[r] \in {0, 99}

IInv == Types /\ AllGood /\ Slot
-----------------------------------------------------------------------------
(* A step of a request changes its own entries only.                       *)
Changed(r, a, e, k, u, w) ==
  /\ at' = [at EXCEPT ![r] = a]
  /\ exists' = [exists EXCEPT ![r] = e]
  /\ knows' = [knows EXCEPT ![r] = k]
  /\ runs' = [runs EXCEPT ![r] = u]
  /\ answer' = [answer EXCEPT ![r] = w]

Moved(r) ==
  /\ \E a \in Places, e \in SUBSET Things, k \in SUBSET Things, u \in BOOLEAN, w \in Answers :
       Changed(r, a, e, k, u, w) /\ Good(r, a, e, k, u, excused')
  /\ excused' \subseteq Requests
  /\ \A s \in Requests : s # r => (s \in excused' <=> s \in excused)

(* What a call does to the things of its request.                          *)
Effect(c, things) ==
  CASE c \in Creates -> things \cup {c}
    [] c = "seed_delete" -> things \ {"seed"}
    [] OTHER -> things

LEMMA CallNames ==
  /\ Calls[1] = "image" /\ Calls[2] = "volume" /\ Calls[3] = "seed" /\ Calls[4] = "seed_start"
  /\ Calls[5] = "upload" /\ Calls[6] = "job" /\ Calls[7] = "job_start"
  /\ Calls[8] = "seed_delete" /\ Calls[9] = "exec" /\ Calls[10] = "script"
  /\ Calls[11] = "inspect" /\ Calls[12] = "download"
BY DEF Calls

LEMMA OwnedThings ==
  /\ Owned[1] = {} /\ Owned[2] = {} /\ Owned[3] = {"volume"}
  /\ Owned[4] = {"volume", "seed"} /\ Owned[5] = {"volume", "seed"}
  /\ Owned[6] = {"volume", "seed"} /\ Owned[7] = Things /\ Owned[8] = Things
  /\ Owned[9] = {"volume", "job"} /\ Owned[10] = {"volume", "job"}
  /\ Owned[11] = {"volume", "job"} /\ Owned[12] = {"volume", "job"}
BY DEF Owned

LEMMA Effects ==
  ASSUME NEW k \in 1 .. 12, k # 10
  PROVE  /\ Effect(Calls[k], Owned[k]) = IF k = 12 THEN Owned[k] ELSE Owned[k + 1]
         /\ Effect(Calls[k], Owned[k]) \subseteq Things
<1>1. CASE k \in {1, 4, 5, 7, 9, 11, 12}
  <2>1. Calls[k] \notin Creates /\ Calls[k] # "seed_delete"
    BY <1>1, CallNames DEF Creates
  <2>2. Owned[k] = (IF k = 12 THEN Owned[k] ELSE Owned[k + 1]) /\ Owned[k] \subseteq Things
    BY <1>1, OwnedThings DEF Things
  <2>. QED
    BY <2>1, <2>2 DEF Effect
<1>2. CASE k \in {2, 3, 6}
  <2>1. Calls[k] \in Creates /\ Owned[k + 1] = Owned[k] \cup {Calls[k]}
    <3>1. CASE k = 2
      BY <3>1, CallNames, OwnedThings DEF Creates
    <3>2. CASE k = 3
      BY <3>2, CallNames, OwnedThings DEF Creates
    <3>3. CASE k = 6
      <4>1. k + 1 = 7 /\ Things = {"volume", "seed"} \cup {"job"}
        BY <3>3 DEF Things
      <4>. QED
        BY <3>3, <4>1, CallNames, OwnedThings DEF Creates
    <3>4. k = 2 \/ k = 3 \/ k = 6
      BY <1>2
    <3>. QED
      BY <3>1, <3>2, <3>3, <3>4
  <2>2. Owned[k + 1] \subseteq Things
    BY <1>2, OwnedThings DEF Things
  <2>3. Calls[k] # "seed_delete" /\ k # 12
    BY <1>2, <2>1 DEF Creates
  <2>4. Effect(Calls[k], Owned[k]) = Owned[k] \cup {Calls[k]}
    BY <2>1, <2>3 DEF Effect
  <2>. QED
    BY <2>1, <2>2, <2>3, <2>4
<1>3. CASE k = 8
  <2>1. Calls[k] = "seed_delete" /\ Calls[k] \notin Creates
    BY <1>3, CallNames DEF Creates
  <2>2. Owned[k] = Things /\ Owned[k + 1] = {"volume", "job"}
    BY <1>3, OwnedThings
  <2>. QED
    BY <1>3, <2>1, <2>2 DEF Effect, Things
<1>. QED
  BY <1>1, <1>2, <1>3

LEMMA CleanPlaces ==
  /\ Clean.job = 21 /\ Clean.seed = 22 /\ Clean.volume = 23
  /\ {Clean[t] : t \in Things} = 21 .. 23
<1>1. Clean["job"] = 21 /\ Clean["seed"] = 22 /\ Clean["volume"] = 23
  BY DEF Clean
<1>2. {Clean[t] : t \in Things} = {21, 22, 23}
  BY <1>1 DEF Things
<1>. QED
  BY <1>1, <1>2

LEMMA HeldThing ==
  ASSUME NEW r \in Requests, at[r] \in 21 .. 23
  PROVE  /\ Holds(r) \in Things
         /\ at[r] = 21 => Holds(r) = "job"
         /\ at[r] = 22 => Holds(r) = "seed"
         /\ at[r] = 23 => Holds(r) = "volume"
<1>1. Clean["job"] = 21 /\ Clean["seed"] = 22 /\ Clean["volume"] = 23
  BY DEF Clean
<1>2. \E t \in Things : Clean[t] = at[r]
  BY <1>1 DEF Things
<1>3. Holds(r) \in Things /\ Clean[Holds(r)] = at[r]
  BY <1>2 DEF Holds
<1>. QED
  BY <1>1, <1>3 DEF Things
-----------------------------------------------------------------------------
LEMMA EntryTypes ==
  ASSUME Tables, NEW r \in Requests
  PROVE  /\ at[r] \in Places /\ exists[r] \in SUBSET Things /\ knows[r] \in SUBSET Things
         /\ runs[r] \in BOOLEAN /\ answer[r] \in Answers
BY DEF Tables

LEMMA SameEntry ==
  ASSUME Tables, NEW r \in Requests
  PROVE  /\ exists = [exists EXCEPT ![r] = exists[r]] /\ knows = [knows EXCEPT ![r] = knows[r]]
         /\ runs = [runs EXCEPT ![r] = runs[r]] /\ answer = [answer EXCEPT ![r] = answer[r]]
BY DEF Tables

LEMMA AcquireMoves ==
  ASSUME Types, NEW r \in Requests, Good(r, at[r], exists[r], knows[r], runs[r], excused),
         Acquire(r)
  PROVE  Moved(r)
<1>. DEFINE a == IF free THEN First ELSE 99
            w == IF free THEN answer[r] ELSE "busy"
<1>1. Tables /\ excused \subseteq Requests
  BY DEF Types
<1>2. at[r] = 0 /\ exists[r] = {} /\ knows[r] = {} /\ ~runs[r]
  BY DEF Acquire, Good
<1>3. a \in Places /\ w \in Answers
  BY <1>1, EntryTypes DEF Places, Answers, First
<1>4. Changed(r, a, exists[r], knows[r], runs[r], w) /\ UNCHANGED excused
  BY <1>1, SameEntry DEF Acquire, Changed
<1>5. Good(r, a, exists[r], knows[r], runs[r], excused')
  BY <1>2, OwnedThings DEF Good, First
<1>. QED
  BY <1>1, <1>3, <1>4, <1>5, EntryTypes DEF Moved

LEMMA CallMoves ==
  ASSUME Types, NEW r \in Requests, Good(r, at[r], exists[r], knows[r], runs[r], excused),
         Call(r)
  PROVE  Moved(r)
<1>. DEFINE k == at[r]
            c == Calls[k]
            a == IF k = 12 THEN 21 ELSE k + 1
            s == Effect(c, Owned[k])
            u == IF c = "exec" THEN TRUE ELSE runs[r]
            w == IF c = "download" THEN "completed" ELSE answer[r]
<1>1. Tables /\ excused \subseteq Requests
  BY DEF Types
<1>2. k \in 1 .. 12 /\ k # 10
  BY DEF Call, First, Last, Script
<1>3. exists[r] = Owned[k] /\ knows[r] = Owned[k] /\ ~runs[r]
  BY <1>2 DEF Good
<1>4. a \in Places /\ w \in Answers /\ u \in BOOLEAN
  <2>1. a \in Places
    BY <1>2 DEF Places
  <2>2. w \in Answers
    BY <1>1, EntryTypes DEF Answers
  <2>3. u \in BOOLEAN
    BY <1>1, EntryTypes
  <2>. QED
    BY <2>1, <2>2, <2>3
<1>5. s = (IF k = 12 THEN Owned[k] ELSE Owned[k + 1]) /\ s \subseteq Things
  BY <1>2, Effects
<1>6. Changed(r, a, s, s, u, w) /\ UNCHANGED excused
  <2>1. at' = [at EXCEPT ![r] = a]
    BY <1>2, CleanPlaces DEF Call, Last
  <2>2. exists' = [exists EXCEPT ![r] = s]
    BY <1>3 DEF Call, Effect
  <2>3. knows' = [knows EXCEPT ![r] = s]
    BY <1>3 DEF Call, Effect
  <2>4. runs' = [runs EXCEPT ![r] = u] /\ answer' = [answer EXCEPT ![r] = w]
    BY DEF Call
  <2>. QED
    BY <2>1, <2>2, <2>3, <2>4 DEF Changed, Call
<1>7. u <=> k = 9
  BY <1>2, <1>3, CallNames
<1>8. Good(r, a, s, s, u, excused')
  <2>1. CASE k = 12
    <3>1. s = {"volume", "job"} /\ ~u /\ a = 21
      BY <1>5, <1>7, <2>1, OwnedThings
    <3>. QED
      BY <3>1 DEF Good, Rest, Things
  <2>2. CASE k # 12
    <3>1. a \in 1 .. 12 /\ s = Owned[a] /\ (u <=> a = 10)
      BY <1>2, <1>5, <1>7, <2>2
    <3>2. a = 10 => s = {"volume", "job"}
      BY <3>1, OwnedThings
    <3>. QED
      BY <3>1, <3>2 DEF Good
  <2>. QED
    BY <2>1, <2>2
<1>. QED
  BY <1>1, <1>4, <1>5, <1>6, <1>8 DEF Moved

LEMMA CallFailsMoves ==
  ASSUME Types, NEW r \in Requests, Good(r, at[r], exists[r], knows[r], runs[r], excused),
         NEW done \in BOOLEAN, CallFails(r, done)
  PROVE  Moved(r)
<1>. DEFINE k == at[r]
            c == Calls[k]
            a == Bail(r)
            e == CASE done /\ c \in Creates -> Owned[k] \cup {c}
                   [] done /\ c = "seed_delete" -> Owned[k] \ {"seed"}
                   [] OTHER -> Owned[k]
<1>1. Tables /\ excused \subseteq Requests
  BY DEF Types
<1>2. k \in 1 .. 12 /\ k # 10
  BY DEF CallFails, First, Last, Script
<1>3. exists[r] = Owned[k] /\ knows[r] = Owned[k] /\ ~runs[r]
  BY <1>2 DEF Good
<1>4. Owned[k] \subseteq Things
  BY <1>1, <1>3, EntryTypes
<1>5. /\ e \subseteq Things
      /\ e \subseteq Owned[k] \/ (done /\ c \in Creates)
  <2>1. CASE done /\ c \in Creates
    <3>1. c # "seed_delete" /\ c \in Things
      BY <2>1 DEF Creates, Things
    <3>2. e = Owned[k] \cup {c}
      BY <2>1, <3>1
    <3>. QED
      BY <1>4, <2>1, <3>1, <3>2
  <2>2. CASE done /\ c = "seed_delete"
    <3>1. c \notin Creates
      BY <2>2 DEF Creates
    <3>2. e = Owned[k] \ {"seed"}
      BY <2>2, <3>1
    <3>. HIDE DEF e
    <3>. QED
      BY <1>4, <3>2
  <2>3. CASE ~(done /\ c \in Creates) /\ ~(done /\ c = "seed_delete")
    <3>1. e = Owned[k]
      BY <2>3
    <3>. HIDE DEF e
    <3>. QED
      BY <1>4, <3>1
  <2>. QED
    BY <2>1, <2>2, <2>3
<1>6. Changed(r, a, e, knows[r], runs[r], "unavailable")
  <2>1. exists' = [exists EXCEPT ![r] = e]
    BY <1>3 DEF CallFails
  <2>. QED
    BY <1>1, <2>1, SameEntry DEF CallFails, Changed
<1>7. /\ r \notin excused' => e \subseteq knows[r]
      /\ excused' \subseteq Requests
      /\ \A s \in Requests : s # r => (s \in excused' <=> s \in excused)
  BY <1>1, <1>3, <1>5 DEF CallFails
<1>8. \/ a = 21
      \/ (a = 31 /\ knows[r] = {})
  <2>1. "volume" \in knows[r] \/ knows[r] = {}
    BY <1>2, <1>3, OwnedThings DEF Things
  <2>. QED
    BY <2>1, CleanPlaces DEF Bail
<1>9. Good(r, a, e, knows[r], runs[r], excused')
  BY <1>1, <1>3, <1>4, <1>5, <1>7, <1>8 DEF Good, Rest
<1>10. a \in Places /\ "unavailable" \in Answers
  BY <1>8 DEF Places, Answers
<1>. HIDE DEF a, e
<1>. QED
  BY <1>1, <1>5, <1>6, <1>7, <1>9, <1>10, EntryTypes DEF Moved

LEMMA ScriptMoves ==
  ASSUME Types, NEW r \in Requests, Good(r, at[r], exists[r], knows[r], runs[r], excused),
         NEW b \in BOOLEAN, ScriptEnds(r, b) \/ ScriptTimeout(r, b)
  PROVE  Moved(r)
<1>1. Tables /\ excused \subseteq Requests
  BY DEF Types
<1>2. /\ at[r] = 10 /\ exists[r] = {"volume", "job"} /\ knows[r] = {"volume", "job"}
      /\ UNCHANGED excused
  <2>1. at[r] = 10 /\ UNCHANGED excused
    BY DEF ScriptEnds, ScriptTimeout, Script
  <2>. QED
    BY <2>1, OwnedThings DEF Good
<1>3. PICK a \in {11, 21}, u \in BOOLEAN, w \in Answers :
           Changed(r, a, exists[r], knows[r], u, w) /\ (a = 11 => ~u)
  <2>1. CASE ScriptEnds(r, b)
    <3>. DEFINE a == IF b THEN 11 ELSE 21
                w == IF b THEN answer[r] ELSE "failed"
    <3>1. a \in {11, 21} /\ w \in Answers
      BY <1>1, EntryTypes DEF Answers
    <3>2. Changed(r, a, exists[r], knows[r], FALSE, w)
      <4>1. at' = [at EXCEPT ![r] = a]
        <5>1. at' = [at EXCEPT ![r] = IF b THEN at[r] + 1 ELSE Clean.job]
          BY <2>1 DEF ScriptEnds
        <5>2. (IF b THEN at[r] + 1 ELSE Clean.job) = a
          BY <1>2, CleanPlaces
        <5>. QED
          BY <5>1, <5>2
      <4>2. runs' = [runs EXCEPT ![r] = FALSE] /\ answer' = [answer EXCEPT ![r] = w]
        BY <2>1 DEF ScriptEnds
      <4>3. exists' = [exists EXCEPT ![r] = exists[r]] /\ knows' = [knows EXCEPT ![r] = knows[r]]
        BY <1>1, <2>1, SameEntry DEF ScriptEnds
      <4>. HIDE DEF a, w
      <4>. QED
        BY <4>1, <4>2, <4>3 DEF Changed
    <3>. HIDE DEF a, w
    <3>. QED
      BY <3>1, <3>2
  <2>2. CASE ScriptTimeout(r, b)
    <3>. DEFINE u == IF b THEN FALSE ELSE runs[r]
                w == IF b THEN "timeout" ELSE "unavailable"
    <3>1. u \in BOOLEAN /\ w \in Answers
      BY <1>1, EntryTypes DEF Answers
    <3>2. Changed(r, 21, exists[r], knows[r], u, w)
      BY <1>1, <2>2, SameEntry, CleanPlaces DEF ScriptTimeout, Changed
    <3>. HIDE DEF u, w
    <3>. QED
      BY <3>1, <3>2
  <2>. QED
    BY <2>1, <2>2
<1>4. Good(r, a, exists[r], knows[r], u, excused')
  BY <1>2, <1>3, OwnedThings DEF Good, Rest, Things
<1>. QED
  BY <1>1, <1>2, <1>3, <1>4, EntryTypes DEF Moved, Places

LEMMA RemoveMoves ==
  ASSUME Types, NEW r \in Requests, Good(r, at[r], exists[r], knows[r], runs[r], excused),
         Remove(r)
  PROVE  Moved(r)
<1>. DEFINE a == IF at[r] = 23 THEN 31 ELSE at[r] + 1
            h == Holds(r)
            e == IF h \in knows[r] THEN exists[r] \ {h} ELSE exists[r]
            u == IF h = "job" THEN FALSE ELSE runs[r]
<1>1. Tables /\ excused \subseteq Requests
  BY DEF Types
<1>2. at[r] \in 21 .. 23
  BY CleanPlaces DEF Remove
<1>3. Changed(r, a, e, knows[r], u, answer[r]) /\ UNCHANGED excused
  BY <1>1, SameEntry, CleanPlaces DEF Remove, Changed
<1>4. a \in Places /\ e \subseteq Things /\ u \in BOOLEAN
  <2>1. a \in Places
    BY <1>2 DEF Places
  <2>2. e \subseteq Things
    BY <1>1, EntryTypes
  <2>3. u \in BOOLEAN
    BY <1>1, EntryTypes
  <2>. QED
    BY <2>1, <2>2, <2>3
<1>5. ~u
  <2>1. CASE at[r] = 21
    BY <1>2, <2>1, HeldThing
  <2>2. CASE at[r] # 21
    BY <1>2, <2>2 DEF Good
  <2>. QED
    BY <2>1, <2>2
<1>6. Good(r, a, e, knows[r], u, excused')
  <2>1. r \notin excused => exists[r] \subseteq knows[r] \cap Rest(at[r])
    BY <1>2 DEF Good
  <2>2. r \notin excused => e \subseteq (knows[r] \cap Rest(at[r])) \ {h}
    BY <2>1
  <2>3. Rest(21) = Things /\ Rest(22) = {"seed", "volume"} /\ Rest(23) = {"volume"}
    BY DEF Rest
  <2>4. CASE at[r] = 21
    <3>1. h = "job" /\ a = 22
      BY <1>2, <2>4, HeldThing
    <3>. QED
      BY <1>3, <1>5, <2>2, <2>3, <2>4, <3>1 DEF Good, Things
  <2>5. CASE at[r] = 22
    <3>1. h = "seed" /\ a = 23
      BY <1>2, <2>5, HeldThing
    <3>. QED
      BY <1>3, <1>5, <2>2, <2>3, <2>5, <3>1 DEF Good
  <2>6. CASE at[r] = 23
    <3>1. h = "volume" /\ a = 31
      BY <1>2, <2>6, HeldThing
    <3>. QED
      BY <1>3, <1>5, <2>2, <2>3, <2>6, <3>1 DEF Good
  <2>7. at[r] = 21 \/ at[r] = 22 \/ at[r] = 23
    BY <1>2
  <2>. QED
    BY <2>4, <2>5, <2>6, <2>7
<1>. HIDE DEF a, e, u
<1>. QED
  BY <1>1, <1>3, <1>4, <1>6, EntryTypes DEF Moved

LEMMA OtherMoves ==
  ASSUME Types, NEW r \in Requests, Good(r, at[r], exists[r], knows[r], runs[r], excused),
         RemoveFails(r) \/ Release(r) \/ Again(r)
  PROVE  Moved(r)
<1>1. Tables /\ excused \subseteq Requests
  BY DEF Types
<1>2. CASE RemoveFails(r)
  <2>1. at[r] \in 21 .. 23
    BY <1>2, CleanPlaces DEF RemoveFails
  <2>2. /\ Changed(r, 31, exists[r], knows[r], runs[r], "unavailable")
        /\ excused' = excused \cup {r}
    BY <1>1, <1>2, SameEntry DEF RemoveFails, Changed
  <2>3. Good(r, 31, exists[r], knows[r], runs[r], excused')
    BY <2>1, <2>2 DEF Good
  <2>4. 31 \in Places /\ "unavailable" \in Answers
    BY DEF Places, Answers
  <2>. QED
    BY <1>1, <2>2, <2>3, <2>4, EntryTypes DEF Moved
<1>3. CASE Release(r)
  <2>1. Changed(r, 99, exists[r], knows[r], runs[r], answer[r]) /\ UNCHANGED excused
    BY <1>1, <1>3, SameEntry DEF Release, Changed
  <2>2. Good(r, 99, exists[r], knows[r], runs[r], excused')
    BY <1>3, <2>1 DEF Good, Release
  <2>. QED
    BY <1>1, <2>1, <2>2, EntryTypes DEF Moved, Places
<1>4. CASE Again(r)
  <2>1. Changed(r, 0, {}, {}, FALSE, "none") /\ excused' = excused \ {r}
    BY <1>4 DEF Again, Changed
  <2>2. Good(r, 0, {}, {}, FALSE, excused')
    BY DEF Good
  <2>3. 0 \in Places /\ "none" \in Answers /\ {} \in SUBSET Things /\ FALSE \in BOOLEAN
    BY DEF Places, Answers
  <2>. QED
    BY <1>1, <2>1, <2>2, <2>3 DEF Moved
<1>. QED
  BY <1>2, <1>3, <1>4
-----------------------------------------------------------------------------
LEMMA RequestSteps ==
  ASSUME NEW r \in Requests, Step(r) \/ Again(r)
  PROVE  \/ Acquire(r) \/ Call(r) \/ Remove(r)
         \/ RemoveFails(r) \/ Release(r) \/ Again(r)
         \/ \E b \in BOOLEAN : CallFails(r, b)
         \/ \E b \in BOOLEAN : ScriptEnds(r, b) \/ ScriptTimeout(r, b)
BY DEF Step

LEMMA StepMoves ==
  ASSUME Types, AllGood, NEW r \in Requests, Step(r) \/ Again(r)
  PROVE  Moved(r)
<1>1. Good(r, at[r], exists[r], knows[r], runs[r], excused)
  BY DEF AllGood
<1>2. CASE Acquire(r)
  BY <1>1, <1>2, AcquireMoves
<1>3. CASE Call(r)
  BY <1>1, <1>3, CallMoves
<1>4. CASE Remove(r)
  BY <1>1, <1>4, RemoveMoves
<1>5. CASE RemoveFails(r) \/ Release(r) \/ Again(r)
  BY <1>1, <1>5, OtherMoves
<1>6. CASE \E b \in BOOLEAN : CallFails(r, b)
  BY <1>1, <1>6, CallFailsMoves
<1>7. CASE \E b \in BOOLEAN : ScriptEnds(r, b) \/ ScriptTimeout(r, b)
  BY <1>1, <1>7, ScriptMoves
<1>. QED
  BY <1>2, <1>3, <1>4, <1>5, <1>6, <1>7, RequestSteps

LEMMA MovedKeeps ==
  ASSUME Types, AllGood, NEW r \in Requests, Moved(r)
  PROVE  Tables' /\ AllGood' /\ excused' \subseteq Requests
<1>1. PICK a \in Places, e \in SUBSET Things, k \in SUBSET Things, u \in BOOLEAN, w \in Answers :
           Changed(r, a, e, k, u, w) /\ Good(r, a, e, k, u, excused')
  BY DEF Moved
<1>2. /\ excused' \subseteq Requests
      /\ \A s \in Requests : s # r => (s \in excused' <=> s \in excused)
  BY DEF Moved
<1>3. Tables'
  BY <1>1 DEF Changed, Types, Tables
<1>4. AllGood'
  <2>. SUFFICES ASSUME NEW s \in Requests
                PROVE  Good(s, at'[s], exists'[s], knows'[s], runs'[s], excused')
    BY DEF AllGood
  <2>1. CASE s = r
    <3>1. at'[s] = a /\ exists'[s] = e /\ knows'[s] = k /\ runs'[s] = u
      BY <1>1, <2>1 DEF Changed, Types, Tables
    <3>. QED
      BY <1>1, <2>1, <3>1
  <2>2. CASE s # r
    <3>1. /\ at'[s] = at[s] /\ exists'[s] = exists[s]
          /\ knows'[s] = knows[s] /\ runs'[s] = runs[s]
      BY <1>1, <2>2 DEF Changed, Types, Tables
    <3>2. Good(s, at[s], exists[s], knows[s], runs[s], excused)
      BY DEF AllGood
    <3>3. s \in excused' <=> s \in excused
      BY <1>2, <2>2
    <3>. QED
      BY <3>1, <3>2, <3>3 DEF Good
  <2>. QED
    BY <2>1, <2>2
<1>. QED
  BY <1>2, <1>3, <1>4

LEMMA CountsKept ==
  ASSUME Failures \in Nat, Types, NEW r \in Requests, Step(r) \/ Again(r)
  PROVE  free' \in BOOLEAN /\ failed' \in 0 .. Failures
<1>1. free \in BOOLEAN /\ failed \in 0 .. Failures
  BY DEF Types
<1>2. failed < Failures => failed + 1 \in 0 .. Failures
  BY <1>1
<1>3. CASE Acquire(r) \/ Call(r) \/ Remove(r)
  BY <1>1, <1>3 DEF Acquire, Call, Remove
<1>4. CASE RemoveFails(r) \/ Release(r) \/ Again(r)
  BY <1>1, <1>2, <1>4 DEF RemoveFails, Release, Again
<1>5. CASE \E b \in BOOLEAN : CallFails(r, b)
  BY <1>1, <1>2, <1>5 DEF CallFails
<1>6. CASE \E b \in BOOLEAN : ScriptEnds(r, b) \/ ScriptTimeout(r, b)
  BY <1>1, <1>2, <1>6 DEF ScriptEnds, ScriptTimeout
<1>. QED
  BY <1>3, <1>4, <1>5, <1>6, RequestSteps

(* How the place of a request and the slot change together.                *)
LEMMA SlotSteps ==
  ASSUME Types, NEW r \in Requests, Step(r) \/ Again(r)
  PROVE  \E x \in Places :
           /\ at' = [at EXCEPT ![r] = x]
           /\ \/ x \notin {0, 99} /\ free' = FALSE /\ free
              \/ x \notin {0, 99} /\ free' = free /\ at[r] \notin {0, 99}
              \/ x \in {0, 99} /\ free' = free /\ at[r] \in {0, 99}
              \/ x \in {0, 99} /\ free' = TRUE /\ at[r] \notin {0, 99}
<1>. DEFINE Kind(x) == \/ x \notin {0, 99} /\ free' = FALSE /\ free
                       \/ x \notin {0, 99} /\ free' = free /\ at[r] \notin {0, 99}
                       \/ x \in {0, 99} /\ free' = free /\ at[r] \in {0, 99}
                       \/ x \in {0, 99} /\ free' = TRUE /\ at[r] \notin {0, 99}
<1>. SUFFICES \E x \in Places : at' = [at EXCEPT ![r] = x] /\ Kind(x)
  OBVIOUS
<1>1. CASE Acquire(r)
  <2>1. CASE free
    <3>1. at' = [at EXCEPT ![r] = 1] /\ free' = FALSE
      BY <1>1, <2>1 DEF Acquire, First
    <3>2. 1 \in Places /\ 1 \notin {0, 99}
      BY DEF Places
    <3>. QED
      BY <2>1, <3>1, <3>2
  <2>2. CASE ~free
    BY <1>1, <2>2 DEF Acquire, Places
  <2>. QED
    BY <2>1, <2>2
<1>2. CASE Call(r)
  <2>. DEFINE x == IF at[r] = 12 THEN 21 ELSE at[r] + 1
  <2>1. at[r] \in 1 .. 12 /\ free' = free
    BY <1>2 DEF Call, First, Last
  <2>2. at' = [at EXCEPT ![r] = x]
    BY <1>2, CleanPlaces DEF Call, Last
  <2>3. x \in Places /\ x \notin {0, 99} /\ at[r] \notin {0, 99}
    BY <2>1 DEF Places
  <2>. HIDE DEF x
  <2>. QED
    BY <2>1, <2>2, <2>3
<1>3. CASE Remove(r)
  <2>. DEFINE x == IF at[r] = 23 THEN 31 ELSE at[r] + 1
  <2>1. at[r] \in 21 .. 23 /\ free' = free
    BY <1>3, CleanPlaces DEF Remove
  <2>2. at' = [at EXCEPT ![r] = x]
    BY <1>3, CleanPlaces DEF Remove
  <2>3. x \in Places /\ x \notin {0, 99} /\ at[r] \notin {0, 99}
    BY <2>1 DEF Places
  <2>. HIDE DEF x
  <2>. QED
    BY <2>1, <2>2, <2>3
<1>4. CASE RemoveFails(r)
  <2>1. at[r] \in 21 .. 23 /\ free' = free /\ at' = [at EXCEPT ![r] = 31]
    BY <1>4, CleanPlaces DEF RemoveFails
  <2>2. 31 \in Places /\ 31 \notin {0, 99} /\ at[r] \notin {0, 99}
    BY <2>1 DEF Places
  <2>. QED
    BY <2>1, <2>2
<1>5. CASE Release(r)
  BY <1>5 DEF Release, Places
<1>6. CASE Again(r)
  BY <1>6 DEF Again, Places
<1>7. CASE \E b \in BOOLEAN : CallFails(r, b)
  <2>. DEFINE x == Bail(r)
  <2>1. at[r] \in 1 .. 12 /\ free' = free /\ at' = [at EXCEPT ![r] = x]
    BY <1>7 DEF CallFails, First, Last
  <2>2. x \in {21, 31}
    BY CleanPlaces DEF Bail
  <2>3. x \in Places /\ x \notin {0, 99} /\ at[r] \notin {0, 99}
    BY <2>1, <2>2 DEF Places
  <2>. HIDE DEF x
  <2>. QED
    BY <2>1, <2>3
<1>8. CASE \E b \in BOOLEAN : ScriptEnds(r, b) \/ ScriptTimeout(r, b)
  <2>1. at[r] = 10 /\ free' = free
    BY <1>8 DEF ScriptEnds, ScriptTimeout, Script
  <2>2. CASE at' = [at EXCEPT ![r] = 11]
    <3>1. 11 \in Places /\ 11 \notin {0, 99} /\ at[r] \notin {0, 99}
      BY <2>1 DEF Places
    <3>. QED
      BY <2>1, <2>2, <3>1
  <2>3. CASE at' = [at EXCEPT ![r] = 21]
    <3>1. 21 \in Places /\ 21 \notin {0, 99} /\ at[r] \notin {0, 99}
      BY <2>1 DEF Places
    <3>. QED
      BY <2>1, <2>3, <3>1
  <2>4. PICK b \in BOOLEAN : ScriptEnds(r, b) \/ ScriptTimeout(r, b)
    BY <1>8
  <2>5. CASE ScriptEnds(r, b)
    <3>1. at' = [at EXCEPT ![r] = IF b THEN at[r] + 1 ELSE Clean.job]
      BY <2>5 DEF ScriptEnds
    <3>2. CASE b
      <4>1. (IF b THEN at[r] + 1 ELSE Clean.job) = 11
        BY <2>1, <3>2
      <4>. QED
        BY <2>2, <3>1, <4>1
    <3>3. CASE ~b
      <4>1. (IF b THEN at[r] + 1 ELSE Clean.job) = 21
        BY <3>3, CleanPlaces
      <4>. QED
        BY <2>3, <3>1, <4>1
    <3>. QED
      BY <3>2, <3>3
  <2>6. CASE ScriptTimeout(r, b)
    BY <2>3, <2>6, CleanPlaces DEF ScriptTimeout
  <2>. QED
    BY <2>4, <2>5, <2>6
<1>. QED
  BY <1>1, <1>2, <1>3, <1>4, <1>5, <1>6, <1>7, <1>8, RequestSteps

LEMMA SlotKept ==
  ASSUME Types, Slot, NEW r \in Requests, Step(r) \/ Again(r)
  PROVE  Slot'
<1>1. PICK x \in Places :
        /\ at' = [at EXCEPT ![r] = x]
        /\ \/ x \notin {0, 99} /\ free' = FALSE /\ free
           \/ x \notin {0, 99} /\ free' = free /\ at[r] \notin {0, 99}
           \/ x \in {0, 99} /\ free' = free /\ at[r] \in {0, 99}
           \/ x \in {0, 99} /\ free' = TRUE /\ at[r] \notin {0, 99}
  BY SlotSteps
<1>2. at'[r] = x /\ \A s \in Requests : s # r => at'[s] = at[s]
  BY <1>1 DEF Types, Tables
<1>. QED
  BY <1>1, <1>2 DEF Slot
-----------------------------------------------------------------------------
LEMMA Start ==
  ASSUME Failures \in Nat, Init
  PROVE  IInv
<1>1. Types
  BY DEF Init, Types, Tables, Places, Answers
<1>2. AllGood
  BY DEF Init, AllGood, Good
<1>3. Slot
  BY DEF Init, Slot
<1>. QED
  BY <1>1, <1>2, <1>3 DEF IInv

LEMMA Kept ==
  ASSUME Failures \in Nat, IInv, [Next]_vars
  PROVE  IInv'
<1>1. ASSUME NEW r \in Requests, Step(r) \/ Again(r)
      PROVE  IInv'
  <2>1. Tables' /\ AllGood' /\ excused' \subseteq Requests
    BY <1>1, StepMoves, MovedKeeps DEF IInv
  <2>2. free' \in BOOLEAN /\ failed' \in 0 .. Failures
    BY <1>1, CountsKept DEF IInv
  <2>3. Slot'
    BY <1>1, SlotKept DEF IInv
  <2>. QED
    BY <2>1, <2>2, <2>3 DEF IInv, Types
<1>2. CASE UNCHANGED vars
  BY <1>2 DEF vars, IInv, Types, Tables, AllGood, Slot
<1>. QED
  BY <1>1, <1>2 DEF Next

LEMMA Sound ==
  ASSUME IInv
  PROVE  SandboxSound
<1>1. TypeOK
  BY DEF IInv, Types, Tables, Places, Answers, TypeOK
<1>2. SlotMatches
  <2>1. free <=> Serving = {}
    BY DEF IInv, Slot, Serving
  <2>2. Cardinality(Serving) <= 1
    <3>1. CASE Serving = {}
      BY <3>1, FS_EmptySet
    <3>2. CASE Serving # {}
      <4>1. PICK s : s \in Serving
        BY <3>2
      <4>2. Serving = {s}
        BY <4>1 DEF IInv, Slot, Serving
      <4>. QED
        BY <4>2, FS_Singleton
    <3>. QED
      BY <3>1, <3>2
  <2>. QED
    BY <2>1, <2>2 DEF SlotMatches
<1>3. ScriptIsolated /\ NothingLeft
  BY DEF IInv, AllGood, Good, ScriptIsolated, NothingLeft
<1>. QED
  BY <1>1, <1>2, <1>3 DEF SandboxSound

(* The broker: one request at a time holds the slot and the slot says so,  *)
(* its script runs in a job container on its volume beside no writable     *)
(* seed container, and an ended request has left nothing behind, however   *)
(* many requests come and calls to the Docker API fail.                    *)
THEOREM BrokerSound ==
  ASSUME Failures \in Nat
  PROVE  Spec => []SandboxSound
<1>1. Init => IInv
  BY Start
<1>2. IInv /\ [Next]_vars => IInv'
  BY Kept
<1>3. IInv => SandboxSound
  BY Sound
<1>. QED
  BY <1>1, <1>2, <1>3, PTL DEF Spec
=============================================================================
