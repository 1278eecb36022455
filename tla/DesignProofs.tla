---------------------------- MODULE DesignProofs ----------------------------
(***************************************************************************)
(* The selection step for any parts, libraries, data sheets, requirements, *)
(* approvals and numbers of repairs, replans and resumed processes: what   *)
(* goes on to the schematic is proved by its records, and preparing it     *)
(* again keeps it.  And the runner of the pipeline in each of its settings *)
(* keeps the promises proved in RunnerProofs.                              *)
(***************************************************************************)
EXTENDS ComponentSelection, TLAPS

(* What the lemmas below know of the constants.                            *)
Instance ==
  /\ Unnamed \notin Devices /\ Owned \subseteq PartRefs
  /\ \A r \in PartRefs : \A x \in Offered[r] : x.sym \in Shelf /\ x.val # Unnamed
  /\ \A c \in Settings : \A x \in c.approved :
       x.sym \in Shelf /\ x.val # Unnamed /\ \A w \in Wants : Fair(x, w)
  /\ \A l \in Libraries, s \in Shelf, d \in Devices :
       s.lib = "mechanical" /\ l.sym[s].nums # {} => l.sym[s].names # Sheet[d].names

LEMMA Constants ==
  ASSUME FairReplacements
  PROVE  Instance
BY IdentitiesAssumption, PartsAssumption, FilesAssumption DEF Instance, FairReplacements
-----------------------------------------------------------------------------
(* A part has its fields, a value, and a symbol of the libraries or one    *)
(* made for it.                                                            *)
Shaped(p) ==
  p = [role |-> p.role, sym |-> p.sym, fp |-> p.fp, val |-> p.val, mpn |-> p.mpn, req |-> p.req,
       mode |-> p.mode, ready |-> p.ready, bound |-> p.bound, rec |-> p.rec]
Known(p) == Shaped(p) /\ p.val # Unnamed /\ (p.sym \in Shelf \/ Made(p.sym))

(* Compatible, of the files a record was made with.                        *)
Joined(s, f, pins, pads) ==
  IF pins = {} /\ pads = {} THEN s.lib = "mechanical" /\ f \in Holes
  ELSE pins = pads \/ (s.lib = "connector" /\ pins # {} /\ pins \subseteq pads)

Certified(rec) ==
  /\ Vouched(rec)
  /\ rec.ready => /\ Joined(rec.sym, rec.fp, rec.symFile.nums, rec.fpFile.nums)
                  /\ rec.policy = "component" => rec.sym.lib \notin {"connector", "mechanical"}

(* A receipt quotes the data sheet of its part number.                     *)
Quotes(e) ==
  /\ e.kind = "sheet" /\ e.mpn \in Devices /\ e.fp \in Sheet[e.mpn].fps
  /\ e.nums \subseteq Sheet[e.mpn].nums /\ e.names = Sheet[e.mpn].names

(* The identity a part would be asked for under the requirement w is one   *)
(* its record's symbol answers to, if it answered to the record's own.     *)
Named(p, w) == \E v \in {p.val, p.req, p.rec.sym.dev} : Matches(w.dev, v)
Tied(p, w) ==
  p.rec.ready =>
    IF Named(p, w) THEN Amended(p.rec) \/ IdentityOK(p.rec.sym, w.dev, w.mode)
    ELSE p.req = p.rec.req /\ p.mode = p.rec.mode /\ p.req # Unnamed /\ p.mode # Unnamed

(* The order o was made for the part p, or for what p was, under w.        *)
Answers(p, o, w) ==
  \/ w.dev \in Devices /\ o.req = w.dev /\ o.mode = w.mode
  \/ /\ o.mode # Unnamed /\ ~Matches(w.dev, o.req)
     /\ Matches(w.dev, p.val) =>
          /\ o.req \in Devices /\ IdentityOK(p.sym, w.dev, w.mode)
          /\ \A s \in Shelf : Matches(o.req, s.dev) => Matches(w.dev, s.dev)
Ordered(o, w) ==
  /\ o = [req |-> o.req, mode |-> o.mode, equiv |-> o.equiv, first |-> o.first,
          specs |-> o.specs, swaps |-> o.swaps, notes |-> o.notes]
  /\ o.req # Unnamed
  /\ \A x \in o.swaps : x.sym \in Shelf /\ x.val # Unnamed /\ Fair(x, w)
  /\ \A e \in o.notes : Quotes(e)
-----------------------------------------------------------------------------
(* The inductive invariant.                                                *)

Selection(b) ==
  /\ b = [parts |-> b.parts, manifest |-> b.manifest]
  /\ DOMAIN b.parts \subseteq PartRefs /\ DOMAIN b.manifest.records \subseteq PartRefs
  /\ \A r \in DOMAIN b.parts : Known(b.parts[r]) /\ Certified(b.parts[r].rec)
TiedIn(b) == \A r \in DOMAIN b.parts : Tied(b.parts[r], b.manifest.wanted)

\* A part whose symbol is its record's, or whose record had a replacement.
AsRecorded(p) == p.fp = p.rec.fp /\ (p.sym = p.rec.sym \/ Amended(p.rec))

Familiar ==
  /\ library \in Libraries /\ wanted \in Wants /\ settings \in Settings
  /\ Selection(bom) /\ Selection(held.bom)
  /\ verdict.refs \subseteq PartRefs /\ held.verdict.refs \subseteq PartRefs

Ties ==
  /\ TiedIn(held.bom)
  /\ phase \notin {"prepare", "again"} => TiedIn(bom)
  /\ phase = "prepare" /\ aim \in {"repair", "replan"} =>
       \A r \in DOMAIN bom.parts :
         bom.parts[r].rec.ready /\ bom.parts[r].sym = bom.parts[r].rec.sym =>
           Tied(bom.parts[r], wanted)

ForThis ==
  /\ phase = "idle" => aim = "propose"
  /\ phase = "regroup" => aim \in {"resume", "rerun", "replan"}
  /\ phase \in {"fetch", "persist", "copy", "check", "judge", "judged"} => bom.manifest.wanted = wanted
  /\ phase = "regroup" /\ aim = "replan" => bom.manifest.wanted = wanted
  /\ aim = "repair" => held.bom.manifest.wanted = wanted /\ (phase # "judged" => ~held.verdict.ok)
  /\ phase = "judged" => bom = held.bom /\ verdict = held.verdict

Orders ==
  phase \in {"fetch", "again"} =>
    /\ DOMAIN orders = DOMAIN bom.parts
    /\ \A r \in DOMAIN bom.parts :
         /\ Ordered(orders[r], wanted) /\ Answers(bom.parts[r], orders[r], wanted)
         /\ bom.parts[r].req = orders[r].req

\* Constrained, under the requirement w.
Asks(p, w) == \E v \in {p.val, p.req, p.sym.dev} : Matches(w.dev, v)

\* What SelectionSound says of a selection, as soon as it is checked.
SelectionOf(b, w) ==
  /\ DOMAIN b.parts # {} /\ Owned \subseteq DOMAIN b.parts
  /\ b.manifest.wanted = w
  /\ \A r \in DOMAIN b.parts :
       LET p == b.parts[r]
           rec == b.manifest.records[r]
       IN /\ p.rec = rec /\ rec.ready /\ AsRecorded(p) /\ p.mpn = rec.mpn
          /\ w.mode = "fixed" /\ Asks(p, w) /\ rec.policy = "component" =>
               Matches(w.dev, p.sym.dev)
  /\ w.mode = "fixed" => \E r \in DOMAIN b.parts : Asks(b.parts[r], w)

Checked == phase \in {"judge", "judged"} /\ verdict.ok => SelectionOf(bom, wanted)

Resumable ==
  /\ phase = "prepare" /\ aim = "repair" =>
       \A r \in DOMAIN bom.parts : bom.parts[r].rec.ready =>
         r \in DOMAIN held.bom.parts /\ bom.parts[r] = held.bom.parts[r]
  /\ phase = "regroup" /\ aim = "replan" => bom = held.bom
  /\ phase \in {"regroup", "prepare"} /\ aim = "replan" =>
       /\ DOMAIN bom.parts = DOMAIN held.bom.parts
       /\ \A r \in DOMAIN bom.parts :
            /\ AsRecorded(held.bom.parts[r])
            /\ bom.parts[r].rec = held.bom.parts[r].rec /\ bom.parts[r].val = held.bom.parts[r].val

IInv == Familiar /\ Ties /\ ForThis /\ Orders /\ Checked /\ Resumable
-----------------------------------------------------------------------------
(* What resolving a part may come to.                                      *)

Alike(p, q) == p.sym = q.sym /\ p.fp = q.fp /\ p.val = q.val

Stays(p, o, res) ==
  res.ok = TRUE /\ Alike(res.part, p) /\ Installed(p, o.req, o.mode) = "ready"
Recovers(p, o, res) ==
  /\ res.ok = TRUE /\ Installed(p, o.req, o.mode) # "ready"
  /\ \E s \in Shelf :
       /\ Matches(IF o.req \in Devices THEN o.req ELSE p.sym.dev, s.dev)
       /\ Installed([p EXCEPT !.sym = s], o.req, o.mode) = "ready"
       /\ Alike(res.part, [p EXCEPT !.sym = s])
Replaced(p, o, res) ==
  /\ res.ok = TRUE
  /\ \E x \in o.swaps :
       /\ Allowed(x, p, o) /\ Installed(Swapped(p, x), x.val, o.mode) = "ready"
       /\ Alike(res.part, Swapped(p, x))
Fails(p, o, res) ==
  /\ res.ok = FALSE
  /\ \/ Alike(res.part, p)
     \/ /\ o.first \/ o.specs # {}
        /\ Made(res.part.sym) /\ res.part.val = o.req

Outcome(p, o, res) ==
  /\ res = [part |-> res.part, ok |-> res.ok, blocks |-> res.blocks]
  /\ Shaped(res.part)
  /\ res.part.role = p.role /\ res.part.mpn = p.mpn /\ res.part.rec = p.rec
  /\ res.part.req = o.req /\ res.part.mode = o.mode /\ res.part.bound = p.bound
  /\ Stays(p, o, res) \/ Recovers(p, o, res) \/ Replaced(p, o, res) \/ Fails(p, o, res)

(* Finish(p, o, ok, blocks), told by its fields.                           *)
Ends(res, p, o) ==
  /\ res = [part |-> res.part, ok |-> res.ok, blocks |-> res.blocks]
  /\ res.part = [p EXCEPT !.req = o.req, !.mode = o.mode, !.ready = res.ok]

LEMMA Finished ==
  ASSUME NEW p, Shaped(p), NEW o, NEW res, Ends(res, p, o)
  PROVE  /\ res = [part |-> res.part, ok |-> res.ok, blocks |-> res.blocks]
         /\ Shaped(res.part) /\ Alike(res.part, p)
         /\ res.part.role = p.role /\ res.part.mpn = p.mpn /\ res.part.rec = p.rec
         /\ res.part.req = o.req /\ res.part.mode = o.mode /\ res.part.bound = p.bound
BY DEF Ends, Shaped, Alike

(* [p EXCEPT !.sym = s, !.fp = f, !.val = v], told by its fields.          *)
Edit(q, p, s, f, v) == q = [p EXCEPT !.sym = s, !.fp = f, !.val = v]

LEMMA Edited ==
  ASSUME NEW p, Shaped(p), NEW s, NEW q, q = [p EXCEPT !.sym = s]
  PROVE  /\ Shaped(q) /\ q.role = p.role /\ q.mpn = p.mpn /\ q.rec = p.rec /\ q.bound = p.bound
         /\ q.sym = s /\ q.fp = p.fp /\ q.val = p.val /\ q.req = p.req /\ q.mode = p.mode
BY DEF Shaped

LEMMA Rewritten ==
  ASSUME NEW p, Shaped(p), NEW s, NEW f, NEW v, NEW q, Edit(q, p, s, f, v)
  PROVE  /\ Shaped(q) /\ q.role = p.role /\ q.mpn = p.mpn /\ q.rec = p.rec /\ q.bound = p.bound
         /\ q.sym = s /\ q.fp = f /\ q.val = v /\ q.req = p.req /\ q.mode = p.mode
BY DEF Shaped, Edit

LEMMA Outcomes ==
  ASSUME NEW p, Shaped(p), NEW o, NEW res \in Resolve(p, o)
  PROVE  Outcome(p, o, res)
<1>. DEFINE why == Installed(p, o.req, o.mode)
<1>1. CASE why = "ready"
  <2>1. res = Finish(p, o, TRUE, FALSE)
    BY <1>1 DEF Resolve
  <2>2. Ends(res, p, o) /\ res.ok = TRUE
    BY <2>1 DEF Finish, Ends
  <2>3. Stays(p, o, res)
    BY <1>1, <2>2, Finished DEF Stays
  <2>. QED
    BY <2>2, <2>3, Finished DEF Outcome
<1>2. CASE why = "placeholder"
  <2>1. res = Finish(p, o, FALSE, FALSE)
    BY <1>2 DEF Resolve
  <2>2. Ends(res, p, o) /\ res.ok = FALSE
    BY <2>1 DEF Finish, Ends
  <2>3. Fails(p, o, res)
    BY <2>2, Finished DEF Fails
  <2>. QED
    BY <2>2, <2>3, Finished DEF Outcome
<1>3. CASE why \notin {"ready", "placeholder"}
  <2>1. \/ \E s \in Recovered(p, o) : res = Finish([p EXCEPT !.sym = s], o, TRUE, FALSE)
        \/ res \in StandIns(p, o, why)
    BY <1>3 DEF Resolve
  <2>2. CASE \E s \in Recovered(p, o) : res = Finish([p EXCEPT !.sym = s], o, TRUE, FALSE)
    <3>1. PICK s \in Recovered(p, o) : res = Finish([p EXCEPT !.sym = s], o, TRUE, FALSE)
      BY <2>2
    <3>. DEFINE q == [p EXCEPT !.sym = s]
    <3>2. /\ s \in Shelf /\ Matches(IF o.req \in Devices THEN o.req ELSE p.sym.dev, s.dev)
          /\ Installed(q, o.req, o.mode) = "ready"
      BY DEF Recovered, Candidates
    <3>3. Ends(res, q, o) /\ res.ok = TRUE
      BY <3>1 DEF Finish, Ends
    <3>4. /\ Shaped(q) /\ q.role = p.role /\ q.mpn = p.mpn /\ q.rec = p.rec /\ q.bound = p.bound
      BY Edited
    <3>5. why # "ready"
      BY <1>3
    <3>6. /\ res = [part |-> res.part, ok |-> res.ok, blocks |-> res.blocks]
          /\ Shaped(res.part) /\ Alike(res.part, q)
          /\ res.part.role = q.role /\ res.part.mpn = q.mpn /\ res.part.rec = q.rec
          /\ res.part.req = o.req /\ res.part.mode = o.mode /\ res.part.bound = q.bound
      <4>. HIDE DEF q
      <4>. QED
        BY <3>3, <3>4, Finished
    <3>7. Recovers(p, o, res)
      BY <3>2, <3>3, <3>5, <3>6, Zenon DEF Recovers
    <3>. HIDE DEF q
    <3>. QED
      BY <3>4, <3>6, <3>7 DEF Outcome
  <2>3. CASE res \in StandIns(p, o, why)
    <3>. DEFINE usable == {x \in o.swaps : Allowed(x, p, o)
                             /\ Installed(Swapped(p, x), x.val, o.mode) = "ready"}
    <3>1. \/ o.specs # {} /\ \E x \in o.specs : res = Specified(p, o, x)
          \/ \E x \in usable : res = Finish(Swapped(p, x), o, TRUE, FALSE)
          \/ o.first /\ res = Unverified(p, o)
          \/ \E blocks \in BOOLEAN : res = Finish(p, o, FALSE, blocks)
      BY <2>3 DEF StandIns
    <3>2. ASSUME NEW f, NEW nums, NEW names, o.first \/ o.specs # {},
                 Ends(res, Placeholder(p, o, f, nums, names), o), res.ok = FALSE
          PROVE  Outcome(p, o, res)
      <4>. DEFINE s == [lib |-> "placeholder", dev |-> o.req, fp |-> f, nums |-> nums, names |-> names]
      <4>1. Made(s)
        BY DEF Made
      <4>. DEFINE q == Placeholder(p, o, f, nums, names)
      <4>2. Edit(q, p, s, f, o.req)
        BY DEF Placeholder, Edit
      <4>. HIDE DEF s, q
      <4>3. Shaped(q) /\ q.role = p.role /\ q.mpn = p.mpn /\ q.rec = p.rec /\ q.bound = p.bound
            /\ q.sym = s /\ q.val = o.req
        BY <4>2, Rewritten
      <4>4. /\ res = [part |-> res.part, ok |-> res.ok, blocks |-> res.blocks]
            /\ Shaped(res.part) /\ Alike(res.part, q)
            /\ res.part.role = q.role /\ res.part.mpn = q.mpn /\ res.part.rec = q.rec
            /\ res.part.req = o.req /\ res.part.mode = o.mode /\ res.part.bound = q.bound
        BY <3>2, <4>3, Finished DEF q
      <4>5. Fails(p, o, res)
        BY <3>2, <4>1, <4>3, <4>4, Zenon DEF Fails, Alike
      <4>. QED
        BY <4>3, <4>4, <4>5, Zenon DEF Outcome
    <3>3. ASSUME Ends(res, p, o), res.ok = FALSE
          PROVE  Outcome(p, o, res)
      BY <3>3, Finished DEF Outcome, Fails
    <3>4. CASE o.specs # {} /\ \E x \in o.specs : res = Specified(p, o, x)
      <4>1. PICK x \in o.specs : res = Specified(p, o, x)
        BY <3>4
      <4>2. \/ res = Finish(Placeholder(p, o, x.fp, x.nums, x.names), o, FALSE, FALSE)
            \/ res = Finish(p, o, FALSE, TRUE)
        BY <4>1 DEF Specified
      <4>3. CASE res = Finish(p, o, FALSE, TRUE)
        BY <3>3, <4>3 DEF Finish, Ends
      <4>4. CASE res = Finish(Placeholder(p, o, x.fp, x.nums, x.names), o, FALSE, FALSE)
        <5>1. Ends(res, Placeholder(p, o, x.fp, x.nums, x.names), o) /\ res.ok = FALSE
          BY <4>4 DEF Finish, Ends
        <5>. QED
          BY <3>2, <3>4, <5>1, Zenon
      <4>. QED
        BY <4>2, <4>3, <4>4
    <3>5. CASE \E x \in usable : res = Finish(Swapped(p, x), o, TRUE, FALSE)
      <4>1. PICK x \in usable : res = Finish(Swapped(p, x), o, TRUE, FALSE)
        BY <3>5
      <4>a. Edit(Swapped(p, x), p, x.sym, x.fp, x.val)
        BY DEF Swapped, Edit
      <4>2. /\ Shaped(Swapped(p, x)) /\ Swapped(p, x).role = p.role /\ Swapped(p, x).mpn = p.mpn
            /\ Swapped(p, x).rec = p.rec /\ Swapped(p, x).bound = p.bound
        BY <4>a, Rewritten
      <4>3. Ends(res, Swapped(p, x), o) /\ res.ok = TRUE
        BY <4>1 DEF Finish, Ends
      <4>4. Alike(res.part, Swapped(p, x))
        BY <4>2, <4>3, Finished
      <4>5. x \in o.swaps /\ Allowed(x, p, o) /\ Installed(Swapped(p, x), x.val, o.mode) = "ready"
        BY <4>1
      <4>6. Replaced(p, o, res)
        BY <4>3, <4>4, <4>5 DEF Replaced
      <4>. QED
        BY <4>2, <4>3, <4>6, Finished DEF Outcome
    <3>6. CASE o.first /\ res = Unverified(p, o)
      <4>1. /\ Ends(res, Placeholder(p, o, p.fp, Pads(p.fp).nums, Bare), o) /\ res.ok = FALSE
        BY <3>6 DEF Unverified, Finish, Ends
      <4>. QED
        BY <3>2, <3>6, <4>1, Zenon
    <3>7. CASE \E blocks \in BOOLEAN : res = Finish(p, o, FALSE, blocks)
      <4>1. Ends(res, p, o) /\ res.ok = FALSE
        BY <3>7 DEF Finish, Ends
      <4>. QED
        BY <3>3, <4>1
    <3>. QED
      BY <3>1, <3>4, <3>5, <3>6, <3>7
  <2>. QED
    BY <2>1, <2>2, <2>3
<1>. QED
  BY <1>1, <1>2, <1>3
-----------------------------------------------------------------------------
(* What the files of an installed part are, and what a record says.        *)

LEMMA Ready ==
  ASSUME NEW p, NEW claim, NEW mode, Installed(p, claim, mode) = "ready"
  PROVE  /\ Sym(p.sym) # Missing /\ Pads(p.fp) # Missing
         /\ Joined(p.sym, p.fp, Sym(p.sym).nums, Pads(p.fp).nums)
         /\ p.sym.lib # "placeholder" /\ IdentityOK(p.sym, claim, mode)
<1>1. Sym(p.sym) # Missing
  BY DEF Installed
<1>2. Pads(p.fp) # Missing
  BY <1>1 DEF Installed
<1>3. Compatible(p.sym, p.fp)
  BY <1>1, <1>2 DEF Installed
<1>4. IdentityOK(p.sym, claim, mode) /\ p.sym.lib # "placeholder"
  BY <1>1, <1>2, <1>3 DEF Installed
<1>. QED
  BY <1>1, <1>2, <1>3, <1>4 DEF Compatible, Joined

LEMMA Stable ==
  ASSUME NEW p, NEW claim, NEW mode, IdentityOK(p.sym, claim, mode), p.sym.lib # "placeholder",
         Sym(p.sym) # Missing, Pads(p.fp) # Missing,
         Joined(p.sym, p.fp, Sym(p.sym).nums, Pads(p.fp).nums)
  PROVE  Installed(p, claim, mode) = "ready"
<1>1. Compatible(p.sym, p.fp)
  BY DEF Compatible, Joined
<1>. QED
  BY <1>1 DEF Installed

(* The part as it leaves resolution.                                       *)
LEMMA Resolved ==
  ASSUME Instance, NEW p, Known(p), NEW o, Ordered(o, wanted), NEW res, Outcome(p, o, res)
  PROVE  /\ Known(res.part)
         /\ res.ok => /\ Sym(res.part.sym) # Missing /\ Pads(res.part.fp) # Missing
                      /\ Joined(res.part.sym, res.part.fp, Sym(res.part.sym).nums, Pads(res.part.fp).nums)
                      /\ res.part.sym.lib # "placeholder"
<1>0. Shaped(p) /\ Shaped(res.part)
  BY DEF Known, Outcome
<1>1. CASE Stays(p, o, res)
  <2>1. Known(res.part)
    BY <1>0, <1>1 DEF Stays, Alike, Known
  <2>. QED
    BY <1>1, <2>1, Ready DEF Stays, Alike
<1>2. CASE Recovers(p, o, res)
  <2>1. PICK s \in Shelf :
          /\ Installed([p EXCEPT !.sym = s], o.req, o.mode) = "ready"
          /\ Alike(res.part, [p EXCEPT !.sym = s])
    BY <1>2 DEF Recovers
  <2>2. PICK q : q = [p EXCEPT !.sym = s]
    OBVIOUS
  <2>3. Alike(res.part, q) /\ Installed(q, o.req, o.mode) = "ready"
    BY <2>1, <2>2
  <2>4. q.sym = s /\ q.val = p.val
    BY <1>0, <2>2 DEF Shaped
  <2>5. Known(res.part)
    BY <1>0, <2>3, <2>4 DEF Alike, Known
  <2>. QED
    BY <2>3, <2>5, Ready DEF Alike
<1>3. CASE Replaced(p, o, res)
  <2>1. PICK x \in o.swaps : /\ Installed(Swapped(p, x), x.val, o.mode) = "ready"
                             /\ Alike(res.part, Swapped(p, x))
    BY <1>3 DEF Replaced
  <2>2. Swapped(p, x).sym = x.sym /\ Swapped(p, x).val = x.val
    <3>1. Edit(Swapped(p, x), p, x.sym, x.fp, x.val)
      BY DEF Swapped, Edit
    <3>. QED
      BY <1>0, <3>1, Rewritten
  <2>3. x.sym \in Shelf /\ x.val # Unnamed
    BY DEF Ordered
  <2>4. Known(res.part)
    BY <1>0, <2>1, <2>2, <2>3 DEF Alike, Known
  <2>. QED
    BY <2>1, <2>4, Ready DEF Alike
<1>4. CASE Fails(p, o, res)
  <2>1. CASE Alike(res.part, p)
    <3>1. Known(res.part)
      BY <1>0, <2>1 DEF Alike, Known
    <3>. QED
      BY <1>4, <3>1 DEF Fails
  <2>2. CASE Made(res.part.sym) /\ res.part.val = o.req
    <3>1. Known(res.part)
      BY <1>0, <2>2 DEF Known, Ordered
    <3>. QED
      BY <1>4, <3>1 DEF Fails
  <2>. QED
    BY <1>4, <2>1, <2>2 DEF Fails
<1>. QED
  BY <1>1, <1>2, <1>3, <1>4 DEF Outcome

(* A record of a maker's device rests on a receipt for its part number.    *)
LEMMA Recorded ==
  ASSUME NEW p, Shaped(p), NEW o, NEW ok \in BOOLEAN, NEW rec, rec = Record(p, o, ok)
  PROVE  /\ rec.sym = p.sym /\ rec.fp = p.fp /\ rec.req = o.req /\ rec.mode = o.mode
         /\ rec.symFile = Sym(p.sym) /\ rec.fpFile = Pads(p.fp)
         /\ rec.ready => ok /\ Fits(p)
         /\ rec.ready /\ rec.policy = "component" =>
              /\ p.sym.lib # "connector"
              /\ \E e \in o.notes : /\ e.mpn = rec.mpn /\ e.fp = p.fp /\ e.nums # {}
                                     /\ e.nums = Sym(p.sym).nums /\ e.names = Sym(p.sym).names
<1>. DEFINE evidence == o.notes \cup Local(p, o, ok)
            mpn == PartNumber(p, evidence)
<1>. PICK q : q = [p EXCEPT !.mpn = mpn]
  OBVIOUS
<1>1. q.role = p.role /\ q.sym = p.sym /\ q.fp = p.fp /\ q.mpn = mpn
  BY DEF Shaped
<1>. DEFINE truth == Truth(q, mpn, evidence)
<1>2. /\ rec.sym = q.sym /\ rec.fp = q.fp /\ rec.req = o.req /\ rec.mode = o.mode
      /\ rec.mpn = mpn /\ rec.policy = Policy(q)
      /\ rec.symFile = Sym(q.sym) /\ rec.fpFile = Pads(q.fp)
  BY DEF Record
<1>3. rec.ready => ok /\ ~Masquerade(q) /\ Fits(q) /\ PinsProved(q, truth)
  BY DEF Record
<1>. HIDE DEF truth, mpn
<1>4. Fits(q) <=> Fits(p)
  BY <1>1 DEF Fits
<1>5. ASSUME rec.ready, rec.policy = "component"
      PROVE  /\ p.sym.lib # "connector"
             /\ \E e \in o.notes : /\ e.mpn = rec.mpn /\ e.fp = p.fp /\ e.nums # {}
                                    /\ e.nums = Sym(p.sym).nums /\ e.names = Sym(p.sym).names
  <2>1. Policy(q) = "component"
    BY <1>2, <1>5
  <2>2. ~Primitive(q) /\ ~Contacts(q)
    BY <2>1 DEF Policy
  <2>3. p.sym.lib # "connector"
    BY <1>1, <1>3, <1>5, <2>2 DEF Masquerade, Contacts
  <2>4. PICK e \in truth : /\ e.fp = q.fp /\ e.nums # {} /\ e.nums = Sym(q.sym).nums
                           /\ e.names = Sym(q.sym).names
    BY <1>3, <1>5, <2>1 DEF PinsProved
  <2>5. e \in evidence /\ e.kind = "sheet" /\ e.mpn = mpn
    BY <2>1, <2>4 DEF Truth, truth
  <2>6. e \in o.notes
    BY <2>5 DEF Local
  <2>. QED
    BY <1>1, <1>2, <2>3, <2>4, <2>5, <2>6
<1>. QED
  BY <1>1, <1>2, <1>3, <1>4, <1>5

LEMMA Certification ==
  ASSUME Instance, library \in Libraries, NEW p, Known(p), NEW o, Ordered(o, wanted),
         NEW res, Outcome(p, o, res), NEW rec, rec = Record(res.part, o, res.ok)
  PROVE  Certified(rec) /\ (rec.ready => res.ok)
<1>. DEFINE a == res.part
<1>1. /\ Known(a) /\ Shaped(a) /\ res.ok \in BOOLEAN
      /\ res.ok => /\ Sym(a.sym) # Missing /\ Pads(a.fp) # Missing
                   /\ Joined(a.sym, a.fp, Sym(a.sym).nums, Pads(a.fp).nums)
                   /\ a.sym.lib # "placeholder"
  BY Resolved DEF Outcome, Stays, Recovers, Replaced, Fails
<1>2. /\ rec.sym = a.sym /\ rec.fp = a.fp
      /\ rec.symFile = Sym(a.sym) /\ rec.fpFile = Pads(a.fp)
      /\ rec.ready => res.ok
      /\ rec.ready /\ rec.policy = "component" =>
           /\ a.sym.lib # "connector"
           /\ \E e \in o.notes : /\ e.mpn = rec.mpn /\ e.fp = a.fp /\ e.nums # {}
                                  /\ e.nums = Sym(a.sym).nums /\ e.names = Sym(a.sym).names
  BY <1>1, Recorded
<1>3. ASSUME rec.ready, rec.policy = "component"
      PROVE  /\ rec.mpn \in Devices /\ rec.fp \in Sheet[rec.mpn].fps
             /\ rec.symFile.nums \subseteq Sheet[rec.mpn].nums
             /\ rec.symFile.names = Sheet[rec.mpn].names
             /\ rec.sym.lib \notin {"connector", "mechanical"}
  <2>1. PICK e \in o.notes : /\ e.mpn = rec.mpn /\ e.fp = a.fp /\ e.nums # {}
                             /\ e.nums = Sym(a.sym).nums /\ e.names = Sym(a.sym).names
    BY <1>2, <1>3
  <2>2. Quotes(e)
    BY <2>1 DEF Ordered
  <2>3. a.sym.lib # "mechanical"
    <3>1. SUFFICES ASSUME a.sym.lib = "mechanical" PROVE FALSE
      OBVIOUS
    <3>2. (a.sym \in Shelf /\ Sym(a.sym) = library.sym[a.sym]) \/ Made(a.sym)
      BY <1>1 DEF Known, Sym
    <3>3. ~Made(a.sym)
      BY <3>1 DEF Made
    <3>4. /\ library.sym[a.sym].nums # {} /\ rec.mpn \in Devices
          /\ library.sym[a.sym].names = Sheet[rec.mpn].names
      BY <2>1, <2>2, <3>2, <3>3 DEF Quotes, Sym
    <3>5. a.sym \in Shelf
      BY <3>2, <3>3
    <3>. QED
      BY <3>1, <3>4, <3>5 DEF Instance
  <2>. QED
    BY <1>2, <1>3, <2>1, <2>2, <2>3 DEF Quotes
<1>4. ASSUME rec.ready
      PROVE  /\ Missing \notin {rec.symFile, rec.fpFile} /\ rec.sym.lib # "placeholder"
             /\ Joined(rec.sym, rec.fp, rec.symFile.nums, rec.fpFile.nums)
  BY <1>1, <1>2, <1>4
<1>. QED
  BY <1>2, <1>3, <1>4 DEF Certified, Vouched, Joined

LEMMA Identical ==
  ASSUME NEW s, NEW dev, NEW mode, Matches(dev, s.dev)
  PROVE  IdentityOK(s, dev, mode)
BY DEF IdentityOK

(* The part that leaves resolution still answers its order.                *)
LEMMA Answered ==
  ASSUME Instance, NEW p, Known(p), NEW o, Ordered(o, wanted), Answers(p, o, wanted),
         NEW res, Outcome(p, o, res)
  PROVE  Answers(res.part, o, wanted)
<1>1. CASE wanted.dev \in Devices /\ o.req = wanted.dev /\ o.mode = wanted.mode
  BY <1>1 DEF Answers
<1>2. CASE ~(wanted.dev \in Devices /\ o.req = wanted.dev /\ o.mode = wanted.mode)
  <2>1. /\ o.mode # Unnamed /\ ~Matches(wanted.dev, o.req)
        /\ Matches(wanted.dev, p.val) =>
             /\ o.req \in Devices /\ IdentityOK(p.sym, wanted.dev, wanted.mode)
             /\ \A s \in Shelf : Matches(o.req, s.dev) => Matches(wanted.dev, s.dev)
    BY <1>2 DEF Answers
  <2>2. ASSUME Matches(wanted.dev, res.part.val)
        PROVE  /\ o.req \in Devices /\ IdentityOK(res.part.sym, wanted.dev, wanted.mode)
               /\ \A s \in Shelf : Matches(o.req, s.dev) => Matches(wanted.dev, s.dev)
    <3>1. CASE Stays(p, o, res)
      BY <2>1, <2>2, <3>1 DEF Stays, Alike
    <3>2. CASE Recovers(p, o, res)
      <4>1. PICK s \in Shelf : /\ Matches(IF o.req \in Devices THEN o.req ELSE p.sym.dev, s.dev)
                               /\ Alike(res.part, [p EXCEPT !.sym = s])
        BY <3>2 DEF Recovers
      <4>2. PICK q : q = [p EXCEPT !.sym = s]
        OBVIOUS
      <4>3. q.sym = s /\ q.val = p.val /\ Alike(res.part, q)
        BY <4>1, <4>2 DEF Known, Shaped
      <4>4. res.part.sym = s /\ res.part.val = p.val
        BY <4>3 DEF Alike
      <4>5. Matches(wanted.dev, s.dev)
        BY <2>1, <2>2, <4>1, <4>4
      <4>. QED
        BY <2>1, <2>2, <4>4, <4>5, Identical
    <3>3. CASE Replaced(p, o, res)
      <4>1. PICK x \in o.swaps : Allowed(x, p, o) /\ Alike(res.part, Swapped(p, x))
        BY <3>3 DEF Replaced
      <4>2. Swapped(p, x).sym = x.sym /\ Swapped(p, x).val = x.val
        <5>1. Edit(Swapped(p, x), p, x.sym, x.fp, x.val)
          BY DEF Swapped, Edit
        <5>. QED
          BY <5>1, Rewritten DEF Known
      <4>3. res.part.sym = x.sym /\ res.part.val = x.val /\ x.req = o.req
        BY <4>1, <4>2 DEF Alike, Allowed
      <4>4. Fair(x, wanted)
        BY DEF Ordered
      <4>5. x.req # wanted.dev
        BY <2>1, <2>2, <4>3 DEF Matches
      <4>. QED
        BY <2>2, <4>3, <4>4, <4>5 DEF Fair
    <3>4. CASE Fails(p, o, res)
      BY <2>1, <2>2, <3>4 DEF Fails, Alike
    <3>. QED
      BY <3>1, <3>2, <3>3, <3>4 DEF Outcome
  <2>. QED
    BY <2>1, <2>2 DEF Answers
<1>. QED
  BY <1>1, <1>2

(* Its record answers to the requirement as it does to the order.          *)
LEMMA Tying ==
  ASSUME NEW q, NEW o, Answers(q, o, wanted), o.req # Unnamed,
         q.req = o.req, q.mode = o.mode,
         q.rec.sym = q.sym, q.rec.req = o.req, q.rec.mode = o.mode
  PROVE  Tied(q, wanted)
<1>1. CASE wanted.dev \in Devices /\ o.req = wanted.dev /\ o.mode = wanted.mode
  <2>1. Named(q, wanted)
    BY <1>1 DEF Named, Matches
  <2>. QED
    BY <1>1, <2>1 DEF Tied, Amended
<1>2. CASE ~(wanted.dev \in Devices /\ o.req = wanted.dev /\ o.mode = wanted.mode)
  <2>1. /\ o.mode # Unnamed /\ ~Matches(wanted.dev, o.req)
        /\ Matches(wanted.dev, q.val) => IdentityOK(q.sym, wanted.dev, wanted.mode)
    BY <1>2 DEF Answers
  <2>2. Named(q, wanted) => IdentityOK(q.rec.sym, wanted.dev, wanted.mode)
    BY <2>1, Identical DEF Named
  <2>. QED
    BY <2>1, <2>2 DEF Tied
<1>. QED
  BY <1>1, <1>2

LEMMA Ordering ==
  ASSUME Instance, wanted \in Wants, NEW p, Known(p), NEW r, NEW c \in Settings \cup {Stripped},
         NEW o, o = Order(r, p, c)
  PROVE  /\ Ordered(o, wanted) /\ Answers(p, o, wanted)
         /\ o.req = IF Constrained(p) THEN wanted.dev ELSE IF p.req # Unnamed THEN p.req ELSE p.val
         /\ o.mode = IF Constrained(p) THEN wanted.mode ELSE IF p.mode # Unnamed THEN p.mode ELSE "capability"
<1>1. /\ o.req = IF Constrained(p) THEN wanted.dev ELSE IF p.req # Unnamed THEN p.req ELSE p.val
      /\ o.mode = IF Constrained(p) THEN wanted.mode ELSE IF p.mode # Unnamed THEN p.mode ELSE "capability"
  BY DEF Order
<1>2. Constrained(p) => wanted.dev # Unnamed /\ wanted.dev \in Devices
  BY DEF Constrained, Matches
<1>3. p.val # Unnamed
  BY DEF Known
<1>4. Answers(p, o, wanted)
  <2>1. CASE Constrained(p)
    BY <1>1, <1>2, <2>1 DEF Answers
  <2>2. CASE ~Constrained(p)
    <3>1. ~Matches(wanted.dev, p.val) /\ ~Matches(wanted.dev, p.req)
      BY <2>2 DEF Constrained, Matches, Instance
    <3>2. o.mode # Unnamed
      BY <1>1, <2>2 DEF Unnamed
    <3>. QED
      BY <1>1, <2>2, <3>1, <3>2 DEF Answers
  <2>. QED
    BY <2>1, <2>2
<1>5. \A x \in o.swaps : x.sym \in Shelf /\ x.val # Unnamed /\ Fair(x, wanted)
  <2>1. o.swaps \subseteq c.approved
    BY DEF Order
  <2>2. c.approved = {} \/ c \in Settings
    BY DEF Stripped
  <2>. QED
    BY <2>1, <2>2 DEF Instance
<1>6. \A e \in o.notes : Quotes(e)
  <2>1. o.notes = {Receipt(p, src) : src \in {d \in Official : Proved(p, d)}}
    BY DEF Order
  <2>2. ASSUME NEW src \in Official, Proved(p, src)
        PROVE  Quotes(Receipt(p, src))
    BY <2>2 DEF Proved, About, NamesPins, Receipt, Quotes
  <2>. QED
    BY <2>1, <2>2
<1>7. o = [req |-> o.req, mode |-> o.mode, equiv |-> o.equiv, first |-> o.first,
           specs |-> o.specs, swaps |-> o.swaps, notes |-> o.notes]
  BY DEF Order
<1>8. o.req # Unnamed
  BY <1>1, <1>2, <1>3
<1>. QED
  BY <1>1, <1>4, <1>5, <1>6, <1>7, <1>8 DEF Ordered

(* A prepared part has a record that is proved and answers to the          *)
(* requirement.                                                            *)
LEMMA Preparation ==
  ASSUME Instance, library \in Libraries, NEW p, Known(p), NEW o,
         Ordered(o, wanted), Answers(p, o, wanted), NEW res \in Resolve(p, o),
         NEW q, q = Prepared(res, o)
  PROVE  /\ Known(q) /\ Certified(q.rec) /\ Tied(q, wanted) /\ Answers(q, o, wanted)
         /\ q.req = o.req /\ Alike(q, res.part)
<1>1. Shaped(p)
  BY DEF Known
<1>2. Outcome(p, o, res)
  BY <1>1, Outcomes
<1>. DEFINE a == res.part
<1>. PICK rec : rec = Record(a, o, res.ok)
  OBVIOUS
<1>3. Known(a) /\ Answers(a, o, wanted) /\ Certified(rec)
  BY <1>2, Resolved, Answered, Certification
<1>4. res.ok \in BOOLEAN /\ Shaped(a) /\ a.req = o.req /\ a.mode = o.mode
  BY <1>2 DEF Outcome, Stays, Recovers, Replaced, Fails
<1>5. rec.sym = a.sym /\ rec.req = o.req /\ rec.mode = o.mode
  BY <1>4, Recorded
<1>6. q = [a EXCEPT !.mpn = rec.mpn, !.rec = rec, !.bound = res.ok \/ a.bound]
  BY DEF Prepared
<1>7. /\ Shaped(q) /\ Alike(q, a) /\ q.req = a.req /\ q.mode = a.mode /\ q.rec = rec
  BY <1>4, <1>6 DEF Shaped, Alike
<1>8. Known(q)
  BY <1>3, <1>7 DEF Known, Alike
<1>9. Answers(q, o, wanted)
  BY <1>3, <1>7 DEF Answers, Alike
<1>10. Tied(q, wanted)
  <2>1. q.rec.sym = q.sym
    BY <1>5, <1>7 DEF Alike
  <2>2. o.req # Unnamed
    BY DEF Ordered
  <2>. QED
    BY <1>4, <1>5, <1>7, <1>9, <2>1, <2>2, Tying
<1>. QED
  BY <1>3, <1>4, <1>7, <1>8, <1>9, <1>10

(* Grounding looks for other files only.                                   *)
LEMMA Grounding ==
  ASSUME NEW p, Known(p), NEW g \in Grounded(p)
  PROVE  /\ Known(g) /\ g.rec = p.rec /\ g.val = p.val /\ g.req = p.req
         /\ g.mode = p.mode /\ g.role = p.role
<1>1. Shaped(p)
  BY DEF Known
<1>. DEFINE q == IF Sym(p.sym) # Missing /\ Pads(p.sym.fp) # Missing
                 THEN [p EXCEPT !.fp = p.sym.fp] ELSE p
<1>0. Grounded(p) = UNION {{Bound([q EXCEPT !.fp = f, !.sym = s]) : s \in Siblings(q, f)} : f \in Packages(q)}
  BY DEF Grounded
<1>2. /\ Shaped(q) /\ q.sym = p.sym /\ q.rec = p.rec /\ q.val = p.val /\ q.req = p.req
      /\ q.mode = p.mode /\ q.role = p.role
  BY <1>1 DEF Shaped
<1>. HIDE DEF q
<1>a. PICK f \in Packages(q) : \E s \in Siblings(q, f) : g = Bound([q EXCEPT !.fp = f, !.sym = s])
  BY <1>0, Zenon
<1>3. PICK s \in Siblings(q, f) : g = Bound([q EXCEPT !.fp = f, !.sym = s])
  BY <1>a
<1>4. s \in Shelf \/ Made(s)
  BY <1>2, <1>3 DEF Siblings, Known
<1>. PICK h : h = [q EXCEPT !.fp = f, !.sym = s]
  OBVIOUS
<1>5. /\ Shaped(h) /\ h.sym = s /\ h.rec = p.rec /\ h.val = p.val /\ h.req = p.req
      /\ h.mode = p.mode /\ h.role = p.role
  BY <1>2 DEF Shaped
<1>6. g = Bound(h)
  BY <1>3
<1>7. /\ Shaped(g) /\ g.sym = s /\ g.rec = p.rec /\ g.val = p.val /\ g.req = p.req
      /\ g.mode = p.mode /\ g.role = p.role
  BY <1>5, <1>6 DEF Bound, Shaped
<1>. QED
  BY <1>4, <1>7 DEF Known
-----------------------------------------------------------------------------
(* What closing a selection does to a prepared part.                       *)

\* The identity and mode that Order asks a part for.
Asked(p, o) ==
  /\ o.req = IF Constrained(p) THEN wanted.dev ELSE IF p.req # Unnamed THEN p.req ELSE p.val
  /\ o.mode = IF Constrained(p) THEN wanted.mode ELSE IF p.mode # Unnamed THEN p.mode ELSE "capability"

\* Without a context a part keeps all but its symbol, and takes another only
\* if its own is not ready.
Narrow(p, o, res) ==
  /\ res.part.fp = p.fp /\ res.part.val = p.val
  /\ \/ res.part.sym = p.sym /\ (res.ok => Installed(p, o.req, o.mode) = "ready")
     \/ /\ res.ok /\ Installed(p, o.req, o.mode) # "ready"
        /\ IdentityOK(res.part.sym, o.req, o.mode)
        /\ o.req \in Devices => Matches(o.req, res.part.sym.dev)

LEMMA Closing ==
  ASSUME Instance, wanted \in Wants, NEW p, Known(p), NEW r, NEW o, o = Order(r, p, Stripped),
         NEW res \in Resolve(p, o)
  PROVE  /\ Asked(p, o) /\ Known(res.part) /\ Narrow(p, o, res) /\ res.ok \in BOOLEAN
         /\ res.part.rec = p.rec /\ res.part.mpn = p.mpn /\ res.part.role = p.role
         /\ res.part.req = o.req /\ res.part.mode = o.mode
<1>1. Ordered(o, wanted) /\ Asked(p, o)
  BY Ordering DEF Asked
<1>2. Shaped(p)
  BY DEF Known
<1>3. Outcome(p, o, res)
  BY <1>2, Outcomes
<1>4. Known(res.part)
  BY <1>1, <1>3, Resolved
<1>5. o.swaps = {} /\ o.specs = {} /\ o.first = FALSE
  BY DEF Order, Stripped
<1>6. Narrow(p, o, res)
  <2>1. CASE Stays(p, o, res)
    BY <2>1 DEF Stays, Alike, Narrow
  <2>2. CASE Recovers(p, o, res)
    <3>1. PICK s \in Shelf :
            /\ Matches(IF o.req \in Devices THEN o.req ELSE p.sym.dev, s.dev)
            /\ Installed([p EXCEPT !.sym = s], o.req, o.mode) = "ready"
            /\ Alike(res.part, [p EXCEPT !.sym = s])
      BY <2>2 DEF Recovers
    <3>2. PICK q : q = [p EXCEPT !.sym = s]
      OBVIOUS
    <3>3. q.sym = s /\ q.val = p.val /\ q.fp = p.fp
      BY <1>2, <3>2 DEF Shaped
    <3>4. Alike(res.part, q) /\ IdentityOK(q.sym, o.req, o.mode)
      BY <3>1, <3>2, Ready
    <3>. QED
      BY <2>2, <3>1, <3>3, <3>4 DEF Alike, Narrow, Recovers
  <2>3. CASE Replaced(p, o, res)
    BY <1>5, <2>3 DEF Replaced
  <2>4. CASE Fails(p, o, res)
    BY <1>5, <2>4 DEF Fails, Alike, Narrow
  <2>. QED
    BY <1>3, <2>1, <2>2, <2>3, <2>4 DEF Outcome
<1>7. res.ok \in BOOLEAN
  BY <1>3 DEF Outcome, Stays, Recovers, Replaced, Fails
<1>. QED
  BY <1>1, <1>3, <1>4, <1>6, <1>7 DEF Outcome

(* A part as its record has it is ready as long as its files are.          *)
LEMMA Steady ==
  ASSUME Instance, NEW p, Certified(p.rec), Tied(p, wanted), p.rec.ready, Fresh(p.rec), ~Amended(p.rec),
         p.sym = p.rec.sym, p.fp = p.rec.fp, NEW o, Asked(p, o)
  PROVE  Installed(p, o.req, o.mode) = "ready"
<1>1. /\ Missing \notin {p.rec.symFile, p.rec.fpFile} /\ p.sym.lib # "placeholder"
      /\ Joined(p.rec.sym, p.rec.fp, p.rec.symFile.nums, p.rec.fpFile.nums)
  BY DEF Certified, Vouched
<1>2. Sym(p.sym) = p.rec.symFile /\ Pads(p.fp) = p.rec.fpFile
  BY <1>1 DEF Fresh
<1>3. Named(p, wanted) <=> Constrained(p)
  BY DEF Named, Constrained, Matches, Instance
<1>4. IdentityOK(p.sym, o.req, o.mode)
  BY <1>3 DEF Tied, Amended, Asked
<1>. QED
  BY <1>1, <1>2, <1>4, Stable

(* The identity of a part does not depend on a symbol it took meanwhile.   *)
LEMMA Retied ==
  ASSUME Instance, NEW p, Tied(p, wanted),
         NEW g, g.rec = p.rec, g.val = p.val, g.req = p.req, g.mode = p.mode,
         NEW o, Asked(g, o), NEW res, Narrow(g, o, res),
         res.part.rec = p.rec, res.part.req = o.req, res.part.mode = o.mode,
         g.sym = p.rec.sym \/ res.part.sym = p.rec.sym
  PROVE  Tied(res.part, wanted)
<1>1. SUFFICES ASSUME p.rec.ready PROVE Tied(res.part, wanted)
  BY DEF Tied
<1>2. res.part.val = p.val
  BY DEF Narrow
<1>3. CASE Named(p, wanted)
  <2>1. Named(res.part, wanted)
    <3>1. CASE Matches(wanted.dev, p.req)
      <4>1. Constrained(g)
        BY <3>1 DEF Constrained, Matches, Instance
      <4>2. res.part.req = wanted.dev /\ wanted.dev \in Devices
        BY <3>1, <4>1 DEF Asked, Matches
      <4>. QED
        BY <4>2 DEF Named, Matches
    <3>2. CASE ~Matches(wanted.dev, p.req)
      BY <1>2, <1>3, <3>2 DEF Named
    <3>. QED
      BY <3>1, <3>2
  <2>. QED
    BY <1>1, <1>3, <2>1 DEF Tied
<1>4. CASE ~Named(p, wanted)
  <2>1. p.req = p.rec.req /\ p.mode = p.rec.mode /\ p.req # Unnamed /\ p.mode # Unnamed
    BY <1>1, <1>4 DEF Tied
  <2>2. CASE Constrained(g)
    <3>1. Matches(wanted.dev, g.sym.dev)
      BY <1>4, <2>2 DEF Constrained, Named
    <3>2. o.req = wanted.dev /\ o.mode = wanted.mode /\ wanted.dev \in Devices
      BY <2>2, <3>1 DEF Asked, Matches
    <3>3. Named(res.part, wanted)
      BY <3>2 DEF Named, Matches
    <3>4. IdentityOK(p.rec.sym, wanted.dev, wanted.mode)
      <4>1. CASE g.sym = p.rec.sym
        BY <3>1, <4>1, Identical
      <4>2. CASE res.part.sym = p.rec.sym
        <5>1. res.part.sym = g.sym \/ IdentityOK(res.part.sym, o.req, o.mode)
          BY DEF Narrow
        <5>. QED
          BY <3>1, <3>2, <4>2, <5>1, Identical
      <4>. QED
        BY <4>1, <4>2
    <3>. QED
      BY <3>3, <3>4 DEF Tied
  <2>3. CASE ~Constrained(g)
    <3>1. res.part.req = p.req /\ res.part.mode = p.mode
      BY <2>1, <2>3 DEF Asked
    <3>2. ~Named(res.part, wanted)
      BY <1>2, <1>4, <3>1 DEF Named
    <3>. QED
      BY <2>1, <3>1, <3>2 DEF Tied
  <2>. QED
    BY <2>2, <2>3
<1>. QED
  BY <1>3, <1>4

(* What the requirement fixes leaves the check as the device itself.       *)
LEMMA Fixed ==
  ASSUME Instance, NEW p, NEW o, Asked(p, o), NEW res, Narrow(p, o, res), res.ok, res.part.req = o.req,
         Certified(p.rec), p.rec.ready, p.rec.policy = "component", p.sym = p.rec.sym,
         wanted.mode = "fixed",
         NEW v \in {res.part.val, res.part.req, res.part.sym.dev}, Matches(wanted.dev, v)
  PROVE  Matches(wanted.dev, res.part.sym.dev)
<1>1. wanted.dev \in Devices /\ wanted.dev # Unnamed
  BY DEF Matches, Instance
<1>2. CASE Constrained(p)
  <2>1. o.req = wanted.dev /\ o.mode = "fixed"
    BY <1>2 DEF Asked
  <2>2. p.sym.lib \notin {"connector", "mechanical"}
    BY DEF Certified
  <2>3. CASE res.part.sym = p.sym /\ Installed(p, o.req, o.mode) = "ready"
    <3>1. IdentityOK(p.sym, wanted.dev, "fixed")
      BY <2>1, <2>3, Ready
    <3>. QED
      BY <1>1, <2>2, <2>3, <3>1 DEF IdentityOK
  <2>4. CASE o.req \in Devices => Matches(o.req, res.part.sym.dev)
    BY <1>1, <2>1, <2>4
  <2>. QED
    BY <2>3, <2>4 DEF Narrow
<1>3. CASE ~Constrained(p)
  <2>1. ~Matches(wanted.dev, p.val) /\ ~Matches(wanted.dev, p.req)
    BY <1>1, <1>3 DEF Constrained
  <2>2. res.part.val = p.val /\ res.part.req \in {p.req, p.val}
    BY <1>3 DEF Asked, Narrow
  <2>. QED
    BY <2>1, <2>2
<1>. QED
  BY <1>2, <1>3
-----------------------------------------------------------------------------
(* Every step keeps the invariant.                                         *)

LEMMA Chosen ==
  ASSUME NEW sets, NEW f \in Choices(sets)
  PROVE  DOMAIN f = DOMAIN sets /\ \A r \in DOMAIN sets : f[r] \in sets[r]
BY DEF Choices

LEMMA Begun ==
  ASSUME Instance, Init
  PROVE  IInv
<1>1. DOMAIN << >> = {}
  OBVIOUS
<1>2. Selection(NoCandidate.bom) /\ TiedIn(NoCandidate.bom)
  BY <1>1 DEF Selection, TiedIn, NoCandidate, NoManifest
<1>. QED
  BY <1>2 DEF Init, IInv, Familiar, Ties, ForThis, Orders, Checked, Resumable, NoCandidate, Failed

LEMMA Untouched ==
  ASSUME Instance, IInv, library' \in Libraries,
         UNCHANGED <<wanted, settings, aim, phase, bom, orders, verdict, held>>
  PROVE  IInv'
BY DEF IInv, Familiar, Ties, ForThis, Orders, Checked, Resumable

LEMMA Moved ==
  ASSUME Instance, IInv, Persist \/ Copy \/ Replan \/ Rerun
  PROVE  IInv'
<1>1. UNCHANGED <<library, wanted, settings, bom, orders, verdict, held>>
  BY DEF Persist, Copy, Replan, Rerun
<1>2. Familiar'
  BY <1>1 DEF IInv, Familiar
<1>3. Ties' /\ Orders'
  BY <1>1 DEF IInv, Ties, Orders, Persist, Copy, Replan, Rerun, Accepted
<1>4. ForThis'
  BY <1>1 DEF IInv, ForThis, Persist, Copy, Replan, Rerun, Accepted
<1>5. Checked'
  BY <1>1 DEF IInv, Checked, Persist, Copy, Replan, Rerun
<1>6. Resumable'
  BY <1>1 DEF IInv, Resumable, Checked, ForThis, SelectionOf, Persist, Copy, Replan, Rerun, Accepted
<1>. QED
  BY <1>2, <1>3, <1>4, <1>5, <1>6 DEF IInv
(* A part a model offers is grounded without a record.                     *)
LEMMA Offering ==
  ASSUME Instance, NEW r \in PartRefs, NEW x \in Offered[r], NEW p,
         p = Proposed(x) \/ p = Cleared(Proposed(x)), NEW g \in Grounded(p)
  PROVE  Known(g) /\ Certified(g.rec) /\ ~g.rec.ready
<1>1. x.sym \in Shelf /\ x.val # Unnamed
  BY DEF Instance
<1>2. Known(p) /\ p.rec = NoRecord
  <2>1. PICK q : q = Proposed(x)
    OBVIOUS
  <2>2. Shaped(q) /\ q.sym = x.sym /\ q.val = x.val /\ q.rec = NoRecord
    BY <2>1 DEF Proposed, Shaped
  <2>3. CASE p = q
    BY <1>1, <2>2, <2>3 DEF Known
  <2>4. CASE p = [q EXCEPT !.req = Unnamed, !.mode = Unnamed]
    BY <1>1, <2>2, <2>4 DEF Known, Shaped
  <2>. QED
    BY <2>1, <2>3, <2>4 DEF Cleared
<1>3. Known(g) /\ g.rec = NoRecord
  BY <1>2, Grounding
<1>. QED
  BY <1>3 DEF NoRecord, Certified, Vouched

LEMMA Proposing ==
  ASSUME Instance, IInv, Propose
  PROVE  IInv'
<1>. PICK refs \in SUBSET PartRefs \ {{}} :
       \E f \in Choices([r \in refs |-> UNION {Grounded(Proposed(x)) : x \in Offered[r]}]) :
         bom' = [parts |-> f, manifest |-> NoManifest]
  BY DEF Propose
<1>. PICK f \in Choices([r \in refs |-> UNION {Grounded(Proposed(x)) : x \in Offered[r]}]) :
       bom' = [parts |-> f, manifest |-> NoManifest]
  OBVIOUS
<1>1. DOMAIN f = refs /\ \A r \in refs : f[r] \in UNION {Grounded(Proposed(x)) : x \in Offered[r]}
  BY Chosen
<1>2. ASSUME NEW r \in refs
      PROVE  Known(f[r]) /\ Certified(f[r].rec)
  <2>1. PICK x \in Offered[r] : f[r] \in Grounded(Proposed(x))
    BY <1>1
  <2>. QED
    BY <2>1, Offering
<1>3. Selection(bom')
  <2>1. DOMAIN bom'.manifest.records = {}
    BY DEF NoManifest
  <2>. QED
    BY <1>1, <1>2, <2>1 DEF Selection
<1>4. /\ UNCHANGED <<library, wanted, settings, aim, orders, verdict, held>>
      /\ aim = "propose" /\ phase' = "prepare"
  BY DEF Propose, IInv, ForThis
<1>. QED
  BY <1>3, <1>4 DEF IInv, Familiar, Ties, ForThis, Orders, Checked, Resumable

(* A preparation of every part under the orders given.                     *)
LEMMA Preparing ==
  ASSUME Instance, IInv, NEW ord,
         NEW f \in Choices([r \in DOMAIN bom.parts |-> Resolve(bom.parts[r], ord[r])]),
         \A r \in DOMAIN bom.parts : Ordered(ord[r], wanted) /\ Answers(bom.parts[r], ord[r], wanted),
         NEW parts, parts = [r \in DOMAIN f |-> Prepared(f[r], ord[r])],
         NEW recs, recs = [r \in DOMAIN f |-> parts[r].rec],
         bom' = [parts |-> parts, manifest |-> [wanted |-> wanted, records |-> recs]]
  PROVE  /\ Selection(bom') /\ TiedIn(bom') /\ bom'.manifest.wanted = wanted
         /\ DOMAIN f = DOMAIN bom.parts /\ DOMAIN bom'.parts = DOMAIN bom.parts
         /\ \A r \in DOMAIN bom.parts :
              /\ f[r] \in Resolve(bom.parts[r], ord[r]) /\ Alike(bom'.parts[r], f[r].part)
              /\ Answers(bom'.parts[r], ord[r], wanted) /\ bom'.parts[r].req = ord[r].req
<1>1. DOMAIN f = DOMAIN bom.parts /\ \A r \in DOMAIN bom.parts : f[r] \in Resolve(bom.parts[r], ord[r])
  BY Chosen
<1>2. library \in Libraries /\ wanted \in Wants /\ Selection(bom)
  BY DEF IInv, Familiar
<1>3. ASSUME NEW r \in DOMAIN bom.parts
      PROVE  /\ Known(parts[r]) /\ Certified(parts[r].rec) /\ Tied(parts[r], wanted)
             /\ Answers(parts[r], ord[r], wanted) /\ parts[r].req = ord[r].req
             /\ Alike(parts[r], f[r].part)
  <2>1. Known(bom.parts[r])
    BY <1>2 DEF Selection
  <2>2. parts[r] = Prepared(f[r], ord[r])
    BY <1>1
  <2>. QED
    BY <1>1, <1>2, <2>1, <2>2, Preparation
<1>4. DOMAIN parts = DOMAIN bom.parts /\ DOMAIN recs = DOMAIN bom.parts
  BY <1>1
<1>5. bom'.parts = parts /\ bom'.manifest.wanted = wanted /\ bom'.manifest.records = recs
      /\ bom' = [parts |-> bom'.parts, manifest |-> bom'.manifest]
  OBVIOUS
<1>6. DOMAIN bom.parts \subseteq PartRefs
  BY <1>2 DEF Selection
<1>7. Selection(bom')
  BY <1>3, <1>4, <1>5, <1>6 DEF Selection
<1>8. TiedIn(bom')
  BY <1>3, <1>4, <1>5 DEF TiedIn
<1>. QED
  BY <1>1, <1>3, <1>4, <1>5, <1>7, <1>8

(* The first preparation, which makes the orders it works under.           *)
LEMMA FirstPreparation ==
  ASSUME Instance, IInv, Prepare
  PROVE  /\ Selection(bom') /\ TiedIn(bom') /\ bom'.manifest.wanted = wanted
         /\ DOMAIN bom'.parts = DOMAIN bom.parts /\ DOMAIN orders' = DOMAIN bom.parts
         /\ \A r \in DOMAIN bom.parts :
              /\ Asked(bom.parts[r], orders'[r])
              /\ \E res \in Resolve(bom.parts[r], orders'[r]) : Alike(bom'.parts[r], res.part)
              /\ Ordered(orders'[r], wanted) /\ Answers(bom'.parts[r], orders'[r], wanted)
              /\ bom'.parts[r].req = orders'[r].req
         /\ phase' \in {"fetch", "persist"}
<1>. DEFINE c == IF aim \in {"resume", "rerun", "replan"} THEN Stripped ELSE settings
            ord == [r \in DOMAIN bom.parts |-> Order(r, bom.parts[r], c)]
<1>1. PICK f \in Choices([r \in DOMAIN bom.parts |-> Resolve(bom.parts[r], ord[r])]) :
        LET parts == [r \in DOMAIN f |-> Prepared(f[r], ord[r])]
            recs == [r \in DOMAIN f |-> parts[r].rec]
        IN /\ bom' = [parts |-> parts, manifest |-> [wanted |-> wanted, records |-> recs]]
           /\ orders' = ord
           /\ phase' = IF c.fetch /\ \E r \in DOMAIN f : recs[r].lacks THEN "fetch" ELSE "persist"
  BY DEF Prepare
<1>2. ASSUME NEW r \in DOMAIN bom.parts
      PROVE  /\ Ordered(ord[r], wanted) /\ Answers(bom.parts[r], ord[r], wanted)
             /\ Asked(bom.parts[r], ord[r])
  <2>1. wanted \in Wants /\ Known(bom.parts[r]) /\ c \in Settings \cup {Stripped}
    BY DEF IInv, Familiar, Selection
  <2>2. ord[r] = Order(r, bom.parts[r], c)
    OBVIOUS
  <2>. HIDE DEF c, ord
  <2>. QED
    BY <2>1, <2>2, Ordering DEF Asked
<1>3. DOMAIN ord = DOMAIN bom.parts /\ orders' = ord /\ phase' \in {"fetch", "persist"}
  BY <1>1
<1>. HIDE DEF c, ord
<1>4. /\ Selection(bom') /\ TiedIn(bom') /\ bom'.manifest.wanted = wanted
      /\ DOMAIN bom'.parts = DOMAIN bom.parts
      /\ \A r \in DOMAIN bom.parts :
           /\ f[r] \in Resolve(bom.parts[r], ord[r]) /\ Alike(bom'.parts[r], f[r].part)
           /\ Answers(bom'.parts[r], ord[r], wanted) /\ bom'.parts[r].req = ord[r].req
  BY <1>1, <1>2, Preparing
<1>. QED
  BY <1>2, <1>3, <1>4

LEMMA PrepareKeeps ==
  ASSUME Instance, IInv, Prepare
  PROVE  IInv'
<1>1. phase = "prepare" /\ UNCHANGED <<library, wanted, settings, aim, verdict, held>>
  BY DEF Prepare
<1>2. Familiar' /\ Ties' /\ ForThis' /\ Checked' /\ Resumable'
  BY <1>1, FirstPreparation DEF IInv, Familiar, Ties, ForThis, Checked, Resumable
<1>3. Orders'
  BY <1>1, FirstPreparation DEF Orders
<1>. QED
  BY <1>2, <1>3 DEF IInv

LEMMA PrepareAgainKeeps ==
  ASSUME Instance, IInv, PrepareAgain
  PROVE  IInv'
<1>1. /\ phase = "again" /\ phase' = "persist"
      /\ UNCHANGED <<library, wanted, settings, aim, orders, verdict, held>>
  BY DEF PrepareAgain
<1>2. PICK f \in Choices([r \in DOMAIN bom.parts |-> Resolve(bom.parts[r], orders[r])]) :
        LET parts == [r \in DOMAIN f |-> Prepared(f[r], orders[r])]
        IN bom' = [parts |-> parts,
                   manifest |-> [wanted |-> wanted, records |-> [r \in DOMAIN f |-> parts[r].rec]]]
  BY DEF PrepareAgain
<1>3. \A r \in DOMAIN bom.parts : Ordered(orders[r], wanted) /\ Answers(bom.parts[r], orders[r], wanted)
  BY <1>1 DEF IInv, Orders
<1>4. Selection(bom') /\ TiedIn(bom') /\ bom'.manifest.wanted = wanted
  BY <1>2, <1>3, Preparing
<1>. QED
  BY <1>1, <1>4 DEF IInv, Familiar, Ties, ForThis, Orders, Checked, Resumable
LEMMA FetchKeeps ==
  ASSUME Instance, IInv, Fetch
  PROVE  IInv'
<1>1. /\ phase = "fetch"
      /\ UNCHANGED <<library, wanted, settings, aim, verdict, held>>
  BY DEF Fetch
<1>. DEFINE src(r) == bom.parts[r].req
<1>2. PICK found \in SUBSET {r \in DOMAIN bom.parts : bom.manifest.records[r].lacks} :
        LET proved == {r \in found : Proved(bom.parts[r], src(r))}
            fixed == {r \in found \ proved : Repairable(bom.parts[r], src(r))}
            parts == [r \in DOMAIN bom.parts |->
                        IF r \in fixed THEN SymbolRepaired(bom.parts[r], src(r)) ELSE bom.parts[r]]
            notes(r) == IF r \notin proved \cup fixed THEN {}
                        ELSE {[kind |-> "sheet", mpn |-> src(r), fp |-> parts[r].fp,
                               nums |-> Sym(parts[r].sym).nums, names |-> Sym(parts[r].sym).names]}
        IN /\ bom' = [bom EXCEPT !.parts = parts]
           /\ orders' = [r \in DOMAIN orders |-> [orders[r] EXCEPT !.notes = @ \cup notes(r)]]
           /\ phase' = IF proved \cup fixed # {} THEN "again" ELSE "persist"
  BY DEF Fetch
<1>. DEFINE proved == {r \in found : Proved(bom.parts[r], src(r))}
            fixed == {r \in found \ proved : Repairable(bom.parts[r], src(r))}
            parts == [r \in DOMAIN bom.parts |->
                        IF r \in fixed THEN SymbolRepaired(bom.parts[r], src(r)) ELSE bom.parts[r]]
            notes(r) == IF r \notin proved \cup fixed THEN {}
                        ELSE {[kind |-> "sheet", mpn |-> src(r), fp |-> parts[r].fp,
                               nums |-> Sym(parts[r].sym).nums, names |-> Sym(parts[r].sym).names]}
<1>3. /\ bom' = [bom EXCEPT !.parts = parts]
      /\ orders' = [r \in DOMAIN orders |-> [orders[r] EXCEPT !.notes = @ \cup notes(r)]]
      /\ phase' = IF proved \cup fixed # {} THEN "again" ELSE "persist"
  BY <1>2
<1>4. Selection(bom) /\ Unnamed \notin Devices
  BY DEF IInv, Familiar, Instance
<1>5. /\ bom'.parts = parts /\ bom'.manifest = bom.manifest
      /\ bom' = [parts |-> bom'.parts, manifest |-> bom'.manifest]
  BY <1>3, <1>4 DEF Selection
<1>6. /\ DOMAIN orders = DOMAIN bom.parts
      /\ \A r \in DOMAIN bom.parts :
           /\ Ordered(orders[r], wanted) /\ Answers(bom.parts[r], orders[r], wanted)
           /\ bom.parts[r].req = orders[r].req
  BY <1>1 DEF IInv, Orders
<1>7. ASSUME NEW r \in DOMAIN bom.parts
      PROVE  /\ Known(parts[r]) /\ Certified(parts[r].rec) /\ (r \notin fixed => parts[r] = bom.parts[r])
             /\ parts[r].req = bom.parts[r].req
             /\ Answers(parts[r], orders[r], wanted)
             /\ \A e \in notes(r) : Quotes(e)
  <2>. DEFINE p == bom.parts[r]
  <2>1. Known(p) /\ Shaped(p) /\ Certified(p.rec) /\ p.req = orders[r].req
        /\ Answers(p, orders[r], wanted)
    BY <1>4, <1>6 DEF Selection, Known
  <2>2. CASE r \in fixed
    <3>1. /\ p.req \in Devices /\ Sym(p.sym).nums = Sheet[p.req].nums /\ p.fp \in Sheet[p.req].fps
      BY <2>2 DEF Repairable
    <3>. DEFINE s == [lib |-> "generated", dev |-> p.req, fp |-> p.fp,
                      nums |-> Sym(p.sym).nums, names |-> Sheet[p.req].names]
    <3>2. Made(s) /\ Sym(s) = [nums |-> Sheet[p.req].nums, names |-> Sheet[p.req].names]
      BY <3>1 DEF Made, Sym
    <3>3. parts[r] = [p EXCEPT !.sym = s, !.val = p.req]
      BY <2>2 DEF SymbolRepaired
    <3>. HIDE DEF s
    <3>4. /\ Shaped(parts[r]) /\ parts[r].sym = s /\ parts[r].val = p.req /\ parts[r].fp = p.fp
          /\ parts[r].rec = p.rec /\ parts[r].req = p.req
      <4>. PICK q : q = [p EXCEPT !.sym = s, !.val = p.req]
        OBVIOUS
      <4>1. Shaped(q) /\ q.sym = s /\ q.val = p.req /\ q.fp = p.fp /\ q.rec = p.rec /\ q.req = p.req
        BY <2>1 DEF Shaped
      <4>. QED
        BY <3>3, <4>1
    <3>5. Known(parts[r])
      BY <1>4, <3>1, <3>2, <3>4 DEF Known
    <3>6. Answers(parts[r], orders[r], wanted)
      BY <2>1, <3>4 DEF Answers
    <3>8. ASSUME NEW e \in notes(r)
          PROVE  Quotes(e)
      <4>. DEFINE t == parts[r]
      <4>1. e = [kind |-> "sheet", mpn |-> p.req, fp |-> t.fp,
                 nums |-> Sym(t.sym).nums, names |-> Sym(t.sym).names]
        BY <2>2, <3>8
      <4>2. t.fp = p.fp /\ t.sym = s
        BY <3>4
      <4>. HIDE DEF t, parts
      <4>3. Sym(t.sym).nums = Sheet[p.req].nums /\ Sym(t.sym).names = Sheet[p.req].names
        BY <3>2, <4>2
      <4>. QED
        BY <3>1, <4>1, <4>2, <4>3 DEF Quotes
    <3>. QED
      BY <2>1, <2>2, <3>4, <3>5, <3>6, <3>8
  <2>3. CASE r \in proved \ fixed
    <3>1. parts[r] = p
      BY <2>3
    <3>2. Proved(p, p.req)
      BY <2>3
    <3>4. ASSUME NEW e \in notes(r)
          PROVE  Quotes(e)
      <4>. DEFINE t == parts[r]
      <4>1. e = [kind |-> "sheet", mpn |-> p.req, fp |-> t.fp,
                 nums |-> Sym(t.sym).nums, names |-> Sym(t.sym).names]
        BY <2>3, <3>4
      <4>2. e = [kind |-> "sheet", mpn |-> p.req, fp |-> p.fp,
                 nums |-> Sym(p.sym).nums, names |-> Sym(p.sym).names]
        BY <3>1, <4>1
      <4>. HIDE DEF t
      <4>. QED
        BY <3>2, <4>2 DEF Quotes, Proved, About, NamesPins
    <3>. QED
      BY <2>1, <3>1, <3>4
  <2>4. CASE r \notin proved \cup fixed
    BY <2>1, <2>4
  <2>. QED
    BY <2>2, <2>3, <2>4
<1>8. DOMAIN parts = DOMAIN bom.parts
  OBVIOUS
<1>9. phase' \in {"again", "persist"} /\ (phase' = "persist" => fixed = {})
  BY <1>3
<1>10. ASSUME NEW r \in DOMAIN bom.parts
       PROVE  /\ Ordered(orders'[r], wanted) /\ Answers(parts[r], orders'[r], wanted)
              /\ parts[r].req = orders'[r].req
  <2>. DEFINE o == orders[r]
              q == orders'[r]
  <2>1. q = [o EXCEPT !.notes = @ \cup notes(r)]
    BY <1>3, <1>6
  <2>2. Ordered(o, wanted)
    BY <1>6
  <2>3. o = [req |-> o.req, mode |-> o.mode, equiv |-> o.equiv, first |-> o.first,
             specs |-> o.specs, swaps |-> o.swaps, notes |-> o.notes]
    BY <2>2 DEF Ordered
  <2>. HIDE DEF notes, parts
  <2>4. q = [req |-> o.req, mode |-> o.mode, equiv |-> o.equiv, first |-> o.first,
             specs |-> o.specs, swaps |-> o.swaps, notes |-> o.notes \cup notes(r)]
    BY <2>1, <2>3
  <2>. HIDE DEF o, q
  <2>5. q.req = o.req /\ q.mode = o.mode /\ q.swaps = o.swaps /\ q.notes = o.notes \cup notes(r)
    BY <2>4
  <2>6. Ordered(q, wanted)
    BY <1>7, <2>2, <2>4, <2>5 DEF Ordered
  <2>7. Answers(parts[r], q, wanted)
    BY <1>7, <2>5 DEF Answers, o
  <2>. QED
    BY <1>6, <1>7, <2>5, <2>6, <2>7 DEF o, q
<1>11. DOMAIN orders' = DOMAIN bom.parts
  BY <1>3, <1>6
<1>. HIDE DEF src, proved, fixed, parts, notes
<1>12. Selection(bom')
  BY <1>4, <1>5, <1>7, <1>8 DEF Selection
<1>13. phase' = "persist" => TiedIn(bom')
  <2>1. TiedIn(bom)
    BY <1>1 DEF IInv, Ties
  <2>. QED
    BY <1>5, <1>7, <1>8, <1>9, <2>1 DEF TiedIn
<1>14. Familiar' /\ Ties' /\ Checked' /\ Resumable'
  BY <1>1, <1>9, <1>12, <1>13 DEF IInv, Familiar, Ties, Checked, Resumable
<1>15. ForThis'
  BY <1>1, <1>5, <1>9 DEF IInv, ForThis
<1>16. Orders'
  BY <1>1, <1>5, <1>8, <1>9, <1>10, <1>11 DEF Orders
<1>. QED
  BY <1>14, <1>15, <1>16 DEF IInv

(* What a check that passes has found.                                     *)
LEMMA Passing ==
  ASSUME Instance, IInv, ManifestOK(bom), bom.manifest.wanted = wanted, TiedIn(bom),
         NEW f \in Choices(Closed(bom.parts)),
         NEW parts, parts = [r \in DOMAIN f |-> f[r].part]
  PROVE  /\ DOMAIN f = DOMAIN bom.parts /\ DOMAIN parts = DOMAIN bom.parts
         /\ \A r \in DOMAIN parts :
              /\ Known(parts[r]) /\ Certified(parts[r].rec) /\ Tied(parts[r], wanted)
              /\ parts[r].rec = bom.manifest.records[r] /\ parts[r].rec.ready
              /\ parts[r].mpn = parts[r].rec.mpn
              /\ f[r].ok \in BOOLEAN /\ (f[r].ok => AsRecorded(parts[r]))
              /\ f[r].ok /\ wanted.mode = "fixed" /\ parts[r].rec.policy = "component" =>
                   \A v \in {parts[r].val, parts[r].req, parts[r].sym.dev} :
                     Matches(wanted.dev, v) => Matches(wanted.dev, parts[r].sym.dev)
<1>1. DOMAIN f = DOMAIN bom.parts
      /\ \A r \in DOMAIN bom.parts : f[r] \in Resolve(bom.parts[r], Order(r, bom.parts[r], Stripped))
  BY Chosen DEF Closed
<1>2. wanted \in Wants /\ Selection(bom) /\ DOMAIN bom.parts = DOMAIN bom.manifest.records
  BY DEF IInv, Familiar, ManifestOK, Valid
<1>3. ASSUME NEW r \in DOMAIN bom.parts
      PROVE  /\ Known(parts[r]) /\ Certified(parts[r].rec) /\ Tied(parts[r], wanted)
             /\ parts[r].rec = bom.manifest.records[r] /\ parts[r].rec.ready
             /\ parts[r].mpn = parts[r].rec.mpn
             /\ f[r].ok \in BOOLEAN /\ (f[r].ok => AsRecorded(parts[r]))
             /\ f[r].ok /\ wanted.mode = "fixed" /\ parts[r].rec.policy = "component" =>
                  \A v \in {parts[r].val, parts[r].req, parts[r].sym.dev} :
                    Matches(wanted.dev, v) => Matches(wanted.dev, parts[r].sym.dev)
  <2>. DEFINE p == bom.parts[r]
              o == Order(r, p, Stripped)
              res == f[r]
  <2>1. parts[r] = res.part
    BY <1>1
  <2>2. /\ Known(p) /\ Certified(p.rec) /\ Tied(p, wanted)
    BY <1>2 DEF Selection, TiedIn
  <2>3. /\ p.rec = bom.manifest.records[r] /\ p.sym = p.rec.sym /\ p.fp = p.rec.fp /\ p.mpn = p.rec.mpn
        /\ Fresh(p.rec) /\ p.rec.ready
    BY <1>2 DEF ManifestOK, Valid
  <2>4. o = Order(r, p, Stripped) /\ res \in Resolve(p, o)
    BY <1>1
  <2>. HIDE DEF p, o, res
  <2>5. /\ Asked(p, o) /\ Known(res.part) /\ Narrow(p, o, res) /\ res.ok \in BOOLEAN
        /\ res.part.rec = p.rec /\ res.part.mpn = p.mpn
        /\ res.part.req = o.req /\ res.part.mode = o.mode
    BY <1>2, <2>2, <2>4, Closing
  <2>6. Tied(res.part, wanted)
    BY <2>2, <2>3, <2>5, Retied
  <2>7. res.ok => AsRecorded(res.part)
    <3>1. res.part.fp = res.part.rec.fp
      BY <2>3, <2>5 DEF Narrow
    <3>2. ~Amended(p.rec) => Installed(p, o.req, o.mode) = "ready"
      BY <2>2, <2>3, <2>5, Steady
    <3>. QED
      BY <2>3, <2>5, <3>1, <3>2 DEF Narrow, AsRecorded
  <2>8. ASSUME res.ok, wanted.mode = "fixed", res.part.rec.policy = "component",
               NEW v \in {res.part.val, res.part.req, res.part.sym.dev}, Matches(wanted.dev, v)
        PROVE  Matches(wanted.dev, res.part.sym.dev)
    BY <2>2, <2>3, <2>5, <2>8, Fixed
  <2>. QED
    BY <2>1, <2>2, <2>3, <2>5, <2>6, <2>7, <2>8 DEF res
<1>4. DOMAIN parts = DOMAIN bom.parts
  BY <1>1
<1>. QED
  BY <1>1, <1>3, <1>4
LEMMA CheckKeeps ==
  ASSUME Instance, IInv, Check
  PROVE  IInv'
<1>1. /\ phase = "check" /\ phase' = "judge"
      /\ UNCHANGED <<library, wanted, settings, aim, orders, held>>
  BY DEF Check
<1>2. /\ Selection(bom) /\ Selection(held.bom) /\ TiedIn(held.bom) /\ TiedIn(bom)
      /\ bom.manifest.wanted = wanted /\ Owned \subseteq PartRefs
  BY <1>1 DEF IInv, Familiar, Ties, ForThis, Instance
<1>3. EarlyRefs(bom) \subseteq PartRefs
  BY <1>2 DEF EarlyRefs, Selection
<1>4. SUFFICES /\ Selection(bom') /\ verdict'.refs \subseteq PartRefs /\ TiedIn(bom')
               /\ bom'.manifest.wanted = wanted /\ (verdict'.ok => SelectionOf(bom', wanted))
  <2>1. Familiar'
    BY <1>1, <1>2, <1>4 DEF IInv, Familiar
  <2>2. Ties' /\ ForThis' /\ Orders' /\ Resumable'
    BY <1>1, <1>2, <1>4 DEF IInv, Ties, ForThis, Orders, Resumable
  <2>3. Checked'
    BY <1>1, <1>4 DEF Checked
  <2>. QED
    BY <2>1, <2>2, <2>3 DEF IInv
<1>5. CASE ~ManifestOK(bom)
  BY <1>2, <1>3, <1>5 DEF Check
<1>6. CASE ManifestOK(bom)
  <2>1. PICK f \in Choices(Closed(bom.parts)) :
          LET parts == [r \in DOMAIN f |-> f[r].part]
              stop == (\E r \in DOMAIN f : f[r].blocks) \/ ~ClosureOK(parts)
              failed == EarlyRefs(bom) \cup {r \in DOMAIN f : ~f[r].ok}
              stale == {r \in DOMAIN f \cap DOMAIN closure : ~Current(closure[r])}
              wrong == {r \in DOMAIN f : ~PartOK(parts[r])}
          IN /\ bom' = [bom EXCEPT !.parts = parts]
             /\ \/ stop /\ verdict' = [ok |-> FALSE, refs |-> failed \cup stale, add |-> FALSE]
                \/ /\ ~stop
                   /\ \E x \in Further(parts) :
                        verdict' = [ok |-> /\ x.ok /\ failed \cup wrong = {}
                                           /\ DOMAIN f # {} /\ FixedPresent(parts),
                                    refs |-> failed \cup wrong \cup x.refs, add |-> x.add]
    BY <1>6 DEF Check
  <2>. DEFINE parts == [r \in DOMAIN f |-> f[r].part]
              failed == EarlyRefs(bom) \cup {r \in DOMAIN f : ~f[r].ok}
              stale == {r \in DOMAIN f \cap DOMAIN closure : ~Current(closure[r])}
              wrong == {r \in DOMAIN f : ~PartOK(parts[r])}
  <2>2. /\ bom' = [bom EXCEPT !.parts = parts]
        /\ \/ verdict' = [ok |-> FALSE, refs |-> failed \cup stale, add |-> FALSE]
           \/ \E x \in Further(parts) :
                verdict' = [ok |-> /\ x.ok /\ failed \cup wrong = {}
                                   /\ DOMAIN f # {} /\ FixedPresent(parts),
                            refs |-> failed \cup wrong \cup x.refs, add |-> x.add]
    BY <2>1
  <2>3. /\ DOMAIN f = DOMAIN bom.parts /\ DOMAIN parts = DOMAIN bom.parts
        /\ \A r \in DOMAIN parts :
             /\ Known(parts[r]) /\ Certified(parts[r].rec) /\ Tied(parts[r], wanted)
             /\ parts[r].rec = bom.manifest.records[r] /\ parts[r].rec.ready
             /\ parts[r].mpn = parts[r].rec.mpn
             /\ f[r].ok \in BOOLEAN /\ (f[r].ok => AsRecorded(parts[r]))
             /\ f[r].ok /\ wanted.mode = "fixed" /\ parts[r].rec.policy = "component" =>
                  \A v \in {parts[r].val, parts[r].req, parts[r].sym.dev} :
                    Matches(wanted.dev, v) => Matches(wanted.dev, parts[r].sym.dev)
    BY <1>2, <1>6, Passing
  <2>4. failed \cup stale \cup wrong \subseteq PartRefs
    BY <1>2, <1>3, <2>3 DEF Selection
  <2>5. \A x \in Further(parts) : x.refs \subseteq PartRefs
    BY <1>2, <2>3 DEF Further, Selection
  <2>6. /\ verdict'.refs \subseteq PartRefs
        /\ verdict'.ok => failed = {} /\ DOMAIN f # {} /\ FixedPresent(parts)
    <3>. HIDE DEF parts, failed, stale, wrong
    <3>. QED
      BY <2>2, <2>4, <2>5
  <2>7. /\ bom'.parts = parts /\ bom'.manifest = bom.manifest
        /\ bom' = [parts |-> bom'.parts, manifest |-> bom'.manifest]
    BY <1>2, <2>2 DEF Selection
  <2>8. failed = {} => Owned \subseteq DOMAIN bom.parts /\ \A r \in DOMAIN f : f[r].ok
    BY DEF EarlyRefs
  <2>. HIDE DEF parts, failed, stale, wrong
  <2>9. Selection(bom') /\ TiedIn(bom')
    BY <1>2, <2>3, <2>7 DEF Selection, TiedIn
  <2>10. ASSUME verdict'.ok
         PROVE  SelectionOf(bom', wanted)
    <3>1. /\ DOMAIN parts # {} /\ Owned \subseteq DOMAIN parts /\ FixedPresent(parts)
          /\ \A r \in DOMAIN parts : f[r].ok
      BY <2>3, <2>6, <2>8, <2>10
    <3>2. wanted.mode = "fixed" =>
            \E r \in DOMAIN parts : Asks(parts[r], wanted)
      BY <3>1 DEF FixedPresent, Constrained, Asks
    <3>. QED
      BY <1>2, <2>3, <2>7, <3>1, <3>2 DEF SelectionOf, Asks
  <2>. QED
    BY <1>2, <2>6, <2>7, <2>9, <2>10
<1>. QED
  BY <1>5, <1>6

LEMMA JudgeKeeps ==
  ASSUME Instance, IInv, Judge
  PROVE  IInv'
<1>1. /\ phase = "judge" /\ phase' = "judged"
      /\ UNCHANGED <<library, wanted, settings, aim, orders>>
      /\ \/ held' = [bom |-> bom, closure |-> closure, verdict |-> verdict] /\ UNCHANGED <<bom, verdict>>
         \/ aim = "repair" /\ bom' = held.bom /\ verdict' = held.verdict /\ UNCHANGED held
  BY DEF Judge
<1>2. /\ bom' = held'.bom /\ verdict' = held'.verdict
      /\ Selection(bom') /\ verdict'.refs \subseteq PartRefs /\ TiedIn(bom')
      /\ bom'.manifest.wanted = wanted /\ (verdict'.ok => SelectionOf(bom', wanted))
  <2>1. /\ Selection(bom) /\ Selection(held.bom) /\ TiedIn(held.bom) /\ TiedIn(bom)
        /\ verdict.refs \subseteq PartRefs /\ held.verdict.refs \subseteq PartRefs
        /\ bom.manifest.wanted = wanted /\ (verdict.ok => SelectionOf(bom, wanted))
        /\ aim = "repair" => held.bom.manifest.wanted = wanted /\ ~held.verdict.ok
    BY <1>1 DEF IInv, Familiar, Ties, ForThis, Checked
  <2>2. CASE held' = [bom |-> bom, closure |-> closure, verdict |-> verdict] /\ UNCHANGED <<bom, verdict>>
    BY <2>1, <2>2
  <2>3. CASE aim = "repair" /\ bom' = held.bom /\ verdict' = held.verdict /\ UNCHANGED held
    BY <2>1, <2>3
  <2>. QED
    BY <1>1, <2>2, <2>3
<1>3. Familiar'
  BY <1>1, <1>2 DEF IInv, Familiar
<1>4. Ties' /\ ForThis' /\ Orders' /\ Checked' /\ Resumable'
  BY <1>1, <1>2 DEF Ties, ForThis, Orders, Checked, Resumable
<1>. QED
  BY <1>3, <1>4 DEF IInv

LEMMA RepairKeeps ==
  ASSUME Instance, IInv, Repair
  PROVE  IInv'
<1>1. /\ phase = "judged" /\ phase' = "prepare" /\ aim' = "repair" /\ ~verdict.ok
      /\ UNCHANGED <<library, wanted, settings, orders, verdict, held>>
  BY DEF Repair
<1>2. /\ Selection(bom) /\ TiedIn(bom) /\ bom.manifest.wanted = wanted
      /\ bom = held.bom /\ verdict = held.verdict /\ verdict.refs \subseteq PartRefs
  BY <1>1 DEF IInv, Familiar, Ties, ForThis
<1>. DEFINE old == bom.parts
<1>3. /\ bom'.manifest = NoManifest /\ bom' = [parts |-> bom'.parts, manifest |-> bom'.manifest]
      /\ DOMAIN bom'.parts \subseteq PartRefs
      /\ \A r \in DOMAIN bom'.parts :
           \/ r \in DOMAIN old /\ bom'.parts[r] = old[r]
           \/ Known(bom'.parts[r]) /\ Certified(bom'.parts[r].rec) /\ ~bom'.parts[r].rec.ready
  <2>0. DOMAIN old \subseteq PartRefs
    BY <1>2 DEF Selection
  <2>1. CASE \E r \in (verdict.refs \cap DOMAIN old) \ Protected(old) :
               bom' = [parts |-> [x \in DOMAIN old \ {r} |-> old[x]], manifest |-> NoManifest]
    BY <2>0, <2>1
  <2>2. CASE \E r \in verdict.refs \cup (IF verdict.add THEN PartRefs \ DOMAIN old ELSE {}) :
             \E q \in UNION {Grounded(Cleared(Proposed(x))) : x \in Offered[r]} :
               bom' = [parts |-> [x \in DOMAIN old \cup {r} |->
                                    IF x # r THEN old[x]
                                    ELSE IF r \in DOMAIN old THEN Inherited(q, old[r]) ELSE q],
                       manifest |-> NoManifest]
    <3>1. PICK r \in PartRefs : \E q \in UNION {Grounded(Cleared(Proposed(x))) : x \in Offered[r]} :
               bom' = [parts |-> [x \in DOMAIN old \cup {r} |->
                                    IF x # r THEN old[x]
                                    ELSE IF r \in DOMAIN old THEN Inherited(q, old[r]) ELSE q],
                       manifest |-> NoManifest]
      BY <1>2, <2>2
    <3>2. PICK q \in UNION {Grounded(Cleared(Proposed(x))) : x \in Offered[r]} :
               bom' = [parts |-> [x \in DOMAIN old \cup {r} |->
                                    IF x # r THEN old[x]
                                    ELSE IF r \in DOMAIN old THEN Inherited(q, old[r]) ELSE q],
                       manifest |-> NoManifest]
      BY <3>1
    <3>3. Known(q) /\ Certified(q.rec) /\ ~q.rec.ready
      <4>1. PICK x \in Offered[r] : q \in Grounded(Cleared(Proposed(x)))
        OBVIOUS
      <4>. QED
        BY <4>1, Offering
    <3>4. PICK n : n = IF r \in DOMAIN old THEN Inherited(q, old[r]) ELSE q
      OBVIOUS
    <3>5. Known(n) /\ n.rec = q.rec
      <4>1. CASE r \in DOMAIN old
        <5>. DEFINE a == IF old[r].req # Unnamed THEN old[r].req ELSE old[r].val
                    b == IF old[r].mode # Unnamed THEN old[r].mode ELSE "capability"
        <5>1. n = [q EXCEPT !.req = a, !.mode = b]
          BY <3>4, <4>1 DEF Inherited
        <5>. HIDE DEF a, b
        <5>2. Shaped(n) /\ n.sym = q.sym /\ n.val = q.val /\ n.rec = q.rec
          BY <3>3, <5>1 DEF Known, Shaped
        <5>. QED
          BY <3>3, <5>2 DEF Known
      <4>. QED
        BY <3>3, <3>4, <4>1
    <3>6. /\ bom'.manifest = NoManifest /\ bom' = [parts |-> bom'.parts, manifest |-> bom'.manifest]
          /\ DOMAIN bom'.parts = DOMAIN old \cup {r}
          /\ \A x \in DOMAIN old \cup {r} : bom'.parts[x] = IF x # r THEN old[x] ELSE n
      BY <3>2, <3>4
    <3>. QED
      BY <2>0, <3>3, <3>5, <3>6
  <2>3. CASE bom' = [bom EXCEPT !.manifest = NoManifest]
    BY <1>2, <2>0, <2>3 DEF Selection
  <2>. QED
    BY <2>1, <2>2, <2>3 DEF Repair
<1>4. Selection(bom')
  <2>1. DOMAIN NoManifest.records = {}
    BY DEF NoManifest
  <2>. QED
    BY <1>2, <1>3, <2>1 DEF Selection
<1>5. \A r \in DOMAIN bom'.parts : bom'.parts[r].rec.ready =>
        r \in DOMAIN old /\ bom'.parts[r] = old[r] /\ Tied(bom'.parts[r], wanted)
  BY <1>2, <1>3 DEF TiedIn
<1>6. Familiar' /\ ForThis' /\ Orders' /\ Checked'
  BY <1>1, <1>2, <1>4 DEF IInv, Familiar, ForThis, Orders, Checked
<1>7. Ties' /\ Resumable'
  BY <1>1, <1>2, <1>5 DEF IInv, Ties, Resumable
<1>. QED
  BY <1>6, <1>7 DEF IInv

LEMMA ResumeKeeps ==
  ASSUME Instance, IInv, Resume
  PROVE  IInv'
<1>1. /\ phase' = "regroup" /\ aim' = "resume" /\ bom' = held.bom
      /\ wanted' \in Wants /\ settings' \in Settings
      /\ UNCHANGED <<library, orders, verdict, held>>
  BY DEF Resume
<1>. QED
  BY <1>1 DEF IInv, Familiar, Ties, ForThis, Orders, Checked, Resumable
LEMMA RegroupKeeps ==
  ASSUME Instance, IInv, Regroup
  PROVE  IInv'
<1>1. /\ phase = "regroup" /\ aim \in {"resume", "rerun", "replan"}
      /\ UNCHANGED <<library, wanted, settings, aim, orders, verdict, held>>
  BY DEF Regroup, IInv, ForThis
<1>2. PICK g \in Choices([r \in DOMAIN bom.parts |-> Grounded(bom.parts[r])]) :
        \E f \in Choices(Closed(g)) :
          LET b == [bom EXCEPT !.parts = [r \in DOMAIN f |-> f[r].part]]
              kept == Valid(b) /\ \A r \in DOMAIN f : Fresh(b.manifest.records[r])
          IN /\ bom' = b
             /\ phase' = IF ~kept THEN "prepare" ELSE IF aim = "replan" THEN "copy" ELSE "check"
  BY DEF Regroup
<1>3. PICK f \in Choices(Closed(g)) :
          LET b == [bom EXCEPT !.parts = [r \in DOMAIN f |-> f[r].part]]
              kept == Valid(b) /\ \A r \in DOMAIN f : Fresh(b.manifest.records[r])
          IN /\ bom' = b
             /\ phase' = IF ~kept THEN "prepare" ELSE IF aim = "replan" THEN "copy" ELSE "check"
  BY <1>2
<1>4. Selection(bom) /\ Selection(held.bom) /\ wanted \in Wants /\ TiedIn(bom) /\ TiedIn(held.bom)
  BY <1>1 DEF IInv, Familiar, Ties
<1>. DEFINE parts == [r \in DOMAIN f |-> f[r].part]
<1>5. /\ bom' = [bom EXCEPT !.parts = parts]
      /\ phase' \in {"prepare", "copy", "check"} /\ (phase' # "prepare" => Valid(bom'))
  BY <1>3
<1>6. /\ bom'.parts = parts /\ bom'.manifest = bom.manifest
      /\ bom' = [parts |-> bom'.parts, manifest |-> bom'.manifest]
  BY <1>4, <1>5 DEF Selection
<1>7. /\ DOMAIN g = DOMAIN bom.parts /\ DOMAIN f = DOMAIN bom.parts /\ DOMAIN parts = DOMAIN bom.parts
      /\ \A r \in DOMAIN bom.parts :
           g[r] \in Grounded(bom.parts[r]) /\ f[r] \in Resolve(g[r], Order(r, g[r], Stripped))
  BY Chosen DEF Closed
<1>8. ASSUME NEW r \in DOMAIN bom.parts
      PROVE  /\ Known(parts[r]) /\ parts[r].rec = bom.parts[r].rec /\ parts[r].val = bom.parts[r].val
             /\ Tied(bom.parts[r], wanted) /\ parts[r].sym = parts[r].rec.sym => Tied(parts[r], wanted)
  <2>. DEFINE p == bom.parts[r]
              h == g[r]
              o == Order(r, h, Stripped)
              res == f[r]
  <2>1. parts[r] = res.part
    BY <1>7
  <2>2. Known(p)
    BY <1>4 DEF Selection
  <2>3. h \in Grounded(p) /\ o = Order(r, h, Stripped) /\ res \in Resolve(h, o)
    BY <1>7
  <2>. HIDE DEF p, h, o, res
  <2>4. Known(h) /\ h.rec = p.rec /\ h.val = p.val /\ h.req = p.req /\ h.mode = p.mode
    BY <2>2, <2>3, Grounding
  <2>5. /\ Asked(h, o) /\ Known(res.part) /\ Narrow(h, o, res)
        /\ res.part.rec = h.rec /\ res.part.req = o.req /\ res.part.mode = o.mode
    BY <1>4, <2>3, <2>4, Closing
  <2>6. Tied(p, wanted) /\ res.part.sym = p.rec.sym => Tied(res.part, wanted)
    BY <2>4, <2>5, Retied
  <2>. QED
    BY <2>1, <2>4, <2>5, <2>6 DEF Narrow, p
<1>. HIDE DEF parts
<1>9. Selection(bom')
  BY <1>4, <1>6, <1>7, <1>8 DEF Selection
<1>10. aim = "replan" => bom.manifest.wanted = wanted /\ bom = held.bom
  BY <1>1 DEF IInv, ForThis, Resumable
<1>11. phase' # "prepare" => TiedIn(bom') /\ bom'.manifest.wanted = wanted
  <2>1. SUFFICES ASSUME Valid(bom') PROVE TiedIn(bom') /\ bom'.manifest.wanted = wanted
    BY <1>5
  <2>2. bom'.manifest.wanted = wanted
    BY <1>1, <2>1 DEF Valid
  <2>3. \A r \in DOMAIN parts : parts[r].sym = parts[r].rec.sym
    BY <1>6, <2>1 DEF Valid
  <2>. QED
    BY <1>4, <1>6, <1>7, <1>8, <2>2, <2>3 DEF TiedIn
<1>12. aim = "replan" =>
         \A r \in DOMAIN bom'.parts :
           bom'.parts[r].sym = bom'.parts[r].rec.sym => Tied(bom'.parts[r], wanted)
  BY <1>4, <1>6, <1>7, <1>8, <1>10 DEF TiedIn
<1>13. Familiar' /\ ForThis' /\ Orders' /\ Checked'
  BY <1>1, <1>5, <1>9, <1>11 DEF IInv, Familiar, ForThis, Orders, Checked
<1>14. Ties'
  BY <1>1, <1>4, <1>5, <1>11, <1>12 DEF Ties
<1>15. Resumable'
  BY <1>1, <1>5, <1>6, <1>7, <1>8 DEF IInv, Resumable
<1>. QED
  BY <1>13, <1>14, <1>15 DEF IInv

LEMMA Preserved ==
  ASSUME Instance, IInv, [Next]_vars
  PROVE  IInv'
<1>1. CASE LibraryChange
  BY <1>1, Untouched DEF LibraryChange
<1>2. CASE UNCHANGED vars
  <2>1. library \in Libraries
    BY DEF IInv, Familiar
  <2>. QED
    BY <1>2, <2>1, Untouched DEF vars
<1>. QED
  BY <1>1, <1>2, Moved, Proposing, PrepareKeeps, PrepareAgainKeeps, FetchKeeps, CheckKeeps,
     JudgeKeeps, RepairKeeps, ResumeKeeps, RegroupKeeps DEF Next
-----------------------------------------------------------------------------
(* What follows.                                                           *)

LEMMA Standing ==
  ASSUME Instance, IInv
  PROVE  SelectionSound
<1>1. SUFFICES ASSUME Accepted PROVE SelectionSound!2
  BY DEF SelectionSound
<1>2. SelectionOf(bom, wanted) /\ Selection(bom)
  BY <1>1 DEF Accepted, IInv, Checked, Familiar
<1>3. \A v : Matches(wanted.dev, v) => wanted.dev # Unnamed
  BY DEF Matches, Instance
<1>4. ASSUME NEW r \in DOMAIN bom.parts
      PROVE  LET p == bom.parts[r]
                 rec == bom.manifest.records[r]
             IN /\ p.rec = rec /\ rec.ready /\ Vouched(rec)
                /\ p.fp = rec.fp /\ p.mpn = rec.mpn
                /\ p.sym = rec.sym \/ Amended(rec)
                /\ wanted.mode = "fixed" /\ Constrained(p) /\ rec.policy = "component" =>
                     Matches(wanted.dev, p.sym.dev)
  <2>. DEFINE p == bom.parts[r]
              rec == bom.manifest.records[r]
  <2>1. /\ p.rec = rec /\ rec.ready /\ AsRecorded(p) /\ p.mpn = rec.mpn
        /\ wanted.mode = "fixed" /\ Asks(p, wanted) /\ rec.policy = "component" =>
             Matches(wanted.dev, p.sym.dev)
    BY <1>2 DEF SelectionOf
  <2>2. Vouched(p.rec)
    BY <1>2 DEF Selection, Certified
  <2>. HIDE DEF p, rec
  <2>3. /\ p.rec = rec /\ rec.ready /\ Vouched(rec)
        /\ p.fp = rec.fp /\ p.mpn = rec.mpn
        /\ p.sym = rec.sym \/ Amended(rec)
        /\ wanted.mode = "fixed" /\ Constrained(p) /\ rec.policy = "component" =>
             Matches(wanted.dev, p.sym.dev)
    BY <2>1, <2>2 DEF AsRecorded, Constrained, Asks
  <2>. QED
    BY <2>3 DEF p, rec
<1>5. FixedPresent(bom.parts)
  BY <1>2, <1>3 DEF SelectionOf, FixedPresent, Constrained, Asks
<1>. QED
  BY <1>2, <1>4, <1>5 DEF SelectionOf

LEMMA Keeping ==
  ASSUME Instance, IInv, [Next]_vars, phase = "prepare", phase' # phase, aim \in {"repair", "replan"},
         NEW r \in DOMAIN bom.parts, Settled(bom.parts[r])
  PROVE  Alike(bom'.parts[r], bom.parts[r])
<1>. DEFINE p == bom.parts[r]
<1>1. p.rec.ready /\ Fresh(p.rec) /\ ~Amended(p.rec) /\ p.sym = p.rec.sym /\ p.fp = p.rec.fp
  BY DEF Settled
<1>2. CASE Prepare
  <2>1. PICK o : /\ Asked(p, o)
                 /\ \E res \in Resolve(p, o) : Alike(bom'.parts[r], res.part)
    BY <1>2, FirstPreparation
  <2>2. PICK res \in Resolve(p, o) : Alike(bom'.parts[r], res.part)
    BY <2>1
  <2>3. Known(p) /\ Certified(p.rec) /\ Tied(p, wanted)
    BY <1>1 DEF IInv, Familiar, Ties, Selection
  <2>. HIDE DEF p
  <2>4. Installed(p, o.req, o.mode) = "ready"
    BY <1>1, <2>1, <2>3, Steady
  <2>5. res = Finish(p, o, TRUE, FALSE)
    BY <2>4 DEF Resolve
  <2>6. Alike(res.part, p)
    BY <2>3, <2>5, Finished DEF Finish, Ends, Known
  <2>. QED
    BY <2>2, <2>6 DEF Alike, p
<1>3. CASE Resume
  <2>1. bom' = held.bom
    BY <1>3 DEF Resume
  <2>2. CASE aim = "repair"
    BY <1>1, <2>1, <2>2 DEF IInv, Resumable, Alike
  <2>3. CASE aim = "replan"
    <3>1. /\ AsRecorded(held.bom.parts[r])
          /\ p.rec = held.bom.parts[r].rec /\ p.val = held.bom.parts[r].val
      BY <2>3 DEF IInv, Resumable
    <3>. QED
      BY <1>1, <2>1, <3>1 DEF AsRecorded, Alike
  <2>. QED
    BY <2>2, <2>3
<1>. QED
  BY <1>2, <1>3 DEF Next, vars, LibraryChange, Propose, Fetch, PrepareAgain, Persist, Check, Judge,
     Repair, Replan, Accepted, Copy, Rerun, MustRerun, Regroup
(* What an accepted selection says is so in every state: each part is what *)
(* its record vouches for, and what the requirement fixes is the device.   *)
THEOREM SelectionStands ==
  ASSUME FairReplacements
  PROVE  Spec => []SelectionSound
<1>. Instance
  BY Constants
<1>1. Init => IInv
  BY Begun
<1>2. IInv /\ [Next]_vars => IInv'
  BY Preserved
<1>3. IInv => SelectionSound
  BY Standing
<1>. QED
  BY <1>1, <1>2, <1>3, PTL DEF Spec

(* No preparation for a repair or a replan exchanges a part that was ready *)
(* and whose files have not changed.                                       *)
THEOREM PreparationStands ==
  ASSUME FairReplacements
  PROVE  Spec => PreparationKeeps
<1>. Instance
  BY Constants
<1>1. Init => IInv
  BY Begun
<1>2. IInv /\ [Next]_vars => IInv'
  BY Preserved
<1>3. IInv /\ [Next]_vars =>
        [phase = "prepare" /\ phase' # phase /\ aim \in {"repair", "replan"} =>
           \A r \in DOMAIN bom.parts :
             Settled(bom.parts[r]) =>
               /\ bom'.parts[r].sym = bom.parts[r].sym
               /\ bom'.parts[r].fp = bom.parts[r].fp
               /\ bom'.parts[r].val = bom.parts[r].val]_vars
  BY Keeping DEF Alike
<1>. QED
  BY <1>1, <1>2, <1>3, PTL DEF Spec, PreparationKeeps

-----------------------------------------------------------------------------
(***************************************************************************)
(* The design pipeline: the selection of components, or the runner of the  *)
(* pipeline in one of four settings.  part says which of them a behaviour  *)
(* belongs to; it is chosen at the start and never changes.  The runner    *)
(* comes with its theorem.  MCDesign gives the constants values and adds   *)
(* connection synthesis.                                                   *)
(***************************************************************************)
CONSTANTS
  StrictRunner,   \* a runner's settings and bounds: a record, see Pipeline
  DraftRunner,    \* another one: drafts
  ResumedRunner,  \* another one: continuations
  RetriedRunner   \* another one: continuations after a rollback

VARIABLES
  part,                                                         \* the component
  pc, st, ck, files, snaps, until, tries, after, req, count     \* the runner

Pipeline == INSTANCE RunnerProofs WITH
  N <- StrictRunner.n, Arts <- StrictRunner.arts, MaxScore <- StrictRunner.score,
  Kinds <- StrictRunner.kinds, DraftFirst <- StrictRunner.draft,
  RepairRelease <- StrictRunner.release, Agentic <- StrictRunner.agentic,
  Capture <- StrictRunner.capture, ExecRetries <- StrictRunner.retries,
  MaxTurnsStep <- StrictRunner.stepTurns, MaxTurns <- StrictRunner.turns,
  MaxReplans <- StrictRunner.replans, MaxInter <- StrictRunner.inter,
  MaxLaunches <- StrictRunner.launches, MaxTokens <- StrictRunner.tokens,
  Failing <- StrictRunner.failing, Saving <- StrictRunner.saving,
  Raising <- StrictRunner.raising, CrashPoints <- StrictRunner.crashes

Drafts == INSTANCE RunnerProofs WITH
  N <- DraftRunner.n, Arts <- DraftRunner.arts, MaxScore <- DraftRunner.score,
  Kinds <- DraftRunner.kinds, DraftFirst <- DraftRunner.draft,
  RepairRelease <- DraftRunner.release, Agentic <- DraftRunner.agentic,
  Capture <- DraftRunner.capture, ExecRetries <- DraftRunner.retries,
  MaxTurnsStep <- DraftRunner.stepTurns, MaxTurns <- DraftRunner.turns,
  MaxReplans <- DraftRunner.replans, MaxInter <- DraftRunner.inter,
  MaxLaunches <- DraftRunner.launches, MaxTokens <- DraftRunner.tokens,
  Failing <- DraftRunner.failing, Saving <- DraftRunner.saving,
  Raising <- DraftRunner.raising, CrashPoints <- DraftRunner.crashes

Resumes == INSTANCE RunnerProofs WITH
  N <- ResumedRunner.n, Arts <- ResumedRunner.arts, MaxScore <- ResumedRunner.score,
  Kinds <- ResumedRunner.kinds, DraftFirst <- ResumedRunner.draft,
  RepairRelease <- ResumedRunner.release, Agentic <- ResumedRunner.agentic,
  Capture <- ResumedRunner.capture, ExecRetries <- ResumedRunner.retries,
  MaxTurnsStep <- ResumedRunner.stepTurns, MaxTurns <- ResumedRunner.turns,
  MaxReplans <- ResumedRunner.replans, MaxInter <- ResumedRunner.inter,
  MaxLaunches <- ResumedRunner.launches, MaxTokens <- ResumedRunner.tokens,
  Failing <- ResumedRunner.failing, Saving <- ResumedRunner.saving,
  Raising <- ResumedRunner.raising, CrashPoints <- ResumedRunner.crashes

Rollbacks == INSTANCE RunnerProofs WITH
  N <- RetriedRunner.n, Arts <- RetriedRunner.arts, MaxScore <- RetriedRunner.score,
  Kinds <- RetriedRunner.kinds, DraftFirst <- RetriedRunner.draft,
  RepairRelease <- RetriedRunner.release, Agentic <- RetriedRunner.agentic,
  Capture <- RetriedRunner.capture, ExecRetries <- RetriedRunner.retries,
  MaxTurnsStep <- RetriedRunner.stepTurns, MaxTurns <- RetriedRunner.turns,
  MaxReplans <- RetriedRunner.replans, MaxInter <- RetriedRunner.inter,
  MaxLaunches <- RetriedRunner.launches, MaxTokens <- RetriedRunner.tokens,
  Failing <- RetriedRunner.failing, Saving <- RetriedRunner.saving,
  Raising <- RetriedRunner.raising, CrashPoints <- RetriedRunner.crashes

(* A behaviour of what was chosen.                                         *)
DesignSpec ==
  /\ part = "select" => Spec
  /\ part = "pipeline" => Pipeline!Spec
  /\ part = "drafts" => Drafts!Spec
  /\ part = "resumes" => Resumes!Spec
  /\ part = "rollbacks" => Rollbacks!Spec
  /\ [][part' = part]_part

(* A checkpoint is never refused by its writer, a step works on the files  *)
(* its inputs describe, a rollback has its snapshot and candidates do not  *)
(* nest, over replans, rollbacks, progress saves and stops; a continuation *)
(* is refused only where a rollback brought back an older one.             *)
RunnerSound ==
  /\ part = "pipeline" => Pipeline!RunnerSound
  /\ part = "drafts" => Drafts!RunnerSound
  /\ part = "resumes" => Resumes!RunnerSound
  /\ part = "rollbacks" => Rollbacks!RunnerSound

-----------------------------------------------------------------------------
(* Whatever its settings and bounds, a runner of the pipeline keeps its    *)
(* promises: its checkpoint is never refused by its writer, steps read     *)
(* what their inputs describe, an open candidate can be rolled back, and a *)
(* continuation is refused only after a rollback to an older one.          *)
THEOREM RunnersSound ==
  ASSUME Pipeline!RunnerConstants, Drafts!RunnerConstants, Resumes!RunnerConstants,
         Rollbacks!RunnerConstants
  PROVE  DesignSpec => []RunnerSound
<1>1. Pipeline!Spec => []Pipeline!RunnerSound
  BY Pipeline!RunnerTheorem
<1>2. Drafts!Spec => []Drafts!RunnerSound
  BY Drafts!RunnerTheorem
<1>3. Resumes!Spec => []Resumes!RunnerSound
  BY Resumes!RunnerTheorem
<1>4. Rollbacks!Spec => []Rollbacks!RunnerSound
  BY Rollbacks!RunnerTheorem
<1>5. part = "pipeline" /\ [part' = part]_part => (part = "pipeline")'
  OBVIOUS
<1>6. ~(part = "pipeline") /\ [part' = part]_part => (~(part = "pipeline"))'
  OBVIOUS
<1>7. part = "drafts" /\ [part' = part]_part => (part = "drafts")'
  OBVIOUS
<1>8. ~(part = "drafts") /\ [part' = part]_part => (~(part = "drafts"))'
  OBVIOUS
<1>9. part = "resumes" /\ [part' = part]_part => (part = "resumes")'
  OBVIOUS
<1>10. ~(part = "resumes") /\ [part' = part]_part => (~(part = "resumes"))'
  OBVIOUS
<1>11. part = "rollbacks" /\ [part' = part]_part => (part = "rollbacks")'
  OBVIOUS
<1>12. ~(part = "rollbacks") /\ [part' = part]_part => (~(part = "rollbacks"))'
  OBVIOUS
<1>13. /\ part = "pipeline" => Pipeline!RunnerSound
       /\ part = "drafts" => Drafts!RunnerSound
       /\ part = "resumes" => Resumes!RunnerSound
       /\ part = "rollbacks" => Rollbacks!RunnerSound
       => RunnerSound
  BY DEF RunnerSound
<1>. QED
  BY <1>1, <1>2, <1>3, <1>4, <1>5, <1>6, <1>7, <1>8, <1>9, <1>10, <1>11, <1>12, <1>13,
     PTL DEF DesignSpec
=============================================================================
