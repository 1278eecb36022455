--------------------------- MODULE CapabilityGaps ---------------------------
(***************************************************************************)
(* agents/ratsnestpro/ehe_memory.py and the bridge that feeds it: a defect *)
(* of the harness that runs of two projects observe independently becomes  *)
(* a capability gap of both projects, until a run of the project has shown *)
(* that everything the gap named now passes.  The runs are processes that  *)
(* share a directory of event and gap files and take no lock; any call on  *)
(* it may fail, which is swallowed, and a process may stop anywhere.  One  *)
(* failure signature is followed.  Runs that passed review leave circuit   *)
(* modules in the same partition.                                          *)
(***************************************************************************)
EXTENDS Naturals, Sequences, FiniteSets, SequencesExt

CONSTANTS
  Runs,        \* runs of one tenant and harness version
  Project,     \* the project of each run
  Governed,    \* runs with a trusted governance scope
  Refs,        \* what a failure may affect
  Modules,     \* circuit modules a reviewed run may leave
  Window,      \* _MAX_RECORDS
  MaxEvents,   \* bound on recorded events
  MaxFaults    \* bound on failed calls and stopped processes

VARIABLES
  events,      \* event files, in the order of recorded_at
  gap,         \* gap file of each project
  run,         \* the runs at work
  audit,       \* projects the published events count for the collector
  shelf,       \* module records
  earned,      \* modules promoted after review and release (ghost)
  faults

vars == <<events, gap, run, audit, shelf, earned, faults>>

Projects == {Project[r] : r \in Runs}

(* ------------------------- Failures of a step --------------------------- *)

Categories == {"hard", "transient", "structured", "evidence", "design", "unknown"}
Origins == {"infrastructure", "evidence", "design", "harness", "unknown"}

Failures == [category : Categories, origin : Origins \cup {"none"}, repair : BOOLEAN, refs : SUBSET Refs]

\* make_failure
OriginOf(f) ==
  IF f.origin # "none" THEN f.origin
  ELSE CASE f.category \in {"transient", "structured"} -> "infrastructure"
         [] f.category = "evidence"                    -> "evidence"
         [] f.category \in {"design", "hard"}          -> "design"
         [] OTHER                                      -> "unknown"

Recoverability(f) ==
  IF f.category = "hard" THEN "hard_conflict"
  ELSE IF OriginOf(f) = "infrastructure" \/ f.category \in {"transient", "structured"} THEN "retryable"
  ELSE IF OriginOf(f) = "harness" THEN "harness_observation"
  ELSE IF f.repair THEN "locally_repairable"
  ELSE IF OriginOf(f) = "design" THEN "revision_required"
  ELSE "hitl_required"

\* attribute_failure
Action(f, runs, projects) ==
  IF Recoverability(f) = "hard_conflict" THEN "stop"
  ELSE CASE OriginOf(f) = "infrastructure" -> "retry"
         [] OriginOf(f) = "design"         -> "revision"
         [] OriginOf(f) = "harness"        -> IF runs >= 2 /\ projects >= 2 THEN "capability_gap" ELSE "observe_harness"
         [] OTHER                          -> "hitl"

\* One run alone observes; the strict form is checked again by the bridge.
StrictObservation(f) ==
  Action(f, 1, 1) = "observe_harness" /\ Recoverability(f) = "harness_observation" /\ f.refs # {}

(* ------------------------------ The ledger ------------------------------ *)

Event(kind, r, refs) == [kind |-> kind, run |-> r, refs |-> refs]

\* record: the file is named by its content, so a repetition changes nothing.
Recorded(e) == IF e \in Range(events) THEN events ELSE Append(events, e)
Room(e) == e \in Range(events) \/ Len(events) < MaxEvents

\* _events
Recent == SubSeq(events, IF Len(events) > Window THEN Len(events) - Window + 1 ELSE 1, Len(events))

\* candidate_summary replays the ledger: a resolution takes back what its own
\* project had observed before.
LiveIn(seq, p) ==
  {i \in DOMAIN seq :
     /\ seq[i].kind = "observed" /\ Project[seq[i].run] = p
     /\ \A j \in DOMAIN seq : (j > i /\ Project[seq[j].run] = p) => seq[j].kind # "resolved"}
CandidateProjects == {p \in Projects : LiveIn(Recent, p) # {}}
CandidateRuns == UNION {{Recent[i].run : i \in LiveIn(Recent, p)} : p \in Projects}
CandidateRefs(p) == UNION {Recent[i].refs : i \in LiveIn(Recent, p)}

MutRecurs == Cardinality(CandidateRuns) >= 2

\* harness_recurrence
Recurs == Cardinality(CandidateRuns) >= 2 /\ Cardinality(CandidateProjects) >= 2

NoGap == [status |-> "none", refs |-> {}]
Off == [pc |-> "off", local |-> {}, refs |-> {}, todo |-> {}, read |-> NoGap, at |-> "none", out |-> {}]

Init ==
  /\ events = <<>> /\ audit = {}
  /\ gap = [p \in Projects |-> NoGap]
  /\ run = [r \in Runs |-> Off]
  /\ shelf = {} /\ earned = {}
  /\ faults = 0

\* A run starts or is taken up again with the open gaps of its project.
Launch(r) ==
  /\ run[r].pc = "off"
  /\ run' = [run EXCEPT ![r] = [Off EXCEPT !.pc = "idle",
       !.local = IF r \in Governed /\ gap[Project[r]].status = "open" THEN gap[Project[r]].refs ELSE {}]]
  /\ UNCHANGED <<events, gap, audit, shelf, earned, faults>>

Stop(r) ==
  /\ run[r].pc # "off"
  /\ faults < MaxFaults /\ faults' = faults + 1
  /\ run' = [run EXCEPT ![r] = Off]
  /\ UNCHANGED <<events, gap, audit, shelf, earned>>

(* --------------------- An observation and its promotion ------------------ *)

Observe(r) ==
  /\ run[r].pc = "idle"
  /\ \E f \in Failures :
       /\ StrictObservation(f)
       /\ LET e == Event("observed", r, f.refs) IN
          /\ Room(e)
          /\ IF r \in Governed THEN events' = Recorded(e) ELSE UNCHANGED events
          /\ run' = [run EXCEPT ![r].pc = IF r \in Governed THEN "recurrence" ELSE "idle", ![r].refs = f.refs,
                                ![r].out = IF r \in Governed THEN {"observed"} ELSE {}]
  /\ UNCHANGED <<gap, audit, shelf, earned, faults>>

Recurrence(r) ==
  /\ run[r].pc = "recurrence"
  /\ run' = [run EXCEPT ![r].pc = IF Recurs THEN "candidate" ELSE "publish"]
  /\ UNCHANGED <<events, gap, audit, shelf, earned, faults>>

\* The summary is read again; if the candidate is gone meanwhile, only the
\* run's own project is opened.
Candidate(r) ==
  /\ run[r].pc = "candidate"
  /\ run' = [run EXCEPT ![r].pc = "open",
       ![r].todo = IF CandidateProjects = {} THEN {[project |-> Project[r], refs |-> run[r].refs]}
                   ELSE {[project |-> p, refs |-> CandidateRefs(p)] : p \in CandidateProjects}]
  /\ UNCHANGED <<events, gap, audit, shelf, earned, faults>>

\* open_gap reads a gap file ...
OpenRead(r) ==
  /\ run[r].pc = "open"
  /\ \E t \in run[r].todo :
       run' = [run EXCEPT ![r].pc = "write", ![r].at = t.project, ![r].read = gap[t.project]]
  /\ UNCHANGED <<events, gap, audit, shelf, earned, faults>>

\* ... and replaces it: an open gap with the refs of both, any other anew.
OpenWrite(r) ==
  /\ run[r].pc = "write"
  /\ LET t == CHOOSE x \in run[r].todo : x.project = run[r].at
         read == run[r].read
         merged == IF read.status = "open" THEN read.refs \cup t.refs ELSE t.refs
     IN /\ gap' = IF read.status = "open" /\ merged = read.refs THEN gap
                  ELSE [gap EXCEPT ![t.project] = [status |-> "open", refs |-> merged]]
        /\ run' = [run EXCEPT ![r].todo = @ \ {t}, ![r].pc = "open",
                              ![r].at = "none", ![r].read = NoGap]
  /\ UNCHANGED <<events, audit, shelf, earned, faults>>

\* The run's own list takes the gap with the refs of this failure.
Adopt(r) ==
  /\ run[r].pc = "open" /\ run[r].todo = {}
  /\ run' = [run EXCEPT ![r].pc = "publish", ![r].local = IF @ = {} THEN run[r].refs ELSE @,
                        ![r].out = @ \cup {"gap"}]
  /\ UNCHANGED <<events, gap, audit, shelf, earned, faults>>

(* ------------------------------ A resolution ----------------------------- *)

\* The checks of the gap pass for everything it names: close_gap reads the
\* file of the run's own project.
Resolve(r) ==
  /\ run[r].pc = "idle" /\ run[r].local # {} /\ r \in Governed
  /\ run' = [run EXCEPT ![r].pc = "close", ![r].read = gap[Project[r]]]
  /\ UNCHANGED <<events, gap, audit, shelf, earned, faults>>

MutClosable(read, refs) == read.status = "open"

\* Only if the file names exactly what was shown to pass.
Closable(read, refs) == read.status = "open" /\ read.refs = refs

Close(r) ==
  /\ run[r].pc = "close"
  /\ IF Closable(run[r].read, run[r].local)
       THEN /\ gap' = [gap EXCEPT ![Project[r]] = [run[r].read EXCEPT !.status = "closed"]]
            /\ run' = [run EXCEPT ![r].pc = "closed", ![r].read = NoGap]
       ELSE /\ UNCHANGED gap
            /\ run' = [run EXCEPT ![r].pc = "publish", ![r].read = NoGap, ![r].local = {}]
  /\ UNCHANGED <<events, audit, shelf, earned, faults>>

RecordResolved(r) ==
  /\ run[r].pc = "closed"
  /\ LET e == Event("resolved", r, run[r].local) IN
     /\ Room(e)
     /\ events' = Recorded(e)
     /\ run' = [run EXCEPT ![r].pc = "publish", ![r].out = {"resolved"}, ![r].local = {}]
  /\ UNCHANGED <<gap, audit, shelf, earned, faults>>

(* ------------------- Errors and the end of an event ---------------------- *)

\* An OSError or ValueError is swallowed: what was already to be published is.
Fails(r) ==
  /\ run[r].pc \in {"recurrence", "candidate", "open", "write", "close", "closed"}
  /\ faults < MaxFaults /\ faults' = faults + 1
  /\ run' = [run EXCEPT ![r].pc = "publish", ![r].todo = {}, ![r].at = "none", ![r].read = NoGap,
                        ![r].local = IF run[r].pc \in {"close", "closed"} THEN {} ELSE @]
  /\ UNCHANGED <<events, gap, audit, shelf, earned>>

\* The events reach the audit and, in order, aggregate_candidates, for which an
\* observation or a gap counts its project and a resolution takes it out.
Publish(r) ==
  /\ run[r].pc = "publish"
  /\ audit' = CASE run[r].out = {}         -> audit
                [] "resolved" \in run[r].out -> audit \ {Project[r]}
                [] OTHER                   -> audit \cup {Project[r]}
  /\ run' = [run EXCEPT ![r].pc = "idle", ![r].out = {}, ![r].refs = {}]
  /\ UNCHANGED <<events, gap, shelf, earned, faults>>

Eligible == Cardinality(audit) >= 2

(* --------------------------- Verified modules ---------------------------- *)

MutPromotable(r, reviewed, released) == r \in Governed /\ reviewed

\* promote_verified_run
Promotable(r, reviewed, released) == r \in Governed /\ reviewed /\ released

Promote(r) ==
  /\ run[r].pc = "idle"
  /\ \E m \in Modules, reviewed, released \in BOOLEAN :
       /\ Promotable(r, reviewed, released)
       /\ shelf' = {x \in shelf : x.module # m} \cup {[module |-> m, receipt |-> "valid"]}
       /\ earned' = IF reviewed /\ released THEN earned \cup {m} ELSE earned
  /\ UNCHANGED <<events, gap, run, audit, faults>>

\* A record is damaged, or written by somebody who has no integrity secret.
Forge ==
  /\ \E m \in Modules :
       shelf' = {x \in shelf : x.module # m} \cup {[module |-> m, receipt |-> "other"]}
  /\ UNCHANGED <<events, gap, run, audit, earned, faults>>

\* search_verified_modules, of which the next run's prompt is made
Found == {x.module : x \in {y \in shelf : y.receipt = "valid"}}

Next ==
  \/ \E r \in Runs :
       \/ Launch(r) \/ Stop(r) \/ Observe(r) \/ Recurrence(r) \/ Candidate(r) \/ OpenRead(r) \/ OpenWrite(r)
       \/ Adopt(r) \/ Resolve(r) \/ Close(r) \/ RecordResolved(r) \/ Fails(r) \/ Publish(r) \/ Promote(r)
  \/ Forge

Spec == Init /\ [][Next]_vars

-----------------------------------------------------------------------------
(* No project, however many runs it makes, has a gap by itself: every gap   *)
(* and every gap a run works under goes back to observations of governed    *)
(* runs of two projects.                                                    *)
TwoProjects ==
  ((\E p \in Projects : gap[p] # NoGap) \/ (\E r \in Runs : run[r].local # {}) \/ Eligible) =>
    Cardinality({Project[events[i].run] : i \in {j \in DOMAIN events : events[j].kind = "observed"}}) >= 2

(* A gap names only what runs of its own project observed, whatever reads   *)
(* and writes of the file are interleaved.                                  *)
RefsObserved ==
  \A p \in Projects :
    gap[p].refs \subseteq UNION {events[i].refs : i \in {j \in DOMAIN events :
      events[j].kind = "observed" /\ Project[events[j].run] = p}}

(* A project is taken out of the count only by a resolution that showed     *)
(* everything its gap file named to pass: what it names was observed.       *)
ResolvedCovers ==
  \A i \in DOMAIN events : events[i].kind = "resolved" =>
    \E j \in 1..(i - 1) : events[j].kind = "observed" /\ Project[events[j].run] = Project[events[i].run]

(* Only modules of reviewed, release-ready runs are offered to later runs.  *)
FoundEarned == Found \subseteq earned

GapsSound == TwoProjects /\ RefsObserved /\ ResolvedCovers /\ FoundEarned
=============================================================================
