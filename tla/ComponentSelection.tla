------------------------- MODULE ComponentSelection -------------------------
(***************************************************************************)
(* The selection step of the pipeline.  A model proposes parts; each is    *)
(* resolved against the installed KiCad libraries and prepared into a      *)
(* record that binds the files and the evidence it rests on; the step's    *)
(* checks decide whether the bill of materials goes on to the schematic.   *)
(* Library files change meanwhile, a user approves replacements, failed    *)
(* parts are repaired by a patch of the model, a downstream failure asks   *)
(* for a new plan and a saved selection is taken up by another process.    *)
(*                                                                         *)
(* A library file is told apart by its pin (pad) numbers and by the names  *)
(* it gives them; a digest of a file is the content itself.  An identity   *)
(* is a member of Devices, Plain (a value such as 100nF) or Unnamed.       *)
(***************************************************************************)
EXTENDS Naturals, FiniteSets

CONSTANTS
  PartRefs,     \* references of parts
  Devices,      \* identities of a maker's devices
  Qualified,    \* <<d, b>>: d is an order code of the device b
  Sheet,        \* device -> pins, names and footprints of its data sheet
  Official,     \* devices whose sheet comes with the requirement
  Stock,        \* value -> the part number the distributor's cache suggests
  Shelf,        \* symbols the installed libraries may hold
  Footprints,   \* footprints the installed libraries may hold
  Holes,        \* the footprints of mounting holes among them
  Family,       \* <<role, footprint>>: the package suits the role
  Libraries,    \* states the installed libraries may be in
  Offered,      \* reference -> parts a model may propose for it
  Owned,        \* references the topology names
  Wants,        \* identities a requirement may constrain
  Settings,     \* what a process may be started with
  MaxChanges,   \* bound on edits of library files
  MaxRepairs,   \* bound on repairs
  MaxResumes    \* bound on resumed processes

VARIABLES
  library,   \* the installed files: symbols and footprints
  wanted,    \* the identity constraint of the requirement
  settings,  \* of the process at work
  revision,  \* state.revision
  aim,       \* why it is being made: propose, repair, resume, rerun, replan
  phase,     \* where the step stands
  bom,       \* the selection at work: its parts and their manifest
  orders,    \* ComponentPreparationInput of each part
  closure,   \* component-closure.json
  verdict,   \* of the last check: ok, failed references, may parts be added
  held,      \* the selection, file and verdict to fall back to
  changes, repairs, resumes

vars == <<library, wanted, settings, revision, aim, phase, bom, orders, closure,
          verdict, held, changes, repairs, resumes>>

Plain == "plain"
Unnamed == "unnamed"
NoFootprint == "none"
Missing == [nums |-> {}, names |-> 0]
Bare == 1                       \* names that say nothing of a pin's function
NoRecord == [ready |-> FALSE]
NoManifest == [wanted |-> [dev |-> Unnamed, mode |-> "capability", equiv |-> FALSE], records |-> << >>]
Failed == [ok |-> FALSE, refs |-> {}, add |-> FALSE]
NoCandidate == [bom |-> [parts |-> << >>, manifest |-> NoManifest],
             closure |-> << >>, verdict |-> Failed]

\* A process that takes a saved selection up prepares it with an empty context.
Stripped == [approved |-> {}, signed |-> FALSE, first |-> FALSE, fetch |-> FALSE, specs |-> {}]

\* What parts are told apart by; a part always has a value, and its symbol is of
\* an installed library.  The pads of a mechanical symbol are no device's pins.
ASSUME IdentitiesAssumption == Unnamed \notin Devices /\ Owned \subseteq PartRefs
ASSUME PartsAssumption ==
  /\ \A r \in PartRefs : \A x \in Offered[r] : x.sym \in Shelf /\ x.val # Unnamed
  /\ \A c \in Settings : \A x \in c.approved : x.sym \in Shelf /\ x.val # Unnamed
ASSUME FilesAssumption ==
  \A l \in Libraries, s \in Shelf, d \in Devices :
    s.lib = "mechanical" /\ l.sym[s].nums # {} => l.sym[s].names # Sheet[d].names

-----------------------------------------------------------------------------
(* Library files.  A generated symbol is named by its content.             *)

Made(s) == s.lib \in {"placeholder", "generated"}
Sym(s) == IF Made(s) THEN [nums |-> s.nums, names |-> s.names] ELSE library.sym[s]
Pads(f) == IF f = NoFootprint THEN Missing ELSE library.fp[f]

\* grounding.symbol_identity_match_kind: exact, wildcard or qualified base.
Matches(req, dev) == req \in Devices /\ (req = dev \/ <<req, dev>> \in Qualified)

\* _compatible_pin_pad_sets
Compatible(s, f) ==
  LET pins == Sym(s).nums
      pads == Pads(f).nums
  IN IF pins = {} /\ pads = {} THEN s.lib = "mechanical" /\ f \in Holes
     ELSE pins = pads \/ (s.lib = "connector" /\ pins # {} /\ pins \subseteq pads)

\* _pin_functions_compatible
FunctionsAgree(a, b) == a.names <= Bare \/ (a.nums \subseteq b.nums /\ a.names = b.names)

\* _identity_relation is not None.  A primitive proves a topology, not a maker.
IdentityOK(s, req, mode) ==
  \/ s.lib \in {"connector", "mechanical"}
  \/ req \notin Devices
  \/ s.lib = "primitive" /\ mode # "fixed"
  \/ Matches(req, s.dev)

\* _installed_resolution: what keeps the part from release, or "ready".
Installed(p, req, mode) ==
  CASE Sym(p.sym) = Missing -> "symbol"
    [] Sym(p.sym) # Missing /\ Pads(p.fp) = Missing -> "footprint"
    [] Sym(p.sym) # Missing /\ Pads(p.fp) # Missing /\ ~Compatible(p.sym, p.fp) -> "pads"
    [] OTHER -> IF ~IdentityOK(p.sym, req, mode) THEN "identity"
                ELSE IF p.sym.lib = "placeholder" THEN "placeholder" ELSE "ready"

-----------------------------------------------------------------------------
(* Resolution of one part.                                                 *)

\* identity_constraint_for_part
Constrained(p) ==
  wanted.dev # Unnamed /\ \E v \in {p.val, p.req, p.sym.dev} : Matches(wanted.dev, v)

\* _datasheet_package_evidence: the sheet of src is about the part, and names
\* every pin of its symbol and its package.
About(p, src) == src \in Devices \cap {p.mpn, p.req, p.val, p.sym.dev}
NamesPins(p, src) ==
  /\ Sym(p.sym).nums # {} /\ Sym(p.sym).nums \subseteq Sheet[src].nums
  /\ Sym(p.sym).names = Sheet[src].names
Proved(p, src) == About(p, src) /\ NamesPins(p, src) /\ p.fp \in Sheet[src].fps
Receipt(p, src) ==
  [kind |-> "sheet", mpn |-> src, fp |-> p.fp, nums |-> Sym(p.sym).nums, names |-> Sym(p.sym).names]

\* The directive of a part under the settings c.
Order(r, p, c) ==
  [req   |-> IF Constrained(p) THEN wanted.dev ELSE IF p.req # Unnamed THEN p.req ELSE p.val,
   mode  |-> IF Constrained(p) THEN wanted.mode ELSE IF p.mode # Unnamed THEN p.mode ELSE "capability",
   equiv |-> Constrained(p) /\ wanted.equiv,
   first |-> c.first,
   specs |-> {x \in c.specs : x.ref = r},
   swaps |-> {x \in c.approved : x.ref = r /\ x.rev = revision /\ c.signed},
   notes |-> {Receipt(p, src) : src \in {d \in Official : Proved(p, d)}}]

\* Primary processors and fixed identities take no stand-in.
Hard(p, o) == o.mode = "fixed" \/ p.role = "processor"

\* finish and _annotate
Finish(p, o, ok, blocks) ==
  [part   |-> [p EXCEPT !.req = o.req, !.mode = o.mode, !.ready = ok],
   ok     |-> ok,
   blocks |-> \/ blocks
              \/ Hard(p, o) /\ ~ok /\ ~(o.first /\ p.sym.lib = "placeholder")]

\* _bounded_installed_candidate: the ranking decides among these, or on none.
Candidates(p) ==
  {s \in Shelf :
     /\ Sym(s) # Missing /\ Compatible(s, p.fp)
     /\ s.fp \in {p.fp, NoFootprint} \/ Pads(s.fp).nums = Pads(p.fp).nums
     /\ FunctionsAgree(Sym(p.sym), Sym(s))}

\* _recover_installed_candidate: the candidate that may be applied is the device.
Recovered(p, o) ==
  {s \in Candidates(p) :
     /\ Matches(IF o.req \in Devices THEN o.req ELSE p.sym.dev, s.dev)
     /\ Installed([p EXCEPT !.sym = s], o.req, o.mode) = "ready"}

\* _write_placeholder
Placeholder(p, o, f, nums, names) ==
  [p EXCEPT !.sym = [lib |-> "placeholder", dev |-> o.req, fp |-> f, nums |-> nums, names |-> names],
            !.fp = f, !.val = o.req]

\* _replacement_allowed; reference, revision and signature are in the order.
Allowed(x, p, o) ==
  /\ x.req = o.req
  /\ \/ x.rel = "exact" /\ (Hard(p, o) => x.val = o.req)
     \/ x.rel = "equivalent" /\ x.covered /\ (Hard(p, o) \/ o.equiv)
Swapped(p, x) == [p EXCEPT !.sym = x.sym, !.fp = x.fp, !.val = x.val]

\* _generate_placeholder: a specification of the very device and footprint.
Specified(p, o, x) ==
  IF x.req = o.req /\ Pads(x.fp) # Missing /\ x.nums = Pads(x.fp).nums
  THEN Finish(Placeholder(p, o, x.fp, x.nums, x.names), o, FALSE, FALSE)
  ELSE Finish(p, o, FALSE, TRUE)

\* _generate_unverified_placeholder: a pin for each pad, of no function.
Unverified(p, o) ==
  Finish(Placeholder(p, o, p.fp, Pads(p.fp).nums, Bare), o, FALSE, FALSE)

\* Outcomes when no installed symbol was applied; why is Installed's answer.
StandIns(p, o, why) ==
  LET usable == {x \in o.swaps : Allowed(x, p, o)
                                 /\ Installed(Swapped(p, x), x.val, o.mode) = "ready"}
      specs == IF why # "footprint" /\ (Hard(p, o) => o.first) THEN o.specs ELSE {}
  IN IF specs # {}
     THEN {Specified(p, o, x) : x \in specs}
     ELSE IF usable # {} THEN {Finish(Swapped(p, x), o, TRUE, FALSE) : x \in usable}
     ELSE IF o.first /\ Pads(p.fp).nums # {}
     THEN {Unverified(p, o)}
     ELSE {Finish(p, o, FALSE, blocks) :
             blocks \in {why # "identity"}
                          \cup (IF Candidates(p) # {} /\ ~Hard(p, o) THEN {TRUE} ELSE {})}

\* A resolver that prefers a candidate to the installed symbol.
MutResolve(p, o) ==
  IF Recovered(p, o) # {} THEN {Finish([p EXCEPT !.sym = s], o, TRUE, FALSE) : s \in Recovered(p, o)}
  ELSE {Finish(p, o, Installed(p, o.req, o.mode) = "ready", FALSE)}

\* ComponentResolutionService.resolve
Resolve(p, o) ==
  LET why == Installed(p, o.req, o.mode)
      found == IF why # "footprint" /\ (Pads(p.fp).nums # {} \/ p.role = "hole") /\ Pads(p.fp) # Missing
               THEN Recovered(p, o) ELSE {}
  IN CASE why = "ready" -> {Finish(p, o, TRUE, FALSE)}
       [] why = "placeholder" -> {Finish(p, o, FALSE, FALSE)}
       [] OTHER -> {Finish([p EXCEPT !.sym = s], o, TRUE, FALSE) : s \in found}
                     \cup StandIns(p, o, why)

-----------------------------------------------------------------------------
(* Preparation: the record of a part and the manifest of the selection.    *)

\* _active_role_head and _connector_component
Active(p) == p.role \in {"processor", "ic"}
Contacts(p) == ~Active(p) /\ (p.sym.lib = "connector" \/ p.role = "connector")

\* _controlled_generic_passive
Primitive(p) == p.role = "passive" /\ p.sym.lib = "primitive"

\* _evidence_policy
Policy(p) ==
  CASE p.role = "hole" -> "mechanical"
    [] p.role # "hole" /\ Primitive(p) -> "passive"
    [] p.role # "hole" /\ ~Primitive(p) /\ Contacts(p) -> "connector"
    [] OTHER -> "component"

\* _generic_ic_symbol_masquerade
Masquerade(p) ==
  /\ p.sym.lib \in {"connector", "primitive"} /\ ~Primitive(p) /\ ~Contacts(p)
  /\ Active(p) \/ Devices \cap {p.mpn, p.req, p.val} # {}

\* library_pin_pad_ok of _prepare_record
Fits(p) ==
  /\ Sym(p.sym) # Missing /\ Pads(p.fp) # Missing
  /\ \/ Sym(p.sym).nums = Pads(p.fp).nums
     \/ p.sym.lib = "connector" /\ Sym(p.sym).nums \subseteq Pads(p.fp).nums

\* _local_binding_evidence
Local(p, o, ok) ==
  IF /\ ok /\ Policy(p) \in {"component", "connector"}
     /\ Pads(p.fp) # Missing /\ Sym(p.sym).nums # {}
  THEN {[kind |-> "local",
         mpn  |-> IF Policy(p) = "connector" THEN Unnamed
                  ELSE IF p.mpn # Unnamed THEN p.mpn ELSE o.req,
         fp   |-> p.fp, nums |-> Sym(p.sym).nums, names |-> Sym(p.sym).names]}
  ELSE {}

\* The part number: the part's own, or the only one the evidence names.
PartNumber(p, evidence) ==
  LET named == {e.mpn : e \in evidence} \ {Unnamed}
  IN IF p.mpn # Unnamed THEN p.mpn
     ELSE IF \E m \in named : named = {m} THEN CHOOSE m \in named : TRUE ELSE Unnamed

\* Evidence that counts as release truth for the part number.
Truth(p, mpn, evidence) ==
  {e \in evidence :
     /\ (mpn # Unnamed /\ e.mpn = mpn) \/ (Policy(p) = "connector" /\ e.mpn = Unnamed)
     /\ e.kind = "sheet" \/ Policy(p) = "connector"}

\* pin_count_ok, and _pin_functions_match for the package chosen.
PinsProved(p, truth) ==
  /\ \A e \in truth : /\ Cardinality(e.nums) = Cardinality(Sym(p.sym).nums)
                      /\ Cardinality(e.nums) = Cardinality(Pads(p.fp).nums)
  /\ Policy(p) \in {"component", "connector"} =>
       \E e \in truth : /\ e.fp = p.fp /\ e.nums # {}
                        /\ e.nums = Sym(p.sym).nums /\ e.names = Sym(p.sym).names

\* mpn_status: the distributor's cache or any evidence knows the part number.
NumberKnown(p, mpn, evidence) ==
  mpn # Unnamed /\ (mpn \in {Stock[v] : v \in DOMAIN Stock} \/ \E e \in evidence : e.mpn = mpn)

\* _prepare_record
Record(p, o, ok) ==
  LET evidence == o.notes \cup Local(p, o, ok)
      mpn == PartNumber(p, evidence)
      q == [p EXCEPT !.mpn = mpn]
      truth == Truth(q, mpn, evidence)
      packaged == \/ Policy(q) \in {"mechanical", "passive"}
                  \/ \E e \in truth : e.fp = q.fp
  IN [sym |-> q.sym, fp |-> q.fp, mpn |-> mpn, req |-> o.req, mode |-> o.mode,
      policy |-> Policy(q), symFile |-> Sym(q.sym), fpFile |-> Pads(q.fp),
      ready |-> /\ ok /\ ~Masquerade(q)
                /\ Fits(q) /\ packaged /\ PinsProved(q, truth)
                /\ Policy(q) = "component" => NumberKnown(q, mpn, evidence),
      lacks |-> Policy(q) = "component" /\ Fits(q) /\ truth = {} /\ ok]

\* ComponentPreparationService.prepare, one part
Prepared(res, o) ==
  LET rec == Record(res.part, o, res.ok)
  IN [res.part EXCEPT !.mpn = rec.mpn, !.rec = rec, !.bound = res.ok \/ res.part.bound]

\* _asset_evidence: the files recorded are still what they were.
Fresh(rec) ==
  /\ rec.symFile # Missing => Sym(rec.sym) = rec.symFile
  /\ rec.fpFile # Missing => Pads(rec.fp) = rec.fpFile

\* A validation that forgets which requirement the records were made for.
MutValid(b) == \A r \in DOMAIN b.parts : b.parts[r].rec = b.manifest.records[r]

\* validate_prepared_selection and the requirement digest
Valid(b) ==
  /\ b.manifest.wanted = wanted
  /\ DOMAIN b.parts = DOMAIN b.manifest.records
  /\ \A r \in DOMAIN b.parts :
       LET p == b.parts[r]
           rec == b.manifest.records[r]
       IN p.rec = rec /\ p.sym = rec.sym /\ p.fp = rec.fp /\ p.mpn = rec.mpn

\* build_component_closure_manifest, one entry
Entry(p) ==
  [sym |-> p.sym, fp |-> p.fp, symFile |-> Sym(p.sym), fpFile |-> Pads(p.fp),
   ready |-> p.ready /\ p.bound /\ Fits(p)
             /\ Sym(p.sym) = p.rec.symFile /\ Pads(p.fp) = p.rec.fpFile]

-----------------------------------------------------------------------------
(* Grounding of what a model proposes or a checkpoint holds.               *)

\* _ground_mpns: the number of a prepared part, or of one the cache does not
\* know, stays.
Numbered(p) ==
  IF p.rec = NoRecord /\ p.role # "hole" /\ p.val \in DOMAIN Stock THEN Stock[p.val] ELSE p.mpn

\* _bind_selected_footprints
Bound(p) ==
  [p EXCEPT !.bound = /\ Sym(p.sym) # Missing /\ Pads(p.fp) # Missing
                      /\ Compatible(p.sym, p.fp) /\ <<p.role, p.fp>> \in Family,
            !.mpn = Numbered(p)]

\* _ground_selected_parts: the symbol's own footprint first, then a footprint
\* that fits the symbol, then a symbol of its library that fits the footprint.
Suits(p, f) == Sym(p.sym) # Missing /\ Compatible(p.sym, f) /\ <<p.role, f>> \in Family
Packages(p) ==
  {p.fp} \cup (IF Suits(p, p.fp) THEN {} ELSE {f \in Footprints : Pads(f) # Missing /\ Suits(p, f)})
Siblings(p, f) ==
  {p.sym} \cup (IF Sym(p.sym).nums = Pads(f).nums \/ Pads(f).nums = {} THEN {}
                ELSE {s \in Shelf : s.lib = p.sym.lib /\ Sym(s).nums = Pads(f).nums})
Grounded(p) ==
  LET q == IF Sym(p.sym) # Missing /\ Pads(p.sym.fp) # Missing
           THEN [p EXCEPT !.fp = p.sym.fp] ELSE p
  IN UNION {{Bound([q EXCEPT !.fp = f, !.sym = s]) : s \in Siblings(q, f)} : f \in Packages(q)}

\* A part as a model proposes it; it may claim an identity and its mode.  A
\* patch may not: its metadata is cleared.
Proposed(x) ==
  [role |-> x.role, sym |-> x.sym, fp |-> x.fp, val |-> x.val, mpn |-> Unnamed, req |-> x.req,
   mode |-> x.mode, ready |-> FALSE, bound |-> FALSE, rec |-> NoRecord]
Cleared(p) == [p EXCEPT !.req = Unnamed, !.mode = Unnamed]

\* Functions that take one member of each set.
Choices(sets) == {f \in [DOMAIN sets -> UNION {sets[r] : r \in DOMAIN sets}] :
                    \A r \in DOMAIN sets : f[r] \in sets[r]}

-----------------------------------------------------------------------------
(* The step.                                                               *)

Init ==
  /\ library \in Libraries /\ wanted \in Wants /\ settings \in Settings
  /\ revision = 0 /\ aim = "propose" /\ phase = "idle"
  /\ bom = NoCandidate.bom /\ orders = << >> /\ closure = << >>
  /\ verdict = Failed /\ held = NoCandidate
  /\ changes = 0 /\ repairs = 0 /\ resumes = 0

\* A library file is edited, installed or removed.
LibraryChange ==
  /\ changes < MaxChanges
  /\ \E l \in Libraries : l # library /\ library' = l
  /\ changes' = changes + 1
  /\ UNCHANGED <<wanted, settings, revision, aim, phase, bom, orders, closure, verdict, held,
                 repairs, resumes>>

\* SelectionStep.propose: the model's parts are grounded.
Propose ==
  /\ phase = "idle"
  /\ \E refs \in SUBSET PartRefs \ {{}} :
       \E f \in Choices([r \in refs |-> UNION {Grounded(Proposed(x)) : x \in Offered[r]}]) :
         bom' = [parts |-> f, manifest |-> NoManifest]
  /\ phase' = "prepare"
  /\ UNCHANGED <<library, wanted, settings, revision, aim, orders, closure, verdict, held,
                 changes, repairs, resumes>>

\* _prepare_and_persist_components as far as the first manifest.
Prepare ==
  /\ phase = "prepare"
  /\ LET c == IF aim \in {"resume", "rerun", "replan"} THEN Stripped ELSE settings
         o == [r \in DOMAIN bom.parts |-> Order(r, bom.parts[r], c)]
     IN \E f \in Choices([r \in DOMAIN bom.parts |-> Resolve(bom.parts[r], o[r])]) :
          LET parts == [r \in DOMAIN f |-> Prepared(f[r], o[r])]
              recs == [r \in DOMAIN f |-> parts[r].rec]
          IN /\ bom' = [parts |-> parts, manifest |-> [wanted |-> wanted, records |-> recs]]
             /\ orders' = o
             /\ phase' = IF c.fetch /\ \E r \in DOMAIN f : recs[r].lacks THEN "fetch" ELSE "persist"
  /\ UNCHANGED <<library, wanted, settings, revision, aim, closure, verdict, held,
                 changes, repairs, resumes>>

\* repair_symbol: the sheet has the pins of the symbol under other names.
Repairable(p, src) ==
  /\ src \in Devices /\ Sym(p.sym).nums # {} /\ Sym(p.sym).nums = Sheet[src].nums
  /\ Sym(p.sym).names # Sheet[src].names /\ p.fp \in Sheet[src].fps
SymbolRepaired(p, src) ==
  [p EXCEPT !.sym = [lib |-> "generated", dev |-> src, fp |-> p.fp,
                     nums |-> Sym(p.sym).nums, names |-> Sheet[src].names],
            !.val = src]

\* package_evidence_fetcher: the sheet of the part's identity, if it is found.
\* A receipt is added to the part's order, on a corrected symbol if need be.
Fetch ==
  /\ phase = "fetch"
  /\ \E found \in SUBSET {r \in DOMAIN bom.parts : bom.manifest.records[r].lacks} :
       LET src(r) == bom.parts[r].req
           proved == {r \in found : Proved(bom.parts[r], src(r))}
           fixed == {r \in found \ proved : Repairable(bom.parts[r], src(r))}
           parts == [r \in DOMAIN bom.parts |->
                       IF r \in fixed THEN SymbolRepaired(bom.parts[r], src(r)) ELSE bom.parts[r]]
           notes(r) == IF r \notin proved \cup fixed THEN {}
                       ELSE {[kind |-> "sheet", mpn |-> src(r), fp |-> parts[r].fp,
                              nums |-> Sym(parts[r].sym).nums, names |-> Sym(parts[r].sym).names]}
       IN /\ bom' = [bom EXCEPT !.parts = parts]
          /\ orders' = [r \in DOMAIN orders |-> [orders[r] EXCEPT !.notes = @ \cup notes(r)]]
          /\ phase' = IF proved \cup fixed # {} THEN "again" ELSE "persist"
  /\ UNCHANGED <<library, wanted, settings, revision, aim, closure, verdict, held,
                 changes, repairs, resumes>>

\* The second preparation, under the same orders and the new receipts.
PrepareAgain ==
  /\ phase = "again"
  /\ \E f \in Choices([r \in DOMAIN bom.parts |-> Resolve(bom.parts[r], orders[r])]) :
       LET parts == [r \in DOMAIN f |-> Prepared(f[r], orders[r])]
       IN bom' = [parts |-> parts,
                  manifest |-> [wanted |-> wanted, records |-> [r \in DOMAIN f |-> parts[r].rec]]]
  /\ phase' = "persist"
  /\ UNCHANGED <<library, wanted, settings, revision, aim, orders, closure, verdict, held,
                 changes, repairs, resumes>>

\* _persist_component_closure
Persist ==
  /\ phase = "persist"
  /\ closure' = [r \in DOMAIN bom.parts |-> Entry(bom.parts[r])]
  /\ phase' = IF aim = "replan" THEN "copy" ELSE "check"
  /\ UNCHANGED <<library, wanted, settings, revision, aim, bom, orders, verdict, held,
                 changes, repairs, resumes>>

-----------------------------------------------------------------------------
(* SelectionStep.check                                                     *)

\* missing_fixed_identities
FixedPresent(parts) == wanted.mode = "fixed" => \E r \in DOMAIN parts : Constrained(parts[r])

\* _prepared_component_manifest_check and the checks before it
ManifestOK(b) ==
  /\ Valid(b)
  /\ \A r \in DOMAIN b.manifest.records :
       Fresh(b.manifest.records[r]) /\ b.manifest.records[r].ready
EarlyRefs(b) ==
  (Owned \ DOMAIN b.parts) \cup {r \in DOMAIN b.parts : ~b.parts[r].bound}
    \cup {r \in DOMAIN b.manifest.records :
            ~Fresh(b.manifest.records[r]) \/ ~b.manifest.records[r].ready}

\* _component_closure_manifest_check; the file is read, not the selection.
Current(entry) == entry.ready /\ Fresh(entry)
ClosureOK(parts) == DOMAIN closure = DOMAIN parts /\ \A r \in DOMAIN parts : Current(closure[r])

\* _specific_component_identity_error, and the checks of each part's files
SpecificIdentity(p) ==
  p.sym.lib \in {"device", "generated"} /\ {p.val, p.sym.dev} \subseteq Devices =>
    Matches(p.val, p.sym.dev)
PartOK(p) == Sym(p.sym) # Missing /\ Pads(p.fp) # Missing /\ Fits(p) /\ SpecificIdentity(p)

\* _close_component_libraries without a context
Closed(parts) == [r \in DOMAIN parts |-> Resolve(parts[r], Order(r, parts[r], Stripped))]

\* Of the checks of the whole board one more may fail: for a part, for the
\* board, or because a part is missing.
Further(parts) ==
  {[ok |-> FALSE, refs |-> {r}, add |-> FALSE] : r \in DOMAIN parts}
    \cup {[ok |-> add, refs |-> {}, add |-> FALSE] : add \in BOOLEAN}
    \cup {[ok |-> FALSE, refs |-> {}, add |-> TRUE]}

\* resumed_artifact_migration_is_safe, and candidates saved as blocked: a resumed
\* selection that must go through the step again.
MustRerun ==
  /\ aim = "resume"
  /\ \/ ~held.verdict.ok
     \/ \E r \in DOMAIN bom.parts :
          LET p == bom.parts[r]
              q == held.bom.parts[r]
          IN <<p.sym, p.val, p.fp>> # <<q.sym, q.val, q.fp>>

\* The check closes the selection it judges against the libraries, in place.
Check ==
  /\ phase = "check" /\ ~MustRerun
  /\ IF ~ManifestOK(bom)
     THEN /\ verdict' = [ok |-> FALSE, refs |-> EarlyRefs(bom), add |-> FALSE]
          /\ UNCHANGED bom
     ELSE \E f \in Choices(Closed(bom.parts)) :
       LET parts == [r \in DOMAIN f |-> f[r].part]
           stop == (\E r \in DOMAIN f : f[r].blocks) \/ ~ClosureOK(parts)
           failed == EarlyRefs(bom) \cup {r \in DOMAIN f : ~f[r].ok}
           stale == {r \in DOMAIN f \cap DOMAIN closure : ~Current(closure[r])}
           wrong == {r \in DOMAIN f : ~PartOK(parts[r])}
       IN /\ bom' = [bom EXCEPT !.parts = parts]
          /\ \/ stop /\ verdict' = [ok |-> FALSE, refs |-> failed \cup stale, add |-> FALSE]
             \/ /\ ~stop
                /\ \E x \in Further(parts) :
                     verdict' = [ok |-> /\ x.ok /\ failed \cup wrong = {}
                                        /\ DOMAIN f # {} /\ FixedPresent(parts),
                                 refs |-> failed \cup wrong \cup x.refs, add |-> x.add]
  /\ phase' = "judge"
  /\ UNCHANGED <<library, wanted, settings, revision, aim, orders, closure, held,
                 changes, repairs, resumes>>

\* The repair loop keeps a candidate that is better and restores the files
\* of one that is not; every other selection is the step's own.
Judge ==
  /\ phase = "judge"
  /\ \/ /\ held' = [bom |-> bom, closure |-> closure, verdict |-> verdict]
        /\ revision' = IF aim = "repair" THEN revision + 1 ELSE revision
        /\ UNCHANGED <<bom, closure, verdict>>
     \/ /\ aim = "repair" /\ ~verdict.ok
        /\ bom' = held.bom /\ closure' = held.closure /\ verdict' = held.verdict
        /\ UNCHANGED <<held, revision>>
  /\ phase' = "judged"
  /\ UNCHANGED <<library, wanted, settings, aim, orders, changes, repairs, resumes>>

Accepted == phase = "judged" /\ verdict.ok

\* _bounded_selection_patch: parts a patch may not remove
Protected(parts) == Owned \cup {r \in DOMAIN parts : wanted.mode = "fixed" /\ Constrained(parts[r])}

\* _apply_selection_patch: the part that takes a reference keeps its identity.
Inherited(q, p) ==
  [q EXCEPT !.req = IF p.req # Unnamed THEN p.req ELSE p.val,
            !.mode = IF p.mode # Unnamed THEN p.mode ELSE "capability"]

\* SelectionStep.repair: a patch edits one part, of those the checks failed, or
\* adds one the checks miss.
Repair ==
  /\ phase = "judged" /\ ~verdict.ok /\ aim # "resume" /\ repairs < MaxRepairs
  /\ LET old == bom.parts
     IN \/ \E r \in (verdict.refs \cap DOMAIN old) \ Protected(old) :
             bom' = [parts |-> [x \in DOMAIN old \ {r} |-> old[x]], manifest |-> NoManifest]
        \/ \E r \in verdict.refs \cup (IF verdict.add THEN PartRefs \ DOMAIN old ELSE {}) :
             \E q \in UNION {Grounded(Cleared(Proposed(x))) : x \in Offered[r]} :
               bom' = [parts |-> [x \in DOMAIN old \cup {r} |->
                                    IF x # r THEN old[x]
                                    ELSE IF r \in DOMAIN old THEN Inherited(q, old[r]) ELSE q],
                       manifest |-> NoManifest]
        \/ bom' = [bom EXCEPT !.manifest = NoManifest]
  /\ aim' = "repair" /\ phase' = "prepare" /\ repairs' = repairs + 1
  /\ UNCHANGED <<library, wanted, settings, revision, orders, closure, verdict, held,
                 changes, resumes>>

\* The runner goes back to the accepted selection for a failure downstream.
Replan ==
  /\ Accepted /\ repairs < MaxRepairs
  /\ aim' = "replan" /\ phase' = "regroup" /\ repairs' = repairs + 1
  /\ revision' = revision + 1
  /\ UNCHANGED <<library, wanted, settings, bom, orders, closure, verdict, held, changes, resumes>>

\* SelectionStep.replan: a copy is prepared again and its file written; it has
\* no new part, so the selection given is returned.
Copy ==
  /\ phase = "copy"
  /\ LET o == [r \in DOMAIN bom.parts |-> Order(r, bom.parts[r], settings)]
     IN \E f \in Choices([r \in DOMAIN bom.parts |-> Resolve(bom.parts[r], o[r])]) :
          closure' = [r \in DOMAIN f |-> Entry(Prepared(f[r], o[r]))]
  /\ phase' = "check"
  /\ UNCHANGED <<library, wanted, settings, revision, aim, bom, orders, verdict, held,
                 changes, repairs, resumes>>

\* restore_state: another process takes the saved selection up.
Resume ==
  /\ held # NoCandidate /\ resumes < MaxResumes
  /\ wanted' \in Wants /\ settings' \in Settings
  /\ resumes' = resumes + 1 /\ aim' = "resume" /\ phase' = "regroup"
  /\ bom' = held.bom
  /\ UNCHANGED <<library, revision, orders, closure, verdict, held, changes, repairs>>

\* What it may not restore is a candidate the step starts from.
Rerun ==
  /\ aim = "resume"
  /\ \/ phase = "check" /\ MustRerun
     \/ phase = "judged" /\ ~verdict.ok
  /\ aim' = "rerun" /\ phase' = "regroup"
  /\ UNCHANGED <<library, wanted, settings, revision, bom, orders, closure, verdict, held,
                 changes, repairs, resumes>>

\* prepare_resumed_artifact grounds and closes a copy; the receipt is kept only
\* if it still describes the copy.
Regroup ==
  /\ phase = "regroup"
  /\ \E g \in Choices([r \in DOMAIN bom.parts |-> Grounded(bom.parts[r])]) :
     \E f \in Choices(Closed(g)) :
       LET b == [bom EXCEPT !.parts = [r \in DOMAIN f |-> f[r].part]]
           kept == Valid(b) /\ \A r \in DOMAIN f : Fresh(b.manifest.records[r])
       IN /\ bom' = b
          /\ phase' = IF ~kept THEN "prepare" ELSE IF aim = "replan" THEN "copy" ELSE "check"
  /\ UNCHANGED <<library, wanted, settings, revision, aim, orders, closure, verdict, held,
                 changes, repairs, resumes>>

Next ==
  \/ LibraryChange \/ Propose \/ Prepare \/ Fetch \/ PrepareAgain \/ Persist \/ Check
  \/ Judge \/ Repair \/ Replan \/ Copy \/ Resume \/ Rerun \/ Regroup

Spec == Init /\ [][Next]_vars

-----------------------------------------------------------------------------
(* Properties.                                                             *)

\* A replacement stands that is not the identity asked for.
Amended(rec) == ~IdentityOK(rec.sym, rec.req, rec.mode)

\* What a record that is ready for the schematic vouches for.
Vouched(rec) ==
  rec.ready =>
    /\ Missing \notin {rec.symFile, rec.fpFile} /\ rec.sym.lib # "placeholder"
    /\ \/ rec.symFile.nums = rec.fpFile.nums
       \/ rec.sym.lib = "connector" /\ rec.symFile.nums \subseteq rec.fpFile.nums
    /\ rec.policy = "component" =>
         /\ rec.mpn \in Devices /\ rec.fp \in Sheet[rec.mpn].fps
         /\ rec.symFile.nums \subseteq Sheet[rec.mpn].nums
         /\ rec.symFile.names = Sheet[rec.mpn].names

(* An accepted selection is the one that was prepared for this             *)
(* requirement: every part is bound to a record whose files fit each other *)
(* and, for a maker's device, agree with the data sheet of its part        *)
(* number; the check's own resolution may only take another symbol where   *)
(* an approved replacement stood, and what the requirement fixes is there  *)
(* as the device itself.                                                   *)
SelectionSound ==
  Accepted =>
    /\ DOMAIN bom.parts # {} /\ Owned \subseteq DOMAIN bom.parts
    /\ bom.manifest.wanted = wanted
    /\ \A r \in DOMAIN bom.parts :
         LET p == bom.parts[r]
             rec == bom.manifest.records[r]
         IN /\ p.rec = rec /\ rec.ready /\ Vouched(rec)
            /\ p.fp = rec.fp /\ p.mpn = rec.mpn
            /\ p.sym = rec.sym \/ Amended(rec)
            /\ wanted.mode = "fixed" /\ Constrained(p) /\ rec.policy = "component" =>
                 Matches(wanted.dev, p.sym.dev)
    /\ FixedPresent(bom.parts)

\* A part prepared before, on files that are still the same.
Settled(p) ==
  /\ p.rec # NoRecord /\ p.rec.ready /\ Fresh(p.rec) /\ ~Amended(p.rec)
  /\ p.sym = p.rec.sym /\ p.fp = p.rec.fp

(* Preparing a selection again for a repair or a new plan leaves every     *)
(* part alone that was ready and whose files have not changed.             *)
PreparationKeeps ==
  [][phase = "prepare" /\ phase' # phase /\ aim \in {"repair", "replan"} =>
       \A r \in DOMAIN bom.parts :
         Settled(bom.parts[r]) =>
           /\ bom'.parts[r].sym = bom.parts[r].sym
           /\ bom'.parts[r].fp = bom.parts[r].fp
           /\ bom'.parts[r].val = bom.parts[r].val]_vars

\* What the approvals of an instance must be like for the properties to hold: a
\* replacement approved for another device that is itself the device a requirement
\* names has a symbol of that device, and so has every symbol of the one it
\* replaces.
Fair(x, w) ==
  Matches(w.dev, x.val) =>
    \/ x.req = w.dev
    \/ /\ x.req \in Devices /\ IdentityOK(x.sym, w.dev, w.mode)
       /\ \A s \in Shelf : Matches(x.req, s.dev) => Matches(w.dev, s.dev)
FairReplacements == \A c \in Settings : \A x \in c.approved : \A w \in Wants : Fair(x, w)
=============================================================================
