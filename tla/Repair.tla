------------------------------- MODULE Repair -------------------------------
(***************************************************************************)
(* Repair of a draft, component by component.  part says which of them the *)
(* behaviour belongs to; it is chosen at the start and never changes.      *)
(* MCRepair gives the constants values and adds the remaining components.  *)
(***************************************************************************)
CONSTANTS
  JointHost,   \* a session's host and limits: a record, see Session
  PatientHost  \* another one

VARIABLES
  part,                                                                   \* the component
  pc, grade, live, cand, saved, best, last, stagnant, seen, turn, outcome \* a session

Session(h) == INSTANCE RepairSession WITH
  Boards <- h.boards, Plans <- h.plans, Joint <- h.joint, Patience <- h.patience,
  MaxTurns <- h.turns, Meddling <- h.meddling

(* A behaviour of the component that was chosen.                           *)
RepairSpec ==
  /\ part = "session" => Session(JointHost)!Spec
  /\ part = "patient" => Session(PatientHost)!Spec
  /\ [][part' = part]_part

(* A session returns to the pair its best assessment was made for, and     *)
(* what it commits improves the project by the host's checks.              *)
SessionSound ==
  /\ part = "session" => Session(JointHost)!SessionSound
  /\ part = "patient" => Session(PatientHost)!SessionSound
=============================================================================
