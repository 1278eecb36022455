----------------------------- MODULE MCRegistry -----------------------------
(* The tasks of RedisRunRegistry on a few service instances.                 *)
EXTENDS RedisRunRegistry, TLC

InstanceSymmetry == Permutations(Instances)
RunSymmetry == Permutations(Runs) \cup Permutations(Instances)
=============================================================================
