---------------------------- MODULE MCTierUsage ----------------------------
(***************************************************************************)
(* Instances of TierUsage for TLC: quotas that blocks do not divide.       *)
(***************************************************************************)
EXTENDS TierUsage, TLC

OddQuota == [t \in 1 .. 2 |-> IF t = 1 THEN 3 ELSE 4]
TwoBytes == [t \in 1 .. 2 |-> 2]
FilesAndHandles == Permutations(File) \cup Permutations(Handle)
=============================================================================
