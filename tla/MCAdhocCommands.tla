-------------------------- MODULE MCAdhocCommands --------------------------
(***************************************************************************)
(* Instances of AdhocCommands for TLC.                                     *)
(***************************************************************************)
EXTENDS AdhocCommands, TLC

Interchangeable == Permutations(Client) \cup Permutations(Base)
=============================================================================
