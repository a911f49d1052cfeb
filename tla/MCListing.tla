----------------------------- MODULE MCListing -----------------------------
(***************************************************************************)
(* Instances of Listing for TLC: names of one length, of which two or      *)
(* three make a reply full.                                                *)
(***************************************************************************)
EXTENDS Listing

MCLength == [e \in Entry |-> 1]
=============================================================================
