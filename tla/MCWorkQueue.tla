---------------------------- MODULE MCWorkQueue ----------------------------
(* Instances of WorkQueue for TLC. *)
EXTENDS WorkQueue

CONSTANTS r1, r2
TwoReleasers == {r1, r2}
OneReleaser == {r1}
=============================================================================
