-------------------------- MODULE MCTierPlacement --------------------------
(* Instances of TierPlacement for TLC. *)
EXTENDS TierPlacement, TLC

CONSTANTS f1, f2, f3

ThreeFiles == {f1, f2, f3}
FileSymmetry == Permutations(ThreeFiles)

\* What a pass can still read: not the usage of a tier that will be crawled, nor the
\* popularities of an earlier pass unless it may find them unchanged.
LiveView ==
    <<size, quota, where, pinned, phase, files, plan, settled,
      IF phase = "crawl" THEN crawling ELSE 0,
      [t \in Tier |-> IF phase = "idle" \/ (phase = "crawl" /\ t >= crawling)
                      THEN 0 ELSE usage[t]],
      IF phase \in {"idle", "crawl"} /\ ~settled THEN 0 ELSE heat,
      phase # "idle" /\ moved>>
=============================================================================
