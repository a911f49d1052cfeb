-------------------------- MODULE MCTierMigration --------------------------
(***************************************************************************)
(* Instances of TierMigration for TLC: one application file name on two    *)
(* tiers.  Only that file is moved, except in Leftovers.cfg, where the     *)
(* temporary that a failed copy or a crash left behind is moved as well:   *)
(* the crawl takes it for a file.                                          *)
(***************************************************************************)
EXTENDS TierMigration, TLC

CONSTANTS h1, h2

NoHandle == {}
OneHandle == {h1}
TwoHandles == {h1, h2}
HandleSymmetry == Permutations(TwoHandles)

MCVisible == {"a"}
FileOnly == {"a"}
FileAndTemporary == {"a", ".a"}

HideName == [a |-> ".a"] @@ (".a" :> "..a")
ConflictName(n, t) ==
    CASE n = "a" -> IF t = 1 THEN "a.c1" ELSE "a.c2"
      [] n = ".a" -> IF t = 1 THEN ".a.c1" ELSE ".a.c2"

MCHide == [n \in Movable |-> HideName[n]]
MCConflict == [x \in Movable \X Tier |-> ConflictName(x[1], x[2])]
MCName == Movable \cup {HideName[n] : n \in Movable}
                  \cup {ConflictName(n, t) : n \in Movable, t \in Tier}

\* What a state can do next: the path of a request that has ended and the File of a
\* mover that is idle are never read again, nor are the contents still owed once no
\* property looks at them.
LiveView ==
    <<disk, db, open_files, hpc,
      [h \in Handle |-> IF hpc[h] = "idle" THEN Absent ELSE hloc[h]],
      attached, exposed, phase, IF phase = "crawl" THEN crawling ELSE 0, files, todo,
      mpc, [t \in Tier |-> IF mpc[t] = "idle" THEN Absent ELSE msrc[t]],
      [t \in Tier |-> mpc[t] \in {"rename", "record", "change"} /\ conflicted[t]],
      IF raced \/ clobbered THEN Absent ELSE owed, raced, clobbered,
      leaked, leaks, writes, crashes>>

=============================================================================
