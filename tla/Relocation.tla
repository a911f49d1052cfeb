----------------------------- MODULE Relocation -----------------------------
(***************************************************************************)
(* What tiering promises to applications, without tiers, copies and        *)
(* threads: a file is relocated.  It leaves its place and arrives, with    *)
(* the contents it had, at a place where nothing stands; in between it is  *)
(* out of sight, for ever if the daemon dies at the wrong moment.  All     *)
(* that applications do is to store new contents.                          *)
(*                                                                         *)
(* TierMigration implements this as long as no open or create falls into a *)
(* move of its name and no file is clobbered; afterwards (chaos) the code  *)
(* promises nothing.                                                       *)
(***************************************************************************)
CONSTANTS
    Place,      \* where files can be seen
    Content,    \* what files contain
    Absent

VARIABLES
    shown,      \* what stands at every place
    hidden,     \* contents in transit
    chaos       \* no promise any more

vars == <<shown, hidden, chaos>>

Contents == {shown[l] : l \in Place} \ {Absent}

Init ==
    /\ shown \in [Place -> Content \cup {Absent}]
    /\ hidden = {} /\ chaos = FALSE

\* A file goes out of sight as a whole.
Depart(l) ==
    /\ shown[l] # Absent
    /\ shown' = [shown EXCEPT ![l] = Absent]
    /\ hidden' = hidden \cup {shown[l]}

\* A file in transit arrives; it replaces nothing.
Arrive(l) ==
    /\ shown[l] = Absent
    /\ \E c \in hidden : /\ shown' = [shown EXCEPT ![l] = c]
                         /\ hidden' = hidden \ {c}

\* An application makes a file, or changes the one at l; what it stores is new.
Store(l) ==
    /\ shown'[l] \in Content \ (Contents \cup hidden)
    /\ shown' = [shown EXCEPT ![l] = shown'[l]]
    /\ hidden' = hidden

Next ==
    \/ chaos'
    \/ /\ \E l \in Place : Depart(l) \/ Arrive(l) \/ Store(l)
       /\ UNCHANGED chaos

Spec == Init /\ [][Next]_vars
=============================================================================
