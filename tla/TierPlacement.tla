--------------------------- MODULE TierPlacement ---------------------------
(***************************************************************************)
(* How a pass decides which tier a file belongs in: the crawl fills files_ *)
(* and measures each tier, calc_popularity() and sort() order the files,   *)
(* simulate_tier() fills the tiers up to their quotas, hottest file first,  *)
(* and queues the files that are to move; transfer_files() moves them.     *)
(*                                                                         *)
(* This is the planning that TierMigration leaves open.  Here files are     *)
(* moved in one step, and nobody writes to them during a pass.  Popularity *)
(* is a number that every pass may change; equal popularity and access      *)
(* time, which sort() leaves in any order, is equal heat.                   *)
(***************************************************************************)
EXTENDS Integers, Sequences, FiniteSets, FiniteSetsExt

CONSTANTS
    File,        \* the files of all tiers
    NTiers,      \* number of tiers
    MaxSize,     \* bound: bytes of a file
    MaxQuota,    \* bound: bytes of a quota
    MaxHeat      \* bound: popularity, refined by the access time

Tier == 1 .. NTiers              \* tiers_, fastest first
NoTier == NTiers + 1             \* simulate_tier() ran off the end of tiers_
Heat == 0 .. MaxHeat
Size == 0 .. MaxSize

ASSUME PlacementAssumption ==
    /\ IsFiniteSet(File) /\ NTiers \in Nat \ {0}
    /\ MaxSize \in Nat /\ MaxQuota \in Nat /\ MaxHeat \in Nat

VARIABLES
    size,        \* File::size_
    quota,       \* Tier::quota_
    where,       \* File::tier_ptr_: the tier that holds the file
    pinned,      \* Metadata::pinned_
    usage,       \* Tier::usage_
    heat,        \* Metadata::popularity_, then times_[0]
    phase,       \* the worker in tier(): idle, crawl, rate, sort, place, move
    crawling,    \* the next tier launch_crawlers visits
    files,       \* files_ before sort(): a set
    order,       \* files_ after sort()
    next,        \* simulate_tier's position in it
    dest,        \* the tier it gave a file, NoTier for none that has room
    sim,         \* Tier::sim_usage_
    incoming,    \* Tier::incoming_files_
    moved,       \* history: every queued file has been moved in this pass
    settled      \* history: nothing changed since a pass that moved every queued file

plan == <<order, next, dest, sim, incoming>>
vars == <<size, quota, where, pinned, usage, heat, phase, crawling, files, order, next,
          dest, sim, incoming, moved, settled>>

On(t) == {f \in File : where[f] = t}
Bytes(S) == MapThenSumSet(LAMBDA f : size[f], S)
Placed == {order[i] : i \in 1 .. next - 1}
-----------------------------------------------------------------------------
Init ==
    /\ size \in [File -> Size] /\ quota \in [Tier -> 0 .. MaxQuota]
    /\ where \in [File -> Tier] /\ pinned \in [File -> BOOLEAN]
    /\ usage = [t \in Tier |-> 0]
    /\ heat = [f \in File |-> 0]
    /\ phase = "idle" /\ crawling = 1 /\ files = {}
    /\ order = <<>> /\ next = 1
    /\ dest = [f \in File |-> NoTier]
    /\ sim = [t \in Tier |-> 0]
    /\ incoming = [t \in Tier |-> <<>>]
    /\ moved = FALSE /\ settled = FALSE

StartPass ==
    /\ phase = "idle"
    /\ phase' = "crawl" /\ crawling' = 1
    /\ moved' = TRUE
    /\ UNCHANGED <<size, quota, where, pinned, usage, heat, files, plan, settled>>

\* Mutant: one tier too many.
CrawlPastEnd ==
    /\ phase = "crawl" /\ crawling \in 1 .. NoTier
    /\ files' = files \cup {f \in On(crawling) : ~pinned[f]}
    /\ usage' = [usage EXCEPT ![crawling] = Bytes(On(crawling))]
    /\ crawling' = crawling + 1
    /\ UNCHANGED <<size, quota, where, pinned, heat, phase, plan, moved, settled>>

\* launch_crawlers() and emplace_file() for one tier: every file counts towards its
\* usage, the files that are not pinned are planned for.
Crawl ==
    /\ phase = "crawl" /\ crawling \in Tier
    /\ files' = files \cup {f \in On(crawling) : ~pinned[f]}
    /\ usage' = [usage EXCEPT ![crawling] = Bytes(On(crawling))]
    /\ crawling' = crawling + 1
    /\ UNCHANGED <<size, quota, where, pinned, heat, phase, plan, moved, settled>>

\* calc_popularity(): accesses and the time since the last pass change any of them.
CalcPopularity ==
    /\ phase = "crawl" /\ crawling = NTiers + 1
    /\ heat' \in [File -> Heat]
    /\ settled' = (settled /\ heat' = heat)
    /\ phase' = "sort"
    /\ UNCHANGED <<size, quota, where, pinned, usage, crawling, files, plan, moved>>

\* Mutant: the coldest file first.
SortedColdFirst(S) ==
    {s \in [1 .. Cardinality(S) -> S] :
        \A i, j \in DOMAIN s : i < j => s[i] # s[j] /\ heat[s[i]] <= heat[s[j]]}

\* Every order of S in which no file comes before a hotter one.
Sorted(S) ==
    {s \in [1 .. Cardinality(S) -> S] :
        \A i, j \in DOMAIN s : i < j => s[i] # s[j] /\ heat[s[i]] >= heat[s[j]]}

\* sort(), and the reset_sim() of every tier.
Sort ==
    /\ phase = "sort"
    /\ order' \in Sorted(files)
    /\ next' = 1
    /\ sim' = [t \in Tier |-> 0]
    /\ phase' = "place"
    /\ UNCHANGED <<size, quota, where, pinned, usage, heat, crawling, files, dest,
                   incoming, moved, settled>>

\* Tier::full_test
FullTest(t, f) == sim[t] + size[f] > quota[t]

\* Mutant: only files that move take up room.
PlaceCountMoves ==
    /\ phase = "place" /\ next <= Len(order)
    /\ LET f == order[next] IN \E t \in 1 .. NoTier :
        /\ \A u \in 1 .. t - 1 : FullTest(u, f)
        /\ t \in Tier => ~FullTest(t, f)
        /\ dest' = [dest EXCEPT ![f] = t]
        /\ sim' = [u \in Tier |-> IF u = t /\ where[f] # t
                                  THEN sim[u] + size[f] ELSE sim[u]]
        /\ incoming' = [u \in Tier |-> IF u = t /\ where[f] # t
                                       THEN Append(incoming[u], f) ELSE incoming[u]]
    /\ next' = next + 1
    /\ UNCHANGED <<size, quota, where, pinned, usage, heat, phase, crawling, files,
                   order, moved, settled>>

\* Mutant: files that are in their tier are queued too.
PlaceQueueAll ==
    /\ phase = "place" /\ next <= Len(order)
    /\ LET f == order[next] IN \E t \in 1 .. NoTier :
        /\ \A u \in 1 .. t - 1 : FullTest(u, f)
        /\ t \in Tier => ~FullTest(t, f)
        /\ dest' = [dest EXCEPT ![f] = t]
        /\ sim' = [u \in Tier |-> IF u = t THEN sim[u] + size[f] ELSE sim[u]]
        /\ incoming' = [u \in Tier |-> IF u = t THEN Append(incoming[u], f) ELSE incoming[u]]
    /\ next' = next + 1
    /\ UNCHANGED <<size, quota, where, pinned, usage, heat, phase, crawling, files,
                   order, moved, settled>>

\* One round of simulate_tier()'s loop: the fastest tier that has room, and a place in
\* its queue unless the file is there already.
Place ==
    /\ phase = "place" /\ next <= Len(order)
    /\ LET f == order[next] IN \E t \in 1 .. NoTier :
        /\ \A u \in 1 .. t - 1 : FullTest(u, f)
        /\ t \in Tier => ~FullTest(t, f)
        /\ dest' = [dest EXCEPT ![f] = t]
        /\ sim' = [u \in Tier |-> IF u = t THEN sim[u] + size[f] ELSE sim[u]]
        /\ incoming' = [u \in Tier |-> IF u = t /\ where[f] # t
                                       THEN Append(incoming[u], f) ELSE incoming[u]]
    /\ next' = next + 1
    /\ UNCHANGED <<size, quota, where, pinned, usage, heat, phase, crawling, files,
                   order, moved, settled>>

MoveFiles ==
    /\ phase = "place" /\ next = Len(order) + 1
    /\ phase' = "move"
    /\ UNCHANGED <<size, quota, where, pinned, usage, heat, crawling, files, plan,
                   moved, settled>>

\* Mutant: the usage of the old tier is not corrected.
TransferNoSubtract(t) ==
    /\ phase = "move" /\ incoming[t] # <<>>
    /\ LET f == Head(incoming[t]) IN
        \/ /\ where' = [where EXCEPT ![f] = t]
           /\ usage' = [usage EXCEPT ![t] = @ + size[f]]
           /\ moved' = moved
        \/ /\ moved' = FALSE
           /\ UNCHANGED <<where, usage>>
    /\ incoming' = [incoming EXCEPT ![t] = Tail(@)]
    /\ UNCHANGED <<size, quota, pinned, heat, phase, crawling, files, order, next, dest,
                   sim, settled>>

\* transfer_files() takes the next queued file.  It moves, and File::transfer_to_tier
\* corrects the usage of both tiers, or it is open or cannot be copied.
Transfer(t) ==
    /\ phase = "move" /\ incoming[t] # <<>>
    /\ LET f == Head(incoming[t]) IN
        \/ /\ where' = [where EXCEPT ![f] = t]
           /\ usage' = [usage EXCEPT ![where[f]] = @ - size[f], ![t] = @ + size[f]]
           /\ moved' = moved
        \/ /\ moved' = FALSE
           /\ UNCHANGED <<where, usage>>
    /\ incoming' = [incoming EXCEPT ![t] = Tail(@)]
    /\ UNCHANGED <<size, quota, pinned, heat, phase, crawling, files, order, next, dest,
                   sim, settled>>

\* files_.clear(); transfer_files() has reset every sim_usage_.
EndPass ==
    /\ phase = "move" /\ \A t \in Tier : incoming[t] = <<>>
    /\ phase' = "idle"
    /\ files' = {} /\ order' = <<>> /\ next' = 1
    /\ dest' = [f \in File |-> NoTier]
    /\ sim' = [t \in Tier |-> 0]
    /\ settled' = (moved /\ \A f, g \in files : f # g => heat[f] # heat[g])
    /\ UNCHANGED <<size, quota, where, pinned, usage, heat, crawling, incoming, moved>>
-----------------------------------------------------------------------------
(* Between passes *)

\* An application changes a file's size; write() and truncate() keep the usage exact.
Resize(f, n) ==
    /\ phase = "idle" /\ size[f] # n
    /\ size' = [size EXCEPT ![f] = n]
    /\ usage' = [usage EXCEPT ![where[f]] = @ - size[f] + n]
    /\ settled' = FALSE
    /\ UNCHANGED <<quota, where, pinned, heat, phase, crawling, files, plan, moved>>

\* pin_files(): the file moves to the tier that is named, and no usage is corrected.
Pin(f, t) ==
    /\ phase = "idle"
    /\ pinned' = [pinned EXCEPT ![f] = TRUE]
    /\ where' = [where EXCEPT ![f] = t]
    /\ settled' = FALSE
    /\ UNCHANGED <<size, quota, usage, heat, phase, crawling, files, plan, moved>>

Unpin(f) ==
    /\ phase = "idle" /\ pinned[f]
    /\ pinned' = [pinned EXCEPT ![f] = FALSE]
    /\ settled' = FALSE
    /\ UNCHANGED <<size, quota, where, usage, heat, phase, crawling, files, plan, moved>>

Next ==
    \/ StartPass \/ Crawl \/ CalcPopularity \/ Sort \/ Place \/ MoveFiles \/ EndPass
    \/ \E t \in Tier : Transfer(t)
    \/ \E f \in File : \/ Unpin(f) \/ \E n \in Size : Resize(f, n)
                       \/ \E t \in Tier : Pin(f, t)

Spec == Init /\ [][Next]_vars
-----------------------------------------------------------------------------
(* Properties *)

\* usage has no type of its own here: UsageExact says what it is.
TypeOK ==
    /\ size \in [File -> Size] /\ quota \in [Tier -> Nat]
    /\ where \in [File -> Tier] /\ pinned \in [File -> BOOLEAN]
    /\ heat \in [File -> Heat]
    /\ phase \in {"idle", "crawl", "sort", "place", "move"}
    /\ crawling \in 1 .. NoTier
    /\ files \subseteq File /\ order \in Seq(File) /\ next \in Nat \ {0}
    /\ dest \in [File -> 1 .. NoTier] /\ sim \in [Tier -> Nat]
    /\ incoming \in [Tier -> Seq(File)]
    /\ moved \in BOOLEAN /\ settled \in BOOLEAN

\* A pass never puts a hotter file into a slower tier than a colder one, unless the
\* hotter file is the larger of the two: first fit, in the order of sort().
NoPriorityInversion == \A f, g \in Placed :
    heat[f] > heat[g] /\ dest[f] > dest[g] => size[f] > size[g]

\* After a pass that found room for every file and moved what it queued.
PassDone ==
    /\ phase = "move" /\ moved /\ \A t \in Tier : incoming[t] = <<>>
    /\ \A f \in files : dest[f] \in Tier

\* Such a pass leaves no tier over its quota if no file is pinned: the plan has no room for
\* pinned files ("LET tier_usage = size of pinned files", tiering.hpp:116, is not done).
QuotaKeptUnpinned == PassDone /\ (\A f \in File : ~pinned[f]) =>
    \A t \in Tier : usage[t] <= quota[t]

\* From the crawl to the end of the pass, the usage of a tier is the sum of the sizes of
\* its files, through every move and every failure to move.
UsageExact == phase \in {"sort", "place", "move"} =>
    \A t \in Tier : usage[t] = Bytes(On(t))

\* Tiering is at rest once it has nothing to do: a pass that finds the popularities of the
\* last pass, which moved all it queued, moves no file.
AtRest == settled => \A t \in Tier : incoming[t] = <<>>
=============================================================================
