------------------------ MODULE TierPlacementProofs ------------------------
(***************************************************************************)
(* What simulate_tier() promises, for any number of files and tiers and any *)
(* sizes and quotas.                                                       *)
(*                                                                         *)
(* NoPriorityInversion is not inductive: it needs the reason a file was    *)
(* turned away from a faster tier to stay true while colder files are      *)
(* placed.  Denied says so: the simulated usage of that tier only grows, so *)
(* the tier has no room for the file from then on.  A colder file that     *)
(* still fits is therefore smaller.                                        *)
(*                                                                         *)
(* The invariants about bytes compare sums.  Measured follows the usage    *)
(* through the crawl and the moves; Filled says what the simulated usage   *)
(* is the sum of and that it fits; Queued relates the plan to where files  *)
(* are.  Rests says why tiering comes to rest: hottest first and first fit *)
(* determine the places, so a pass that finds the same order finds them    *)
(* again.                                                                  *)
(***************************************************************************)
EXTENDS TierPlacement, FiniteSetTheorems, Sums, TLAPS

USE DEF Tier, NoTier

\* files_ is in order, each file once, and the cursor is in it.
Ordered ==
    /\ next <= Len(order) + 1
    /\ \A i, j \in 1 .. Len(order) : i < j =>
        order[i] # order[j] /\ heat[order[i]] >= heat[order[j]]

\* A file that is placed has no room in any tier faster than its own.
Denied == \A i \in 1 .. next - 1 : \A t \in Tier :
    t < dest[order[i]] => sim[t] + size[order[i]] > quota[t]

Uninverted == \A i, j \in 1 .. next - 1 :
    heat[order[i]] > heat[order[j]] /\ dest[order[i]] > dest[order[j]]
        => size[order[i]] > size[order[j]]

\* The plan exists from sort() to the end of the pass.
NoPlanYet == phase \in {"idle", "crawl", "sort"} => order = <<>> /\ next = 1

\* Only files of the crawl, which are not pinned, are ordered and queued.
Planned ==
    /\ phase = "idle" => files = {}
    /\ \A f \in files : ~pinned[f]
    /\ order \in Seq(files)
    /\ incoming \in [Tier -> Seq(files)]

PlanInv == TypeOK /\ Ordered /\ Denied /\ Uninverted /\ NoPlanYet /\ Planned
-----------------------------------------------------------------------------
\* sort() yields a sequence of the files it is given, hottest first.
LEMMA SortedIsSequence ==
    ASSUME NEW S \in SUBSET File, NEW s \in Sorted(S)
    PROVE  /\ s \in Seq(S) /\ Len(s) \in Nat
           /\ \A i, j \in 1 .. Len(s) : i < j => s[i] # s[j] /\ heat[s[i]] >= heat[s[j]]
<1>1. Cardinality(S) \in Nat
  BY FS_Subset, FS_CardinalityType, PlacementAssumption
<1>2. s \in [1 .. Cardinality(S) -> S]
  BY DEF Sorted
<1>3. s \in Seq(S) /\ Len(s) = Cardinality(S)
  BY <1>1, <1>2
<1> QED BY <1>1, <1>2, <1>3 DEF Sorted

\* A sequence over a set is one over any larger set.
LEMMA SeqMonotone ==
    ASSUME NEW S, NEW T, S \subseteq T, NEW s \in Seq(S)
    PROVE  s \in Seq(T)
OBVIOUS

LEMMA PlanInit == Init => PlanInv
<1> SUFFICES ASSUME Init PROVE PlanInv
  OBVIOUS
<1> USE PlacementAssumption
<1>1. TypeOK
  <2>1. quota \in [Tier -> Nat]
    BY DEF Init
  <2>2. heat \in [File -> Heat] /\ dest \in [File -> 1 .. NoTier] /\ sim \in [Tier -> Nat]
    BY DEF Init, Heat
  <2>3. order \in Seq(File) /\ incoming \in [Tier -> Seq(File)]
    BY DEF Init
  <2>4. crawling \in 1 .. NoTier /\ next \in Nat \ {0}
    BY DEF Init
  <2> QED BY <2>1, <2>2, <2>3, <2>4, Zenon DEF Init, TypeOK
<1>2. Ordered /\ Denied /\ Uninverted /\ NoPlanYet
  BY DEF Init, Ordered, Denied, Uninverted, NoPlanYet
<1>3. Planned
  BY DEF Init, Planned
<1> QED BY <1>1, <1>2, <1>3 DEF PlanInv
-----------------------------------------------------------------------------
(* simulate_tier() *)

\* One round of simulate_tier() keeps the reasons of all files placed before, adds that
\* of its own file, and inverts no pair.
LEMMA PlaceStep == PlanInv /\ Place => PlanInv'
<1> SUFFICES ASSUME PlanInv, Place PROVE PlanInv'
  OBVIOUS
<1> USE PlacementAssumption
<1> DEFINE f == order[next]
<1>t. TypeOK /\ Ordered /\ Denied /\ Uninverted /\ NoPlanYet /\ Planned
  BY DEF PlanInv
<1>u. UNCHANGED <<size, quota, where, pinned, heat, phase, crawling, files, order, moved,
                  settled>>
  BY DEF Place
<1>1. /\ next \in Nat \ {0} /\ Len(order) \in Nat /\ order \in Seq(File)
      /\ next <= Len(order) /\ next' = next + 1
      /\ \A u \in Tier : sim[u] \in Nat /\ quota[u] \in Nat
      /\ \A g \in File : /\ size[g] \in Nat /\ heat[g] \in Nat
                         /\ dest[g] \in 1 .. NoTier
  <2>1. next \in Nat \ {0} /\ Len(order) \in Nat /\ order \in Seq(File)
    BY <1>t DEF TypeOK
  <2>2. next <= Len(order) /\ next' = next + 1
    BY DEF Place
  <2>3. \A u \in Tier : sim[u] \in Nat /\ quota[u] \in Nat
    BY <1>t DEF TypeOK
  <2>4. \A g \in File : size[g] \in Nat /\ heat[g] \in Nat /\ dest[g] \in 1 .. NoTier
    BY <1>t DEF TypeOK, Size, Heat
  <2> QED BY <2>1, <2>2, <2>3, <2>4
<1>2. f \in File /\ f \in files /\ size[f] \in Nat
  BY <1>1, <1>t DEF Planned
<1>3. PICK t \in 1 .. NoTier :
        /\ \A u \in 1 .. t - 1 : sim[u] + size[f] > quota[u]
        /\ t \in Tier => ~(sim[t] + size[f] > quota[t])
        /\ dest' = [dest EXCEPT ![f] = t]
        /\ sim' = [u \in Tier |-> IF u = t THEN sim[u] + size[f] ELSE sim[u]]
        /\ incoming' = [u \in Tier |-> IF u = t /\ where[f] # t
                                       THEN Append(incoming[u], f) ELSE incoming[u]]
  BY DEF Place, FullTest
<1>4. \A u \in Tier : sim[u] \in Nat /\ sim'[u] \in Nat /\ sim'[u] >= sim[u]
                      /\ quota[u] \in Nat /\ (u # t => sim'[u] = sim[u])
  BY <1>1, <1>2, <1>3
<1>5. \A i \in 1 .. next - 1 : /\ order[i] \in File /\ order[i] # f
                               /\ heat[order[i]] >= heat[f]
                               /\ dest'[order[i]] = dest[order[i]]
                               /\ dest[order[i]] \in 1 .. NoTier
                               /\ size[order[i]] \in Nat
  <2> SUFFICES ASSUME NEW i \in 1 .. next - 1
               PROVE  /\ order[i] \in File /\ order[i] # f
                      /\ heat[order[i]] >= heat[f]
                      /\ dest'[order[i]] = dest[order[i]]
                      /\ dest[order[i]] \in 1 .. NoTier
                      /\ size[order[i]] \in Nat
    OBVIOUS
  <2>1. i \in 1 .. Len(order) /\ next \in 1 .. Len(order) /\ i < next
    BY <1>1
  <2>2. order[i] \in File /\ order[i] # f /\ heat[order[i]] >= heat[f]
    BY <1>1, <1>t, <2>1 DEF Ordered
  <2>3. dest'[order[i]] = dest[order[i]]
    BY <1>3, <1>t, <2>2 DEF TypeOK
  <2> QED BY <1>1, <2>2, <2>3
<1>6. dest'[f] = t
  BY <1>2, <1>3, <1>t DEF TypeOK
<1>7. incoming' \in [Tier -> Seq(files)] /\ incoming' \in [Tier -> Seq(File)]
  <2>1. \A u \in Tier : incoming[u] \in Seq(files) /\ incoming[u] \in Seq(File)
    BY <1>t DEF Planned, TypeOK
  <2>2. \A u \in Tier : Append(incoming[u], f) \in Seq(files)
                        /\ Append(incoming[u], f) \in Seq(File)
    BY <2>1, <1>2
  <2> QED BY <1>3, <2>1, <2>2
<1>8. TypeOK'
  <2>1. dest' \in [File -> 1 .. NoTier] /\ sim' \in [Tier -> Nat]
    BY <1>2, <1>3, <1>4, <1>t DEF TypeOK
  <2>2. next' \in Nat \ {0}
    BY <1>1
  <2> QED BY <1>7, <1>t, <1>u, <2>1, <2>2, Zenon DEF TypeOK
<1>9. Ordered' /\ NoPlanYet' /\ Planned'
  <2>1. phase = "place"
    BY DEF Place
  <2> QED BY <1>1, <1>7, <1>t, <1>u, <2>1 DEF Ordered, NoPlanYet, Planned
<1>10. Denied'
  <2> SUFFICES ASSUME NEW i \in 1 .. next, NEW u \in Tier, u < dest'[order[i]]
               PROVE  sim'[u] + size[order[i]] > quota[u]
    <3>1. next' - 1 = next
      BY <1>1
    <3> QED BY <1>u, <3>1 DEF Denied
  <2>1. CASE i < next
    <3>0. i \in 1 .. next - 1
      BY <1>1, <2>1
    <3>1. u < dest[order[i]]
      BY <1>5, <3>0
    <3>2. sim[u] + size[order[i]] > quota[u]
      BY <1>t, <3>0, <3>1 DEF Denied
    <3>3. size[order[i]] \in Nat
      BY <1>5, <3>0
    <3> QED BY <1>4, <3>2, <3>3
  <2>2. CASE i = next
    BY <1>2, <1>3, <1>4, <1>6, <2>2
  <2> QED BY <2>1, <2>2, <1>1
<1>11. Uninverted'
  <2> SUFFICES ASSUME NEW i \in 1 .. next, NEW j \in 1 .. next,
                      heat[order[i]] > heat[order[j]],
                      dest'[order[i]] > dest'[order[j]]
               PROVE  size[order[i]] > size[order[j]]
    <3>1. next' - 1 = next
      BY <1>1
    <3> QED BY <1>u, <3>1 DEF Uninverted
  <2>0. \A k \in 1 .. next : heat[order[k]] \in Nat
    BY <1>1, <1>2, <1>5
  <2>1. CASE i < next /\ j < next
    <3>1. i \in 1 .. next - 1 /\ j \in 1 .. next - 1
      BY <1>1, <2>1
    <3>2. dest[order[i]] > dest[order[j]]
      BY <1>5, <3>1
    <3> QED BY <1>t, <3>1, <3>2 DEF Uninverted
  <2>2. CASE i = next
    BY <1>1, <1>5, <2>0, <2>2
  <2>3. CASE i < next /\ j = next
    <3>1. t < dest[order[i]] /\ t \in Tier
      BY <1>1, <1>3, <1>5, <1>6, <2>3
    <3>2. sim[t] + size[order[i]] > quota[t]
      <4>1. i \in 1 .. next - 1
        BY <1>1, <2>3
      <4> QED BY <1>t, <3>1, <4>1 DEF Denied
    <3>3. ~(sim[t] + size[f] > quota[t]) /\ order[j] = f
      BY <1>3, <2>3, <3>1
    <3>4. sim[t] \in Nat /\ quota[t] \in Nat /\ size[order[i]] \in Nat
      BY <1>1, <1>5, <2>3, <3>1
    <3> QED BY <1>2, <3>2, <3>3, <3>4
  <2> QED BY <2>1, <2>2, <2>3, <1>1
<1> QED BY <1>8, <1>9, <1>10, <1>11 DEF PlanInv
-----------------------------------------------------------------------------
(* The other steps of the pass, and what happens between passes *)

\* Steps that leave the plan and all it depends on alone.
LEMMA PlanUntouched ==
    ASSUME PlanInv, UNCHANGED <<size, quota, heat, order, next, dest, sim>>
    PROVE  Ordered' /\ Denied' /\ Uninverted'
BY DEF PlanInv, Ordered, Denied, Uninverted

LEMMA CrawlStep == PlanInv /\ (StartPass \/ Crawl) => PlanInv'
<1> SUFFICES ASSUME PlanInv, StartPass \/ Crawl PROVE PlanInv'
  OBVIOUS
<1> USE PlacementAssumption
<1>t. TypeOK /\ NoPlanYet /\ Planned
  BY DEF PlanInv
<1>u. UNCHANGED <<size, quota, where, pinned, heat, order, next, dest, sim, incoming,
                  settled>>
  BY DEF StartPass, Crawl, plan
<1>1. Ordered' /\ Denied' /\ Uninverted'
  BY <1>u, PlanUntouched
<1>2. CASE StartPass
  <2>1. TypeOK'
    <3>1. crawling' \in 1 .. NoTier
      BY <1>2 DEF StartPass
    <3>2. phase' = "crawl" /\ moved' = TRUE /\ files' = files
      BY <1>2 DEF StartPass
    <3> QED BY <1>t, <1>u, <3>1, <3>2, Zenon DEF TypeOK
  <2>2. NoPlanYet' /\ Planned'
    BY <1>2, <1>t, <1>u DEF StartPass, NoPlanYet, Planned
  <2> QED BY <1>1, <2>1, <2>2 DEF PlanInv
<1>3. CASE Crawl
  <2>0. files' = files \cup {f \in On(crawling) : ~pinned[f]} /\ phase = "crawl"
        /\ phase' = phase /\ moved' = moved /\ crawling' = crawling + 1
        /\ crawling \in Tier
    BY <1>3 DEF Crawl
  <2>1. TypeOK'
    <3>1. crawling' \in 1 .. NoTier
      BY <2>0
    <3>2. files' \subseteq File
      BY <2>0, <1>t DEF TypeOK, On
    <3> QED BY <1>t, <1>u, <2>0, <3>1, <3>2, Zenon DEF TypeOK
  <2>2. Planned'
    <3>1. \A f \in files' : ~pinned'[f]
      BY <2>0, <1>t, <1>u DEF Planned
    <3>2. files \subseteq files'
      BY <2>0
    <3>3. order' \in Seq(files')
      BY <1>t, <1>u, <3>2, SeqMonotone DEF Planned
    <3>4. \A t \in Tier : incoming[t] \in Seq(files')
      BY <1>t, <3>2, SeqMonotone DEF Planned
    <3>5. incoming' \in [Tier -> Seq(files')]
      BY <1>t, <1>u, <3>4 DEF Planned
    <3> QED BY <2>0, <3>1, <3>3, <3>5 DEF Planned
  <2>3. NoPlanYet'
    BY <2>0, <1>t, <1>u DEF NoPlanYet
  <2> QED BY <1>1, <2>1, <2>2, <2>3 DEF PlanInv
<1> QED BY <1>2, <1>3

LEMMA SortStep == PlanInv /\ (CalcPopularity \/ Sort) => PlanInv'
<1> SUFFICES ASSUME PlanInv, CalcPopularity \/ Sort PROVE PlanInv'
  OBVIOUS
<1> USE PlacementAssumption
<1>t. TypeOK /\ NoPlanYet /\ Planned
  BY DEF PlanInv
<1>1. CASE CalcPopularity
  <2>u. UNCHANGED <<size, quota, where, pinned, crawling, files, order, next, dest, sim,
                    incoming, moved>> /\ phase = "crawl" /\ phase' = "sort"
    BY <1>1 DEF CalcPopularity, plan
  <2>1. order' = <<>> /\ next' = 1
    BY <1>t, <2>u DEF NoPlanYet
  <2>2. Ordered' /\ Denied' /\ Uninverted'
    <3>1. 1 .. next' - 1 = {} /\ 1 .. Len(order') = {} /\ next' <= Len(order') + 1
      BY <2>1
    <3> QED BY <3>1 DEF Ordered, Denied, Uninverted
  <2>3. TypeOK'
    <3>1. heat' \in [File -> Heat] /\ settled' \in BOOLEAN
      BY <1>1, Zenon DEF CalcPopularity
    <3> QED BY <1>t, <2>u, <3>1, Zenon DEF TypeOK
  <2>4. NoPlanYet' /\ Planned'
    BY <1>t, <2>u, <2>1 DEF NoPlanYet, Planned
  <2> QED BY <2>2, <2>3, <2>4 DEF PlanInv
<1>2. CASE Sort
  <2>u. UNCHANGED <<size, quota, where, pinned, heat, crawling, files, dest, incoming,
                    moved, settled>> /\ phase' = "place" /\ next' = 1
        /\ sim' = [t \in Tier |-> 0] /\ order' \in Sorted(files)
    BY <1>2 DEF Sort
  <2>1. files \in SUBSET File
    BY <1>t DEF TypeOK
  <2>2. /\ order' \in Seq(files) /\ Len(order') \in Nat
        /\ \A i, j \in 1 .. Len(order') : i < j =>
              order'[i] # order'[j] /\ heat[order'[i]] >= heat[order'[j]]
    BY <2>1, <2>u, SortedIsSequence
  <2>3. Ordered' /\ Denied' /\ Uninverted'
    <3>1. Ordered'
      BY <2>2, <2>u DEF Ordered
    <3>2. 1 .. next' - 1 = {}
      BY <2>u
    <3> QED BY <3>1, <3>2 DEF Denied, Uninverted
  <2>4. TypeOK'
    <3>1. order' \in Seq(File)
      BY <2>1, <2>2, SeqMonotone
    <3>2. sim' \in [Tier -> Nat] /\ next' \in Nat \ {0}
      BY <2>u
    <3> QED BY <1>t, <2>u, <3>1, <3>2, Zenon DEF TypeOK
  <2>5. NoPlanYet' /\ Planned'
    BY <1>t, <2>u, <2>2 DEF NoPlanYet, Planned
  <2> QED BY <2>3, <2>4, <2>5 DEF PlanInv
<1> QED BY <1>1, <1>2

LEMMA MoveStep ==
    PlanInv /\ (MoveFiles \/ (\E t \in Tier : Transfer(t))) => PlanInv'
<1> SUFFICES ASSUME PlanInv, MoveFiles \/ (\E t \in Tier : Transfer(t)) PROVE PlanInv'
  OBVIOUS
<1> USE PlacementAssumption
<1>t. TypeOK /\ NoPlanYet /\ Planned
  BY DEF PlanInv
<1>u. UNCHANGED <<size, quota, pinned, heat, crawling, files, order, next, dest, sim,
                  settled>>
  BY DEF MoveFiles, Transfer, plan
<1>1. Ordered' /\ Denied' /\ Uninverted'
  BY <1>u, PlanUntouched
<1>2. phase \in {"place", "move"} /\ phase' = "move"
  BY DEF MoveFiles, Transfer
<1>3. CASE MoveFiles
  <2>1. UNCHANGED <<where, incoming, moved>>
    BY <1>3 DEF MoveFiles, plan
  <2>2. TypeOK'
    BY <1>t, <1>u, <1>2, <2>1, Zenon DEF TypeOK
  <2>3. NoPlanYet' /\ Planned'
    BY <1>t, <1>u, <1>2, <2>1 DEF NoPlanYet, Planned
  <2> QED BY <1>1, <2>2, <2>3 DEF PlanInv
<1>4. ASSUME NEW t \in Tier, Transfer(t) PROVE PlanInv'
  <2>1. incoming[t] \in Seq(files) /\ incoming[t] \in Seq(File) /\ incoming[t] # <<>>
    BY <1>4, <1>t DEF Transfer, TypeOK, Planned
  <2>2. Head(incoming[t]) \in File /\ Tail(incoming[t]) \in Seq(files)
        /\ Tail(incoming[t]) \in Seq(File)
    BY <2>1
  <2>3. incoming' = [incoming EXCEPT ![t] = Tail(@)]
    BY <1>4 DEF Transfer
  <2>4. where' \in [File -> Tier] /\ moved' \in BOOLEAN
    <3>1. where' = [where EXCEPT ![Head(incoming[t])] = t] \/ where' = where
      BY <1>4, Zenon DEF Transfer
    <3>2. moved' = moved \/ moved' = FALSE
      BY <1>4, Zenon DEF Transfer
    <3>3. where \in [File -> Tier] /\ moved \in BOOLEAN
      BY <1>t DEF TypeOK
    <3> QED BY <2>2, <3>1, <3>2, <3>3
  <2>5. incoming' \in [Tier -> Seq(files)] /\ incoming' \in [Tier -> Seq(File)]
    BY <2>2, <2>3, <1>t DEF TypeOK, Planned
  <2>6. TypeOK'
    BY <1>t, <1>u, <1>2, <2>4, <2>5, Zenon DEF TypeOK
  <2>7. NoPlanYet' /\ Planned'
    BY <1>t, <1>u, <1>2, <2>5 DEF NoPlanYet, Planned
  <2> QED BY <1>1, <2>6, <2>7 DEF PlanInv
<1> QED BY <1>3, <1>4

LEMMA EndStep == PlanInv /\ EndPass => PlanInv'
<1> SUFFICES ASSUME PlanInv, EndPass PROVE PlanInv'
  OBVIOUS
<1> USE PlacementAssumption
<1>t. TypeOK
  BY DEF PlanInv
<1>u. /\ UNCHANGED <<size, quota, where, pinned, heat, crawling, incoming, moved>>
      /\ phase' = "idle" /\ files' = {} /\ order' = <<>> /\ next' = 1
      /\ dest' = [f \in File |-> NoTier] /\ sim' = [t \in Tier |-> 0]
      /\ \A t \in Tier : incoming[t] = <<>>
  BY DEF EndPass
<1>1. Ordered' /\ Denied' /\ Uninverted'
  BY <1>u DEF Ordered, Denied, Uninverted
<1>2. TypeOK'
  <2>1. order' \in Seq(File) /\ next' \in Nat \ {0} /\ dest' \in [File -> 1 .. NoTier]
        /\ sim' \in [Tier -> Nat] /\ files' \subseteq File
    BY <1>u
  <2>2. settled' \in BOOLEAN
    <3> DEFINE apart == \A f, g \in files : f # g => heat[f] # heat[g]
    <3>1. settled' = (moved /\ apart)
      BY DEF EndPass
    <3> HIDE DEF apart
    <3> QED BY <3>1, Zenon
  <2> QED BY <1>t, <1>u, <2>1, <2>2, Zenon DEF TypeOK
<1>3. NoPlanYet' /\ Planned'
  <2>1. incoming' \in [Tier -> Seq(files')]
    BY <1>u, <1>t DEF TypeOK
  <2> QED BY <1>u, <2>1 DEF NoPlanYet, Planned
<1> QED BY <1>1, <1>2, <1>3 DEF PlanInv

Between ==
    \E f \in File : \/ Unpin(f) \/ \E n \in Size : Resize(f, n)
                    \/ \E t \in Tier : Pin(f, t)

LEMMA BetweenStep == PlanInv /\ Between => PlanInv'
<1> SUFFICES ASSUME PlanInv, Between PROVE PlanInv'
  OBVIOUS
<1> USE PlacementAssumption
<1>t. TypeOK /\ NoPlanYet /\ Planned
  BY DEF PlanInv
<1>u. /\ UNCHANGED <<quota, heat, phase, crawling, files, order, next, dest, sim, incoming,
                      moved>>
      /\ phase = "idle" /\ settled' = FALSE
  BY DEF Between, Unpin, Resize, Pin, plan
<1>1. order' = <<>> /\ next' = 1 /\ files' = {}
  BY <1>t, <1>u DEF NoPlanYet, Planned
<1>2. Ordered' /\ Denied' /\ Uninverted'
  BY <1>1 DEF Ordered, Denied, Uninverted
<1>3. size' \in [File -> Size] /\ where' \in [File -> Tier] /\ pinned' \in [File -> BOOLEAN]
  <2>1. size \in [File -> Size] /\ where \in [File -> Tier] /\ pinned \in [File -> BOOLEAN]
    BY <1>t DEF TypeOK
  <2>2. ASSUME NEW f \in File, Unpin(f)
        PROVE  size' = size /\ where' = where /\ pinned' = [pinned EXCEPT ![f] = FALSE]
    BY <2>2 DEF Unpin
  <2>3. ASSUME NEW f \in File, NEW n \in Size, Resize(f, n)
        PROVE  size' = [size EXCEPT ![f] = n] /\ where' = where /\ pinned' = pinned
    BY <2>3 DEF Resize
  <2>4. ASSUME NEW f \in File, NEW t \in Tier, Pin(f, t)
        PROVE  size' = size /\ where' = [where EXCEPT ![f] = t]
               /\ pinned' = [pinned EXCEPT ![f] = TRUE]
    BY <2>4 DEF Pin
  <2> QED BY <2>1, <2>2, <2>3, <2>4 DEF Between
<1>4. TypeOK'
  BY <1>t, <1>u, <1>3, Zenon DEF TypeOK
<1>5. NoPlanYet' /\ Planned'
  BY <1>t, <1>u, <1>1 DEF NoPlanYet, Planned
<1> QED BY <1>2, <1>4, <1>5 DEF PlanInv
-----------------------------------------------------------------------------
LEMMA PlanInvariant == Spec => []PlanInv
<1>1. PlanInv /\ UNCHANGED vars => PlanInv'
  <2> SUFFICES ASSUME PlanInv, UNCHANGED vars PROVE PlanInv'
    OBVIOUS
  <2>1. Ordered' /\ Denied' /\ Uninverted'
    BY PlanUntouched DEF vars
  <2>2. TypeOK' /\ NoPlanYet' /\ Planned'
    BY Zenon DEF PlanInv, TypeOK, NoPlanYet, Planned, vars
  <2> QED BY <2>1, <2>2 DEF PlanInv
<1>2. PlanInv /\ [Next]_vars => PlanInv'
  BY <1>1, CrawlStep, SortStep, PlaceStep, MoveStep, EndStep, BetweenStep
     DEF Next, Between
<1> QED BY <1>2, PlanInit, PTL DEF Spec

\* All variables stay in their types, whatever applications do between passes.
THEOREM PlacementTypeCorrect == Spec => []TypeOK
<1>1. PlanInv => TypeOK
  BY DEF PlanInv
<1> QED BY <1>1, PlanInvariant, PTL

\* simulate_tier(): a hotter file ends up in a slower tier than a colder one only if it is
\* the larger of the two, for any number of tiers, files, sizes and quotas.
THEOREM PriorityRespected == Spec => []NoPriorityInversion
<1>1. PlanInv => NoPriorityInversion
  <2> SUFFICES ASSUME PlanInv, NEW f \in Placed, NEW g \in Placed,
                      heat[f] > heat[g], dest[f] > dest[g]
               PROVE  size[f] > size[g]
    BY DEF NoPriorityInversion
  <2>1. PICK i \in 1 .. next - 1 : f = order[i]
    BY DEF Placed
  <2>2. PICK j \in 1 .. next - 1 : g = order[j]
    BY DEF Placed
  <2> QED BY <2>1, <2>2 DEF PlanInv, Uninverted
<1> QED BY <1>1, PlanInvariant, PTL

-----------------------------------------------------------------------------
(* Bytes and quotas *)

\* During a pass, the usage of a tier that was crawled is the bytes of its files.
Measured ==
    /\ usage \in [Tier -> Int]
    /\ phase = "crawl" => \A t \in 1 .. crawling - 1 : usage[t] = Bytes(On(t))
    /\ phase \in {"sort", "place", "move"} => \A t \in Tier : usage[t] = Bytes(On(t))

\* The files that are not pinned, all of which a pass plans for.
Unpinned == {f \in File : ~pinned[f]}
Crawled ==
    /\ phase = "crawl" => files = {f \in Unpinned : where[f] < crawling}
    /\ phase \in {"sort", "place", "move"} => files = Unpinned
    /\ phase \in {"place", "move"} => files = {order[i] : i \in 1 .. Len(order)}
    /\ phase = "move" => next = Len(order) + 1

\* The simulated usage of a tier is that of the files placed there, and fits.
Before(i, t) == {f \in {order[j] : j \in 1 .. i - 1} : dest[f] = t}
Filled == \A t \in Tier : sim[t] = Bytes(Before(next, t)) /\ sim[t] <= quota[t]

\* The reason for every place: the files before it left no room in a faster tier, and
\* enough in this one.
FirstFit == \A i \in 1 .. next - 1, t \in Tier :
    /\ t < dest[order[i]] => Bytes(Before(i, t)) + size[order[i]] > quota[t]
    /\ t = dest[order[i]] => Bytes(Before(i, t)) + size[order[i]] <= quota[t]

\* What is queued goes where it was placed, and what was placed is queued, there, or has
\* not been moved.
Queued ==
    /\ phase \notin {"place", "move"} => \A t \in Tier : incoming[t] = <<>>
    /\ \A t \in Tier : \A i \in 1 .. Len(incoming[t]) :
          incoming[t][i] \in Placed /\ dest[incoming[t][i]] = t
    /\ moved => \A f \in Placed : dest[f] \in Tier =>
          where[f] = dest[f] \/ \E i \in 1 .. Len(incoming[dest[f]]) : incoming[dest[f]][i] = f

\* D places every file first fit, hottest first, and the files are there.
Hotter(f, D, t) == {g \in Unpinned : heat[g] > heat[f] /\ D[g] = t}
Fixed(D) ==
    /\ \A f, g \in Unpinned : f # g => heat[f] # heat[g]
    /\ \A f \in Unpinned : D[f] \in Tier => where[f] = D[f]
    /\ \A f \in Unpinned, t \in Tier :
        /\ t < D[f] => Bytes(Hotter(f, D, t)) + size[f] > quota[t]
        /\ t = D[f] => Bytes(Hotter(f, D, t)) + size[f] <= quota[t]
\* What rests is such a placement, which a pass finds again.
Rests == settled => \E D \in [File -> 1 .. NoTier] :
    /\ Fixed(D)
    /\ \A f \in Placed : dest[f] = D[f]
    /\ \A t \in Tier : incoming[t] = <<>>
-----------------------------------------------------------------------------
(* Bytes of files *)

LEMMA BytesTotal == ASSUME NEW S PROVE Bytes(S) = Total(size, S)
BY DEF Bytes, Total, MapThenSumSet, MapThenFoldSet

LEMMA SizesInt == ASSUME TypeOK PROVE \A f \in File : size[f] \in Int
BY PlacementAssumption DEF TypeOK, Size

LEMMA BytesInt ==
    ASSUME TypeOK, NEW S \in SUBSET File
    PROVE  Bytes(S) \in Int /\ IsFiniteSet(S) /\ Bytes({}) = 0
<1>1. IsFiniteSet(S)
  BY FS_Subset, PlacementAssumption
<1>2. \A f \in S : size[f] \in Int
  BY SizesInt
<1>. QED BY <1>1, <1>2, BytesTotal, TotalInt, TotalEmpty

LEMMA BytesAdd ==
    ASSUME TypeOK, NEW S \in SUBSET File, NEW f \in File, f \notin S
    PROVE  Bytes(S \cup {f}) = size[f] + Bytes(S)
<1>1. IsFiniteSet(S)
  BY BytesInt
<1>2. (\A x \in S : size[x] \in Int) /\ size[f] \in Int
  BY SizesInt
<1>. QED BY <1>1, <1>2, BytesTotal, TotalAdd

LEMMA BytesRemove ==
    ASSUME TypeOK, NEW S \in SUBSET File, NEW f \in S
    PROVE  Bytes(S) = size[f] + Bytes(S \ {f})
<1>1. IsFiniteSet(S)
  BY BytesInt
<1>2. \A x \in S : size[x] \in Int
  BY SizesInt
<1>. QED BY <1>1, <1>2, BytesTotal, TotalRemove

LEMMA BytesLater == ASSUME NEW S PROVE Bytes(S)' = Total(size', S)
BY DEF Bytes, Total, MapThenSumSet, MapThenFoldSet

LEMMA BytesFrame ==
    ASSUME size' = size, NEW S
    PROVE  Bytes(S)' = Bytes(S)
BY BytesLater, BytesTotal

\* Steps that change no size and move no file.
LEMMA OnFrame ==
    ASSUME UNCHANGED <<size, where>>, NEW t
    PROVE  Bytes(On(t))' = Bytes(On(t))
<1>1. PICK S : S = On(t)
  OBVIOUS
<1>2. On(t)' = S
  BY <1>1 DEF On
<1>3. Bytes(On(t))' = Bytes(S)'
  BY <1>2 DEF Bytes
<1>. QED BY <1>1, <1>3, BytesFrame

\* The bytes of a tier after one file has gone from it to another.
LEMMA OnMoved ==
    ASSUME TypeOK, size' = size, NEW f \in File, NEW t \in Tier, NEW from \in Tier,
           from = where[f], from # t, where' = [where EXCEPT ![f] = t]
    PROVE  /\ Bytes(On(from))' = Bytes(On(from)) - size[f]
           /\ Bytes(On(t))' = Bytes(On(t)) + size[f]
           /\ \A u \in Tier \ {from, t} : Bytes(On(u))' = Bytes(On(u))
<1>1. where \in [File -> Tier] /\ size[f] \in Int
  BY SizesInt DEF TypeOK
<1>2. PICK A : A = On(from)
  OBVIOUS
<1>3. PICK B : B = On(t)
  OBVIOUS
<1>4. f \in A /\ f \notin B /\ A \in SUBSET File /\ B \in SUBSET File
  BY <1>2, <1>3 DEF On
<1>5. On(from)' = A \ {f} /\ On(t)' = B \cup {f}
  BY <1>1, <1>2, <1>3 DEF On
<1>6. Bytes(On(from))' = Bytes(A \ {f}) /\ Bytes(On(t))' = Bytes(B \cup {f})
  <2>1. Bytes(On(from))' = Bytes(A \ {f})' /\ Bytes(On(t))' = Bytes(B \cup {f})'
    BY <1>5 DEF Bytes
  <2>. QED BY <2>1, BytesFrame
<1>7. Bytes(A) = size[f] + Bytes(A \ {f}) /\ Bytes(B \cup {f}) = size[f] + Bytes(B)
  BY <1>4, BytesAdd, BytesRemove
<1>8. Bytes(A \ {f}) \in Int /\ Bytes(B) \in Int
  <2>1. A \ {f} \in SUBSET File
    BY <1>4
  <2>. QED BY <1>4, <2>1, BytesInt
<1>9. ASSUME NEW u \in Tier \ {from, t} PROVE Bytes(On(u))' = Bytes(On(u))
  <2>1. PICK C : C = On(u)
    OBVIOUS
  <2>2. On(u)' = C
    BY <1>1, <2>1, <1>9 DEF On
  <2>3. Bytes(On(u))' = Bytes(C)'
    BY <2>2 DEF Bytes
  <2>. QED BY <2>1, <2>3, BytesFrame
<1>. QED BY <1>1, <1>2, <1>3, <1>6, <1>7, <1>8, <1>9

LEMMA OnInt ==
    ASSUME TypeOK, size' = size, NEW t
    PROVE  Bytes(On(t))' \in Int
<1>1. PICK S : S = On(t)'
  OBVIOUS
<1>2. S \in SUBSET File
  BY <1>1 DEF On
<1>3. Bytes(On(t))' = Bytes(S)'
  BY <1>1 DEF Bytes
<1>. QED BY <1>2, <1>3, BytesFrame, BytesInt

\* Every step of a pass keeps the usages exact.
LEMMA MeasuredStep ==
    ASSUME TypeOK, Measured, Next
    PROVE  Measured'
<1>. USE PlacementAssumption
<1>t. usage \in [Tier -> Int] /\ crawling \in 1 .. NoTier /\ where \in [File -> Tier]
  BY DEF Measured, TypeOK
<1>1. CASE StartPass
  BY <1>1, <1>t DEF StartPass, Measured
<1>2. CASE Crawl
  <2>1. /\ phase = "crawl" /\ crawling \in Tier /\ phase' = phase /\ crawling' = crawling + 1
        /\ usage' = [usage EXCEPT ![crawling] = Bytes(On(crawling))]
        /\ UNCHANGED <<size, where>>
    BY <1>2 DEF Crawl
  <2>2. On(crawling) \in SUBSET File
    BY DEF On
  <2>3. Bytes(On(crawling)) \in Int
    BY <2>2, BytesInt
  <2>4. \A t \in 1 .. crawling : usage'[t] = Bytes(On(t))
    BY <1>t, <2>1 DEF Measured
  <2>5. \A t \in 1 .. crawling : Bytes(On(t))' = Bytes(On(t))
    BY <2>1, OnFrame
  <2>. QED BY <1>t, <2>1, <2>3, <2>4, <2>5 DEF Measured
<1>3. CASE CalcPopularity \/ Sort \/ Place \/ MoveFiles
  <2>1. /\ phase' \in {"sort", "place", "move"} /\ UNCHANGED <<size, where>> /\ usage' = usage
        /\ phase = "crawl" => crawling = NTiers + 1
        /\ phase \in {"crawl", "sort", "place", "move"}
    BY <1>3 DEF CalcPopularity, Sort, Place, MoveFiles
  <2>2. \A t \in Tier : usage[t] = Bytes(On(t))
    <3>1. CASE phase = "crawl"
      <4>1. crawling - 1 = NTiers
        BY <2>1, <3>1
      <4>2. \A t \in 1 .. crawling - 1 : usage[t] = Bytes(On(t))
        BY <3>1 DEF Measured
      <4>3. \A t \in Tier : t \in 1 .. crawling - 1
        BY <4>1, <1>t
      <4>. QED BY <4>2, <4>3
    <3>2. CASE phase # "crawl"
      BY <2>1, <3>2 DEF Measured
    <3>. QED BY <3>1, <3>2
  <2>3. \A t \in Tier : Bytes(On(t))' = Bytes(On(t))
    BY <2>1, OnFrame
  <2>. QED BY <1>t, <2>1, <2>2, <2>3 DEF Measured
<1>4. CASE \E t \in Tier : Transfer(t)
  <2>1. PICK t \in Tier : Transfer(t)
    BY <1>4
  <2>2. PICK f : f = Head(incoming[t])
    OBVIOUS
  <2>3. f \in File
    <3>1. incoming[t] \in Seq(File) /\ incoming[t] # <<>>
      BY <2>1 DEF Transfer, TypeOK
    <3>. QED BY <2>2, <3>1
  <2>4. PICK from \in Tier : from = where[f]
    BY <1>t, <2>3
  <2>5. /\ phase = "move" /\ phase' = phase /\ size' = size
        /\ \/ /\ where' = [where EXCEPT ![f] = t]
              /\ usage' = [usage EXCEPT ![from] = @ - size[f], ![t] = @ + size[f]]
           \/ UNCHANGED <<where, usage>>
    BY <2>1, <2>2, <2>4 DEF Transfer
  <2>6. \A u \in Tier : usage[u] = Bytes(On(u)) /\ usage[u] \in Int
    BY <1>t, <2>5 DEF Measured
  <2>7. size[f] \in Int
    BY <2>3, SizesInt
  <2>8. \A u \in Tier : usage'[u] = Bytes(On(u))'
    <3>1. CASE UNCHANGED <<where, usage>>
      <4>1. \A u \in Tier : Bytes(On(u))' = Bytes(On(u))
        BY <2>5, <3>1, OnFrame
      <4>. QED BY <3>1, <4>1, <2>6
    <3>2. CASE where' = [where EXCEPT ![f] = t] /\ from = t
               /\ usage' = [usage EXCEPT ![from] = @ - size[f], ![t] = @ + size[f]]
      <4>1. where' = where /\ \A u \in Tier : usage'[u] = usage[u]
        <5>1. where' = where
          BY <1>t, <2>3, <2>4, <3>2
        <5>2. usage'[t] = usage[t] - size[f] + size[f]
          BY <1>t, <3>2, <2>6, <2>7
        <5>3. \A u \in Tier \ {t} : usage'[u] = usage[u]
          BY <1>t, <3>2
        <5>. QED BY <5>1, <5>2, <5>3, <2>6, <2>7
      <4>2. \A u \in Tier : Bytes(On(u))' = Bytes(On(u))
        BY <2>5, <4>1, OnFrame
      <4>. QED BY <4>1, <4>2, <2>6
    <3>3. CASE where' = [where EXCEPT ![f] = t] /\ from # t
               /\ usage' = [usage EXCEPT ![from] = @ - size[f], ![t] = @ + size[f]]
      <4>1. /\ Bytes(On(from))' = Bytes(On(from)) - size[f]
            /\ Bytes(On(t))' = Bytes(On(t)) + size[f]
            /\ \A u \in Tier \ {from, t} : Bytes(On(u))' = Bytes(On(u))
        BY <2>3, <2>4, <2>5, <3>3, OnMoved
      <4>2. /\ usage'[from] = usage[from] - size[f] /\ usage'[t] = usage[t] + size[f]
            /\ \A u \in Tier \ {from, t} : usage'[u] = usage[u]
        BY <1>t, <3>3
      <4>. QED BY <4>1, <4>2, <2>6
    <3>. QED BY <2>5, <3>1, <3>2, <3>3
  <2>9. usage' \in [Tier -> Int]
    <3>1. \A u \in Tier : usage'[u] \in Int
      BY <2>5, <2>8, OnInt
    <3>2. usage \in [Tier -> Int]
      BY DEF Measured
    <3>3. usage' = [u \in Tier |-> usage'[u]]
      BY <2>5, <3>2
    <3>. QED BY <3>1, <3>3
  <2>. QED BY <2>5, <2>8, <2>9 DEF Measured
<1>5. CASE EndPass
  BY <1>5, <1>t DEF EndPass, Measured
<1>6. CASE Between
  <2>1. phase = "idle" /\ phase' = "idle"
    BY <1>6 DEF Between, Resize, Pin, Unpin
  <2>2. usage' \in [Tier -> Int]
    <3>1. ASSUME NEW f \in File, NEW n \in Size, Resize(f, n)
          PROVE  usage' \in [Tier -> Int]
      BY <1>t, <3>1, SizesInt DEF Resize, Size
    <3>2. ASSUME NEW f \in File, NEW t \in Tier, Pin(f, t) \/ Unpin(f) PROVE usage' = usage
      BY <3>2 DEF Pin, Unpin
    <3>3. ASSUME NEW f \in File, Unpin(f) PROVE usage' = usage
      BY <3>3 DEF Unpin
    <3>. QED BY <1>t, <1>6, <3>1, <3>2, <3>3 DEF Between
  <2>. QED BY <2>1, <2>2 DEF Measured
<1>. QED BY <1>1, <1>2, <1>3, <1>4, <1>5, <1>6 DEF Next, Between

-----------------------------------------------------------------------------
(* First fit *)

LEMMA BeforeFrame ==
    ASSUME UNCHANGED <<size, order, dest>>, NEW i, NEW t
    PROVE  Bytes(Before(i, t))' = Bytes(Before(i, t))
<1>1. PICK S : S = Before(i, t)
  OBVIOUS
<1>2. Before(i, t)' = S
  BY <1>1 DEF Before
<1>3. Bytes(Before(i, t))' = Bytes(S)'
  BY <1>2 DEF Bytes
<1>. QED BY <1>1, <1>3, BytesFrame

LEMMA FillFrame ==
    ASSUME Filled, FirstFit, UNCHANGED <<size, quota, order, next, dest, sim>>
    PROVE  Filled' /\ FirstFit'
<1>1. Filled'
  <2>. SUFFICES ASSUME NEW t \in Tier PROVE sim'[t] = Bytes(Before(next, t))' /\ sim'[t] <= quota'[t]
    BY DEF Filled
  <2>1. PICK n : n = next
    OBVIOUS
  <2>2. Bytes(Before(n, t))' = Bytes(Before(n, t))
    BY BeforeFrame
  <2>3. Bytes(Before(next, t))' = Bytes(Before(n, t))'
    BY <2>1 DEF Bytes
  <2>. QED BY <2>1, <2>2, <2>3 DEF Filled
<1>2. FirstFit'
  BY BeforeFrame DEF FirstFit
<1>. QED BY <1>1, <1>2

LEMMA NothingBefore ==
    ASSUME NEW t
    PROVE  Bytes(Before(1, t)) = 0 /\ Bytes(Before(1, t))' = 0
<1>1. Before(1, t) = {} /\ Before(1, t)' = {}
  BY DEF Before
<1>2. Bytes(Before(1, t)) = Bytes({}) /\ Bytes(Before(1, t))' = Bytes({})'
  BY <1>1 DEF Bytes
<1>. QED BY <1>2, BytesTotal, BytesLater, TotalEmpty

LEMMA FillEmpty ==
    ASSUME next' = 1, sim' = [t \in Tier |-> 0], \A t \in Tier : quota'[t] \in Nat
    PROVE  Filled' /\ FirstFit'
<1>1. Filled'
  <2>. SUFFICES ASSUME NEW t \in Tier PROVE sim'[t] = Bytes(Before(next, t))' /\ sim'[t] <= quota'[t]
    BY DEF Filled
  <2>1. Bytes(Before(next, t))' = Bytes(Before(1, t))'
    BY DEF Bytes
  <2>. QED BY <2>1, NothingBefore
<1>2. FirstFit'
  BY DEF FirstFit
<1>. QED BY <1>1, <1>2

LEMMA HotterFrame ==
    ASSUME UNCHANGED <<size, pinned, heat>>, NEW f, NEW D, NEW t
    PROVE  Bytes(Hotter(f, D, t))' = Bytes(Hotter(f, D, t))
<1>1. PICK S : S = Hotter(f, D, t)
  OBVIOUS
<1>2. Hotter(f, D, t)' = S
  BY <1>1 DEF Hotter, Unpinned
<1>3. Bytes(Hotter(f, D, t))' = Bytes(S)'
  BY <1>2 DEF Bytes
<1>. QED BY <1>1, <1>3, BytesFrame

LEMMA FixedFrame ==
    ASSUME UNCHANGED <<size, quota, where, pinned, heat>>, NEW D, Fixed(D)
    PROVE  Fixed(D)'
<1>1. Unpinned' = Unpinned
  BY DEF Unpinned
<1>2. \A f, t : Bytes(Hotter(f, D, t))' = Bytes(Hotter(f, D, t))
  BY HotterFrame
<1>. QED BY <1>1, <1>2 DEF Fixed

\* Steps that leave what rests alone, or begin a new plan.
LEMMA RestsFrame ==
    ASSUME Rests, UNCHANGED <<size, quota, where, pinned, dest, incoming>>,
           settled' => settled /\ heat' = heat,
           UNCHANGED <<order, next>> \/ next' = 1
    PROVE  Rests'
<1>. SUFFICES ASSUME settled'
              PROVE  \E D \in [File -> 1 .. NoTier] :
                        /\ Fixed(D)'
                        /\ \A f \in Placed' : dest'[f] = D[f]
                        /\ \A t \in Tier : incoming'[t] = <<>>
  BY DEF Rests
<1>1. PICK D \in [File -> 1 .. NoTier] :
        Fixed(D) /\ (\A f \in Placed : dest[f] = D[f]) /\ \A t \in Tier : incoming[t] = <<>>
  BY DEF Rests
<1>2. Fixed(D)'
  BY <1>1, FixedFrame
<1>3. Placed' = Placed \/ Placed' = {}
  BY DEF Placed
<1>. QED BY <1>1, <1>2, <1>3

\* What the plan of a pass is, at any step of it.
Planning == Crawled /\ Filled /\ FirstFit /\ Queued /\ Rests

LEMMA PlanningStart == PlanInv /\ Planning /\ (StartPass \/ Crawl) => Planning'
<1>. SUFFICES ASSUME PlanInv, Planning, StartPass \/ Crawl PROVE Planning'
  OBVIOUS
<1>. USE PlacementAssumption
<1>1. /\ UNCHANGED <<size, quota, where, pinned, heat, order, next, dest, sim, incoming, settled>>
      /\ phase \in {"idle", "crawl"} /\ phase' = "crawl"
  BY DEF StartPass, Crawl, plan
<1>2. Filled' /\ FirstFit'
  BY <1>1, FillFrame DEF Planning
<1>3. Rests'
  BY <1>1, RestsFrame DEF Planning
<1>4. next = 1 /\ Placed' = {}
  BY <1>1 DEF PlanInv, NoPlanYet, Placed
<1>5. Queued'
  BY <1>1, <1>4 DEF Planning, Queued
<1>6. where \in [File -> Tier] /\ crawling \in 1 .. NoTier
  BY DEF PlanInv, TypeOK
<1>7. Crawled'
  <2>1. CASE StartPass
    <3>1. files' = {} /\ crawling' = 1
      BY <2>1 DEF StartPass, PlanInv, Planned
    <3>. QED BY <1>1, <1>6, <3>1 DEF Crawled, Unpinned
  <2>2. CASE Crawl
    <3>1. /\ files = {f \in Unpinned : where[f] < crawling} /\ crawling \in Tier
          /\ files' = files \cup {f \in On(crawling) : ~pinned[f]} /\ crawling' = crawling + 1
      BY <2>2 DEF Crawl, Planning, Crawled
    <3>2. \A f \in File : where[f] < crawling + 1 <=> where[f] < crawling \/ where[f] = crawling
      BY <1>6
    <3>3. files' = {f \in Unpinned : where[f] < crawling + 1}
      BY <3>1, <3>2 DEF Unpinned, On
    <3>4. Unpinned' = Unpinned
      BY <1>1 DEF Unpinned
    <3>. QED BY <1>1, <3>1, <3>3, <3>4 DEF Crawled
  <2>. QED BY <2>1, <2>2
<1>. QED BY <1>2, <1>3, <1>5, <1>7 DEF Planning

\* sort() leaves no file out.
LEMMA SortedIsAll ==
    ASSUME NEW S \in SUBSET File, NEW s \in Sorted(S)
    PROVE  S = {s[i] : i \in 1 .. Len(s)}
<1>1. IsFiniteSet(S) /\ Cardinality(S) \in Nat
  BY FS_Subset, FS_CardinalityType, PlacementAssumption
<1>2. s \in [1 .. Cardinality(S) -> S]
  BY DEF Sorted
<1>3. Len(s) = Cardinality(S)
  BY <1>1, <1>2
<1>4. \A i, j \in 1 .. Cardinality(S) : i < j => s[i] # s[j]
  BY <1>2 DEF Sorted
<1>5. s \in Injection(1 .. Cardinality(S), S)
  <2>1. ASSUME NEW i \in 1 .. Cardinality(S), NEW j \in 1 .. Cardinality(S), s[i] = s[j]
        PROVE  i = j
    BY <1>1, <1>4, <2>1
  <2>. QED BY <1>2, <2>1 DEF Injection, IsInjective
<1>6. Cardinality(1 .. Cardinality(S)) = Cardinality(S)
  BY <1>1, FS_Interval
<1>7. s \in Surjection(1 .. Cardinality(S), S)
  BY <1>1, <1>5, <1>6, FS_Injection
<1>. QED BY <1>2, <1>3, <1>7 DEF Surjection

LEMMA PlanningSort == PlanInv /\ Planning /\ (CalcPopularity \/ Sort \/ MoveFiles) => Planning'
<1>. SUFFICES ASSUME PlanInv, Planning, CalcPopularity \/ Sort \/ MoveFiles PROVE Planning'
  OBVIOUS
<1>. USE PlacementAssumption
<1>1. /\ UNCHANGED <<size, quota, where, pinned, files, dest, incoming, moved>>
      /\ settled' => settled /\ heat' = heat
      /\ UNCHANGED <<order, next>> \/ next' = 1
  <2>1. CASE CalcPopularity
    BY <2>1 DEF CalcPopularity, plan
  <2>2. CASE Sort
    BY <2>2 DEF Sort
  <2>3. CASE MoveFiles
    BY <2>3 DEF MoveFiles, plan
  <2>. QED BY <2>1, <2>2, <2>3
<1>2. Rests'
  BY <1>1, RestsFrame DEF Planning
<1>q. \A t \in Tier : quota[t] \in Nat
  BY DEF PlanInv, TypeOK
<1>u. Unpinned' = Unpinned
  BY <1>1 DEF Unpinned
<1>3. CASE CalcPopularity
  <2>1. UNCHANGED <<order, next, sim>> /\ phase = "crawl" /\ crawling = NTiers + 1 /\ phase' = "sort"
    BY <1>3 DEF CalcPopularity, plan
  <2>2. Filled' /\ FirstFit'
    BY <1>1, <2>1, FillFrame DEF Planning
  <2>3. files = {f \in Unpinned : where[f] < NTiers + 1}
    BY <2>1 DEF Planning, Crawled
  <2>4. \A f \in Unpinned : where[f] < NTiers + 1
    BY DEF PlanInv, TypeOK, Unpinned
  <2>5. files' = Unpinned'
    BY <1>1, <1>u, <2>3, <2>4
  <2>6. Crawled'
    BY <2>1, <2>5 DEF Crawled
  <2>7. Queued'
    BY <1>1, <2>1 DEF Planning, Queued, Placed
  <2>. QED BY <1>2, <2>2, <2>6, <2>7 DEF Planning
<1>4. CASE Sort
  <2>1. /\ order' \in Sorted(files) /\ next' = 1 /\ sim' = [t \in Tier |-> 0]
        /\ phase = "sort" /\ phase' = "place"
    BY <1>4 DEF Sort
  <2>2. Filled' /\ FirstFit'
    BY <1>1, <1>q, <2>1, FillEmpty
  <2>3. PICK s \in Sorted(files) : s = order'
    BY <2>1
  <2>4. files = {s[i] : i \in 1 .. Len(s)}
    BY SortedIsAll DEF PlanInv, TypeOK
  <2>5. files' = {order'[i] : i \in 1 .. Len(order')}
    BY <1>1, <2>3, <2>4
  <2>6. files' = Unpinned'
    BY <1>1, <1>u, <2>1 DEF Planning, Crawled
  <2>7. Crawled'
    BY <2>1, <2>5, <2>6 DEF Crawled
  <2>8. Queued'
    BY <1>1, <2>1 DEF Planning, Queued, Placed
  <2>. QED BY <1>2, <2>2, <2>7, <2>8 DEF Planning
<1>5. CASE MoveFiles
  <2>1. UNCHANGED <<order, next, sim>> /\ phase = "place" /\ phase' = "move" /\ next = Len(order) + 1
    BY <1>5 DEF MoveFiles, plan
  <2>2. Filled' /\ FirstFit'
    BY <1>1, <2>1, FillFrame DEF Planning
  <2>3. Crawled'
    BY <1>1, <1>u, <2>1 DEF Planning, Crawled
  <2>4. Queued'
    BY <1>1, <2>1 DEF Planning, Queued, Placed
  <2>. QED BY <1>2, <2>2, <2>3, <2>4 DEF Planning
<1>. QED BY <1>3, <1>4, <1>5

\* The place that first fit gives a file is unique.
LEMMA PlanningPlace == PlanInv /\ Planning /\ Place => Planning'
<1>. SUFFICES ASSUME PlanInv, Planning, Place PROVE Planning'
  OBVIOUS
<1>. USE PlacementAssumption
<1>t. TypeOK /\ Ordered /\ Crawled /\ Filled /\ FirstFit /\ Queued /\ Rests
  BY DEF PlanInv, Planning
<1>1. /\ UNCHANGED <<size, quota, where, pinned, heat, phase, files, order, moved, settled>>
      /\ phase = "place" /\ next <= Len(order) /\ next' = next + 1
  BY DEF Place
<1>2. PICK f : f = order[next]
  OBVIOUS
<1>3. next \in Nat \ {0} /\ Len(order) \in Nat /\ next \in 1 .. Len(order) /\ order \in Seq(File)
  BY <1>1, <1>t DEF TypeOK
<1>4. f \in File /\ size[f] \in Int /\ f \in Unpinned
  <2>1. f \in File
    BY <1>2, <1>3
  <2>2. f \in files
    BY <1>1, <1>2, <1>3, <1>t DEF Crawled
  <2>. QED BY <1>1, <1>t, <2>1, <2>2, SizesInt DEF Crawled
<1>0. PICK t \in 1 .. NoTier :
        /\ \A u \in 1 .. t - 1 : sim[u] + size[order[next]] > quota[u]
        /\ t \in Tier => ~(sim[t] + size[order[next]] > quota[t])
        /\ dest' = [dest EXCEPT ![order[next]] = t]
        /\ sim' = [u \in Tier |-> IF u = t THEN sim[u] + size[order[next]] ELSE sim[u]]
        /\ incoming' = [u \in Tier |-> IF u = t /\ where[order[next]] # t
                                       THEN Append(incoming[u], order[next]) ELSE incoming[u]]
  BY DEF Place, FullTest
<1>5. /\ t \in 1 .. NoTier
      /\ \A u \in 1 .. t - 1 : sim[u] + size[f] > quota[u]
      /\ t \in Tier => ~(sim[t] + size[f] > quota[t])
      /\ dest' = [dest EXCEPT ![f] = t]
      /\ sim' = [u \in Tier |-> IF u = t THEN sim[u] + size[f] ELSE sim[u]]
      /\ incoming' = [u \in Tier |-> IF u = t /\ where[f] # t
                                     THEN Append(incoming[u], f) ELSE incoming[u]]
  BY <1>0, <1>2
<1>6. \A i \in 1 .. next - 1 : order[i] # f /\ order[i] \in File
  BY <1>2, <1>3, <1>t DEF Ordered
<1>7. f \notin Placed /\ Placed' = Placed \cup {f} /\ Placed \subseteq File
  <2>1. Placed' = {order[i] : i \in 1 .. next}
    BY <1>1, <1>3 DEF Placed
  <2>2. 1 .. next = (1 .. next - 1) \cup {next}
    BY <1>3
  <2>. QED BY <1>2, <1>6, <2>1, <2>2 DEF Placed
<1>8. dest \in [File -> 1 .. NoTier] /\ dest'[f] = t /\ \A g \in File : g # f => dest'[g] = dest[g]
  BY <1>4, <1>5, <1>t DEF TypeOK
<1>9. \A u \in Tier : sim[u] \in Int /\ quota[u] \in Int
  BY <1>t DEF TypeOK
\* The placement of the files before is unchanged.
<1>10. ASSUME NEW i \in 1 .. next, NEW u \in Tier
       PROVE  Before(i, u)' = Before(i, u) /\ Bytes(Before(i, u))' = Bytes(Before(i, u))
  <2>1. \A j \in 1 .. i - 1 : order[j] \in File /\ order[j] # f
    BY <1>3, <1>6
  <2>2. Before(i, u)' = Before(i, u)
    BY <1>1, <1>8, <2>1 DEF Before
  <2>3. PICK S : S = Before(i, u)
    OBVIOUS
  <2>4. Bytes(Before(i, u))' = Bytes(S)'
    BY <2>2, <2>3 DEF Bytes
  <2>. QED BY <1>1, <2>2, <2>3, <2>4, BytesFrame
<1>11. ASSUME NEW u \in Tier
       PROVE  Bytes(Before(next, u))' = IF u = t THEN sim[u] + size[f] ELSE sim[u]
  <2>1. PICK S : S = Before(next, u)
    OBVIOUS
  <2>2. S = {g \in Placed : dest[g] = u} /\ S \in SUBSET File /\ f \notin S
    BY <1>7, <2>1 DEF Before, Placed
  <2>3. Before(next, u)' = {g \in Placed' : dest'[g] = u}
    BY DEF Before, Placed
  <2>4. Before(next, u)' = IF u = t THEN S \cup {f} ELSE S
    BY <1>7, <1>8, <2>2, <2>3
  <2>5. Bytes(S) = sim[u]
    BY <1>t, <2>1 DEF Filled
  <2>6. CASE u = t
    <3>1. Bytes(Before(next, u))' = Bytes(S \cup {f})'
      BY <2>4, <2>6 DEF Bytes
    <3>2. Bytes(S \cup {f}) = size[f] + Bytes(S)
      BY <1>4, <1>t, <2>2, BytesAdd
    <3>. QED BY <1>1, <1>4, <1>9, <2>5, <2>6, <3>1, <3>2, BytesFrame
  <2>7. CASE u # t
    <3>1. Bytes(Before(next, u))' = Bytes(S)'
      BY <2>4, <2>7 DEF Bytes
    <3>. QED BY <1>1, <2>5, <2>7, <3>1, BytesFrame
  <2>. QED BY <2>6, <2>7
<1>12. Filled'
  <2>. SUFFICES ASSUME NEW u \in Tier PROVE sim'[u] = Bytes(Before(next, u))' /\ sim'[u] <= quota'[u]
    BY DEF Filled
  <2>1. sim'[u] = Bytes(Before(next, u))'
    BY <1>5, <1>11
  <2>2. sim'[u] <= quota[u]
    BY <1>4, <1>5, <1>9, <1>t DEF Filled
  <2>. QED BY <1>1, <2>1, <2>2
<1>13. FirstFit'
  <2>. SUFFICES ASSUME NEW i \in 1 .. next, NEW u \in Tier
                PROVE  /\ u < dest'[order[i]] => Bytes(Before(i, u))' + size[order[i]] > quota[u]
                       /\ u = dest'[order[i]] => Bytes(Before(i, u))' + size[order[i]] <= quota[u]
    BY <1>1, <1>3 DEF FirstFit
  <2>1. Bytes(Before(i, u))' = Bytes(Before(i, u))
    BY <1>10
  <2>2. CASE i = next
    <3>1. order[i] = f /\ dest'[order[i]] = t
      BY <1>2, <1>8, <2>2
    <3>2. Bytes(Before(i, u)) = sim[u]
      BY <1>t, <2>2 DEF Filled
    <3>. QED BY <1>4, <1>5, <1>9, <2>1, <3>1, <3>2
  <2>3. CASE i # next
    <3>1. i \in 1 .. next - 1
      BY <1>3, <2>3
    <3>2. dest'[order[i]] = dest[order[i]]
      BY <1>6, <1>8, <3>1
    <3>. QED BY <1>t, <2>1, <3>1, <3>2 DEF FirstFit
  <2>. QED BY <2>2, <2>3
<1>14. Crawled'
  <2>1. Unpinned' = Unpinned
    BY <1>1 DEF Unpinned
  <2>. QED BY <1>1, <1>t, <2>1 DEF Crawled
<1>15. Queued'
  <2>1. \A u \in Tier : incoming[u] \in Seq(File)
    BY <1>t DEF TypeOK
  <2>2. ASSUME NEW u \in Tier, NEW i \in 1 .. Len(incoming'[u])
        PROVE  incoming'[u][i] \in Placed' /\ dest'[incoming'[u][i]] = u
    <3>1. CASE u = t /\ where[f] # t
      <4>1. incoming'[u] = Append(incoming[u], f)
        BY <1>5, <3>1
      <4>2. CASE i = Len(incoming[u]) + 1
        <5>1. incoming'[u][i] = f
          BY <2>1, <4>1, <4>2
        <5>. QED BY <1>7, <1>8, <3>1, <5>1
      <4>3. CASE i # Len(incoming[u]) + 1
        <5>1. i \in 1 .. Len(incoming[u]) /\ incoming'[u][i] = incoming[u][i]
          BY <2>1, <2>2, <4>1, <4>3
        <5>2. incoming[u][i] \in Placed /\ dest[incoming[u][i]] = u
          BY <1>t, <5>1 DEF Queued
        <5>. QED BY <1>7, <1>8, <5>1, <5>2
      <4>. QED BY <4>2, <4>3
    <3>2. CASE ~(u = t /\ where[f] # t)
      <4>1. incoming'[u] = incoming[u]
        BY <1>5, <3>2
      <4>2. incoming[u][i] \in Placed /\ dest[incoming[u][i]] = u
        BY <1>t, <2>2, <4>1 DEF Queued
      <4>. QED BY <1>7, <1>8, <4>1, <4>2
    <3>. QED BY <3>1, <3>2
  <2>3. ASSUME moved, NEW g \in Placed', dest'[g] \in Tier
        PROVE  where[g] = dest'[g] \/ \E i \in 1 .. Len(incoming'[dest'[g]]) : incoming'[dest'[g]][i] = g
    <3>1. CASE g = f
      <4>1. dest'[g] = t /\ t \in Tier
        BY <1>8, <2>3, <3>1
      <4>2. CASE where[f] # t
        <5>1. incoming'[t] = Append(incoming[t], f)
          BY <1>5, <4>1, <4>2
        <5>2. Len(incoming[t]) + 1 \in 1 .. Len(incoming'[t]) /\ incoming'[t][Len(incoming[t]) + 1] = f
          BY <2>1, <4>1, <5>1
        <5>. QED BY <3>1, <4>1, <5>2
      <4>. QED BY <3>1, <4>1, <4>2
    <3>2. CASE g # f
      <4>1. g \in Placed /\ g \in File /\ dest'[g] = dest[g]
        BY <1>7, <1>8, <3>2
      <4>2. CASE where[g] # dest[g]
        <5>1. PICK i \in 1 .. Len(incoming[dest[g]]) : incoming[dest[g]][i] = g
          BY <1>t, <2>3, <4>1, <4>2 DEF Queued
        <5>2. PICK u \in Tier : u = dest[g]
          BY <2>3, <4>1
        <5>3. incoming'[u] = incoming[u] \/ incoming'[u] = Append(incoming[u], f)
          BY <1>5
        <5>4. i \in 1 .. Len(incoming'[u]) /\ incoming'[u][i] = g
          <6>1. incoming[u] \in Seq(File) /\ i \in 1 .. Len(incoming[u]) /\ incoming[u][i] = g
            BY <2>1, <5>1, <5>2
          <6>2. CASE incoming'[u] = Append(incoming[u], f)
            BY <6>1, <6>2
          <6>. QED BY <5>3, <6>1, <6>2
        <5>. QED BY <4>1, <5>2, <5>4
      <4>. QED BY <4>1, <4>2
    <3>. QED BY <3>1, <3>2
  <2>. QED BY <1>1, <2>2, <2>3 DEF Queued
<1>16. Rests'
  <2>. SUFFICES ASSUME settled
                PROVE  \E D \in [File -> 1 .. NoTier] :
                        /\ Fixed(D)'
                        /\ \A g \in Placed' : dest'[g] = D[g]
                        /\ \A u \in Tier : incoming'[u] = <<>>
    BY <1>1 DEF Rests
  <2>1. PICK D \in [File -> 1 .. NoTier] :
          Fixed(D) /\ (\A g \in Placed : dest[g] = D[g]) /\ \A u \in Tier : incoming[u] = <<>>
    BY <1>t DEF Rests
  <2>2. Fixed(D)'
    BY <1>1, <2>1, FixedFrame
  <2>3. Placed = {g \in Unpinned : heat[g] > heat[f]}
    <3>1. Unpinned = {order[i] : i \in 1 .. Len(order)}
      BY <1>1, <1>t DEF Crawled
    <3>2. \A g \in File : heat[g] \in Int
      BY <1>t DEF TypeOK, Heat
    <3>3. ASSUME NEW i \in 1 .. Len(order)
          PROVE  heat[order[i]] > heat[f] <=> i < next
      <4>1. order[i] \in File /\ order[i] \in Unpinned
        BY <1>3, <3>1
      <4>2. CASE i < next
        <5>1. heat[order[i]] >= heat[f] /\ order[i] # f
          BY <1>2, <1>3, <1>t, <4>2 DEF Ordered
        <5>2. heat[order[i]] # heat[f]
          BY <1>4, <2>1, <4>1, <5>1 DEF Fixed
        <5>. QED BY <1>4, <3>2, <4>1, <4>2, <5>1, <5>2
      <4>3. CASE i = next
        BY <1>2, <1>3, <1>4, <3>2, <4>3
      <4>4. CASE i > next
        <5>1. heat[f] >= heat[order[i]]
          BY <1>2, <1>3, <1>t, <4>4 DEF Ordered
        <5>. QED BY <1>3, <1>4, <3>2, <4>1, <4>4, <5>1
      <4>. QED BY <1>3, <4>2, <4>3, <4>4
    <3>4. \A i \in 1 .. Len(order) : i < next <=> i \in 1 .. next - 1
      BY <1>3
    <3>5. 1 .. next - 1 \subseteq 1 .. Len(order)
      BY <1>3
    <3>. QED BY <3>1, <3>3, <3>4, <3>5 DEF Placed
  <2>4. ASSUME NEW u \in Tier PROVE sim[u] = Bytes(Hotter(f, D, u))
    <3>1. Before(next, u) = {g \in Placed : D[g] = u}
      BY <2>1 DEF Before, Placed
    <3>2. Before(next, u) = Hotter(f, D, u)
      BY <2>3, <3>1 DEF Hotter
    <3>. QED BY <1>t, <3>2 DEF Filled
  <2>5. D[f] = t
    <3>1. D[f] \in 1 .. NoTier
      BY <1>4
    <3>2. CASE t < D[f]
      <4>1. t \in Tier
        BY <3>1, <3>2
      <4>. QED BY <1>4, <1>5, <1>9, <2>1, <2>4, <3>2, <4>1 DEF Fixed
    <3>3. CASE D[f] < t
      <4>1. PICK u \in Tier : u = D[f]
        BY <3>1, <3>3
      <4>2. u \in 1 .. t - 1
        BY <3>3, <4>1
      <4>. QED BY <1>4, <1>5, <1>9, <2>1, <2>4, <4>1, <4>2 DEF Fixed
    <3>. QED BY <3>1, <3>2, <3>3
  <2>6. t \in Tier => where[f] = t
    BY <1>4, <2>1, <2>5 DEF Fixed
  <2>7. \A u \in Tier : incoming'[u] = <<>>
    BY <1>5, <2>1, <2>6
  <2>8. \A g \in Placed' : dest'[g] = D[g]
    BY <1>7, <1>8, <2>1, <2>5
  <2>. QED BY <2>2, <2>7, <2>8
<1>. QED BY <1>12, <1>13, <1>14, <1>15, <1>16 DEF Planning

LEMMA PlanningTransfer ==
    ASSUME PlanInv, Planning, NEW t \in Tier, Transfer(t)
    PROVE  Planning'
<1>. USE PlacementAssumption
<1>t. TypeOK /\ Crawled /\ Filled /\ FirstFit /\ Queued /\ Rests
  BY DEF PlanInv, Planning
<1>1. /\ UNCHANGED <<size, quota, pinned, heat, phase, files, order, next, dest, sim, settled>>
      /\ phase = "move" /\ incoming[t] # <<>> /\ incoming' = [incoming EXCEPT ![t] = Tail(@)]
  BY DEF Transfer
<1>2. PICK f : f = Head(incoming[t])
  OBVIOUS
<1>3. moved' => moved /\ where' = [where EXCEPT ![f] = t]
  BY <1>2 DEF Transfer
<1>4. /\ incoming \in [Tier -> Seq(File)] /\ where \in [File -> Tier] /\ dest \in [File -> 1 .. NoTier]
      /\ order \in Seq(File) /\ next \in Nat \ {0}
  BY <1>t DEF TypeOK
<1>5. Filled' /\ FirstFit'
  BY <1>1, <1>t, FillFrame
<1>6. Crawled'
  <2>1. Unpinned' = Unpinned
    BY <1>1 DEF Unpinned
  <2>. QED BY <1>1, <1>t, <2>1 DEF Crawled
<1>7. Rests'
  BY <1>1, <1>t DEF Rests
<1>8. f \in Placed /\ dest[f] = t
  <2>1. 1 \in 1 .. Len(incoming[t]) /\ incoming[t][1] = f
    BY <1>1, <1>2, <1>4
  <2>. QED BY <1>t, <2>1 DEF Queued
<1>9. \A i \in 1 .. Len(incoming'[t]) :
        i + 1 \in 1 .. Len(incoming[t]) /\ incoming'[t][i] = incoming[t][i + 1]
  BY <1>1, <1>4
<1>10. \A u \in Tier : u # t => incoming'[u] = incoming[u]
  BY <1>1, <1>4
<1>11. Placed' = Placed /\ Placed \subseteq File
  <2>1. next - 1 <= Len(order) /\ Len(order) \in Nat
    BY <1>4 DEF PlanInv, Ordered
  <2>2. \A i \in 1 .. next - 1 : order[i] \in File
    BY <1>4, <2>1
  <2>. QED BY <1>1, <2>2 DEF Placed
<1>12. ASSUME NEW u \in Tier, NEW i \in 1 .. Len(incoming'[u])
       PROVE  incoming'[u][i] \in Placed' /\ dest'[incoming'[u][i]] = u
  <2>1. CASE u = t
    BY <1>1, <1>9, <1>11, <1>12, <1>t, <2>1 DEF Queued
  <2>2. CASE u # t
    BY <1>1, <1>10, <1>11, <1>12, <1>t, <2>2 DEF Queued
  <2>. QED BY <2>1, <2>2
<1>13. ASSUME moved', NEW g \in Placed, dest[g] \in Tier
       PROVE  where'[g] = dest[g] \/ \E i \in 1 .. Len(incoming'[dest[g]]) : incoming'[dest[g]][i] = g
  <2>1. CASE g = f
    BY <1>3, <1>4, <1>8, <1>11, <1>13, <2>1
  <2>2. CASE g # f
    <3>1. where'[g] = where[g]
      BY <1>3, <1>4, <1>11, <1>13, <2>2
    <3>2. CASE where[g] # dest[g]
      <4>1. PICK i \in 1 .. Len(incoming[dest[g]]) : incoming[dest[g]][i] = g
        BY <1>3, <1>13, <1>t, <3>2 DEF Queued
      <4>2. CASE dest[g] # t
        BY <1>10, <1>13, <4>1, <4>2
      <4>3. CASE dest[g] = t
        <5>1. i # 1
          BY <1>1, <1>2, <1>4, <2>2, <4>1, <4>3
        <5>2. i - 1 \in 1 .. Len(incoming'[t])
          BY <1>1, <1>4, <4>1, <4>3, <5>1
        <5>3. (i - 1) + 1 = i
          BY <4>1
        <5>4. incoming'[t][i - 1] = g
          BY <1>9, <4>1, <4>3, <5>2, <5>3
        <5>. QED BY <4>3, <5>2, <5>4
      <4>. QED BY <4>2, <4>3
    <3>. QED BY <3>1, <3>2
  <2>. QED BY <2>1, <2>2
<1>14. Queued'
  <2>1. \A u \in Tier : \A i \in 1 .. Len(incoming'[u]) :
          incoming'[u][i] \in Placed' /\ dest'[incoming'[u][i]] = u
    BY <1>12
  <2>2. moved' => \A g \in Placed' : dest'[g] \in Tier =>
          where'[g] = dest'[g] \/ \E i \in 1 .. Len(incoming'[dest'[g]]) : incoming'[dest'[g]][i] = g
    BY <1>1, <1>11, <1>13
  <2>3. phase' = "move"
    BY <1>1
  <2>. QED BY <2>1, <2>2, <2>3 DEF Queued
<1>. QED BY <1>5, <1>6, <1>7, <1>14 DEF Planning

\* What a whole plan has put in its places is a placement first fit, hottest first.
LEMMA PlanningEnd == PlanInv /\ Planning /\ EndPass => Planning'
<1>. SUFFICES ASSUME PlanInv, Planning, EndPass PROVE Planning'
  OBVIOUS
<1>. USE PlacementAssumption
<1>t. TypeOK /\ Ordered /\ Crawled /\ Filled /\ FirstFit /\ Queued /\ Rests
  BY DEF PlanInv, Planning
<1>1. /\ UNCHANGED <<size, quota, where, pinned, heat, incoming, moved>>
      /\ phase = "move" /\ phase' = "idle" /\ \A t \in Tier : incoming[t] = <<>>
      /\ next' = 1 /\ sim' = [t \in Tier |-> 0]
      /\ settled' => moved /\ \A f, g \in files : f # g => heat[f] # heat[g]
  BY DEF EndPass
<1>2. Filled' /\ FirstFit'
  <2>1. \A t \in Tier : quota'[t] \in Nat
    BY <1>1, <1>t DEF TypeOK
  <2>. QED BY <1>1, <2>1, FillEmpty
<1>3. Crawled'
  BY <1>1 DEF Crawled
<1>4. Placed' = {}
  BY <1>1 DEF Placed
<1>5. Queued'
  BY <1>1, <1>4 DEF Queued
<1>6. Rests'
  <2>. SUFFICES ASSUME settled'
                PROVE  \E D \in [File -> 1 .. NoTier] :
                        /\ Fixed(D)'
                        /\ \A g \in Placed' : dest'[g] = D[g]
                        /\ \A u \in Tier : incoming'[u] = <<>>
    BY DEF Rests
  <2>1. PICK D \in [File -> 1 .. NoTier] : D = dest
    BY <1>t DEF TypeOK
  <2>2. /\ Unpinned = {order[i] : i \in 1 .. Len(order)} /\ next - 1 = Len(order)
        /\ Len(order) \in Nat /\ \A f, g \in Unpinned : f # g => heat[f] # heat[g]
    <3>1. next \in Nat \ {0} /\ Len(order) \in Nat
      BY <1>t DEF TypeOK
    <3>. QED BY <1>1, <1>t, <3>1 DEF Crawled
  <2>3. \A g \in File : heat[g] \in Int
    BY <1>t DEF TypeOK, Heat
  <2>4. ASSUME NEW i \in 1 .. Len(order), NEW u \in Tier
        PROVE  Before(i, u) = Hotter(order[i], D, u)
    <3>1. ASSUME NEW j \in 1 .. Len(order)
          PROVE  heat[order[j]] > heat[order[i]] <=> j < i
      <4>1. /\ order[i] \in Unpinned /\ order[j] \in Unpinned
            /\ heat[order[i]] \in Int /\ heat[order[j]] \in Int
        BY <2>2, <2>3 DEF Unpinned
      <4>2. CASE j < i
        <5>1. heat[order[j]] >= heat[order[i]] /\ order[j] # order[i]
          BY <1>t, <4>2 DEF Ordered
        <5>2. heat[order[j]] # heat[order[i]]
          BY <2>2, <4>1, <5>1
        <5>. QED BY <4>1, <4>2, <5>1, <5>2
      <4>3. CASE j = i
        BY <4>1, <4>3
      <4>4. CASE j > i
        <5>1. heat[order[i]] >= heat[order[j]]
          BY <1>t, <4>4 DEF Ordered
        <5>. QED BY <4>1, <4>4, <5>1
      <4>. QED BY <2>2, <4>2, <4>3, <4>4
    <3>2. \A j \in 1 .. Len(order) : j < i <=> j \in 1 .. i - 1
      BY <2>2
    <3>3. 1 .. i - 1 \subseteq 1 .. Len(order)
      BY <2>2
    <3>4. {order[j] : j \in 1 .. i - 1} = {g \in Unpinned : heat[g] > heat[order[i]]}
      BY <2>2, <3>1, <3>2, <3>3
    <3>. QED BY <2>1, <3>4 DEF Before, Hotter
  <2>5. ASSUME NEW i \in 1 .. Len(order)
        PROVE  /\ D[order[i]] \in Tier => where[order[i]] = D[order[i]]
               /\ \A t \in Tier :
                    /\ t < D[order[i]] => Bytes(Hotter(order[i], D, t)) + size[order[i]] > quota[t]
                    /\ t = D[order[i]] => Bytes(Hotter(order[i], D, t)) + size[order[i]] <= quota[t]
    <3>1. i \in 1 .. next - 1
      BY <2>2
    <3>2. order[i] \in Placed
      BY <3>1 DEF Placed
    <3>3. D[order[i]] \in Tier => where[order[i]] = D[order[i]]
      BY <1>1, <1>t, <2>1, <3>2 DEF Queued
    <3>. QED BY <1>t, <2>1, <2>4, <3>1, <3>3 DEF FirstFit
  <2>6. Fixed(D)
    BY <2>2, <2>5 DEF Fixed
  <2>7. Fixed(D)'
    BY <1>1, <2>6, FixedFrame
  <2>. QED BY <1>1, <1>4, <2>7
<1>. QED BY <1>2, <1>3, <1>5, <1>6 DEF Planning

LEMMA PlanningBetween == PlanInv /\ Planning /\ Between => Planning'
<1>. SUFFICES ASSUME PlanInv, Planning, Between PROVE Planning'
  OBVIOUS
<1>. USE PlacementAssumption
<1>1. /\ UNCHANGED <<quota, phase, next, sim, incoming>> /\ phase = "idle" /\ settled' = FALSE
  BY DEF Between, Unpin, Resize, Pin, plan
<1>2. next = 1 /\ Placed' = {}
  BY <1>1 DEF PlanInv, NoPlanYet, Placed
<1>3. sim = [t \in Tier |-> 0]
  <2>1. \A t \in Tier : sim[t] = 0
    BY <1>2, NothingBefore DEF Planning, Filled
  <2>. QED BY <2>1 DEF PlanInv, TypeOK
<1>4. Filled' /\ FirstFit'
  <2>1. \A t \in Tier : quota'[t] \in Nat
    BY <1>1 DEF PlanInv, TypeOK
  <2>. QED BY <1>1, <1>2, <1>3, <2>1, FillEmpty
<1>5. Crawled' /\ Queued' /\ Rests'
  BY <1>1, <1>2 DEF Planning, Crawled, Queued, Rests
<1>. QED BY <1>4, <1>5 DEF Planning

LEMMA PassInit == Init => Measured /\ Planning
<1>. SUFFICES ASSUME Init PROVE Measured /\ Planning
  OBVIOUS
<1>. USE PlacementAssumption
<1>1. Measured
  BY DEF Init, Measured
<1>2. Crawled /\ Queued /\ Rests /\ FirstFit
  BY DEF Init, Crawled, Queued, Rests, FirstFit, Placed
<1>3. Filled
  BY NothingBefore DEF Init, Filled
<1>. QED BY <1>1, <1>2, <1>3 DEF Planning

LEMMA PassStutter ==
    ASSUME Measured, Planning, UNCHANGED vars
    PROVE  Measured' /\ Planning'
<1>1. UNCHANGED <<size, quota, where, pinned, usage, heat, phase, crawling, files, order, next,
                  dest, sim, incoming, moved, settled>>
  BY DEF vars
<1>2. Filled' /\ FirstFit'
  BY <1>1, FillFrame DEF Planning
<1>3. Rests'
  BY <1>1, RestsFrame DEF Planning
<1>4. Crawled'
  BY <1>1 DEF Planning, Crawled, Unpinned
<1>5. Queued'
  BY <1>1 DEF Planning, Queued, Placed
<1>6. Measured'
  <2>1. \A t : Bytes(On(t))' = Bytes(On(t))
    BY <1>1, OnFrame
  <2>. QED BY <1>1, <2>1 DEF Measured
<1>. QED BY <1>2, <1>3, <1>4, <1>5, <1>6 DEF Planning

\* A pass has measured and planned right, whatever happened before it.
LEMMA PassInvariant == Spec => [](PlanInv /\ Measured /\ Planning)
<1>1. PlanInv /\ Measured /\ Planning /\ [Next]_vars => (Measured /\ Planning)'
  <2>. SUFFICES ASSUME PlanInv, Measured, Planning, [Next]_vars PROVE (Measured /\ Planning)'
    OBVIOUS
  <2>1. CASE UNCHANGED vars
    BY <2>1, PassStutter
  <2>2. CASE Next
    <3>1. Measured'
      BY <2>2, MeasuredStep DEF PlanInv
    <3>2. Planning'
      BY <2>2, PlanningStart, PlanningSort, PlanningPlace, PlanningTransfer, PlanningEnd,
         PlanningBetween DEF Next, Between
    <3>. QED BY <3>1, <3>2
  <2>. QED BY <2>1, <2>2
<1>. QED BY <1>1, PassInit, PlanInvariant, PTL DEF Spec

\* From the crawl to the end of the pass the usage of every tier is the bytes of its files:
\* transfer_to_tier takes from one tier what it gives to the other, for any files and tiers.
THEOREM UsageMeasured == Spec => []UsageExact
<1>1. Measured => UsageExact
  BY DEF Measured, UsageExact
<1>. QED BY <1>1, PassInvariant, PTL

\* A pass that found room for every file and moved what it queued leaves every tier within
\* its quota if no file is pinned, for any sizes, quotas and popularities.
THEOREM QuotasRespected == Spec => []QuotaKeptUnpinned
<1>1. PlanInv /\ Measured /\ Planning => QuotaKeptUnpinned
  <2>. SUFFICES ASSUME PlanInv, Measured, Planning, PassDone, \A f \in File : ~pinned[f], NEW t \in Tier
                PROVE  usage[t] <= quota[t]
    BY DEF QuotaKeptUnpinned
  <2>1. /\ phase = "move" /\ moved /\ (\A u \in Tier : incoming[u] = <<>>)
        /\ \A f \in files : dest[f] \in Tier
    BY DEF PassDone
  <2>2. /\ files = File /\ File = {order[i] : i \in 1 .. Len(order)} /\ next = Len(order) + 1
        /\ Len(order) \in Nat
    <3>1. Unpinned = File
      BY DEF Unpinned
    <3>2. Len(order) \in Nat
      BY DEF PlanInv, TypeOK
    <3>. QED BY <2>1, <3>1, <3>2 DEF Planning, Crawled
  <2>3. Placed = File
    BY <2>2 DEF Placed
  <2>4. \A f \in File : where[f] = dest[f]
    BY <2>1, <2>2, <2>3 DEF Planning, Queued
  <2>5. On(t) = Before(next, t)
    BY <2>3, <2>4 DEF On, Before, Placed
  <2>6. usage[t] = Bytes(On(t))
    BY <2>1 DEF Measured
  <2>. QED BY <2>5, <2>6 DEF Planning, Filled
<1>. QED BY <1>1, PassInvariant, PTL

\* A pass that finds the popularities of the last pass, which moved all it queued, queues
\* nothing, for any files, tiers, sizes and quotas.
THEOREM RestIsKept == Spec => []AtRest
<1>1. Planning => AtRest
  BY DEF Planning, Rests, AtRest
<1>. QED BY <1>1, PassInvariant, PTL
=============================================================================
