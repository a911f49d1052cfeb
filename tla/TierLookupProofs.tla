------------------------- MODULE TierLookupProofs -------------------------
(***************************************************************************)
(* Proofs that files are found through the database (Findable) and that no *)
(* file is clobbered (NothingClobbered).  While the daemon is calm, entries *)
(* and files agree (Look) but for what a create or a mover has in hand.     *)
(***************************************************************************)
EXTENDS TierMigrationProofs

USE DEF registry

Calm == ~raced /\ crashes = 0

Copy(t, n) == disk[<<t, n>>] # Absent
Gone == {"exists", "rename", "record"}       \* the source is not there any more
Lookups == {"c_lookup", "c_registered"}      \* a create that has not made its file
Creates == Lookups \cup {"c_fd"}

OneCopy == \A n \in Visible : \A t, u \in Tier : Copy(t, n) /\ Copy(u, n) => t = u

\* A file is where its entry says, but for a create and a move before they store it.
EntryHere == \A n \in Visible, t \in Tier : Copy(t, n) =>
    \/ db[n] = t
    \/ Creating(n) /\ t = 1 /\ db[n] = Absent
    \/ mpc[t] = "record" /\ msrc[t][2] = n

\* An entry has its file, but for a move.
EntryTrue == \A n \in Visible, t \in Tier : db[n] = t =>
    Copy(t, n) \/ \E u \in Tier : mpc[u] \in Gone /\ msrc[u][2] = n

\* What create() did not see is not there.
Unseen == \A h \in Handle : hpc[h] \in Lookups =>
    /\ db[hloc[h][2]] = Absent
    /\ \A t \in Tier : ~Copy(t, hloc[h][2])
    /\ \A l \in Crawled : l[2] # hloc[h][2]

\* One create of a name at a time, in the first tier, and no mover takes the new file.
Creators ==
    /\ \A g, h \in Handle :
          (hpc[g] \in Creates /\ hpc[h] \in Creates /\ hloc[g][2] = hloc[h][2]) => g = h
    /\ \A h \in Handle : hpc[h] \in Creates => hloc[h][1] = 1
    /\ \A h \in Handle : hpc[h] = "c_fd" => ~Moving(hloc[h][2])

\* The worker has one File per name, and what it will write back is true.
Visited ==
    /\ \A l \in Crawled : files[l].name = l[2] \/ files[l].name \notin Visible
    /\ \A l \in Crawled : l[2] \in Visible =>
          \/ Copy(files[l].meta, l[2])
          \/ \E u \in Tier : mpc[u] \in Gone /\ msrc[u] = l
    /\ \A l, k \in Crawled : (l[2] \in Visible /\ l[2] = k[2]) => l = k

\* A mover finds the name free, as it has removed the only file of it.
Unopposed == \A u \in Tier : msrc[u][2] \in Visible =>
    /\ mpc[u] # "change"
    /\ mpc[u] \in {"rename", "record"} => ~conflicted[u]
    /\ mpc[u] \in {"exists", "rename"} => \A t \in Tier : ~Copy(t, msrc[u][2])
    /\ mpc[u] = "record" => Copy(u, msrc[u][2])

Look == /\ OneCopy /\ EntryHere /\ EntryTrue /\ Unseen
        /\ Creators /\ Visited /\ Unopposed
-----------------------------------------------------------------------------
(* What a step meets *)

\* A descriptor's file is there, and counted.
LEMMA Held ==
    ASSUME Base, ~raced, NEW h \in Handle, HasFd(h)
    PROVE  disk[hloc[h]] # Absent /\ open_files[hloc[h]] > 0
<1>1. hloc[h] \in Loc
  BY Names DEF Base, SafeInv, TypeInv, TypeOK, RequestsOK
<1>2. ~exposed[h]
  BY DEF Base, Told
<1>. QED BY <1>1, <1>2, OpenIsCounted DEF Base, SafeInv, TypeInv, TypeOK, OpenFileSafe, Safe

\* A name has one mover.
LEMMA OneMover ==
    ASSUME Base, Look, NEW t \in Tier, NEW u \in Tier, mpc[t] # "idle", mpc[u] # "idle",
           msrc[t][2] \in Visible, msrc[u][2] = msrc[t][2]
    PROVE  u = t
<1>1. msrc[t] \in Crawled /\ msrc[u] \in Crawled
  BY DEF Base, SafeInv, TypeInv, PassShape
<1>2. msrc[t] = msrc[u]
  BY <1>1 DEF Look, Visited
<1>. QED BY <1>2 DEF Base, Parts, Apart

\* No create works on a name that is being moved.
LEMMA NoCreator ==
    ASSUME Base, Look, NEW t \in Tier, mpc[t] # "idle", NEW h \in Handle, hpc[h] \in Creates
    PROVE  hloc[h][2] # msrc[t][2]
<1>1. msrc[t] \in Crawled
  BY DEF Base, SafeInv, TypeInv, PassShape
<1>2. CASE hpc[h] \in Lookups
  BY <1>1, <1>2 DEF Look, Unseen
<1>3. CASE hpc[h] = "c_fd"
  BY <1>3 DEF Look, Creators, Moving
<1>. QED BY <1>2, <1>3 DEF Creates

\* Steps that leave names, entries and the worker's Files alone, and creates and moves
\* where they are.
LEMMA LookSame ==
    ASSUME PassOK, Look, UNCHANGED files,
           \A n \in Visible : db'[n] = db[n] /\ \A t \in Tier : Copy(t, n)' <=> Copy(t, n),
           \A h \in Handle : hloc[h][2] \in Visible /\ hloc'[h][2] \in Visible,
           \A h \in Handle : hpc'[h] \in Creates =>
                 /\ hpc[h] \in Creates /\ hloc'[h] = hloc[h]
                 /\ hpc'[h] = "c_fd" <=> hpc[h] = "c_fd",
           \A h \in Handle : hpc[h] = "c_fd" => hpc'[h] = "c_fd",
           \A u \in Tier : mpc[u] \in Gone \cup {"change"} \/ mpc'[u] \in Gone \cup {"change"} =>
                 mpc'[u] = mpc[u] /\ msrc'[u] = msrc[u] /\ conflicted'[u] = conflicted[u],
           \A h \in Handle, n \in Visible : hpc'[h] = "c_fd" /\ n = hloc[h][2] => ~Moving(n)'
    PROVE  Look'
<1>1. Crawled' = Crawled
  BY DEF Crawled
<1>2. \A n \in Visible : Creating(n) => Creating(n)'
  BY DEF Creating, Creates
<1>3. OneCopy'
  BY DEF Look, OneCopy
<1>4. EntryHere'
  BY <1>2 DEF Look, EntryHere, Gone
<1>5. EntryTrue'
  BY DEF Look, EntryTrue
<1>6. Unseen'
  BY <1>1 DEF Look, Unseen, Creates, Lookups
<1>7. Creators'
  BY DEF Look, Creators, Creates
<1>8. Visited'
  <2>1. \A l \in Crawled : files[l].meta \in Tier
    BY DEF PassOK, Crawled, Entry
  <2>2. ASSUME NEW l \in Crawled, l[2] \in Visible
        PROVE  Copy(files[l].meta, l[2])' \/ \E u \in Tier : mpc'[u] \in Gone /\ msrc'[u] = l
    <3>1. CASE Copy(files[l].meta, l[2])
      <4>1. PICK t \in Tier : t = files[l].meta
        BY <2>1
      <4>2. Copy(t, l[2])'
        BY <2>2, <3>1, <4>1
      <4>. QED BY <4>1, <4>2 DEF Copy
    <3>2. CASE \E u \in Tier : mpc[u] \in Gone /\ msrc[u] = l
      BY <3>2
    <3>. QED BY <2>2, <3>1, <3>2 DEF Look, Visited
  <2>. QED BY <1>1, <2>2 DEF Look, Visited
<1>9. Unopposed'
  BY DEF Look, Unopposed, Gone
<1>. QED BY <1>3, <1>4, <1>5, <1>6, <1>7, <1>8, <1>9 DEF Look
-----------------------------------------------------------------------------
(* The worker *)

LEMMA LookInit == MaxCopies <= 1 /\ Init => Look
<1>. SUFFICES ASSUME MaxCopies <= 1, Init PROVE Look
  OBVIOUS
<1>1. PICK S \in SUBSET (Tier \X Visible) :
        /\ \A n \in Visible : Cardinality({l \in S : l[2] = n}) <= MaxCopies
        /\ disk = [l \in Loc |-> IF l \in S THEN <<l, 0>> ELSE Absent]
        /\ \A n \in Name : IF \E t \in Tier : <<t, n>> \in S
                           THEN <<db[n], n>> \in S ELSE db[n] = Absent
  BY DEF Init
<1>2. \A n \in Visible, t \in Tier : Copy(t, n) <=> <<t, n>> \in S
  <2>. SUFFICES ASSUME NEW n \in Visible, NEW t \in Tier PROVE Copy(t, n) <=> <<t, n>> \in S
    OBVIOUS
  <2>1. <<t, n>> \in Loc
    BY Names
  <2>2. <<t, n>> \in S => <<<<t, n>>, 0>> # Absent
    BY <2>1, Markers DEF Content
  <2>. QED BY <1>1, <2>1, <2>2 DEF Copy
<1>3. ASSUME NEW n \in Visible, NEW t \in Tier, NEW u \in Tier, <<t, n>> \in S, <<u, n>> \in S
      PROVE  t = u
  <2>. DEFINE C == {l \in S : l[2] = n}
  <2>1. Tier \in SUBSET Int /\ IsFiniteSet(Tier)
    BY Tiers, FS_Interval DEF Tier
  <2>2. IsFiniteSet(C)
    <3>1. C \subseteq Tier \X {n}
      BY DEF C
    <3>2. IsFiniteSet(Tier \X {n})
      BY <2>1, FS_Singleton, FS_Product
    <3>. QED BY <3>1, <3>2, FS_Subset
  <2>3. Cardinality(C) <= 1
    <3>1. Cardinality(C) \in Nat /\ MaxCopies \in Nat /\ Cardinality(C) <= MaxCopies
      BY <1>1, <2>2, FS_CardinalityType, DataAssumption
    <3>. QED BY <3>1
  <2>4. <<t, n>> \in C /\ <<u, n>> \in C
    BY <1>3
  <2>. HIDE DEF C
  <2>5. CASE <<t, n>> = <<u, n>>
    BY <2>5
  <2>6. CASE <<t, n>> # <<u, n>>
    <3>. DEFINE D == C \ {<<t, n>>}
    <3>1. IsFiniteSet(D) /\ Cardinality(D) = Cardinality(C) - 1 /\ Cardinality(C) \in Nat
      BY <2>2, <2>4, FS_RemoveElement, FS_CardinalityType, FS_Subset
    <3>2. Cardinality(D) \in Nat /\ Cardinality(D) # 0
      BY <2>4, <2>6, <3>1, FS_EmptySet, FS_CardinalityType
    <3>. QED BY <2>3, <3>1, <3>2
  <2>. QED BY <2>5, <2>6
<1>4. \A n \in Visible, t \in Tier : Copy(t, n) <=> db[n] = t
  <2>. SUFFICES ASSUME NEW n \in Visible, NEW t \in Tier PROVE Copy(t, n) <=> db[n] = t
    OBVIOUS
  <2>1. n \in Name /\ db[n] \in Tier \cup {Absent}
    BY Names DEF Init
  <2>2. CASE \E u \in Tier : <<u, n>> \in S
    <3>1. <<db[n], n>> \in S
      BY <1>1, <2>1, <2>2
    <3>2. db[n] \in Tier
      BY <3>1
    <3>. QED BY <1>2, <1>3, <3>1, <3>2
  <2>3. CASE ~\E u \in Tier : <<u, n>> \in S
    <3>1. db[n] = Absent
      BY <1>1, <2>1, <2>3
    <3>. QED BY <1>2, <2>3, <3>1, Markers
  <2>. QED BY <2>2, <2>3
<1>5. Crawled = {}
  BY DEF Init, Crawled
<1>6. (\A h \in Handle : hpc[h] = "idle") /\ \A t \in Tier : mpc[t] = "idle"
  BY DEF Init
<1>7. OneCopy /\ EntryHere /\ EntryTrue
  BY <1>4 DEF OneCopy, EntryHere, EntryTrue
<1>8. Unseen /\ Creators
  BY <1>6 DEF Unseen, Creators, Creates, Lookups
<1>9. Visited /\ Unopposed
  BY <1>5, <1>6 DEF Visited, Unopposed
<1>. QED BY <1>7, <1>8, <1>9 DEF Look

LEMMA LookCrawl == Base /\ Look /\ Crawl => Look'
<1>. SUFFICES ASSUME Base, Look, Crawl PROVE Look'
  OBVIOUS
<1>. USE DEF Base, SafeInv, TypeInv, TypeOK
<1>1. UNCHANGED <<disk, db, hpc, hloc, mpc, msrc, conflicted>>
  BY DEF Crawl, store, handles, movers
<1>2. \A t \in Tier : mpc[t] = "idle"
  BY DEF Crawl, PassShape
<1>3. ASSUME NEW l \in Crawled', l[2] \in Visible PROVE Copy(l[1], l[2])
  <2>1. l \in Loc /\ l = <<l[1], l[2]>>
    BY DEF Crawled, Loc
  <2>2. CASE l \in Crawled
    BY <2>1, <2>2 DEF Crawl, Parts, Present, Copy
  <2>3. CASE l \notin Crawled
    BY <1>3, <2>1, <2>3 DEF Crawl, Crawled, Copy
  <2>. QED BY <2>2, <2>3
<1>4. ASSUME NEW l \in Crawled', files'[l] = NewFile(l)
      PROVE  /\ files'[l].name = l[2]
             /\ l[2] \in Visible => files'[l].meta = l[1]
  <2>1. files'[l].name = l[2] /\ files'[l].meta = IF db[l[2]] = Absent THEN l[1] ELSE db[l[2]]
    BY <1>4 DEF NewFile
  <2>2. l \in Loc /\ l[1] \in Tier
    BY DEF Crawled, Loc
  <2>3. ASSUME l[2] \in Visible PROVE db[l[2]] = l[1] \/ db[l[2]] = Absent
    BY <1>2, <1>3, <2>2, <2>3 DEF Look, EntryHere
  <2>. QED BY <2>1, <2>3
<1>5. \A l \in Crawled' : files'[l] = NewFile(l) \/ (l \in Crawled /\ files'[l] = files[l])
  BY DEF Crawl, Crawled
<1>6. Visited'
  <2>1. ASSUME NEW l \in Crawled' PROVE files'[l].name = l[2] \/ files'[l].name \notin Visible
    BY <1>4, <1>5 DEF Look, Visited
  <2>2. ASSUME NEW l \in Crawled', l[2] \in Visible
        PROVE  Copy(files'[l].meta, l[2])
    <3>1. CASE files'[l] = NewFile(l)
      BY <1>3, <1>4, <2>2, <3>1
    <3>2. CASE l \in Crawled /\ files'[l] = files[l]
      BY <1>2, <2>2, <3>2 DEF Look, Visited, Gone
    <3>. QED BY <1>5, <3>1, <3>2
  <2>3. ASSUME NEW l \in Crawled', NEW k \in Crawled', l[2] \in Visible, l[2] = k[2] PROVE l = k
    <3>1. l[1] \in Tier /\ k[1] \in Tier /\ l = <<l[1], l[2]>> /\ k = <<k[1], k[2]>>
      BY DEF Crawled, Loc
    <3>2. Copy(l[1], l[2]) /\ Copy(k[1], l[2])
      BY <1>3, <2>3
    <3>. QED BY <2>3, <3>1, <3>2 DEF Look, OneCopy
  <2>. QED BY <1>1, <2>1, <2>2, <2>3 DEF Visited, Copy
<1>7. Unseen'
  <2>. SUFFICES ASSUME NEW h \in Handle, hpc[h] \in Lookups, NEW l \in Crawled',
                       l[2] = hloc[h][2]
                PROVE  FALSE
    BY <1>1 DEF Look, Unseen, Copy
  <2>1. hloc[h][2] \in Visible /\ l[1] \in Tier
    BY DEF RequestsOK, Crawled, Loc
  <2>. QED BY <1>3, <2>1 DEF Look, Unseen
<1>8. OneCopy' /\ EntryHere' /\ EntryTrue' /\ Creators' /\ Unopposed'
  BY <1>1 DEF Look, OneCopy, EntryHere, EntryTrue, Creators, Unopposed, Copy, Creating, Moving
<1>. QED BY <1>6, <1>7, <1>8 DEF Look

LEMMA LookUpdateDb == Base /\ Look /\ UpdateDb => Look'
<1>. SUFFICES ASSUME Base, Look, UpdateDb PROVE Look'
  OBVIOUS
<1>. USE DEF Base, SafeInv, TypeInv, TypeOK
<1>1. UNCHANGED <<disk, hpc, hloc, mpc, msrc, conflicted>>
  BY DEF UpdateDb, handles, movers
<1>2. \A t \in Tier : mpc[t] = "idle"
  BY DEF UpdateDb, PassShape
<1>3. PICK l \in Crawled :
        db' = [db EXCEPT ![files[l].name] = files[l].meta] /\ files' = [files EXCEPT ![l] = NoEntry]
  BY DEF UpdateDb
<1>4. files[l].name \in Name /\ files[l].meta \in Tier /\ l \in Loc
  BY DEF PassOK, Crawled, Entry
<1>5. Crawled' \subseteq Crawled /\ \A k \in Crawled' : files'[k] = files[k]
  BY <1>3 DEF Crawled, PassOK
<1>6. \A n \in Visible : n # files[l].name => db'[n] = db[n]
  BY <1>3, Names DEF StoreOK
<1>7. ASSUME files[l].name \in Visible
      PROVE  l[2] = files[l].name /\ Copy(files[l].meta, l[2]) /\ db'[l[2]] = files[l].meta
  <2>1. l[2] = files[l].name
    BY <1>7 DEF Look, Visited
  <2>2. Copy(files[l].meta, l[2])
    BY <1>2, <1>7, <2>1 DEF Look, Visited, Gone
  <2>3. db'[files[l].name] = files[l].meta
    BY <1>3, <1>4 DEF StoreOK
  <2>. QED BY <2>1, <2>2, <2>3
<1>8. EntryHere' /\ EntryTrue'
  <2>1. ASSUME NEW n \in Visible, NEW t \in Tier, n = files[l].name
        PROVE  Copy(t, n) <=> db'[n] = t
    BY <1>4, <1>7, <2>1 DEF Look, OneCopy
  <2>2. ASSUME NEW n \in Visible, NEW t \in Tier, n # files[l].name
        PROVE  /\ Copy(t, n) => db[n] = t \/ (Creating(n) /\ t = 1 /\ db[n] = Absent)
               /\ db[n] = t => Copy(t, n)
    BY <1>2 DEF Look, EntryHere, EntryTrue, Gone
  <2>. QED BY <1>1, <1>6, <2>1, <2>2 DEF EntryHere, EntryTrue, Copy, Creating
<1>9. Unseen'
  <2>. SUFFICES ASSUME NEW h \in Handle, hpc[h] \in Lookups, hloc[h][2] = files[l].name
                PROVE  FALSE
    BY <1>1, <1>5, <1>6 DEF Look, Unseen, Copy, RequestsOK
  <2>1. l[2] = hloc[h][2]
    BY <1>7 DEF RequestsOK
  <2>. QED BY <2>1 DEF Look, Unseen
<1>10. Visited'
  BY <1>1, <1>5 DEF Look, Visited, Copy
<1>11. OneCopy' /\ Creators' /\ Unopposed'
  BY <1>1 DEF Look, OneCopy, Creators, Unopposed, Copy, Moving
<1>. QED BY <1>8, <1>9, <1>10, <1>11 DEF Look

LEMMA LookWorker == Base /\ Look /\ (Worker \/ UNCHANGED vars) => Look'
<1>. SUFFICES ASSUME Base, Look, Worker \/ UNCHANGED vars PROVE Look'
  OBVIOUS
<1>1. CASE StartPass \/ Plan \/ Join \/ EndPass \/ UNCHANGED vars
  <2>1. UNCHANGED <<disk, db, hpc, hloc, mpc, msrc, conflicted, files>>
    BY <1>1 DEF StartPass, Plan, Join, EndPass, store, handles, movers, vars
  <2>2. Crawled' = Crawled
    BY <2>1 DEF Crawled
  <2>3. OneCopy' /\ EntryHere' /\ EntryTrue'
    BY <2>1 DEF Look, OneCopy, EntryHere, EntryTrue, Copy, Creating
  <2>4. Unseen' /\ Creators'
    BY <2>1, <2>2 DEF Look, Unseen, Creators, Copy, Moving
  <2>5. Visited' /\ Unopposed'
    BY <2>1, <2>2 DEF Look, Visited, Unopposed, Copy
  <2>. QED BY <2>3, <2>4, <2>5 DEF Look
<1>. QED BY <1>1, LookCrawl, LookUpdateDb DEF Worker
-----------------------------------------------------------------------------
(* The movers *)

\* The mover's own names are no application names, so copies are out of sight.
LEMMA OutOfSight ==
    ASSUME MoversOK, NEW t \in Tier, NEW n \in Visible, NEW u \in Tier
    PROVE  /\ <<u, n>> \in Loc /\ <<u, n>> # Tmp(t)
           /\ (msrc[t][2] \notin Visible \/ conflicted[t]) => <<u, n>> # RenameTo(t)
<1>1. <<u, n>> \in Tier \X Visible /\ <<u, n>> \in Loc
  BY Names
<1>2. <<u, n>> # Tmp(t) /\ <<u, n>> # ConflictPath(t)
  BY <1>1, OwnNames
<1>. QED BY <1>1, <1>2 DEF RenameTo, Target

LEMMA LookCopy ==
    ASSUME Base, ~raced, Look, NEW t \in Tier,
           Check(t) \/ CopyOpen(t) \/ CopyDone(t) \/ CopyFail(t)
    PROVE  Look'
<1>. USE DEF Base, SafeInv, TypeInv, TypeOK
<1>1. UNCHANGED <<db, files, hpc, hloc>>
  BY DEF Check, CopyOpen, CopyDone, CopyFail, store, handles, pass
<1>2. \A n \in Visible, u \in Tier : Copy(u, n)' <=> Copy(u, n)
  <2>. SUFFICES ASSUME NEW n \in Visible, NEW u \in Tier PROVE disk'[<<u, n>>] = disk[<<u, n>>]
    BY DEF Copy
  <2>1. <<u, n>> \in Loc /\ <<u, n>> # Tmp(t)
    BY OutOfSight
  <2>. QED BY <2>1 DEF Check, CopyOpen, CopyDone, CopyFail, store, StoreOK
<1>3. \A u \in Tier \ {t} : /\ mpc'[u] = mpc[u] /\ msrc'[u] = msrc[u]
                            /\ conflicted'[u] = conflicted[u]
  BY DEF Check, CopyOpen, CopyDone, CopyFail, MoversOK
<1>4. mpc[t] \notin Gone \cup {"change"} /\ mpc'[t] \notin Gone \cup {"change"}
  BY DEF Check, CopyOpen, CopyDone, CopyFail, MoversOK, Gone
<1>5. \A h \in Handle : hloc[h][2] \in Visible
  BY DEF RequestsOK
<1>6. ASSUME NEW h \in Handle, NEW n \in Visible, hpc[h] = "c_fd", n = hloc[h][2] PROVE ~Moving(n)'
  <2>1. ~Moving(n)
    BY <1>6 DEF Look, Creators, Creates
  <2>2. CASE Check(t)
    <3>1. PICK l \in todo[t] : mpc'[t] = "idle" \/ (msrc'[t] = l /\ ~(open_files[l] > 0))
      BY <2>2 DEF Check, MoversOK
    <3>2. l \in Loc /\ disk[l] # Absent
      BY Names DEF PassOK, Parts, Present
    <3>3. disk[hloc[h]] # Absent /\ open_files[hloc[h]] > 0
      BY <1>6, Held DEF HasFd
    <3>4. ASSUME mpc'[t] # "idle" PROVE msrc'[t][2] # n
      <4>. SUFFICES ASSUME l[2] = n PROVE FALSE
        BY <3>1, <3>4
      <4>1. l = <<l[1], n>> /\ hloc[h] = <<hloc[h][1], n>>
            /\ l[1] \in Tier /\ hloc[h][1] \in Tier
        BY <1>6, <3>2 DEF Loc, RequestsOK
      <4>2. Copy(l[1], n) /\ Copy(hloc[h][1], n)
        BY <3>2, <3>3, <4>1 DEF Copy
      <4>3. l = hloc[h]
        BY <1>5, <4>1, <4>2 DEF Look, OneCopy
      <4>. QED BY <3>1, <3>3, <3>4, <4>3
    <3>. QED BY <1>3, <2>1, <3>4 DEF Moving
  <2>3. CASE ~Check(t)
    <3>1. mpc[t] # "idle" /\ msrc' = msrc
      BY <2>3 DEF CopyOpen, CopyDone, CopyFail
    <3>. QED BY <1>3, <2>1, <3>1 DEF Moving
  <2>. QED BY <2>2, <2>3
<1>7. PassOK /\ \A n \in Visible : db'[n] = db[n]
  BY <1>1
<1>8. \A u \in Tier : mpc[u] \in Gone \cup {"change"} \/ mpc'[u] \in Gone \cup {"change"} =>
          mpc'[u] = mpc[u] /\ msrc'[u] = msrc[u] /\ conflicted'[u] = conflicted[u]
  BY <1>3, <1>4
<1>. QED BY <1>1, <1>2, <1>5, <1>6, <1>7, <1>8, LookSame

LEMMA LookRemove == ASSUME Base, Look, NEW t \in Tier, Remove(t) PROVE Look'
<1>. USE DEF Base, SafeInv, TypeInv, TypeOK
<1>1. /\ mpc[t] = "remove" /\ mpc' = [mpc EXCEPT ![t] = "exists"]
      /\ disk' = [disk EXCEPT ![msrc[t]] = Absent]
      /\ UNCHANGED <<db, files, hpc, hloc, msrc, conflicted>>
  BY DEF Remove, pass
<1>2. /\ msrc[t] \in Loc /\ disk[msrc[t]] # Absent /\ msrc[t] \in Crawled
      /\ msrc[t] = <<msrc[t][1], msrc[t][2]>> /\ msrc[t][1] \in Tier
  BY <1>1, Paths DEF Parts, Present, Early, PassShape, Loc
<1>3. \A n \in Visible, u \in Tier : Copy(u, n)' <=> Copy(u, n) /\ n # msrc[t][2]
  <2>. SUFFICES ASSUME NEW n \in Visible, NEW u \in Tier
                PROVE  Copy(u, n)' <=> Copy(u, n) /\ n # msrc[t][2]
    OBVIOUS
  <2>1. <<u, n>> \in Loc
    BY Names
  <2>2. Copy(u, n) /\ n = msrc[t][2] => <<u, n>> = msrc[t]
    BY <1>2 DEF Look, OneCopy, Copy
  <2>. QED BY <1>1, <1>2, <2>1, <2>2 DEF Copy, StoreOK
<1>4. \A u \in Tier \ {t} : mpc'[u] = mpc[u]
  BY <1>1 DEF MoversOK
<1>5. mpc'[t] = "exists" /\ Crawled' = Crawled
  BY <1>1 DEF MoversOK, Crawled
<1>6. OneCopy'
  BY <1>3 DEF Look, OneCopy
<1>7. EntryHere'
  BY <1>1, <1>3, <1>4 DEF Look, EntryHere, Creating
<1>8. EntryTrue'
  BY <1>1, <1>3, <1>4, <1>5 DEF Look, EntryTrue, Gone
<1>9. Unseen' /\ Creators'
  BY <1>1, <1>3, <1>4, <1>5 DEF Look, Unseen, Creators, Moving, RequestsOK
<1>10. Visited'
  <2>1. \A l \in Crawled : files[l].meta \in Tier
    BY DEF PassOK, Crawled, Entry
  <2>2. ASSUME NEW l \in Crawled, l[2] \in Visible
        PROVE  Copy(files[l].meta, l[2])' \/ \E u \in Tier : mpc'[u] \in Gone /\ msrc[u] = l
    <3>1. CASE l[2] = msrc[t][2]
      <4>1. l = msrc[t]
        BY <1>2, <2>2, <3>1 DEF Look, Visited
      <4>. QED BY <1>5, <4>1 DEF Gone
    <3>2. CASE l[2] # msrc[t][2] /\ Copy(files[l].meta, l[2])
      <4>1. PICK v \in Tier : v = files[l].meta
        BY <2>1
      <4>2. Copy(v, l[2])'
        BY <1>3, <2>2, <3>2, <4>1
      <4>. QED BY <1>1, <4>1, <4>2 DEF Copy
    <3>3. CASE \E u \in Tier : mpc[u] \in Gone /\ msrc[u] = l
      BY <1>1, <1>4, <3>3 DEF Gone
    <3>. QED BY <2>2, <3>1, <3>2, <3>3 DEF Look, Visited
  <2>. QED BY <1>1, <1>5, <2>2 DEF Look, Visited
<1>11. Unopposed'
  <2>. SUFFICES ASSUME NEW u \in Tier, NEW n \in Visible, n = msrc[u][2]
                PROVE  /\ mpc'[u] # "change"
                       /\ mpc'[u] \in {"rename", "record"} => ~conflicted[u]
                       /\ mpc'[u] \in {"exists", "rename"} => \A v \in Tier : ~Copy(v, n)'
                       /\ mpc'[u] = "record" => Copy(u, n)'
    BY <1>1 DEF Unopposed, Copy
  <2>1. CASE u = t
    BY <1>3, <1>5, <2>1
  <2>2. CASE u # t
    <3>1. mpc[u] = "record" => n # msrc[t][2]
      BY <1>1, <2>2, OneMover
    <3>. QED BY <1>3, <1>4, <2>2, <3>1 DEF Look, Unopposed
  <2>. QED BY <2>1, <2>2
<1>. QED BY <1>6, <1>7, <1>8, <1>9, <1>10, <1>11 DEF Look

LEMMA LookTestExists == ASSUME Base, Look, NEW t \in Tier, TestExists(t) PROVE Look'
<1>. USE DEF Base, SafeInv, TypeInv, TypeOK
<1>1. /\ mpc[t] = "exists" /\ mpc' = [mpc EXCEPT ![t] = "rename"]
      /\ conflicted' = [conflicted EXCEPT ![t] = disk[Target(t)] # Absent]
      /\ UNCHANGED <<disk, db, files, hpc, hloc, msrc>>
  BY DEF TestExists, pass, store, handles
<1>2. mpc'[t] = "rename" /\ \A u \in Tier \ {t} : mpc'[u] = mpc[u] /\ conflicted'[u] = conflicted[u]
  BY <1>1 DEF MoversOK
<1>3. msrc[t][2] \in Visible => ~conflicted'[t]
  BY <1>1 DEF Look, Unopposed, Copy, Target, MoversOK
<1>4. \A u \in Tier : mpc[u] \in Gone <=> mpc'[u] \in Gone
  BY <1>1, <1>2 DEF Gone
<1>5. \A u \in Tier : /\ mpc'[u] = "idle" <=> mpc[u] = "idle"
                     /\ mpc'[u] = "record" <=> mpc[u] = "record"
  BY <1>1, <1>2
<1>6. Crawled' = Crawled
  BY <1>1 DEF Crawled
<1>7. OneCopy' /\ EntryHere' /\ EntryTrue'
  BY <1>1, <1>4, <1>5 DEF Look, OneCopy, EntryHere, EntryTrue, Copy, Creating
<1>8. Unseen' /\ Creators'
  BY <1>1, <1>5, <1>6 DEF Look, Unseen, Creators, Copy, Moving
<1>9. Visited'
  BY <1>1, <1>4, <1>6 DEF Look, Visited, Copy
<1>10. Unopposed'
  BY <1>1, <1>2, <1>3 DEF Look, Unopposed, Copy
<1>. QED BY <1>7, <1>8, <1>9, <1>10 DEF Look

LEMMA LookRename == ASSUME Base, Look, NEW t \in Tier, Rename(t) PROVE Look'
<1>. USE DEF Base, SafeInv, TypeInv, TypeOK
<1>1. /\ mpc[t] = "rename" /\ mpc' = [mpc EXCEPT ![t] = "record"]
      /\ disk' = [disk EXCEPT ![RenameTo(t)] = disk[Tmp(t)], ![Tmp(t)] = Absent]
      /\ UNCHANGED <<db, files, hpc, hloc, msrc, conflicted>>
  BY DEF Rename, pass
<1>2. disk[Tmp(t)] # Absent /\ RenameTo(t) \in Loc /\ Tmp(t) \in Loc /\ RenameTo(t) # Tmp(t)
  BY <1>1, OwnPaths DEF Parts, Present, WithTmp
<1>3. ASSUME NEW n \in Visible, NEW u \in Tier
      PROVE  Copy(u, n)' <=> (Copy(u, n) \/ (n = msrc[t][2] /\ u = t))
  <2>1. <<u, n>> \in Loc /\ <<u, n>> # Tmp(t)
    BY OutOfSight
  <2>2. CASE msrc[t][2] \notin Visible
    <3>1. <<u, n>> # RenameTo(t)
      BY <2>2, OutOfSight
    <3>. QED BY <1>1, <1>2, <2>1, <2>2, <3>1 DEF Copy, StoreOK
  <2>3. CASE msrc[t][2] \in Visible
    <3>1. RenameTo(t) = <<t, msrc[t][2]>>
      BY <1>1, <2>3 DEF Look, Unopposed, RenameTo, Target
    <3>. QED BY <1>1, <1>2, <2>1, <3>1 DEF Copy, StoreOK
  <2>. QED BY <2>2, <2>3
<1>4. mpc'[t] = "record" /\ Crawled' = Crawled /\ \A u \in Tier \ {t} : mpc'[u] = mpc[u]
  BY <1>1 DEF MoversOK, Crawled
<1>5. OneCopy'
  <2>. SUFFICES ASSUME NEW n \in Visible, NEW u \in Tier, NEW v \in Tier, Copy(u, n)', Copy(v, n)'
                PROVE  u = v
    BY DEF OneCopy
  <2>1. CASE n = msrc[t][2]
    BY <1>1, <1>3, <2>1 DEF Look, Unopposed
  <2>2. CASE n # msrc[t][2]
    BY <1>3, <2>2 DEF Look, OneCopy
  <2>. QED BY <2>1, <2>2
<1>6. EntryHere'
  BY <1>1, <1>3, <1>4 DEF Look, EntryHere, Creating
<1>7. EntryTrue'
  BY <1>1, <1>3, <1>4 DEF Look, EntryTrue, Gone
<1>8. Unseen'
  <2>. SUFFICES ASSUME NEW h \in Handle, NEW n \in Visible, hpc[h] \in Lookups, n = hloc[h][2]
                PROVE  db[n] = Absent /\ (\A u \in Tier : ~Copy(u, n)')
                       /\ \A l \in Crawled : l[2] # n
    BY <1>1, <1>4 DEF Unseen, RequestsOK, Copy
  <2>1. n # msrc[t][2]
    BY <1>1, NoCreator DEF Creates
  <2>. QED BY <1>3, <2>1 DEF Look, Unseen
<1>9. Creators'
  BY <1>1, <1>4 DEF Look, Creators, Moving
<1>10. Visited'
  <2>1. ASSUME NEW l \in Crawled, l[2] \in Visible
        PROVE  Copy(files[l].meta, l[2])' \/ \E u \in Tier : mpc'[u] \in Gone /\ msrc[u] = l
    <3>1. CASE Copy(files[l].meta, l[2])
      <4>1. PICK v \in Tier : v = files[l].meta
        BY DEF PassOK, Crawled, Entry
      <4>2. Copy(v, l[2])'
        BY <1>3, <2>1, <3>1, <4>1
      <4>. QED BY <1>1, <4>1, <4>2 DEF Copy
    <3>2. CASE \E u \in Tier : mpc[u] \in Gone /\ msrc[u] = l
      BY <1>4, <3>2 DEF Gone
    <3>. QED BY <2>1, <3>1, <3>2 DEF Look, Visited
  <2>. QED BY <1>1, <1>4, <2>1 DEF Look, Visited
<1>11. Unopposed'
  <2>. SUFFICES ASSUME NEW u \in Tier, NEW n \in Visible, n = msrc[u][2]
                PROVE  /\ mpc'[u] # "change"
                       /\ mpc'[u] \in {"rename", "record"} => ~conflicted[u]
                       /\ mpc'[u] \in {"exists", "rename"} => \A v \in Tier : ~Copy(v, n)'
                       /\ mpc'[u] = "record" => Copy(u, n)'
    BY <1>1 DEF Unopposed, Copy
  <2>1. CASE u = t
    BY <1>1, <1>3, <1>4, <2>1 DEF Look, Unopposed
  <2>2. CASE u # t
    <3>1. mpc[u] \in {"exists", "rename"} => n # msrc[t][2]
      BY <1>1, <2>2, OneMover
    <3>. QED BY <1>3, <1>4, <2>2, <3>1 DEF Look, Unopposed
  <2>. QED BY <2>1, <2>2
<1>. QED BY <1>5, <1>6, <1>7, <1>8, <1>9, <1>10, <1>11 DEF Look

LEMMA LookRecord == ASSUME Base, Look, NEW t \in Tier, Record(t) PROVE Look'
<1>. USE DEF Base, SafeInv, TypeInv, TypeOK
<1>1. /\ mpc[t] = "record" /\ mpc' = [mpc EXCEPT ![t] = IF conflicted[t] THEN "change" ELSE "idle"]
      /\ files' = [files EXCEPT ![msrc[t]].meta = t]
      /\ db' = [db EXCEPT ![msrc[t][2]] = t]
      /\ UNCHANGED <<disk, hpc, hloc, msrc, conflicted>>
  BY DEF Record, handles
<1>2. msrc[t] \in Crawled /\ msrc[t] \in Loc /\ msrc[t][2] \in Name
  BY <1>1, Paths, Names DEF PassShape
<1>3. files[msrc[t]] \in Entry
  BY <1>2 DEF PassOK, Crawled
<1>4. /\ files'[msrc[t]].meta = t /\ files'[msrc[t]].name = files[msrc[t]].name
      /\ files'[msrc[t]] # NoEntry
      /\ \A l \in Loc \ {msrc[t]} : files'[l] = files[l]
  <2>1. files'[msrc[t]] = [files[msrc[t]] EXCEPT !.meta = t]
        /\ \A l \in Loc \ {msrc[t]} : files'[l] = files[l]
    BY <1>1, <1>2 DEF PassOK
  <2>. QED BY <1>3, <2>1, Markers DEF Entry, NoEntry
<1>5. Crawled' = Crawled
  BY <1>2, <1>4 DEF Crawled
<1>6. db'[msrc[t][2]] = t /\ \A n \in Visible : n # msrc[t][2] => db'[n] = db[n]
  BY <1>1, <1>2, Names DEF StoreOK
<1>7. /\ mpc'[t] \in {"idle", "change"} /\ (msrc[t][2] \in Visible => mpc'[t] = "idle")
      /\ \A u \in Tier \ {t} : mpc'[u] = mpc[u]
  BY <1>1 DEF Look, Unopposed, MoversOK
<1>8. msrc[t][2] \in Visible => Copy(t, msrc[t][2])
  BY <1>1 DEF Look, Unopposed
<1>9. OneCopy'
  BY <1>1 DEF Look, OneCopy, Copy
<1>10. ASSUME NEW n \in Visible, NEW u \in Tier
       PROVE  /\ Copy(u, n) => \/ db'[n] = u
                               \/ Creating(n) /\ u = 1 /\ db'[n] = Absent
                               \/ mpc'[u] = "record" /\ msrc[u][2] = n
              /\ db'[n] = u => Copy(u, n) \/ \E v \in Tier : mpc'[v] \in Gone /\ msrc[v][2] = n
  <2>1. CASE n = msrc[t][2]
    BY <1>6, <1>8, <2>1 DEF Look, OneCopy
  <2>2. CASE n # msrc[t][2]
    <3>1. Copy(u, n) => \/ db[n] = u
                        \/ Creating(n) /\ u = 1 /\ db[n] = Absent
                        \/ mpc[u] = "record" /\ msrc[u][2] = n
      BY DEF Look, EntryHere
    <3>2. db[n] = u => Copy(u, n) \/ \E v \in Tier : mpc[v] \in Gone /\ msrc[v][2] = n
      BY DEF Look, EntryTrue
    <3>. QED BY <1>6, <1>7, <2>2, <3>1, <3>2
  <2>. QED BY <2>1, <2>2
<1>11. EntryHere' /\ EntryTrue'
  BY <1>1, <1>10 DEF EntryHere, EntryTrue, Copy, Creating
<1>12. Unseen'
  <2>. SUFFICES ASSUME NEW h \in Handle, hpc[h] \in Lookups PROVE db'[hloc[h][2]] = Absent
    BY <1>1, <1>5 DEF Look, Unseen, Copy
  <2>1. hloc[h][2] # msrc[t][2] /\ hloc[h][2] \in Visible
    BY <1>1, NoCreator DEF Creates, RequestsOK
  <2>. QED BY <1>6, <2>1 DEF Look, Unseen
<1>13. Creators'
  BY <1>1, <1>7 DEF Look, Creators, Moving
<1>14. Visited'
  <2>1. ASSUME NEW l \in Crawled, l[2] \in Visible
        PROVE  Copy(files'[l].meta, l[2]) \/ \E u \in Tier : mpc'[u] \in Gone /\ msrc[u] = l
    <3>1. CASE l = msrc[t]
      BY <1>4, <1>8, <2>1, <3>1
    <3>2. CASE l # msrc[t]
      <4>1. files'[l] = files[l]
        BY <1>4, <3>2 DEF Crawled
      <4>. QED BY <1>7, <2>1, <3>2, <4>1 DEF Look, Visited
    <3>. QED BY <3>1, <3>2
  <2>2. \A l \in Crawled : files'[l].name = files[l].name
    BY <1>4 DEF Crawled
  <2>. QED BY <1>1, <1>5, <2>1, <2>2 DEF Look, Visited, Copy
<1>15. Unopposed'
  BY <1>1, <1>7 DEF Look, Unopposed, Copy
<1>. QED BY <1>9, <1>11, <1>12, <1>13, <1>14, <1>15 DEF Look

LEMMA LookChangePath == ASSUME Base, Look, NEW t \in Tier, ChangePath(t) PROVE Look'
<1>. USE DEF Base, SafeInv, TypeInv, TypeOK
<1>1. /\ mpc[t] = "change" /\ mpc' = [mpc EXCEPT ![t] = "idle"]
      /\ files' = [files EXCEPT ![msrc[t]].name = ConflictPath(t)[2]]
      /\ db' = [db EXCEPT ![msrc[t][2]] = Absent, ![ConflictPath(t)[2]] = t]
      /\ UNCHANGED <<disk, hpc, hloc, msrc, conflicted>>
  BY DEF ChangePath, handles
<1>2. msrc[t] \in Crawled /\ msrc[t] \in Loc
  BY <1>1, Paths DEF PassShape
<1>3. msrc[t][2] \notin Visible /\ ConflictPath(t)[2] \notin Visible
  <2>1. msrc[t][1] \in Tier /\ msrc[t][2] \in Movable
    BY DEF MoversOK
  <2>. QED BY <1>1, <2>1, NameAssumption DEF Look, Unopposed, ConflictPath
<1>4. files[msrc[t]] \in Entry
  BY <1>2 DEF PassOK, Crawled
<1>5. /\ files'[msrc[t]].name \notin Visible /\ files'[msrc[t]] # NoEntry
      /\ \A l \in Loc \ {msrc[t]} : files'[l] = files[l]
  <2>1. files'[msrc[t]] = [files[msrc[t]] EXCEPT !.name = ConflictPath(t)[2]]
        /\ \A l \in Loc \ {msrc[t]} : files'[l] = files[l]
    BY <1>1, <1>2 DEF PassOK
  <2>2. files'[msrc[t]].meta \in Tier /\ files'[msrc[t]].name = ConflictPath(t)[2]
    BY <1>4, <2>1 DEF Entry
  <2>. QED BY <1>3, <2>1, <2>2, Markers DEF NoEntry
<1>6. Crawled' = Crawled
  BY <1>2, <1>5 DEF Crawled
<1>7. \A n \in Visible : db'[n] = db[n]
  BY <1>1, <1>3, Names DEF StoreOK
<1>8. mpc'[t] = "idle" /\ \A u \in Tier \ {t} : mpc'[u] = mpc[u]
  BY <1>1 DEF MoversOK
<1>9. \A u \in Tier : (mpc[u] \in Gone <=> mpc'[u] \in Gone)
                       /\ (mpc[u] = "record" <=> mpc'[u] = "record")
                       /\ (mpc'[u] # "idle" => mpc[u] # "idle")
  BY <1>1, <1>8 DEF Gone
<1>. HIDE DEF TypeOK, TypeInv
<1>10. OneCopy' /\ EntryHere' /\ EntryTrue'
  <2>1. OneCopy'
    BY <1>1 DEF Look, OneCopy, Copy
  <2>2. EntryHere'
    BY <1>1, <1>7, <1>9 DEF Look, EntryHere, Copy, Creating
  <2>3. EntryTrue'
    BY <1>1, <1>7, <1>9 DEF Look, EntryTrue, Copy
  <2>. QED BY <2>1, <2>2, <2>3
<1>11. Unseen' /\ Creators'
  <2>1. \A h \in Handle : hloc[h][2] \in Visible
    BY DEF TypeInv, TypeOK, RequestsOK
  <2>2. Unseen'
    BY <1>1, <1>6, <1>7, <2>1 DEF Look, Unseen, Copy
  <2>3. Creators'
    BY <1>1, <1>9 DEF Look, Creators, Moving
  <2>. QED BY <2>2, <2>3
<1>12. Visited'
  <2>1. \A l \in Crawled : files'[l].name = l[2] \/ files'[l].name \notin Visible
    BY <1>5 DEF Look, Visited, Crawled
  <2>2. ASSUME NEW l \in Crawled, l[2] \in Visible
        PROVE  Copy(files'[l].meta, l[2]) \/ \E u \in Tier : mpc'[u] \in Gone /\ msrc[u] = l
    <3>1. l # msrc[t] /\ files'[l] = files[l]
      BY <1>3, <1>5, <2>2 DEF Crawled
    <3>. QED BY <1>9, <2>2, <3>1 DEF Look, Visited
  <2>. QED BY <1>1, <1>6, <2>1, <2>2 DEF Look, Visited, Copy
<1>13. Unopposed'
  BY <1>1, <1>8 DEF Look, Unopposed, Copy
<1>. QED BY <1>10, <1>11, <1>12, <1>13 DEF Look
-----------------------------------------------------------------------------
(* Requests *)

LEMMA LookPasses ==
    ASSUME Base, ~raced, Look, NEW h \in Handle,
           \/ \E n \in Visible : OpenLookup(h, n)
           \/ OpenStat(h) \/ OpenRegister(h) \/ OpenFd(h) \/ CreateRegister(h)
           \/ OpenError(h) \/ Write(h) \/ Release(h) \/ ReleaseLeaks(h)
    PROVE  Look'
<1>. USE DEF Base, SafeInv, TypeInv, TypeOK
<1>1. UNCHANGED <<db, files, mpc, msrc, conflicted>>
  BY DEF OpenLookup, OpenStat, OpenRegister, OpenFd, CreateRegister, OpenError, Write, Release, ReleaseLeaks, Close,
         store, pass, movers
<1>2. \A n \in Visible, u \in Tier : Copy(u, n)' <=> Copy(u, n)
  <2>1. CASE disk' = disk
    BY <2>1 DEF Copy
  <2>2. CASE disk' # disk
    <3>1. Write(h) /\ Store(hloc[h])
      BY <2>2 DEF OpenLookup, OpenStat, OpenRegister, OpenFd, CreateRegister, OpenError, Write,
                  Release, ReleaseLeaks, Close, store
    <3>2. disk[hloc[h]] # Absent
      BY <3>1, Held DEF Write, HasFd
    <3>3. <<hloc[h], writes + 1>> # Absent
      BY Markers, Names DEF Content, RequestsOK, HistoryOK
    <3>. QED BY <3>1, <3>2, <3>3, Names DEF Copy, Store, StoreOK
  <2>. QED BY <2>1, <2>2
<1>3. \A g \in Handle \ {h} : hpc'[g] = hpc[g] /\ hloc'[g] = hloc[g]
  BY DEF OpenLookup, OpenStat, OpenRegister, OpenFd, CreateRegister, OpenError, Write, Release, ReleaseLeaks, Close,
         Goto, handles, RequestsOK
<1>4. \A g \in Handle : hloc[g][2] \in Visible
  BY DEF RequestsOK
<1>5. hloc'[h][2] \in Visible
  BY <1>4 DEF OpenLookup, OpenStat, OpenRegister, OpenFd, CreateRegister, OpenError, Write,
              Release, ReleaseLeaks, Close, handles, RequestsOK
<1>6. /\ hpc[h] # "c_fd" /\ hpc'[h] # "c_fd"
      /\ hpc'[h] \in Creates => hpc[h] \in Creates /\ hloc'[h] = hloc[h]
  BY DEF OpenLookup, OpenStat, OpenRegister, OpenFd, CreateRegister, OpenError, Write, Release, ReleaseLeaks, Close,
         Goto, handles, RequestsOK, Creates, Lookups
<1>7. ASSUME NEW g \in Handle, NEW n \in Visible, hpc'[g] = "c_fd", n = hloc[g][2]
      PROVE  ~Moving(n)'
  BY <1>1, <1>3, <1>6, <1>7 DEF Look, Creators, Moving
<1>8. \A n \in Visible : db'[n] = db[n]
  BY <1>1
<1>9. \A g \in Handle : hloc[g][2] \in Visible /\ hloc'[g][2] \in Visible
  BY <1>3, <1>4, <1>5
<1>10. \A g \in Handle : hpc'[g] \in Creates =>
          /\ hpc[g] \in Creates /\ hloc'[g] = hloc[g]
          /\ hpc'[g] = "c_fd" <=> hpc[g] = "c_fd"
  BY <1>3, <1>6
<1>11. \A g \in Handle : hpc[g] = "c_fd" => hpc'[g] = "c_fd"
  BY <1>3, <1>6
<1>12. PassOK
  OBVIOUS
<1>. HIDE DEF Base, SafeInv, TypeInv, TypeOK
<1>. QED BY <1>1, <1>2, <1>7, <1>8, <1>9, <1>10, <1>11, <1>12, LookSame

LEMMA LookOpenCommit ==
    ASSUME Base, ~raced, Look, NEW h \in Handle, OpenCommit(h) PROVE Look'
<1>. USE DEF Base, SafeInv, TypeInv, TypeOK
<1>1. /\ hpc[h] = "fd" /\ hpc' = [hpc EXCEPT ![h] = "open"]
      /\ db' = [db EXCEPT ![hloc[h][2]] = hloc[h][1]]
      /\ UNCHANGED <<disk, files, hloc, mpc, msrc, conflicted>>
  BY DEF OpenCommit, Goto, pass, movers
<1>2. PICK v \in Tier, m \in Visible : hloc[h] = <<v, m>>
  BY DEF RequestsOK
<1>3. Copy(v, m)
  BY <1>1, <1>2, Held DEF HasFd, Copy
<1>4. db'[m] = v /\ \A n \in Visible \ {m} : db'[n] = db[n]
  BY <1>1, <1>2, Names DEF StoreOK
<1>5. \A g \in Handle : hpc'[g] \in Creates \/ hpc[g] \in Creates => hpc'[g] = hpc[g]
  BY <1>1 DEF RequestsOK, Creates, Lookups
<1>6. Crawled' = Crawled
  BY <1>1 DEF Crawled
<1>. HIDE DEF Base, SafeInv, TypeInv, TypeOK
<1>7. OneCopy'
  BY <1>1 DEF Look, OneCopy, Copy
<1>8. EntryHere'
  <2>. SUFFICES ASSUME NEW n \in Visible, NEW u \in Tier, Copy(u, n)
                PROVE  \/ db'[n] = u
                       \/ Creating(n)' /\ u = 1 /\ db'[n] = Absent
                       \/ mpc[u] = "record" /\ msrc[u][2] = n
    BY <1>1 DEF EntryHere, Copy
  <2>1. CASE n = m
    BY <1>3, <1>4, <2>1 DEF Look, OneCopy
  <2>2. CASE n # m
    BY <1>1, <1>4, <1>5, <2>2 DEF Look, EntryHere, Creating, Creates
  <2>. QED BY <2>1, <2>2
<1>9. EntryTrue'
  BY <1>1, <1>3, <1>4 DEF Look, EntryTrue, Copy
<1>10. Unseen'
  <2>. SUFFICES ASSUME NEW g \in Handle, hpc[g] \in Lookups PROVE db'[hloc[g][2]] = Absent
    BY <1>1, <1>5, <1>6 DEF Look, Unseen, Copy, Creates
  <2>1. hloc[g][2] \in Visible
    BY DEF Base, SafeInv, TypeInv, TypeOK, RequestsOK
  <2>. QED BY <1>3, <1>4, <2>1 DEF Look, Unseen
<1>11. Creators'
  BY <1>1, <1>5 DEF Look, Creators, Moving, Creates
<1>12. Visited' /\ Unopposed'
  BY <1>1, <1>6 DEF Look, Visited, Unopposed, Copy
<1>. QED BY <1>7, <1>8, <1>9, <1>10, <1>11, <1>12 DEF Look

LEMMA LookCreateLookup ==
    ASSUME Base, Look, ~raced', NEW h \in Handle, NEW n \in Visible, CreateLookup(h, n)
    PROVE  Look'
<1>. USE DEF Base, SafeInv, TypeInv, TypeOK
<1>1. /\ hpc[h] = "idle" /\ hpc' = [hpc EXCEPT ![h] = "c_lookup"] /\ ~Found(n) /\ ~Moving(n)
      /\ \A g \in Handle : hpc[g] \in Creates => hloc[g][2] # n
      /\ hloc' = [hloc EXCEPT ![h] = <<1, n>>]
      /\ UNCHANGED <<disk, db, files, mpc, msrc, conflicted>>
  BY DEF CreateLookup, Goto, store, pass, movers, Creates, Lookups
<1>2. \A g \in Handle \ {h} : hpc'[g] = hpc[g] /\ hloc'[g] = hloc[g]
  BY <1>1 DEF RequestsOK
<1>3. hpc'[h] = "c_lookup" /\ hloc'[h] = <<1, n>>
  BY <1>1 DEF RequestsOK
<1>4. \A u \in Tier : msrc[u][2] = n => mpc[u] = "idle"
  BY <1>1 DEF Moving
<1>5. \A t \in Tier : ~Copy(t, n)
  <2>. SUFFICES ASSUME NEW t \in Tier, Copy(t, n) PROVE FALSE
    OBVIOUS
  <2>1. db[n] # t
    BY <1>1 DEF Found, Copy
  <2>2. ~Creating(n)
    BY <1>1 DEF Creating, Creates
  <2>. QED BY <1>4, <2>1, <2>2 DEF Look, EntryHere
<1>6. db[n] = Absent
  <2>. SUFFICES ASSUME db[n] # Absent PROVE FALSE
    OBVIOUS
  <2>1. db[n] \in Tier
    BY Names DEF StoreOK
  <2>. QED BY <1>4, <1>5, <2>1 DEF Look, EntryTrue, Gone
<1>7. \A l \in Crawled : l[2] # n
  <2>. SUFFICES ASSUME NEW l \in Crawled, l[2] = n PROVE FALSE
    OBVIOUS
  <2>1. files[l].meta \in Tier
    BY DEF PassOK, Crawled, Entry
  <2>. QED BY <1>4, <1>5, <2>1 DEF Look, Visited, Gone
<1>8. Crawled' = Crawled
  BY <1>1 DEF Crawled
<1>. HIDE DEF Base, SafeInv, TypeInv, TypeOK
<1>9. OneCopy'
  BY <1>1 DEF Look, OneCopy, Copy
<1>10. EntryHere' /\ EntryTrue'
  <2>1. \A m \in Visible : Creating(m) => Creating(m)'
    BY <1>1, <1>2 DEF Creating
  <2>. QED BY <1>1, <2>1 DEF Look, EntryHere, EntryTrue, Copy
<1>11. Unseen'
  <2>. SUFFICES ASSUME NEW g \in Handle, hpc'[g] \in Lookups
                PROVE  /\ db[hloc'[g][2]] = Absent
                       /\ \A t \in Tier : ~Copy(t, hloc'[g][2])
                       /\ \A l \in Crawled : l[2] # hloc'[g][2]
    BY <1>1, <1>8 DEF Unseen, Copy
  <2>1. CASE g = h
    BY <1>3, <1>5, <1>6, <1>7, <2>1
  <2>2. CASE g # h
    BY <1>2, <2>2 DEF Look, Unseen
  <2>. QED BY <2>1, <2>2
<1>12. Creators'
  <2>1. \A g \in Handle, k \in Handle :
          (hpc'[g] \in Creates /\ hpc'[k] \in Creates /\ hloc'[g][2] = hloc'[k][2]) => g = k
    BY <1>1, <1>2, <1>3 DEF Look, Creators
  <2>2. \A g \in Handle : hpc'[g] \in Creates => hloc'[g][1] = 1
    BY <1>2, <1>3 DEF Look, Creators
  <2>3. ASSUME NEW g \in Handle, hpc'[g] = "c_fd"
        PROVE  \A u \in Tier : mpc[u] = "idle" \/ msrc[u][2] # hloc'[g][2]
    <3>1. hpc[g] = "c_fd" /\ hloc'[g] = hloc[g]
      BY <1>2, <1>3, <2>3
    <3>. QED BY <3>1 DEF Look, Creators, Moving
  <2>. QED BY <1>1, <2>1, <2>2, <2>3 DEF Creators, Moving
<1>13. Visited' /\ Unopposed'
  BY <1>1, <1>8 DEF Look, Visited, Unopposed, Copy
<1>. QED BY <1>9, <1>10, <1>11, <1>12, <1>13 DEF Look

LEMMA LookCreat ==
    ASSUME Base, Look, ~raced', NEW h \in Handle, Creat(h) PROVE Look'
<1>. USE DEF Base, SafeInv, TypeInv, TypeOK
<1>1. /\ hpc[h] = "c_registered" /\ hpc' = [hpc EXCEPT ![h] = "c_fd"] /\ ~Moving(hloc[h][2])
      /\ disk' = [disk EXCEPT ![hloc[h]] = <<hloc[h], writes + 1>>]
      /\ UNCHANGED <<db, files, hloc, mpc, msrc, conflicted>>
  BY DEF Creat, GetFd, Store, Goto, pass, movers
<1>2. PICK m \in Visible : hloc[h] = <<1, m>>
  BY <1>1 DEF RequestsOK, Look, Creators, Creates, Lookups
<1>3. \A u \in Tier : msrc[u][2] = m => mpc[u] = "idle"
  BY <1>1, <1>2 DEF Moving
<1>4. hpc'[h] = "c_fd" /\ \A g \in Handle \ {h} : hpc'[g] = hpc[g]
  BY <1>1 DEF RequestsOK
<1>5. ASSUME NEW n \in Visible, NEW u \in Tier
      PROVE  Copy(u, n)' <=> (Copy(u, n) \/ (u = 1 /\ n = m))
  <2>1. <<hloc[h], writes + 1>> # Absent /\ <<1, m>> \in Loc
    BY <1>2, Markers, Names, Tiers, Bounds DEF Content, RequestsOK, HistoryOK
  <2>2. <<u, n>> \in Loc
    BY Names
  <2>. QED BY <1>1, <1>2, <2>1, <2>2 DEF Copy, StoreOK
<1>6. /\ db[m] = Absent /\ (\A t \in Tier : ~Copy(t, m)) /\ \A l \in Crawled : l[2] # m
  BY <1>1, <1>2 DEF Look, Unseen, Lookups
<1>7. Crawled' = Crawled
  BY <1>1 DEF Crawled
<1>8. \A l \in Crawled : files[l].meta \in Tier
  BY DEF PassOK, Crawled, Entry
<1>9. \A g \in Handle : hloc[g][2] \in Visible
  BY DEF RequestsOK
<1>. HIDE DEF Base, SafeInv, TypeInv, TypeOK
<1>10. OneCopy'
  <2>. SUFFICES ASSUME NEW n \in Visible, NEW u \in Tier, NEW v \in Tier, Copy(u, n)', Copy(v, n)'
                PROVE  u = v
    BY DEF OneCopy
  <2>. QED BY <1>5, <1>6 DEF Look, OneCopy
<1>11. EntryHere'
  <2>1. \A n \in Visible : Creating(n) => Creating(n)'
    BY <1>1, <1>4 DEF Creating
  <2>2. Creating(m)'
    BY <1>1, <1>2, <1>4 DEF Creating
  <2>. QED BY <1>1, <1>5, <1>6, <2>1, <2>2 DEF Look, EntryHere
<1>12. EntryTrue'
  BY <1>1, <1>5 DEF Look, EntryTrue
<1>13. Unseen'
  <2>. SUFFICES ASSUME NEW g \in Handle, NEW n \in Visible, hpc'[g] \in Lookups, n = hloc[g][2]
                PROVE  /\ db[n] = Absent
                       /\ \A t \in Tier : ~Copy(t, n)'
                       /\ \A l \in Crawled : l[2] # n
    BY <1>1, <1>7, <1>9 DEF Unseen, Copy
  <2>1. g # h /\ hpc[g] \in Lookups
    BY <1>4 DEF Lookups
  <2>2. n # m
    BY <1>1, <1>2, <2>1 DEF Look, Creators, Creates, Lookups
  <2>. QED BY <1>5, <2>1, <2>2 DEF Look, Unseen
<1>14. Creators'
  <2>1. \A g \in Handle : hpc'[g] \in Creates => hpc[g] \in Creates
    BY <1>1, <1>4 DEF Creates, Lookups
  <2>2. \A g \in Handle : hpc'[g] = "c_fd" => g = h \/ hpc[g] = "c_fd"
    BY <1>4
  <2>. QED BY <1>1, <2>1, <2>2 DEF Look, Creators, Moving
<1>15. Visited'
  <2>1. ASSUME NEW l \in Crawled, l[2] \in Visible
        PROVE  Copy(files[l].meta, l[2])' \/ \E u \in Tier : mpc[u] \in Gone /\ msrc[u] = l
    <3>1. PICK v \in Tier : v = files[l].meta
      BY <1>8
    <3>2. Copy(v, l[2]) => Copy(v, l[2])'
      BY <1>5, <2>1
    <3>3. Copy(v, l[2])' => Copy(files[l].meta, l[2])'
      BY <1>1, <3>1 DEF Copy
    <3>. QED BY <2>1, <3>1, <3>2, <3>3 DEF Look, Visited
  <2>. QED BY <1>1, <1>7, <2>1 DEF Look, Visited, Copy
<1>16. Unopposed'
  <2>. SUFFICES ASSUME NEW u \in Tier, NEW n \in Visible, n = msrc[u][2]
                PROVE  /\ mpc[u] # "change"
                       /\ mpc[u] \in {"rename", "record"} => ~conflicted[u]
                       /\ mpc[u] \in {"exists", "rename"} => \A v \in Tier : ~Copy(v, n)'
                       /\ mpc[u] = "record" => Copy(u, n)'
    BY <1>1 DEF Unopposed, Copy
  <2>. QED BY <1>3, <1>5 DEF Look, Unopposed
<1>. QED BY <1>10, <1>11, <1>12, <1>13, <1>14, <1>15, <1>16 DEF Look

LEMMA LookCreateCommit ==
    ASSUME Base, ~raced, Look, NEW h \in Handle, CreateCommit(h) PROVE Look'
<1>. USE DEF Base, SafeInv, TypeInv, TypeOK
<1>1. /\ hpc[h] = "c_fd" /\ hpc' = [hpc EXCEPT ![h] = "open"]
      /\ db' = [db EXCEPT ![hloc[h][2]] = IF @ = Absent THEN hloc[h][1] ELSE @]
      /\ UNCHANGED <<disk, files, hloc, mpc, msrc, conflicted>>
  BY DEF CreateCommit, Goto, pass, movers
<1>2. PICK m \in Visible : hloc[h] = <<1, m>>
  BY <1>1 DEF RequestsOK, Look, Creators, Creates
<1>3. Copy(1, m)
  BY <1>1, <1>2, Held DEF HasFd, Copy
<1>4. db[m] \in {1, Absent}
  <2>1. ~Moving(m)
    BY <1>1, <1>2 DEF Look, Creators
  <2>. QED BY <1>3, <2>1, Tiers DEF Look, EntryHere, Moving
<1>5. db'[m] = 1 /\ \A n \in Visible \ {m} : db'[n] = db[n]
  BY <1>1, <1>2, <1>4, Names DEF StoreOK
<1>6. hpc'[h] = "open" /\ \A g \in Handle \ {h} : hpc'[g] = hpc[g]
  BY <1>1 DEF RequestsOK
<1>7. Crawled' = Crawled
  BY <1>1 DEF Crawled
<1>8. \A g \in Handle : hloc[g][2] \in Visible
  BY DEF RequestsOK
<1>. HIDE DEF Base, SafeInv, TypeInv, TypeOK
<1>9. OneCopy'
  BY <1>1 DEF Look, OneCopy, Copy
<1>10. EntryHere'
  <2>. SUFFICES ASSUME NEW n \in Visible, NEW u \in Tier, Copy(u, n)
                PROVE  \/ db'[n] = u
                       \/ Creating(n)' /\ u = 1 /\ db'[n] = Absent
                       \/ mpc[u] = "record" /\ msrc[u][2] = n
    BY <1>1 DEF EntryHere, Copy
  <2>1. CASE n = m
    BY <1>3, <1>5, <2>1, Tiers DEF Look, OneCopy
  <2>2. CASE n # m
    <3>1. Creating(n) => Creating(n)'
      BY <1>1, <1>2, <1>6, <2>2 DEF Creating
    <3>. QED BY <1>5, <2>2, <3>1 DEF Look, EntryHere
  <2>. QED BY <2>1, <2>2
<1>11. EntryTrue'
  BY <1>1, <1>3, <1>5 DEF Look, EntryTrue, Copy
<1>12. Unseen'
  <2>. SUFFICES ASSUME NEW g \in Handle, hpc[g] \in Lookups PROVE db'[hloc[g][2]] = Absent
    BY <1>1, <1>6, <1>7 DEF Look, Unseen, Copy, Lookups
  <2>. QED BY <1>3, <1>5, <1>8, Tiers DEF Look, Unseen
<1>13. Creators'
  <2>1. \A g \in Handle : hpc'[g] \in Creates => hpc[g] \in Creates /\ hpc'[g] = hpc[g]
    BY <1>6 DEF Creates, Lookups
  <2>2. \A g \in Handle : hpc'[g] = "c_fd" => hpc[g] = "c_fd"
    BY <1>6
  <2>. QED BY <1>1, <2>1, <2>2 DEF Look, Creators, Moving
<1>14. Visited' /\ Unopposed'
  BY <1>1, <1>7 DEF Look, Visited, Unopposed, Copy
<1>. QED BY <1>9, <1>10, <1>11, <1>12, <1>13, <1>14 DEF Look
-----------------------------------------------------------------------------
(* The theorems *)

LookInv == Base /\ (Calm => Look)

\* Once a request fell into a move, or the daemon crashed, it stays so.
LEMMA CalmBefore == Base /\ [Next]_vars /\ Calm' => Calm /\ ~Crash
<1>. SUFFICES ASSUME Base, [Next]_vars, Calm' PROVE Calm /\ ~Crash
  OBVIOUS
<1>. USE DEF Base, SafeInv, TypeInv, TypeOK
<1>1. ~Crash
  BY Bounds DEF Crash, Calm, HistoryOK
<1>2. ~raced
  <2>1. ASSUME NEW t \in Tier, Mover(t) PROVE raced' = raced
    BY <2>1, MoverFrame
  <2>2. ASSUME NEW h \in Handle, Request(h) PROVE raced => raced'
    BY <2>2 DEF Request, OpenLookup, OpenStat, OpenRegister, OpenFd, OpenCommit, CreateLookup,
       CreateRegister, Creat, CreateCommit, OpenError, Write, Release, ReleaseLeaks, Close, handles, GetFd
  <2>. QED BY <1>1, <2>1, <2>2, WorkerFrame DEF Next, Calm
<1>3. crashes = 0
  <2>1. Worker \/ UNCHANGED vars => crashes' = crashes
    BY DEF Worker, StartPass, Crawl, Plan, Join, UpdateDb, EndPass, vars, history
  <2>2. ASSUME NEW t \in Tier, Mover(t) PROVE crashes' = crashes
    BY <2>2 DEF Mover, Check, CopyOpen, CopyDone, CopyFail, Remove, TestExists, Rename, Record,
                ChangePath, history
  <2>3. ASSUME NEW h \in Handle, Request(h) PROVE crashes' = crashes
    BY <2>3 DEF Request, OpenLookup, OpenStat, OpenRegister, OpenFd, OpenCommit, CreateLookup,
       CreateRegister, Creat, CreateCommit, OpenError, Write, Release, ReleaseLeaks, Close, history
  <2>. QED BY <1>1, <2>1, <2>2, <2>3 DEF Next, Calm
<1>. QED BY <1>1, <1>2, <1>3 DEF Calm

LEMMA LookNext == LookInv /\ [Next]_vars => LookInv'
<1>. SUFFICES ASSUME LookInv, [Next]_vars PROVE LookInv'
  OBVIOUS
<1>1. Base'
  BY BaseNext DEF LookInv
<1>2. ASSUME Calm' PROVE Look'
  <2>1. Base /\ Look /\ ~raced /\ ~Crash /\ ~raced'
    BY <1>2, CalmBefore DEF LookInv, Calm
  <2>2. CASE Worker \/ UNCHANGED vars
    BY <2>1, <2>2, LookWorker
  <2>3. ASSUME NEW t \in Tier, Mover(t) PROVE Look'
    BY <2>1, <2>3, LookCopy, LookRemove, LookTestExists, LookRename, LookRecord, LookChangePath
    DEF Mover
  <2>4. ASSUME NEW h \in Handle, Request(h) PROVE Look'
    BY <2>1, <2>4, LookPasses, LookOpenCommit, LookCreateLookup, LookCreat, LookCreateCommit
    DEF Request
  <2>. QED BY <2>1, <2>2, <2>3, <2>4 DEF Next
<1>. QED BY <1>1, <1>2 DEF LookInv

LEMMA LookFinds == LookInv => Findable
<1>. SUFFICES ASSUME LookInv, Calm, NEW n \in Visible, NEW t \in Tier,
                     ~Moving(n), ~Creating(n), Copy(t, n)
              PROVE  Found(n)
  BY DEF Findable, Calm, Copy
<1>1. db[n] = t
  BY DEF LookInv, Look, EntryHere, Moving
<1>. QED BY <1>1 DEF Found, Copy

\* A file that stands in a tier is found through the database, for any number of tiers,
\* names and requests, if every name is in one tier when the daemon starts.
THEOREM FilesFound == MaxCopies <= 1 => (Spec => []Findable)
<1>1. MaxCopies <= 1 /\ Init => LookInv
  BY LookInit, BaseInit DEF LookInv
<1>. QED BY <1>1, LookNext, LookFinds, PTL DEF Spec

\* A rename meets no file, and a create none that its lookup has not seen.
LEMMA FreeNext ==
    ASSUME Movable = Visible, LookInv, Calm => ~clobbered, [Next]_vars, Calm'
    PROVE  ~clobbered'
<1>1. Base /\ Look /\ ~Crash /\ ~clobbered
  BY CalmBefore DEF LookInv
<1>. USE DEF Base, SafeInv, TypeInv, TypeOK
<1>2. ASSUME NEW t \in Tier, Mover(t) PROVE ~clobbered'
  <2>1. CASE Rename(t)
    <3>1. mpc[t] = "rename" /\ msrc[t][2] \in Visible
      <4>1. msrc[t] \in Tier \X Movable
        BY <1>1 DEF MoversOK
      <4>. QED BY <2>1, <4>1 DEF Rename
    <3>2. RenameTo(t) = <<t, msrc[t][2]>> /\ ~Copy(t, msrc[t][2])
      BY <1>1, <3>1 DEF Look, Unopposed, RenameTo, Target
    <3>. QED BY <1>1, <2>1, <3>2 DEF Rename, Copy
  <2>2. CASE ~Rename(t)
    BY <1>1, <1>2, <2>2, MoverFrame
  <2>. QED BY <2>1, <2>2
<1>3. ASSUME NEW h \in Handle, Request(h) PROVE ~clobbered'
  <2>1. CASE Creat(h)
    <3>1. PICK v \in Tier, n \in Visible : hloc[h] = <<v, n>>
      BY <1>1 DEF RequestsOK
    <3>2. ~Copy(v, n)
      BY <1>1, <2>1, <3>1 DEF Look, Unseen, Creat, Lookups
    <3>. QED BY <1>1, <2>1, <3>1, <3>2 DEF Creat, Copy
  <2>2. CASE ~Creat(h)
    <3>1. clobbered' = clobbered
      BY <1>3, <2>2 DEF Request, OpenLookup, OpenStat, OpenRegister, OpenFd, OpenCommit,
         CreateLookup, CreateRegister, CreateCommit, OpenError, Write, Release, ReleaseLeaks, Close, history
    <3>. QED BY <1>1, <3>1
  <2>. QED BY <2>1, <2>2
<1>. QED BY <1>1, <1>2, <1>3, WorkerFrame DEF Next

\* Nothing is clobbered when every name is in one tier at the start and the plan moves the
\* applications' own files: what the mover's test of its target and the database's answer
\* to a create found free is free when they use it.
THEOREM NothingReplaced ==
    MaxCopies <= 1 /\ Movable = Visible => (Spec => []NothingClobbered)
<1>. SUFFICES ASSUME MaxCopies <= 1, Movable = Visible PROVE Spec => []NothingClobbered
  OBVIOUS
<1>. DEFINE FreeInv == LookInv /\ (Calm => ~clobbered)
<1>1. Init => FreeInv
  BY LookInit, BaseInit DEF LookInv, Init
<1>2. FreeInv /\ [Next]_vars => FreeInv'
  BY LookNext, FreeNext
<1>3. FreeInv => NothingClobbered
  BY DEF NothingClobbered, Calm
<1>. QED BY <1>1, <1>2, <1>3, PTL DEF Spec
=============================================================================
