------------------------ MODULE TierMigrationProofs ------------------------
(***************************************************************************)
(* Proofs about TierMigration, for every number of tiers, names and        *)
(* requests: types and registry, then that moves keep the data (nothing is *)
(* lost and no unfinished copy is seen) and that TierMigration implements  *)
(* Relocation.                                                             *)
(***************************************************************************)
EXTENDS TierMigration, FiniteSetTheorems, TLAPS

USE DEF registry

\* The shape of states alone is not inductive: a mover that records a move needs its
\* File to be one of this pass.
TypeInv == TypeOK /\ PassShape

LEMMA Tiers == NTiers \in Nat /\ 1 \in Tier /\ 1 \in 1 .. NTiers + 1
BY NameAssumption DEF Tier

LEMMA Names ==
    /\ Visible \subseteq Movable /\ Movable \subseteq Name
    /\ Tier \X Visible \subseteq Loc /\ Tier \X Movable \subseteq Loc
BY NameAssumption DEF Loc

LEMMA Bounds ==
    MaxWrites \in Nat /\ MaxCrashes \in Nat /\ MaxLeaks \in Nat /\ IsFiniteSet(Handle)
BY DataAssumption

LEMMA Markers ==
    Absent \notin Content /\ Absent \notin Tier /\ Absent # Partial /\ Partial \notin Content
BY DataAssumption

LEMMA TypeInit == Init => TypeInv
<1>. SUFFICES ASSUME Init PROVE TypeInv
  OBVIOUS
<1>1. PICK S \in SUBSET (Tier \X Visible) :
        /\ disk = [l \in Loc |-> IF l \in S THEN <<l, 0>> ELSE Absent]
        /\ owed = {<<l, 0>> : l \in S}
        /\ db \in [Name -> Tier \cup {Absent}]
  BY DEF Init
<1>2. S \subseteq Loc
  BY Names
<1>3. disk \in [Loc -> Content \cup {Absent, Partial}] /\ owed \subseteq Content
  BY <1>1, <1>2 DEF Content
<1>4. StoreOK
  BY <1>1, <1>3 DEF Init, StoreOK
<1>5. RequestsOK
  BY Tiers DEF Init, RequestsOK, HandlePC
<1>6. PassOK
  <2>1. todo \in [Tier -> SUBSET (Tier \X Movable)]
    BY DEF Init
  <2>2. files \in [Loc -> Entry \cup {NoEntry}]
    BY DEF Init
  <2>3. phase \in {"idle", "crawl", "move", "update"} /\ crawling \in 1 .. NTiers + 1
    BY Tiers DEF Init
  <2>. QED BY <2>1, <2>2, <2>3 DEF PassOK
<1>7. MoversOK
  BY Tiers, Names DEF Init, MoversOK, MoverPC
<1>8. HistoryOK
  <2>1. raced \in BOOLEAN /\ clobbered \in BOOLEAN
    BY Zenon DEF Init
  <2>2. writes = 0 /\ crashes = 0 /\ leaks = 0
    BY Zenon DEF Init
  <2>. QED BY <1>3, <2>1, <2>2, Bounds DEF HistoryOK
<1>9. PassShape
  BY DEF Init, PassShape
<1>. QED BY <1>4, <1>5, <1>6, <1>7, <1>8, <1>9 DEF TypeInv, TypeOK

\* A File that was crawled has a name and a tier; an update of its tier keeps it one.
LEMMA Entries ==
    /\ NoEntry \notin Entry
    /\ \A e \in Entry : e.name \in Name /\ e.meta \in Tier
    /\ \A e \in Entry, t \in Tier : [e EXCEPT !.meta = t] \in Entry
    /\ \A e \in Entry, n \in Name : [e EXCEPT !.name = n] \in Entry
BY Markers DEF Entry, NoEntry

\* The paths a mover works on are backend paths of its own tier.
LEMMA Paths ==
    ASSUME MoversOK, NEW t \in Tier
    PROVE  /\ msrc[t] \in Loc /\ msrc[t][2] \in Movable /\ msrc[t][1] \in Tier
           /\ Target(t) \in Loc /\ Tmp(t) \in Loc /\ ConflictPath(t) \in Loc
           /\ ConflictPath(t)[2] \in Name /\ RenameTo(t) \in Loc
<1>1. msrc[t] \in Tier \X Movable
  BY DEF MoversOK
<1>2. Hide[msrc[t][2]] \in Name
  BY <1>1, NameAssumption
<1>3. Conflict[<<msrc[t][2], msrc[t][1]>>] \in Name
  BY <1>1, NameAssumption
<1>. QED BY <1>1, <1>2, <1>3, Names DEF Target, Tmp, ConflictPath, RenameTo, Loc

LEMMA CommittedBoolean == \A l : Committed(l) \in BOOLEAN /\ Moving(l) \in BOOLEAN
BY DEF Committed, Moving

LEMMA TypeNext == TypeInv /\ [Next]_vars => TypeInv'
<1>. SUFFICES ASSUME TypeInv, [Next]_vars PROVE TypeInv'
  OBVIOUS
<1>. USE Tiers, Names, Bounds, Markers
     DEF TypeInv, TypeOK, StoreOK, RequestsOK, PassOK, MoversOK, HistoryOK, PassShape,
         Crawled, store, handles, pass, movers, history
<1>1. CASE StartPass
  BY <1>1 DEF StartPass
<1>2. CASE Crawl
  <2>1. PassOK'
    <3>1. \A l \in Loc : NewFile(l) \in Entry
      BY DEF NewFile, Entry, Loc
    <3>2. crawling' \in 1 .. NTiers + 1
      BY <1>2 DEF Crawl, Tier
    <3>3. files' \in [Loc -> Entry \cup {NoEntry}]
      BY <1>2, <3>1 DEF Crawl
    <3>. QED BY <1>2, <3>2, <3>3 DEF Crawl
  <2>2. StoreOK' /\ RequestsOK' /\ MoversOK' /\ HistoryOK' /\ PassShape'
    BY <1>2 DEF Crawl
  <2>. QED BY <2>1, <2>2
<1>3. CASE Plan
  <2>1. PassOK'
    <3>1. PICK dest \in [{l \in Crawled : l[2] \in Movable} -> Tier] :
            todo' = [t \in Tier |-> {l \in DOMAIN dest : dest[l] = t /\ l[1] # t}]
      BY <1>3 DEF Plan
    <3>2. DOMAIN dest \subseteq Tier \X Movable
      BY DEF Loc
    <3>3. \A t \in Tier : {l \in DOMAIN dest : dest[l] = t /\ l[1] # t}
                           \in SUBSET (Tier \X Movable)
      BY <3>2
    <3>4. todo' \in [Tier -> SUBSET (Tier \X Movable)]
      BY <3>1, <3>3
    <3>. QED BY <1>3, <3>4 DEF Plan
  <2>2. StoreOK' /\ RequestsOK' /\ MoversOK' /\ HistoryOK' /\ PassShape'
    BY <1>3 DEF Plan
  <2>. QED BY <2>1, <2>2
<1>4. CASE Join
  BY <1>4 DEF Join
<1>5. CASE UpdateDb
  <2>1. StoreOK'
    <3>1. PICK l \in Crawled : db' = [db EXCEPT ![files[l].name] = files[l].meta]
      BY <1>5 DEF UpdateDb
    <3>2. files[l].name \in Name /\ files[l].meta \in Tier
      BY Entries
    <3>. QED BY <1>5, <3>1, <3>2 DEF UpdateDb
  <2>2. RequestsOK' /\ PassOK' /\ MoversOK' /\ HistoryOK' /\ PassShape'
    BY <1>5 DEF UpdateDb
  <2>. QED BY <2>1, <2>2
<1>6. CASE EndPass
  BY <1>6 DEF EndPass
<1>7. ASSUME NEW t \in Tier, Check(t) PROVE TypeInv'
  <2>1. MoversOK'
    <3>1. PICK l \in todo[t] :
            IF open_files[l] > 0
            THEN UNCHANGED <<mpc, msrc>>
            ELSE /\ mpc' = [mpc EXCEPT ![t] = "copy"]
                 /\ msrc' = [msrc EXCEPT ![t] = l]
      BY <1>7 DEF Check
    <3>2. l \in Tier \X Movable
      OBVIOUS
    <3>3. mpc' \in [Tier -> MoverPC] /\ msrc' \in [Tier -> Tier \X Movable]
      <4>1. CASE open_files[l] > 0
        BY <3>1, <4>1
      <4>2. CASE ~(open_files[l] > 0)
        <5>1. mpc' = [mpc EXCEPT ![t] = "copy"] /\ msrc' = [msrc EXCEPT ![t] = l]
          BY <3>1, <4>2
        <5>2. mpc' \in [Tier -> MoverPC]
          BY <5>1 DEF MoverPC
        <5>3. msrc' \in [Tier -> Tier \X Movable]
          BY <3>2, <5>1
        <5>. QED BY <5>2, <5>3
      <4>. QED BY <4>1, <4>2
    <3>. QED BY <1>7, <3>3 DEF Check
  <2>2. StoreOK' /\ RequestsOK' /\ PassOK' /\ HistoryOK' /\ PassShape'
    BY <1>7 DEF Check
  <2>. QED BY <2>1, <2>2
<1>8. ASSUME NEW t \in Tier, CopyOpen(t) PROVE TypeInv'
  BY <1>8 DEF CopyOpen, MoverPC, Target, Tmp, ConflictPath, RenameTo, Detach
<1>9. ASSUME NEW t \in Tier, CopyDone(t) PROVE TypeInv'
  BY <1>9 DEF CopyDone, MoverPC, Target, Tmp, ConflictPath, RenameTo, Detach
<1>10. ASSUME NEW t \in Tier, CopyFail(t) PROVE TypeInv'
  BY <1>10 DEF CopyFail, MoverPC, Target, Tmp, ConflictPath, RenameTo, Detach
<1>11. ASSUME NEW t \in Tier, Remove(t) PROVE TypeInv'
  BY <1>11 DEF Remove, MoverPC, Target, Tmp, ConflictPath, RenameTo, Detach
<1>12. ASSUME NEW t \in Tier, TestExists(t) PROVE TypeInv'
  BY <1>12 DEF TestExists, MoverPC, Target, Tmp, ConflictPath, RenameTo, Detach
<1>13. ASSUME NEW t \in Tier, Rename(t) PROVE TypeInv'
  <2>1. StoreOK'
    BY <1>13, Paths DEF Rename
  <2>2. RequestsOK' /\ PassOK' /\ MoversOK' /\ HistoryOK' /\ PassShape'
    BY <1>13 DEF Rename, MoverPC, Detach
  <2>. QED BY <2>1, <2>2
<1>14. ASSUME NEW t \in Tier, Record(t) PROVE TypeInv'
  <2>1. msrc[t] \in Loc /\ files[msrc[t]] \in Entry
    BY <1>14, Paths DEF Record
  <2>2. [files[msrc[t]] EXCEPT !.meta = t] \in Entry
    BY <2>1, Paths, Entries
  <2>3. /\ files' \in [Loc -> Entry \cup {NoEntry}]
        /\ \A l \in Loc : files[l] # NoEntry => files'[l] # NoEntry
    BY <1>14, <2>1, <2>2, Entries DEF Record
  <2>4. StoreOK'
    BY <1>14, Paths DEF Record
  <2>5. PassOK'
    BY <1>14, <2>3 DEF Record
  <2>6. RequestsOK' /\ MoversOK' /\ HistoryOK'
    BY <1>14 DEF Record, MoverPC
  <2>7. PassShape'
    BY <1>14, <2>3 DEF Record
  <2>. QED BY <2>4, <2>5, <2>6, <2>7
<1>15. ASSUME NEW t \in Tier, ChangePath(t) PROVE TypeInv'
  <2>1. msrc[t] \in Loc /\ files[msrc[t]] \in Entry
    BY <1>15, Paths DEF ChangePath
  <2>2. [files[msrc[t]] EXCEPT !.name = ConflictPath(t)[2]] \in Entry
    BY <2>1, Paths, Entries
  <2>3. /\ files' \in [Loc -> Entry \cup {NoEntry}]
        /\ \A l \in Loc : files[l] # NoEntry => files'[l] # NoEntry
    BY <1>15, <2>1, <2>2, Entries DEF ChangePath
  <2>4. StoreOK'
    BY <1>15, Paths DEF ChangePath
  <2>5. PassOK'
    BY <1>15, <2>3 DEF ChangePath
  <2>6. RequestsOK' /\ MoversOK' /\ HistoryOK'
    BY <1>15 DEF ChangePath, MoverPC
  <2>7. PassShape'
    BY <1>15, <2>3 DEF ChangePath
  <2>. QED BY <2>4, <2>5, <2>6, <2>7
<1>16. ASSUME NEW h \in Handle, OpenStat(h) PROVE TypeInv'
  BY <1>16 DEF OpenStat, HandlePC, Goto, Register, Unregister, GetFd, Store, Content
<1>17. ASSUME NEW h \in Handle, OpenRegister(h) PROVE TypeInv'
  BY <1>17 DEF OpenRegister, HandlePC, Goto, Register, Unregister, GetFd, Store, Content
<1>18. ASSUME NEW h \in Handle, OpenFd(h) PROVE TypeInv'
  <2>1. RequestsOK'
    BY <1>18, CommittedBoolean DEF OpenFd, HandlePC, Goto, GetFd
  <2>2. StoreOK' /\ PassOK' /\ MoversOK' /\ HistoryOK' /\ PassShape'
    BY <1>18, CommittedBoolean DEF OpenFd, GetFd
  <2>. QED BY <2>1, <2>2
<1>19. ASSUME NEW h \in Handle, OpenCommit(h) PROVE TypeInv'
  BY <1>19 DEF OpenCommit, HandlePC, Goto, Register, Unregister, GetFd, Store, Content
<1>20. ASSUME NEW h \in Handle, CreateRegister(h) PROVE TypeInv'
  BY <1>20 DEF CreateRegister, HandlePC, Goto, Register, Unregister, GetFd, Store, Content
<1>21. ASSUME NEW h \in Handle, Creat(h) PROVE TypeInv'
  <2>1. RequestsOK'
    BY <1>21, CommittedBoolean DEF Creat, HandlePC, Goto, GetFd
  <2>2. StoreOK'
    BY <1>21 DEF Creat, Store, Content
  <2>3. HistoryOK'
    BY <1>21, CommittedBoolean DEF Creat, Store, GetFd, Content
  <2>4. PassOK' /\ MoversOK' /\ PassShape'
    BY <1>21 DEF Creat
  <2>. QED BY <2>1, <2>2, <2>3, <2>4
<1>22. ASSUME NEW h \in Handle, CreateCommit(h) PROVE TypeInv'
  BY <1>22 DEF CreateCommit, HandlePC, Goto, Register, Unregister, GetFd, Store, Content
<1>23. ASSUME NEW h \in Handle, OpenError(h) PROVE TypeInv'
  <2>1. RequestsOK'
    BY <1>23 DEF OpenError, HandlePC, Goto
  <2>2. StoreOK'
    BY <1>23 DEF OpenError, Unregister
  <2>3. PassOK' /\ MoversOK' /\ HistoryOK' /\ PassShape'
    BY <1>23 DEF OpenError, Unregister
  <2>. QED BY <2>1, <2>2, <2>3
<1>24. ASSUME NEW h \in Handle, Write(h) PROVE TypeInv'
  <2>1. hloc[h] \in Loc /\ <<hloc[h], writes + 1>> \in Content
    BY DEF Content
  <2>2. disk' \in [Loc -> Content \cup {Absent, Partial}]
    BY <1>24, <2>1 DEF Write, Store
  <2>3. HistoryOK'
    <3>1. owed' \subseteq Content
      <4>1. \/ owed' = (owed \ {disk[hloc[h]]}) \cup {<<hloc[h], writes + 1>>}
            \/ owed' = owed \cup {<<hloc[h], writes + 1>>}
        BY <1>24 DEF Write, Store
      <4>2. owed \subseteq Content
        OBVIOUS
      <4>. QED BY ONLY <2>1, <4>1, <4>2
    <3>2. writes' = writes + 1 /\ writes < MaxWrites
      BY <1>24 DEF Write, Store
    <3>. QED BY <1>24, <3>1, <3>2 DEF Write
  <2>4. StoreOK' /\ RequestsOK' /\ PassOK' /\ MoversOK' /\ PassShape'
    BY <1>24, <2>2 DEF Write
  <2>. QED BY <2>3, <2>4
<1>25. ASSUME NEW h \in Handle, Release(h) PROVE TypeInv'
  <2>1. RequestsOK'
    BY <1>25 DEF Release, Close, HandlePC, Goto
  <2>2. StoreOK'
    BY <1>25 DEF Release, Close, Unregister
  <2>3. PassOK' /\ MoversOK' /\ HistoryOK' /\ PassShape'
    BY <1>25 DEF Release, Close, Unregister
  <2>. QED BY <2>1, <2>2, <2>3
<1>30. ASSUME NEW h \in Handle, ReleaseLeaks(h) PROVE TypeInv'
  <2>1. RequestsOK'
    BY <1>30 DEF ReleaseLeaks, Close, HandlePC, Goto
  <2>2. StoreOK'
    BY <1>30 DEF ReleaseLeaks, Close
  <2>3. PassOK' /\ MoversOK' /\ HistoryOK' /\ PassShape'
    BY <1>30, Bounds DEF ReleaseLeaks, Close
  <2>. QED BY <2>1, <2>2, <2>3
<1>26. ASSUME NEW h \in Handle, NEW n \in Visible, OpenLookup(h, n) PROVE TypeInv'
  BY <1>26, CommittedBoolean DEF OpenLookup, HandlePC, Goto
<1>27. ASSUME NEW h \in Handle, NEW n \in Visible, CreateLookup(h, n) PROVE TypeInv'
  BY <1>27, CommittedBoolean DEF CreateLookup, HandlePC, Goto
<1>28. CASE Crash
  <2>1. RequestsOK' /\ MoversOK'
    BY <1>28 DEF Crash, HandlePC, MoverPC
  <2>2. StoreOK' /\ PassOK' /\ HistoryOK' /\ PassShape'
    BY <1>28 DEF Crash
  <2>. QED BY <2>1, <2>2
<1>29. CASE UNCHANGED vars
  BY <1>29 DEF vars
<1>. QED
  BY <1>1, <1>2, <1>3, <1>4, <1>5, <1>6, <1>7, <1>8, <1>9, <1>10, <1>11, <1>12, <1>13, <1>14, <1>15, <1>16, <1>17, <1>18, <1>19, <1>20, <1>21, <1>22, <1>23, <1>24, <1>25, <1>26, <1>27, <1>28, <1>29, <1>30
  DEF Next, Worker, Mover, Request

LEMMA TypeInvariant == Spec => []TypeInv
BY TypeInit, TypeNext, PTL DEF Spec

\* Every variable of the migration keeps its type, whatever the tiers, names and requests.
THEOREM TypeCorrect == Spec => []TypeOK
BY TypeInvariant, PTL DEF TypeInv

\* Outside tier passes and crashes no mover runs and no file waits for one.
THEOREM PassCorrect == Spec => []PassShape
BY TypeInvariant, PTL DEF TypeInv
-----------------------------------------------------------------------------
(* The registry of open files *)

LEMMA HoldersFinite == \A l : IsFiniteSet(Holders(l))
BY Bounds, FS_Subset DEF Holders

LEMMA CountSame ==
    ASSUME OpenCountExact, UNCHANGED <<open_files, leaked>>,
           \A g \in Handle : /\ Registered(g)' <=> Registered(g)
                             /\ Registered(g) => hloc'[g] = hloc[g]
    PROVE  OpenCountExact'
<1>1. ASSUME NEW l \in Loc PROVE Holders(l)' = Holders(l)
  <2>1. \A g \in Handle : (Registered(g)' /\ hloc'[g] = l) <=> (Registered(g) /\ hloc[g] = l)
    OBVIOUS
  <2>. QED BY <2>1 DEF Holders
<1>. QED BY <1>1 DEF OpenCountExact

LEMMA CountJoin ==
    ASSUME StoreOK, OpenCountExact, NEW h \in Handle, hloc[h] \in Loc,
           ~Registered(h), Registered(h)', UNCHANGED hloc, Register(hloc[h]),
           \A g \in Handle \ {h} : Registered(g)' <=> Registered(g)
    PROVE  OpenCountExact'
<1>1. Holders(hloc[h])' = Holders(hloc[h]) \cup {h} /\ h \notin Holders(hloc[h])
  BY DEF Holders
<1>2. Cardinality(Holders(hloc[h])') = Cardinality(Holders(hloc[h])) + 1
  BY <1>1, HoldersFinite, FS_AddElement
<1>3. \A l \in Loc \ {hloc[h]} : Holders(l)' = Holders(l)
  BY DEF Holders
<1>4. Cardinality(Holders(hloc[h])) \in Nat
  BY HoldersFinite, FS_CardinalityType
<1>. QED BY <1>2, <1>3, <1>4 DEF OpenCountExact, Register, StoreOK

LEMMA CountLeave ==
    ASSUME StoreOK, OpenCountExact, NEW h \in Handle, hloc[h] \in Loc,
           Registered(h), ~Registered(h)', UNCHANGED hloc, Unregister(hloc[h]),
           \A g \in Handle \ {h} : Registered(g)' <=> Registered(g)
    PROVE  OpenCountExact'
<1>1. Holders(hloc[h])' = Holders(hloc[h]) \ {h} /\ h \in Holders(hloc[h])
  BY DEF Holders
<1>2. /\ Cardinality(Holders(hloc[h])') = Cardinality(Holders(hloc[h])) - 1
      /\ Cardinality(Holders(hloc[h])) \in Nat /\ Cardinality(Holders(hloc[h])) # 0
  BY <1>1, HoldersFinite, FS_RemoveElement, FS_CardinalityType, FS_EmptySet
<1>3. \A l \in Loc \ {hloc[h]} : Holders(l)' = Holders(l)
  BY DEF Holders
<1>. QED BY <1>2, <1>3 DEF OpenCountExact, Unregister, StoreOK

LEMMA CountLeak ==
    ASSUME StoreOK, OpenCountExact, NEW h \in Handle, hloc[h] \in Loc,
           Registered(h), ~Registered(h)', UNCHANGED <<hloc, open_files>>,
           leaked' = [leaked EXCEPT ![hloc[h]] = @ + 1],
           \A g \in Handle \ {h} : Registered(g)' <=> Registered(g)
    PROVE  OpenCountExact'
<1>1. Holders(hloc[h])' = Holders(hloc[h]) \ {h} /\ h \in Holders(hloc[h])
  BY DEF Holders
<1>2. /\ Cardinality(Holders(hloc[h])') = Cardinality(Holders(hloc[h])) - 1
      /\ Cardinality(Holders(hloc[h])) \in Nat /\ Cardinality(Holders(hloc[h])) # 0
  BY ONLY <1>1, HoldersFinite, FS_RemoveElement, FS_CardinalityType, FS_EmptySet
<1>3. \A l \in Loc \ {hloc[h]} : Holders(l)' = Holders(l)
  BY DEF Holders
<1>. QED BY <1>2, <1>3 DEF OpenCountExact, StoreOK

LEMMA CountInit == Init => OpenCountExact
<1>. SUFFICES ASSUME Init, NEW l \in Loc PROVE open_files[l] = Cardinality(Holders(l)) + leaked[l]
  BY DEF OpenCountExact
<1>1. Holders(l) = {} /\ open_files[l] = 0 /\ leaked[l] = 0
  BY DEF Init, Holders, Registered
<1>. QED BY <1>1, FS_EmptySet

LEMMA CountNext == TypeInv /\ OpenCountExact /\ [Next]_vars => OpenCountExact'
<1>. SUFFICES ASSUME TypeInv, OpenCountExact, [Next]_vars PROVE OpenCountExact'
  OBVIOUS
<1>. USE DEF TypeInv, TypeOK
<1>1. CASE Worker
  <2>1. UNCHANGED <<open_files, leaked, hpc, hloc>>
    BY <1>1 DEF Worker, StartPass, Crawl, Plan, Join, UpdateDb, EndPass, handles
  <2>. QED BY <2>1, CountSame DEF Registered
<1>2. ASSUME NEW t \in Tier, Mover(t) PROVE OpenCountExact'
  <2>1. UNCHANGED <<open_files, leaked, hpc, hloc>>
    BY <1>2 DEF Mover, Check, CopyOpen, CopyDone, CopyFail, Remove, TestExists, Rename, Record, ChangePath, handles
  <2>. QED BY <2>1, CountSame DEF Registered
<1>3. ASSUME NEW h \in Handle, OpenRegister(h) \/ CreateRegister(h) PROVE OpenCountExact'
  <2>1. hloc[h] \in Loc
    BY Names DEF RequestsOK
  <2>2. ~Registered(h) /\ Registered(h)' /\ UNCHANGED hloc /\ Register(hloc[h])
    BY <1>3 DEF OpenRegister, CreateRegister, Goto, Registered, RequestsOK
  <2>3. \A g \in Handle \ {h} : Registered(g)' <=> Registered(g)
    BY <1>3 DEF OpenRegister, CreateRegister, Goto, Registered, RequestsOK
  <2>. QED BY <2>1, <2>2, <2>3, CountJoin
<1>4. ASSUME NEW h \in Handle, OpenError(h) \/ Release(h) PROVE OpenCountExact'
  <2>1. hloc[h] \in Loc
    BY Names DEF RequestsOK
  <2>2. Registered(h) /\ ~Registered(h)' /\ UNCHANGED hloc /\ Unregister(hloc[h])
    BY <1>4 DEF OpenError, Release, Close, Goto, Registered, RequestsOK
  <2>3. \A g \in Handle \ {h} : Registered(g)' <=> Registered(g)
    BY <1>4 DEF OpenError, Release, Close, Goto, Registered, RequestsOK
  <2>. QED BY <2>1, <2>2, <2>3, CountLeave
<1>10. ASSUME NEW h \in Handle, ReleaseLeaks(h) PROVE OpenCountExact'
  <2>1. hloc[h] \in Loc
    BY Names DEF RequestsOK
  <2>2. /\ Registered(h) /\ ~Registered(h)' /\ UNCHANGED <<hloc, open_files>>
        /\ leaked' = [leaked EXCEPT ![hloc[h]] = @ + 1]
    BY <1>10 DEF ReleaseLeaks, Close, Goto, Registered, RequestsOK
  <2>3. \A g \in Handle \ {h} : Registered(g)' <=> Registered(g)
    BY <1>10 DEF ReleaseLeaks, Close, Goto, Registered, RequestsOK
  <2>. QED BY <2>1, <2>2, <2>3, CountLeak
<1>5. ASSUME NEW h \in Handle,
             OpenStat(h) \/ OpenFd(h) \/ OpenCommit(h) \/ Creat(h) \/ CreateCommit(h)
      PROVE  OpenCountExact'
  <2>1. /\ UNCHANGED <<open_files, leaked, hloc>>
        /\ \A g \in Handle : Registered(g)' <=> Registered(g)
    BY <1>5 DEF OpenStat, OpenFd, OpenCommit, Creat, CreateCommit, Goto, Registered,
                RequestsOK, handles
  <2>. QED BY <2>1, CountSame
<1>6. ASSUME NEW h \in Handle, NEW n \in Visible, OpenLookup(h, n) \/ CreateLookup(h, n)
      PROVE  OpenCountExact'
  <2>1. /\ UNCHANGED <<open_files, leaked>>
        /\ \A g \in Handle : /\ Registered(g)' <=> Registered(g)
                             /\ Registered(g) => hloc'[g] = hloc[g]
    BY <1>6 DEF OpenLookup, CreateLookup, Goto, Registered, RequestsOK
  <2>. QED BY <2>1, CountSame
<1>7. ASSUME NEW h \in Handle, Write(h) PROVE OpenCountExact'
  <2>1. UNCHANGED <<open_files, leaked, hpc, hloc>>
    BY <1>7 DEF Write, handles
  <2>. QED BY <2>1, CountSame DEF Registered
<1>8. CASE Crash
  <2>. SUFFICES ASSUME NEW l \in Loc PROVE open_files'[l] = Cardinality(Holders(l)') + leaked'[l]
    BY DEF OpenCountExact
  <2>1. Holders(l)' = {} /\ open_files'[l] = 0 /\ leaked'[l] = 0
    BY <1>8 DEF Crash, Holders, Registered
  <2>. QED BY <2>1, FS_EmptySet
<1>9. CASE UNCHANGED vars
  <2>1. UNCHANGED <<open_files, leaked, hpc, hloc>>
    BY <1>9 DEF vars
  <2>. QED BY <2>1, CountSame DEF Registered
<1>. QED
  BY <1>1, <1>2, <1>3, <1>4, <1>5, <1>6, <1>7, <1>8, <1>9, <1>10 DEF Next, Request

\* The registry counts every request that holds a registration, however open(), create()
\* and release() end, so a file someone has open is never counted as free; it counts more
\* only by the releases that returned before release_open_file.
THEOREM OpenCountCorrect == Spec => []OpenCountExact
<1>1. TypeInv /\ OpenCountExact /\ [Next]_vars => OpenCountExact'
  BY CountNext
<1>. QED BY <1>1, CountInit, TypeInvariant, PTL DEF Spec
-----------------------------------------------------------------------------
(* Open files stay where they are *)

SafeInv == TypeInv /\ OpenCountExact /\ OpenFileSafe

\* A request that holds a descriptor is seen by the mover's look at the registry.
LEMMA OpenIsCounted ==
    ASSUME StoreOK, OpenCountExact, NEW h \in Handle, HasFd(h), hloc[h] \in Loc
    PROVE  open_files[hloc[h]] > 0
<1>1. h \in Holders(hloc[h])
  BY DEF Holders, HasFd, Registered
<1>2. Cardinality(Holders(hloc[h])) \in Nat /\ Cardinality(Holders(hloc[h])) # 0
  BY <1>1, HoldersFinite, FS_CardinalityType, FS_EmptySet
<1>. QED BY <1>2 DEF OpenCountExact, StoreOK

\* The movers' own names are never the path of a request.
LEMMA OwnNames ==
    ASSUME MoversOK, NEW t \in Tier, NEW l \in Tier \X Visible
    PROVE  Tmp(t) # l /\ ConflictPath(t) # l
<1>1. msrc[t][2] \in Movable /\ msrc[t][1] \in Tier
  BY DEF MoversOK
<1>2. Hide[msrc[t][2]] \notin Visible /\ Conflict[<<msrc[t][2], msrc[t][1]>>] \notin Visible
  BY <1>1, NameAssumption
<1>. QED BY <1>2 DEF Tmp, ConflictPath

LEMMA SafeInit == Init => OpenFileSafe
BY DEF Init, OpenFileSafe, HasFd

LEMMA SafeNext == SafeInv /\ [Next]_vars => OpenFileSafe'
<1>. SUFFICES ASSUME SafeInv, [Next]_vars, NEW h \in Handle, HasFd(h)', ~exposed'[h]
              PROVE  Safe(h)'
  BY DEF OpenFileSafe
<1>. USE DEF SafeInv, TypeInv, TypeOK
<1>1. hloc[h] \in Tier \X Visible /\ hloc[h] \in Loc /\ (HasFd(h) => open_files[hloc[h]] > 0)
  BY Names, OpenIsCounted DEF RequestsOK
<1>2. HasFd(h) /\ ~exposed[h] => Safe(h)
  BY DEF OpenFileSafe
<1>3. CASE Worker
  <2>1. UNCHANGED <<disk, hpc, hloc, attached, exposed, mpc, msrc, conflicted>>
    BY <1>3 DEF Worker, StartPass, Crawl, Plan, Join, UpdateDb, EndPass, handles, movers, store
  <2>. QED BY <1>2, <2>1 DEF HasFd, Safe, Committed, Target
<1>4. ASSUME NEW t \in Tier, Mover(t) PROVE Safe(h)'
  <2>0. /\ UNCHANGED <<hpc, hloc, exposed>>
        /\ \A u \in Tier \ {t} : mpc'[u] = mpc[u] /\ msrc'[u] = msrc[u]
                                 /\ conflicted'[u] = conflicted[u]
    BY <1>4 DEF Mover, Check, CopyOpen, CopyDone, CopyFail, Remove, TestExists, Rename,
                Record, ChangePath, handles, MoversOK
  <2>1. HasFd(h) /\ Safe(h)
    BY <1>2, <2>0 DEF HasFd
  <2>2. CASE Check(t)
    <3>1. mpc'[t] = "idle" \/ (mpc'[t] = "copy" /\ msrc'[t] # hloc[h])
      BY <1>1, <2>1, <2>2 DEF Check, MoversOK
    <3>. QED BY <2>0, <2>1, <2>2, <3>1 DEF Check, Safe, Committed, Target, handles, store
  <2>3. CASE CopyOpen(t) \/ CopyDone(t) \/ CopyFail(t)
    <3>1. disk'[hloc[h]] # Absent
      BY <1>1, <2>1, <2>3, Markers DEF CopyOpen, CopyDone, CopyFail, Safe, StoreOK, store
    <3>2. ~Committed(hloc[h])'
      BY <2>0, <2>1, <2>3
      DEF CopyOpen, CopyDone, CopyFail, Safe, Committed, Target, MoversOK
    <3>. QED BY <2>0, <2>1, <2>3, <3>1, <3>2 DEF CopyOpen, CopyDone, CopyFail, Safe, handles
  <2>4. CASE Remove(t)
    <3>1. msrc[t] # hloc[h]
      BY <2>1, <2>4 DEF Remove, Safe, Committed
    <3>2. ~Committed(hloc[h])'
      BY <2>0, <2>1, <2>4 DEF Remove, Safe, Committed, Target, MoversOK
    <3>. QED BY <1>1, <2>0, <2>1, <2>4, <3>1, <3>2 DEF Remove, Detach, Safe, StoreOK
  <2>5. CASE TestExists(t)
    <3>1. conflicted'[t] \/ Target(t)' # hloc[h]
      BY <2>0, <2>1, <2>5 DEF TestExists, Safe, MoversOK, Target
    <3>. QED BY <2>0, <2>1, <2>5, <3>1
             DEF TestExists, Safe, Committed, Target, handles, store, MoversOK
  <2>6. CASE Rename(t)
    <3>1. RenameTo(t) # hloc[h] /\ Tmp(t) # hloc[h]
      BY <1>1, <2>1, <2>6, OwnNames DEF Rename, Safe, Committed, RenameTo
    <3>2. ~Committed(hloc[h])'
      BY <2>0, <2>1, <2>6 DEF Rename, Safe, Committed, Target, MoversOK
    <3>. QED BY <1>1, <2>0, <2>1, <2>6, <3>1, <3>2 DEF Rename, Detach, Safe, StoreOK
  <2>7. CASE Record(t) \/ ChangePath(t)
    BY <2>0, <2>1, <2>7 DEF Record, ChangePath, Safe, Committed, Target, MoversOK, handles
  <2>. QED BY <1>4, <2>2, <2>3, <2>4, <2>5, <2>6, <2>7 DEF Mover
<1>5. ASSUME NEW g \in Handle, Request(g) PROVE Safe(h)'
  <2>1. UNCHANGED movers
    BY <1>5 DEF Request, OpenLookup, CreateLookup, OpenStat, OpenRegister, OpenFd, OpenCommit,
        CreateRegister, Creat, CreateCommit, OpenError, Write, Release, ReleaseLeaks, Close
  <2>2. \A l \in Loc : disk[l] # Absent => disk'[l] # Absent
    <3>1. CASE UNCHANGED disk
      BY <3>1
    <3>2. CASE Store(hloc[g])
      BY <3>2, Markers, Names DEF Store, StoreOK, HistoryOK, RequestsOK, Content
    <3>. QED BY <1>5, <3>1, <3>2 DEF Request, OpenLookup, CreateLookup, OpenStat, OpenRegister, OpenFd, OpenCommit,
        CreateRegister, Creat, CreateCommit, OpenError, Write, Release, ReleaseLeaks, Close, store
  <2>3. CASE g # h
    <3>1. /\ hpc'[h] = hpc[h] /\ hloc'[h] = hloc[h]
          /\ attached'[h] = attached[h] /\ exposed'[h] = exposed[h]
      BY <1>5, <2>3 DEF Request, OpenLookup, CreateLookup, OpenStat, OpenRegister, OpenFd, OpenCommit,
        CreateRegister, Creat, CreateCommit, OpenError, Write, Release, ReleaseLeaks, Close, Goto, GetFd, handles, RequestsOK
    <3>. QED BY <1>1, <1>2, <2>1, <2>2, <3>1 DEF Safe, HasFd, Committed, Target, movers
  <2>4. CASE g = h
    <3>1. CASE OpenFd(h) \/ Creat(h)
      <4>1. /\ attached'[h] /\ hloc'[h] = hloc[h] /\ exposed'[h] = Committed(hloc[h])
        BY <3>1 DEF OpenFd, Creat, GetFd, RequestsOK
      <4>2. disk'[hloc[h]] # Absent
        BY <1>1, <3>1, <2>2, Markers
        DEF OpenFd, Creat, Store, StoreOK, HistoryOK, Content, store
      <4>. QED BY <2>1, <4>1, <4>2 DEF Safe, Committed, Target, movers
    <3>2. CASE OpenCommit(h) \/ CreateCommit(h) \/ Write(h)
      <4>1. /\ HasFd(h) /\ hloc'[h] = hloc[h]
            /\ attached'[h] = attached[h] /\ exposed'[h] = exposed[h]
        BY <3>2 DEF OpenCommit, CreateCommit, Write, HasFd, handles
      <4>. QED BY <1>1, <1>2, <2>1, <2>2, <4>1 DEF Safe, Committed, Target, movers
    <3>3. ASSUME NEW n \in Visible, OpenLookup(h, n) \/ CreateLookup(h, n) PROVE FALSE
      BY <3>3 DEF OpenLookup, CreateLookup, Goto, HasFd, RequestsOK
    <3>4. CASE OpenStat(h) \/ OpenRegister(h) \/ CreateRegister(h) \/ OpenError(h) \/ Release(h) \/ ReleaseLeaks(h)
      BY <3>4 DEF OpenStat, OpenRegister, CreateRegister, OpenError, Release, ReleaseLeaks, Close, Goto, HasFd,
                  RequestsOK
    <3>. QED BY <1>5, <2>4, <3>1, <3>2, <3>3, <3>4 DEF Request
  <2>. QED BY <2>3, <2>4
<1>6. CASE Crash
  BY <1>6 DEF Crash, HasFd
<1>7. CASE UNCHANGED vars
  BY <1>2, <1>7 DEF vars, HasFd, Safe, Committed, Target
<1>. QED BY <1>3, <1>4, <1>5, <1>6, <1>7 DEF Next

\* No mover moves, removes or replaces a file under a request that holds a descriptor of
\* it, unless the descriptor was obtained when the mover was already committed: counting
\* registrations and looking at the count before each move is enough otherwise.
THEOREM OpenFilesSafe == Spec => []OpenFileStays
<1>1. Init => SafeInv
  BY TypeInit, CountInit, SafeInit DEF SafeInv
<1>2. SafeInv /\ [Next]_vars => SafeInv'
  BY TypeNext, CountNext, SafeNext DEF SafeInv
<1>3. SafeInv => OpenFileStays
  BY DEF SafeInv, OpenFileSafe, OpenFileStays, Safe
<1>. QED BY <1>1, <1>2, <1>3, PTL DEF Spec
-----------------------------------------------------------------------------
(* The data *)

Chaos == raced \/ clobbered

Early == {"copy", "copying", "remove"}              \* the source is still there
WithTmp == {"copying", "remove", "exists", "rename"} \* the temporary is the mover's
Copied == {"remove", "exists", "rename"}

\* No two movers are at, or will take, the same source, and none is at a source in the
\* tier it moves to.
Apart ==
    /\ \A t \in Tier : \A l \in todo[t] : l[1] # t
    /\ \A t \in Tier : mpc[t] # "idle" => msrc[t][1] # t
    /\ \A t, u \in Tier : t # u => todo[t] \cap todo[u] = {}
    /\ \A t, u \in Tier : mpc[t] # "idle" => msrc[t] \notin todo[u]
    /\ \A t, u \in Tier : t # u /\ mpc[t] # "idle" /\ mpc[u] # "idle" => msrc[t] # msrc[u]

\* What waits for a mover, or has not been removed by one, is there.
Present ==
    /\ phase = "idle" => Crawled = {}
    /\ phase = "crawl" => \A l \in Crawled : disk[l] # Absent
    /\ \A t \in Tier : \A l \in todo[t] : disk[l] # Absent
    /\ \A t \in Tier : mpc[t] \in Early => disk[msrc[t]] # Absent
    /\ \A t \in Tier : mpc[t] \in WithTmp => disk[Tmp(t)] # Absent

\* A mover's temporary is no mover's source.
OwnTmp == \A t, u \in Tier : mpc[t] \in WithTmp =>
    /\ Tmp(t) \notin todo[u]
    /\ mpc[u] \in Early => msrc[u] # Tmp(t)

\* What a temporary holds, and what can be seen.
Copies ==
    /\ \A t \in Tier : mpc[t] = "copying" => disk[Tmp(t)] = Partial
    /\ \A t \in Tier : mpc[t] \in Copied /\ msrc[t][2] \in PublicName
                          => disk[Tmp(t)] \in Content
    /\ \A l \in Public : disk[l] # Partial

\* A finished copy is a copy of what the source has now.
Whole == ~Chaos => \A t \in Tier : mpc[t] = "remove" => disk[Tmp(t)] = disk[msrc[t]]

\* A descriptor of a path that a mover is committed to fell into a move.
Told == \A h \in Handle : exposed[h] => raced

\* Contents are numbered by the writes so far.
Numbered ==
    /\ \A l \in Loc : disk[l] \in Content => disk[l][2] <= writes
    /\ \A c \in owed : c[2] <= writes

\* The places that stand for files: what can be seen, and temporaries whose source is gone.
Live(l) ==
    \/ l \in Public
    \/ \E t \in Tier : /\ mpc[t] \in {"exists", "rename"} /\ msrc[t][2] \in PublicName
                       /\ l = Tmp(t)
Single == ~Chaos =>
    /\ \A l \in Loc : Live(l) /\ disk[l] # Absent => disk[l] \in owed
    /\ \A l, k \in Loc : Live(l) /\ Live(k) /\ disk[l] # Absent /\ disk[l] = disk[k] => l = k

Parts == Apart /\ Present /\ OwnTmp
-----------------------------------------------------------------------------
(* Steps *)

\* Where a mover's own names are.
LEMMA OwnPaths ==
    ASSUME MoversOK, NEW t \in Tier
    PROVE  /\ Tmp(t) \in Loc /\ Tmp(t)[1] = t /\ Tmp(t) \notin Public
           /\ RenameTo(t) \in Loc /\ RenameTo(t)[1] = t /\ RenameTo(t) # Tmp(t)
           /\ RenameTo(t) \in Public => msrc[t][2] \in PublicName
<1>1. msrc[t] \in Loc /\ msrc[t][2] \in Movable /\ msrc[t][1] \in Tier
  BY Paths
<1>2. /\ Hide[msrc[t][2]] \in Name /\ Hide[msrc[t][2]] # msrc[t][2]
      /\ Hide[msrc[t][2]] \notin Visible
      /\ \A m \in Movable, u \in Tier : Hide[msrc[t][2]] # Conflict[<<m, u>>]
  BY <1>1, NameAssumption
<1>3. Hide[msrc[t][2]] \notin PublicName
  BY <1>2, Names DEF PublicName
<1>4. Tmp(t) \in Loc /\ Tmp(t)[1] = t /\ Tmp(t) \notin Public
  BY <1>2, <1>3 DEF Tmp, Loc, Public, PublicName
<1>5. RenameTo(t) \in Loc /\ RenameTo(t)[1] = t
  BY Paths DEF RenameTo, Target, ConflictPath
<1>6. RenameTo(t) # Tmp(t)
  BY <1>1, <1>2 DEF RenameTo, Target, ConflictPath, Tmp
<1>7. ASSUME RenameTo(t) \in Public PROVE msrc[t][2] \in PublicName
  <2>1. CASE ~conflicted[t]
    BY <1>7, <2>1 DEF RenameTo, Target, Public, PublicName
  <2>2. CASE conflicted[t]
    <3>1. Conflict[<<msrc[t][2], msrc[t][1]>>] \in PublicName
      BY <1>7, <2>2 DEF RenameTo, ConflictPath, Public, PublicName
    <3>2. Conflict[<<msrc[t][2], msrc[t][1]>>] \notin Visible
      BY <1>1, NameAssumption
    <3>3. PICK n \in Visible, u \in Tier :
             Conflict[<<msrc[t][2], msrc[t][1]>>] = Conflict[<<n, u>>]
      BY <3>1, <3>2 DEF PublicName
    <3>4. <<msrc[t][2], msrc[t][1]>> = <<n, u>>
      BY <1>1, <3>3, NameAssumption
    <3>5. msrc[t][2] \in Visible
      BY <3>3, <3>4
    <3>. QED BY <3>5, Names DEF PublicName
  <2>. QED BY <2>1, <2>2
<1>. QED BY <1>4, <1>5, <1>6, <1>7

LEMMA PublicPlaces ==
    /\ Public \subseteq Loc /\ Tier \X Visible \subseteq Public
    /\ \A l : l \in Public <=> l \in Tier \X PublicName
BY Names DEF Public, PublicName, Loc

\* The worker's own steps touch neither files nor movers.
LEMMA WorkerFrame ==
    ASSUME Worker \/ UNCHANGED vars
    PROVE  /\ UNCHANGED <<disk, mpc, msrc, conflicted, exposed, hpc, hloc, raced, owed,
                          clobbered, writes>>
           /\ Plan \/ UNCHANGED todo
BY DEF Worker, StartPass, Crawl, Plan, Join, UpdateDb, EndPass, vars, store, handles, movers,
       history

\* A mover's step leaves the other movers alone.
LEMMA MoverFrame ==
    ASSUME MoversOK, PassOK, NEW t \in Tier, Mover(t)
    PROVE  /\ UNCHANGED <<hpc, hloc, exposed, raced, owed, writes, phase>>
           /\ clobbered => clobbered'
           /\ \A u \in Tier \ {t} : /\ mpc'[u] = mpc[u] /\ msrc'[u] = msrc[u]
                                    /\ todo'[u] = todo[u] /\ Tmp(u)' = Tmp(u)
           /\ todo'[t] \subseteq todo[t]
           /\ ~Check(t) => msrc' = msrc /\ todo' = todo
           /\ IF Check(t) THEN mpc[t] = "idle" /\ mpc'[t] \in {"idle", "copy"}
                          ELSE mpc[t] # "idle"
           /\ ~Rename(t) => clobbered' = clobbered
<1>. USE DEF MoversOK, PassOK
<1>1. CASE Check(t)
  <2>1. PICK l \in todo[t] :
          /\ todo' = [todo EXCEPT ![t] = @ \ {l}]
          /\ \/ UNCHANGED <<mpc, msrc>>
             \/ mpc' = [mpc EXCEPT ![t] = "copy"] /\ msrc' = [msrc EXCEPT ![t] = l]
    BY <1>1 DEF Check
  <2>2. UNCHANGED <<hpc, hloc, exposed, raced, owed, writes, phase, clobbered>> /\ mpc[t] = "idle"
    BY <1>1 DEF Check, handles, history
  <2>3. \A u \in Tier \ {t} : mpc'[u] = mpc[u] /\ msrc'[u] = msrc[u] /\ todo'[u] = todo[u]
    BY <2>1
  <2>4. mpc'[t] \in {"idle", "copy"} /\ todo'[t] \subseteq todo[t]
    BY <2>1, <2>2
  <2>. QED BY <1>1, <2>2, <2>3, <2>4 DEF Tmp
<1>2. CASE ~Check(t)
  <2>1. UNCHANGED <<hpc, hloc, exposed, raced, owed, writes, phase, msrc, todo>>
    BY <1>2 DEF Mover, CopyOpen, CopyDone, CopyFail, Remove, TestExists, Rename, Record,
                ChangePath, handles, history, pass
  <2>2. \A u \in Tier \ {t} : mpc'[u] = mpc[u]
    BY <1>2 DEF Mover, CopyOpen, CopyDone, CopyFail, Remove, TestExists, Rename, Record,
                ChangePath
  <2>3. ~Rename(t) => clobbered' = clobbered
    BY <1>2 DEF Mover, CopyOpen, CopyDone, CopyFail, Remove, TestExists, Record, ChangePath,
                history
  <2>4. clobbered => clobbered'
    BY <2>3 DEF Rename
  <2>5. mpc[t] # "idle"
    BY <1>2 DEF Mover, CopyOpen, CopyDone, CopyFail, Remove, TestExists, Rename, Record,
                ChangePath
  <2>. QED BY <1>2, <2>1, <2>2, <2>3, <2>4, <2>5 DEF Tmp
<1>. QED BY <1>1, <1>2

\* Of the movers' steps four change files.
LEMMA MoverDisk ==
    ASSUME NEW t \in Tier, Mover(t)
    PROVE  \/ CopyOpen(t) \/ CopyDone(t) \/ Remove(t) \/ Rename(t)
           \/ /\ UNCHANGED disk
              /\ Check(t) \/ CopyFail(t) \/ TestExists(t) \/ Record(t) \/ ChangePath(t)
BY DEF Mover, Check, CopyFail, TestExists, Record, ChangePath, store

\* A request stores at its own path, and a mover that has that path as its source makes
\* it a race; or it stores in a file that has lost its name.
LEMMA RequestFrame ==
    ASSUME TypeInv, OpenFileSafe, Told, NEW h \in Handle, Request(h)
    PROVE  /\ UNCHANGED <<pass, movers>>
           /\ Chaos => Chaos'
           /\ \/ UNCHANGED <<disk, owed, writes>>
              \/ /\ UNCHANGED disk /\ Chaos' /\ writes' = writes + 1
                 /\ owed' = owed \cup {<<hloc[h], writes + 1>>}
              \/ /\ Store(hloc[h]) /\ hloc[h] \in Tier \X Visible
                 /\ \A t \in Tier : mpc[t] \in Early /\ msrc[t] = hloc[h] => Chaos'
<1>. USE DEF TypeInv, TypeOK
<1>1. UNCHANGED <<pass, movers>>
  BY DEF Request, OpenLookup, CreateLookup, OpenStat, OpenRegister, OpenFd, OpenCommit,
         CreateRegister, Creat, CreateCommit, OpenError, Write, Release, ReleaseLeaks, Close
<1>2. Chaos => Chaos'
  BY DEF Request, OpenLookup, CreateLookup, OpenStat, OpenRegister, OpenFd, OpenCommit,
         CreateRegister, Creat, CreateCommit, OpenError, Write, Release, ReleaseLeaks, Close, GetFd, handles, history, Chaos
<1>3. hloc[h] \in Tier \X Visible
  BY DEF RequestsOK
<1>4. CASE Write(h)
  <2>1. HasFd(h) /\ UNCHANGED <<raced, clobbered>>
    BY <1>4 DEF Write, HasFd, handles
  <2>2. CASE attached[h]
    <3>1. ASSUME NEW t \in Tier, mpc[t] \in Early, msrc[t] = hloc[h] PROVE Chaos'
      <4>1. Committed(hloc[h])
        BY <3>1 DEF Committed, Early
      <4>2. exposed[h]
        BY <2>1, <4>1 DEF OpenFileSafe, Safe
      <4>. QED BY <2>1, <4>2 DEF Told, Chaos
    <3>. QED BY <1>1, <1>2, <1>3, <1>4, <2>2, <3>1 DEF Write
  <2>3. CASE ~attached[h]
    <3>1. exposed[h]
      BY <2>1, <2>3 DEF OpenFileSafe, Safe
    <3>2. Chaos'
      BY <2>1, <3>1 DEF Told, Chaos
    <3>. QED BY <1>1, <1>2, <1>4, <2>3, <3>2 DEF Write
  <2>. QED BY <2>2, <2>3
<1>5. CASE Creat(h)
  <2>1. ASSUME NEW t \in Tier, mpc[t] \in Early, msrc[t] = hloc[h] PROVE Chaos'
    <3>1. Moving(hloc[h][2])
      BY <2>1 DEF Moving, Early
    <3>. QED BY <1>5, <3>1 DEF Creat, GetFd, Chaos
  <2>2. Store(hloc[h])
    BY <1>5 DEF Creat
  <2>. QED BY <1>1, <1>2, <1>3, <2>1, <2>2
<1>6. CASE ~Write(h) /\ ~Creat(h)
  <2>1. UNCHANGED <<disk, owed, writes>>
    BY <1>6 DEF Request, OpenLookup, CreateLookup, OpenStat, OpenRegister, OpenFd, OpenCommit,
         CreateRegister, CreateCommit, OpenError, Release, ReleaseLeaks, Close, store, history
  <2>. QED BY <1>1, <1>2, <2>1
<1>. QED BY <1>4, <1>5, <1>6
-----------------------------------------------------------------------------
(* Movers keep out of each other's way *)

LEMMA PartsInit == Init => Parts
<1>1. Init => Apart
  BY DEF Init, Apart
<1>2. Init => Present
  BY DEF Init, Present, Crawled, Early, WithTmp
<1>3. Init => OwnTmp
  BY DEF Init, OwnTmp, WithTmp
<1>. QED BY <1>1, <1>2, <1>3 DEF Parts

LEMMA ApartNext == TypeInv /\ Apart /\ [Next]_vars => Apart'
<1>. SUFFICES ASSUME TypeInv, Apart, [Next]_vars PROVE Apart'
  OBVIOUS
<1>. USE DEF TypeInv, TypeOK
<1>1. CASE UNCHANGED <<mpc, msrc, todo>>
  BY <1>1 DEF Apart
<1>2. CASE Plan
  <2>1. PICK dest \in [{l \in Crawled : l[2] \in Movable} -> Tier] :
          todo' = [t \in Tier |-> {l \in DOMAIN dest : dest[l] = t /\ l[1] # t}]
    BY <1>2 DEF Plan
  <2>2. \A t \in Tier : mpc'[t] = "idle"
    BY <1>2 DEF Plan, PassShape, movers
  <2>. QED BY <2>1, <2>2 DEF Apart
<1>3. ASSUME NEW t \in Tier, Check(t) PROVE Apart'
  <2>1. PICK l \in todo[t] :
          /\ todo' = [todo EXCEPT ![t] = @ \ {l}]
          /\ \/ UNCHANGED <<mpc, msrc>>
             \/ mpc' = [mpc EXCEPT ![t] = "copy"] /\ msrc' = [msrc EXCEPT ![t] = l]
    BY <1>3 DEF Check
  <2>2. CASE UNCHANGED <<mpc, msrc>>
    BY <2>1, <2>2 DEF Apart, PassOK
  <2>3. CASE mpc' = [mpc EXCEPT ![t] = "copy"] /\ msrc' = [msrc EXCEPT ![t] = l]
    <3>1. /\ todo'[t] = todo[t] \ {l} /\ \A u \in Tier \ {t} : todo'[u] = todo[u]
          /\ msrc'[t] = l
          /\ \A u \in Tier \ {t} : msrc'[u] = msrc[u] /\ mpc'[u] = mpc[u]
      BY <2>1, <2>3 DEF PassOK, MoversOK
    <3>2. \A u \in Tier : l \notin todo'[u] /\ todo'[u] \subseteq todo[u]
      BY <3>1 DEF Apart
    <3>. QED BY <3>1, <3>2 DEF Apart
  <2>. QED BY <2>1, <2>2, <2>3
<1>4. ASSUME NEW t \in Tier, Mover(t), ~Check(t) PROVE Apart'
  <2>1. UNCHANGED <<msrc, todo>> /\ \A u \in Tier : mpc'[u] # "idle" => mpc[u] # "idle"
    BY <1>4, MoverFrame
  <2>. QED BY <2>1 DEF Apart
<1>5. ASSUME NEW h \in Handle, Request(h) PROVE UNCHANGED <<mpc, msrc, todo>>
  BY <1>5 DEF Request, OpenLookup, CreateLookup, OpenStat, OpenRegister, OpenFd, OpenCommit,
         CreateRegister, Creat, CreateCommit, OpenError, Write, Release, ReleaseLeaks, Close, pass, movers
<1>6. CASE Crash
  BY <1>6 DEF Crash, Apart
<1>. QED BY <1>1, <1>2, <1>3, <1>4, <1>5, <1>6, WorkerFrame DEF Next

\* What a mover's step takes away from the directories: its source, or its temporary.
LEMMA MoverTakes ==
    ASSUME TypeInv, Parts, NEW t \in Tier, Mover(t), NEW l \in Loc,
           disk[l] # Absent, disk'[l] = Absent
    PROVE  (Remove(t) /\ l = msrc[t]) \/ (Rename(t) /\ l = Tmp(t))
<1>. USE DEF TypeInv, TypeOK, StoreOK
<1>1. CASE CopyOpen(t) \/ CopyDone(t)
  BY <1>1, Paths, Markers DEF CopyOpen, CopyDone
<1>2. CASE Remove(t)
  BY <1>2, Paths DEF Remove
<1>3. CASE Rename(t)
  <2>1. disk[Tmp(t)] # Absent
    BY <1>3 DEF Rename, Parts, Present, WithTmp
  <2>. QED BY <1>3, <2>1, Paths DEF Rename
<1>. QED BY <1>1, <1>2, <1>3, MoverDisk

\* Requests take nothing away.
LEMMA RequestTakes ==
    ASSUME TypeInv, NEW h \in Handle, Request(h)
    PROVE  \A l \in Loc : disk[l] # Absent => disk'[l] # Absent
<1>. USE DEF TypeInv, TypeOK
<1>1. CASE UNCHANGED disk
  BY <1>1
<1>2. CASE Store(hloc[h])
  BY <1>2, Markers, Names DEF Store, StoreOK, HistoryOK, RequestsOK, Content
<1>. QED BY <1>1, <1>2 DEF Request, OpenLookup, CreateLookup, OpenStat, OpenRegister, OpenFd,
       OpenCommit, CreateRegister, Creat, CreateCommit, OpenError, Write, Release, ReleaseLeaks, Close, store

LEMMA PresentNext == TypeInv /\ Parts /\ [Next]_vars => Present'
<1>. SUFFICES ASSUME TypeInv, Parts, [Next]_vars PROVE Present'
  OBVIOUS
<1>. USE DEF TypeInv, TypeOK
<1>1. CASE Worker \/ UNCHANGED vars
  <2>1. UNCHANGED <<disk, mpc, msrc>> /\ (Plan \/ UNCHANGED todo)
    BY <1>1, WorkerFrame
  <2>2. \A t \in Tier : /\ mpc'[t] \in Early => disk'[msrc'[t]] # Absent
                        /\ mpc'[t] \in WithTmp => disk'[Tmp(t)'] # Absent
    BY <2>1 DEF Parts, Present, Tmp
  <2>3. \A t \in Tier : \A l \in todo'[t] : disk'[l] # Absent
    <3>1. CASE Plan
      <4>1. PICK dest \in [{l \in Crawled : l[2] \in Movable} -> Tier] :
              todo' = [t \in Tier |-> {l \in DOMAIN dest : dest[l] = t /\ l[1] # t}]
        BY <3>1 DEF Plan
      <4>2. \A t \in Tier : todo'[t] \subseteq Crawled
        BY <4>1
      <4>. QED BY <2>1, <3>1, <4>2 DEF Plan, Parts, Present
    <3>. QED BY <2>1, <3>1 DEF Parts, Present
  <2>4. /\ phase' = "idle" => Crawled' = {}
        /\ phase' = "crawl" => \A l \in Crawled' : disk'[l] # Absent
    <3>1. CASE StartPass \/ Join \/ EndPass \/ UNCHANGED vars
      BY <2>1, <3>1 DEF StartPass, Join, EndPass, Crawled, Parts, Present, vars
    <3>2. CASE Crawl
      <4>1. \A l \in Loc : l \in Crawled' => disk[l] # Absent \/ l \in Crawled
        BY <3>2 DEF Crawl, Crawled
      <4>. QED BY <2>1, <3>2, <4>1 DEF Crawl, Crawled, Parts, Present
    <3>3. CASE Plan \/ UpdateDb
      BY <3>3 DEF Plan, UpdateDb
    <3>. QED BY <1>1, <3>1, <3>2, <3>3 DEF Worker
  <2>. QED BY <2>2, <2>3, <2>4 DEF Present
<1>2. ASSUME NEW t \in Tier, Mover(t) PROVE Present'
  <2>1. phase = "move" /\ phase' = "move"
    BY <1>2, MoverFrame DEF PassShape, Mover, Check, CopyOpen, CopyDone, CopyFail, Remove,
         TestExists, Rename, Record, ChangePath
  <2>2. \A u \in Tier : \A l \in todo'[u] : disk'[l] # Absent
    <3>. SUFFICES ASSUME NEW u \in Tier, NEW l \in todo'[u] PROVE disk'[l] # Absent
      OBVIOUS
    <3>1. l \in todo[u] /\ l \in Loc
      BY <1>2, MoverFrame, Names DEF PassOK
    <3>2. disk[l] # Absent
      BY <3>1 DEF Parts, Present
    <3>3. ~(Remove(t) /\ l = msrc[t])
      BY <3>1 DEF Remove, Parts, Apart
    <3>4. ~(Rename(t) /\ l = Tmp(t))
      BY <3>1 DEF Rename, Parts, OwnTmp, WithTmp
    <3>. QED BY <1>2, <3>1, <3>2, <3>3, <3>4, MoverTakes
  <2>3. ASSUME NEW u \in Tier, mpc'[u] \in Early PROVE disk'[msrc'[u]] # Absent
    <3>1. CASE u # t
      <4>1. mpc[u] \in Early /\ msrc'[u] = msrc[u] /\ msrc[u] \in Loc
        BY <1>2, <2>3, <3>1, MoverFrame, Paths
      <4>2. disk[msrc[u]] # Absent
        BY <4>1 DEF Parts, Present
      <4>3. ~(Remove(t) /\ msrc[u] = msrc[t])
        BY <3>1, <4>1 DEF Remove, Parts, Apart, Early
      <4>4. ~(Rename(t) /\ msrc[u] = Tmp(t))
        BY <4>1 DEF Rename, Parts, OwnTmp, WithTmp
      <4>. QED BY <1>2, <4>1, <4>2, <4>3, <4>4, MoverTakes
    <3>2. CASE u = t /\ Check(t)
      <4>1. PICK l \in todo[t] : mpc'[t] = "idle" \/ msrc'[t] = l
        BY <3>2 DEF Check, MoversOK
      <4>2. disk[l] # Absent /\ disk' = disk
        BY <3>2, <4>1 DEF Check, Parts, Present, store
      <4>. QED BY <2>3, <3>2, <4>1, <4>2 DEF Early
    <3>3. CASE u = t /\ ~Check(t)
      <4>1. CopyOpen(t) \/ CopyDone(t)
        BY <1>2, <2>3, <3>3
        DEF Mover, CopyFail, Remove, TestExists, Rename, Record, ChangePath, Early, MoversOK
      <4>2. msrc' = msrc /\ disk[msrc[t]] # Absent /\ ~Remove(t) /\ ~Rename(t)
        BY <4>1 DEF CopyOpen, CopyDone, Remove, Rename
      <4>. QED BY <1>2, <3>3, <4>2, MoverTakes, Paths
    <3>. QED BY <3>1, <3>2, <3>3
  <2>4. ASSUME NEW u \in Tier, mpc'[u] \in WithTmp PROVE disk'[Tmp(u)'] # Absent
    <3>1. CASE u # t
      <4>1. mpc[u] \in WithTmp /\ Tmp(u)' = Tmp(u) /\ Tmp(u) \in Loc
        BY <1>2, <2>4, <3>1, MoverFrame, Paths
      <4>2. disk[Tmp(u)] # Absent
        BY <4>1 DEF Parts, Present
      <4>3. ~(Remove(t) /\ Tmp(u) = msrc[t])
        BY <4>1 DEF Remove, Parts, OwnTmp, Early
      <4>4. Tmp(u) # Tmp(t)
        BY <3>1 DEF Tmp
      <4>. QED BY <1>2, <4>1, <4>2, <4>3, <4>4, MoverTakes
    <3>2. CASE u = t
      <4>1. msrc' = msrc
        BY <1>2, <2>4, <3>2 DEF Mover, Check, CopyOpen, CopyDone, CopyFail, Remove, TestExists, Rename, Record, ChangePath, WithTmp, MoversOK
      <4>2. CASE CopyOpen(t) \/ CopyDone(t)
        BY <3>2, <4>1, <4>2, Paths, Markers DEF CopyOpen, CopyDone, StoreOK, Tmp
      <4>3. CASE ~(CopyOpen(t) \/ CopyDone(t))
        <5>1. mpc[t] \in WithTmp /\ ~Rename(t)
          BY <1>2, <2>4, <3>2, <4>3
          DEF Mover, Check, CopyFail, Remove, TestExists, Rename, Record, ChangePath, WithTmp, MoversOK
        <5>2. disk[Tmp(t)] # Absent /\ Tmp(t) # msrc[t]
          BY <5>1, OwnPaths DEF Parts, Present, Apart, WithTmp
        <5>. QED BY <1>2, <3>2, <4>1, <5>1, <5>2, MoverTakes, Paths DEF Tmp
      <4>. QED BY <4>2, <4>3
    <3>. QED BY <3>1, <3>2
  <2>. QED BY <2>1, <2>2, <2>3, <2>4 DEF Present
<1>3. ASSUME NEW h \in Handle, Request(h) PROVE Present'
  <2>1. UNCHANGED <<pass, movers>>
    BY <1>3 DEF Request, OpenLookup, CreateLookup, OpenStat, OpenRegister, OpenFd, OpenCommit,
           CreateRegister, Creat, CreateCommit, OpenError, Write, Release, ReleaseLeaks, Close
  <2>2. \A l \in Loc : disk[l] # Absent => disk'[l] # Absent
    BY <1>3, RequestTakes
  <2>3. Crawled' = Crawled /\ \A t \in Tier : todo[t] \subseteq Loc /\ msrc[t] \in Loc /\ Tmp(t) \in Loc
    BY <2>1, Paths, Names DEF Crawled, pass, PassOK
  <2>. QED BY <2>1, <2>2, <2>3 DEF Present, Parts, Crawled, pass, movers, Tmp
<1>4. CASE Crash
  BY <1>4 DEF Crash, Present, Crawled, Early, WithTmp
<1>. QED BY <1>1, <1>2, <1>3, <1>4 DEF Next

LEMMA OwnTmpNext == TypeInv /\ Parts /\ [Next]_vars => OwnTmp'
<1>. SUFFICES ASSUME TypeInv, Parts, [Next]_vars PROVE OwnTmp'
  OBVIOUS
<1>. USE DEF TypeInv, TypeOK
<1>1. CASE UNCHANGED <<mpc, msrc, todo>>
  BY <1>1 DEF Parts, OwnTmp, Tmp
<1>2. CASE Plan
  BY <1>2 DEF Plan, PassShape, movers, OwnTmp, WithTmp
<1>3. ASSUME NEW t \in Tier, Mover(t) PROVE OwnTmp'
  <2>. SUFFICES ASSUME NEW v \in Tier, NEW u \in Tier, mpc'[v] \in WithTmp
                PROVE  /\ Tmp(v)' \notin todo'[u]
                       /\ mpc'[u] \in Early => msrc'[u] # Tmp(v)'
    BY DEF OwnTmp
  <2>1. Tmp(v)' = Tmp(v)
    BY <1>3, MoverFrame DEF WithTmp, Tmp
  <2>2. Tmp(v) \notin todo[u]
    <3>1. CASE mpc[v] \in WithTmp
      BY <3>1 DEF Parts, OwnTmp
    <3>2. CASE mpc[v] \notin WithTmp
      <4>1. v = t /\ CopyOpen(t)
        BY <1>3, <3>2, MoverFrame
        DEF Mover, Check, CopyDone, CopyFail, Remove, TestExists, Rename, Record,
            ChangePath, WithTmp, MoversOK
      <4>. QED BY <4>1 DEF CopyOpen, Parts, Present
    <3>. QED BY <3>1, <3>2
  <2>3. ASSUME mpc'[u] \in Early PROVE msrc'[u] # Tmp(v)
    <3>1. CASE u = t /\ Check(t)
      <4>1. PICK l \in todo[t] : mpc'[t] = "idle" \/ msrc'[t] = l
        BY <3>1 DEF Check, MoversOK
      <4>. QED BY <2>2, <2>3, <3>1, <4>1 DEF Early
    <3>2. CASE ~(u = t /\ Check(t))
      <4>1. msrc'[u] = msrc[u] /\ mpc[u] \in Early
        BY <1>3, <2>3, <3>2, MoverFrame
        DEF Mover, CopyOpen, CopyDone, CopyFail, Remove, TestExists, Rename, Record,
            ChangePath, Early, MoversOK
      <4>2. CASE mpc[v] \in WithTmp
        BY <4>1, <4>2 DEF Parts, OwnTmp
      <4>3. CASE mpc[v] \notin WithTmp
        <5>1. v = t /\ CopyOpen(t)
          BY <1>3, <4>3, MoverFrame
          DEF Mover, Check, CopyDone, CopyFail, Remove, TestExists, Rename, Record,
              ChangePath, WithTmp, MoversOK
        <5>. QED BY <4>1, <5>1 DEF CopyOpen, Parts, Present
      <4>. QED BY <4>2, <4>3
    <3>. QED BY <3>1, <3>2
  <2>. QED BY <1>3, <2>1, <2>2, <2>3, MoverFrame
<1>4. ASSUME NEW h \in Handle, Request(h) PROVE UNCHANGED <<mpc, msrc, todo>>
  BY <1>4 DEF Request, OpenLookup, CreateLookup, OpenStat, OpenRegister, OpenFd, OpenCommit,
         CreateRegister, Creat, CreateCommit, OpenError, Write, Release, ReleaseLeaks, Close, pass, movers
<1>5. CASE Crash
  BY <1>5 DEF Crash, OwnTmp, WithTmp
<1>. QED BY <1>1, <1>2, <1>3, <1>4, <1>5, WorkerFrame DEF Next

LEMMA PartsNext == TypeInv /\ Parts /\ [Next]_vars => Parts'
BY ApartNext, PresentNext, OwnTmpNext DEF Parts
-----------------------------------------------------------------------------
(* Data are kept *)

Base == SafeInv /\ Parts /\ Told

LEMMA ToldNext == TypeInv /\ Told /\ [Next]_vars => Told'
<1>. SUFFICES ASSUME TypeInv, Told, [Next]_vars, NEW h \in Handle, exposed'[h]
              PROVE  raced'
  BY DEF Told
<1>. USE DEF TypeInv, TypeOK, RequestsOK
<1>1. CASE UNCHANGED <<exposed, raced>>
  BY <1>1 DEF Told
<1>2. ASSUME NEW t \in Tier, Mover(t) PROVE UNCHANGED <<exposed, raced>>
  BY <1>2, MoverFrame
<1>3. ASSUME NEW g \in Handle, Request(g) PROVE raced'
  <2>1. CASE OpenFd(g) \/ Creat(g)
    <3>1. exposed' = [exposed EXCEPT ![g] = Committed(hloc[g])]
      BY <2>1 DEF OpenFd, Creat, GetFd
    <3>2. raced' = (raced \/ Moving(hloc[g][2]))
      BY <2>1 DEF OpenFd, Creat, GetFd
    <3>3. CASE h = g
      <4>1. Committed(hloc[g])
        BY <3>1, <3>3
      <4>2. Moving(hloc[g][2])
        BY <4>1 DEF Committed, Moving, Target
      <4>. QED BY <3>2, <4>2
    <3>4. CASE h # g
      BY <3>1, <3>2, <3>4 DEF Told
    <3>. QED BY <3>3, <3>4
  <2>2. CASE ~(OpenFd(g) \/ Creat(g))
    <3>1. raced => raced'
      BY <1>3, <2>2 DEF Request, OpenLookup, CreateLookup, OpenStat, OpenRegister, OpenCommit,
         CreateRegister, CreateCommit, OpenError, Write, Release, ReleaseLeaks, Close, handles
    <3>2. exposed[h]
      BY <1>3, <2>2 DEF Request, OpenLookup, CreateLookup, OpenStat, OpenRegister, OpenCommit,
         CreateRegister, CreateCommit, OpenError, Write, Release, ReleaseLeaks, Close, handles
    <3>. QED BY <3>1, <3>2 DEF Told
  <2>. QED BY <2>1, <2>2
<1>4. CASE Crash
  BY <1>4 DEF Crash
<1>. QED BY <1>1, <1>2, <1>3, <1>4, WorkerFrame DEF Next

LEMMA BaseInit == Init => Base
<1>1. Init => Told
  BY DEF Init, Told
<1>. QED BY <1>1, TypeInit, CountInit, SafeInit, PartsInit DEF Base, SafeInv

LEMMA BaseNext == Base /\ [Next]_vars => Base'
BY TypeNext, CountNext, SafeNext, PartsNext, ToldNext DEF Base, SafeInv

\* A temporary in use is its mover's alone.
LEMMA TmpStays ==
    ASSUME Base, NEW u \in Tier, mpc[u] \in WithTmp
    PROVE  /\ \A t \in Tier \ {u} : Mover(t) => disk'[Tmp(u)] = disk[Tmp(u)]
           /\ \A h \in Handle : Request(h) => disk'[Tmp(u)] = disk[Tmp(u)]
<1>. USE DEF Base, SafeInv, TypeInv, TypeOK, StoreOK
<1>0. Tmp(u) \in Loc /\ Tmp(u)[1] = u /\ Tmp(u) \notin Public
  BY OwnPaths
<1>1. ASSUME NEW t \in Tier \ {u}, Mover(t) PROVE disk'[Tmp(u)] = disk[Tmp(u)]
  <2>1. Tmp(t) # Tmp(u) /\ RenameTo(t) # Tmp(u)
    BY <1>0, OwnPaths
  <2>2. CASE CopyOpen(t) \/ CopyDone(t)
    BY <1>0, <2>1, <2>2 DEF CopyOpen, CopyDone
  <2>3. CASE Remove(t)
    <3>1. msrc[t] # Tmp(u)
      BY <2>3 DEF Remove, Parts, OwnTmp, Early
    <3>. QED BY <1>0, <2>3, <3>1 DEF Remove
  <2>4. CASE Rename(t)
    BY <1>0, <2>1, <2>4 DEF Rename
  <2>. QED BY <1>1, <2>2, <2>3, <2>4, MoverDisk
<1>2. ASSUME NEW h \in Handle, Request(h) PROVE disk'[Tmp(u)] = disk[Tmp(u)]
  <2>1. UNCHANGED disk \/ (Store(hloc[h]) /\ hloc[h] \in Tier \X Visible)
    BY <1>2, RequestFrame
  <2>2. hloc[h] \in Tier \X Visible => hloc[h] # Tmp(u)
    BY <1>0, PublicPlaces
  <2>. QED BY <1>0, <2>1, <2>2 DEF Store
<1>. QED BY <1>1, <1>2

LEMMA CopiesNext == Base /\ Copies /\ [Next]_vars => Copies'
<1>. SUFFICES ASSUME Base, Copies, [Next]_vars PROVE Copies'
  OBVIOUS
<1>. USE DEF Base, SafeInv, TypeInv, TypeOK
<1>1. CASE UNCHANGED <<disk, mpc, msrc>>
  BY <1>1 DEF Copies, Tmp
<1>2. ASSUME NEW t \in Tier, Mover(t) PROVE Copies'
  <2>1. ASSUME NEW u \in Tier \ {t}
        PROVE  /\ mpc'[u] = "copying" => disk'[Tmp(u)'] = Partial
               /\ mpc'[u] \in Copied /\ msrc'[u][2] \in PublicName
                     => disk'[Tmp(u)'] \in Content
    <3>1. mpc'[u] = mpc[u] /\ msrc'[u] = msrc[u] /\ Tmp(u)' = Tmp(u)
      BY <1>2, MoverFrame
    <3>2. mpc[u] \in WithTmp => disk'[Tmp(u)] = disk[Tmp(u)]
      BY <1>2, TmpStays
    <3>. QED BY <3>1, <3>2 DEF Copies, WithTmp, Copied
  <2>2. /\ mpc'[t] = "copying" => disk'[Tmp(t)'] = Partial
        /\ mpc'[t] \in Copied /\ msrc'[t][2] \in PublicName => disk'[Tmp(t)'] \in Content
    <3>1. CASE CopyOpen(t)
      BY <3>1, Paths DEF CopyOpen, Tmp, StoreOK, MoversOK, Copied
    <3>2. CASE CopyDone(t)
      <4>1. msrc[t][2] \in PublicName => msrc[t] \in Public
        BY Paths DEF Public, MoversOK
      <4>2. msrc[t][2] \in PublicName => disk[msrc[t]] \in Content
        BY <3>2, <4>1, Paths DEF CopyDone, Copies, StoreOK
      <4>. QED BY <3>2, <4>2, Paths DEF CopyDone, Tmp, StoreOK, MoversOK, Copied
    <3>3. CASE Remove(t)
      <4>1. Tmp(t) # msrc[t]
        BY <3>3, OwnPaths DEF Remove, Parts, Apart
      <4>. QED BY <3>3, <4>1, Paths DEF Remove, Tmp, StoreOK, MoversOK, Copied, Copies
    <3>4. CASE TestExists(t)
      BY <3>4 DEF TestExists, Tmp, MoversOK, Copied, Copies, store
    <3>5. CASE Check(t) \/ CopyFail(t) \/ Rename(t) \/ Record(t) \/ ChangePath(t)
      <4>1. mpc'[t] \in {"idle", "copy", "record", "change"}
        BY <3>5 DEF Check, CopyFail, Rename, Record, ChangePath, MoversOK
      <4>. QED BY <4>1 DEF Copied
    <3>. QED BY <1>2, <3>1, <3>2, <3>3, <3>4, <3>5 DEF Mover
  <2>3. ASSUME NEW l \in Public PROVE disk'[l] # Partial
    <3>0. l \in Loc /\ l # Tmp(t) /\ disk[l] # Partial
      BY PublicPlaces, OwnPaths DEF Copies
    <3>1. CASE CopyOpen(t) \/ CopyDone(t)
      BY <3>0, <3>1 DEF CopyOpen, CopyDone, StoreOK
    <3>2. CASE Remove(t)
      BY <3>0, <3>2, Markers DEF Remove, StoreOK
    <3>3. CASE Rename(t)
      <4>1. l = RenameTo(t) => disk[Tmp(t)] \in Content
        BY <3>3, OwnPaths DEF Rename, Copies, Copied
      <4>. QED BY <3>0, <3>3, <4>1, Markers, Paths DEF Rename, StoreOK
    <3>. QED BY <1>2, <3>0, <3>1, <3>2, <3>3, MoverDisk
  <2>. QED BY <2>1, <2>2, <2>3 DEF Copies
<1>3. ASSUME NEW h \in Handle, Request(h) PROVE Copies'
  <2>1. UNCHANGED <<mpc, msrc>>
    BY <1>3, RequestFrame DEF movers
  <2>2. \A t \in Tier : mpc[t] \in WithTmp => disk'[Tmp(t)] = disk[Tmp(t)]
    BY <1>3, TmpStays
  <2>3. \A l \in Public : disk'[l] # Partial
    <3>1. UNCHANGED disk \/ (Store(hloc[h]) /\ hloc[h] \in Tier \X Visible)
      BY <1>3, RequestFrame
    <3>2. Store(hloc[h]) /\ hloc[h] \in Tier \X Visible => <<hloc[h], writes + 1>> \in Content
      BY Names DEF Content, HistoryOK
    <3>. QED BY <3>1, <3>2, Markers, PublicPlaces DEF Store, StoreOK, Copies
  <2>. QED BY <2>1, <2>2, <2>3 DEF Copies, Tmp, WithTmp, Copied
<1>4. CASE Crash
  BY <1>4 DEF Crash, Copies, Copied, store
<1>. QED BY <1>1, <1>2, <1>3, <1>4, WorkerFrame DEF Next

LEMMA WholeNext == Base /\ Whole /\ [Next]_vars => Whole'
<1>. SUFFICES ASSUME Base, Whole, [Next]_vars, ~Chaos', NEW u \in Tier, mpc'[u] = "remove"
              PROVE  disk'[Tmp(u)'] = disk'[msrc'[u]]
  BY DEF Whole
<1>. USE DEF Base, SafeInv, TypeInv, TypeOK
<1>1. CASE UNCHANGED <<disk, mpc, msrc, raced, clobbered>>
  BY <1>1 DEF Whole, Tmp, Chaos
<1>2. ASSUME NEW t \in Tier, Mover(t) PROVE disk'[Tmp(u)'] = disk'[msrc'[u]]
  <2>1. CASE u = t
    <3>1. CopyDone(t)
      BY <1>2, <2>1
      DEF Mover, Check, CopyOpen, CopyFail, Remove, TestExists, Rename, Record, ChangePath,
          MoversOK
    <3>2. Tmp(t) # msrc[t]
      BY <3>1, OwnPaths DEF CopyDone, Parts, Apart
    <3>. QED BY <2>1, <3>1, <3>2, Paths DEF CopyDone, Tmp, StoreOK
  <2>2. CASE u # t
    <3>1. /\ mpc[u] = "remove" /\ msrc'[u] = msrc[u] /\ Tmp(u)' = Tmp(u) /\ ~Chaos
          /\ msrc[u] \in Loc
      BY <1>2, <2>2, MoverFrame, Paths DEF Chaos
    <3>2. disk[Tmp(u)] = disk[msrc[u]] /\ disk'[Tmp(u)] = disk[Tmp(u)]
      BY <1>2, <2>2, <3>1, TmpStays DEF Whole, WithTmp
    <3>3. disk[msrc[u]] # Absent
      BY <3>1 DEF Parts, Present, Early
    <3>4. CASE CopyOpen(t)
      <4>1. Tmp(t) # msrc[u]
        BY <3>3, <3>4 DEF CopyOpen
      <4>. QED BY <3>1, <3>2, <3>4, <4>1 DEF CopyOpen, StoreOK
    <3>5. CASE CopyDone(t)
      <4>1. Tmp(t) # msrc[u]
        BY <3>1, <3>5 DEF CopyDone, Parts, OwnTmp, WithTmp, Early
      <4>. QED BY <3>1, <3>2, <3>5, <4>1 DEF CopyDone, StoreOK
    <3>6. CASE Remove(t)
      <4>1. msrc[t] # msrc[u]
        BY <2>2, <3>1, <3>6 DEF Remove, Parts, Apart
      <4>. QED BY <3>1, <3>2, <3>6, <4>1 DEF Remove, StoreOK
    <3>7. CASE Rename(t)
      <4>1. Tmp(t) # msrc[u]
        BY <3>1, <3>7 DEF Rename, Parts, OwnTmp, WithTmp, Early
      <4>2. RenameTo(t) # msrc[u]
        BY <3>3, <3>7 DEF Rename, Chaos
      <4>. QED BY <3>1, <3>2, <3>7, <4>1, <4>2 DEF Rename, StoreOK
    <3>. QED BY <1>2, <3>1, <3>2, <3>4, <3>5, <3>6, <3>7, MoverDisk
  <2>. QED BY <2>1, <2>2
<1>3. ASSUME NEW h \in Handle, Request(h) PROVE disk'[Tmp(u)'] = disk'[msrc'[u]]
  <2>1. UNCHANGED <<mpc, msrc>> /\ ~Chaos
    BY <1>3, RequestFrame DEF movers
  <2>2. disk[Tmp(u)] = disk[msrc[u]] /\ disk'[Tmp(u)] = disk[Tmp(u)] /\ msrc[u] \in Loc
    BY <1>3, <2>1, TmpStays, Paths DEF Whole, WithTmp
  <2>3. UNCHANGED disk \/ (Store(hloc[h]) /\ msrc[u] # hloc[h])
    BY <1>3, <2>1, RequestFrame DEF Early
  <2>. QED BY <2>1, <2>2, <2>3 DEF Store, StoreOK, Tmp
<1>4. CASE Crash
  BY <1>4 DEF Crash
<1>. QED BY <1>1, <1>2, <1>3, <1>4, WorkerFrame DEF Next

LEMMA SurvivesNext == Base /\ Copies /\ Whole /\ DataSurvives /\ [Next]_vars => DataSurvives'
<1>. SUFFICES ASSUME Base, Copies, Whole, DataSurvives, [Next]_vars, ~Chaos', NEW c \in owed'
              PROVE  \E l \in Loc : disk'[l] = c
  BY DEF DataSurvives, Chaos, OnDisk
<1>. USE DEF Base, SafeInv, TypeInv, TypeOK
<1>1. ASSUME ~Chaos, c \in owed PROVE \E l \in Loc : disk[l] = c /\ c \notin {Absent, Partial}
  BY <1>1, Markers DEF DataSurvives, Chaos, OnDisk, HistoryOK
<1>2. CASE UNCHANGED <<disk, owed, raced, clobbered>>
  BY <1>1, <1>2 DEF Chaos
<1>3. ASSUME NEW t \in Tier, Mover(t) PROVE \E l \in Loc : disk'[l] = c
  <2>1. ~Chaos /\ c \in owed
    BY <1>3, MoverFrame DEF Chaos
  <2>2. PICK l \in Loc : disk[l] = c /\ c \notin {Absent, Partial}
    BY <1>1, <2>1
  <2>3. CASE CopyOpen(t)
    BY <2>2, <2>3 DEF CopyOpen, StoreOK
  <2>4. CASE CopyDone(t)
    <3>1. disk[Tmp(t)] = Partial
      BY <2>4 DEF CopyDone, Copies
    <3>. QED BY <2>2, <2>4, <3>1 DEF CopyDone, StoreOK
  <2>5. CASE Remove(t)
    <3>1. disk[Tmp(t)] = disk[msrc[t]] /\ Tmp(t) # msrc[t] /\ Tmp(t) \in Loc
      BY <2>1, <2>5, OwnPaths DEF Remove, Whole, Parts, Apart
    <3>2. CASE l = msrc[t]
      BY <2>2, <2>5, <3>1, <3>2 DEF Remove, StoreOK
    <3>3. CASE l # msrc[t]
      BY <2>2, <2>5, <3>3 DEF Remove, StoreOK
    <3>. QED BY <3>2, <3>3
  <2>6. CASE Rename(t)
    <3>1. RenameTo(t) # Tmp(t) /\ RenameTo(t) \in Loc
      BY OwnPaths
    <3>2. l # RenameTo(t)
      BY <2>2, <2>6 DEF Rename, Chaos
    <3>3. CASE l = Tmp(t)
      BY <2>2, <2>6, <3>1, <3>3 DEF Rename, StoreOK
    <3>4. CASE l # Tmp(t)
      BY <2>2, <2>6, <3>2, <3>4 DEF Rename, StoreOK
    <3>. QED BY <3>3, <3>4
  <2>. QED BY <1>3, <2>2, <2>3, <2>4, <2>5, <2>6, MoverDisk
<1>4. ASSUME NEW h \in Handle, Request(h) PROVE \E l \in Loc : disk'[l] = c
  <2>0. ~Chaos
    BY <1>4, RequestFrame
  <2>1. CASE UNCHANGED <<disk, owed, writes>>
    BY <1>1, <2>0, <2>1
  <2>2. CASE Store(hloc[h]) /\ hloc[h] \in Tier \X Visible
    <3>1. hloc[h] \in Loc /\ disk' = [disk EXCEPT ![hloc[h]] = <<hloc[h], writes + 1>>]
          /\ owed' = (owed \ {disk[hloc[h]]}) \cup {<<hloc[h], writes + 1>>}
      BY <2>2, Names DEF Store
    <3>2. CASE c = <<hloc[h], writes + 1>>
      BY <3>1, <3>2 DEF StoreOK
    <3>3. CASE c # <<hloc[h], writes + 1>>
      <4>1. PICK l \in Loc : disk[l] = c
        BY <1>1, <2>0, <3>1, <3>3
      <4>2. l # hloc[h]
        BY <3>1, <3>3, <4>1
      <4>. QED BY <3>1, <4>1, <4>2 DEF StoreOK
    <3>. QED BY <3>2, <3>3
  <2>. QED BY <1>4, <2>1, <2>2, RequestFrame
<1>5. CASE Crash
  BY <1>1, <1>5 DEF Crash, Chaos, store
<1>. QED BY <1>2, <1>3, <1>4, <1>5, WorkerFrame DEF Next

DataInv == Base /\ Copies /\ Whole /\ DataSurvives

LEMMA DataInit == Init => DataInv
<1>. SUFFICES ASSUME Init PROVE DataInv
  OBVIOUS
<1>1. PICK S \in SUBSET (Tier \X Visible) :
        /\ disk = [l \in Loc |-> IF l \in S THEN <<l, 0>> ELSE Absent]
        /\ owed = {<<l, 0>> : l \in S}
  BY DEF Init
<1>2. Copies
  BY PublicPlaces, Markers, <1>1 DEF Init, Copies, Copied, Content
<1>3. Whole
  BY DEF Init, Whole
<1>4. DataSurvives
  BY <1>1, Names DEF DataSurvives, OnDisk
<1>. QED BY <1>2, <1>3, <1>4, BaseInit DEF DataInv

LEMMA DataNext == DataInv /\ [Next]_vars => DataInv'
BY BaseNext, CopiesNext, WholeNext, SurvivesNext DEF DataInv

\* Moving loses nothing: after failed copies, crashes, leftovers and collisions the
\* contents that applications stored last are still in some backend directory, for any
\* number of tiers, files and requests, as long as no request fell into a move.
THEOREM DataKept == Spec => []DataSurvives
<1>1. DataInv => DataSurvives
  BY DEF DataInv
<1>. QED BY <1>1, DataInit, DataNext, PTL DEF Spec

\* No name that applications use ever shows an unfinished copy: a copy gets a name only
\* after the copy loop has reached its end.
THEOREM NoPartialSeen == Spec => []NoPartialFile
<1>1. DataInv => NoPartialFile
  BY PublicPlaces DEF DataInv, Copies, NoPartialFile
<1>. QED BY <1>1, DataInit, DataNext, PTL DEF Spec

\* Between the removal of the source and the rename of the temporary the temporary is
\* whole, also after a mover of another tier or the next crawl has met it.
THEOREM OnlyCopySafe == Spec => []OnlyCopyIsWhole
<1>1. DataInv => OnlyCopyIsWhole
  BY Names DEF DataInv, Copies, OnlyCopyIsWhole, Copied, PublicName
<1>. QED BY <1>1, DataInit, DataNext, PTL DEF Spec
-----------------------------------------------------------------------------
(* TierMigration implements Relocation *)

LEMMA NumberedNext == TypeInv /\ OpenFileSafe /\ Told /\ Numbered /\ [Next]_vars => Numbered'
<1>. SUFFICES ASSUME TypeInv, OpenFileSafe, Told, Numbered, [Next]_vars PROVE Numbered'
  OBVIOUS
<1>. USE DEF TypeInv, TypeOK
<1>0. writes \in Nat
  BY Bounds DEF HistoryOK
<1>1. CASE UNCHANGED <<disk, owed, writes>>
  BY <1>1 DEF Numbered
<1>2. ASSUME NEW t \in Tier, Mover(t) PROVE Numbered'
  <2>1. UNCHANGED <<owed, writes>>
    BY <1>2, MoverFrame
  <2>2. ASSUME NEW l \in Loc, disk'[l] \in Content
        PROVE  \E k \in Loc : disk'[l] = disk[k]
    BY <1>2, <2>2, MoverDisk, Paths, Markers
    DEF CopyOpen, CopyDone, Remove, Rename, StoreOK
  <2>. QED BY <2>1, <2>2 DEF Numbered
<1>3. ASSUME NEW h \in Handle, Request(h) PROVE Numbered'
  <2>1. CASE UNCHANGED <<disk, owed, writes>>
    BY <1>1, <2>1
  <2>2. CASE /\ UNCHANGED disk /\ writes' = writes + 1
             /\ owed' = owed \cup {<<hloc[h], writes + 1>>}
    BY <1>0, <2>2 DEF Numbered, HistoryOK, Content, StoreOK
  <2>3. CASE Store(hloc[h]) /\ hloc[h] \in Tier \X Visible
    <3>1. hloc[h] \in Loc /\ disk' = [disk EXCEPT ![hloc[h]] = <<hloc[h], writes + 1>>]
          /\ owed' = (owed \ {disk[hloc[h]]}) \cup {<<hloc[h], writes + 1>>}
          /\ writes' = writes + 1
      BY <2>3, Names DEF Store
    <3>2. \A c \in Content : c[2] \in Nat
      BY DEF Content
    <3>3. \A l \in Loc : disk'[l] \in Content => disk'[l][2] <= writes'
      BY <1>0, <3>1, <3>2 DEF Numbered, StoreOK
    <3>4. \A c \in owed' : c[2] <= writes'
      BY <1>0, <3>1, <3>2 DEF Numbered, HistoryOK
    <3>. QED BY <3>3, <3>4 DEF Numbered
  <2>. QED BY <1>3, <2>1, <2>2, <2>3, RequestFrame
<1>4. CASE Crash
  BY <1>4 DEF Crash, Numbered, store
<1>. QED BY <1>1, <1>2, <1>3, <1>4, WorkerFrame DEF Next

\* Files that only change place stay apart.
LEMMA SingleMoves ==
    ASSUME Single, ~Chaos, owed' = owed, NEW f \in [Loc -> Loc],
           \A l \in Loc : Live(l)' /\ disk'[l] # Absent => Live(f[l]) /\ disk[f[l]] = disk'[l],
           \A l, k \in Loc : disk'[l] # Absent /\ disk'[k] # Absent /\ f[l] = f[k] => l = k
    PROVE  Single'
<1>1. \A l \in Loc : f[l] \in Loc
  OBVIOUS
<1>2. ASSUME NEW l \in Loc, Live(l)', disk'[l] # Absent PROVE disk'[l] \in owed'
  BY <1>1, <1>2 DEF Single
<1>3. ASSUME NEW l \in Loc, NEW k \in Loc, Live(l)', Live(k)', disk'[l] # Absent,
             disk'[l] = disk'[k]
      PROVE  l = k
  <2>1. Live(f[l]) /\ Live(f[k]) /\ disk[f[l]] # Absent /\ disk[f[l]] = disk[f[k]]
    BY <1>3
  <2>2. f[l] = f[k]
    BY <1>1, <2>1 DEF Single
  <2>. QED BY <1>3, <2>2
<1>. QED BY <1>2, <1>3 DEF Single

LEMMA SingleNext ==
    ASSUME DataInv, Numbered, Single, [Next]_vars PROVE Single'
<1>. USE DEF DataInv, Base, SafeInv, TypeInv, TypeOK
<1>. SUFFICES ASSUME ~Chaos' PROVE Single'
  BY DEF Single
<1>1. CASE UNCHANGED <<disk, owed, mpc, msrc, raced, clobbered>>
  BY <1>1 DEF Single, Live, Tmp, Chaos
<1>2. ASSUME NEW t \in Tier, Mover(t) PROVE Single'
  <2>0. ~Chaos /\ owed' = owed
    BY <1>2, MoverFrame DEF Chaos
  <2>1. ASSUME NEW l \in Loc, Live(l)', l # Tmp(t) PROVE Live(l)
    <3>1. CASE l \in Public
      BY <3>1 DEF Live
    <3>2. CASE l \notin Public
      <4>1. PICK u \in Tier : /\ mpc'[u] \in {"exists", "rename"}
                              /\ msrc'[u][2] \in PublicName /\ l = Tmp(u)'
        BY <2>1, <3>2 DEF Live
      <4>2. CASE u # t
        <5>1. mpc'[u] = mpc[u] /\ msrc'[u] = msrc[u] /\ Tmp(u)' = Tmp(u)
          BY <1>2, <4>2, MoverFrame
        <5>. QED BY <4>1, <5>1 DEF Live
      <4>3. CASE u = t
        <5>1. msrc' = msrc
          BY <1>2, <4>1, <4>3, MoverFrame
        <5>. QED BY <2>1, <4>1, <4>3, <5>1 DEF Tmp
      <4>. QED BY <4>2, <4>3
    <3>. QED BY <3>1, <3>2
  <2>2. CASE Remove(t)
    <3>. DEFINE f == [l \in Loc |-> IF l = Tmp(t) THEN msrc[t] ELSE l]
    <3>1. /\ msrc[t] \in Loc /\ Tmp(t) \in Loc /\ Tmp(t) # msrc[t]
          /\ disk[Tmp(t)] = disk[msrc[t]] /\ Tmp(t)' = Tmp(t) /\ msrc' = msrc
      BY <2>0, <2>2, OwnPaths, Paths DEF Remove, Whole, Parts, Apart, Tmp
    <3>2. disk'[msrc[t]] = Absent /\ \A l \in Loc \ {msrc[t]} : disk'[l] = disk[l]
      BY <2>2, <3>1 DEF Remove, StoreOK
    <3>3. Live(Tmp(t))' => msrc[t] \in Public
      <4>1. ASSUME Live(Tmp(t))' PROVE msrc[t][2] \in PublicName
        <5>1. PICK u \in Tier : msrc'[u][2] \in PublicName /\ Tmp(t) = Tmp(u)'
          BY <3>1, <4>1, OwnPaths DEF Live
        <5>2. u = t
          BY <5>1 DEF Tmp
        <5>. QED BY <3>1, <5>1, <5>2
      <4>2. msrc[t][2] \in PublicName => msrc[t] \in Public
        BY DEF Public, MoversOK
      <4>. QED BY <4>1, <4>2
    <3>4. \A l \in Loc : Live(l)' /\ disk'[l] # Absent => Live(f[l]) /\ disk[f[l]] = disk'[l]
      <4>. TAKE l \in Loc
      <4>1. CASE l = Tmp(t)
        BY <3>1, <3>2, <3>3, <4>1 DEF Live
      <4>2. CASE l # Tmp(t)
        BY <2>1, <3>1, <3>2, <4>2
      <4>. QED BY <4>1, <4>2
    <3>5. \A l, k \in Loc : disk'[l] # Absent /\ disk'[k] # Absent /\ f[l] = f[k] => l = k
      BY <3>1, <3>2
    <3>6. f \in [Loc -> Loc]
      BY <3>1
    <3>. HIDE DEF f
    <3>. QED BY <2>0, <3>4, <3>5, <3>6, SingleMoves
  <2>3. CASE Rename(t)
    <3>. DEFINE f == [l \in Loc |-> IF l = RenameTo(t) THEN Tmp(t) ELSE l]
    <3>1. /\ RenameTo(t) \in Loc /\ Tmp(t) \in Loc /\ Tmp(t) # RenameTo(t)
          /\ RenameTo(t) \in Public => msrc[t][2] \in PublicName
      BY OwnPaths
    <3>2. /\ disk'[RenameTo(t)] = disk[Tmp(t)] /\ disk'[Tmp(t)] = Absent
          /\ \A l \in Loc \ {RenameTo(t), Tmp(t)} : disk'[l] = disk[l]
      BY <2>3, <3>1 DEF Rename, StoreOK
    <3>3. ASSUME NEW l \in Loc, l = RenameTo(t), Live(l)' PROVE Live(Tmp(t))
      <4>1. l \in Public
        <5>1. ASSUME NEW u \in Tier, l = Tmp(u)', mpc'[u] \in {"exists", "rename"}
              PROVE  FALSE
          <6>1. u = t
            <7>1. RenameTo(t)[1] = t
              BY OwnPaths
            <7>2. Tmp(u)'[1] = u
              BY DEF Tmp
            <7>. QED BY <3>3, <5>1, <7>1, <7>2
          <6>. QED BY <2>3, <5>1, <6>1 DEF Rename, MoversOK
        <5>. QED BY <3>3, <5>1 DEF Live
      <4>2. msrc[t][2] \in PublicName => Live(Tmp(t))
        BY <2>3 DEF Live, Rename
      <4>. QED BY <3>1, <3>3, <4>1, <4>2
    <3>4. \A l \in Loc : Live(l)' /\ disk'[l] # Absent => Live(f[l]) /\ disk[f[l]] = disk'[l]
      <4>. TAKE l \in Loc
      <4>1. CASE l = RenameTo(t)
        BY <3>1, <3>2, <3>3, <4>1
      <4>2. CASE l # RenameTo(t)
        BY <2>1, <3>1, <3>2, <4>2
      <4>. QED BY <4>1, <4>2
    <3>5. \A l, k \in Loc : disk'[l] # Absent /\ disk'[k] # Absent /\ f[l] = f[k] => l = k
      BY <3>1, <3>2
    <3>6. f \in [Loc -> Loc]
      BY <3>1
    <3>. HIDE DEF f
    <3>. QED BY <2>0, <3>4, <3>5, <3>6, SingleMoves
  <2>4. CASE ~Remove(t) /\ ~Rename(t)
    <3>. DEFINE f == [l \in Loc |-> l]
    <3>1. \A l \in Loc : Live(l)' => Live(l) /\ disk'[l] = disk[l]
      <4>. TAKE l \in Loc
      <4>1. CASE l # Tmp(t)
        <5>1. disk'[l] = disk[l]
          BY <1>2, <2>4, <4>1, MoverDisk DEF CopyOpen, CopyDone, StoreOK
        <5>. QED BY <2>1, <4>1, <5>1
      <4>2. CASE l = Tmp(t)
        <5>. SUFFICES ASSUME Live(l)' PROVE Live(l) /\ disk'[l] = disk[l]
          OBVIOUS
        <5>1. l \notin Public /\ l[1] = t
          BY <4>2, OwnPaths
        <5>2. PICK u \in Tier : /\ mpc'[u] \in {"exists", "rename"}
                                /\ msrc'[u][2] \in PublicName /\ l = Tmp(u)'
          BY <5>1 DEF Live
        <5>3. u = t
          BY <5>1, <5>2 DEF Tmp
        <5>4. TestExists(t)
          BY <1>2, <2>4, <5>2, <5>3
          DEF Mover, Check, CopyOpen, CopyDone, CopyFail, Record, ChangePath, MoversOK
        <5>. QED BY <4>2, <5>2, <5>3, <5>4 DEF TestExists, store, Live
      <4>. QED BY <4>1, <4>2
    <3>2. f \in [Loc -> Loc] /\ \A l \in Loc : f[l] = l
      OBVIOUS
    <3>. HIDE DEF f
    <3>3. \A l \in Loc : Live(l)' /\ disk'[l] # Absent => Live(f[l]) /\ disk[f[l]] = disk'[l]
      BY <3>1, <3>2
    <3>. QED BY <2>0, <3>2, <3>3, SingleMoves
  <2>. QED BY <2>2, <2>3, <2>4
<1>3. ASSUME NEW h \in Handle, Request(h) PROVE Single'
  <2>1. ~Chaos /\ UNCHANGED <<mpc, msrc>>
    BY <1>3, RequestFrame DEF movers
  <2>2. \A l \in Loc : Live(l)' <=> Live(l)
    BY <2>1 DEF Live, Tmp
  <2>3. CASE UNCHANGED <<disk, owed, writes>>
    BY <2>1, <2>2, <2>3 DEF Single
  <2>4. CASE Store(hloc[h]) /\ hloc[h] \in Tier \X Visible
    <3>. DEFINE new == <<hloc[h], writes + 1>>
    <3>1. /\ hloc[h] \in Loc /\ Live(hloc[h])
          /\ disk' = [disk EXCEPT ![hloc[h]] = new]
          /\ owed' = (owed \ {disk[hloc[h]]}) \cup {new}
      BY <2>4, PublicPlaces DEF Store, Live
    <3>2. new \in Content /\ \A l \in Loc : disk[l] # new
      <4>1. new \in Content /\ writes \in Nat /\ new[2] = writes + 1
        BY <3>1, Bounds DEF Content, HistoryOK
      <4>. QED BY <4>1 DEF Numbered
    <3>. HIDE DEF new
    <3>3. disk'[hloc[h]] = new /\ \A l \in Loc \ {hloc[h]} : disk'[l] = disk[l]
      BY <3>1 DEF StoreOK
    <3>4. ASSUME NEW l \in Loc, Live(l), disk'[l] # Absent PROVE disk'[l] \in owed'
      <4>1. CASE l = hloc[h]
        BY <3>1, <3>3, <4>1
      <4>2. CASE l # hloc[h]
        <5>1. disk'[l] = disk[l] /\ disk[l] \in owed
          BY <2>1, <3>3, <3>4, <4>2 DEF Single
        <5>2. disk[l] # disk[hloc[h]]
          BY <2>1, <3>1, <3>3, <3>4, <4>2 DEF Single
        <5>. QED BY <3>1, <5>1, <5>2
      <4>. QED BY <4>1, <4>2
    <3>5. ASSUME NEW l \in Loc, NEW k \in Loc, Live(l), Live(k), disk'[l] # Absent,
                 disk'[l] = disk'[k]
          PROVE  l = k
      <4>1. CASE l = hloc[h] \/ k = hloc[h]
        BY <3>2, <3>3, <3>5, <4>1
      <4>2. CASE l # hloc[h] /\ k # hloc[h]
        BY <2>1, <3>3, <3>5, <4>2 DEF Single
      <4>. QED BY <4>1, <4>2
    <3>. QED BY <2>2, <3>4, <3>5 DEF Single
  <2>. QED BY <1>3, <2>3, <2>4, RequestFrame
<1>4. CASE Crash
  <2>1. ~Chaos /\ UNCHANGED <<disk, owed>> /\ \A l : Live(l)' => Live(l)
    BY <1>4 DEF Crash, Chaos, Live, store
  <2>. QED BY <2>1 DEF Single
<1>. QED BY <1>1, <1>2, <1>3, <1>4, WorkerFrame DEF Next

RelocationInv == DataInv /\ Numbered /\ Single

LEMMA RelocationInit == Init => RelocationInv
<1>. SUFFICES ASSUME Init PROVE RelocationInv
  OBVIOUS
<1>1. PICK S \in SUBSET (Tier \X Visible) :
        /\ disk = [l \in Loc |-> IF l \in S THEN <<l, 0>> ELSE Absent]
        /\ owed = {<<l, 0>> : l \in S}
  BY DEF Init
<1>2. Numbered
  BY <1>1, Markers DEF Init, Numbered
<1>3. Single
  BY <1>1 DEF Single
<1>. QED BY <1>2, <1>3, DataInit DEF RelocationInv

LEMMA RelocationNext == RelocationInv /\ [Next]_vars => RelocationInv'
<1>. SUFFICES ASSUME RelocationInv, [Next]_vars PROVE RelocationInv'
  OBVIOUS
<1>1. DataInv'
  BY DataNext DEF RelocationInv
<1>2. Numbered'
  BY NumberedNext DEF RelocationInv, DataInv, Base, SafeInv
<1>3. Single'
  BY SingleNext DEF RelocationInv
<1>. QED BY <1>1, <1>2, <1>3 DEF RelocationInv

\* What the refinement mapping makes of a state.
Shown == [l \in Public |-> disk[l]]
Hidden == IF raced \/ clobbered THEN {} ELSE (owed \cap OnDisk) \ InSight

LEMMA MapsInit == Init => Promise!Init
<1>. SUFFICES ASSUME Init PROVE Promise!Init
  OBVIOUS
<1>1. PICK S \in SUBSET (Tier \X Visible) :
        /\ disk = [l \in Loc |-> IF l \in S THEN <<l, 0>> ELSE Absent]
        /\ owed = {<<l, 0>> : l \in S}
  BY DEF Init
<1>2. Shown \in [Public -> Content \cup {Absent}]
  BY <1>1, PublicPlaces DEF Shown, Content
<1>3. raced = FALSE /\ clobbered = FALSE
  BY DEF Init
<1>4. Hidden = {}
  <2>1. \A c \in owed : c \in InSight
    BY <1>1, PublicPlaces DEF InSight
  <2>. QED BY <2>1 DEF Hidden
<1>. QED BY <1>2, <1>3, <1>4 DEF Promise!Init, Shown, Hidden

\* A step that changes nothing in sight and nothing owed is a stutter.
LEMMA Stutters ==
    ASSUME DataSurvives, DataSurvives', ~Chaos, ~Chaos', UNCHANGED owed,
           \A l \in Public : disk'[l] = disk[l]
    PROVE  UNCHANGED <<Shown, Hidden>>
<1>1. Shown' = Shown
  BY DEF Shown
<1>2. InSight' = InSight
  BY DEF InSight
<1>3. Hidden = owed \ InSight /\ Hidden' = owed' \ InSight'
  BY DEF Hidden, DataSurvives, Chaos
<1>. QED BY <1>1, <1>2, <1>3

LEMMA MapsDepart ==
    ASSUME RelocationInv, DataSurvives', ~Chaos, ~Chaos',
           NEW t \in Tier, Remove(t), msrc[t] \in Public
    PROVE  /\ Shown[msrc[t]] # Absent
           /\ Shown' = [Shown EXCEPT ![msrc[t]] = Absent]
           /\ Hidden' = Hidden \cup {Shown[msrc[t]]}
<1>. USE DEF RelocationInv, DataInv, Base, SafeInv, TypeInv, TypeOK
<1>. DEFINE s == msrc[t]
            c == disk[s]
<1>1. c # Absent /\ s \in Loc /\ s \in Public
  BY Paths DEF Remove, Parts, Present, Early
<1>2. disk'[s] = Absent /\ \A l \in Loc \ {s} : disk'[l] = disk[l]
  BY <1>1 DEF Remove, StoreOK
<1>3. c \in owed /\ \A l \in Public \ {s} : disk[l] # c
  BY <1>1, PublicPlaces DEF Single, Live
<1>4. Shown' = [Shown EXCEPT ![s] = Absent]
  <2>1. \A l \in Public : disk'[l] = IF l = s THEN Absent ELSE disk[l]
    BY <1>2, PublicPlaces
  <2>. HIDE DEF s
  <2>. QED BY <2>1 DEF Shown
<1>5. \A d \in owed : d \in InSight' <=> d \in InSight /\ d # c
  <2>1. \A d \in owed : d # Absent
    BY Markers DEF HistoryOK
  <2>. QED BY <1>1, <1>2, <1>3, <2>1, PublicPlaces DEF InSight
<1>6. Hidden = owed \ InSight /\ Hidden' = owed' \ InSight' /\ owed' = owed
  BY DEF Hidden, DataSurvives, Chaos, Remove, history
<1>7. Hidden' = Hidden \cup {c}
  BY <1>3, <1>5, <1>6
<1>. QED BY <1>1, <1>4, <1>7 DEF Shown

LEMMA MapsArrive ==
    ASSUME RelocationInv, DataSurvives', ~Chaos, ~Chaos',
           NEW t \in Tier, Rename(t), RenameTo(t) \in Public
    PROVE  /\ Shown[RenameTo(t)] = Absent
           /\ \E c \in Hidden : /\ Shown' = [Shown EXCEPT ![RenameTo(t)] = c]
                                /\ Hidden' = Hidden \ {c}
<1>. USE DEF RelocationInv, DataInv, Base, SafeInv, TypeInv, TypeOK
<1>. DEFINE r == RenameTo(t)
            c == disk[Tmp(t)]
<1>1. /\ r \in Loc /\ r \in Public /\ Tmp(t) \in Loc /\ Tmp(t) \notin Public /\ r # Tmp(t)
      /\ msrc[t][2] \in PublicName
  BY OwnPaths
<1>2. disk[r] = Absent
  BY DEF Rename, Chaos
<1>3. disk'[r] = c /\ \A l \in Public \ {r} : disk'[l] = disk[l]
  BY <1>1, PublicPlaces DEF Rename, StoreOK
<1>4. c \in owed /\ c # Absent /\ \A l \in Public : disk[l] # c
  <2>1. Live(Tmp(t))
    BY <1>1 DEF Live, Rename
  <2>2. c # Absent
    BY DEF Rename, Parts, Present, WithTmp
  <2>. QED BY <1>1, <2>1, <2>2, PublicPlaces DEF Single, Live
<1>5. Shown' = [Shown EXCEPT ![r] = c]
  BY <1>1, <1>3 DEF Shown
<1>6. \A d \in owed : d \in InSight' <=> d \in InSight \/ d = c
  <2>1. \A d \in owed : d # Absent
    BY Markers DEF HistoryOK
  <2>. QED BY <1>1, <1>2, <1>3, <2>1 DEF InSight
<1>7. Hidden = owed \ InSight /\ Hidden' = owed' \ InSight' /\ owed' = owed
  BY DEF Hidden, DataSurvives, Chaos, Rename
<1>8. c \in Hidden /\ Hidden' = Hidden \ {c}
  BY <1>4, <1>6, <1>7 DEF InSight
<1>. QED BY <1>1, <1>2, <1>5, <1>8 DEF Shown

LEMMA MapsStore ==
    ASSUME RelocationInv, DataSurvives', ~Chaos, ~Chaos', NEW k \in Tier \X Visible, Store(k)
    PROVE  /\ Shown'[k] \in Content /\ Shown'[k] \notin Hidden
           /\ \A l \in Public : Shown[l] # Shown'[k]
           /\ Shown' = [Shown EXCEPT ![k] = Shown'[k]]
           /\ Hidden' = Hidden
<1>. USE DEF RelocationInv, DataInv, Base, SafeInv, TypeInv, TypeOK
<1>. DEFINE new == <<k, writes + 1>>
<1>1. /\ k \in Loc /\ k \in Public /\ disk' = [disk EXCEPT ![k] = new]
      /\ owed' = (owed \ {disk[k]}) \cup {new}
  BY PublicPlaces DEF Store
<1>2. new \in Content /\ new \notin owed /\ \A l \in Loc : disk[l] # new
  <2>1. new \in Content /\ writes \in Nat /\ new[2] = writes + 1
    BY <1>1, Bounds DEF Content, HistoryOK
  <2>. QED BY <2>1 DEF Numbered
<1>. HIDE DEF new
<1>3. disk'[k] = new /\ \A l \in Public \ {k} : disk'[l] = disk[l]
  BY <1>1, PublicPlaces DEF StoreOK
<1>4. Shown'[k] = new /\ Shown' = [Shown EXCEPT ![k] = new]
  BY <1>1, <1>3 DEF Shown
<1>5. Hidden = owed \ InSight /\ Hidden' = owed' \ InSight'
  BY DEF Hidden, DataSurvives, Chaos
<1>6. \A d : d \in InSight' <=> (d = new \/ \E l \in Public \ {k} : disk[l] = d)
  BY <1>1, <1>3 DEF InSight
<1>7. \A d : d \in InSight <=> (d = disk[k] \/ \E l \in Public \ {k} : disk[l] = d)
  BY <1>1 DEF InSight
<1>8. Hidden' = Hidden
  BY <1>1, <1>2, <1>5, <1>6, <1>7
<1>9. new \notin Hidden /\ \A l \in Public : Shown[l] # new
  BY <1>2, <1>5, PublicPlaces DEF Shown
<1>. QED BY <1>2, <1>4, <1>8, <1>9

LEMMA MapsNext == RelocationInv /\ RelocationInv' /\ [Next]_vars => [Promise!Next]_(Promise!vars)
<1>. SUFFICES ASSUME RelocationInv, RelocationInv', [Next]_vars
              PROVE  [Promise!Next]_(Promise!vars)
  OBVIOUS
<1>. USE DEF RelocationInv, DataInv, Base, SafeInv, TypeInv, TypeOK
<1>1. CASE Chaos'
  BY <1>1 DEF Promise!Next, Chaos
<1>2. CASE ~Chaos'
  <2>0. ~Chaos /\ UNCHANGED Chaos
    <3>1. ASSUME NEW t \in Tier, Mover(t) PROVE ~Chaos
      BY <1>2, <3>1, MoverFrame DEF Chaos
    <3>2. ASSUME NEW h \in Handle, Request(h) PROVE ~Chaos
      BY <1>2, <3>2, RequestFrame
    <3>3. Crash => ~Chaos
      BY <1>2 DEF Crash, Chaos
    <3>4. ~Chaos
      BY <1>2, <3>1, <3>2, <3>3, WorkerFrame DEF Next, Chaos
    <3>. QED BY <1>2, <3>4 DEF Chaos
  <2>1. UNCHANGED <<Shown, Hidden>> => [Promise!Next]_(Promise!vars)
    BY <2>0 DEF Promise!vars, Shown, Hidden, Chaos
  <2>2. UNCHANGED owed /\ (\A l \in Public : disk'[l] = disk[l]) => UNCHANGED <<Shown, Hidden>>
    BY <1>2, <2>0, Stutters
  <2>3. ASSUME NEW l \in Public, Promise!Depart(l) \/ Promise!Arrive(l) \/ Promise!Store(l)
        PROVE  [Promise!Next]_(Promise!vars)
    <3>1. UNCHANGED (raced \/ clobbered)
      BY <2>0 DEF Chaos
    <3>2. Promise!Next
      BY <2>3, <3>1, Zenon DEF Promise!Next
    <3>. QED BY <3>2
  <2>4. ASSUME NEW t \in Tier, Mover(t) PROVE [Promise!Next]_(Promise!vars)
    <3>0. Tmp(t) \notin Public /\ UNCHANGED owed
      BY <2>4, OwnPaths, MoverFrame
    <3>1. CASE Remove(t) /\ msrc[t] \in Public
      <4>0. PICK l \in Public : l = msrc[t]
        BY <3>1
      <4>1. Promise!Depart(l)
        BY <1>2, <2>0, <3>1, <4>0, MapsDepart DEF Promise!Depart, Shown, Hidden
      <4>. QED BY <2>3, <4>1
    <3>2. CASE Rename(t) /\ RenameTo(t) \in Public
      <4>0. PICK l \in Public : l = RenameTo(t)
        BY <3>2
      <4>1. Promise!Arrive(l)
        BY <1>2, <2>0, <3>2, <4>0, MapsArrive DEF Promise!Arrive, Shown, Hidden
      <4>. QED BY <2>3, <4>1
    <3>3. CASE ~(Remove(t) /\ msrc[t] \in Public) /\ ~(Rename(t) /\ RenameTo(t) \in Public)
      <4>1. \A l \in Public : disk'[l] = disk[l]
        BY <2>4, <3>0, <3>3, MoverDisk, PublicPlaces
        DEF CopyOpen, CopyDone, Remove, Rename, StoreOK
      <4>. QED BY <2>1, <2>2, <3>0, <4>1
    <3>. QED BY <3>1, <3>2, <3>3
  <2>5. ASSUME NEW h \in Handle, Request(h) PROVE [Promise!Next]_(Promise!vars)
    <3>1. CASE UNCHANGED <<disk, owed, writes>>
      BY <2>1, <2>2, <3>1
    <3>2. CASE Store(hloc[h]) /\ hloc[h] \in Tier \X Visible
      <4>1. PICK l \in Tier \X Visible : l = hloc[h] /\ l \in Public
        BY <3>2, PublicPlaces
      <4>2. Promise!Store(l)
        BY <1>2, <2>0, <3>2, <4>1, MapsStore
        DEF Promise!Store, Promise!Contents, Shown, Hidden
      <4>. QED BY <2>3, <4>1, <4>2
    <3>. QED BY <1>2, <2>5, <3>1, <3>2, RequestFrame
  <2>6. CASE Crash
    BY <2>1, <2>2, <2>6 DEF Crash, store
  <2>. QED BY <2>1, <2>2, <2>4, <2>5, <2>6, WorkerFrame DEF Next
<1>. QED BY <1>1, <1>2

\* TierMigration implements Relocation: seen from applications a move takes a file out of
\* sight and brings it back whole, unchanged, once, and to a free place.
THEOREM MovesRelocate == Spec => Relocates
<1>1. Init => RelocationInv /\ Promise!Init
  BY RelocationInit, MapsInit
<1>2. RelocationInv /\ [Next]_vars => RelocationInv'
  BY RelocationNext
<1>3. RelocationInv /\ RelocationInv' /\ [Next]_vars => [Promise!Next]_(Promise!vars)
  BY MapsNext
<1>. QED BY <1>1, <1>2, <1>3, PTL DEF Spec, Relocates, Promise!Spec
=============================================================================
