-------------------------- MODULE TierUsageProofs --------------------------
(***************************************************************************)
(* Proofs for any files, handles, descriptors, tiers and quotas:           *)
(*  - the maps of descriptors and the registry fit the handles             *)
(*    (HandlesTracked);                                                    *)
(*  - a tier's count and what open handles and unlinks owe it make what it *)
(*    stores (UsageOwed).  The inductive invariant adds where the file of  *)
(*    every handle is (Placed), what becomes of a file that is being       *)
(*    removed (Leaving), and what the crawl has seen (PassOK);             *)
(*  - statfs shows the room that is left (FreeSpaceRight).                 *)
(***************************************************************************)
EXTENDS TierUsage, FiniteSetTheorems, Sums, TLAPS

HandlePC == {"idle", "sized", "registered", "creating", "maps", "created", "open", "stat",
             "leaked", "delta", "close"}
HandleRec == [pc : HandlePC, file : File \cup {Absent}, key : Key \cup {Absent},
              fd : Fd \cup {Absent}, old : Size, new : Size, orphan : BOOLEAN]

FilesOK == /\ where \in [File -> Tier \cup {Absent}] /\ size \in [File -> Size]
           /\ name \in [File -> BOOLEAN]
           /\ gone \in [File -> Tier \cup {Absent}]
           /\ moving \in [file : File, to : Tier, bytes : Size \cup {Absent}] \cup {Absent}
MapsOK == /\ count \in [Key -> Int]
          /\ path_of \in [Fd -> Key \cup {Absent}] /\ size_at \in [Fd -> Size \cup {Absent}]

\* A handle has a descriptor from open to close; the entries under its number are its own
\* from their insertion to their removal, and nobody's before and after.
Fits(h) ==
    /\ handle[h].pc \in {"idle", "sized", "registered", "creating"} <=> handle[h].fd = Absent
    /\ handle[h].pc \notin {"idle", "close"} => handle[h].key \in Key
    /\ handle[h].pc \notin {"idle", "close", "creating", "leaked"} => handle[h].file \in File
    /\ handle[h].pc \in {"open", "stat", "leaked"} =>
          path_of[handle[h].fd] = handle[h].key /\ size_at[handle[h].fd] = handle[h].old
    /\ handle[h].pc \in {"maps", "created", "delta", "close"} =>
          path_of[handle[h].fd] = Absent /\ size_at[handle[h].fd] = Absent
\* No two handles have the same descriptor.
Distinct == \A g, h \in Handle : handle[g].fd = handle[h].fd /\ handle[g].fd # Absent => g = h
\* Nothing is left under a free number.
Owned == \A d \in Fd : path_of[d] # Absent \/ size_at[d] # Absent =>
            \E h \in Handle : handle[h].fd = d
Tracked == /\ handle \in [Handle -> HandleRec] /\ MapsOK
           /\ (\A h \in Handle : Fits(h)) /\ Distinct /\ Owned

Counted(h) == handle[h].pc \notin {"idle", "sized", "delta", "close"}
Holders(k) == {h \in Handle : handle[h].key = k /\ Counted(h)}
CountFits == \A k \in Key : count[k] = Cardinality(Holders(k))

UsageInv == FilesOK /\ Tracked /\ CountFits
-----------------------------------------------------------------------------
LEMMA Marks ==
    Absent \notin Fd /\ Absent \notin File /\ Fd \subseteq Nat /\ IsFiniteSet(Handle) /\ 0 \in Size /\ 1 \in Tier
<1>1. Absent \notin Fd /\ Absent \notin File /\ Fd \subseteq Nat
  BY UsageAssumption
<1>2. IsFiniteSet(Handle)
  BY UsageAssumption
<1>3. 0 \in Size
  BY UsageAssumption DEF Size
<1>4. 1 \in Tier
  BY UsageAssumption DEF Tier
<1>. QED BY <1>1, <1>2, <1>3, <1>4

LEMMA KeyTyped == ASSUME FilesOK, NEW f \in File, where[f] # Absent PROVE KeyOf(f) \in Key
BY DEF FilesOK, KeyOf, Key

LEMMA UsageInit == Init => UsageInv
<1>. SUFFICES ASSUME Init PROVE UsageInv
  OBVIOUS
<1>1. FilesOK
  BY DEF Init, FilesOK
<1>2. NoHandle \in HandleRec
  BY Marks DEF NoHandle, HandleRec, HandlePC
<1>3. handle \in [Handle -> HandleRec] /\ MapsOK
  BY <1>2 DEF Init, MapsOK
<1>4. (\A h \in Handle : Fits(h)) /\ Distinct /\ Owned
  BY DEF Init, Fits, Distinct, Owned, NoHandle
<1>5. CountFits
  <2>. SUFFICES ASSUME NEW k \in Key PROVE count[k] = Cardinality(Holders(k))
    BY DEF CountFits
  <2>1. Holders(k) = {} /\ count[k] = 0
    BY DEF Init, Holders, Counted, NoHandle
  <2>. QED BY <2>1, FS_EmptySet
<1>. QED BY <1>1, <1>3, <1>4, <1>5 DEF UsageInv, Tracked

\* Steps that leave handles and maps alone but for the marks of a moved file.
LEMMA TrackedSame ==
    ASSUME Tracked, UNCHANGED maps, handle' \in [Handle -> HandleRec],
           \A h \in Handle : /\ handle'[h].pc = handle[h].pc /\ handle'[h].fd = handle[h].fd
                             /\ handle'[h].key = handle[h].key /\ handle'[h].old = handle[h].old
                             /\ handle'[h].file = handle[h].file
    PROVE  Tracked'
<1>1. \A h \in Handle : Fits(h)'
  BY DEF Tracked, Fits, maps
<1>2. Distinct' /\ Owned'
  BY DEF Tracked, Distinct, Owned, maps
<1>. QED BY <1>1, <1>2 DEF Tracked, MapsOK, maps

\* Steps of one handle, which touch the entries of its own descriptor only.
LEMMA TrackedStep ==
    ASSUME Tracked, NEW h \in Handle, NEW r \in HandleRec, Set(h, r), MapsOK', Fits(h)',
           \A d \in Fd : d # r.fd => path_of'[d] = path_of[d] /\ size_at'[d] = size_at[d],
           \/ r.fd = handle[h].fd
           \/ handle[h].fd = Absent /\ r.fd \in FreeFds
           \/ r.fd = Absent /\ handle[h].pc = "close"
    PROVE  Tracked'
<1>1. handle' = [handle EXCEPT ![h] = r] /\ handle' \in [Handle -> HandleRec]
  BY DEF Set, Tracked
<1>2. handle'[h] = r /\ \A g \in Handle \ {h} : handle'[g] = handle[g]
  BY <1>1 DEF Tracked
<1>3. \A g \in Handle \ {h} : handle[g].fd = r.fd => r.fd = Absent
  BY DEF Tracked, Distinct, FreeFds
<1>4. \A g \in Handle \ {h} : handle[g].fd \in Fd \cup {Absent}
  BY DEF Tracked, HandleRec
<1>5. ASSUME NEW g \in Handle \ {h} PROVE Fits(g)'
  <2>1. Fits(g)
    BY DEF Tracked
  <2>2. handle[g].fd \in Fd =>
            /\ path_of'[handle[g].fd] = path_of[handle[g].fd]
            /\ size_at'[handle[g].fd] = size_at[handle[g].fd]
    BY <1>3, Marks
  <2>3. handle[g].pc \in {"maps", "created", "open", "stat", "leaked", "delta", "close"}
            => handle[g].fd \in Fd
    BY <1>4, <2>1 DEF Fits
  <2>. QED BY <1>2, <2>1, <2>2, <2>3 DEF Fits
<1>6. Distinct'
  BY <1>2, <1>3 DEF Tracked, Distinct
<1>7. Owned'
  <2>. SUFFICES ASSUME NEW d \in Fd, path_of'[d] # Absent \/ size_at'[d] # Absent
                PROVE  \E g \in Handle : handle'[g].fd = d
    BY DEF Owned
  <2>1. CASE d = r.fd
    BY <2>1, <1>2
  <2>2. CASE d # r.fd
    <3>1. PICK g \in Handle : handle[g].fd = d
      BY <2>2 DEF Tracked, Owned
    <3>2. g # h
      BY <2>2, <3>1, Marks DEF Tracked, Fits
    <3>. QED BY <3>1, <3>2, <1>2
  <2>. QED BY <2>1, <2>2
<1>. QED BY <1>1, <1>5, <1>6, <1>7 DEF Tracked
-----------------------------------------------------------------------------
(* The registry *)

LEMMA HoldersFinite == \A k : IsFiniteSet(Holders(k))
BY Marks, FS_Subset DEF Holders

LEMMA CountSame ==
    ASSUME CountFits, UNCHANGED count,
           \A h \in Handle : /\ Counted(h)' <=> Counted(h)
                             /\ Counted(h) => handle'[h].key = handle[h].key
    PROVE  CountFits'
<1>1. ASSUME NEW k \in Key PROVE Holders(k)' = Holders(k)
  BY DEF Holders
<1>. QED BY <1>1 DEF CountFits

LEMMA CountJoin ==
    ASSUME MapsOK, CountFits, NEW h \in Handle, NEW k \in Key,
           count' = [count EXCEPT ![k] = @ + 1], ~Counted(h), Counted(h)', handle'[h].key = k,
           \A g \in Handle \ {h} : handle'[g] = handle[g]
    PROVE  CountFits'
<1>1. \A g \in Handle \ {h} : Counted(g)' <=> Counted(g)
  BY DEF Counted
<1>2. Holders(k)' = Holders(k) \cup {h} /\ h \notin Holders(k)
  BY <1>1 DEF Holders
<1>3. Cardinality(Holders(k)') = Cardinality(Holders(k)) + 1
  BY <1>2, HoldersFinite, FS_AddElement
<1>4. \A j \in Key \ {k} : Holders(j)' = Holders(j)
  BY <1>1 DEF Holders
<1>. QED BY <1>3, <1>4 DEF CountFits, MapsOK

LEMMA CountLeave ==
    ASSUME MapsOK, CountFits, NEW h \in Handle, NEW k \in Key,
           count' = [count EXCEPT ![k] = @ - 1], Counted(h), handle[h].key = k, ~Counted(h)',
           \A g \in Handle \ {h} : handle'[g] = handle[g]
    PROVE  CountFits'
<1>1. \A g \in Handle \ {h} : Counted(g)' <=> Counted(g)
  BY DEF Counted
<1>2. Holders(k)' = Holders(k) \ {h} /\ h \in Holders(k)
  BY <1>1 DEF Holders
<1>3. Cardinality(Holders(k)') = Cardinality(Holders(k)) - 1 /\ Cardinality(Holders(k)) \in Nat
  BY <1>2, HoldersFinite, FS_RemoveElement, FS_CardinalityType
<1>4. \A j \in Key \ {k} : Holders(j)' = Holders(j)
  BY <1>1 DEF Holders
<1>. QED BY <1>3, <1>4 DEF CountFits, MapsOK
-----------------------------------------------------------------------------
(* Each call keeps it *)

LEMMA FilesNext == FilesOK /\ [Next]_vars => FilesOK'
<1>. SUFFICES ASSUME FilesOK, [Next]_vars PROVE FilesOK'
  OBVIOUS
<1>. USE DEF FilesOK
<1>0. Request => UNCHANGED moving
  BY DEF Request, pass
<1>1. ASSUME UNCHANGED <<disk, gone>>, UNCHANGED moving PROVE FilesOK'
  BY <1>1 DEF disk
<1>2. ASSUME NEW h \in Handle, NEW f \in File, OpenSize(h, f) \/ CreateRegister(h, f),
              UNCHANGED moving
       PROVE  FilesOK'
  BY <1>2, <1>1 DEF OpenSize, CreateRegister
<1>3. ASSUME NEW h \in Handle, NEW n \in Size, ResizeOpen(h, n), UNCHANGED moving PROVE FilesOK'
  BY <1>3 DEF ResizeOpen, Resize
<1>4. ASSUME NEW f \in File, NEW n \in Size, TruncatePath(f, n), UNCHANGED moving PROVE FilesOK'
  BY <1>4 DEF TruncatePath, Resize
<1>5. ASSUME NEW f \in File, Rename(f), UNCHANGED moving PROVE FilesOK'
  BY <1>5 DEF Rename
<1>5a. ASSUME NEW f \in File, NEW g \in File, RenameOver(f, g), UNCHANGED moving PROVE FilesOK'
  BY <1>5a, Marks DEF RenameOver, Vanish
<1>6. ASSUME NEW f \in File, UnlinkSize(f), UNCHANGED moving PROVE FilesOK'
  BY <1>6 DEF UnlinkSize, Unlocked, disk
<1>7. ASSUME NEW f \in File, Unlink(f), UNCHANGED moving PROVE FilesOK'
  BY <1>7, Marks DEF Unlink, Vanish
<1>7a. ASSUME NEW f \in File, UnlinkFails(f), UNCHANGED moving PROVE FilesOK'
  BY <1>7a DEF UnlinkFails, disk
<1>8. ASSUME NEW h \in Handle, Creat(h), UNCHANGED moving PROVE FilesOK'
  <2>1. UNCHANGED <<name, gone>>
    BY <1>8 DEF Creat
  <2>2. \/ UNCHANGED where /\ size' = [size EXCEPT ![handle[h].key[2]] = 0]
        \/ \E g \in File : where' = [where EXCEPT ![g] = 1] /\ size' = [size EXCEPT ![g] = 0]
    BY <1>8 DEF Creat, Resize
  <2>. QED BY <1>8, <2>1, <2>2, Marks
<1>9. ASSUME NEW h \in Handle, OpenFd(h), UNCHANGED moving PROVE FilesOK'
  BY <1>9, Marks DEF OpenFd, Resize
<1>10. ASSUME NEW h \in Handle,
              \/ OpenRegister(h) \/ OpenFails(h) \/ InsertMaps(h) \/ Forget(h)
              \/ ReleaseDelta(h) \/ Close(h) \/ ReleaseFails(h), UNCHANGED moving
       PROVE  FilesOK'
  BY <1>10, <1>1 DEF OpenRegister, OpenFails, InsertMaps, Forget, ReleaseDelta, Close, ReleaseFails
<1>11. ASSUME NEW h \in Handle, NEW n \in Size, ReleaseStat(h, n), UNCHANGED moving PROVE FilesOK'
  BY <1>11, <1>1 DEF ReleaseStat
<1>12. CASE Request /\ Call
  BY <1>0, <1>12, <1>2, <1>3, <1>4, <1>5, <1>5a, <1>6, <1>10
     DEF Call, Write, WriteBuf, Fallocate, CopyFileRange, Ftruncate, Extend
<1>13. CASE Request /\ CallOn
  BY <1>0, <1>13, <1>7, <1>7a, <1>8, <1>9, <1>10, <1>11 DEF CallOn
<1>14. CASE Worker
  <2>1. CASE Move
    <3>. PICK f, to, n : f = moving.file /\ to = moving.to /\ n = moving.bytes
      OBVIOUS
    <3>1. /\ moving # Absent /\ n # Absent /\ moving' = Absent /\ UNCHANGED <<name, gone>>
          /\ MoveEnd(f, to, n) \/ MoveTwice(f, to, n)
      BY <2>1 DEF Move
    <3>2. f \in File /\ to \in Tier /\ n \in Size
      BY <3>1
    <3>3. \E g \in File : where' = [where EXCEPT ![g] = to] /\ size' = [size EXCEPT ![g] = n]
      BY <3>1, <3>2 DEF MoveEnd, MoveTwice
    <3>. QED BY <3>1, <3>2, <3>3
  <2>2. ASSUME NEW f \in File, NEW t \in Tier, MoveBegin(f, t) PROVE FilesOK'
    BY <2>2 DEF MoveBegin, disk
  <2>3. CASE CopyFails
    BY <2>3 DEF CopyFails, disk
  <2>4. CASE StartPass \/ CrawlEnd \/ EndPass \/ \E f \in File : CrawlFile(f)
    BY <2>4, <1>1 DEF StartPass, CrawlFile, CrawlEnd, EndPass
  <2>5. CASE MoveCopy
    BY <2>5 DEF MoveCopy, disk
  <2>. QED
    BY <1>14, <2>1, <2>2, <2>3, <2>4, <2>5 DEF Worker, PassStep
<1>15. CASE UNCHANGED vars
  BY <1>15, <1>1 DEF vars, disk
<1>. QED BY <1>12, <1>13, <1>14, <1>15 DEF Next, Request

\* A record of a handle with some fields changed is one.
LEMMA Typed ==
    ASSUME Tracked, NEW h \in Handle
    PROVE  handle[h] \in HandleRec /\ Fits(h)
BY DEF Tracked

LEMMA NewPc ==
    ASSUME NEW x \in HandleRec, NEW pc \in HandlePC
    PROVE  LET r == [x EXCEPT !.pc = pc] IN
           /\ r \in HandleRec /\ r.pc = pc /\ r.fd = x.fd /\ r.key = x.key
           /\ r.file = x.file /\ r.old = x.old
BY DEF HandleRec

LEMMA Fields ==
    ASSUME NEW x \in HandleRec
    PROVE  /\ x.pc \in HandlePC /\ x.fd \in Fd \cup {Absent} /\ x.old \in Size
           /\ x.key \in Key \cup {Absent} /\ x.file \in File \cup {Absent}
BY DEF HandleRec

LEMMA HandlesNext == UsageInv /\ [Next]_vars => Tracked' /\ CountFits'
<1>. SUFFICES ASSUME UsageInv, [Next]_vars PROVE Tracked' /\ CountFits'
  OBVIOUS
<1>. USE DEF UsageInv
<1>1. ASSUME UNCHANGED <<handle, maps>> PROVE Tracked' /\ CountFits'
  <2>1. Tracked'
    BY <1>1, TrackedSame DEF Tracked
  <2>. QED BY <2>1, <1>1, CountSame DEF maps, Counted
<1>2. ASSUME NEW h \in Handle, NEW f \in File, OpenSize(h, f) PROVE Tracked' /\ CountFits'
  <2>. DEFINE r == [NoHandle EXCEPT !.pc = "sized", !.file = f, !.key = KeyOf(f), !.old = size[f]]
  <2>1. Set(h, r) /\ UNCHANGED maps /\ handle[h].pc = "idle" /\ KeyOf(f) \in Key
    BY <1>2, KeyTyped DEF OpenSize, At
  <2>2. r \in HandleRec /\ r.pc = "sized" /\ r.fd = Absent /\ r.key \in Key /\ r.file \in File
    BY <2>1, Marks DEF NoHandle, HandleRec, HandlePC, FilesOK
  <2>. HIDE DEF r
  <2>3. handle'[h] = r /\ \A g \in Handle \ {h} : handle'[g] = handle[g]
    BY <2>1 DEF Set, Tracked
  <2>4. Fits(h)' /\ MapsOK' /\ handle[h].fd = Absent
    BY <2>1, <2>2, <2>3 DEF Fits, Tracked, MapsOK, maps
  <2>5. Tracked'
    BY <2>1, <2>2, <2>4, TrackedStep DEF maps
  <2>6. CountFits'
    BY <2>1, <2>2, <2>3, CountSame DEF Counted, maps
  <2>. QED BY <2>5, <2>6
<1>3. ASSUME NEW h \in Handle, NEW f \in File, CreateRegister(h, f) PROVE Tracked' /\ CountFits'
  <2>. DEFINE k == <<1, f, name[f]>>
              r == [NoHandle EXCEPT !.pc = "creating", !.key = k]
  <2>1. /\ Set(h, r) /\ handle[h].pc = "idle" /\ count' = [count EXCEPT ![k] = @ + 1]
        /\ UNCHANGED <<path_of, size_at>>
    BY <1>3 DEF CreateRegister, At
  <2>2. k \in Key
    BY Marks DEF Key, FilesOK
  <2>. HIDE DEF k
  <2>3. r \in HandleRec /\ r.pc = "creating" /\ r.fd = Absent /\ r.key = k
    BY <2>2, Marks DEF NoHandle, HandleRec, HandlePC
  <2>. HIDE DEF r
  <2>4. handle'[h] = r /\ \A g \in Handle \ {h} : handle'[g] = handle[g]
    BY <2>1 DEF Set, Tracked
  <2>5. Fits(h)' /\ MapsOK' /\ handle[h].fd = Absent
    BY <2>1, <2>2, <2>3, <2>4 DEF Fits, Tracked, MapsOK
  <2>6. Tracked'
    BY <2>1, <2>3, <2>5, TrackedStep
  <2>7. CountFits'
    BY <2>1, <2>2, <2>3, <2>4, CountJoin DEF Counted, Tracked
  <2>. QED BY <2>6, <2>7
<1>4. ASSUME NEW h \in Handle, OpenRegister(h) PROVE Tracked' /\ CountFits'
  <2>. DEFINE r == [handle[h] EXCEPT !.pc = "registered"]
              k == handle[h].key
  <2>1. /\ Set(h, r) /\ handle[h].pc = "sized" /\ count' = [count EXCEPT ![k] = @ + 1]
        /\ UNCHANGED <<path_of, size_at>> /\ Fits(h)
    BY <1>4, Typed DEF OpenRegister, To, At
  <2>2. /\ r \in HandleRec /\ r.pc = "registered" /\ r.fd = Absent /\ r.key = k
        /\ k \in Key /\ r.file \in File /\ handle[h].fd = Absent
    <3>1. "registered" \in HandlePC
      BY DEF HandlePC
    <3>. QED BY <2>1, <3>1, Typed, NewPc DEF Fits
  <2>. HIDE DEF r, k
  <2>3. handle'[h] = r /\ \A g \in Handle \ {h} : handle'[g] = handle[g]
    BY <2>1 DEF Set, Tracked
  <2>4. Fits(h)' /\ MapsOK'
    BY <2>1, <2>2, <2>3 DEF Fits, Tracked, MapsOK
  <2>5. Tracked'
    BY <2>1, <2>2, <2>4, TrackedStep
  <2>6. CountFits'
    BY <2>1, <2>2, <2>3, CountJoin DEF Counted, Tracked
  <2>. QED BY <2>5, <2>6
<1>5. ASSUME NEW h \in Handle, Creat(h) \/ OpenFd(h) PROVE Tracked' /\ CountFits'
  <2>0. PICK pc \in {"maps", "created"}, f \in File :
            GetFd(h, pc, f) /\ handle[h].pc \in {"registered", "creating"} /\ UNCHANGED maps
    <3>1. handle[h] \in HandleRec /\ Fits(h)
      BY Typed
    <3>2. CASE Creat(h)
      <4>1. handle[h].pc = "creating" /\ handle[h].key[2] \in File
        BY <3>1, <3>2 DEF Creat, At, Fits, Key
      <4>2. UNCHANGED maps /\ \E f \in File : GetFd(h, "created", f)
        BY <3>2, <4>1 DEF Creat
      <4>. QED BY <4>1, <4>2
    <3>3. CASE OpenFd(h)
      <4>1. handle[h].pc = "registered" /\ handle[h].file \in File
        BY <3>1, <3>3 DEF OpenFd, At, Fits
      <4>2. UNCHANGED maps /\ GetFd(h, "maps", handle[h].file)
        BY <3>3 DEF OpenFd
      <4>. QED BY <4>1, <4>2
    <3>. QED BY <1>5, <3>2, <3>3
  <2>1. PICK d \in Fd : d \in FreeFds /\ Set(h, [handle[h] EXCEPT !.pc = pc, !.fd = d, !.file = f])
    BY <2>0 DEF GetFd, Lowest
  <2>. DEFINE r == [handle[h] EXCEPT !.pc = pc, !.fd = d, !.file = f]
  <2>3. /\ r \in HandleRec /\ r.pc = pc /\ r.fd = d /\ r.key = handle[h].key
        /\ r.file = f /\ handle[h].key \in Key /\ handle[h].fd = Absent
    <3>1. pc \in HandlePC
      BY DEF HandlePC
    <3>2. handle[h] \in HandleRec /\ Fits(h)
      BY Typed
    <3>3. handle[h].fd = Absent /\ handle[h].key \in Key
      BY <2>0, <3>2 DEF Fits
    <3>4. r \in HandleRec /\ r.pc = pc /\ r.fd = d /\ r.key = handle[h].key /\ r.file = f
      <4>. HIDE DEF HandlePC
      <4>. QED BY <3>1, <3>2 DEF HandleRec
    <3>. QED BY <3>3, <3>4
  <2>4. path_of[d] = Absent /\ size_at[d] = Absent
    BY <2>1 DEF Tracked, Owned, FreeFds
  <2>. HIDE DEF r
  <2>5. handle'[h] = r /\ \A g \in Handle \ {h} : handle'[g] = handle[g]
    BY <2>1 DEF Set, Tracked, r
  <2>6. Fits(h)' /\ MapsOK'
    BY <2>0, <2>3, <2>4, <2>5, Marks DEF Fits, Tracked, MapsOK, maps
  <2>7. Tracked'
    <3>1. Set(h, r)
      BY <2>1 DEF r
    <3>. QED BY <2>0, <2>1, <2>3, <2>6, <3>1, TrackedStep DEF maps
  <2>8. CountFits'
    BY <2>0, <2>3, <2>5, CountSame DEF Counted, maps
  <2>. QED BY <2>7, <2>8
<1>6. ASSUME NEW h \in Handle, OpenFails(h) PROVE Tracked' /\ CountFits'
  <2>1. /\ Set(h, NoHandle) /\ handle[h].pc \in {"registered", "creating"}
        /\ count' = [count EXCEPT ![handle[h].key] = @ - 1]
        /\ UNCHANGED <<path_of, size_at>> /\ Fits(h)
    BY <1>6, Typed DEF OpenFails, At
  <2>2. /\ NoHandle \in HandleRec /\ NoHandle.pc = "idle" /\ NoHandle.fd = Absent
        /\ handle[h].fd = Absent /\ handle[h].key \in Key
    BY <2>1, Marks DEF NoHandle, HandleRec, HandlePC, Fits
  <2>3. handle'[h] = NoHandle /\ \A g \in Handle \ {h} : handle'[g] = handle[g]
    BY <2>1 DEF Set, Tracked
  <2>4. Fits(h)' /\ MapsOK'
    BY <2>1, <2>2, <2>3 DEF Fits, Tracked, MapsOK
  <2>5. Tracked'
    BY <2>1, <2>2, <2>4, TrackedStep
  <2>6. CountFits'
    BY <2>1, <2>2, <2>3, CountLeave DEF Counted, Tracked
  <2>. QED BY <2>5, <2>6
<1>7. ASSUME NEW h \in Handle, InsertMaps(h) PROVE Tracked' /\ CountFits'
  <2>. DEFINE r == [handle[h] EXCEPT !.pc = "open"]
              d == handle[h].fd
  <2>1. /\ Set(h, r) /\ handle[h].pc \in {"maps", "created"} /\ UNCHANGED count /\ Fits(h)
        /\ path_of' = [path_of EXCEPT ![d] = IF @ = Absent THEN handle[h].key ELSE @]
        /\ size_at' = [size_at EXCEPT ![d] = handle[h].old]
    BY <1>7, Typed DEF InsertMaps, At, To
  <2>2. /\ r \in HandleRec /\ r.pc = "open" /\ r.fd = d /\ r.key = handle[h].key
        /\ r.old = handle[h].old /\ r.file = handle[h].file /\ d \in Fd /\ path_of[d] = Absent
        /\ handle[h].key \in Key /\ handle[h].file \in File /\ handle[h].old \in Size
    <3>1. "open" \in HandlePC
      BY DEF HandlePC
    <3>2. handle[h] \in HandleRec /\ Fits(h)
      BY Typed
    <3>3. d \in Fd /\ path_of[d] = Absent /\ handle[h].key \in Key /\ handle[h].file \in File
      BY <2>1, <3>2, Fields DEF Fits
    <3>. QED BY <3>1, <3>2, <3>3, Fields, NewPc
  <2>. HIDE DEF r, d
  <2>3. handle'[h] = r /\ \A g \in Handle \ {h} : handle'[g] = handle[g]
    BY <2>1 DEF Set, Tracked
  <2>4. Fits(h)' /\ MapsOK'
    BY <2>1, <2>2, <2>3, Marks DEF Fits, Tracked, MapsOK
  <2>5. \A x \in Fd : x # r.fd => path_of'[x] = path_of[x] /\ size_at'[x] = size_at[x]
    BY <2>1, <2>2 DEF Tracked, MapsOK
  <2>6. Tracked'
    BY <2>1, <2>2, <2>4, <2>5, TrackedStep DEF d
  <2>7. CountFits'
    BY <2>1, <2>2, <2>3, CountSame DEF Counted
  <2>. QED BY <2>6, <2>7
<1>8. ASSUME NEW h \in Handle, NEW n \in Size, ReleaseStat(h, n) PROVE Tracked' /\ CountFits'
  <2>. DEFINE d == handle[h].fd
              r == [handle[h] EXCEPT !.pc = "stat", !.new = n, !.old = size_at[d],
                                     !.key = path_of[d]]
  <2>1. Set(h, r) /\ handle[h].pc = "open" /\ UNCHANGED maps
    BY <1>8 DEF ReleaseStat, At
  <2>2. /\ handle[h] \in HandleRec /\ d \in Fd /\ handle[h].key \in Key /\ handle[h].file \in File
        /\ path_of[d] = handle[h].key /\ size_at[d] = handle[h].old
    BY <2>1, Typed, Fields DEF Fits
  <2>3. /\ r \in HandleRec /\ r.pc = "stat" /\ r.fd = d /\ r.key = handle[h].key
        /\ r.old = handle[h].old /\ r.file = handle[h].file
    BY <2>2 DEF HandleRec, HandlePC
  <2>. HIDE DEF r, d
  <2>4. handle'[h] = r /\ \A g \in Handle \ {h} : handle'[g] = handle[g]
    BY <2>1 DEF Set, Tracked
  <2>5. Fits(h)' /\ MapsOK'
    BY <2>1, <2>2, <2>3, <2>4, Marks DEF Fits, Tracked, MapsOK, maps
  <2>6. Tracked'
    BY <2>1, <2>3, <2>5, TrackedStep DEF d, maps
  <2>7. CountFits'
    BY <2>1, <2>3, <2>4, CountSame DEF Counted, maps
  <2>. QED BY <2>6, <2>7
<1>9. ASSUME NEW h \in Handle, ReleaseFails(h) PROVE Tracked' /\ CountFits'
  <2>. DEFINE r == [handle[h] EXCEPT !.pc = "leaked", !.file = Absent]
  <2>1. Set(h, r) /\ handle[h].pc = "open" /\ UNCHANGED maps
    BY <1>9 DEF ReleaseFails, At
  <2>2. handle[h] \in HandleRec /\ Fits(h) /\ "leaked" \in HandlePC
    BY Typed DEF HandlePC
  <2>3. /\ r \in HandleRec /\ r.pc = "leaked" /\ r.fd = handle[h].fd /\ r.key = handle[h].key
        /\ r.old = handle[h].old
    <3>. HIDE DEF HandlePC
    <3>. QED BY <2>2 DEF HandleRec
  <2>. HIDE DEF r
  <2>4. handle'[h] = r /\ \A g \in Handle \ {h} : handle'[g] = handle[g]
    BY <2>1 DEF Set, Tracked
  <2>5. Fits(h)' /\ MapsOK'
    BY <2>1, <2>2, <2>3, <2>4 DEF Fits, Tracked, MapsOK, maps
  <2>6. Tracked'
    BY <2>1, <2>3, <2>5, TrackedStep DEF maps
  <2>7. CountFits'
    BY <2>1, <2>3, <2>4, CountSame DEF Counted, maps
  <2>. QED BY <2>6, <2>7
<1>10. ASSUME NEW h \in Handle, Forget(h) PROVE Tracked' /\ CountFits'
  <2>. DEFINE d == handle[h].fd
              r == [handle[h] EXCEPT !.pc = "delta"]
  <2>1. /\ Set(h, r) /\ handle[h].pc = "stat" /\ count' = [count EXCEPT ![handle[h].key] = @ - 1]
        /\ path_of' = [path_of EXCEPT ![d] = Absent] /\ size_at' = [size_at EXCEPT ![d] = Absent]
    BY <1>10 DEF Forget, At, To
  <2>2. handle[h] \in HandleRec /\ Fits(h) /\ "delta" \in HandlePC
    BY Typed DEF HandlePC
  <2>3. d \in Fd /\ handle[h].key \in Key /\ handle[h].file \in File
    BY <2>1, <2>2, Fields DEF Fits
  <2>4. /\ r \in HandleRec /\ r.pc = "delta" /\ r.fd = d /\ r.key = handle[h].key
        /\ r.file = handle[h].file
    BY <2>2, NewPc
  <2>. HIDE DEF r, d
  <2>5. handle'[h] = r /\ \A g \in Handle \ {h} : handle'[g] = handle[g]
    BY <2>1 DEF Set, Tracked
  <2>6. Fits(h)' /\ MapsOK'
    BY <2>1, <2>3, <2>4, <2>5, Marks DEF Fits, Tracked, MapsOK
  <2>7. \A x \in Fd : x # r.fd => path_of'[x] = path_of[x] /\ size_at'[x] = size_at[x]
    BY <2>1, <2>4 DEF Tracked, MapsOK
  <2>8. Tracked'
    BY <2>1, <2>4, <2>6, <2>7, TrackedStep DEF d
  <2>9. CountFits'
    BY <2>1, <2>3, <2>4, <2>5, CountLeave DEF Counted, Tracked
  <2>. QED BY <2>8, <2>9
<1>11. ASSUME NEW h \in Handle, ReleaseDelta(h) PROVE Tracked' /\ CountFits'
  <2>. DEFINE d == handle[h].fd
              r == [NoHandle EXCEPT !.pc = "close", !.file = handle[h].file, !.fd = d]
  <2>1. Set(h, r) /\ handle[h].pc = "delta" /\ UNCHANGED maps
    BY <1>11 DEF ReleaseDelta, At
  <2>2. handle[h] \in HandleRec /\ d \in Fd /\ handle[h].file \in File
        /\ path_of[d] = Absent /\ size_at[d] = Absent
    BY <2>1, Typed, Fields DEF Fits
  <2>3. r \in HandleRec /\ r.pc = "close" /\ r.fd = d
    BY <2>2, Marks DEF HandleRec, HandlePC, NoHandle
  <2>. HIDE DEF r, d
  <2>4. handle'[h] = r /\ \A g \in Handle \ {h} : handle'[g] = handle[g]
    BY <2>1 DEF Set, Tracked
  <2>5. Fits(h)' /\ MapsOK'
    BY <2>1, <2>2, <2>3, <2>4, Marks DEF Fits, Tracked, MapsOK, maps
  <2>6. Tracked'
    BY <2>1, <2>3, <2>5, TrackedStep DEF d, maps
  <2>7. CountFits'
    BY <2>1, <2>3, <2>4, CountSame DEF Counted, maps
  <2>. QED BY <2>6, <2>7
<1>12. ASSUME NEW h \in Handle, Close(h) PROVE Tracked' /\ CountFits'
  <2>1. Set(h, NoHandle) /\ handle[h].pc = "close" /\ UNCHANGED maps
    BY <1>12 DEF Close, At
  <2>2. NoHandle \in HandleRec /\ NoHandle.pc = "idle" /\ NoHandle.fd = Absent
    BY Marks DEF NoHandle, HandleRec, HandlePC
  <2>3. handle'[h] = NoHandle /\ \A g \in Handle \ {h} : handle'[g] = handle[g]
    BY <2>1 DEF Set, Tracked
  <2>4. Fits(h)' /\ MapsOK'
    BY <2>1, <2>2, <2>3 DEF Fits, Tracked, MapsOK, maps
  <2>5. Tracked'
    BY <2>1, <2>2, <2>4, TrackedStep DEF maps
  <2>6. CountFits'
    BY <2>1, <2>2, <2>3, CountSame DEF Counted, maps
  <2>. QED BY <2>5, <2>6
<1>13. CASE Move
  <2>0. UNCHANGED maps /\ (MoveEnd(moving.file, moving.to, moving.bytes) \/ UNCHANGED handle)
    BY <1>13 DEF Move, MoveTwice
  <2>a. CASE UNCHANGED handle
    BY <2>0, <2>a, <1>1
  <2>b. CASE MoveEnd(moving.file, moving.to, moving.bytes)
    <3>1. PICK H \in SUBSET Handle : handle' =
              [h \in Handle |-> IF h \in H THEN [handle[h] EXCEPT !.orphan = TRUE] ELSE handle[h]]
      BY <2>b DEF MoveEnd
    <3>2. ASSUME NEW x \in HandleRec
          PROVE  LET r == [x EXCEPT !.orphan = TRUE] IN
                 /\ r \in HandleRec /\ r.pc = x.pc /\ r.fd = x.fd /\ r.key = x.key
                 /\ r.file = x.file /\ r.old = x.old
      BY DEF HandleRec
    <3>3. /\ handle' \in [Handle -> HandleRec]
          /\ \A h \in Handle : /\ handle'[h].pc = handle[h].pc /\ handle'[h].fd = handle[h].fd
                               /\ handle'[h].key = handle[h].key /\ handle'[h].old = handle[h].old
                               /\ handle'[h].file = handle[h].file
      BY <3>1, <3>2 DEF Tracked
    <3>. QED BY <2>0, <3>1, <3>3, TrackedSame, CountSame DEF Counted, maps
  <2>. QED BY <2>0, <2>a, <2>b
<1>14. CASE Worker
  <2>1. Move \/ UNCHANGED <<handle, maps>>
    BY <1>14 DEF Worker, StartPass, PassStep, CrawlFile, CrawlEnd, CopyFails, EndPass, MoveBegin,
                 MoveCopy
  <2>. QED BY <2>1, <1>1, <1>13
<1>15. CASE Call
  <2>1. \/ UNCHANGED <<handle, maps>>
        \/ \E h \in Handle, f \in File : OpenSize(h, f) \/ CreateRegister(h, f)
        \/ \E h \in Handle : ReleaseFails(h)
    BY <1>15 DEF Call, Write, WriteBuf, Fallocate, CopyFileRange, Ftruncate, Extend, ResizeOpen,
                 TruncatePath, Rename, RenameOver, UnlinkSize
  <2>. QED BY <2>1, <1>1, <1>2, <1>3, <1>9
<1>16. ASSUME NEW f \in File, Unlink(f) \/ UnlinkFails(f) PROVE Tracked' /\ CountFits'
  BY <1>16, <1>1 DEF Unlink, UnlinkFails
<1>17. CASE CallOn
  BY <1>17, <1>4, <1>5, <1>6, <1>7, <1>8, <1>10, <1>11, <1>12, <1>16 DEF CallOn
<1>18. CASE UNCHANGED vars
  BY <1>18, <1>1 DEF vars, maps
<1>. QED BY <1>14, <1>15, <1>17, <1>18 DEF Next, Request

\* Descriptor numbers are reused and two threads open and release the same file: still
\* every handle finds its own path and size in the maps, nothing is left behind under a
\* free number, and the registry counts exactly the handles of a path.
THEOREM HandlesCorrect == Spec => []HandlesTracked
<1>1. UsageInv /\ [Next]_vars => UsageInv'
  BY FilesNext, HandlesNext DEF UsageInv
<1>2. UsageInv => HandlesTracked
  BY DEF UsageInv, Tracked, Fits, Owned, CountFits, Holders, Counted, HandlesTracked
<1>. QED BY <1>1, <1>2, UsageInit, PTL DEF Spec
-----------------------------------------------------------------------------
(* Where the files of handles are, and what the crawl has seen *)

Live(h) == handle[h].pc \notin {"idle", "creating", "close", "leaked"}
\* Where the file of a handle is, from what the handle knows of it: one that a mover took
\* away has drifted, and nobody has a file that is being removed or is about to make it.
PlacedAt(h) ==
    /\ Live(h) => /\ where[handle[h].file] # Absent /\ gone[handle[h].file] = Absent
                  /\ ~handle[h].orphan => where[handle[h].file] = handle[h].key[1]
                  /\ handle[h].orphan => handle[h].key[1] \in drift
    /\ handle[h].pc = "creating" =>
          /\ handle[h].key[1] = 1 /\ gone[handle[h].key[2]] = Absent
          /\ handle[h].old = 0 /\ handle[h].new = 0 /\ ~handle[h].orphan
          /\ handle[h].file = Absent
Placed == \A h \in Handle : PlacedAt(h)
\* A file that is being removed is still there, or its old tier has drifted.
Leaving == \A f \in File : gone[f] # Absent =>
    where[f] # Absent /\ (where[f] # gone[f] => gone[f] \in drift)
Counts == /\ usage \in [Tier -> 0 .. W - 1] /\ drift \subseteq Tier
\* What the crawl has of a file.
Crawled(f) == seen[f] # Absent =>
    /\ phase # "idle"
    /\ phase = "crawl" => /\ seen[f].key[1] <= tier /\ where[f] \in {Absent, 1, seen[f].key[1]}
                          /\ quiet /\ seen[f].key[1] = tier => where[f] = tier /\ size[f] = seen[f].size
PassOK ==
    /\ phase \in {"idle", "crawl", "move"} /\ tier \in Tier /\ quiet \in BOOLEAN
    /\ seen \in [File -> [size : Size, key : Key] \cup {Absent}]
    /\ \A f \in File : Crawled(f)
    /\ moving # Absent => /\ phase = "move" /\ seen[moving.file] # Absent
                          /\ moving.to # seen[moving.file].key[1]
PlaceInv == Counts /\ Placed /\ Leaving /\ PassOK

LEMMA PlaceInit == Init => PlaceInv
<1>. SUFFICES ASSUME Init PROVE PlaceInv
  OBVIOUS
<1>1. Counts
  BY UsageAssumption DEF Init, Counts
<1>2. Placed
  BY DEF Init, Placed, PlacedAt, Live, NoHandle
<1>3. Leaving /\ PassOK
  BY Marks DEF Init, Leaving, PassOK, Crawled
<1>. QED BY <1>1, <1>2, <1>3 DEF PlaceInv

\* What the steps of a handle do: all others stay as they are.
Others(h) == \A g \in Handle \ {h} : handle'[g] = handle[g]
Advances(h, p, q) ==
    /\ Others(h) /\ handle[h].pc = p /\ handle'[h].pc = q
    /\ handle'[h].file = handle[h].file /\ handle'[h].key = handle[h].key
    /\ handle'[h].old = handle[h].old /\ handle'[h].orphan = handle[h].orphan
Ends(h, p) == Others(h) /\ handle[h].pc = p /\ handle'[h].pc \in {"idle", "close", "leaked"}

\* A step of one handle that moves no file.
LEMMA PlacedStep ==
    ASSUME Placed, NEW h \in Handle, Others(h), UNCHANGED <<where, gone>>, drift \subseteq drift',
           PlacedAt(h)'
    PROVE  Placed'
<1>1. ASSUME NEW g \in Handle \ {h} PROVE PlacedAt(g)'
  <2>1. PlacedAt(g) /\ handle'[g] = handle[g]
    BY DEF Placed, Others
  <2>. QED BY <2>1 DEF PlacedAt, Live
<1>. QED BY <1>1 DEF Placed

LEMMA Advance ==
    ASSUME Placed, NEW h \in Handle, NEW p, NEW q, Advances(h, p, q), UNCHANGED <<where, gone>>,
           drift \subseteq drift', p \notin {"idle", "creating", "close", "leaked"}, q # "creating"
    PROVE  Placed'
<1>1. Live(h) /\ PlacedAt(h)
  BY DEF Placed, Advances, Live
<1>2. PlacedAt(h)'
  BY <1>1 DEF Advances, PlacedAt, Live
<1>. QED BY <1>2, PlacedStep DEF Advances

LEMMA End ==
    ASSUME Placed, NEW h \in Handle, NEW p, Ends(h, p), UNCHANGED <<where, gone>>, drift \subseteq drift'
    PROVE  Placed'
<1>1. PlacedAt(h)'
  BY DEF Ends, PlacedAt, Live
<1>. QED BY <1>1, PlacedStep DEF Ends

\* Steps that leave handles and places alone.
LEMMA PlacedSame ==
    ASSUME Placed, UNCHANGED <<where, handle, gone>>, drift \subseteq drift'
    PROVE  Placed'
BY DEF Placed, PlacedAt, Live

LEMMA LeavingSame ==
    ASSUME Leaving, UNCHANGED <<where, gone>>, drift \subseteq drift'
    PROVE  Leaving'
BY DEF Leaving
-----------------------------------------------------------------------------
(* What each call does to its handle *)

LEMMA SetFields ==
    ASSUME Tracked, NEW h \in Handle, NEW r, Set(h, r)
    PROVE  handle'[h] = r /\ Others(h) /\ handle[h] \in HandleRec /\ Fits(h)
BY DEF Set, Tracked, Others

\* A new step of a handle leaves its other fields.
LEMMA Steps ==
    ASSUME NEW x \in HandleRec, NEW pc
    PROVE  LET r == [x EXCEPT !.pc = pc] IN
           /\ r.pc = pc /\ r.file = x.file /\ r.key = x.key /\ r.old = x.old
           /\ r.new = x.new /\ r.orphan = x.orphan
BY DEF HandleRec

LEMMA ToAdvances ==
    ASSUME Tracked, NEW h \in Handle, NEW p, NEW q, At(h, p), To(h, q)
    PROVE  Advances(h, p, q) /\ handle'[h].new = handle[h].new
<1>1. handle'[h] = [handle[h] EXCEPT !.pc = q] /\ Others(h) /\ handle[h] \in HandleRec
  BY SetFields DEF To
<1>. PICK x : x = handle[h]
  OBVIOUS
<1>2. x \in HandleRec /\ handle'[h] = [x EXCEPT !.pc = q]
  BY <1>1
<1>3. /\ handle'[h].pc = q /\ handle'[h].file = x.file /\ handle'[h].key = x.key
      /\ handle'[h].old = x.old /\ handle'[h].new = x.new /\ handle'[h].orphan = x.orphan
  BY <1>2, Steps
<1>. QED BY <1>1, <1>3 DEF Advances, At

LEMMA OpenSizeDoes ==
    ASSUME Tracked, NEW h \in Handle, NEW f \in File, OpenSize(h, f)
    PROVE  /\ Others(h) /\ handle[h].pc = "idle" /\ handle'[h].pc = "sized" /\ handle'[h].file = f
           /\ handle'[h].key = KeyOf(f) /\ handle'[h].old = size[f] /\ ~handle'[h].orphan
<1>. PICK k, o : k = KeyOf(f) /\ o = size[f]
  OBVIOUS
<1>. PICK r : r = [NoHandle EXCEPT !.pc = "sized", !.file = f, !.key = k, !.old = o]
  OBVIOUS
<1>1. r.pc = "sized" /\ r.file = f /\ r.key = k /\ r.old = o /\ r.orphan = FALSE
  BY DEF NoHandle
<1>2. Set(h, r) /\ handle[h].pc = "idle"
  BY DEF OpenSize, At
<1>3. handle'[h] = r /\ Others(h)
  BY <1>2, SetFields
<1>. QED BY <1>1, <1>2, <1>3

LEMMA CreateRegisterDoes ==
    ASSUME Tracked, NEW h \in Handle, NEW f \in File, CreateRegister(h, f)
    PROVE  /\ Others(h) /\ handle[h].pc = "idle" /\ handle'[h].pc = "creating"
           /\ handle'[h].key = <<1, f, name[f]>> /\ handle'[h].old = 0 /\ handle'[h].new = 0
           /\ ~handle'[h].orphan /\ handle'[h].file = Absent
<1>. PICK k : k = <<1, f, name[f]>>
  OBVIOUS
<1>. PICK r : r = [NoHandle EXCEPT !.pc = "creating", !.key = k]
  OBVIOUS
<1>1. r.pc = "creating" /\ r.key = k /\ r.old = 0 /\ r.new = 0 /\ r.orphan = FALSE
      /\ r.file = Absent
  BY DEF NoHandle
<1>2. Set(h, r) /\ handle[h].pc = "idle"
  BY DEF CreateRegister, At
<1>3. handle'[h] = r /\ Others(h)
  BY <1>2, SetFields
<1>. QED BY <1>1, <1>2, <1>3

LEMMA GetFdDoes ==
    ASSUME Tracked, NEW h \in Handle, NEW pc, NEW f, GetFd(h, pc, f)
    PROVE  /\ Others(h) /\ handle'[h].pc = pc /\ handle'[h].file = f
           /\ handle'[h].key = handle[h].key /\ handle'[h].old = handle[h].old
           /\ handle'[h].new = handle[h].new /\ handle'[h].orphan = handle[h].orphan
<1>1. PICK d : Set(h, [handle[h] EXCEPT !.pc = pc, !.fd = d, !.file = f])
  BY DEF GetFd
<1>. PICK x : x = handle[h]
  OBVIOUS
<1>2. x \in HandleRec /\ handle'[h] = [x EXCEPT !.pc = pc, !.fd = d, !.file = f] /\ Others(h)
  BY <1>1, SetFields
<1>3. /\ handle'[h].pc = pc /\ handle'[h].file = f /\ handle'[h].key = x.key
      /\ handle'[h].old = x.old /\ handle'[h].new = x.new /\ handle'[h].orphan = x.orphan
  BY <1>2 DEF HandleRec
<1>. QED BY <1>2, <1>3

LEMMA OpenFdDoes ==
    ASSUME Tracked, NEW h \in Handle, OpenFd(h)
    PROVE  Advances(h, "registered", "maps") /\ handle'[h].new = handle[h].new
BY GetFdDoes DEF OpenFd, At, Advances

LEMMA InsertMapsDoes ==
    ASSUME Tracked, NEW h \in Handle, InsertMaps(h)
    PROVE  \E p \in {"maps", "created"} : Advances(h, p, "open") /\ handle'[h].new = handle[h].new
<1>1. To(h, "open") /\ (At(h, "maps") \/ At(h, "created"))
  BY DEF InsertMaps
<1>2. CASE At(h, "maps")
  BY <1>1, <1>2, ToAdvances
<1>3. CASE At(h, "created")
  BY <1>1, <1>3, ToAdvances
<1>. QED BY <1>1, <1>2, <1>3

LEMMA ReleaseStatDoes ==
    ASSUME Tracked, NEW h \in Handle, NEW n \in Size, ReleaseStat(h, n)
    PROVE  Advances(h, "open", "stat") /\ handle'[h].new = n
<1>. PICK x : x = handle[h]
  OBVIOUS
<1>. DEFINE o == size_at[x.fd]
            k == path_of[x.fd]
<1>1. Set(h, [x EXCEPT !.pc = "stat", !.new = n, !.old = o, !.key = k]) /\ x.pc = "open"
  BY DEF ReleaseStat, At
<1>. HIDE DEF o, k
<1>2. /\ x \in HandleRec /\ handle'[h] = [x EXCEPT !.pc = "stat", !.new = n, !.old = o, !.key = k]
      /\ Others(h) /\ Fits(h)
  BY <1>1, SetFields
<1>3. /\ handle'[h].pc = "stat" /\ handle'[h].file = x.file /\ handle'[h].key = k
      /\ handle'[h].old = o /\ handle'[h].new = n /\ handle'[h].orphan = x.orphan
  BY <1>2 DEF HandleRec
<1>4. k = x.key /\ o = x.old
  BY <1>1, <1>2 DEF Fits, k, o
<1>. QED BY <1>1, <1>2, <1>3, <1>4 DEF Advances

LEMMA Endings ==
    ASSUME Tracked, NEW h \in Handle
    PROVE  /\ OpenFails(h) => Ends(h, "registered") \/ Ends(h, "creating")
           /\ ReleaseDelta(h) => Ends(h, "delta")
           /\ ReleaseFails(h) => Ends(h, "open")
           /\ Close(h) => Ends(h, "close")
<1>1. ASSUME NEW r, Set(h, r), r.pc \in {"idle", "close", "leaked"}, NEW p, At(h, p) PROVE Ends(h, p)
  BY <1>1, SetFields DEF Ends, At
<1>2. NoHandle.pc = "idle"
  BY DEF NoHandle
<1>3. ASSUME ReleaseDelta(h) PROVE Ends(h, "delta")
  <2>1. PICK r : Set(h, r) /\ r = [NoHandle EXCEPT !.pc = "close", !.file = handle[h].file, !.fd = handle[h].fd]
    BY <1>3 DEF ReleaseDelta
  <2>2. r.pc = "close"
    BY <2>1 DEF NoHandle
  <2>. QED BY <1>1, <1>3, <2>1, <2>2 DEF ReleaseDelta
<1>4. ASSUME ReleaseFails(h) PROVE Ends(h, "open")
  <2>1. PICK x : x = handle[h]
    OBVIOUS
  <2>2. PICK r : Set(h, r) /\ r = [x EXCEPT !.pc = "leaked", !.file = Absent]
    BY <1>4, <2>1 DEF ReleaseFails
  <2>3. x \in HandleRec
    BY <2>1 DEF Tracked
  <2>4. r.pc = "leaked"
    BY <2>2, <2>3 DEF HandleRec
  <2>. QED BY <1>1, <1>4, <2>2, <2>4 DEF ReleaseFails
<1>. QED BY <1>1, <1>2, <1>3, <1>4 DEF OpenFails, Close
-----------------------------------------------------------------------------
(* The places after each step *)

LEMMA ResizeDrift ==
    ASSUME NEW f \in File, NEW n, NEW H, Resize(f, n, H)
    PROVE  drift \subseteq drift'
BY DEF Resize

LEMMA ForfeitDrift == ASSUME NEW h \in Handle, Forfeit(h) PROVE drift \subseteq drift'
BY DEF Forfeit

LEMMA PlacedHandles ==
    ASSUME UsageInv, PlaceInv, NEW h \in Handle,
           \/ \E f \in File : OpenSize(h, f) \/ CreateRegister(h, f)
           \/ OpenRegister(h) \/ OpenFd(h) \/ OpenFails(h) \/ InsertMaps(h)
           \/ \E n \in Size : ReleaseStat(h, n)
           \/ ReleaseFails(h) \/ Forget(h) \/ ReleaseDelta(h) \/ Close(h)
    PROVE  Placed' /\ Leaving'
<1>. USE DEF UsageInv, PlaceInv
<1>1. ASSUME NEW f \in File, OpenSize(h, f) PROVE Placed' /\ Leaving'
  <2>1. UNCHANGED <<where, drift, gone>> /\ where[f] # Absent /\ gone[f] = Absent
    BY <1>1 DEF OpenSize, disk
  <2>2. /\ Others(h) /\ handle'[h].pc = "sized" /\ handle'[h].file = f
        /\ handle'[h].key = KeyOf(f) /\ ~handle'[h].orphan
    BY <1>1, OpenSizeDoes
  <2>3. PlacedAt(h)'
    BY <2>1, <2>2 DEF PlacedAt, KeyOf
  <2>. QED BY <2>1, <2>2, <2>3, PlacedStep, LeavingSame
<1>2. ASSUME NEW f \in File, CreateRegister(h, f) PROVE Placed' /\ Leaving'
  <2>1. UNCHANGED <<where, drift, gone>> /\ gone[f] = Absent
    BY <1>2 DEF CreateRegister, disk
  <2>2. /\ Others(h) /\ handle'[h].pc = "creating" /\ handle'[h].key = <<1, f, name[f]>>
        /\ handle'[h].old = 0 /\ handle'[h].new = 0 /\ ~handle'[h].orphan
        /\ handle'[h].file = Absent
    BY <1>2, CreateRegisterDoes
  <2>3. PlacedAt(h)'
    BY <2>1, <2>2 DEF PlacedAt, Live
  <2>. QED BY <2>1, <2>2, <2>3, PlacedStep, LeavingSame
<1>3. ASSUME OpenRegister(h) PROVE Placed' /\ Leaving'
  <2>1. Advances(h, "sized", "registered") /\ UNCHANGED <<where, drift, gone>>
    BY <1>3, ToAdvances DEF OpenRegister, disk
  <2>. QED BY <2>1, Advance, LeavingSame
<1>4. ASSUME OpenFd(h) PROVE Placed' /\ Leaving'
  <2>1. Advances(h, "registered", "maps") /\ UNCHANGED <<where, gone>>
    BY <1>4, OpenFdDoes DEF OpenFd
  <2>2. drift \subseteq drift'
    BY <1>4 DEF OpenFd, Resize
  <2>. QED BY <2>1, <2>2, Advance, LeavingSame
<1>5. ASSUME OpenFails(h) \/ ReleaseDelta(h) \/ Close(h) \/ ReleaseFails(h) PROVE Placed' /\ Leaving'
  <2>1. PICK p : Ends(h, p)
    BY <1>5, Endings
  <2>2. UNCHANGED <<where, gone>> /\ drift \subseteq drift'
    BY <1>5, ForfeitDrift DEF OpenFails, ReleaseDelta, ReleaseFails, Close, disk
  <2>. QED BY <2>1, <2>2, End, LeavingSame
<1>6. ASSUME InsertMaps(h) PROVE Placed' /\ Leaving'
  <2>1. PICK p \in {"maps", "created"} : Advances(h, p, "open")
    BY <1>6, InsertMapsDoes
  <2>2. UNCHANGED <<where, drift, gone>>
    BY <1>6 DEF InsertMaps, disk
  <2>. QED BY <2>1, <2>2, Advance, LeavingSame
<1>7. ASSUME NEW n \in Size, ReleaseStat(h, n) PROVE Placed' /\ Leaving'
  <2>1. Advances(h, "open", "stat") /\ UNCHANGED <<where, drift, gone>>
    BY <1>7, ReleaseStatDoes DEF ReleaseStat, disk
  <2>. QED BY <2>1, Advance, LeavingSame
<1>9. ASSUME Forget(h) PROVE Placed' /\ Leaving'
  <2>1. Advances(h, "stat", "delta") /\ UNCHANGED <<where, drift, gone>>
    BY <1>9, ToAdvances DEF Forget, disk
  <2>. QED BY <2>1, Advance, LeavingSame
<1>. QED BY <1>1, <1>2, <1>3, <1>4, <1>5, <1>6, <1>7, <1>9

\* No live handle has a file that is not there, or one that is being removed.
LEMMA NobodyHas ==
    ASSUME Placed, NEW f \in File, where[f] = Absent \/ gone[f] # Absent, NEW h \in Handle
    PROVE  /\ Live(h) => handle[h].file # f
           /\ gone[f] # Absent /\ handle[h].pc = "creating" => handle[h].key[2] # f
BY DEF Placed, PlacedAt

\* ::creat: what is made was nowhere.
LEMMA CreatDoes ==
    ASSUME UsageInv, PlaceInv, NEW h \in Handle, Creat(h)
    PROVE  \E g \in File :
              /\ Others(h) /\ handle[h].pc = "creating" /\ handle'[h].pc = "created"
              /\ handle'[h].file = g /\ handle'[h].key = handle[h].key
              /\ handle'[h].old = 0 /\ handle'[h].new = 0 /\ ~handle'[h].orphan
              /\ handle[h].key[1] = 1 /\ gone[g] = Absent /\ handle[h].key \in Key
              /\ \/ where[g] = 1 /\ UNCHANGED where /\ Resize(g, 0, {})
                 \/ /\ where[g] = Absent /\ where' = [where EXCEPT ![g] = 1]
                    /\ size' = [size EXCEPT ![g] = 0] /\ UNCHANGED drift
              /\ UNCHANGED <<usage, gone>>
<1>. USE DEF UsageInv, PlaceInv
<1>. PICK f : f = handle[h].key[2]
  OBVIOUS
<1>1. /\ handle[h].pc = "creating" /\ UNCHANGED <<usage, gone>>
      /\ \/ where[f] = 1 /\ Resize(f, 0, {}) /\ UNCHANGED where /\ GetFd(h, "created", f)
         \/ \E g \in File : /\ where[g] = Absent /\ where' = [where EXCEPT ![g] = 1]
                            /\ size' = [size EXCEPT ![g] = 0] /\ GetFd(h, "created", g)
                            /\ UNCHANGED drift
  BY DEF Creat, At
<1>2. PlacedAt(h) /\ Fits(h)
  BY DEF Placed, Tracked
<1>3. /\ handle[h].key[1] = 1 /\ gone[f] = Absent /\ handle[h].old = 0 /\ handle[h].new = 0
      /\ ~handle[h].orphan /\ handle[h].key \in Key /\ f \in File
  BY <1>1, <1>2 DEF PlacedAt, Fits, Key
<1>4. PICK g \in File :
        /\ GetFd(h, "created", g) /\ gone[g] = Absent
        /\ \/ where[g] = 1 /\ UNCHANGED where /\ Resize(g, 0, {})
           \/ /\ where[g] = Absent /\ where' = [where EXCEPT ![g] = 1]
              /\ size' = [size EXCEPT ![g] = 0] /\ UNCHANGED drift
  BY <1>1, <1>3 DEF Leaving
<1>5. /\ Others(h) /\ handle'[h].pc = "created" /\ handle'[h].file = g
      /\ handle'[h].key = handle[h].key /\ handle'[h].old = handle[h].old
      /\ handle'[h].new = handle[h].new /\ handle'[h].orphan = handle[h].orphan
  BY <1>4, GetFdDoes
<1>. QED BY <1>1, <1>3, <1>4, <1>5

\* A file appears in tier t where there was none.
LEMMA PlacedAppears ==
    ASSUME UsageInv, PlaceInv, NEW g \in File, NEW t \in Tier, where[g] = Absent,
           where' = [where EXCEPT ![g] = t], UNCHANGED gone, drift \subseteq drift',
           NEW h \in Handle, handle'[h] = handle[h]
    PROVE  PlacedAt(h)' /\ Leaving'
<1>. USE DEF UsageInv, PlaceInv
<1>1. where'[g] = t /\ \A e : e # g => where'[e] = where[e]
  BY DEF FilesOK
<1>2. Live(h) => handle[h].file # g
  BY NobodyHas
<1>3. PlacedAt(h) /\ t # Absent
  BY UsageAssumption DEF Placed, Tier
<1>4. PlacedAt(h)'
  BY <1>1, <1>2, <1>3 DEF PlacedAt, Live
<1>5. Leaving'
  BY <1>1 DEF Leaving
<1>. QED BY <1>4, <1>5

LEMMA PlacedCreat ==
    ASSUME UsageInv, PlaceInv, NEW h \in Handle, Creat(h)
    PROVE  Placed' /\ Leaving'
<1>. USE DEF UsageInv, PlaceInv
<1>1. PICK g \in File :
        /\ Others(h) /\ handle'[h].pc = "created" /\ handle'[h].file = g
        /\ handle'[h].key = handle[h].key /\ ~handle'[h].orphan
        /\ handle[h].key[1] = 1 /\ gone[g] = Absent /\ UNCHANGED gone
        /\ \/ where[g] = 1 /\ UNCHANGED where /\ Resize(g, 0, {})
           \/ where[g] = Absent /\ where' = [where EXCEPT ![g] = 1] /\ UNCHANGED drift
  BY CreatDoes
<1>2. where'[g] = 1 /\ 1 # Absent
  BY <1>1, UsageAssumption DEF FilesOK
<1>3. PlacedAt(h)'
  BY <1>1, <1>2 DEF PlacedAt
<1>4. CASE where[g] = 1 /\ UNCHANGED where /\ Resize(g, 0, {})
  BY <1>1, <1>3, <1>4, ResizeDrift, PlacedStep, LeavingSame
<1>5. CASE where[g] = Absent /\ where' = [where EXCEPT ![g] = 1] /\ UNCHANGED drift
  <2>1. ASSUME NEW e \in Handle \ {h} PROVE PlacedAt(e)'
    <3>1. handle'[e] = handle[e]
      BY <1>1 DEF Others
    <3>. QED BY <1>1, <1>5, <3>1, PlacedAppears, Marks
  <2>2. Leaving'
    BY <1>1, <1>2, <1>5 DEF Leaving, FilesOK
  <2>. QED BY <1>3, <2>1, <2>2 DEF Placed
<1>. QED BY <1>1, <1>4, <1>5

\* A file goes that no handle has.
LEMMA PlacedVanish ==
    ASSUME UsageInv, PlaceInv, NEW f \in File, Vanish(f), UNCHANGED handle, drift \subseteq drift',
           gone' = [gone EXCEPT ![f] = Absent],
           \A h \in Handle : Live(h) => handle[h].file # f
    PROVE  Placed' /\ Leaving'
<1>. USE DEF UsageInv, PlaceInv
<1>1. /\ gone'[f] = Absent
      /\ \A e \in File \ {f} : where'[e] = where[e] /\ gone'[e] = gone[e]
  BY DEF Vanish, FilesOK
<1>2. ASSUME NEW h \in Handle PROVE PlacedAt(h)'
  <2>1. PlacedAt(h) /\ Fits(h)
    BY DEF Placed, Tracked
  <2>2. Live(h) => handle[h].file \in File \ {f}
    BY <2>1 DEF Fits, Live
  <2>3. handle[h].pc = "creating" => handle[h].key[2] \in File
    BY <2>1 DEF Fits, Key
  <2>. QED BY <1>1, <2>1, <2>2, <2>3 DEF PlacedAt, Live
<1>3. Leaving'
  BY <1>1 DEF Leaving
<1>. QED BY <1>2, <1>3 DEF Placed

LEMMA PlacedUnlink ==
    ASSUME UsageInv, PlaceInv, NEW f \in File, Unlink(f)
    PROVE  Placed' /\ Leaving'
<1>1. /\ UNCHANGED <<handle, drift>> /\ gone[f] # Absent /\ Vanish(f)
      /\ gone' = [gone EXCEPT ![f] = Absent]
  BY DEF Unlink
<1>2. \A h \in Handle : Live(h) => handle[h].file # f
  BY <1>1, NobodyHas DEF PlaceInv
<1>. QED BY <1>1, <1>2, PlacedVanish

LEMMA PlacedRenameOver ==
    ASSUME UsageInv, PlaceInv, NEW f \in File, NEW g \in File, RenameOver(f, g)
    PROVE  Placed' /\ Leaving'
<1>1. /\ UNCHANGED <<handle, gone>> /\ gone[g] = Absent /\ Vanish(g) /\ drift \subseteq drift'
      /\ \A h \in Handle : handle[h].file # g
  BY DEF RenameOver, Unlocked, Unused
<1>2. gone' = [gone EXCEPT ![g] = Absent]
  BY <1>1 DEF UsageInv, FilesOK
<1>. QED BY <1>1, <1>2, PlacedVanish

LEMMA PlacedUnlinkFails ==
    ASSUME UsageInv, PlaceInv, NEW f \in File, UnlinkFails(f)
    PROVE  Placed' /\ Leaving'
<1>. USE DEF UsageInv, PlaceInv
<1>1. /\ UNCHANGED <<handle, where>> /\ drift \subseteq drift' /\ gone' = [gone EXCEPT ![f] = Absent]
  BY DEF UnlinkFails, disk
<1>2. \A e : e \in File => gone'[e] = gone[e] \/ gone'[e] = Absent
  BY <1>1 DEF FilesOK
<1>3. ASSUME NEW h \in Handle PROVE PlacedAt(h)'
  <2>1. PlacedAt(h) /\ Fits(h)
    BY DEF Placed, Tracked
  <2>2. Live(h) => handle[h].file \in File
    BY <2>1 DEF Fits, Live
  <2>3. handle[h].pc = "creating" => handle[h].key[2] \in File
    BY <2>1 DEF Fits, Key
  <2>. QED BY <1>1, <1>2, <2>1, <2>2, <2>3 DEF PlacedAt, Live
<1>4. Leaving'
  BY <1>1, <1>2 DEF Leaving
<1>. QED BY <1>3, <1>4 DEF Placed

LEMMA PlacedUnlinkSize ==
    ASSUME UsageInv, PlaceInv, NEW f \in File, UnlinkSize(f)
    PROVE  Placed' /\ Leaving'
<1>. USE DEF UsageInv, PlaceInv
<1>1. /\ UNCHANGED <<where, handle, drift>> /\ gone' = [gone EXCEPT ![f] = where[f]]
      /\ where[f] # Absent /\ (\A h \in Handle : handle[h].file # f)
      /\ \A h \in Handle : handle[h].pc = "creating" => handle[h].key[2] # f
  BY DEF UnlinkSize, Unlocked, Unused, Busy, Creating, At, disk
<1>2. gone'[f] = where[f] /\ \A e : e # f => gone'[e] = gone[e]
  BY <1>1 DEF FilesOK
<1>3. ASSUME NEW h \in Handle PROVE PlacedAt(h)'
  BY <1>1, <1>2 DEF Placed, PlacedAt, Live
<1>4. Leaving'
  BY <1>1, <1>2 DEF Leaving
<1>. QED BY <1>3, <1>4 DEF Placed

\* A move marks the handles that it takes the file away from.
LEMMA MoveEndDoes ==
    ASSUME UsageInv, NEW f \in File, NEW to, NEW bytes, MoveEnd(f, to, bytes), NEW from,
           from = seen[f].key[1]
    PROVE  /\ where[f] = from
           /\ where' = [where EXCEPT ![f] = to] /\ size' = [size EXCEPT ![f] = bytes]
           /\ \A h \in Handle :
                /\ handle'[h].pc = handle[h].pc /\ handle'[h].file = handle[h].file
                /\ handle'[h].key = handle[h].key /\ handle'[h].old = handle[h].old
                /\ handle'[h].new = handle[h].new
                /\ IF handle[h].file = f /\ handle[h].pc # "close" THEN handle'[h].orphan
                   ELSE handle'[h].orphan = handle[h].orphan
           /\ drift \subseteq drift' /\ drift' \subseteq drift \cup {from, to}
           /\ (\E h \in Handle : handle[h].file = f /\ handle[h].pc # "close") => from \in drift'
           /\ size[f] # seen[f].size \/ gone[f] = from => from \in drift'
           /\ bytes # seen[f].size => to \in drift'
           /\ usage' = Shift(f, from, to)
<1>. USE DEF UsageInv
<1>. PICK H : H = {h \in Handle : handle[h].file = f /\ handle[h].pc # "close"}
  OBVIOUS
<1>1. /\ where' = [where EXCEPT ![f] = to] /\ size' = [size EXCEPT ![f] = bytes]
      /\ usage' = Shift(f, from, to) /\ InPlace(f)
      /\ handle' = [h \in Handle |-> IF h \in H
                                     THEN [handle[h] EXCEPT !.orphan = TRUE] ELSE handle[h]]
      /\ drift' = drift \cup (IF size[f] # seen[f].size \/ H # {} \/ gone[f] = from
                              THEN {from} ELSE {})
                        \cup (IF bytes # seen[f].size THEN {to} ELSE {})
  BY DEF MoveEnd
<1>2. where[f] = from
  BY <1>1 DEF InPlace, KeyOf
<1>3. ASSUME NEW x \in HandleRec
      PROVE  LET r == [x EXCEPT !.orphan = TRUE] IN
             /\ r.pc = x.pc /\ r.file = x.file /\ r.key = x.key /\ r.old = x.old
             /\ r.new = x.new /\ r.orphan = TRUE
  BY DEF HandleRec
<1>4. ASSUME NEW h \in Handle
      PROVE  /\ handle'[h].pc = handle[h].pc /\ handle'[h].file = handle[h].file
             /\ handle'[h].key = handle[h].key /\ handle'[h].old = handle[h].old
             /\ handle'[h].new = handle[h].new
             /\ IF h \in H THEN handle'[h].orphan ELSE handle'[h].orphan = handle[h].orphan
  <2>. PICK x : x = handle[h]
    OBVIOUS
  <2>1. x \in HandleRec
    BY DEF Tracked
  <2>2. handle'[h] = IF h \in H THEN [x EXCEPT !.orphan = TRUE] ELSE x
    BY <1>1
  <2>. QED BY <1>3, <2>1, <2>2
<1>5. drift \subseteq drift' /\ drift' \subseteq drift \cup {from, to}
  BY <1>1
<1>6. /\ H # {} \/ size[f] # seen[f].size \/ gone[f] = from => from \in drift'
      /\ bytes # seen[f].size => to \in drift'
  BY <1>1
<1>. QED BY <1>1, <1>2, <1>4, <1>5, <1>6

\* The file that a mover is at.
LEMMA Mover ==
    ASSUME UsageInv, PlaceInv, Move
    PROVE  \E f \in File, to \in Tier, bytes \in Size :
              /\ moving # Absent /\ f = moving.file /\ to = moving.to /\ bytes = moving.bytes
              /\ MoveEnd(f, to, bytes) \/ MoveTwice(f, to, bytes)
              /\ seen[f] # Absent /\ seen[f].size \in Size /\ seen[f].key \in Key
              /\ seen[f].key[1] \in Tier /\ to # seen[f].key[1] /\ phase = "move"
              /\ moving' = Absent /\ seen' = [seen EXCEPT ![f] = Absent]
              /\ UNCHANGED <<gone, phase, tier, quiet>>
<1>. USE DEF UsageInv, PlaceInv
<1>. PICK f, to, bytes : f = moving.file /\ to = moving.to /\ bytes = moving.bytes
  OBVIOUS
<1>1. /\ moving # Absent /\ bytes # Absent
      /\ MoveEnd(f, to, bytes) \/ MoveTwice(f, to, bytes)
      /\ moving' = Absent /\ seen' = [seen EXCEPT ![f] = Absent]
      /\ UNCHANGED <<gone, phase, tier, quiet>>
  BY DEF Move
<1>2. f \in File /\ to \in Tier /\ bytes \in Size
  BY <1>1 DEF FilesOK
<1>3. seen[f] # Absent /\ to # seen[f].key[1] /\ phase = "move"
  BY <1>1 DEF PassOK
<1>4. seen[f] \in [size : Size, key : Key]
  BY <1>2, <1>3 DEF PassOK
<1>5. seen[f].size \in Size /\ seen[f].key \in Key /\ seen[f].key[1] \in Tier
  BY <1>4 DEF Key
<1>. QED BY <1>1, <1>2, <1>3, <1>5

LEMMA PlacedMoveEnd ==
    ASSUME UsageInv, PlaceInv, NEW f \in File, NEW to \in Tier, NEW bytes, MoveEnd(f, to, bytes),
           UNCHANGED gone
    PROVE  Placed' /\ Leaving'
<1>. USE DEF UsageInv, PlaceInv
<1>. PICK from : from = seen[f].key[1]
  OBVIOUS
<1>1. /\ where' = [where EXCEPT ![f] = to] /\ where[f] = from
      /\ \A h \in Handle :
                /\ handle'[h].pc = handle[h].pc /\ handle'[h].file = handle[h].file
                /\ handle'[h].key = handle[h].key /\ handle'[h].old = handle[h].old
                /\ handle'[h].new = handle[h].new
                /\ IF handle[h].file = f /\ handle[h].pc # "close" THEN handle'[h].orphan
                   ELSE handle'[h].orphan = handle[h].orphan
      /\ drift \subseteq drift'
      /\ (\E h \in Handle : handle[h].file = f /\ handle[h].pc # "close") => from \in drift'
      /\ gone[f] = from => from \in drift'
  BY MoveEndDoes
<1>2. to # Absent
  BY UsageAssumption DEF Tier
<1>3. where'[f] = to /\ \A e : e # f => where'[e] = where[e]
  BY <1>1 DEF FilesOK
<1>4. ASSUME NEW h \in Handle PROVE PlacedAt(h)'
  <2>1. PlacedAt(h) /\ Live(h)' = Live(h) /\ Fits(h)
    BY <1>1 DEF Placed, Live, Tracked
  <2>2. CASE handle[h].pc = "creating"
    <3>1. handle[h].file # f
      BY <2>1, <2>2, Marks DEF PlacedAt
    <3>. QED BY <1>1, <2>1, <2>2, <3>1 DEF PlacedAt, Live
  <2>3. CASE Live(h) /\ handle[h].file = f
    <3>1. handle[h].pc \notin {"close", "creating"} /\ from \in drift' /\ handle'[h].orphan
      BY <1>1, <2>3 DEF Live
    <3>2. handle[h].key[1] \in drift'
      BY <1>1, <2>1, <2>3, <3>1 DEF PlacedAt
    <3>. QED BY <1>1, <1>2, <1>3, <2>1, <2>3, <3>1, <3>2 DEF PlacedAt
  <2>4. CASE Live(h) /\ handle[h].file # f
    <3>1. where'[handle[h].file] = where[handle[h].file] /\ handle'[h].orphan = handle[h].orphan
      BY <1>1, <1>3, <2>4
    <3>2. handle[h].pc # "creating"
      BY <2>4 DEF Live
    <3>. QED BY <1>1, <2>1, <2>4, <3>1, <3>2 DEF PlacedAt
  <2>5. CASE ~Live(h) /\ handle[h].pc # "creating"
    BY <1>1, <2>1, <2>5 DEF PlacedAt
  <2>. QED BY <2>2, <2>3, <2>4, <2>5
<1>5. Leaving'
  BY <1>1, <1>2, <1>3 DEF Leaving
<1>. QED BY <1>4, <1>5 DEF Placed

LEMMA PlacedMove ==
    ASSUME UsageInv, PlaceInv, Move
    PROVE  Placed' /\ Leaving'
<1>1. PICK f \in File, to \in Tier, bytes \in Size :
         MoveEnd(f, to, bytes) \/ (MoveTwice(f, to, bytes) /\ UNCHANGED gone)
  BY Mover
<1>2. UNCHANGED gone
  BY DEF Move
<1>3. CASE MoveEnd(f, to, bytes)
  BY <1>2, <1>3, PlacedMoveEnd
<1>4. CASE MoveTwice(f, to, bytes)
  <2>1. PICK g \in File : where[g] = Absent /\ where' = [where EXCEPT ![g] = to]
    BY <1>4 DEF MoveTwice
  <2>2. UNCHANGED handle /\ drift \subseteq drift'
    BY <1>4 DEF MoveTwice
  <2>3. \A h \in Handle : PlacedAt(h)'
    BY <1>2, <2>1, <2>2, PlacedAppears
  <2>4. Leaving'
    <3>1. where'[g] = to /\ (\A e : e # g => where'[e] = where[e]) /\ to # Absent
      BY <2>1, UsageAssumption DEF UsageInv, FilesOK, Tier
    <3>. QED BY <1>2, <2>1, <2>2, <3>1 DEF Leaving, PlaceInv
  <2>. QED BY <2>3, <2>4 DEF Placed
<1>. QED BY <1>1, <1>3, <1>4

LEMMA PlacedCrawlEnd ==
    ASSUME UsageInv, PlaceInv, CrawlEnd
    PROVE  Placed' /\ Leaving'
<1>. USE DEF UsageInv, PlaceInv
<1>1. /\ UNCHANGED <<where, handle, gone>>
      /\ drift' = IF quiet /\ Settled(tier) THEN drift \ {tier} ELSE drift \cup {tier}
  BY DEF CrawlEnd, disk
<1>2. ASSUME NEW h \in Handle PROVE PlacedAt(h)'
  <2>1. PlacedAt(h) /\ Live(h)' = Live(h)
    BY <1>1 DEF Placed, Live
  <2>2. ASSUME Live(h), handle[h].orphan PROVE handle[h].key[1] \in drift'
    <3>1. handle[h].key[1] \in drift
      BY <2>1, <2>2 DEF PlacedAt
    <3>2. CASE Settled(tier)
      <4>1. h \notin Owing(tier)
        BY <2>2, <3>2 DEF Settled
      <4>2. handle[h].key[1] # tier
        BY <2>2, <4>1 DEF Owing, Live
      <4>. QED BY <1>1, <3>1, <4>2
    <3>3. CASE ~Settled(tier)
      BY <1>1, <3>1, <3>3
    <3>. QED BY <3>2, <3>3
  <2>. QED BY <1>1, <2>1, <2>2 DEF PlacedAt, Live
<1>3. Leaving'
  <2>. SUFFICES ASSUME NEW f \in File, gone[f] # Absent
                PROVE  where[f] # Absent /\ (where[f] # gone[f] => gone[f] \in drift')
    BY <1>1 DEF Leaving
  <2>1. where[f] # Absent /\ (where[f] # gone[f] => gone[f] \in drift)
    BY DEF Leaving
  <2>2. Settled(tier) => gone[f] # tier
    BY DEF Settled
  <2>. QED BY <1>1, <2>1, <2>2
<1>. QED BY <1>2, <1>3 DEF Placed

LEMMA PlacedNext == UsageInv /\ PlaceInv /\ [Next]_vars => Placed' /\ Leaving'
<1>. SUFFICES ASSUME UsageInv, PlaceInv, [Next]_vars PROVE Placed' /\ Leaving'
  OBVIOUS
<1>. USE DEF PlaceInv
<1>1. ASSUME UNCHANGED <<where, handle, gone>>, drift \subseteq drift' PROVE Placed' /\ Leaving'
  BY <1>1, PlacedSame, LeavingSame
<1>2. ASSUME NEW h \in Handle, NEW n \in Size, ResizeOpen(h, n) PROVE Placed' /\ Leaving'
  BY <1>1, <1>2 DEF ResizeOpen, Resize
<1>3. ASSUME NEW f \in File, NEW n \in Size, TruncatePath(f, n) PROVE Placed' /\ Leaving'
  BY <1>1, <1>3 DEF TruncatePath, Resize
<1>4. ASSUME NEW f \in File, Rename(f) \/ UnlinkSize(f) \/ \E g \in File : RenameOver(f, g)
      PROVE  Placed' /\ Leaving'
  BY <1>1, <1>4, PlacedUnlinkSize, PlacedRenameOver DEF Rename
<1>5. CASE Call
  BY <1>5, <1>2, <1>3, <1>4, PlacedHandles
     DEF Call, Write, WriteBuf, Fallocate, CopyFileRange, Ftruncate, Extend
<1>6. CASE CallOn
  BY <1>6, PlacedHandles, PlacedCreat, PlacedUnlink, PlacedUnlinkFails DEF CallOn
<1>7. CASE Worker
  <2>1. \/ Move \/ CrawlEnd
        \/ UNCHANGED <<where, handle, gone, drift>>
    BY <1>7 DEF Worker, PassStep, StartPass, CrawlFile, MoveCopy, CopyFails, EndPass, MoveBegin, disk
  <2>. QED BY <2>1, <1>1, PlacedMove, PlacedCrawlEnd
<1>8. CASE UNCHANGED vars
  BY <1>8, <1>1 DEF vars
<1>. QED BY <1>5, <1>6, <1>7, <1>8 DEF Next, Request
-----------------------------------------------------------------------------
(* Counts and the pass *)

LEMMA Width == ASSUME NEW a \in Int PROVE a % W \in 0 .. W - 1
BY UsageAssumption, DivMod

LEMMA CountsSame ==
    ASSUME Counts, UNCHANGED usage, drift' \subseteq Tier
    PROVE  Counts'
BY DEF Counts

\* The path of a handle that is neither idle nor closing, and the file it has.
LEMMA Named ==
    ASSUME Tracked, NEW h \in Handle
    PROVE  /\ handle[h].pc \notin {"idle", "close"} => handle[h].key \in Key /\ handle[h].key[1] \in Tier
           /\ Live(h) => handle[h].file \in File
           /\ handle[h].old \in Size /\ handle[h].new \in Size
<1>1. Fits(h) /\ handle[h] \in HandleRec
  BY DEF Tracked
<1>2. handle[h].old \in Size /\ handle[h].new \in Size
  BY <1>1 DEF HandleRec
<1>. QED BY <1>1, <1>2 DEF Fits, Live, Key

LEMMA CountsShift ==
    ASSUME Counts, NEW f \in File, NEW from \in Tier, NEW to \in Tier, from # to,
           seen[f].size \in Size, usage' = Shift(f, from, to), drift' \subseteq drift \cup {from, to}
    PROVE  Counts'
<1>. PICK s : s = seen[f].size
  OBVIOUS
<1>1. s \in Int
  BY DEF Size
<1>2. usage' = [usage EXCEPT ![from] = (usage[from] - s) % W, ![to] = (usage[to] + s) % W]
  BY DEF Shift, Counts
<1>3. usage[from] - s \in Int /\ usage[to] + s \in Int
  BY <1>1, UsageAssumption DEF Counts
<1>4. (usage[from] - s) % W \in 0 .. W - 1 /\ (usage[to] + s) % W \in 0 .. W - 1
  BY <1>3, Width
<1>5. drift' \subseteq Tier
  BY DEF Counts
<1>. QED BY <1>2, <1>4, <1>5 DEF Counts

LEMMA CountsNext == UsageInv /\ PlaceInv /\ [Next]_vars => Counts'
<1>. SUFFICES ASSUME UsageInv, PlaceInv, [Next]_vars PROVE Counts'
  OBVIOUS
<1>. USE DEF UsageInv, PlaceInv
<1>0. drift \subseteq Tier
  BY DEF Counts
<1>1. ASSUME NEW f \in File, NEW n, NEW H, Resize(f, n, H), where[f] # Absent PROVE drift' \subseteq Tier
  BY <1>1 DEF Resize, Counts, FilesOK
<1>3. ASSUME NEW h \in Handle, handle[h].pc \notin {"idle", "close"}, Forfeit(h)
      PROVE  drift' \subseteq Tier
  BY <1>3, Named DEF Forfeit, Counts
<1>4. ASSUME NEW h \in Handle, NEW n \in Size, ResizeOpen(h, n) PROVE Counts'
  <2>1. Live(h)
    BY <1>4 DEF ResizeOpen, At, Live
  <2>2. handle[h].file \in File /\ where[handle[h].file] # Absent
    BY <2>1, Named DEF Placed, PlacedAt
  <2>3. Resize(handle[h].file, n, {h}) /\ UNCHANGED usage
    BY <1>4 DEF ResizeOpen
  <2>. QED BY <1>1, <2>2, <2>3, CountsSame
<1>5. ASSUME NEW f \in File, NEW n \in Size, TruncatePath(f, n) PROVE Counts'
  BY <1>1, <1>5, CountsSame DEF TruncatePath
<1>6. ASSUME NEW f \in File, UnlinkSize(f) PROVE Counts'
  <2>1. /\ usage' = [usage EXCEPT ![where[f]] = (@ - size[f]) % W] /\ UNCHANGED drift
        /\ where[f] \in Tier
    BY <1>6 DEF UnlinkSize, Unlocked, FilesOK
  <2>2. usage[where[f]] - size[f] \in Int
    BY <2>1, UsageAssumption DEF Counts, FilesOK, Size
  <2>3. (usage[where[f]] - size[f]) % W \in 0 .. W - 1
    BY <2>2, Width
  <2>. QED BY <2>1, <2>3 DEF Counts
<1>7. CASE Call
  <2>1. ASSUME NEW h \in Handle, NEW f \in File, OpenSize(h, f) \/ CreateRegister(h, f) PROVE Counts'
    BY <2>1, CountsSame, <1>0 DEF OpenSize, CreateRegister
  <2>2. ASSUME NEW h \in Handle, ReleaseFails(h) PROVE Counts'
    <3>1. handle[h].pc \notin {"idle", "close"} /\ Forfeit(h) /\ UNCHANGED usage
      BY <2>2 DEF ReleaseFails, At
    <3>. QED BY <3>1, <1>3, CountsSame
  <2>3. ASSUME NEW f \in File, Rename(f) PROVE Counts'
    BY <2>3, <1>0, CountsSame DEF Rename
  <2>4. ASSUME NEW f \in File, NEW g \in File, RenameOver(f, g) PROVE Counts'
    <3>1. where[g] \in Tier /\ UNCHANGED usage /\ drift' \subseteq drift \cup {where[g]}
      BY <2>4 DEF RenameOver, Unlocked, FilesOK
    <3>. QED BY <3>1, <1>0, CountsSame
  <2>. QED BY <1>7, <1>4, <1>5, <1>6, <2>1, <2>2, <2>3, <2>4
         DEF Call, Write, WriteBuf, Fallocate, CopyFileRange, Ftruncate, Extend
<1>8. CASE CallOn
  <2>1. ASSUME NEW h \in Handle, OpenFd(h) PROVE Counts'
    <3>1. Live(h) /\ UNCHANGED usage
      BY <2>1 DEF OpenFd, At, Live
    <3>. PICK f : f = handle[h].file
      OBVIOUS
    <3>2. f \in File /\ where[f] # Absent
      BY <3>1, Named DEF Placed, PlacedAt
    <3>3. Resize(f, size[f], {h}) \/ Resize(f, 0, {h})
      BY <2>1 DEF OpenFd
    <3>. QED BY <3>1, <3>2, <3>3, <1>1, CountsSame
  <2>2. ASSUME NEW h \in Handle, OpenFails(h) PROVE Counts'
    <3>1. handle[h].pc \notin {"idle", "close"} /\ Forfeit(h) /\ UNCHANGED usage
      BY <2>2 DEF OpenFails, At
    <3>. QED BY <3>1, <1>3, CountsSame
  <2>3. ASSUME NEW h \in Handle, ReleaseDelta(h) PROVE Counts'
    <3>. PICK t : t = handle[h].key[1]
      OBVIOUS
    <3>1. /\ usage' = [usage EXCEPT ![t] = (@ + Delta(h)) % W] /\ UNCHANGED drift
          /\ handle[h].pc \notin {"idle", "close"}
      BY <2>3 DEF ReleaseDelta, At
    <3>3. t \in Tier /\ handle[h].old \in Size /\ handle[h].new \in Size
      BY <3>1, Named
    <3>5. usage[t] + Delta(h) \in Int
      BY <3>3, UsageAssumption DEF Counts, Delta, Size
    <3>6. (usage[t] + Delta(h)) % W \in 0 .. W - 1
      BY <3>5, Width
    <3>. QED BY <3>1, <3>6 DEF Counts
  <2>4. ASSUME NEW f \in File, Unlink(f) \/ UnlinkFails(f) PROVE Counts'
    <3>1. UNCHANGED usage /\ (drift' = drift \/ (gone[f] # Absent /\ drift' = drift \cup {gone[f]}))
      BY <2>4 DEF Unlink, UnlinkFails
    <3>. QED BY <3>1, <1>0, CountsSame DEF FilesOK
  <2>5. ASSUME NEW h \in Handle,
               \/ OpenRegister(h) \/ InsertMaps(h) \/ Forget(h) \/ Close(h)
               \/ \E n \in Size : ReleaseStat(h, n)
        PROVE  Counts'
    BY <2>5, <1>0, CountsSame DEF OpenRegister, InsertMaps, Forget, Close, ReleaseStat
  <2>6. ASSUME NEW h \in Handle, Creat(h) PROVE Counts'
    <3>1. PICK g \in File : /\ UNCHANGED usage
                            /\ UNCHANGED drift \/ (where[g] = 1 /\ Resize(g, 0, {}))
      BY <2>6, CreatDoes
    <3>2. 1 # Absent
      BY UsageAssumption
    <3>. QED BY <1>0, <1>1, <3>1, <3>2, CountsSame
  <2>. QED BY <1>8, <2>1, <2>2, <2>3, <2>4, <2>5, <2>6 DEF CallOn
<1>9. CASE Move
  <2>1. PICK f \in File, to \in Tier, bytes \in Size :
          /\ MoveEnd(f, to, bytes) \/ MoveTwice(f, to, bytes)
          /\ seen[f].size \in Size /\ seen[f].key[1] \in Tier /\ to # seen[f].key[1]
    BY <1>9, Mover
  <2>. PICK from : from = seen[f].key[1]
    OBVIOUS
  <2>2. usage' = Shift(f, from, to) /\ drift' \subseteq drift \cup {from, to}
    <3>1. CASE MoveEnd(f, to, bytes)
      BY <3>1, MoveEndDoes
    <3>2. CASE MoveTwice(f, to, bytes)
      BY <3>2 DEF MoveTwice
    <3>. QED BY <2>1, <3>1, <3>2
  <2>. QED BY <2>1, <2>2, CountsShift
<1>10. CASE CrawlEnd
  <2>1. /\ usage' = [usage EXCEPT ![tier] = SeenIn(tier) % W]
        /\ drift' = IF quiet /\ Settled(tier) THEN drift \ {tier} ELSE drift \cup {tier}
    BY <1>10 DEF CrawlEnd
  <2>2. tier \in Tier
    BY DEF PassOK
  <2>3. SeenIn(tier) \in Int
    <3>. PICK S : S = {f \in File : seen[f] # Absent /\ seen[f].key[1] = tier}
      OBVIOUS
    <3>. PICK g : g = [f \in S |-> seen[f].size]
      OBVIOUS
    <3>1. SeenIn(tier) = Total(g, S)
      BY DEF SeenIn, Total
    <3>2. \A f \in S : g[f] \in Int
      <4>1. \A f \in S : seen[f] \in [size : Size, key : Key]
        BY DEF PassOK
      <4>. QED BY <4>1 DEF Size
    <3>3. IsFiniteSet(S)
      <4>1. S \subseteq File
        OBVIOUS
      <4>. QED BY <4>1, UsageAssumption, FS_Subset
    <3>. QED BY <3>1, <3>2, <3>3, TotalInt
  <2>4. SeenIn(tier) % W \in 0 .. W - 1
    BY <2>3, Width
  <2>. QED BY <2>1, <2>2, <2>4 DEF Counts
<1>11. CASE Worker
  <2>1. \/ Move \/ CrawlEnd
        \/ UNCHANGED <<usage, drift>>
    BY <1>11 DEF Worker, PassStep, StartPass, CrawlFile, MoveCopy, CopyFails, EndPass, MoveBegin
  <2>. QED BY <2>1, <1>0, <1>9, <1>10, CountsSame
<1>12. CASE UNCHANGED vars
  BY <1>12, <1>0, CountsSame DEF vars
<1>. QED BY <1>7, <1>8, <1>11, <1>12 DEF Next, Request

\* Requests: a file goes nowhere or to the first tier.
LEMMA PassRequest ==
    ASSUME PassOK, Request, \A f \in File : where'[f] = where[f] \/ where'[f] \in {Absent, 1}
    PROVE  PassOK'
<1>1. /\ UNCHANGED pass
      /\ quiet' = (quiet /\ where' = where /\ size' = size /\ usage' = usage)
  BY DEF Request
<1>2. ASSUME NEW f \in File PROVE Crawled(f)'
  <2>1. Crawled(f)
    BY DEF PassOK
  <2>. QED BY <1>1, <2>1 DEF Crawled, pass
<1>3. quiet' \in BOOLEAN
  BY <1>1
<1>. QED BY <1>1, <1>2, <1>3 DEF PassOK, pass

\* Moves: a crawled file is forgotten.
LEMMA PassForget ==
    ASSUME PassOK, NEW f \in File, moving # Absent, moving' = Absent,
           seen' = [seen EXCEPT ![f] = Absent], UNCHANGED <<phase, tier, quiet>>
    PROVE  PassOK'
<1>1. phase = "move"
  BY DEF PassOK
<1>2. seen' \in [File -> [size : Size, key : Key] \cup {Absent}]
  BY DEF PassOK
<1>3. \A e \in File : Crawled(e)'
  BY <1>1 DEF PassOK, Crawled
<1>. QED BY <1>1, <1>2, <1>3 DEF PassOK

LEMMA PassNext == UsageInv /\ PlaceInv /\ [Next]_vars => PassOK'
<1>. SUFFICES ASSUME UsageInv, PlaceInv, [Next]_vars PROVE PassOK'
  OBVIOUS
<1>. USE DEF UsageInv, PlaceInv
<1>0. ASSUME Request, UNCHANGED where PROVE PassOK'
  BY <1>0, PassRequest
<1>1. ASSUME Request, NEW f \in File, Vanish(f) PROVE PassOK'
  <2>1. \A e \in File : where'[e] = where[e] \/ where'[e] \in {Absent, 1}
    BY <1>1 DEF Vanish, FilesOK
  <2>. QED BY <1>1, <2>1, PassRequest
<1>3. ASSUME Request, NEW h \in Handle, Creat(h) PROVE PassOK'
  <2>1. \A e \in File : where'[e] = where[e] \/ where'[e] \in {Absent, 1}
    <3>1. PICK g \in File : UNCHANGED where \/ where' = [where EXCEPT ![g] = 1]
      BY <1>3, CreatDoes
    <3>. QED BY <3>1 DEF FilesOK
  <2>. QED BY <1>3, <2>1, PassRequest
<1>4. CASE Request
  <2>1. \/ UNCHANGED where
        \/ \E f \in File : Vanish(f)
        \/ \E h \in Handle : Creat(h)
    <3>1. CASE Call
      BY <3>1 DEF Call, OpenSize, CreateRegister, Write, WriteBuf, Fallocate, CopyFileRange,
                  Ftruncate, Extend, ResizeOpen, TruncatePath, Rename, RenameOver, UnlinkSize,
                  ReleaseFails, disk
    <3>2. CASE CallOn
      BY <3>2 DEF CallOn, OpenRegister, OpenFd, OpenFails, InsertMaps, ReleaseStat, Forget,
                  ReleaseDelta, Close, Unlink, UnlinkFails, disk
    <3>. QED BY <1>4, <3>1, <3>2 DEF Request
  <2>. QED BY <1>4, <2>1, <1>0, <1>1, <1>3
<1>5. CASE StartPass
  <2>1. /\ phase = "idle" /\ phase' = "crawl" /\ tier' = 1 /\ quiet' = TRUE
        /\ UNCHANGED <<where, size, seen, moving>>
    BY <1>5 DEF StartPass, CrawlTier, disk
  <2>2. \A f \in File : seen[f] = Absent
    BY <2>1 DEF PassOK, Crawled
  <2>. QED BY <2>1, <2>2, Marks DEF PassOK, Crawled
<1>6. ASSUME NEW f \in File, CrawlFile(f) PROVE PassOK'
  <2>. PICK r : r = [size |-> size[f], key |-> KeyOf(f)]
    OBVIOUS
  <2>1. /\ phase = "crawl" /\ where[f] = tier
        /\ seen' = [seen EXCEPT ![f] = r]
        /\ UNCHANGED <<where, size, phase, tier, quiet, moving>>
    BY <1>6 DEF CrawlFile, disk
  <2>2. r \in [size : Size, key : Key] /\ r.key[1] = where[f] /\ r.size = size[f] /\ where[f] \in Tier
    <3>1. where[f] # Absent
      BY <2>1, UsageAssumption DEF PassOK, Tier
    <3>2. KeyOf(f) \in Key /\ KeyOf(f)[1] = where[f] /\ size[f] \in Size /\ where[f] \in Tier
      BY <3>1, KeyTyped DEF KeyOf, FilesOK
    <3>. QED BY <3>2
  <2>3. seen' \in [File -> [size : Size, key : Key] \cup {Absent}]
    BY <2>1, <2>2 DEF PassOK
  <2>4. seen'[f] = r /\ \A e \in File \ {f} : seen'[e] = seen[e]
    BY <2>1 DEF PassOK
  <2>5. Crawled(f)'
    BY <2>1, <2>2, <2>4 DEF Crawled, Tier
  <2>6. \A e \in File \ {f} : Crawled(e)'
    BY <2>1, <2>4 DEF PassOK, Crawled
  <2>7. moving = Absent
    BY <2>1 DEF PassOK
  <2>. QED BY <2>1, <2>3, <2>5, <2>6, <2>7 DEF PassOK
<1>7. CASE CrawlEnd
  <2>1. /\ phase = "crawl" /\ UNCHANGED <<where, size, seen, moving>>
        /\ IF tier < NTiers THEN tier' = tier + 1 /\ quiet' = TRUE /\ phase' = phase
           ELSE phase' = "move" /\ UNCHANGED <<tier, quiet>>
    BY <1>7 DEF CrawlEnd, CrawlTier, disk
  <2>2. moving = Absent /\ tier \in Tier
    BY <2>1 DEF PassOK
  <2>3. ASSUME NEW f \in File PROVE Crawled(f)'
    <3>. SUFFICES ASSUME seen[f] # Absent, tier < NTiers PROVE Crawled(f)'
      BY <2>1 DEF Crawled
    <3>1. seen[f].key[1] <= tier /\ where[f] \in {Absent, 1, seen[f].key[1]}
      BY <2>1 DEF PassOK, Crawled
    <3>2. seen[f].key[1] \in Tier
      <4>1. seen[f] \in [size : Size, key : Key]
        BY DEF PassOK
      <4>. QED BY <4>1 DEF Key
    <3>. QED BY <2>1, <2>2, <3>1, <3>2, UsageAssumption DEF Crawled, Tier
  <2>4. phase' \in {"crawl", "move"} /\ tier' \in Tier /\ quiet' \in BOOLEAN
    <3>1. quiet \in BOOLEAN
      BY DEF PassOK
    <3>2. CASE tier < NTiers
      BY <2>1, <2>2, <3>2, UsageAssumption DEF Tier
    <3>3. CASE ~(tier < NTiers)
      BY <2>1, <2>2, <3>1, <3>3
    <3>. QED BY <3>2, <3>3
  <2>. QED BY <2>1, <2>2, <2>3, <2>4 DEF PassOK
<1>8. ASSUME NEW f \in File, NEW t \in Tier, MoveBegin(f, t) PROVE PassOK'
  <2>. PICK r : r = [file |-> f, to |-> t, bytes |-> Absent]
    OBVIOUS
  <2>1. /\ phase = "move" /\ seen[f] # Absent /\ t # seen[f].key[1] /\ moving' = r
        /\ UNCHANGED <<where, size, phase, tier, seen, quiet>>
    BY <1>8 DEF MoveBegin, disk
  <2>3. r.file = f /\ r.to = t
    OBVIOUS
  <2>4. \A e \in File : Crawled(e)'
    BY <2>1 DEF PassOK, Crawled
  <2>. QED BY <2>1, <2>3, <2>4 DEF PassOK
<1>m. CASE MoveCopy
  <2>. PICK n : n = size[moving.file]
    OBVIOUS
  <2>1. /\ moving # Absent /\ moving' = [moving EXCEPT !.bytes = n]
        /\ UNCHANGED <<where, size, phase, tier, seen, quiet>>
    BY <1>m DEF MoveCopy, disk
  <2>2. moving \in [file : File, to : Tier, bytes : Size \cup {Absent}]
    BY <2>1 DEF FilesOK
  <2>3. moving'.file = moving.file /\ moving'.to = moving.to
    BY <2>1, <2>2
  <2>4. \A e \in File : Crawled(e)'
    BY <2>1 DEF PassOK, Crawled
  <2>. QED BY <2>1, <2>3, <2>4 DEF PassOK
<1>9. CASE Move
  BY <1>9, Mover, PassForget
<1>10. CASE CopyFails
  <2>1. /\ moving # Absent /\ moving' = Absent /\ seen' = [seen EXCEPT ![moving.file] = Absent]
        /\ UNCHANGED <<phase, tier, quiet>>
    BY <1>10 DEF CopyFails
  <2>2. moving.file \in File
    BY <2>1 DEF FilesOK
  <2>. QED BY <2>1, <2>2, PassForget
<1>11. CASE EndPass
  <2>1. /\ moving = Absent /\ phase' = "idle" /\ seen' = [f \in File |-> Absent]
        /\ UNCHANGED <<where, size, tier, moving, quiet>>
    BY <1>11 DEF EndPass, disk
  <2>2. \A e \in File : Crawled(e)'
    BY <2>1 DEF Crawled
  <2>. QED BY <2>1, <2>2 DEF PassOK
<1>12. CASE Worker
  BY <1>12, <1>5, <1>6, <1>7, <1>8, <1>m, <1>9, <1>10, <1>11 DEF Worker, PassStep
<1>13. CASE UNCHANGED vars
  BY <1>13 DEF vars, PassOK, Crawled
<1>. QED BY <1>4, <1>12, <1>13 DEF Next
-----------------------------------------------------------------------------
(* The balance of a tier: what it counts and what is owed to it make what it stores *)

OwedBy(t, h) == IF h \in Owing(t) THEN Owes[h] ELSE 0
OwedTo(t) == [h \in Handle |-> OwedBy(t, h)]
Balanced(t) == (usage[t] + Total(OwedTo(t), Handle)) % W = Total(Net(t), File) % W
Balance == \A t \in Tier \ drift : Balanced(t)

LEMMA HandleSizes ==
    ASSUME UsageInv, NEW h \in Handle
    PROVE  /\ handle[h].old \in Int /\ handle[h].new \in Int
           /\ Live(h) => handle[h].file \in File /\ handle[h].key \in Key /\ handle[h].key[1] \in Tier
<1>1. handle[h].pc \notin {"idle", "close"} => handle[h].key \in Key /\ handle[h].key[1] \in Tier
  BY Named DEF UsageInv
<1>2. (Live(h) => handle[h].file \in File) /\ handle[h].old \in Size /\ handle[h].new \in Size
  BY Named DEF UsageInv
<1>. QED BY <1>1, <1>2 DEF Size, Live

LEMMA SizeInt == ASSUME UsageInv, NEW f \in File PROVE SizeOf(f) \in Int /\ size[f] \in Int
BY DEF UsageInv, FilesOK, SizeOf, Size

LEMMA OwesLive == ASSUME NEW t, NEW h \in Owing(t) PROVE Live(h) /\ h \in Handle
BY DEF Owing, Live

LEMMA BalanceTypes ==
    ASSUME UsageInv, NEW t
    PROVE  /\ \A h \in Handle : OwedBy(t, h) \in Int
           /\ \A f \in File : NetOf(t, f) \in Int
<1>1. ASSUME NEW h \in Handle PROVE OwedBy(t, h) \in Int
  <2>1. CASE h \in Owing(t)
    <3>1. handle[h].file \in File /\ handle[h].old \in Int /\ handle[h].new \in Int
      BY <2>1, HandleSizes, OwesLive
    <3>2. SizeOf(handle[h].file) \in Int
      BY <3>1, SizeInt
    <3>3. Owes[h] \in Int
      BY <3>1, <3>2 DEF Owes
    <3>. QED BY <2>1, <3>3 DEF OwedBy
  <2>2. CASE h \notin Owing(t)
    BY <2>2 DEF OwedBy
  <2>. QED BY <2>1, <2>2
<1>2. ASSUME NEW f \in File PROVE NetOf(t, f) \in Int
  BY SizeInt DEF NetOf
<1>. QED BY <1>1, <1>2

SumsTyped == /\ \A t \in Tier, h \in Handle : OwedBy(t, h) \in Int
             /\ \A t \in Tier, f \in File : NetOf(t, f) \in Int
LEMMA SumsTypedNow == UsageInv => SumsTyped
BY BalanceTypes DEF SumsTyped
LEMMA SumsTypedLater == UsageInv' => SumsTyped'
BY SumsTypedNow, PTL

LEMMA BalancedLater ==
    ASSUME NEW CONSTANT t
    PROVE  Balanced(t)' <=> (usage'[t] + Total(OwedTo(t)', Handle)) % W = Total(Net(t)', File) % W
BY DEF Balanced, Total, MapThenSumSet, MapThenFoldSet

LEMMA FunctionsLater ==
    ASSUME NEW CONSTANT t
    PROVE  /\ OwedTo(t)' = [h \in Handle |-> OwedBy(t, h)']
           /\ Net(t)' = [f \in File |-> NetOf(t, f)']
BY DEF OwedTo, Net

\* A step changes the sums by what it changes for one handle and for one file.
LEMMA OwedOne ==
    ASSUME UsageInv, UsageInv', NEW CONSTANT t \in Tier, NEW CONSTANT h \in Handle,
           \A g \in Handle \ {h} : OwedBy(t, g)' = OwedBy(t, g)
    PROVE  /\ Total(OwedTo(t)', Handle) = Total(OwedTo(t), Handle) + (OwedBy(t, h)' - OwedBy(t, h))
           /\ Total(OwedTo(t), Handle) \in Int
<1>. PICK k : k = OwedTo(t)'
  OBVIOUS
<1>. PICK m : m = OwedTo(t)
  OBVIOUS
<1>1. k = [g \in Handle |-> OwedBy(t, g)'] /\ m = [g \in Handle |-> OwedBy(t, g)]
  BY FunctionsLater DEF OwedTo
<1>2. \A g \in Handle : OwedBy(t, g) \in Int /\ OwedBy(t, g)' \in Int
  <2>1. \A g \in Handle : OwedBy(t, g) \in Int
    BY BalanceTypes
  <2>2. \A g \in Handle : OwedBy(t, g)' \in Int
    BY SumsTypedLater DEF SumsTyped
  <2>. QED BY <2>1, <2>2
<1>3. k[h] \in Int /\ (\A g \in Handle : m[g] \in Int) /\ \A g \in Handle \ {h} : k[g] = m[g]
  BY <1>1, <1>2
<1>4. k[h] = OwedBy(t, h)' /\ m[h] = OwedBy(t, h)
  BY <1>1
<1>5. Total(k, Handle) = Total(m, Handle) + (k[h] - m[h]) /\ Total(m, Handle) \in Int
  BY <1>3, Marks, TotalChange
<1>. QED BY <1>4, <1>5

LEMMA OwedSame ==
    ASSUME UsageInv, NEW CONSTANT t, \A g \in Handle : OwedBy(t, g)' = OwedBy(t, g)
    PROVE  /\ Total(OwedTo(t)', Handle) = Total(OwedTo(t), Handle)
           /\ Total(OwedTo(t), Handle) \in Int
<1>1. OwedTo(t)' = OwedTo(t)
  BY FunctionsLater DEF OwedTo
<1>. PICK m : m = OwedTo(t)
  OBVIOUS
<1>2. \A g \in Handle : m[g] \in Int
  BY BalanceTypes DEF OwedTo
<1>3. Total(m, Handle) \in Int
  BY <1>2, Marks, TotalInt
<1>. QED BY <1>1, <1>3

LEMMA NetOne ==
    ASSUME UsageInv, UsageInv', NEW CONSTANT t \in Tier, NEW CONSTANT f \in File,
           \A g \in File \ {f} : NetOf(t, g)' = NetOf(t, g)
    PROVE  /\ Total(Net(t)', File) = Total(Net(t), File) + (NetOf(t, f)' - NetOf(t, f))
           /\ Total(Net(t), File) \in Int
<1>k. PICK k : k = Net(t)'
  OBVIOUS
<1>m. PICK m : m = Net(t)
  OBVIOUS
<1>1. k = [g \in File |-> NetOf(t, g)'] /\ m = [g \in File |-> NetOf(t, g)]
  BY <1>k, <1>m, FunctionsLater DEF Net
<1>2. \A g \in File : NetOf(t, g) \in Int /\ NetOf(t, g)' \in Int
  <2>1. \A g \in File : NetOf(t, g) \in Int
    BY BalanceTypes
  <2>2. \A g \in File : NetOf(t, g)' \in Int
    BY SumsTypedLater DEF SumsTyped
  <2>. QED BY <2>1, <2>2
<1>3. k[f] \in Int /\ (\A g \in File : m[g] \in Int) /\ \A g \in File \ {f} : k[g] = m[g]
  BY <1>1, <1>2
<1>4. k[f] = NetOf(t, f)' /\ m[f] = NetOf(t, f)
  BY <1>1
<1>5. Total(k, File) = Total(m, File) + (k[f] - m[f]) /\ Total(m, File) \in Int
  BY <1>3, UsageAssumption, TotalChange
<1>6. /\ Total(Net(t)', File) = Total(Net(t), File) + (k[f] - m[f])
      /\ Total(Net(t), File) \in Int
  BY ONLY <1>5, <1>k, <1>m, Zenon
<1>. QED BY <1>4, <1>6, Zenon

LEMMA NetSame ==
    ASSUME UsageInv, NEW CONSTANT t, \A g \in File : NetOf(t, g)' = NetOf(t, g)
    PROVE  /\ Total(Net(t)', File) = Total(Net(t), File)
           /\ Total(Net(t), File) \in Int
<1>1. Net(t)' = Net(t)
  BY FunctionsLater DEF Net
<1>. PICK m : m = Net(t)
  OBVIOUS
<1>2. \A g \in File : m[g] \in Int
  BY BalanceTypes DEF Net
<1>3. Total(m, File) \in Int
  BY <1>2, UsageAssumption, TotalInt
<1>. QED BY <1>1, <1>3

CountMoves(t, d) == usage'[t] = (usage[t] + d) % W \/ (usage'[t] = usage[t] /\ d = 0)

\* A tier stays balanced when its count changes by what the sums do.
LEMMA StaysBalanced ==
    ASSUME Counts, NEW CONSTANT t \in Tier, Balanced(t), NEW a \in Int, NEW b \in Int, NEW d \in Int,
           CountMoves(t, d), d + a = b,
           Total(OwedTo(t), Handle) \in Int, Total(Net(t), File) \in Int,
           Total(OwedTo(t)', Handle) = Total(OwedTo(t), Handle) + a,
           Total(Net(t)', File) = Total(Net(t), File) + b
    PROVE  Balanced(t)'
<1>. PICK o, n : o = Total(OwedTo(t), Handle) /\ n = Total(Net(t), File)
  OBVIOUS
<1>. PICK u : u = usage[t]
  OBVIOUS
<1>. PICK v : v = usage'[t]
  OBVIOUS
<1>1. W \in Nat \ {0} /\ u \in Int /\ o \in Int /\ n \in Int
  BY UsageAssumption DEF Counts
<1>2. (u + o) % W = n % W
  BY DEF Balanced
<1>3. (v + (o + a)) % W = (u + d + (o + a)) % W
  <2>1. CASE v = (u + d) % W
    <3>. PICK x, y : x = u + d /\ y = o + a
      OBVIOUS
    <3>1. x \in Int /\ y \in Int
      BY <1>1
    <3>2. ((x % W) + y) % W = (x + y) % W
      BY <1>1, <3>1, ModMod
    <3>. QED BY <2>1, <3>2
  <2>2. CASE v = u /\ d = 0
    BY <1>1, <2>2
  <2>. QED BY <2>1, <2>2 DEF CountMoves
<1>4. u + d + (o + a) = (u + o) + b
  BY <1>1
<1>5. ((u + o) + b) % W = (n + b) % W
  <2>. PICK c : c = u + o
    OBVIOUS
  <2>1. c \in Int /\ c % W = n % W
    BY <1>1, <1>2
  <2>2. (c + b) % W = (n + b) % W
    BY <1>1, <2>1, ModAdd
  <2>. QED BY <2>2
<1>6. (v + (o + a)) % W = (n + b) % W
  BY <1>3, <1>4, <1>5
<1>. QED BY <1>6, BalancedLater

\* What a handle owes to a tier, from its own fields.
Measures(h) == ~handle[h].orphan /\ handle[h].pc \in Opening \cup {"open"}
Share(h) == IF Measures(h) THEN SizeOf(handle[h].file) - handle[h].old
            ELSE handle[h].new - handle[h].old
InTier(t, h) == Live(h) /\ handle[h].key[1] = t

LEMMA OwedShare ==
    ASSUME NEW CONSTANT t, NEW CONSTANT h \in Handle
    PROVE  /\ OwedBy(t, h) = IF InTier(t, h) THEN Share(h) ELSE 0
           /\ OwedBy(t, h)' = IF InTier(t, h)' THEN Share(h)' ELSE 0
<1>1. Owes[h] = Share(h) /\ (h \in Owing(t) <=> InTier(t, h))
  BY DEF Owes, Share, Measures, Measuring, Owing, InTier, Live
<1>2. Owes'[h] = Share(h)' /\ ((h \in Owing(t))' <=> InTier(t, h)')
  BY DEF Owes, Share, Measures, Measuring, Owing, InTier, Live
<1>. QED BY <1>1, <1>2 DEF OwedBy

LEMMA OwedKept ==
    ASSUME NEW CONSTANT t, NEW CONSTANT h \in Handle, handle'[h] = handle[h],
           InTier(t, h) /\ Measures(h) => SizeOf(handle[h].file)' = SizeOf(handle[h].file)
    PROVE  OwedBy(t, h)' = OwedBy(t, h)
<1>1. InTier(t, h)' = InTier(t, h) /\ Measures(h)' = Measures(h)
  BY DEF InTier, Live, Measures
<1>2. InTier(t, h) => Share(h)' = Share(h)
  BY <1>1 DEF Share, SizeOf
<1>. QED BY <1>1, <1>2, OwedShare

LEMMA NetKept ==
    ASSUME NEW CONSTANT t, NEW CONSTANT f \in File, UNCHANGED <<where, size, gone>>
    PROVE  NetOf(t, f)' = NetOf(t, f) /\ SizeOf(f)' = SizeOf(f)
BY DEF NetOf, SizeOf

LEMMA SameBalance ==
    ASSUME UsageInv, Counts, Balance, UNCHANGED <<where, size, gone, usage>>, drift \subseteq drift',
           \A t \in Tier \ drift', g \in Handle : OwedBy(t, g)' = OwedBy(t, g)
    PROVE  Balance'
<1>. SUFFICES ASSUME NEW CONSTANT t \in Tier \ drift' PROVE Balanced(t)'
  BY DEF Balance
<1>1. Balanced(t)
  BY DEF Balance
<1>2. \A f \in File : NetOf(t, f)' = NetOf(t, f)
  BY NetKept
<1>3. /\ Total(OwedTo(t)', Handle) = Total(OwedTo(t), Handle) /\ Total(OwedTo(t), Handle) \in Int
      /\ Total(Net(t)', File) = Total(Net(t), File) /\ Total(Net(t), File) \in Int
  BY <1>2, OwedSame, NetSame
<1>4. usage'[t] = usage[t]
  OBVIOUS
<1>. PICK a : a = 0
  OBVIOUS
<1>5. /\ a \in Int /\ a + a = a /\ CountMoves(t, a) /\ Total(OwedTo(t)', Handle) = Total(OwedTo(t), Handle) + a
      /\ Total(Net(t)', File) = Total(Net(t), File) + a
  BY <1>3, <1>4 DEF CountMoves
<1>. QED BY <1>1, <1>3, <1>5, StaysBalanced

\* A step of one handle that touches no file.
LEMMA HandleBalance ==
    ASSUME UsageInv, Counts, Balance, NEW CONSTANT h \in Handle, Others(h),
           UNCHANGED <<where, size, gone, usage>>, drift \subseteq drift',
           \A t \in Tier \ drift' : OwedBy(t, h)' = OwedBy(t, h)
    PROVE  Balance'
<1>1. ASSUME NEW CONSTANT t \in Tier \ drift', NEW CONSTANT g \in Handle \ {h}
      PROVE  OwedBy(t, g)' = OwedBy(t, g)
  <2>1. handle'[g] = handle[g]
    BY DEF Others
  <2>2. SizeOf(handle[g].file)' = SizeOf(handle[g].file)
    BY <2>1 DEF SizeOf
  <2>. QED BY <2>1, <2>2, OwedKept
<1>. QED BY <1>1, SameBalance

\* A handle goes on, and owes what it owed.
LEMMA AdvanceBalance ==
    ASSUME UsageInv, Counts, Balance, NEW CONSTANT h \in Handle, NEW p, NEW q, Advances(h, p, q),
           handle'[h].new = handle[h].new, UNCHANGED <<where, size, gone, usage>>,
           drift \subseteq drift',
           {p, q} \subseteq Opening \cup {"open"} \/ {p, q} \subseteq {"stat", "delta"}
    PROVE  Balance'
<1>1. ASSUME NEW CONSTANT t PROVE InTier(t, h)' = InTier(t, h)
  BY DEF InTier, Live, Advances, Opening
<1>2. Measures(h)' = Measures(h)
  BY DEF Measures, Advances, Opening
<1>3. Share(h)' = Share(h)
  BY <1>2 DEF Share, SizeOf, Advances
<1>4. \A t \in Tier : OwedBy(t, h)' = OwedBy(t, h)
  BY <1>1, <1>3, OwedShare
<1>. QED BY <1>4, HandleBalance DEF Advances

\* A handle that goes owes nothing, or its tier has drifted.
LEMMA ForfeitBalance ==
    ASSUME UsageInv, Counts, Balance, NEW CONSTANT h \in Handle, \E p : Ends(h, p), Forfeit(h),
           UNCHANGED <<where, size, gone, usage>>
    PROVE  Balance'
<1>1. Others(h) /\ ~Live(h)'
  BY DEF Ends, Live
<1>2. \A t \in Tier : OwedBy(t, h)' = 0
  BY <1>1, OwedShare DEF InTier
<1>3. drift' = IF Owes[h] = 0 THEN drift ELSE drift \cup {handle[h].key[1]}
  BY DEF Forfeit
<1>4. ASSUME NEW t \in Tier \ drift' PROVE OwedBy(t, h) = 0
  BY <1>3, <1>4 DEF OwedBy, Owing
<1>. QED BY <1>1, <1>2, <1>3, <1>4, HandleBalance

LEMMA BalanceOpening ==
    ASSUME UsageInv, UsageInv', PlaceInv, Balance, NEW CONSTANT h \in Handle,
           \/ \E f \in File : OpenSize(h, f) \/ CreateRegister(h, f)
           \/ OpenRegister(h) \/ OpenFails(h) \/ InsertMaps(h)
    PROVE  Balance'
<1>. USE DEF PlaceInv
<1>1. ASSUME NEW CONSTANT f \in File, OpenSize(h, f) PROVE Balance'
  <2>1. UNCHANGED <<where, size, gone, usage, drift>> /\ where[f] # Absent
    BY <1>1 DEF OpenSize, disk
  <2>2. /\ Others(h) /\ handle[h].pc = "idle" /\ handle'[h].pc = "sized" /\ handle'[h].file = f
        /\ handle'[h].old = size[f] /\ ~handle'[h].orphan
    BY <1>1, OpenSizeDoes DEF UsageInv
  <2>3. Share(h)' = 0
    BY <2>1, <2>2, SizeInt DEF Share, Measures, SizeOf, Opening
  <2>4. \A t \in Tier : OwedBy(t, h)' = OwedBy(t, h)
    BY <2>2, <2>3, OwedShare DEF InTier, Live
  <2>. QED BY <2>1, <2>2, <2>4, HandleBalance
<1>2. ASSUME NEW CONSTANT f \in File, CreateRegister(h, f) PROVE Balance'
  <2>1. UNCHANGED <<where, size, gone, usage, drift>>
    BY <1>2 DEF CreateRegister, disk
  <2>2. Others(h) /\ handle[h].pc = "idle" /\ handle'[h].pc = "creating"
    BY <1>2, CreateRegisterDoes DEF UsageInv
  <2>3. \A t \in Tier : OwedBy(t, h)' = OwedBy(t, h)
    BY <2>2, OwedShare DEF InTier, Live
  <2>. QED BY <2>1, <2>2, <2>3, HandleBalance
<1>3. ASSUME OpenRegister(h) PROVE Balance'
  <2>1. /\ Advances(h, "sized", "registered") /\ handle'[h].new = handle[h].new
        /\ UNCHANGED <<where, size, gone, usage, drift>>
    BY <1>3, ToAdvances DEF OpenRegister, disk, UsageInv
  <2>2. {"sized", "registered"} \subseteq Opening \cup {"open"}
    BY DEF Opening
  <2>. QED BY <2>1, <2>2, AdvanceBalance
<1>4. ASSUME InsertMaps(h) PROVE Balance'
  <2>1. PICK p \in {"maps", "created"} : Advances(h, p, "open") /\ handle'[h].new = handle[h].new
    BY <1>4, InsertMapsDoes DEF UsageInv
  <2>2. UNCHANGED <<where, size, gone, usage, drift>>
    BY <1>4 DEF InsertMaps, disk
  <2>3. {p, "open"} \subseteq Opening \cup {"open"}
    BY DEF Opening
  <2>. QED BY <2>1, <2>2, <2>3, AdvanceBalance
<1>5. ASSUME OpenFails(h) PROVE Balance'
  <2>1. UNCHANGED <<where, size, gone, usage>> /\ Forfeit(h)
    BY <1>5 DEF OpenFails, disk
  <2>2. \E p : Ends(h, p)
    BY <1>5, Endings DEF UsageInv
  <2>. QED BY <2>1, <2>2, ForfeitBalance
<1>. QED BY <1>1, <1>2, <1>3, <1>4, <1>5

LEMMA BalanceReleasing ==
    ASSUME UsageInv, UsageInv', PlaceInv, Balance, NEW CONSTANT h \in Handle,
           \/ \E n \in Size : ReleaseStat(h, n)
           \/ ReleaseFails(h) \/ Forget(h) \/ Close(h)
    PROVE  Balance'
<1>. USE DEF PlaceInv
<1>1. ASSUME NEW CONSTANT n \in Size, ReleaseStat(h, n) PROVE Balance'
  <2>1. UNCHANGED <<where, size, gone, usage, drift>>
    BY <1>1 DEF ReleaseStat, disk
  <2>2. /\ Advances(h, "open", "stat") /\ handle'[h].new = n
        /\ handle[h].orphan \/ n = size[handle[h].file]
    BY <1>1, ReleaseStatDoes DEF ReleaseStat, UsageInv
  <2>3. Live(h) /\ PlacedAt(h) /\ Live(h)'
    BY <2>2 DEF Advances, Live, Placed
  <2>4. \A t \in Tier : InTier(t, h)' = InTier(t, h)
    BY <2>2, <2>3 DEF InTier, Advances
  <2>5. CASE handle[h].orphan
    <3>1. handle[h].key[1] \in drift
      BY <2>3, <2>5 DEF PlacedAt
    <3>2. \A t \in Tier \ drift' : ~InTier(t, h) /\ ~InTier(t, h)'
      BY <2>1, <2>2, <3>1 DEF InTier, Advances
    <3>3. \A t \in Tier \ drift' : OwedBy(t, h)' = OwedBy(t, h)
      BY <3>2, OwedShare
    <3>. QED BY <2>1, <2>2, <3>3, HandleBalance DEF Advances
  <2>6. CASE ~handle[h].orphan
    <3>1. where[handle[h].file] # Absent
      BY <2>3 DEF PlacedAt
    <3>2. Share(h) = size[handle[h].file] - handle[h].old
      BY <2>2, <2>6, <3>1 DEF Share, Measures, SizeOf, Advances
    <3>3. Share(h)' = size[handle[h].file] - handle[h].old
      BY <2>2, <2>6 DEF Share, Measures, Opening, Advances
    <3>5. \A t \in Tier : OwedBy(t, h)' = OwedBy(t, h)
      BY <3>2, <3>3, <2>4, OwedShare
    <3>. QED BY <2>1, <2>2, <3>5, HandleBalance DEF Advances
  <2>. QED BY <2>5, <2>6
<1>2. ASSUME Forget(h) PROVE Balance'
  <2>1. /\ Advances(h, "stat", "delta") /\ handle'[h].new = handle[h].new
        /\ UNCHANGED <<where, size, gone, usage, drift>>
    BY <1>2, ToAdvances DEF Forget, disk, UsageInv
  <2>. QED BY <2>1, AdvanceBalance
<1>3. ASSUME Close(h) PROVE Balance'
  <2>1. /\ Ends(h, "close") /\ UNCHANGED <<where, size, gone, usage, drift>>
    BY <1>3, Endings DEF Close, disk, UsageInv
  <2>2. \A t \in Tier : OwedBy(t, h)' = OwedBy(t, h)
    BY <2>1, OwedShare DEF InTier, Ends, Live
  <2>. QED BY <2>1, <2>2, HandleBalance DEF Ends
<1>4. ASSUME ReleaseFails(h) PROVE Balance'
  <2>1. UNCHANGED <<where, size, gone, usage>> /\ Forfeit(h)
    BY <1>4 DEF ReleaseFails, disk
  <2>2. \E p : Ends(h, p)
    BY <1>4, Endings DEF UsageInv
  <2>. QED BY <2>1, <2>2, ForfeitBalance
<1>. QED BY <1>1, <1>2, <1>3, <1>4

LEMMA SameSums ==
    ASSUME UsageInv, Counts, NEW CONSTANT t \in Tier, Balanced(t), usage'[t] = usage[t],
           \A g \in Handle : OwedBy(t, g)' = OwedBy(t, g),
           \A f \in File : NetOf(t, f)' = NetOf(t, f)
    PROVE  Balanced(t)'
<1>3. /\ Total(OwedTo(t)', Handle) = Total(OwedTo(t), Handle) /\ Total(OwedTo(t), Handle) \in Int
      /\ Total(Net(t)', File) = Total(Net(t), File) /\ Total(Net(t), File) \in Int
  BY OwedSame, NetSame
<1>. PICK a : a = 0
  OBVIOUS
<1>5. /\ a \in Int /\ a + a = a /\ CountMoves(t, a) /\ Total(OwedTo(t)', Handle) = Total(OwedTo(t), Handle) + a
      /\ Total(Net(t)', File) = Total(Net(t), File) + a
  BY <1>3 DEF CountMoves
<1>. QED BY <1>3, <1>5, StaysBalanced

\* A handle whose share of a tier depends on the size of its file alone.
Steady(h) ==
    /\ Measures(h)' = Measures(h) /\ \A t \in Tier : InTier(t, h)' = InTier(t, h)
    /\ handle'[h].file = handle[h].file /\ handle'[h].old = handle[h].old
    /\ handle'[h].new = handle[h].new

LEMMA SteadyOwed ==
    ASSUME NEW CONSTANT t \in Tier, NEW CONSTANT h \in Handle, Steady(h),
           InTier(t, h) /\ Measures(h) => SizeOf(handle[h].file)' = SizeOf(handle[h].file)
    PROVE  OwedBy(t, h)' = OwedBy(t, h)
<1>1. InTier(t, h) => Share(h)' = Share(h)
  BY DEF Share, Steady, SizeOf
<1>. QED BY <1>1, OwedShare DEF Steady

\* The file of a handle that measures is where the handle's path says.
LEMMA MeasuredPlace ==
    ASSUME UsageInv, Placed, NEW h \in Handle, Measures(h)
    PROVE  Live(h) /\ handle[h].key[1] = where[handle[h].file] /\ InTier(handle[h].key[1], h)
<1>1. Live(h)
  BY DEF Measures, Live, Opening
<1>2. PlacedAt(h)
  BY DEF Placed
<1>. QED BY <1>1, <1>2 DEF PlacedAt, Measures, InTier

LEMMA Resizing ==
    ASSUME UsageInv, UsageInv', PlaceInv, Balance, NEW CONSTANT f \in File, NEW CONSTANT n \in Size, NEW H,
           Resize(f, n, H), where[f] # Absent, gone[f] = Absent,
           UNCHANGED <<where, gone, usage>>,
           \A g \in Handle : \/ Steady(g)
                             \/ ~Measures(g) /\ \A t \in Tier : OwedBy(t, g)' = OwedBy(t, g),
           \A h \in H : h \in Measuring(f) \/ where[f] \in drift
    PROVE  Balance'
<1>. USE DEF PlaceInv
<1>1. /\ size' = [size EXCEPT ![f] = n]
      /\ drift' = IF n # size[f] /\ Cardinality(Measuring(f) \cup H) # 1
                  THEN drift \cup {where[f]} ELSE drift
  BY DEF Resize
<1>2. size'[f] = n /\ \A e : e # f => size'[e] = size[e]
  BY <1>1 DEF UsageInv, FilesOK
<1>. SUFFICES ASSUME NEW CONSTANT t \in Tier \ drift' PROVE Balanced(t)'
  BY DEF Balance
<1>3. Balanced(t) /\ t \notin drift
  BY <1>1 DEF Balance
<1>4. ASSUME NEW CONSTANT g \in Handle,
             handle[g].file = f /\ InTier(t, g) /\ Measures(g) => n = size[f]
      PROVE  OwedBy(t, g)' = OwedBy(t, g)
  <2>1. CASE Steady(g)
    <3>1. InTier(t, g) /\ Measures(g) => SizeOf(handle[g].file)' = SizeOf(handle[g].file)
      BY <1>2, <1>4, <2>1 DEF SizeOf, Steady
    <3>. QED BY <2>1, <3>1, SteadyOwed
  <2>. QED BY <2>1
<1>5. ASSUME NEW CONSTANT e \in File, e # f \/ where[f] # t \/ n = size[f]
      PROVE  NetOf(t, e)' = NetOf(t, e)
  BY <1>2, <1>5 DEF NetOf
<1>6. CASE n = size[f]
  <2>1. \A g \in Handle : OwedBy(t, g)' = OwedBy(t, g)
    BY <1>4, <1>6
  <2>2. \A e \in File : NetOf(t, e)' = NetOf(t, e)
    BY <1>5, <1>6
  <2>. QED BY <1>3, <2>1, <2>2, SameSums
<1>7. CASE t # where[f]
  <2>1. ASSUME NEW CONSTANT g \in Handle PROVE OwedBy(t, g)' = OwedBy(t, g)
    <3>1. ~(handle[g].file = f /\ InTier(t, g) /\ Measures(g))
      BY <1>7, MeasuredPlace DEF InTier
    <3>. QED BY <3>1, <1>4
  <2>2. \A e \in File : NetOf(t, e)' = NetOf(t, e)
    BY <1>5, <1>7
  <2>. QED BY <1>3, <2>1, <2>2, SameSums
<1>8. CASE n # size[f] /\ t = where[f]
  <2>1. Cardinality(Measuring(f) \cup H) = 1 /\ H \subseteq Measuring(f)
    BY <1>1, <1>3, <1>8
  <2>2. Cardinality(Measuring(f)) = 1 /\ IsFiniteSet(Measuring(f))
    <3>1. Measuring(f) \cup H = Measuring(f) /\ Measuring(f) \subseteq Handle
      BY <2>1 DEF Measuring
    <3>. QED BY <2>1, <3>1, Marks, FS_Subset
  <2>3. PICK m : Measuring(f) = {m}
    BY <2>2, FS_Singleton
  <2>4. m \in Handle /\ handle[m].file = f /\ Measures(m) /\ Steady(m)
    <3>1. m \in Measuring(f)
      BY <2>3
    <3>. QED BY <3>1 DEF Measuring, Measures
  <2>5. InTier(t, m)
    BY <1>8, <2>4, MeasuredPlace
  <2>6. OwedBy(t, m) = size[f] - handle[m].old /\ OwedBy(t, m)' = n - handle[m].old
    <3>1. Share(m) = size[f] - handle[m].old
      BY <2>4 DEF Share, SizeOf
    <3>2. Share(m)' = n - handle[m].old
      BY <1>2, <2>4 DEF Share, SizeOf, Steady
    <3>3. InTier(t, m)'
      BY <2>4, <2>5 DEF Steady
    <3>. QED BY <2>4, <2>5, <3>1, <3>2, <3>3, OwedShare
  <2>7. ASSUME NEW CONSTANT g \in Handle \ {m} PROVE OwedBy(t, g)' = OwedBy(t, g)
    <3>1. ~(handle[g].file = f /\ Measures(g))
      <4>1. g \notin Measuring(f)
        BY <2>3
      <4>. QED BY <4>1 DEF Measuring, Measures
    <3>. QED BY <3>1, <1>4
  <2>8. NetOf(t, f) = size[f] /\ NetOf(t, f)' = n
    BY <1>2, <1>8 DEF NetOf
  <2>9. \A e \in File \ {f} : NetOf(t, e)' = NetOf(t, e)
    BY <1>5
  <2>10. n \in Int /\ size[f] \in Int /\ handle[m].old \in Int
    BY <2>4, SizeInt, HandleSizes DEF Size
  <2>0. PICK a, z : a = n - size[f] /\ z = 0
    OBVIOUS
  <2>11. a \in Int /\ z \in Int /\ CountMoves(t, z) /\ OwedBy(t, m)' - OwedBy(t, m) = a /\ NetOf(t, f)' - NetOf(t, f) = a /\ z + a = a
    BY <2>0, <2>6, <2>8, <2>10 DEF CountMoves
  <2>12. /\ Total(OwedTo(t)', Handle) = Total(OwedTo(t), Handle) + a
         /\ Total(OwedTo(t), Handle) \in Int
    <3>1. \A g \in Handle \ {m} : OwedBy(t, g)' = OwedBy(t, g)
      BY <2>7
    <3>2. Total(OwedTo(t)', Handle) = Total(OwedTo(t), Handle) + (OwedBy(t, m)' - OwedBy(t, m))
          /\ Total(OwedTo(t), Handle) \in Int
      BY <2>4, <3>1, OwedOne
    <3>. QED BY <2>11, <3>2
  <2>13. Total(Net(t)', File) = Total(Net(t), File) + a /\ Total(Net(t), File) \in Int
    <3>2. Total(Net(t)', File) = Total(Net(t), File) + (NetOf(t, f)' - NetOf(t, f))
          /\ Total(Net(t), File) \in Int
      BY <2>9, NetOne
    <3>. QED BY <2>11, <3>2
  <2>. QED BY <1>3, <2>11, <2>12, <2>13, StaysBalanced
<1>. QED BY <1>6, <1>7, <1>8

LEMMA SameHandles ==
    ASSUME UNCHANGED handle
    PROVE  \A g \in Handle : Steady(g)
BY DEF Steady, Measures, InTier, Live

LEMMA BalanceResizeOpen ==
    ASSUME UsageInv, UsageInv', PlaceInv, Balance, NEW CONSTANT h \in Handle, NEW CONSTANT n \in Size,
           ResizeOpen(h, n)
    PROVE  Balance'
<1>. USE DEF PlaceInv
<1>. PICK f : f = handle[h].file
  OBVIOUS
<1>1. /\ handle[h].pc = "open" /\ ~handle[h].orphan /\ Resize(f, n, {h})
      /\ UNCHANGED <<where, handle, usage, gone>>
  BY DEF ResizeOpen, At
<1>2. Live(h) /\ Measures(h) /\ PlacedAt(h)
  BY <1>1 DEF Live, Measures, Placed
<1>3. f \in File /\ where[f] # Absent /\ gone[f] = Absent
  BY <1>2, HandleSizes DEF PlacedAt
<1>5. \A g \in {h} : g \in Measuring(f) \/ where[f] \in drift
  BY <1>1, <1>2 DEF Measuring, Measures
<1>6. \A g \in Handle : Steady(g)
  BY <1>1, SameHandles
<1>. QED BY <1>1, <1>3, <1>5, <1>6, Resizing

LEMMA BalanceTruncatePath ==
    ASSUME UsageInv, UsageInv', PlaceInv, Balance, NEW CONSTANT f \in File, NEW CONSTANT n \in Size,
           TruncatePath(f, n)
    PROVE  Balance'
<1>1. /\ where[f] # Absent /\ gone[f] = Absent /\ Resize(f, n, {})
      /\ UNCHANGED <<where, handle, usage, gone>>
  BY DEF TruncatePath
<1>2. \A g \in {} : g \in Measuring(f) \/ where[f] \in drift
  OBVIOUS
<1>3. \A g \in Handle : Steady(g)
  BY <1>1, SameHandles
<1>. QED BY <1>1, <1>2, <1>3, Resizing

LEMMA BalanceOpenFd ==
    ASSUME UsageInv, UsageInv', PlaceInv, Balance, NEW CONSTANT h \in Handle, OpenFd(h)
    PROVE  Balance'
<1>. USE DEF PlaceInv
<1>. PICK f : f = handle[h].file
  OBVIOUS
<1>1. /\ handle[h].pc = "registered" /\ KeyOf(f) = handle[h].key
      /\ Resize(f, size[f], {h}) \/ Resize(f, 0, {h})
      /\ Advances(h, "registered", "maps") /\ handle'[h].new = handle[h].new
      /\ UNCHANGED <<where, usage, gone>>
  BY OpenFdDoes DEF OpenFd, At, UsageInv
<1>2. Live(h) /\ PlacedAt(h)
  BY <1>1 DEF Live, Placed
<1>3. f \in File /\ where[f] # Absent /\ gone[f] = Absent
  BY <1>2, HandleSizes DEF PlacedAt
<1>4. where[f] = handle[h].key[1]
  BY <1>1 DEF KeyOf
<1>6. \A g \in {h} : g \in Measuring(f) \/ where[f] \in drift
  <2>1. CASE handle[h].orphan
    BY <1>2, <1>4, <2>1 DEF PlacedAt
  <2>2. CASE ~handle[h].orphan
    BY <1>1, <2>2 DEF Measuring, Opening
  <2>. QED BY <2>1, <2>2
<1>7. \A g \in Handle : Steady(g)
  <2>1. Steady(h)
    BY <1>1 DEF Steady, Advances, Measures, InTier, Live, Opening
  <2>2. \A g \in Handle \ {h} : Steady(g)
    BY <1>1 DEF Steady, Advances, Others, Measures, InTier, Live
  <2>. QED BY <2>1, <2>2
<1>8. size[f] \in Size /\ 0 \in Size
  BY <1>3, Marks DEF UsageInv, FilesOK
<1>9. ASSUME NEW n \in Size, Resize(f, n, {h}) PROVE Balance'
  BY <1>1, <1>3, <1>6, <1>7, <1>9, Resizing
<1>. QED BY <1>1, <1>8, <1>9

\* A file of no bytes appears, or one is made empty; its creator owes nothing yet.
LEMMA BalanceCreat ==
    ASSUME UsageInv, UsageInv', PlaceInv, Balance, NEW CONSTANT h \in Handle, Creat(h)
    PROVE  Balance'
<1>. USE DEF PlaceInv
<1>1. PICK g \in File :
        /\ Others(h) /\ handle[h].pc = "creating" /\ handle'[h].pc = "created"
        /\ handle'[h].file = g /\ handle'[h].old = 0 /\ handle'[h].new = 0
        /\ gone[g] = Absent
        /\ \/ where[g] = 1 /\ UNCHANGED where /\ Resize(g, 0, {})
           \/ /\ where[g] = Absent /\ where' = [where EXCEPT ![g] = 1]
              /\ size' = [size EXCEPT ![g] = 0] /\ UNCHANGED drift
        /\ UNCHANGED <<usage, gone>>
  BY CreatDoes
<1>2. size' = [size EXCEPT ![g] = 0]
  BY <1>1 DEF Resize
<1>3. size'[g] = 0 /\ \A e : e # g => size'[e] = size[e]
  BY <1>2 DEF UsageInv, FilesOK
<1>4. ~Measures(h) /\ \A t \in Tier : OwedBy(t, h)' = OwedBy(t, h)
  <2>1. Share(h)' = 0
    BY <1>1, <1>3 DEF Share, SizeOf
  <2>2. \A t \in Tier : ~InTier(t, h)
    BY <1>1 DEF InTier, Live
  <2>3. ~Measures(h)
    BY <1>1 DEF Measures, Opening
  <2>. QED BY <2>1, <2>2, <2>3, OwedShare
<1>5. \A e \in Handle \ {h} : handle'[e] = handle[e]
  BY <1>1 DEF Others
<1>6. CASE where[g] = 1 /\ UNCHANGED where /\ Resize(g, 0, {})
  <2>1. \A e \in Handle \ {h} : Steady(e)
    BY <1>5 DEF Steady, Measures, InTier, Live
  <2>2. \A e \in Handle : \/ Steady(e)
                          \/ ~Measures(e) /\ \A t \in Tier : OwedBy(t, e)' = OwedBy(t, e)
    BY <1>4, <2>1
  <2>3. \A e \in {} : e \in Measuring(g) \/ where[g] \in drift
    OBVIOUS
  <2>4. 0 \in Size /\ where[g] # Absent
    BY <1>6, Marks, UsageAssumption
  <2>. QED BY <1>1, <1>6, <2>2, <2>3, <2>4, Resizing
<1>7. CASE where[g] = Absent /\ where' = [where EXCEPT ![g] = 1] /\ UNCHANGED drift
  <2>0. where'[g] = 1 /\ \A e : e # g => where'[e] = where[e]
    BY <1>7 DEF UsageInv, FilesOK
  <2>. SUFFICES ASSUME NEW CONSTANT t \in Tier \ drift' PROVE Balanced(t)'
    BY DEF Balance
  <2>1. Balanced(t) /\ t # Absent
    BY <1>7, UsageAssumption DEF Balance, Tier
  <2>2. ASSUME NEW CONSTANT e \in Handle PROVE OwedBy(t, e)' = OwedBy(t, e)
    <3>1. CASE e # h
      <4>1. handle'[e] = handle[e]
        BY <1>5, <3>1
      <4>2. InTier(t, e) => handle[e].file # g
        BY <1>7, NobodyHas DEF InTier
      <4>3. InTier(t, e) /\ Measures(e) => SizeOf(handle[e].file)' = SizeOf(handle[e].file)
        BY <1>3, <2>0, <4>1, <4>2 DEF SizeOf
      <4>. QED BY <4>1, <4>3, OwedKept
    <3>. QED BY <1>4, <3>1
  <2>3. ASSUME NEW CONSTANT e \in File PROVE NetOf(t, e)' = NetOf(t, e)
    BY <1>1, <1>3, <1>7, <2>0, <2>1 DEF NetOf
  <2>. QED BY <1>1, <2>1, <2>2, <2>3, SameSums
<1>. QED BY <1>1, <1>6, <1>7

\* A file goes that no handle has and whose bytes nobody counts, or the tier has drifted.
LEMMA Vanishing ==
    ASSUME UsageInv, UsageInv', PlaceInv, Balance, NEW CONSTANT f \in File, Vanish(f),
           UNCHANGED <<handle, usage>>, drift \subseteq drift', gone' = [gone EXCEPT ![f] = Absent],
           \A h \in Handle : Live(h) => handle[h].file # f,
           \A t \in Tier \ drift' : NetOf(t, f) = 0
    PROVE  Balance'
<1>. USE DEF PlaceInv
<1>1. /\ where'[f] = Absent
      /\ \A e : e # f => where'[e] = where[e] /\ size'[e] = size[e]
      /\ \A e : e # f => gone'[e] = gone[e]
  BY DEF Vanish, UsageInv, FilesOK
<1>. SUFFICES ASSUME NEW CONSTANT t \in Tier \ drift' PROVE Balanced(t)'
  BY DEF Balance
<1>2. Balanced(t) /\ t # Absent
  BY UsageAssumption DEF Balance, Tier
<1>3. ASSUME NEW CONSTANT g \in Handle PROVE OwedBy(t, g)' = OwedBy(t, g)
  <2>1. handle'[g] = handle[g]
    OBVIOUS
  <2>2. InTier(t, g) /\ Measures(g) => SizeOf(handle[g].file)' = SizeOf(handle[g].file)
    BY <1>1 DEF SizeOf, InTier
  <2>. QED BY <2>1, <2>2, OwedKept
<1>4. ASSUME NEW CONSTANT e \in File PROVE NetOf(t, e)' = NetOf(t, e)
  <2>1. CASE e = f
    <3>1. NetOf(t, f)' = 0
      BY <1>1, <1>2 DEF NetOf
    <3>. QED BY <2>1, <3>1
  <2>2. CASE e # f
    BY <1>1, <2>2 DEF NetOf
  <2>. QED BY <2>1, <2>2
<1>. QED BY <1>2, <1>3, <1>4, SameSums

LEMMA BalanceUnlink ==
    ASSUME UsageInv, UsageInv', PlaceInv, Balance, NEW CONSTANT f \in File, Unlink(f)
    PROVE  Balance'
<1>1. /\ gone[f] # Absent /\ where[f] = gone[f] /\ gone' = [gone EXCEPT ![f] = Absent]
      /\ Vanish(f) /\ UNCHANGED <<handle, usage, drift>>
  BY DEF Unlink
<1>2. \A h \in Handle : Live(h) => handle[h].file # f
  BY <1>1, NobodyHas DEF PlaceInv
<1>3. \A t \in Tier : NetOf(t, f) = 0
  BY <1>1 DEF NetOf
<1>. QED BY <1>1, <1>2, <1>3, Vanishing

LEMMA BalanceRenameOver ==
    ASSUME UsageInv, UsageInv', PlaceInv, Balance, NEW CONSTANT f \in File, NEW CONSTANT g \in File,
           RenameOver(f, g)
    PROVE  Balance'
<1>1. /\ gone[g] = Absent /\ Vanish(g) /\ UNCHANGED <<handle, usage, gone>>
      /\ drift' = IF size[g] = 0 THEN drift ELSE drift \cup {where[g]}
      /\ \A h \in Handle : handle[h].file # g
  BY DEF RenameOver, Unlocked, Unused
<1>2. gone' = [gone EXCEPT ![g] = Absent]
  BY <1>1 DEF UsageInv, FilesOK
<1>3. \A t \in Tier \ drift' : NetOf(t, g) = 0
  BY <1>1 DEF NetOf
<1>. QED BY <1>1, <1>2, <1>3, Vanishing

LEMMA BalanceUnlinkFails ==
    ASSUME UsageInv, UsageInv', PlaceInv, Balance, NEW CONSTANT f \in File, UnlinkFails(f)
    PROVE  Balance'
<1>. USE DEF PlaceInv
<1>1. /\ gone[f] # Absent /\ gone' = [gone EXCEPT ![f] = Absent]
      /\ drift' = IF where[f] = gone[f] /\ size[f] # 0 THEN drift \cup {gone[f]} ELSE drift
      /\ UNCHANGED <<where, size, handle, usage>>
  BY DEF UnlinkFails, disk
<1>2. gone'[f] = Absent /\ \A e : e # f => gone'[e] = gone[e]
  BY <1>1 DEF UsageInv, FilesOK
<1>. SUFFICES ASSUME NEW CONSTANT t \in Tier \ drift' PROVE Balanced(t)'
  BY DEF Balance
<1>3. Balanced(t) /\ t # Absent
  BY <1>1, UsageAssumption DEF Balance, Tier
<1>4. ASSUME NEW CONSTANT g \in Handle PROVE OwedBy(t, g)' = OwedBy(t, g)
  <2>1. handle'[g] = handle[g] /\ SizeOf(handle[g].file)' = SizeOf(handle[g].file)
    BY <1>1 DEF SizeOf
  <2>. QED BY <2>1, OwedKept
<1>5. ASSUME NEW CONSTANT e \in File PROVE NetOf(t, e)' = NetOf(t, e)
  BY <1>1, <1>2, <1>3 DEF NetOf
<1>. QED BY <1>1, <1>3, <1>4, <1>5, SameSums

LEMMA BalanceUnlinkSize ==
    ASSUME UsageInv, UsageInv', PlaceInv, Balance, NEW CONSTANT f \in File, UnlinkSize(f)
    PROVE  Balance'
<1>. USE DEF PlaceInv
<1>1. /\ where[f] # Absent /\ gone[f] = Absent /\ gone' = [gone EXCEPT ![f] = where[f]]
      /\ usage' = [usage EXCEPT ![where[f]] = (@ - size[f]) % W]
      /\ UNCHANGED <<where, size, handle, drift>>
  BY DEF UnlinkSize, Unlocked, disk
<1>2. \A g \in Handle : Steady(g)
  BY <1>1, SameHandles
<1>3. where[f] \in Tier /\ size[f] \in Int
  BY <1>1, SizeInt DEF UsageInv, FilesOK
<1>g. gone'[f] = where[f] /\ \A e : e # f => gone'[e] = gone[e]
  BY <1>1 DEF UsageInv, FilesOK
<1>4. ASSUME NEW CONSTANT t \in Tier \ drift' PROVE Balanced(t)'
  <2>1. Balanced(t) /\ t # Absent
    BY <1>1, UsageAssumption DEF Balance, Tier
  <2>2. ASSUME NEW CONSTANT g \in Handle PROVE OwedBy(t, g)' = OwedBy(t, g)
    <3>1. SizeOf(handle[g].file)' = SizeOf(handle[g].file)
      BY <1>1 DEF SizeOf
    <3>. QED BY <1>2, <3>1, SteadyOwed
  <2>3. ASSUME NEW CONSTANT e \in File, e # f \/ where[f] # t PROVE NetOf(t, e)' = NetOf(t, e)
    BY <1>1, <1>g, <2>3 DEF NetOf
  <2>4. CASE where[f] # t
    <3>1. usage'[t] = usage[t]
      BY <1>1, <2>4 DEF Counts
    <3>2. \A e \in File : NetOf(t, e)' = NetOf(t, e)
      BY <2>3, <2>4
    <3>. QED BY <2>1, <2>2, <3>1, <3>2, SameSums
  <2>5. CASE where[f] = t
    <3>0. PICK d, a : d = -size[f] /\ a = 0
      OBVIOUS
    <3>1. d \in Int /\ a \in Int /\ d + a = d /\ CountMoves(t, d)
      <4>1. usage'[t] = (usage[t] - size[f]) % W
        BY <1>1, <2>5 DEF Counts
      <4>2. usage[t] \in Int
        BY UsageAssumption DEF Counts
      <4>3. usage[t] - size[f] = usage[t] + d
        BY <1>3, <3>0, <4>2
      <4>4. usage'[t] = (usage[t] + d) % W
        BY <4>1, <4>3, Zenon
      <4>5. CountMoves(t, d)
        BY <4>4, Zenon DEF CountMoves
      <4>6. d \in Int /\ a \in Int /\ d + a = d
        BY <1>3, <3>0
      <4>. QED BY <4>5, <4>6
    <3>2. NetOf(t, f) = size[f] /\ NetOf(t, f)' = 0
      BY <1>1, <1>g, <2>1, <2>5 DEF NetOf
    <3>3. Total(Net(t)', File) = Total(Net(t), File) + d /\ Total(Net(t), File) \in Int
      <4>1. \A e \in File \ {f} : NetOf(t, e)' = NetOf(t, e)
        BY <2>3
      <4>2. Total(Net(t)', File) = Total(Net(t), File) + (NetOf(t, f)' - NetOf(t, f))
            /\ Total(Net(t), File) \in Int
        BY <4>1, NetOne
      <4>. QED BY <1>3, <3>0, <3>2, <4>2
    <3>4. /\ Total(OwedTo(t)', Handle) = Total(OwedTo(t), Handle) + a
          /\ Total(OwedTo(t), Handle) \in Int
      <4>1. \A g \in Handle : OwedBy(t, g)' = OwedBy(t, g)
        BY <2>2
      <4>2. Total(OwedTo(t)', Handle) = Total(OwedTo(t), Handle) /\ Total(OwedTo(t), Handle) \in Int
        BY <4>1, OwedSame
      <4>. QED BY <3>0, <4>2
    <3>. QED BY <2>1, <3>1, <3>3, <3>4, StaysBalanced
  <2>. QED BY <2>4, <2>5
<1>. QED BY <1>4 DEF Balance

LEMMA BalanceReleaseDelta ==
    ASSUME UsageInv, UsageInv', PlaceInv, Balance, NEW CONSTANT h \in Handle, ReleaseDelta(h)
    PROVE  Balance'
<1>. USE DEF PlaceInv
<1>. PICK u : u = handle[h].key[1]
  OBVIOUS
<1>1. /\ Ends(h, "delta") /\ usage' = [usage EXCEPT ![u] = (@ + Delta(h)) % W]
      /\ UNCHANGED <<where, size, gone, drift>>
  BY Endings DEF ReleaseDelta, disk, UsageInv
<1>2. u \in Tier /\ Delta(h) \in Int
  BY <1>1, HandleSizes DEF Ends, Live, Delta
<1>3. ASSUME NEW CONSTANT t \in Tier \ drift' PROVE Balanced(t)'
  <2>1. Balanced(t)
    BY <1>1 DEF Balance
  <2>2. ASSUME NEW CONSTANT g \in Handle \ {h} PROVE OwedBy(t, g)' = OwedBy(t, g)
    <3>1. handle'[g] = handle[g]
      BY <1>1 DEF Ends, Others
    <3>2. SizeOf(handle[g].file)' = SizeOf(handle[g].file)
      BY <1>1, <3>1 DEF SizeOf
    <3>. QED BY <3>1, <3>2, OwedKept
  <2>3. OwedBy(t, h)' = 0 /\ OwedBy(t, h) = IF u = t THEN Delta(h) ELSE 0
    <3>1. ~InTier(t, h)' /\ (InTier(t, h) <=> u = t) /\ Share(h) = Delta(h)
      BY <1>1 DEF InTier, Ends, Live, Share, Measures, Opening, Delta
    <3>. QED BY <3>1, OwedShare
  <2>4. \A e \in File : NetOf(t, e)' = NetOf(t, e)
    BY <1>1, NetKept
  <2>5. CASE u # t
    <3>1. usage'[t] = usage[t]
      BY <1>1, <2>5 DEF Counts
    <3>2. \A g \in Handle : OwedBy(t, g)' = OwedBy(t, g)
      BY <2>2, <2>3, <2>5
    <3>. QED BY <2>1, <2>4, <3>1, <3>2, SameSums
  <2>6. CASE u = t
    <3>0. PICK d, a, b : d = Delta(h) /\ a = -d /\ b = 0
      OBVIOUS
    <3>1. d \in Int /\ a \in Int /\ b \in Int /\ d + a = b
      BY <1>2, <3>0
    <3>2. CountMoves(t, d)
      <4>1. usage'[t] = (usage[t] + Delta(h)) % W
        BY <1>1, <2>6 DEF Counts
      <4>2. usage'[t] = (usage[t] + d) % W
        BY <3>0, <4>1, Zenon
      <4>. QED BY <4>2, Zenon DEF CountMoves
    <3>3. /\ Total(OwedTo(t)', Handle) = Total(OwedTo(t), Handle) + a
          /\ Total(OwedTo(t), Handle) \in Int
      <4>1. \A g \in Handle \ {h} : OwedBy(t, g)' = OwedBy(t, g)
        BY <2>2
      <4>2. Total(OwedTo(t)', Handle) = Total(OwedTo(t), Handle) + (OwedBy(t, h)' - OwedBy(t, h))
            /\ Total(OwedTo(t), Handle) \in Int
        BY <4>1, OwedOne
      <4>3. OwedBy(t, h)' - OwedBy(t, h) = a
        BY <2>3, <2>6, <3>0, <3>1
      <4>. QED BY <4>2, <4>3
    <3>4. Total(Net(t)', File) = Total(Net(t), File) + b /\ Total(Net(t), File) \in Int
      <4>1. Total(Net(t)', File) = Total(Net(t), File) /\ Total(Net(t), File) \in Int
        BY <2>4, NetSame
      <4>. QED BY <3>0, <4>1
    <3>. QED BY <2>1, <3>1, <3>2, <3>3, <3>4, StaysBalanced
  <2>. QED BY <2>5, <2>6
<1>. QED BY <1>3 DEF Balance

\* The size of the crawl goes from one count to another, and so do the bytes of file g.
LEMMA Shifted ==
    ASSUME UsageInv, UsageInv', Counts, NEW CONSTANT t \in Tier, Balanced(t),
           NEW CONSTANT f \in File, NEW CONSTANT g \in File, NEW CONSTANT from \in Tier,
           NEW CONSTANT to \in Tier, from # to, NEW CONSTANT s \in Int, seen[f].size = s,
           usage' = Shift(f, from, to),
           \A h \in Handle : OwedBy(t, h)' = OwedBy(t, h),
           \A e \in File \ {g} : NetOf(t, e)' = NetOf(t, e),
           NetOf(t, g)' - NetOf(t, g) = IF t = from THEN -s ELSE IF t = to THEN s ELSE 0
    PROVE  Balanced(t)'
<1>1. /\ usage'[from] = (usage[from] - s) % W /\ usage'[to] = (usage[to] + s) % W
      /\ \A u \in Tier \ {from, to} : usage'[u] = usage[u]
  BY DEF Shift, Counts
<1>2. usage[t] \in Int
  BY UsageAssumption DEF Counts
<1>3. PICK d, a : d = (IF t = from THEN -s ELSE IF t = to THEN s ELSE 0) /\ a = 0
  OBVIOUS
<1>4. d \in Int /\ a \in Int /\ d + a = d
  BY <1>3
<1>5. Total(OwedTo(t)', Handle) = Total(OwedTo(t), Handle) + a /\ Total(OwedTo(t), Handle) \in Int
  <2>1. Total(OwedTo(t)', Handle) = Total(OwedTo(t), Handle) /\ Total(OwedTo(t), Handle) \in Int
    BY OwedSame
  <2>. QED BY <1>3, <2>1
<1>6. Total(Net(t)', File) = Total(Net(t), File) + d /\ Total(Net(t), File) \in Int
  <2>1. Total(Net(t)', File) = Total(Net(t), File) + (NetOf(t, g)' - NetOf(t, g))
        /\ Total(Net(t), File) \in Int
    BY NetOne
  <2>2. NetOf(t, g)' - NetOf(t, g) = d
    BY <1>3
  <2>. QED BY <2>1, <2>2
<1>7. CountMoves(t, d)
  <2>1. CASE t = from
    <3>1. usage[t] - s = usage[t] + d
      BY <1>2, <1>3, <2>1
    <3>2. usage'[t] = (usage[t] - s) % W
      BY <1>1, <2>1
    <3>3. usage'[t] = (usage[t] + d) % W
      BY <3>1, <3>2, Zenon
    <3>. QED BY <3>3, Zenon DEF CountMoves
  <2>2. CASE t = to
    <3>1. d = s
      BY <1>3, <2>2
    <3>2. usage'[t] = (usage[t] + s) % W
      BY <1>1, <2>2
    <3>3. usage'[t] = (usage[t] + d) % W
      BY <3>1, <3>2, Zenon
    <3>. QED BY <3>3, Zenon DEF CountMoves
  <2>3. CASE t \notin {from, to}
    <3>1. usage'[t] = usage[t] /\ d = 0
      BY <1>1, <1>3, <2>3
    <3>. QED BY <3>1, Zenon DEF CountMoves
  <2>. QED BY <2>1, <2>2, <2>3
<1>. QED BY <1>4, <1>5, <1>6, <1>7, StaysBalanced

LEMMA BalanceMoveEnd ==
    ASSUME UsageInv, UsageInv', PlaceInv, Balance, NEW CONSTANT f \in File, NEW CONSTANT to \in Tier,
           NEW CONSTANT bytes \in Size, MoveEnd(f, to, bytes), UNCHANGED gone,
           NEW CONSTANT from \in Tier, NEW CONSTANT s \in Size, from = seen[f].key[1], from # to,
           s = seen[f].size
    PROVE  Balance'
<1>. USE DEF PlaceInv
<1>1. /\ where[f] = from /\ where' = [where EXCEPT ![f] = to] /\ size' = [size EXCEPT ![f] = bytes]
      /\ \A h \in Handle :
           /\ handle'[h].pc = handle[h].pc /\ handle'[h].file = handle[h].file
           /\ handle'[h].key = handle[h].key /\ handle'[h].old = handle[h].old
           /\ handle'[h].new = handle[h].new
           /\ IF handle[h].file = f /\ handle[h].pc # "close" THEN handle'[h].orphan
              ELSE handle'[h].orphan = handle[h].orphan
      /\ drift \subseteq drift'
      /\ (\E h \in Handle : handle[h].file = f /\ handle[h].pc # "close") => from \in drift'
      /\ size[f] # s \/ gone[f] = from => from \in drift'
      /\ bytes # s => to \in drift'
      /\ usage' = Shift(f, from, to)
  BY MoveEndDoes
<1>2. from # Absent /\ to # Absent /\ s \in Int
  BY UsageAssumption DEF Tier, Size
<1>3. /\ where'[f] = to /\ size'[f] = bytes
      /\ \A e : e # f => where'[e] = where[e] /\ size'[e] = size[e]
  BY <1>1 DEF UsageInv, FilesOK
<1>. SUFFICES ASSUME NEW CONSTANT t \in Tier \ drift' PROVE Balanced(t)'
  BY DEF Balance
<1>4. Balanced(t) /\ t \notin drift
  BY <1>1 DEF Balance
<1>5. ASSUME NEW CONSTANT h \in Handle PROVE OwedBy(t, h)' = OwedBy(t, h)
  <2>1. InTier(t, h)' = InTier(t, h)
    BY <1>1 DEF InTier, Live
  <2>2. ASSUME InTier(t, h) PROVE Share(h)' = Share(h)
    <3>1. Live(h) /\ PlacedAt(h) /\ handle[h].key[1] = t /\ handle[h].pc # "close"
      BY <2>2 DEF InTier, Live, Placed
    <3>2. handle[h].file # f
      <4>. SUFFICES ASSUME handle[h].file = f PROVE FALSE
        OBVIOUS
      <4>1. t # from
        BY <1>1, <3>1
      <4>2. handle[h].orphan
        BY <1>1, <3>1, <4>1 DEF PlacedAt
      <4>. QED BY <1>4, <3>1, <4>2 DEF PlacedAt
    <3>3. Measures(h)' = Measures(h) /\ SizeOf(handle[h].file)' = SizeOf(handle[h].file)
      BY <1>1, <1>3, <3>2 DEF Measures, SizeOf
    <3>. QED BY <1>1, <3>3 DEF Share, SizeOf
  <2>. QED BY <2>1, <2>2, OwedShare
<1>6. ASSUME NEW CONSTANT e \in File \ {f} PROVE NetOf(t, e)' = NetOf(t, e)
  BY <1>3 DEF NetOf
<1>7. NetOf(t, f)' - NetOf(t, f) = IF t = from THEN -s ELSE IF t = to THEN s ELSE 0
  <2>1. CASE t = from
    <3>1. NetOf(t, f) = s /\ NetOf(t, f)' = 0
      BY <1>1, <1>3, <2>1 DEF NetOf
    <3>. QED BY <1>2, <2>1, <3>1
  <2>2. CASE t = to
    <3>1. gone[f] # to
      BY <1>1, <1>2, <1>4, <2>2 DEF Leaving
    <3>2. NetOf(t, f) = 0 /\ NetOf(t, f)' = s
      BY <1>1, <1>3, <2>2, <3>1 DEF NetOf
    <3>. QED BY <1>2, <2>2, <3>2
  <2>3. CASE t \notin {from, to}
    <3>1. NetOf(t, f) = 0 /\ NetOf(t, f)' = 0
      BY <1>1, <1>3, <2>3 DEF NetOf
    <3>. QED BY <2>3, <3>1
  <2>. QED BY <2>1, <2>2, <2>3
<1>. QED BY <1>1, <1>2, <1>4, <1>5, <1>6, <1>7, Shifted

LEMMA BalanceMoveTwice ==
    ASSUME UsageInv, UsageInv', PlaceInv, Balance, NEW CONSTANT f \in File, NEW CONSTANT to \in Tier,
           NEW CONSTANT bytes \in Size, MoveTwice(f, to, bytes), UNCHANGED gone,
           NEW CONSTANT from \in Tier, NEW CONSTANT s \in Size, from = seen[f].key[1], from # to,
           s = seen[f].size
    PROVE  Balance'
<1>. USE DEF PlaceInv
<1>1. PICK g \in File : where[g] = Absent /\ where' = [where EXCEPT ![g] = to]
                        /\ size' = [size EXCEPT ![g] = bytes]
  BY DEF MoveTwice
<1>2. /\ usage' = Shift(f, from, to) /\ UNCHANGED handle
      /\ drift' = drift \cup (IF s # 0 THEN {from} ELSE {}) \cup (IF bytes # s THEN {to} ELSE {})
  BY DEF MoveTwice
<1>3. /\ where'[g] = to /\ size'[g] = bytes
      /\ \A e : e # g => where'[e] = where[e] /\ size'[e] = size[e]
  BY <1>1 DEF UsageInv, FilesOK
<1>4. from # Absent /\ to # Absent /\ s \in Int /\ gone[g] = Absent
  <2>1. gone[g] = Absent
    BY <1>1 DEF Leaving
  <2>. QED BY <2>1, UsageAssumption DEF Tier, Size
<1>. SUFFICES ASSUME NEW CONSTANT t \in Tier \ drift' PROVE Balanced(t)'
  BY DEF Balance
<1>5. Balanced(t) /\ t # Absent
  BY <1>2, UsageAssumption DEF Balance, Tier
<1>6. ASSUME NEW CONSTANT h \in Handle PROVE OwedBy(t, h)' = OwedBy(t, h)
  <2>1. handle'[h] = handle[h]
    BY <1>2
  <2>2. InTier(t, h) => handle[h].file # g
    BY <1>1, NobodyHas DEF InTier
  <2>3. InTier(t, h) /\ Measures(h) => SizeOf(handle[h].file)' = SizeOf(handle[h].file)
    BY <1>3, <2>1, <2>2 DEF SizeOf
  <2>. QED BY <2>1, <2>3, OwedKept
<1>7. ASSUME NEW CONSTANT e \in File \ {g} PROVE NetOf(t, e)' = NetOf(t, e)
  BY <1>3 DEF NetOf
<1>8. NetOf(t, g)' - NetOf(t, g) = IF t = from THEN -s ELSE IF t = to THEN s ELSE 0
  <2>1. NetOf(t, g) = 0 /\ NetOf(t, g)' = IF t = to THEN bytes ELSE 0
    BY <1>1, <1>3, <1>4, <1>5 DEF NetOf
  <2>2. (t = from => s = 0) /\ (t = to => bytes = s)
    BY <1>2
  <2>. QED BY <1>4, <2>1, <2>2
<1>. QED BY <1>1, <1>2, <1>4, <1>5, <1>6, <1>7, <1>8, Shifted

LEMMA BalanceMove ==
    ASSUME UsageInv, UsageInv', PlaceInv, Balance, Move
    PROVE  Balance'
<1>1. PICK f \in File, to \in Tier, bytes \in Size :
         /\ MoveEnd(f, to, bytes) \/ MoveTwice(f, to, bytes)
         /\ seen[f].size \in Size /\ seen[f].key[1] \in Tier /\ to # seen[f].key[1]
         /\ UNCHANGED gone
  BY Mover
<1>. PICK from, s : from = seen[f].key[1] /\ s = seen[f].size
  OBVIOUS
<1>2. from \in Tier /\ s \in Size /\ from # to
  BY <1>1
<1>. QED BY <1>1, <1>2, BalanceMoveEnd, BalanceMoveTwice

\* The crawl's sum of a tier that rested and to which nothing is owed is what it stores.
LEMMA SeenRight ==
    ASSUME UsageInv, PlaceInv, CrawlEnd, quiet, Settled(tier)
    PROVE  /\ SeenIn(tier) = Total(Net(tier), File) /\ SeenIn(tier) \in Int
           /\ \A g \in Handle : OwedBy(tier, g) = 0
<1>. USE DEF PlaceInv
<1>s. PICK S : S = {f \in File : seen[f] # Absent /\ seen[f].key[1] = tier}
  OBVIOUS
<1>g. PICK g : g = [f \in S |-> seen[f].size]
  OBVIOUS
<1>k. PICK k : k = Net(tier)
  OBVIOUS
<1>1. SeenIn(tier) = Total(g, S)
  BY <1>s, <1>g DEF SeenIn, Total
<1>2. \A f \in S : g[f] \in Int
  <2>1. \A f \in S : seen[f] \in [size : Size, key : Key]
    BY <1>s DEF PassOK
  <2>. QED BY <1>g, <2>1 DEF Size
<1>3. IsFiniteSet(File) /\ S \subseteq File /\ IsFiniteSet(S)
  BY <1>s, UsageAssumption, FS_Subset
<1>4. phase = "crawl" /\ \A f \in File : where[f] = tier => seen[f] # Absent
  BY DEF CrawlEnd
<1>5. ASSUME NEW f \in S PROVE k[f] = g[f]
  <2>1. where[f] = tier /\ size[f] = seen[f].size
    BY <1>s, <1>4 DEF PassOK, Crawled
  <2>2. gone[f] # tier
    BY <1>s, <2>1 DEF Settled
  <2>. QED BY <1>s, <1>g, <1>k, <2>1, <2>2 DEF Net, NetOf
<1>6. ASSUME NEW f \in File \ S PROVE k[f] = 0
  <2>1. where[f] # tier
    <3>. SUFFICES ASSUME where[f] = tier PROVE FALSE
      OBVIOUS
    <3>1. seen[f] # Absent
      BY <1>4
    <3>2. seen[f].key[1] <= tier /\ where[f] \in {Absent, 1, seen[f].key[1]}
      BY <1>4, <3>1 DEF PassOK, Crawled
    <3>3. seen[f].key[1] \in Tier /\ tier \in Tier
      <4>1. seen[f] \in [size : Size, key : Key]
        BY <3>1 DEF PassOK
      <4>. QED BY <4>1 DEF Key, PassOK
    <3>. QED BY <1>s, <3>1, <3>2, <3>3, UsageAssumption DEF Tier
  <2>. QED BY <1>k, <2>1 DEF Net, NetOf
<1>10. \A f \in S : g[f] \in Int /\ k[f] = g[f]
  BY <1>2, <1>5
<1>11. \A f \in File \ S : k[f] = 0
  BY <1>6
<1>7. Total(k, File) = Total(g, S)
  <2>. HIDE DEF PlaceInv
  <2>. QED BY <1>3, <1>10, <1>11, TotalPart
<1>8. Total(g, S) \in Int
  BY <1>2, <1>3, TotalInt
<1>9. \A h \in Handle : OwedBy(tier, h) = 0
  BY DEF Settled, OwedBy
<1>. QED BY <1>k, <1>1, <1>7, <1>8, <1>9

LEMMA BalanceCrawlEnd ==
    ASSUME UsageInv, UsageInv', PlaceInv, Balance, CrawlEnd
    PROVE  Balance'
<1>. USE DEF PlaceInv
<1>1. /\ usage' = [usage EXCEPT ![tier] = SeenIn(tier) % W]
      /\ drift' = IF quiet /\ Settled(tier) THEN drift \ {tier} ELSE drift \cup {tier}
      /\ UNCHANGED <<where, size, handle, gone>>
  BY DEF CrawlEnd, disk
<1>2. ASSUME NEW CONSTANT t, NEW CONSTANT g \in Handle PROVE OwedBy(t, g)' = OwedBy(t, g)
  <2>1. handle'[g] = handle[g] /\ SizeOf(handle[g].file)' = SizeOf(handle[g].file)
    BY <1>1 DEF SizeOf
  <2>. QED BY <2>1, OwedKept
<1>3. ASSUME NEW CONSTANT t, NEW CONSTANT f \in File PROVE NetOf(t, f)' = NetOf(t, f)
  BY <1>1, NetKept
<1>4. ASSUME NEW CONSTANT t \in Tier \ drift' PROVE Balanced(t)'
  <2>1. CASE t # tier
    <3>1. Balanced(t) /\ usage'[t] = usage[t]
      BY <1>1, <2>1 DEF Balance, Counts
    <3>2. /\ \A g \in Handle : OwedBy(t, g)' = OwedBy(t, g)
          /\ \A f \in File : NetOf(t, f)' = NetOf(t, f)
      BY <1>2, <1>3
    <3>. QED BY <3>1, <3>2, SameSums
  <2>2. CASE t = tier
    <3>1. quiet /\ Settled(tier)
      BY <1>1, <2>2
    <3>2. /\ SeenIn(tier) = Total(Net(t), File) /\ SeenIn(tier) \in Int
          /\ \A g \in Handle : OwedBy(t, g) = 0
      BY <2>2, <3>1, SeenRight
    <3>3. Total(OwedTo(t)', Handle) = 0
      <4>. PICK k : k = OwedTo(t)'
        OBVIOUS
      <4>1. \A g \in Handle : k[g] = 0
        BY <1>2, <3>2, FunctionsLater
      <4>2. Total(k, Handle) = 0
        BY <4>1, Marks, TotalZero
      <4>. QED BY <4>2
    <3>4. Total(Net(t)', File) = SeenIn(tier)
      <4>1. Net(t)' = Net(t)
        BY <1>3, FunctionsLater DEF Net
      <4>. QED BY <3>2, <4>1
    <3>5. usage'[t] = SeenIn(tier) % W
      BY <1>1, <2>2 DEF Counts
    <3>6. ((SeenIn(tier) % W) + 0) % W = SeenIn(tier) % W
      <4>. PICK x : x = SeenIn(tier)
        OBVIOUS
      <4>1. x \in Int /\ 0 \in Int /\ W \in Nat \ {0} /\ x + 0 = x
        BY <3>2, UsageAssumption
      <4>2. ((x % W) + 0) % W = (x + 0) % W
        BY <4>1, ModMod
      <4>. QED BY <4>1, <4>2
    <3>7. (usage'[t] + Total(OwedTo(t)', Handle)) % W = Total(Net(t)', File) % W
      BY <3>3, <3>4, <3>5, <3>6
    <3>. QED BY <3>7, BalancedLater
  <2>. QED BY <2>1, <2>2
<1>. QED BY <1>4 DEF Balance

LEMMA BalanceRest ==
    ASSUME UsageInv, Counts, Balance, UNCHANGED <<where, size, handle, gone, usage>>,
           drift \subseteq drift'
    PROVE  Balance'
<1>1. ASSUME NEW CONSTANT t, NEW CONSTANT g \in Handle PROVE OwedBy(t, g)' = OwedBy(t, g)
  <2>1. handle'[g] = handle[g] /\ SizeOf(handle[g].file)' = SizeOf(handle[g].file)
    BY DEF SizeOf
  <2>. QED BY <2>1, OwedKept
<1>. QED BY <1>1, SameBalance

LEMMA BalanceNext == UsageInv /\ UsageInv' /\ PlaceInv /\ Balance /\ [Next]_vars => Balance'
<1>. SUFFICES ASSUME UsageInv, UsageInv', PlaceInv, Balance, [Next]_vars PROVE Balance'
  OBVIOUS
<1>. USE DEF PlaceInv
<1>1. ASSUME NEW f \in File, Rename(f) PROVE Balance'
  BY <1>1, BalanceRest DEF Rename
<1>2. CASE Call
  BY <1>2, <1>1, BalanceOpening, BalanceReleasing, BalanceResizeOpen, BalanceTruncatePath,
     BalanceUnlinkSize, BalanceRenameOver
     DEF Call, Write, WriteBuf, Fallocate, CopyFileRange, Ftruncate, Extend
<1>3. CASE CallOn
  BY <1>3, BalanceOpening, BalanceReleasing, BalanceCreat, BalanceOpenFd, BalanceReleaseDelta,
     BalanceUnlink, BalanceUnlinkFails DEF CallOn
<1>4. CASE Worker
  <2>1. \/ Move \/ CrawlEnd
        \/ UNCHANGED <<where, size, handle, gone, usage, drift>>
    BY <1>4 DEF Worker, PassStep, StartPass, CrawlFile, MoveCopy, CopyFails, EndPass, MoveBegin, disk
  <2>. QED BY <2>1, BalanceMove, BalanceCrawlEnd, BalanceRest
<1>5. CASE UNCHANGED vars
  BY <1>5, BalanceRest DEF vars
<1>. QED BY <1>2, <1>3, <1>4, <1>5 DEF Next, Request

FullInv == UsageInv /\ PlaceInv /\ Balance

LEMMA FullNext == FullInv /\ [Next]_vars => FullInv'
<1>1. UsageInv /\ [Next]_vars => UsageInv'
  BY FilesNext, HandlesNext DEF UsageInv
<1>. QED BY <1>1, PlacedNext, CountsNext, PassNext, BalanceNext DEF FullInv, PlaceInv

LEMMA FullInit == Init => FullInv
<1>1. Init => Balance
  BY DEF Init, Balance
<1>. QED BY <1>1, UsageInit, PlaceInit DEF FullInv

LEMMA Always == Spec => []FullInv
BY FullInit, FullNext, PTL DEF Spec

LEMMA TypedFull == FullInv => TypeOK
<1>. SUFFICES ASSUME FullInv PROVE TypeOK
  OBVIOUS
<1>. USE DEF FullInv, PlaceInv, UsageInv
<1>1. \A h \in Handle : handle[h].old \in Size /\ handle[h].new \in Size
  BY DEF Tracked, HandleRec
<1>2. count \in [Key -> 0 .. Cardinality(Handle)]
  <2>1. ASSUME NEW k \in Key PROVE count[k] \in 0 .. Cardinality(Handle)
    <3>1. /\ IsFiniteSet(Holders(k)) /\ Cardinality(Holders(k)) <= Cardinality(Handle)
          /\ Holders(k) \subseteq Handle
      BY Marks, FS_Subset DEF Holders
    <3>2. Cardinality(Holders(k)) \in Nat /\ Cardinality(Handle) \in Nat
      BY <3>1, Marks, FS_CardinalityType
    <3>. QED BY <3>1, <3>2 DEF CountFits
  <2>. QED BY <2>1 DEF Tracked, MapsOK
<1>. QED BY <1>1, <1>2 DEF TypeOK, FilesOK, Tracked, MapsOK, Counts

\* The variables keep their types: counts stay in the width they have, the registry never
\* counts below zero or more than the handles there are.
THEOREM UsageTypeCorrect == Spec => []TypeOK
BY Always, TypedFull, PTL

LEMMA BalanceOwed == FullInv => UsageOwed
<1>. SUFFICES ASSUME FullInv, NEW t \in Tier \ drift
              PROVE  (usage[t] + MapThenSumSet(LAMBDA h : Owes[h], Owing(t))) % W
                     = MapThenSumSet(LAMBDA f : Net(t)[f], File) % W
  BY DEF UsageOwed
<1>. USE DEF FullInv
<1>o. PICK o : o = Owes
  OBVIOUS
<1>k. PICK k, m : k = OwedTo(t) /\ m = Net(t)
  OBVIOUS
<1>1. /\ MapThenSumSet(LAMBDA h : Owes[h], Owing(t)) = Total(o, Owing(t))
      /\ MapThenSumSet(LAMBDA f : Net(t)[f], File) = Total(m, File)
  BY <1>o, <1>k DEF Total
<1>2. Total(k, Handle) = Total(o, Owing(t))
  <2>1. Owing(t) \subseteq Handle /\ \A h \in Handle : k[h] = IF h \in Owing(t) THEN o[h] ELSE 0
    BY <1>o, <1>k DEF Owing, OwedTo, OwedBy
  <2>2. \A h \in Owing(t) : o[h] \in Int
    BY <1>o, <2>1, BalanceTypes DEF OwedBy
  <2>. QED BY <2>1, <2>2, Marks, TotalPart
<1>3. (usage[t] + Total(k, Handle)) % W = Total(m, File) % W
  BY <1>k DEF Balance, Balanced
<1>. QED BY <1>1, <1>2, <1>3

\* Opens, writes, truncates, renames and removals, also ones that fail, on any number of
\* threads, with movers and crawls between any two of their steps: a tier's count and what
\* open handles and unlinks still owe it make the bytes it stores, but for the tiers that
\* one of the causes listed with UsageOwed has touched since their last crawl (drift).
THEOREM UsageCorrect == Spec => []UsageOwed
BY Always, BalanceOwed, PTL

LEMMA SmallMod == ASSUME NEW m \in Nat \ {0}, NEW a \in 0 .. m - 1 PROVE a % m = a
<1>1. a = a + m * 0 /\ a % m \in 0 .. m - 1 /\ a = m * (a \div m) + (a % m) /\ a \div m \in Int
  BY DivMod
<1>. QED BY <1>1, Multiple

LEMMA Rounded ==
    ASSUME NEW B \in Nat \ {0}, NEW a \in Nat
    PROVE  a \div B \in Int /\ 0 <= a \div B /\ a - (B - 1) <= B * (a \div B) /\ B * (a \div B) <= a
<1>1. a = B * (a \div B) + (a % B) /\ a % B \in 0 .. B - 1 /\ a \div B \in Int
  BY DivMod
<1>. QED BY <1>1

Room(m, B, a, u, total, used, r) ==
    ((a - u) % m) * B \in total - used - r .. total - used + r

Near(B, a, total, r) == total - r <= B * a /\ B * a <= total

\* The room in blocks, from sums that are rounded by at most r.
LEMMA RoomLeft ==
    ASSUME NEW m \in Nat \ {0}, NEW B \in Nat \ {0}, NEW a \in Int, NEW u \in Int,
           NEW total \in Int, NEW used \in Int, NEW r \in Int,
           total < m, used + r <= total, 0 <= u,
           Near(B, a, total, r), Near(B, u, used, r)
    PROVE  Room(m, B, a, u, total, used, r)
<1>. PICK x, y, d : x = B * a /\ y = B * u /\ d = a - u
  OBVIOUS
<1>1. x \in Int /\ y \in Int /\ d \in Int /\ d * B = x - y
  OBVIOUS
<1>2. d * B >= 0
  BY <1>1 DEF Near
<1>3. d >= 0
  BY <1>1, <1>2
<1>4. a <= B * a /\ B * a <= total
  <2>1. a >= 0
    BY <1>1, <1>3
  <2>. QED BY <2>1 DEF Near
<1>5. d \in 0 .. m - 1
  BY <1>1, <1>3, <1>4
<1>6. d % m = d
  BY <1>5, SmallMod
<1>7. d * B \in total - used - r .. total - used + r
  BY <1>1 DEF Near
<1>. QED BY <1>6, <1>7 DEF Room

\* Without open files and unlinks a count is the bytes of its tier, which fit.
LEMMA CountRight ==
    ASSUME UsageInv, UsageOwed, drift = {}, \A f \in File : gone[f] = Absent,
           \A h \in Handle : At(h, "idle"),
           NEW t \in Tier, usage[t] \in 0 .. W - 1, Stored(t) \in 0 .. W - 1
    PROVE  usage[t] = Stored(t)
<1>1. Owing(t) = {}
  BY DEF Owing, At
<1>o. PICK o : o = Owes
  OBVIOUS
<1>m. PICK m, A : m = Net(t) /\ A = {f \in File : where[f] = t}
  OBVIOUS
<1>a. PICK a, b : a = usage[t] /\ b = Stored(t)
  OBVIOUS
<1>2. MapThenSumSet(LAMBDA h : Owes[h], Owing(t)) = 0
  <2>1. Total(o, {}) = 0
    BY TotalEmpty
  <2>. QED BY <1>1, <1>o, <2>1 DEF Total
<1>3. MapThenSumSet(LAMBDA f : Net(t)[f], File) = b
  <2>1. MapThenSumSet(LAMBDA f : Net(t)[f], File) = Total(m, File) /\ b = Total(size, A)
    BY <1>m, <1>a DEF Total, Stored
  <2>2. t # Absent
    BY UsageAssumption DEF Tier
  <2>3. IsFiniteSet(File) /\ A \subseteq File
    BY <1>m, UsageAssumption
  <2>4. \A f \in A : m[f] = size[f] /\ size[f] \in Int
    BY <1>m, <2>2, SizeInt DEF Net, NetOf
  <2>5. \A f \in File \ A : m[f] = 0
    BY <1>m DEF Net, NetOf
  <2>6. \A f \in File : m[f] = IF f \in A THEN size[f] ELSE 0
    BY <2>4, <2>5
  <2>7. \A f \in A : size[f] \in Int
    BY <2>4
  <2>8. Total(m, File) = Total(size, A)
    BY <2>3, <2>4, <2>5, <2>6, <2>7, TotalPart
  <2>. QED BY <2>1, <2>8
<1>4. (a + 0) % W = b % W
  <2>1. (usage[t] + MapThenSumSet(LAMBDA h : Owes[h], Owing(t))) % W
        = MapThenSumSet(LAMBDA f : Net(t)[f], File) % W
    BY DEF UsageOwed
  <2>. QED BY <1>2, <1>3, <1>a, <2>1, Zenon
<1>5. a + 0 = a /\ W \in Nat \ {0} /\ a \in 0 .. W - 1 /\ b \in 0 .. W - 1
  BY <1>a, UsageAssumption
<1>6. a % W = a /\ b % W = b
  BY <1>5, SmallMod
<1>. QED BY <1>4, <1>5, <1>6, <1>a

LEMMA TierFinite == IsFiniteSet(Tier) /\ Cardinality(Tier) = NTiers /\ W \in Nat \ {0}
                    /\ 1 \in Tier
                    /\ \A t \in Tier : Quota[t] \in Nat /\ BlockSize[t] \in Nat \ {0}
<1>1. NTiers \in Nat /\ 1 \in Int /\ NTiers \in Int /\ NTiers >= 1
  BY UsageAssumption
<1>2. IsFiniteSet(1 .. NTiers) /\ Cardinality(1 .. NTiers) = NTiers
  BY <1>1, FS_Interval
<1>. QED BY <1>2, UsageAssumption DEF Tier

LEMMA StoredNat == ASSUME PlaceInv, UsageInv, NEW t \in Tier PROVE Stored(t) \in Nat
<1>. PICK A : A = {f \in File : where[f] = t}
  OBVIOUS
<1>. PICK z : z = [f \in File |-> 0]
  OBVIOUS
<1>1. IsFiniteSet(A) /\ A \subseteq File
  BY UsageAssumption, FS_Subset
<1>2. \A f \in A : size[f] \in Int /\ z[f] = 0 /\ 0 <= size[f]
  BY DEF UsageInv, FilesOK, Size
<1>3. Stored(t) = Total(size, A)
  BY DEF Total, Stored
<1>4. Total(size, A) \in Int
  BY <1>1, <1>2, TotalInt
<1>5. \A f \in A : z[f] \in Int /\ size[f] \in Int /\ z[f] <= size[f]
  BY <1>2
<1>6. Total(z, A) <= Total(size, A)
  BY <1>1, <1>5, TotalMonotonic
<1>7. Total(z, A) = 0
  BY <1>1, <1>2, TotalZero
<1>. QED BY <1>3, <1>4, <1>6, <1>7

LEMMA OneOfSum ==
    ASSUME NEW g, NEW S, IsFiniteSet(S), \A x \in S : g[x] \in Nat, NEW e \in S
    PROVE  g[e] <= Total(g, S) /\ Total(g, S) \in Int /\ 0 <= Total(g, S)
<1>. PICK z : z = [x \in S |-> 0]
  OBVIOUS
<1>1. \A x \in S : g[x] \in Int
  OBVIOUS
<1>2. IsFiniteSet(S \ {e})
  BY FS_Subset
<1>3. \A x \in S \ {e} : z[x] \in Int /\ g[x] \in Int /\ z[x] <= g[x]
  OBVIOUS
<1>4. \A x \in S \ {e} : z[x] = 0
  OBVIOUS
<1>5. Total(z, S \ {e}) <= Total(g, S \ {e}) /\ Total(z, S \ {e}) = 0
  BY <1>2, <1>3, <1>4, TotalMonotonic, TotalZero
<1>6. Total(g, S) = g[e] + Total(g, S \ {e}) /\ Total(g, S \ {e}) \in Int
  BY <1>1, <1>2, TotalRemove, TotalInt
<1>. QED BY <1>5, <1>6

LEMMA Free == FullInv => FreeSpaceRight
<1>0. PICK total, s, used, A, U, r, c :
         /\ total = Total(Quota, Tier) /\ s = [t \in Tier |-> Stored(t)] /\ used = Total(s, Tier)
         /\ A = Total(QuotaBlocks, Tier) /\ U = Total(UsedBlocks, Tier)
         /\ r = NTiers * c /\ c = BlockSize[1] - 1
  OBVIOUS
<1>b. PICK B : B = BlockSize[1]
  OBVIOUS
<1>. SUFFICES ASSUME FullInv, \A t \in Tier : BlockSize[t] = B
              PROVE  FreeSpaceShown
  BY <1>b DEF FreeSpaceRight
<1>c. Max({BlockSize[t] : t \in Tier}) = B /\ B \in Nat \ {0} /\ c = B - 1
  <2>1. B \in Nat \ {0}
    BY <1>b, TierFinite
  <2>2. {BlockSize[t] : t \in Tier} = {B}
    BY TierFinite
  <2>3. Max({B}) \in {B}
    BY <2>1 DEF Max
  <2>. QED BY <1>0, <1>b, <2>1, <2>2, <2>3
<1>. SUFFICES ASSUME drift = {}, \A f \in File : gone[f] = Absent, \A h \in Handle : At(h, "idle"),
                     used + r <= total
              PROVE  Room(W, B, A, U, total, used, r)
  <2>1. NTiers * (Max({BlockSize[t] : t \in Tier}) - 1) = r
    BY <1>0, <1>c
  <2>. QED BY <1>0, <1>b, <2>1 DEF FreeSpaceShown, Statfs, Total, Room
<1>1. UsageInv /\ UsageOwed /\ PlaceInv
  BY <1>0, BalanceOwed DEF FullInv
<1>2. r \in Nat
  BY <1>0, <1>c, TierFinite, UsageAssumption
<1>3. total \in Int /\ total < W
  <2>1. \A t \in Tier : Quota[t] \in Int
    BY <1>0, TierFinite
  <2>2. Total(Quota, Tier) \in Int
    BY <1>0, <2>1, TierFinite, TotalInt
  <2>3. Total(Quota, Tier) < W
    BY <1>0, WidthAssumption DEF Total
  <2>. QED BY <1>0, <2>2, <2>3
<1>4. ASSUME NEW t \in Tier
      PROVE  s[t] = usage[t] /\ s[t] \in Nat
  <2>1. \A x \in Tier : s[x] \in Nat
    BY <1>0, <1>1, StoredNat
  <2>2. s[t] <= used /\ used \in Int
    BY <1>0, <2>1, TierFinite, OneOfSum
  <2>3. s[t] \in 0 .. W - 1
    BY <1>0, <2>1, <2>2, <1>2, <1>3, TierFinite
  <2>4. usage[t] \in 0 .. W - 1
    BY <1>0, <1>1 DEF PlaceInv, Counts
  <2>. QED BY <1>0, <2>1, <2>3, <2>4, <1>1, CountRight
<1>5. used \in Int
  <2>1. \A x \in Tier : s[x] \in Int
    BY <1>0, <1>4
  <2>. QED BY <1>0, <2>1, TierFinite, TotalInt
<1>6. Near(B, A, total, r) /\ A \in Int
  <2>1. ASSUME NEW t \in Tier
        PROVE  /\ Quota[t] \in Int /\ QuotaBlocks[t] \in Int
               /\ Quota[t] - c <= B * QuotaBlocks[t] /\ B * QuotaBlocks[t] <= Quota[t]
    <3>a. PICK a : a = Quota[t]
      OBVIOUS
    <3>1. a \in Nat /\ B \in Nat \ {0} /\ QuotaBlocks[t] = a \div B
      BY <1>c, <3>a, TierFinite DEF QuotaBlocks
    <3>2. a \div B \in Int /\ a - (B - 1) <= B * (a \div B) /\ B * (a \div B) <= a
      BY <3>1, Rounded
    <3>. QED BY <1>c, <3>a, <3>1, <3>2
  <2>2. B \in Nat /\ c \in Nat /\ r = Cardinality(Tier) * c
    BY <1>0, <1>c, TierFinite
  <2>3. /\ Total(Quota, Tier) - Cardinality(Tier) * c <= B * Total(QuotaBlocks, Tier)
        /\ B * Total(QuotaBlocks, Tier) <= Total(Quota, Tier)
    BY <1>0, <2>1, <2>2, TierFinite, TotalRounds
  <2>4. Total(QuotaBlocks, Tier) \in Int
    BY <1>0, <2>1, TierFinite, TotalInt
  <2>. QED BY <1>0, <2>2, <2>3, <2>4 DEF Near
<1>7. Near(B, U, used, r) /\ U \in Int /\ 0 <= U
  <2>1. ASSUME NEW t \in Tier
        PROVE  /\ s[t] \in Int /\ UsedBlocks[t] \in Int /\ UsedBlocks[t] \in Nat
               /\ s[t] - c <= B * UsedBlocks[t] /\ B * UsedBlocks[t] <= s[t]
    <3>a. PICK a : a = s[t]
      OBVIOUS
    <3>1. a \in Nat /\ B \in Nat \ {0} /\ UsedBlocks[t] = a \div B
      BY <1>0, <1>c, <1>4, <3>a, TierFinite DEF UsedBlocks
    <3>2. /\ a \div B \in Int /\ 0 <= a \div B
          /\ a - (B - 1) <= B * (a \div B) /\ B * (a \div B) <= a
      BY <3>1, Rounded
    <3>. QED BY <1>c, <3>a, <3>1, <3>2
  <2>2. B \in Nat /\ c \in Nat /\ r = Cardinality(Tier) * c
    BY <1>0, <1>c, TierFinite
  <2>3. /\ Total(s, Tier) - Cardinality(Tier) * c <= B * Total(UsedBlocks, Tier)
        /\ B * Total(UsedBlocks, Tier) <= Total(s, Tier)
    BY <1>0, <2>1, <2>2, TierFinite, TotalRounds
  <2>4. Total(UsedBlocks, Tier) \in Int /\ 0 <= Total(UsedBlocks, Tier)
    <3>1. 1 \in Tier
      BY <1>0, UsageAssumption DEF Tier
    <3>. QED BY <1>0, <2>1, <3>1, TierFinite, OneOfSum
  <2>. QED BY <1>0, <2>2, <2>3, <2>4 DEF Near
<1>8. r \in Int
  BY <1>2
<1>. QED BY <1>3, <1>5, <1>6, <1>7, <1>8, <1>c, TierFinite, RoomLeft

\* With tiers that all have one block size, whenever no file is open or being removed and no
\* count has drifted, what df shows is the room that the quotas leave, up to the rounding of
\* each tier to blocks.
THEOREM FreeSpaceCorrect == Spec => []FreeSpaceRight
BY Always, Free, PTL
=============================================================================
