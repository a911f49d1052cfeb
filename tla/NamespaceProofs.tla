-------------------------- MODULE NamespaceProofs --------------------------
(***************************************************************************)
(* Proofs about Namespace, for every number of tiers, directories, names,  *)
(* files, requests and moves: the types; that only a directory rename      *)
(* takes a mover's temporary away; that no file is lost; that the tiers    *)
(* agree on the directories; that entries name the tier of their file, so  *)
(* that getattr finds it; and that files keep the attributes that          *)
(* applications set.                                                       *)
(***************************************************************************)
EXTENDS Namespace, FiniteSetTheorems, TLAPS

(* The shapes of states *)

MoverPC == {"idle", "copy", "copied", "remove", "removed", "tested", "renamed", "times", "change"}
FileId == 1 .. MaxFiles
ReqRec == [op : FileOps \cup DirChanges \cup {"none", "create"},
           step : {"none", "call", "entry", "keys"},
           p : Path \cup Dir \cup {Absent}, q : Path \cup Dir \cup {Absent}, t : Tier]
FileRec == [at : Loc, name : Path, meta : Tier, time : Value, done : BOOLEAN]
MoverRec == [pc : MoverPC, f : FileRec \cup {Absent}, t : Tier, clash : BOOLEAN]
PastRec == [wanted : [FileId -> [Attr -> Value]], late : [Attr -> SUBSET FileId],
            gone : SUBSET FileId, hit : SUBSET FileId,
            shadowed : SUBSET Path, fresh : SUBSET Path, stale : SUBSET Path,
            torn : SUBSET Dir, carried : BOOLEAN, died : BOOLEAN]

DirTyped == dir \in [Tier -> [Dir -> Value \cup {Absent}]]
FileTyped == file \in [Loc -> Inode \cup {Absent}]
DbTyped == db \in [Path -> Tier \cup {Absent}]
CountsTyped == made \in 0 .. MaxFiles /\ begun \in 0 .. MaxRequests /\ moves \in 0 .. MaxMoves
\* The paths of a request fit its operation.
ReqTyped ==
    /\ req \in ReqRec
    /\ req.op \in FileOps \cup {"create"} =>
          req.p \in Visible /\ req.q \in Visible /\ req.step \in {"call", "entry"}
    /\ req.op \in DirChanges => req.p \in Dir /\ req.q \in Dir /\ req.step \in {"call", "keys"}
    /\ req.op \in {"rename", "link", "renamedir"} => req.p # req.q
    /\ req.op \in {"mkdir", "rmdir", "setdir", "unlink", "create"} => req.p = req.q
    /\ req.op = "create" => req.t = 1
    /\ req.op = "none" => req = NoReq
\* A File has the name it was crawled under until a conflict renames it; the mover's one is
\* among those of the pass.
WorkTyped ==
    /\ phase \in {"idle", "crawl", "move", "update"} /\ crawling \in Tier
    /\ phase # "crawl" => crawling = 1
    /\ files \in SUBSET FileRec /\ mover \in MoverRec
    /\ phase = "idle" => files = {}
    /\ phase = "crawl" => \A f \in files : f.at[1] < crawling
    /\ \A f, g \in files : f.at = g.at => f = g
    /\ \A f \in files : ~f.done => f.at[2] = f.name
    /\ mover.pc # "idle" =>
          /\ phase = "move" /\ mover.f \in FileRec /\ mover.f.name \in Visible
          /\ mover.f.at[2] = mover.f.name /\ mover.f.at[1] # mover.t
          /\ \E f \in files : f.at = mover.f.at /\ f.name = mover.f.name /\ f.done
PastTyped == past \in PastRec

Typed == DirTyped /\ FileTyped /\ DbTyped /\ CountsTyped /\ ReqTyped /\ WorkTyped /\ PastTyped
-----------------------------------------------------------------------------
LEMMA Numbers ==
    /\ NTiers \in Nat /\ NTiers >= 1 /\ MaxFiles \in Nat /\ MaxRequests \in Nat /\ MaxMoves \in Nat
    /\ OldFiles \in 0 .. MaxFiles /\ 1 \in Tier /\ Tier \subseteq Nat
BY SpaceAssumption DEF Tier

LEMMA Names ==
    /\ Absent \notin Tier /\ Absent \notin Value
    /\ Plain \in Kind /\ Hidden \in Kind /\ Plain # Hidden
    /\ Plain \notin Tier /\ Hidden \notin Tier
<1>1. Absent \notin Nat /\ Tier \subseteq Nat
  BY SpaceAssumption, Numbers
<1>2. Absent \notin Value
  BY <1>1 DEF Value, Raw
<1>3. Plain \notin Tier /\ Hidden \notin Tier
  BY DEF Plain, Hidden, Tier
<1>4. Absent \notin Tier
  BY <1>1
<1>5. Plain \in Kind /\ Hidden \in Kind
  BY DEF Kind
<1>6. Plain # Hidden
  BY DEF Plain, Hidden
<1>. QED BY <1>1, <1>2, <1>3, <1>4, <1>5, <1>6

LEMMA OldFinite == ASSUME NEW S, S \subseteq Visible PROVE IsFiniteSet(S)
<1>. PICK f : f = [p \in S |-> <<p[1], p[2]>>]
  OBVIOUS
<1>1. IsFiniteSet(Dir \X Base)
  BY SpaceAssumption, FS_Product
<1>2. f \in [S -> Dir \X Base]
  BY DEF Visible, Path
<1>3. \A p, q \in S : f[p] = f[q] => p = q
  BY DEF Visible, Path
<1>4. f \in Injection(S, Dir \X Base)
  BY <1>2, <1>3 DEF Injection, IsInjective
<1>. QED BY <1>1, <1>4, FS_Injection

LEMMA PathOf == ASSUME NEW p \in Path PROVE p[1] \in Dir /\ p[2] \in Base /\ p[3] \in Kind /\ p = <<p[1], p[2], p[3]>>
BY DEF Path

LEMMA TypedInit == Init => Typed
<1>. SUFFICES ASSUME Init PROVE Typed
  OBVIOUS
<1>1. PICK D \in SUBSET Dir :
          dir = [t \in Tier |-> [d \in Dir |-> IF d \in D THEN 0 ELSE Absent]]
  BY DEF Init
<1>2. DirTyped
  BY <1>1 DEF DirTyped, Value
<1>3. PICK S \in SUBSET {p \in Visible : HasDir(1, p[1])} :
        /\ Cardinality(S) <= OldFiles /\ made = Cardinality(S)
        /\ \E where \in [S -> Tier], id \in [S -> 1 .. Cardinality(S)] :
            /\ \A p, q \in S : id[p] = id[q] => p = q
            /\ file = [l \in Loc |-> IF l[2] \in S /\ where[l[2]] = l[1]
                                     THEN NewFile(id[l[2]], FALSE) ELSE Absent]
            /\ db = [p \in Path |-> IF p \in S THEN where[p] ELSE Absent]
  BY DEF Init
<1>4. Cardinality(S) \in Nat /\ made \in 0 .. MaxFiles
  BY <1>3, OldFinite, FS_CardinalityType, Numbers
<1>5. FileTyped /\ DbTyped
  <2>1. PICK where \in [S -> Tier], id \in [S -> 1 .. Cardinality(S)] :
            /\ file = [l \in Loc |-> IF l[2] \in S /\ where[l[2]] = l[1]
                                     THEN NewFile(id[l[2]], FALSE) ELSE Absent]
            /\ db = [p \in Path |-> IF p \in S THEN where[p] ELSE Absent]
    BY <1>3
  <2>2. ASSUME NEW p \in S PROVE NewFile(id[p], FALSE) \in Inode
    <3>1. id[p] \in 1 .. MaxFiles
      BY <1>3, <1>4, Numbers
    <3>. QED BY <3>1 DEF NewFile, Inode, Value
  <2>. QED BY <2>1, <2>2 DEF FileTyped, DbTyped
<1>6. CountsTyped
  BY <1>4, Numbers DEF Init, CountsTyped
<1>7. ReqTyped
  BY Numbers DEF Init, ReqTyped, NoReq, ReqRec, FileOps, DirChanges, Attr
<1>8. WorkTyped
  BY Numbers DEF Init, WorkTyped, NoMove, MoverRec, MoverPC
<1>9. PastTyped
  BY DEF Init, PastTyped, PastRec, FileId, Value
<1>. QED BY <1>2, <1>5, <1>6, <1>7, <1>8, <1>9 DEF Typed
-----------------------------------------------------------------------------
(* Places of requests and of the mover *)

LEMMA HereLoc ==
    ASSUME ReqTyped, req.op \in FileOps \cup {"create"}
    PROVE  /\ Here \in Loc /\ There \in Loc /\ req.p \in Visible /\ req.q \in Visible /\ req.t \in Tier
           /\ req.p \in Path /\ req.q \in Path /\ Here[1] = req.t /\ Here[2] = req.p
           /\ There[1] = req.t /\ There[2] = req.q
<1>1. req.p \in Visible /\ req.q \in Visible /\ req.t \in Tier
  BY DEF ReqTyped, ReqRec
<1>. QED BY <1>1 DEF Here, There, Loc, Visible

LEMMA MoverLoc ==
    ASSUME WorkTyped, mover.pc # "idle"
    PROVE  /\ mover.f \in FileRec /\ mover.t \in Tier /\ mover.f.name \in Visible /\ mover.f.name \in Path
           /\ Source \in Loc /\ Target \in Loc /\ Tmp \in Loc /\ RenameTo \in Loc
           /\ ConflictName \in Path /\ <<mover.t, ConflictName>> \in Loc
           /\ Source[1] \in Tier /\ Source[1] # mover.t /\ Source[2] = mover.f.name
           /\ Target = <<mover.t, mover.f.name>> /\ Tmp[2] \in Path /\ Tmp[2][3] = Hidden
           /\ ConflictName[3] = Source[1] /\ Tmp[2] # mover.f.name
<1>1. mover.f \in FileRec /\ mover.t \in Tier /\ mover.f.name \in Visible
  BY DEF WorkTyped, MoverRec
<1>. PICK f : f = mover.f
  OBVIOUS
<1>. PICK p : p = f.name
  OBVIOUS
<1>2. p \in Path /\ p[1] \in Dir /\ p[2] \in Base /\ p[3] = Plain /\ f.at \in Loc
  BY <1>1 DEF FileRec, Visible, Path
<1>3. f.at[1] \in Tier /\ f.at[2] = p /\ f.at[1] # mover.t
  BY <1>2 DEF Loc, WorkTyped
<1>4. <<p[1], p[2], Hidden>> \in Path /\ <<p[1], p[2], f.at[1]>> \in Path
  BY <1>2, <1>3 DEF Path, Kind
<1>5. Tmp = <<mover.t, <<p[1], p[2], Hidden>>>> /\ Source = f.at /\ ConflictName = <<p[1], p[2], f.at[1]>>
      /\ Target = <<mover.t, p>>
  BY DEF Tmp, Source, ConflictName, Target
<1>6. Tmp \in Loc /\ Target \in Loc /\ <<mover.t, ConflictName>> \in Loc
  BY <1>1, <1>2, <1>4, <1>5 DEF Loc
<1>7. <<p[1], p[2], Hidden>> # p
  BY <1>2, Names
<1>. QED BY <1>1, <1>2, <1>3, <1>4, <1>5, <1>6, <1>7 DEF RenameTo

LEMMA TmpOf ==
    ASSUME WorkTyped, mover.pc # "idle"
    PROVE  Tmp[1] = mover.t /\ Tmp[2] = <<mover.f.name[1], mover.f.name[2], Hidden>>
           /\ Tmp[2][1] = mover.f.name[1] /\ mover.f.name[1] \in Dir
<1>1. mover.f.name \in Path
  BY MoverLoc
<1>. QED BY <1>1, PathOf DEF Tmp

LEMMA MovedPath ==
    ASSUME NEW p \in Path, NEW d \in Dir
    PROVE  Moved(p, d) \in Path /\ Moved(p, d)[1] = d /\ Moved(p, d)[2] = p[2] /\ Moved(p, d)[3] = p[3]
           /\ (p \in Visible <=> Moved(p, d) \in Visible) /\ Moved(p, p[1]) = p
           /\ Moved(Moved(p, d), p[1]) = p
<1>1. Moved(p, d) = <<d, p[2], p[3]>> /\ p[2] \in Base /\ p[3] \in Kind /\ p[1] \in Dir
  BY PathOf DEF Moved
<1>2. Moved(p, d) \in Path /\ Moved(p, d)[1] = d /\ Moved(p, d)[2] = p[2] /\ Moved(p, d)[3] = p[3]
  BY <1>1 DEF Path
<1>3. Moved(p, p[1]) = p /\ Moved(Moved(p, d), p[1]) = p
  BY <1>2, PathOf DEF Moved
<1>. QED BY <1>2, <1>3 DEF Visible
-----------------------------------------------------------------------------
(* What changes what *)

FileRequest == \/ Unlink \/ Rename \/ Link \/ RenameDir
               \/ \E k \in Attr : Set(k)
               \/ \E op \in {"create", "mknod", "symlink"}, p \in Visible : Make(op, p)
FileWork == Copy \/ CopyMode \/ Remove \/ RenameTmp \/ OverwriteTimes

LEMMA FileSteps ==
    ASSUME [Next]_vars, file' # file
    PROVE  (FileRequest /\ UNCHANGED worker) \/ (FileWork /\ UNCHANGED <<req, counts>>)
<1>1. CASE Request
  <2>1. ~(\E op \in FileOps, p, q \in Visible : Lookup(op, p, q)) /\ ~CallFails /\ ~Stat
    BY DEF Lookup, CallFails, Stat
  <2>2. ~UnlinkEntry /\ ~RenameEntry /\ ~CreateEntry /\ ~Mkdir /\ ~Rmdir /\ ~SetDir /\ ~RenameKeys
    BY DEF UnlinkEntry, RenameEntry, CreateEntry, Mkdir, Rmdir, SetDir, RenameKeys
  <2>3. ~(\E op \in DirChanges, d, e \in Dir : BeginDir(op, d, e))
    BY DEF BeginDir
  <2>4. Truncate \/ Chmod \/ Chown \/ Setxattr \/ Removexattr \/ Utimens => \E k \in Attr : Set(k)
    BY DEF Truncate, Chmod, Chown, Setxattr, Removexattr, Utimens, Attr
  <2>5. UNCHANGED worker
    BY <1>1 DEF Request
  <2>6. FileRequest
    BY <1>1, <2>1, <2>2, <2>3, <2>4
       DEF Request, Access, Readlink, Lseek, Getxattr, Listxattr, FileRequest
  <2>. QED BY <2>5, <2>6
<1>2. CASE Worker
  <2>1. ~StartPass /\ ~Crawl /\ ~CopyFail /\ ~TestExists /\ ~Record /\ ~ChangePath /\ ~Join /\ ~UpdateDb
        /\ ~EndPass /\ ~(\E f \in files, t \in Tier : MoveFile(f, t))
    BY DEF StartPass, Crawl, CopyFail, TestExists, Record, ChangePath, Join, UpdateDb, EndPass, MoveFile
  <2>2. FileWork
    BY <1>2, <2>1 DEF Worker, FileWork
  <2>3. UNCHANGED <<req, counts>>
    BY <1>2 DEF Worker
  <2>. QED BY <2>2, <2>3
<1>3. ~Restart
  BY DEF Restart, Die
<1>4. ~UNCHANGED vars
  BY DEF vars
<1>. QED BY <1>1, <1>2, <1>3, <1>4 DEF Next
-----------------------------------------------------------------------------
(* Types *)

LEMMA FilePut ==
    ASSUME FileTyped, NEW l \in Loc, NEW v \in Inode \cup {Absent}, file' = [file EXCEPT ![l] = v]
    PROVE  FileTyped'
BY DEF FileTyped

LEMMA FileHere ==
    ASSUME FileTyped, NEW l \in Loc
    PROVE  file[l] \in Inode \cup {Absent} /\ (HasFile(l) => file[l] \in Inode)
BY DEF FileTyped, HasFile

LEMMA InodeSet ==
    ASSUME NEW v \in Inode, NEW k \in Attr, NEW x \in Value
    PROVE  [v EXCEPT ![k] = x] \in Inode /\ [v EXCEPT ![k] = x].data = v.data
           /\ [v EXCEPT ![k] = x].sym = v.sym /\ v.data \in FileId /\ v[k] \in Value
BY DEF Inode, Attr, FileId

LEMMA FileNext == Typed /\ [Next]_vars => FileTyped'
<1>. SUFFICES ASSUME Typed, [Next]_vars, file' # file PROVE FileTyped'
  BY DEF Typed, FileTyped
<1>. USE DEF Typed
<1>1. ASSUME Unlink PROVE FileTyped'
  <2>1. Here \in Loc
    BY <1>1, HereLoc DEF Unlink, Calling, FileOps
  <2>. QED BY <1>1, <2>1, FilePut DEF Unlink
<1>2. ASSUME Rename PROVE FileTyped'
  <2>1. Here \in Loc /\ There \in Loc
    BY <1>2, HereLoc DEF Rename, Calling, FileOps
  <2>2. file' = [file EXCEPT ![Here] = Absent, ![There] = file[Here]]
    BY <1>2 DEF Rename
  <2>3. file[Here] \in Inode \cup {Absent}
    BY <2>1, FileHere
  <2>. QED BY <2>1, <2>2, <2>3 DEF FileTyped
<1>3. ASSUME Link PROVE FileTyped'
  <2>1. Here \in Loc /\ There \in Loc
    BY <1>3, HereLoc DEF Link, Calling, FileOps
  <2>2. file[Here] \in Inode \cup {Absent}
    BY <2>1, FileHere
  <2>. QED BY <1>3, <2>1, <2>2, FilePut DEF Link
<1>4. ASSUME NEW k \in Attr, Set(k) PROVE FileTyped'
  <2>1. Here \in Loc /\ HasFile(Here)
    BY <1>4, HereLoc DEF Set, Calling, FileOps, OnlyName
  <2>. PICK l, v : l = Here /\ v = file[l]
    OBVIOUS
  <2>2. v \in Inode /\ l \in Loc
    BY <2>1, FileHere
  <2>3. file' = [file EXCEPT ![l] = [v EXCEPT ![k] = 1]]
    BY <1>4 DEF Set
  <2>4. [v EXCEPT ![k] = 1] \in Inode
    BY <2>2, InodeSet DEF Value
  <2>. QED BY <2>2, <2>3, <2>4, FilePut
<1>5. ASSUME NEW op, NEW p \in Visible, Make(op, p) PROVE FileTyped'
  <2>1. <<1, p>> \in Loc
    BY Numbers DEF Visible, Loc
  <2>2. made + 1 \in 1 .. MaxFiles
    BY <1>5, Numbers DEF Make, CountsTyped
  <2>3. NewFile(made + 1, op = "symlink") \in Inode
    BY <2>2 DEF NewFile, Inode, Value
  <2>4. file' = [file EXCEPT ![<<1, p>>] = NewFile(made + 1, op = "symlink")]
    BY <1>5 DEF Make
  <2>. QED BY <2>1, <2>3, <2>4, FilePut
<1>6. ASSUME RenameDir PROVE FileTyped'
  <2>. PICK d, e, t : d = req.p /\ e = req.q /\ t = req.t
    OBVIOUS
  <2>1. d \in Dir /\ e \in Dir /\ t \in Tier
    BY <1>6 DEF RenameDir, Calling, DirChanges, ReqTyped, ReqRec
  <2>2. PICK ok : file' = [l \in Loc |-> CASE ok /\ l[1] = t /\ l[2][1] = e -> file[<<t, Moved(l[2], d)>>]
                                   [] ok /\ l[1] = t /\ l[2][1] = d -> Absent
                                   [] OTHER -> file[l]]
    BY <1>6 DEF RenameDir
  <2>3. ASSUME NEW l \in Loc PROVE file'[l] \in Inode \cup {Absent}
    <3>1. <<t, Moved(l[2], d)>> \in Loc
      BY <2>1, MovedPath DEF Loc
    <3>2. file[l] \in Inode \cup {Absent} /\ file[<<t, Moved(l[2], d)>>] \in Inode \cup {Absent}
      BY <3>1, FileHere
    <3>. QED BY <2>2, <3>2
  <2>. QED BY <2>2, <2>3 DEF FileTyped
<1>7. ASSUME Copy PROVE FileTyped'
  <2>. PICK l, v : l = Tmp /\ v = file[Source]
    OBVIOUS
  <2>1. l \in Loc /\ v \in Inode
    BY <1>7, MoverLoc, FileHere DEF Copy, At
  <2>2. file' = [file EXCEPT ![l] = [v EXCEPT !.mode = Raw, !.xattr = 0, !.time = Raw]]
    BY <1>7 DEF Copy
  <2>3. [v EXCEPT !.mode = Raw, !.xattr = 0, !.time = Raw] \in Inode
    BY <2>1 DEF Inode, Value
  <2>. QED BY <2>1, <2>2, <2>3, FilePut
<1>8. ASSUME CopyMode PROVE FileTyped'
  <2>. PICK l, v, w : l = Tmp /\ v = file[l] /\ w = file[Source]
    OBVIOUS
  <2>1. l \in Loc /\ v \in Inode /\ w \in Inode
    BY <1>8, MoverLoc, FileHere DEF CopyMode, At
  <2>2. file' = [file EXCEPT ![l] = [v EXCEPT !.mode = w.mode]]
    BY <1>8 DEF CopyMode
  <2>3. [v EXCEPT !.mode = w.mode] \in Inode
    BY <2>1 DEF Inode
  <2>. QED BY <2>1, <2>2, <2>3, FilePut
<1>9. ASSUME Remove PROVE FileTyped'
  <2>1. Source \in Loc
    BY <1>9, MoverLoc DEF Remove, At
  <2>. QED BY <1>9, <2>1, FilePut DEF Remove
<1>10. ASSUME RenameTmp PROVE FileTyped'
  <2>1. Tmp \in Loc /\ RenameTo \in Loc /\ file[Tmp] \in Inode \cup {Absent}
    BY <1>10, MoverLoc, FileHere DEF RenameTmp, At
  <2>2. file' = [file EXCEPT ![RenameTo] = file[Tmp], ![Tmp] = Absent]
    BY <1>10 DEF RenameTmp
  <2>. QED BY <2>1, <2>2 DEF FileTyped
<1>11. ASSUME OverwriteTimes PROVE FileTyped'
  <2>. PICK l, v, w : l = Target /\ v = file[l] /\ w = mover.f.time
    OBVIOUS
  <2>1. l \in Loc /\ v \in Inode /\ w \in Value
    BY <1>11, MoverLoc, FileHere DEF OverwriteTimes, At, FileRec
  <2>2. file' = [file EXCEPT ![l] = [v EXCEPT !.time = w]]
    BY <1>11 DEF OverwriteTimes
  <2>3. [v EXCEPT !.time = w] \in Inode
    BY <2>1 DEF Inode
  <2>. QED BY <2>1, <2>2, <2>3, FilePut
<1>. QED BY FileSteps, <1>1, <1>2, <1>3, <1>4, <1>5, <1>6, <1>7, <1>8, <1>9, <1>10, <1>11
        DEF FileRequest, FileWork
DirRequest == Mkdir \/ Rmdir \/ SetDir \/ RenameDir
DirWork == \E f \in files, t \in Tier : MoveFile(f, t)

LEMMA DirSteps ==
    ASSUME [Next]_vars, dir' # dir
    PROVE  (DirRequest /\ UNCHANGED worker) \/ (DirWork /\ UNCHANGED <<req, counts>>)
<1>1. CASE Request
  <2>1. ~(\E op \in FileOps, p, q \in Visible : Lookup(op, p, q)) /\ ~CallFails /\ ~Stat
    BY DEF Lookup, CallFails, Stat
  <2>2. ~UnlinkEntry /\ ~RenameEntry /\ ~CreateEntry /\ ~Unlink /\ ~Rename /\ ~Link /\ ~RenameKeys
    BY DEF UnlinkEntry, RenameEntry, CreateEntry, Unlink, Rename, Link, RenameKeys
  <2>3. ~(\E op \in DirChanges, d, e \in Dir : BeginDir(op, d, e))
    BY DEF BeginDir
  <2>4. ~Truncate /\ ~Chmod /\ ~Chown /\ ~Setxattr /\ ~Removexattr /\ ~Utimens
    BY DEF Truncate, Chmod, Chown, Setxattr, Removexattr, Utimens, Set
  <2>5. ~(\E op \in {"create", "mknod", "symlink"}, p \in Visible : Make(op, p))
    BY DEF Make
  <2>6. UNCHANGED worker
    BY <1>1 DEF Request
  <2>7. DirRequest
    BY <1>1, <2>1, <2>2, <2>3, <2>4, <2>5
       DEF Request, Access, Readlink, Lseek, Getxattr, Listxattr, DirRequest
  <2>. QED BY <2>6, <2>7
<1>2. CASE Worker
  <2>1. ~StartPass /\ ~Crawl /\ ~CopyFail /\ ~TestExists /\ ~Record /\ ~ChangePath /\ ~Join /\ ~UpdateDb
        /\ ~EndPass /\ ~Copy /\ ~CopyMode /\ ~Remove /\ ~RenameTmp /\ ~OverwriteTimes
    BY DEF StartPass, Crawl, CopyFail, TestExists, Record, ChangePath, Join, UpdateDb, EndPass,
           Copy, CopyMode, Remove, RenameTmp, OverwriteTimes
  <2>2. DirWork
    BY <1>2, <2>1 DEF Worker, DirWork
  <2>3. UNCHANGED <<req, counts>>
    BY <1>2 DEF Worker
  <2>. QED BY <2>2, <2>3
<1>3. ~Restart
  BY DEF Restart, Die
<1>4. ~UNCHANGED vars
  BY DEF vars
<1>. QED BY <1>1, <1>2, <1>3, <1>4 DEF Next

LEMMA InDirChange ==
    ASSUME ReqTyped, req.op \in DirChanges
    PROVE  req.p \in Dir /\ req.q \in Dir /\ req.t \in Tier
BY DEF ReqTyped, ReqRec

LEMMA DirNext == Typed /\ [Next]_vars => DirTyped'
<1>. SUFFICES ASSUME Typed, [Next]_vars, dir' # dir PROVE DirTyped'
  BY DEF Typed, DirTyped
<1>. USE DEF Typed
<1>0. 0 \in Value /\ 1 \in Value /\ Raw \in Value
  BY DEF Value
<1>. PICK d, e, t : d = req.p /\ e = req.q /\ t = req.t
  OBVIOUS
<1>1. ASSUME Mkdir PROVE DirTyped'
  <2>1. d \in Dir /\ t \in Tier
    BY <1>1, InDirChange DEF Mkdir, Calling, DirChanges
  <2>. QED BY <1>0, <1>1, <2>1 DEF Mkdir, DirTyped
<1>2. ASSUME Rmdir PROVE DirTyped'
  <2>1. d \in Dir /\ t \in Tier
    BY <1>2, InDirChange DEF Rmdir, Calling, DirChanges
  <2>2. PICK ok : dir' = [dir EXCEPT ![t][d] = IF ok THEN Absent ELSE @]
    BY <1>2 DEF Rmdir
  <2>. QED BY <2>1, <2>2 DEF DirTyped
<1>3. ASSUME SetDir PROVE DirTyped'
  <2>1. d \in Dir /\ t \in Tier
    BY <1>3, InDirChange DEF SetDir, Calling, DirChanges
  <2>. QED BY <1>0, <1>3, <2>1 DEF SetDir, DirTyped
<1>4. ASSUME RenameDir PROVE DirTyped'
  <2>1. d \in Dir /\ e \in Dir /\ t \in Tier
    BY <1>4, InDirChange DEF RenameDir, Calling, DirChanges
  <2>2. dir' = dir \/ dir' = [dir EXCEPT ![t][e] = dir[t][d], ![t][d] = Absent]
    BY <1>4 DEF RenameDir
  <2>. QED BY <2>1, <2>2 DEF DirTyped
<1>5. ASSUME NEW f, NEW u \in Tier, MoveFile(f, u) PROVE DirTyped'
  <2>1. PICK D : dir' = [dir EXCEPT ![u] = [x \in Dir |-> IF x \in D THEN Raw ELSE @[x]]]
    BY <1>5 DEF MoveFile
  <2>. QED BY <1>0, <2>1 DEF DirTyped
<1>. QED BY DirSteps, <1>1, <1>2, <1>3, <1>4, <1>5 DEF DirRequest, DirWork

DbRequest == UnlinkEntry \/ RenameEntry \/ CreateEntry \/ RenameKeys
DbWork == Record \/ ChangePath \/ UpdateDb

LEMMA DbSteps ==
    ASSUME [Next]_vars, db' # db
    PROVE  (DbRequest /\ UNCHANGED worker) \/ (DbWork /\ UNCHANGED <<req, counts, taken>>)
<1>1. CASE Request
  <2>1. ~(\E op \in FileOps, p, q \in Visible : Lookup(op, p, q)) /\ ~CallFails /\ ~Stat
    BY DEF Lookup, CallFails, Stat
  <2>2. ~Mkdir /\ ~Rmdir /\ ~SetDir /\ ~RenameDir /\ ~Unlink /\ ~Rename /\ ~Link
    BY DEF Mkdir, Rmdir, SetDir, RenameDir, Unlink, Rename, Link
  <2>3. ~(\E op \in DirChanges, d, e \in Dir : BeginDir(op, d, e))
    BY DEF BeginDir
  <2>4. ~Truncate /\ ~Chmod /\ ~Chown /\ ~Setxattr /\ ~Removexattr /\ ~Utimens
    BY DEF Truncate, Chmod, Chown, Setxattr, Removexattr, Utimens, Set
  <2>5. ~(\E op \in {"create", "mknod", "symlink"}, p \in Visible : Make(op, p))
    BY DEF Make
  <2>6. UNCHANGED worker
    BY <1>1 DEF Request
  <2>7. DbRequest
    BY <1>1, <2>1, <2>2, <2>3, <2>4, <2>5
       DEF Request, Access, Readlink, Lseek, Getxattr, Listxattr, DbRequest
  <2>. QED BY <2>6, <2>7
<1>2. CASE Worker
  <2>1. ~StartPass /\ ~Crawl /\ ~CopyFail /\ ~TestExists /\ ~Join
        /\ ~EndPass /\ ~Copy /\ ~CopyMode /\ ~Remove /\ ~RenameTmp /\ ~OverwriteTimes
        /\ ~(\E f \in files, t \in Tier : MoveFile(f, t))
    BY DEF StartPass, Crawl, CopyFail, TestExists, Join, EndPass,
           Copy, CopyMode, Remove, RenameTmp, OverwriteTimes, MoveFile
  <2>2. DbWork /\ UNCHANGED taken
    BY <1>2, <2>1 DEF Worker, DbWork
  <2>3. UNCHANGED <<req, counts>>
    BY <1>2 DEF Worker
  <2>. QED BY <2>2, <2>3
<1>3. ~Restart
  BY DEF Restart, Die
<1>4. ~UNCHANGED vars
  BY DEF vars
<1>. QED BY <1>1, <1>2, <1>3, <1>4 DEF Next

LEMMA DbNext == Typed /\ [Next]_vars => DbTyped'
<1>. SUFFICES ASSUME Typed, [Next]_vars, db' # db PROVE DbTyped'
  BY DEF Typed, DbTyped
<1>. USE DEF Typed
<1>. PICK p, q, t : p = req.p /\ q = req.q /\ t = req.t
  OBVIOUS
<1>1. ASSUME UnlinkEntry PROVE DbTyped'
  BY <1>1 DEF UnlinkEntry, DbTyped
<1>2. ASSUME RenameEntry PROVE DbTyped'
  <2>1. t \in Tier
    BY DEF ReqTyped, ReqRec
  <2>. QED BY <1>2, <2>1 DEF RenameEntry, DbTyped
<1>3. ASSUME CreateEntry PROVE DbTyped'
  BY <1>3, Numbers DEF CreateEntry, DbTyped
<1>4. ASSUME RenameKeys PROVE DbTyped'
  <2>1. p \in Dir /\ q \in Dir
    BY <1>4, InDirChange DEF RenameKeys, DirChanges
  <2>2. db' = [x \in Path |-> CASE x[1] = p -> Absent
                               [] x[1] = q /\ db[Moved(x, p)] # Absent -> db[Moved(x, p)]
                               [] OTHER -> db[x]]
    BY <1>4 DEF RenameKeys
  <2>3. ASSUME NEW x \in Path PROVE db'[x] \in Tier \cup {Absent}
    <3>1. Moved(x, p) \in Path
      BY <2>1, MovedPath
    <3>2. db[x] \in Tier \cup {Absent} /\ db[Moved(x, p)] \in Tier \cup {Absent}
      BY <3>1 DEF DbTyped
    <3>. QED BY <2>2, <3>2
  <2>. QED BY <2>2, <2>3 DEF DbTyped
<1>5. ASSUME Record PROVE DbTyped'
  <2>. PICK f, u : f = mover.f /\ u = mover.t
    OBVIOUS
  <2>1. u \in Tier
    BY DEF WorkTyped, MoverRec
  <2>2. db' = [db EXCEPT ![f.name] = u]
    BY <1>5 DEF Record
  <2>. QED BY <2>1, <2>2 DEF DbTyped
<1>6. ASSUME ChangePath PROVE DbTyped'
  <2>. PICK x, y, u : x = mover.f.name /\ y = ConflictName /\ u = mover.t
    OBVIOUS
  <2>1. u \in Tier
    BY DEF WorkTyped, MoverRec
  <2>2. db' = [db EXCEPT ![x] = Absent, ![y] = u]
    BY <1>6 DEF ChangePath
  <2>. QED BY <2>1, <2>2 DEF DbTyped
<1>7. ASSUME UpdateDb PROVE DbTyped'
  <2>1. PICK f \in files : db' = [db EXCEPT ![f.name] = f.meta]
    BY <1>7 DEF UpdateDb
  <2>2. f.meta \in Tier
    BY DEF WorkTyped, FileRec
  <2>. QED BY <2>1, <2>2 DEF DbTyped
<1>. QED BY DbSteps, <1>1, <1>2, <1>3, <1>4, <1>5, <1>6, <1>7 DEF DbRequest, DbWork

LEMMA CountsNext == Typed /\ [Next]_vars => CountsTyped'
<1>. SUFFICES ASSUME CountsTyped, [Next]_vars PROVE CountsTyped'
  BY DEF Typed
<1>1. begun' \in {begun, begun + 1} /\ (begun' # begun => begun < MaxRequests)
  <2>1. ASSUME NEW r, Begin(r) PROVE begun' \in {begun, begun + 1} /\ (begun' # begun => begun < MaxRequests)
    BY <2>1 DEF Begin
  <2>2. \/ begun' = begun
        \/ \E op \in FileOps, p, q \in Visible : Lookup(op, p, q)
        \/ \E op \in {"create", "mknod", "symlink"}, p \in Visible : Make(op, p)
        \/ \E op \in DirChanges, d, e \in Dir : BeginDir(op, d, e)
    BY DEF Next, Request, Worker, Restart, vars, counts, CallFails, Access, Readlink, Lseek, Getxattr,
           Listxattr, Stat, Unlink, UnlinkEntry, Rename, RenameEntry, Link, Truncate, Chmod, Chown,
           Setxattr, Removexattr, Utimens, Set, CreateEntry, Mkdir, Rmdir, SetDir, RenameDir, RenameKeys, Turn
  <2>. QED BY <2>1, <2>2 DEF Lookup, Make, BeginDir
<1>2. made' \in {made, made + 1} /\ (made' # made => made < MaxFiles)
  <2>1. \/ made' = made
        \/ \E op \in {"create", "mknod", "symlink"}, p \in Visible : Make(op, p)
    BY DEF Next, Request, Worker, Restart, vars, counts, CallFails, Access, Readlink, Lseek, Getxattr,
           Listxattr, Stat, Unlink, UnlinkEntry, Rename, RenameEntry, Link, Truncate, Chmod, Chown,
           Setxattr, Removexattr, Utimens, Set, CreateEntry, Mkdir, Rmdir, SetDir, RenameDir, RenameKeys, Turn, Lookup, BeginDir
  <2>. QED BY <2>1 DEF Make
<1>3. moves' \in {moves, moves + 1} /\ (moves' # moves => moves < MaxMoves)
  <2>1. moves' = moves \/ \E f \in files, t \in Tier : MoveFile(f, t)
    BY DEF Next, Request, Worker, Restart, vars, worker
  <2>. QED BY <2>1 DEF MoveFile
<1>. QED BY <1>1, <1>2, <1>3, Numbers DEF CountsTyped

\* How a request goes on.
ReqBegins == req = NoReq /\ \/ \E op \in FileOps, p, q \in Visible : Lookup(op, p, q)
                            \/ \E op \in {"create", "mknod", "symlink"}, p \in Visible : Make(op, p)
                            \/ \E op \in DirChanges, d, e \in Dir : BeginDir(op, d, e)
Entering == req.op \in {"unlink", "rename"} /\ req' = [req EXCEPT !.step = "entry"]
Turning == /\ req.op \in DirChanges /\ req.step = "call" /\ req.t < NTiers
           /\ req' = [req EXCEPT !.t = @ + 1]
Turned == /\ req.step = "call" /\ req.t >= NTiers
          /\ req.op = "renamedir" /\ req' = [req EXCEPT !.step = "keys"]

LEMMA ReqSteps ==
    ASSUME Typed, [Next]_vars
    PROVE  req' = req \/ req' = NoReq \/ ReqBegins \/ Entering \/ Turning \/ Turned
<1>. USE DEF Typed
<1>0. req.t \in Nat /\ NTiers \in Nat
  BY Numbers DEF ReqTyped, ReqRec
<1>1. ASSUME NEW ok, NEW after, Turn(ok, after), req.op \in DirChanges, req.step = "call",
             after = NoReq \/ (req.op = "renamedir" /\ after = [req EXCEPT !.step = "keys"])
      PROVE  req' = NoReq \/ Turning \/ Turned
  <2>1. req' = IF ~ok THEN NoReq ELSE IF req.t < NTiers THEN [req EXCEPT !.t = @ + 1] ELSE after
    BY <1>1 DEF Turn, Goto
  <2>2. ~(req.t < NTiers) => req.t >= NTiers
    BY <1>0
  <2>. QED BY <1>1, <2>1, <2>2 DEF Turning, Turned
<1>2. CASE Request
  <2>1. CASE Mkdir \/ Rmdir \/ SetDir
    <3>1. \E ok : Turn(ok, NoReq) /\ req.op \in DirChanges /\ req.step = "call"
      BY <2>1 DEF Mkdir, Rmdir, SetDir, Calling, DirChanges
    <3>. QED BY <1>1, <3>1
  <2>2. CASE RenameDir
    <3>1. \E ok : Turn(ok, [req EXCEPT !.step = "keys"]) /\ req.op = "renamedir" /\ req.step = "call"
      BY <2>2 DEF RenameDir, Calling
    <3>. QED BY <1>1, <3>1 DEF DirChanges
  <2>4. CASE Unlink \/ Rename
    BY <2>4 DEF Unlink, Rename, Calling, UpdateNext, Goto, Entering
  <2>5. CASE CallFails \/ Stat \/ UnlinkEntry \/ RenameEntry \/ Link \/ CreateEntry \/ RenameKeys
    BY <2>5 DEF CallFails, Stat, UnlinkEntry, RenameEntry, Link, CreateEntry, RenameKeys, Finish, Goto
  <2>6. ASSUME NEW k, Set(k) PROVE req' = NoReq
    BY <2>6 DEF Set, Finish, Goto
  <2>7. CASE \/ \E op \in FileOps, p, q \in Visible : Lookup(op, p, q)
             \/ \E op \in {"create", "mknod", "symlink"}, p \in Visible : Make(op, p)
             \/ \E op \in DirChanges, d, e \in Dir : BeginDir(op, d, e)
    <3>1. req = NoReq
      BY <2>7 DEF Lookup, Make, BeginDir, Begin
    <3>. QED BY <2>7, <3>1 DEF ReqBegins
  <2>. QED BY <1>2, <2>1, <2>2, <2>4, <2>5, <2>6, <2>7
           DEF Request, Access, Readlink, Lseek, Getxattr, Listxattr,
               Truncate, Chmod, Chown, Setxattr, Removexattr, Utimens
<1>3. CASE Worker
  BY <1>3 DEF Worker
<1>4. CASE Restart
  BY <1>4 DEF Restart, Finish, Goto
<1>5. CASE UNCHANGED vars
  BY <1>5 DEF vars
<1>. QED BY <1>2, <1>3, <1>4, <1>5 DEF Next

LEMMA ReqNext == Typed /\ [Next]_vars => ReqTyped'
<1>. SUFFICES ASSUME Typed, [Next]_vars PROVE ReqTyped'
  OBVIOUS
<1>. USE DEF Typed
<1>0. NoReq \in ReqRec /\ NoReq.op = "none"
  BY Numbers DEF NoReq, ReqRec
<1>. PICK r : r = req
  OBVIOUS
<1>1. r \in ReqRec /\ req.t \in Nat /\ NTiers \in Nat
  BY Numbers DEF ReqTyped, ReqRec
<1>2. CASE req' = req
  BY <1>2 DEF ReqTyped
<1>3. CASE req' = NoReq
  BY <1>0, <1>3 DEF ReqTyped, FileOps, DirChanges, Attr
<1>4. CASE Entering
  <2>1. req' = [r EXCEPT !.step = "entry"] /\ r.op \in {"unlink", "rename"}
    BY <1>4 DEF Entering
  <2>2. req' \in ReqRec /\ req'.op = r.op /\ req'.p = r.p /\ req'.q = r.q /\ req'.step = "entry"
    BY <1>1, <2>1 DEF ReqRec
  <2>. QED BY <2>1, <2>2 DEF ReqTyped, FileOps, DirChanges, Attr
<1>5. CASE Turning
  <2>1. req' = [r EXCEPT !.t = @ + 1] /\ r.op \in DirChanges /\ r.t + 1 \in Tier
    BY <1>1, <1>5 DEF Turning, Tier, ReqRec
  <2>2. req' \in ReqRec /\ req'.op = r.op /\ req'.p = r.p /\ req'.q = r.q /\ req'.step = r.step
    BY <1>1, <2>1 DEF ReqRec
  <2>. QED BY <2>1, <2>2 DEF ReqTyped, FileOps, DirChanges, Attr
<1>6. CASE Turned
  <2>1. req' = [r EXCEPT !.step = "keys"] /\ r.op = "renamedir"
    BY <1>6 DEF Turned
  <2>2. /\ req' \in ReqRec /\ req'.op = r.op /\ req'.p = r.p /\ req'.q = r.q
        /\ req'.step = "keys"
    BY <1>1, <2>1 DEF ReqRec
  <2>. QED BY <2>1, <2>2 DEF ReqTyped, FileOps, DirChanges, Attr
<1>7. ASSUME NEW op \in FileOps, NEW p \in Visible, NEW q \in Visible, Lookup(op, p, q) PROVE ReqTyped'
  <2>1. req' = [op |-> op, step |-> "call", p |-> p, q |-> q, t |-> db[p]]
    BY <1>7 DEF Lookup, Begin
  <2>2. p \in Path /\ q \in Path /\ db[p] \in Tier
    BY <1>7 DEF Lookup, Sees, DbTyped, Visible
  <2>3. op \in {"rename", "link"} <=> p # q
    BY <1>7 DEF Lookup
  <2>4. req' \in ReqRec
    BY <2>1, <2>2 DEF ReqRec
  <2>. QED BY <2>1, <2>3, <2>4 DEF ReqTyped, FileOps, DirChanges, Attr
<1>8. ASSUME NEW op \in {"create", "mknod", "symlink"}, NEW p \in Visible, Make(op, p) PROVE ReqTyped'
  <2>1. req' = NoReq \/ req' = [op |-> "create", step |-> "entry", p |-> p, q |-> p, t |-> 1]
    BY <1>8 DEF Make, Begin
  <2>2. p \in Path
    BY DEF Visible
  <2>3. CASE req' = [op |-> "create", step |-> "entry", p |-> p, q |-> p, t |-> 1]
    <3>1. req' \in ReqRec
      BY <2>2, <2>3, Numbers DEF ReqRec
    <3>. QED BY <2>3, <3>1 DEF ReqTyped, FileOps, DirChanges, Attr
  <2>. QED BY <1>3, <2>1, <2>3
<1>9. ASSUME NEW op \in DirChanges, NEW d \in Dir, NEW e \in Dir, BeginDir(op, d, e) PROVE ReqTyped'
  <2>1. req' = [op |-> op, step |-> "call", p |-> d, q |-> e, t |-> 1]
    BY <1>9 DEF BeginDir, Begin
  <2>2. op = "renamedir" <=> d # e
    BY <1>9 DEF BeginDir
  <2>3. req' \in ReqRec
    BY <2>1, Numbers DEF ReqRec
  <2>. QED BY <2>1, <2>2, <2>3 DEF ReqTyped, FileOps, DirChanges, Attr
<1>. QED BY ReqSteps, <1>2, <1>3, <1>4, <1>5, <1>6, <1>7, <1>8, <1>9 DEF ReqBegins

\* What the steps of the worker do to its variables; all others leave them.
MoverKeeps == \/ mover' = NoMove
              \/ \E pc \in MoverPC \ {"idle"} : mover' = [mover EXCEPT !.pc = pc]
              \/ \E c \in BOOLEAN : mover' = [mover EXCEPT !.pc = "tested", !.clash = c]
Moving == /\ phase = "move" /\ mover.pc # "idle" /\ MoverKeeps
          /\ UNCHANGED <<phase, crawling, files>>

LEMMA WorkSteps ==
    ASSUME [Next]_vars
    PROVE  \/ StartPass \/ Crawl \/ (\E f \in files, t \in Tier : MoveFile(f, t)) \/ Moving
           \/ Record \/ ChangePath \/ Join \/ UpdateDb \/ EndPass \/ Die
           \/ UNCHANGED <<phase, crawling, files, mover>>
<1>1. CASE Request
  BY <1>1 DEF Request, worker
<1>2. CASE Copy \/ CopyMode \/ Remove \/ RenameTmp
  BY <1>2 DEF Copy, CopyMode, Remove, RenameTmp, At, MoveTo, Moving, MoverKeeps, MoverPC
<1>3. CASE CopyFail
  BY <1>3 DEF CopyFail, At, Moving, MoverKeeps
<1>4. CASE TestExists
  BY <1>4 DEF TestExists, At, Moving, MoverKeeps, HasFile
<1>5. CASE OverwriteTimes
  BY <1>5 DEF OverwriteTimes, At, MoveTo, Moving, MoverKeeps, MoverPC
<1>. QED BY <1>1, <1>2, <1>3, <1>4, <1>5 DEF Next, Worker, Restart, vars

Renewed(F) == /\ F \in SUBSET FileRec
              /\ \A x, y \in F : x.at = y.at => x = y
              /\ \A x \in F : ~x.done => x.at[2] = x.name

LEMMA WorkNext == Typed /\ [Next]_vars => WorkTyped'
<1>. SUFFICES ASSUME Typed, [Next]_vars PROVE WorkTyped'
  OBVIOUS
<1>. USE DEF Typed
<1>0. NTiers \in Nat /\ 1 \in Tier /\ crawling \in Nat /\ NoMove.pc = "idle" /\ NoMove \in MoverRec
  BY Numbers DEF WorkTyped, Tier, NoMove, MoverRec, MoverPC
<1>1. CASE StartPass
  <2>1. phase' = "crawl" /\ crawling' = crawling /\ files' = files /\ mover' = mover /\ phase = "idle"
    BY <1>1 DEF StartPass
  <2>. QED BY <2>1 DEF WorkTyped
<1>2. CASE Crawl
  <2>. DEFINE E(p) == [at |-> <<crawling, p>>, name |-> p, meta |-> IF db[p] = Absent THEN crawling ELSE db[p],
                       time |-> file[<<crawling, p>>].time, done |-> FALSE]
              F == {E(p) : p \in {q \in Path : HasFile(<<crawling, q>>) /\ ~file[<<crawling, q>>].sym}}
  <2>1. phase = "crawl" /\ files' = files \cup F /\ mover' = mover
        /\ IF crawling = NTiers THEN phase' = "move" /\ crawling' = 1
           ELSE phase' = phase /\ crawling' = crawling + 1
    BY <1>2 DEF Crawl
  <2>2. mover.pc = "idle" /\ \A f \in files : f.at[1] < crawling /\ f \in FileRec
    BY <2>1 DEF WorkTyped
  <2>3. ASSUME NEW f \in F PROVE f \in FileRec /\ f.at = <<crawling, f.name>> /\ f.at[1] = crawling /\ f.at[2] = f.name
                              /\ f = E(f.name)
    <3>. PICK p \in Path : HasFile(<<crawling, p>>) /\ f = E(p)
      OBVIOUS
    <3>1. <<crawling, p>> \in Loc /\ crawling \in Tier
      BY DEF WorkTyped, Loc
    <3>2. file[<<crawling, p>>] \in Inode
      BY <3>1, FileHere
    <3>3. file[<<crawling, p>>].time \in Value
      BY <3>2 DEF Inode
    <3>4. (IF db[p] = Absent THEN crawling ELSE db[p]) \in Tier
      BY <3>1 DEF DbTyped
    <3>. QED BY <3>1, <3>3, <3>4 DEF FileRec
  <2>4. \A f, g \in F : f.at = g.at => f = g
    <3>. SUFFICES ASSUME NEW f \in F, NEW g \in F, f.at = g.at PROVE f = g
      OBVIOUS
    <3>1. f.name = g.name /\ f = E(f.name) /\ g = E(g.name)
      BY <2>3
    <3>. HIDE DEF E
    <3>. QED BY <3>1
  <2>5. \A f \in files, g \in F : f.at[1] < crawling /\ g.at[1] = crawling
    BY <2>2, <2>3
  <2>6. \A f, g \in files' : f.at = g.at => f = g
    <3>1. files' = files \cup F /\ \A f, g \in files : f.at = g.at => f = g
      BY <2>1 DEF WorkTyped
    <3>2. ASSUME NEW f \in files, NEW g \in F, f.at = g.at PROVE FALSE
      <4>1. f.at[1] < crawling /\ g.at[1] = crawling
        BY <2>5
      <4>2. crawling < crawling
        BY <3>2, <4>1
      <4>. QED BY <1>0, <4>2
    <3>. HIDE DEF F
    <3>. QED BY <2>4, <3>1, <3>2
  <2>7. files' \in SUBSET FileRec /\ \A f \in files' : ~f.done => f.at[2] = f.name
    BY <2>1, <2>3 DEF WorkTyped
  <2>8. \A f \in files' : f.at[1] < crawling + 1
    <3>1. ASSUME NEW f \in files' PROVE f.at[1] \in Nat /\ (f.at[1] < crawling \/ f.at[1] = crawling)
      <4>1. f.at \in Loc
        BY <2>7 DEF FileRec
      <4>2. f.at[1] \in Nat
        BY <4>1 DEF Loc, Tier
      <4>. QED BY <2>1, <2>5, <2>2, <2>3, <4>2
    <3>. QED BY <1>0, <3>1
  <2>9. crawling' \in Tier /\ (phase' # "crawl" => crawling' = 1) /\ phase' \in {"crawl", "move"}
        /\ (phase' = "crawl" => crawling' = crawling + 1)
    BY <1>0, <2>1 DEF WorkTyped, Tier
  <2>. HIDE DEF F
  <2>. QED BY <2>1, <2>2, <2>6, <2>7, <2>8, <2>9 DEF WorkTyped
<1>3. ASSUME NEW f \in files, NEW t \in Tier, MoveFile(f, t) PROVE WorkTyped'
  <2>. PICK g : g = [f EXCEPT !.done = TRUE]
    OBVIOUS
  <2>1. /\ phase = "move" /\ phase' = phase /\ crawling' = crawling /\ ~f.done /\ t # f.at[1] /\ f.name \in Visible
        /\ mover' = [pc |-> "copy", f |-> f, t |-> t, clash |-> FALSE] /\ files' = (files \ {f}) \cup {g}
    BY <1>3 DEF MoveFile, At
  <2>2. f \in FileRec /\ f.at[2] = f.name
    BY <2>1 DEF WorkTyped
  <2>3. g \in FileRec /\ g.at = f.at /\ g.name = f.name /\ g.done
    BY <2>2 DEF FileRec
  <2>4. mover' \in MoverRec /\ mover'.f = f /\ mover'.t = t
    BY <2>1, <2>2 DEF MoverRec, MoverPC
  <2>5. files' \in SUBSET FileRec /\ \A x \in files' : ~x.done => x.at[2] = x.name
    BY <2>1, <2>3 DEF WorkTyped
  <2>6. \A x, y \in files' : x.at = y.at => x = y
    <3>1. \A x, y \in files : x.at = y.at => x = y
      BY DEF WorkTyped
    <3>2. files' = (files \ {f}) \cup {g} /\ g.at = f.at
      BY <2>1, <2>3
    <3>. SUFFICES ASSUME NEW x \in files', NEW y \in files', x.at = y.at PROVE x = y
      OBVIOUS
    <3>3. (x \in files /\ x # f) \/ x = g
      BY <3>2
    <3>4. (y \in files /\ y # f) \/ y = g
      BY <3>2
    <3>5. x \in files /\ y \in files => x = y
      BY <3>1
    <3>6. ASSUME NEW z \in files, z.at = f.at PROVE z = f
      BY <3>1, <3>6
    <3>. QED BY <3>2, <3>3, <3>4, <3>5, <3>6
  <2>. QED BY <2>1, <2>2, <2>3, <2>4, <2>5, <2>6 DEF WorkTyped
<1>4. CASE Moving
  <2>. PICK m : m = mover
    OBVIOUS
  <2>1. m \in MoverRec
    BY DEF WorkTyped
  <2>2. mover' = NoMove \/ (mover' \in MoverRec /\ mover'.f = m.f /\ mover'.t = m.t)
    BY <1>4, <2>1 DEF Moving, MoverKeeps, MoverRec, MoverPC
  <2>3. phase = "move" /\ m.pc # "idle" /\ UNCHANGED <<phase, crawling, files>>
    BY <1>4 DEF Moving
  <2>. QED BY <1>0, <2>2, <2>3 DEF WorkTyped
<1>5. CASE Record
  <2>. PICK m : m = mover
    OBVIOUS
  <2>1. m \in MoverRec /\ m.t \in Tier /\ m.pc = "renamed" /\ phase = "move" /\ phase' = phase /\ crawling' = crawling
    BY <1>5 DEF WorkTyped, MoverRec, Record, At
  <2>2. mover' = [m EXCEPT !.pc = "times"]
    BY <1>5 DEF Record, MoveTo
  <2>3. mover' \in MoverRec /\ mover'.f = m.f /\ mover'.t = m.t
    BY <2>1, <2>2 DEF MoverRec, MoverPC
  <2>4. files' = {IF f.at = m.f.at THEN [f EXCEPT !.meta = m.t] ELSE f : f \in files}
    BY <1>5 DEF Record, Source
  <2>. DEFINE G(f) == IF f.at = m.f.at THEN [f EXCEPT !.meta = m.t] ELSE f
  <2>5. ASSUME NEW f \in files PROVE G(f) \in FileRec /\ G(f).at = f.at /\ G(f).name = f.name /\ G(f).done = f.done
    <3>1. f \in FileRec
      BY DEF WorkTyped
    <3>. QED BY <2>1, <3>1 DEF FileRec
  <2>8. files' = {G(f) : f \in files}
    BY <2>4
  <2>. HIDE DEF G
  <2>6. Renewed(files')
    BY <2>5, <2>8 DEF WorkTyped, Renewed
  <2>7. \E x \in files' : x.at = m.f.at /\ x.name = m.f.name /\ x.done
    <3>1. PICK f \in files : f.at = m.f.at /\ f.name = m.f.name /\ f.done
      BY <2>1 DEF WorkTyped
    <3>. QED BY <2>8, <2>5, <3>1
  <2>. QED BY <2>1, <2>3, <2>6, <2>7 DEF WorkTyped, Renewed
<1>6. CASE ChangePath
  <2>1. mover' = NoMove /\ phase = "move" /\ phase' = phase /\ crawling' = crawling /\ mover.pc # "idle"
        /\ files' = {IF f.at = Source THEN [f EXCEPT !.name = ConflictName] ELSE f : f \in files}
    BY <1>6 DEF ChangePath, At
  <2>2. ConflictName \in Path /\ \E f \in files : f.at = Source /\ f.done
    BY <2>1, MoverLoc DEF WorkTyped, Source
  <2>. PICK c, s : c = ConflictName /\ s = Source
    OBVIOUS
  <2>3. \A f \in files : f.at = s => f.done
    BY <2>2 DEF WorkTyped
  <2>. DEFINE G(f) == IF f.at = s THEN [f EXCEPT !.name = c] ELSE f
  <2>4. ASSUME NEW f \in files
        PROVE  G(f) \in FileRec /\ G(f).at = f.at /\ G(f).done = f.done /\ (~f.done => G(f).name = f.name)
    <3>1. f \in FileRec
      BY DEF WorkTyped
    <3>. QED BY <2>2, <2>3, <3>1 DEF FileRec
  <2>5. files' = {G(f) : f \in files}
    BY <2>1
  <2>. HIDE DEF G
  <2>6. Renewed(files')
    BY <2>4, <2>5 DEF WorkTyped, Renewed
  <2>. QED BY <1>0, <2>1, <2>6 DEF WorkTyped, Renewed
<1>7. CASE Join
  BY <1>7 DEF Join, At, WorkTyped
<1>8. CASE UpdateDb
  <2>1. phase = "update" /\ UNCHANGED <<phase, crawling, mover>> /\ files' \in SUBSET files
    BY <1>8 DEF UpdateDb
  <2>. QED BY <2>1 DEF WorkTyped
<1>9. CASE EndPass
  BY <1>9 DEF EndPass, WorkTyped
<1>10. CASE Die
  BY <1>0, <1>10 DEF Die, WorkTyped
<1>11. CASE UNCHANGED <<phase, crawling, files, mover>>
  BY <1>11 DEF WorkTyped
<1>. QED BY WorkSteps, <1>1, <1>2, <1>3, <1>4, <1>5, <1>6, <1>7, <1>8, <1>9, <1>10, <1>11
-----------------------------------------------------------------------------
(* The history *)

\* The sets of the history only grow, but for fresh.
Grows == /\ past.gone \subseteq past'.gone /\ past.hit \subseteq past'.hit
         /\ past.shadowed \subseteq past'.shadowed /\ past.stale \subseteq past'.stale
         /\ past.torn \subseteq past'.torn
         /\ past.carried => past'.carried
         /\ past'.died = past.died \/ (Die /\ past'.died)

PastFine == PastTyped' /\ Grows

LEMMA DataTyped == ASSUME FileTyped, NEW l \in Loc PROVE Data(l) \in SUBSET FileId /\ Lost(l) \in SUBSET FileId
<1>1. HasFile(l) => file[l].data \in FileId
  BY FileHere DEF Inode, FileId
<1>. QED BY <1>1 DEF Data, Lost, OnlyName

LEMMA SplitTyped ==
    ASSUME PastTyped, NEW I \in SUBSET FileId
    PROVE  Split(I) \in [Attr -> SUBSET FileId]
<1>1. past.late \in [Attr -> SUBSET FileId]
  BY DEF PastTyped, PastRec
<1>. QED BY <1>1 DEF Split

LEMMA StaleTyped == ASSUME NEW P \in SUBSET Path PROVE Stale(P) \in SUBSET Path
BY DEF Stale

LEMMA StaleUnderTyped == ASSUME NEW d, NEW e PROVE StaleUnder(d, e) \in SUBSET Path
BY DEF StaleUnder, In

LEMMA SecondTyped == ASSUME NEW t, NEW p \in Path PROVE Second(t, p) \in SUBSET Path
BY DEF Second

LEMMA InPlaceTyped == ASSUME NEW l, NEW I \in SUBSET FileId PROVE InPlace(l, I) \in SUBSET FileId
BY DEF InPlace

LEMMA PastOf ==
    ASSUME NEW h \in PastRec
    PROVE  /\ h.late \in [Attr -> SUBSET FileId] /\ h.fresh \in SUBSET Path
           /\ h.shadowed \in SUBSET Path /\ h.torn \in SUBSET Dir /\ h.stale \in SUBSET Path
           /\ h.gone \in SUBSET FileId /\ h.hit \in SUBSET FileId
BY DEF PastRec

LEMMA PastTurned ==
    ASSUME NEW h \in PastRec, NEW late \in [Attr -> SUBSET FileId], NEW hit \in SUBSET FileId,
           NEW stale \in SUBSET Path, NEW torn \in SUBSET Dir, NEW carried \in BOOLEAN
    PROVE  [h EXCEPT !.torn = torn, !.stale = stale, !.carried = carried, !.late = late, !.hit = hit] \in PastRec
<1>. PICK g : g = [h EXCEPT !.torn = torn, !.stale = stale, !.carried = carried]
  OBVIOUS
<1>1. g \in PastRec
  BY DEF PastRec
<1>2. [g EXCEPT !.late = late, !.hit = hit] \in PastRec
  BY <1>1 DEF PastRec
<1>3. [h EXCEPT !.torn = torn, !.stale = stale, !.carried = carried, !.late = late, !.hit = hit]
      = [g EXCEPT !.late = late, !.hit = hit]
  OBVIOUS
<1>. QED BY <1>2, <1>3

LEMMA PastMade ==
    ASSUME NEW h \in PastRec, NEW late \in [Attr -> SUBSET FileId], NEW hit \in SUBSET FileId,
           NEW stale \in SUBSET Path, NEW fresh \in SUBSET Path, NEW shadowed \in SUBSET Path
    PROVE  [h EXCEPT !.hit = hit, !.fresh = fresh, !.shadowed = shadowed, !.stale = stale, !.late = late] \in PastRec
<1>. PICK g : g = [h EXCEPT !.hit = hit, !.fresh = fresh, !.shadowed = shadowed]
  OBVIOUS
<1>1. g \in PastRec
  BY DEF PastRec
<1>2. [g EXCEPT !.stale = stale, !.late = late] \in PastRec
  BY <1>1 DEF PastRec
<1>3. [h EXCEPT !.hit = hit, !.fresh = fresh, !.shadowed = shadowed, !.stale = stale, !.late = late]
      = [g EXCEPT !.stale = stale, !.late = late]
  OBVIOUS
<1>. QED BY <1>2, <1>3

LEMMA TurnPast == ASSUME Typed, req.op \in DirChanges, NEW ok \in BOOLEAN, NEW after, Turn(ok, after) PROVE PastFine
<1>. USE DEF Typed
<1>. PICK h : h = past
  OBVIOUS
<1>1. h \in PastRec /\ req.p \in Dir /\ req.q \in Dir /\ req.t \in Tier
  BY DEF PastTyped, ReqTyped, ReqRec
<1>. PICK A : A = IF (~ok /\ req.t > 1) \/ (ok /\ req.op = "renamedir" /\ req.p \in h.torn)
                  THEN {req.p, req.q} ELSE {}
  OBVIOUS
<1>. PICK B : B = IF ok /\ req.op = "renamedir" THEN StaleUnder(req.p, req.q) ELSE {}
  OBVIOUS
<1>. PICK C : C = (/\ ok /\ req.op = "renamedir" /\ ~Working({"idle", "copy"}) /\ Tmp[1] = req.t
                   /\ Tmp[2][1] = req.p)
  OBVIOUS
<1>. PICK D : D = IF ok /\ req.op = "renamedir" THEN Split(1 .. made) ELSE h.late
  OBVIOUS
<1>. PICK E : E = IF ok /\ req.op = "renamedir"
                  THEN UNION {InPlace(<<req.t, p>>, Data(<<req.t, Moved(p, req.p)>>)) : p \in In(req.q)} ELSE {}
  OBVIOUS
<1>2. A \in SUBSET Dir /\ B \in SUBSET Path
  BY <1>1, StaleUnderTyped
<1>3. D \in [Attr -> SUBSET FileId]
  <2>1. 1 .. made \in SUBSET FileId
    BY Numbers DEF CountsTyped, FileId
  <2>. QED BY <1>1, <2>1, SplitTyped DEF PastRec
<1>4. E \in SUBSET FileId
  <2>1. ASSUME NEW p \in In(req.q) PROVE InPlace(<<req.t, p>>, Data(<<req.t, Moved(p, req.p)>>)) \in SUBSET FileId
    <3>1. <<req.t, Moved(p, req.p)>> \in Loc
      BY <1>1, MovedPath DEF In, Loc
    <3>. QED BY <3>1, DataTyped, InPlaceTyped
  <2>. QED BY <2>1
<1>p. PICK a, b, c, e : a = h.torn \cup A /\ b = h.stale \cup B /\ c = (h.carried \/ C) /\ e = h.hit \cup E
  OBVIOUS
<1>5. past' = [h EXCEPT !.torn = a, !.stale = b, !.carried = c, !.late = D, !.hit = e]
  BY <1>p DEF Turn
<1>8. a \in SUBSET Dir /\ b \in SUBSET Path /\ e \in SUBSET FileId
  BY <1>p, <1>1, <1>2, <1>4, PastOf
<1>9. c \in BOOLEAN /\ (h.carried => c)
  BY <1>p
<1>6. past' \in PastRec
  <2>1. [h EXCEPT !.torn = a, !.stale = b, !.carried = c, !.late = D, !.hit = e] \in PastRec
    BY <1>1, <1>3, <1>8, <1>9, PastTurned
  <2>. QED BY <1>5, <2>1, Zenon
<1>7. past'.torn = h.torn \cup A /\ past'.stale = h.stale \cup B /\ (h.carried => past'.carried)
      /\ past'.hit = h.hit \cup E /\ past'.gone = h.gone /\ past'.shadowed = h.shadowed /\ past'.died = h.died
  BY <1>p, <1>1, <1>5, <1>9 DEF PastRec
<1>. QED BY <1>6, <1>7 DEF PastFine, PastTyped, Grows

LEMMA DieMarks ==
    ASSUME PastTyped, Die
    PROVE  /\ past'.died /\ \A k \in Attr \ {"time"} : past'.late[k] = past.late[k]
           /\ past'.late["time"] = past.late["time"] \cup IF Working({"renamed", "times"}) THEN Data(RenameTo) ELSE {}
           /\ UNCHANGED <<past.wanted, past.gone, past.hit, past.shadowed, past.fresh, past.stale, past.torn, past.carried>>
<1>. PICK h : h = past
  OBVIOUS
<1>1. h \in PastRec /\ h.late \in [Attr -> SUBSET FileId] /\ "time" \in Attr
  BY DEF PastTyped, PastRec, Attr
<1>. PICK D, B : D = (IF Working({"renamed", "times"}) THEN Data(RenameTo) ELSE {})
                 /\ B = [h.late EXCEPT !["time"] = @ \cup D]
  OBVIOUS
<1>2. past' = [h EXCEPT !.died = TRUE, !.late = B]
  BY DEF Die
<1>3. past'.late = B /\ past'.died
      /\ UNCHANGED <<past.wanted, past.gone, past.hit, past.shadowed, past.fresh, past.stale, past.torn, past.carried>>
  BY <1>1, <1>2 DEF PastRec
<1>4. B["time"] = h.late["time"] \cup D /\ \A k \in Attr \ {"time"} : B[k] = h.late[k]
  BY <1>1
<1>. QED BY <1>3, <1>4

LEMMA PastNext == Typed /\ [Next]_vars => PastFine
<1>. SUFFICES ASSUME Typed, [Next]_vars PROVE PastFine
  OBVIOUS
<1>. USE DEF Typed
<1>. PICK h : h = past
  OBVIOUS
<1>0. h \in PastRec
  BY DEF PastTyped
<1>1. CASE past' = past
  BY <1>1 DEF PastFine, PastTyped, Grows
<1>2. CASE Unlink
  <2>. PICK A, B, C : A = Lost(Here) /\ B = Stale({req.p}) /\ C = Split(Data(Here))
    OBVIOUS
  <2>1. Here \in Loc /\ req.p \in Path
    BY <1>2, HereLoc DEF Unlink, Calling, FileOps
  <2>2. A \in SUBSET FileId /\ B \in SUBSET Path /\ C \in [Attr -> SUBSET FileId]
    BY <2>1, DataTyped, SplitTyped, StaleTyped
  <2>3. past' = [h EXCEPT !.gone = @ \cup A, !.stale = @ \cup B, !.late = C]
    BY <1>2 DEF Unlink
  <2>. QED BY <1>0, <2>2, <2>3 DEF PastRec, PastFine, PastTyped, Grows
<1>3. CASE UnlinkEntry \/ CreateEntry
  <2>. PICK B : B = Stale({req.p})
    OBVIOUS
  <2>1. req.p \in Path
    BY <1>3, HereLoc DEF UnlinkEntry, CreateEntry, FileOps
  <2>2. B \in SUBSET Path
    BY <2>1, StaleTyped
  <2>3. past' = [h EXCEPT !.stale = @ \cup B]
    BY <1>3 DEF UnlinkEntry, CreateEntry
  <2>. QED BY <1>0, <2>2, <2>3 DEF PastRec, PastFine, PastTyped, Grows
<1>4. CASE Rename
  <2>1. Here \in Loc /\ There \in Loc /\ req.p \in Path /\ req.q \in Path
    BY <1>4, HereLoc DEF Rename, Calling, FileOps
  <2>. PICK A, B, C : A = Lost(There) /\ B = InPlace(There, Data(Here)) /\ C = Second(req.t, req.q)
    OBVIOUS
  <2>. PICK D, E : D = Stale({req.p, req.q}) /\ E = Split(Data(Here) \cup Data(There))
    OBVIOUS
  <2>2. A \in SUBSET FileId /\ B \in SUBSET FileId /\ C \in SUBSET Path /\ D \in SUBSET Path
    BY <2>1, DataTyped, InPlaceTyped, StaleTyped, SecondTyped
  <2>3. E \in [Attr -> SUBSET FileId]
    <3>1. Data(Here) \cup Data(There) \in SUBSET FileId
      BY <2>1, DataTyped
    <3>. QED BY <3>1, SplitTyped
  <2>4. past' = [h EXCEPT !.gone = @ \cup A, !.hit = @ \cup B, !.shadowed = @ \cup C, !.stale = @ \cup D, !.late = E]
    BY <1>4 DEF Rename
  <2>. PICK g : g = [h EXCEPT !.gone = @ \cup A, !.hit = @ \cup B, !.shadowed = @ \cup C]
    OBVIOUS
  <2>5. g \in PastRec /\ g.gone = h.gone \cup A /\ g.hit = h.hit \cup B /\ g.shadowed = h.shadowed \cup C
        /\ g.stale = h.stale /\ g.torn = h.torn /\ g.carried = h.carried /\ g.died = h.died
    BY <1>0, <2>2 DEF PastRec
  <2>6. past' = [g EXCEPT !.stale = @ \cup D, !.late = E]
    BY <2>4
  <2>7. past' \in PastRec /\ past'.gone = g.gone /\ past'.hit = g.hit
        /\ past'.shadowed = g.shadowed /\ past'.stale = g.stale \cup D
        /\ past'.torn = g.torn /\ past'.carried = g.carried /\ past'.died = g.died
    <3>. PICK y : y = past'
      OBVIOUS
    <3>1. g \in PastRec /\ D \in SUBSET Path /\ E \in [Attr -> SUBSET FileId]
      BY <2>2, <2>3, <2>5
    <3>2. y = [g EXCEPT !.stale = @ \cup D, !.late = E]
      BY <2>6
    <3>3. /\ y \in PastRec /\ y.gone = g.gone /\ y.hit = g.hit
          /\ y.shadowed = g.shadowed /\ y.stale = g.stale \cup D
          /\ y.torn = g.torn /\ y.carried = g.carried /\ y.died = g.died
      BY ONLY <3>1, <3>2 DEF PastRec
    <3>. QED BY <3>3
  <2>8. PastTyped'
    BY <2>7 DEF PastTyped
  <2>9. /\ h.gone \subseteq past'.gone /\ h.hit \subseteq past'.hit
        /\ h.shadowed \subseteq past'.shadowed /\ h.stale \subseteq past'.stale
        /\ h.torn \subseteq past'.torn
        /\ h.carried => past'.carried
        /\ past'.died = h.died
    BY ONLY <2>5, <2>7
  <2>10. Grows
    BY <2>9 DEF Grows
  <2>. QED BY <2>8, <2>10 DEF PastFine
<1>5. CASE RenameEntry
  <2>. PICK B, C : B = Stale({req.p, req.q}) /\ C = {p \in {req.p} : HasFile(Here)}
    OBVIOUS
  <2>1. req.p \in Path /\ req.q \in Path
    BY <1>5, HereLoc DEF RenameEntry, FileOps
  <2>2. B \in SUBSET Path /\ C \in SUBSET Path
    BY <2>1, StaleTyped
  <2>3. past' = [h EXCEPT !.stale = @ \cup B, !.fresh = @ \cup C]
    BY <1>5 DEF RenameEntry
  <2>. QED BY <1>0, <2>2, <2>3 DEF PastRec, PastFine, PastTyped, Grows
<1>6. CASE Link
  <2>1. Here \in Loc /\ There \in Loc /\ req.p \in Path /\ req.q \in Path /\ HasFile(Here)
    BY <1>6, HereLoc DEF Link, Calling, FileOps
  <2>. PICK A, B, C : A = Stale({req.q}) /\ B = InPlace(There, Data(Here)) /\ C = Second(req.t, req.q)
    OBVIOUS
  <2>. PICK D : D = [k \in Attr |-> h.late[k] \cup {file[Here].data}]
    OBVIOUS
  <2>2. A \in SUBSET Path /\ B \in SUBSET FileId /\ C \in SUBSET Path
    BY <2>1, DataTyped, InPlaceTyped, StaleTyped, SecondTyped
  <2>3. D \in [Attr -> SUBSET FileId]
    <3>1. file[Here].data \in FileId
      BY <2>1, FileHere DEF Inode, FileId
    <3>. QED BY <1>0, <3>1 DEF PastRec
  <2>. PICK q : q = req.q
    OBVIOUS
  <2>4. past' = [h EXCEPT !.fresh = @ \cup {q}, !.stale = @ \cup A, !.shadowed = @ \cup C, !.hit = @ \cup B, !.late = D]
    BY <1>6 DEF Link
  <2>5. q \in Path
    BY <2>1
  <2>6. past' \in PastRec
    <3>. PICK x, f, s, t : x = h.hit \cup B /\ f = h.fresh \cup {q} /\ s = h.shadowed \cup C /\ t = h.stale \cup A
      OBVIOUS
    <3>1. x \in SUBSET FileId /\ f \in SUBSET Path /\ s \in SUBSET Path /\ t \in SUBSET Path
      BY <1>0, <2>2, <2>5, PastOf
    <3>2. past' = [h EXCEPT !.hit = x, !.fresh = f, !.shadowed = s, !.stale = t, !.late = D]
      BY <1>0, <2>4, PastOf
    <3>. QED BY <1>0, <2>3, <3>1, <3>2, PastMade
  <2>7. past'.shadowed = h.shadowed \cup C /\ past'.stale = h.stale \cup A /\ past'.hit = h.hit \cup B
        /\ UNCHANGED <<past.gone, past.torn, past.carried, past.died>>
    BY <1>0, <2>4 DEF PastRec
  <2>. QED BY <2>6, <2>7 DEF PastFine, PastTyped, Grows
<1>7. ASSUME NEW k \in Attr, Set(k) PROVE PastFine
  <2>. PICK i : i = file[Here].data
    OBVIOUS
  <2>. PICK w, e : w = [h.wanted EXCEPT ![i][k] = 1] /\ e = [h.late EXCEPT ![k] = IF TooLate(i, k) THEN @ \cup {i} ELSE @]
    OBVIOUS
  <2>1. i \in FileId
    BY <1>7, HereLoc, FileHere DEF Set, Calling, FileOps, OnlyName, Inode, FileId
  <2>2. h.wanted \in [FileId -> [Attr -> Value]] /\ h.late \in [Attr -> SUBSET FileId]
    BY <1>0 DEF PastRec
  <2>3. w \in [FileId -> [Attr -> Value]] /\ e \in [Attr -> SUBSET FileId]
    BY <2>1, <2>2 DEF Value
  <2>4. past' = [h EXCEPT !.wanted = w, !.late = e]
    BY <1>7 DEF Set
  <2>. QED BY <1>0, <2>3, <2>4 DEF PastRec, PastFine, PastTyped, Grows
<1>8. ASSUME NEW op, NEW p \in Visible, Make(op, p) PROVE PastFine
  <2>. PICK A, B, C : A = Data(<<1, p>>) /\ B = InPlace(<<1, p>>, {made + 1}) /\ C = Second(1, p)
    OBVIOUS
  <2>. PICK D, E, F : D = Stale({p}) /\ E = Split(Data(<<1, p>>) \cup {i \in {made + 1} : Held(p)})
                      /\ F = IF op = "create" THEN h.fresh \ {p} ELSE h.fresh \cup {p}
    OBVIOUS
  <2>1. p \in Path /\ <<1, p>> \in Loc /\ {made + 1} \in SUBSET FileId
    BY <1>8, Numbers DEF Make, CountsTyped, FileId, Visible, Loc
  <2>2. A \in SUBSET FileId /\ B \in SUBSET FileId /\ C \in SUBSET Path /\ D \in SUBSET Path
    BY <2>1, DataTyped, InPlaceTyped, StaleTyped, SecondTyped
  <2>3. E \in [Attr -> SUBSET FileId]
    <3>1. Data(<<1, p>>) \cup {i \in {made + 1} : Held(p)} \in SUBSET FileId
      BY <2>1, <2>2
    <3>. QED BY <3>1, SplitTyped
  <2>4. F \in SUBSET Path
    BY <1>0, <2>1 DEF PastRec
  <2>5. past' = [h EXCEPT !.hit = @ \cup A \cup B, !.fresh = F, !.shadowed = @ \cup C, !.stale = @ \cup D, !.late = E]
    BY <1>8 DEF Make
  <2>6. past' \in PastRec
    <3>p. PICK x, s, t : x = (h.hit \cup A) \cup B /\ s = h.shadowed \cup C /\ t = h.stale \cup D
      OBVIOUS
    <3>1. x \in SUBSET FileId /\ s \in SUBSET Path /\ t \in SUBSET Path
      BY <3>p, <1>0, <2>2, PastOf
    <3>2. past' = [h EXCEPT !.hit = x, !.fresh = F, !.shadowed = s, !.stale = t, !.late = E]
      BY <3>p, <2>5
    <3>3. [h EXCEPT !.hit = x, !.fresh = F, !.shadowed = s, !.stale = t, !.late = E] \in PastRec
      BY <1>0, <2>3, <2>4, <3>1, PastMade
    <3>. QED BY <3>2, <3>3, Zenon
  <2>7. past'.shadowed = h.shadowed \cup C /\ past'.stale = h.stale \cup D /\ past'.hit = (h.hit \cup A) \cup B
        /\ UNCHANGED <<past.gone, past.torn, past.carried, past.died>>
    BY <1>0, <2>5 DEF PastRec
  <2>. QED BY <2>6, <2>7 DEF PastFine, PastTyped, Grows
<1>9. CASE Mkdir \/ Rmdir \/ SetDir \/ RenameDir
  <2>1. \E ok \in BOOLEAN : \E after : Turn(ok, after)
    BY <1>9 DEF Mkdir, Rmdir, SetDir, RenameDir
  <2>. QED BY <1>9, <2>1, TurnPast DEF Mkdir, Rmdir, SetDir, RenameDir, Calling, DirChanges
<1>10. CASE RenameKeys
  <2>. PICK B, C : B = StaleUnder(req.p, req.q)
                   /\ C = {p \in In(req.q) \cap Visible : db[Moved(p, req.p)] = Absent}
    OBVIOUS
  <2>1. B \in SUBSET Path /\ C \in SUBSET Path
    BY StaleUnderTyped DEF Visible
  <2>2. past' = [h EXCEPT !.stale = @ \cup B, !.fresh = @ \cup C]
    BY <1>10 DEF RenameKeys
  <2>. QED BY <1>0, <2>1, <2>2 DEF PastRec, PastFine, PastTyped, Grows
<1>11. ASSUME NEW f \in files, NEW t, MoveFile(f, t) PROVE PastFine
  <2>. PICK D : D = {d \in {f.name[1]} : ~HasDir(t, d)}
    OBVIOUS
  <2>1. D \in SUBSET Dir
    <3>1. f.name \in Path
      BY DEF WorkTyped, FileRec
    <3>2. f.name[1] \in Dir
      BY <3>1, PathOf
    <3>. QED BY <3>2
  <2>2. past' = [h EXCEPT !.torn = @ \cup D]
    BY <1>11 DEF MoveFile
  <2>. QED BY <1>0, <2>1, <2>2 DEF PastRec, PastFine, PastTyped, Grows
<1>12. CASE RenameTmp
  <2>1. Tmp \in Loc /\ <<mover.t, ConflictName>> \in Loc
    BY <1>12, MoverLoc DEF RenameTmp, At
  <2>. PICK A, B : A = (IF mover.clash THEN Data(<<mover.t, ConflictName>>) ELSE {})
                   /\ B = [k \in Attr |-> h.late[k] \cup {i \in Data(Tmp) :
                               \/ h.carried \/ k = "xattr"
                               \/ k = "time" /\ \E f \in files : f.at = RenameTo}]
    OBVIOUS
  <2>2. A \in SUBSET FileId
    BY <2>1, DataTyped
  <2>3. B \in [Attr -> SUBSET FileId]
    <3>1. h.late \in [Attr -> SUBSET FileId]
      BY <1>0 DEF PastRec
    <3>2. \A k : {i \in Data(Tmp) : h.carried \/ k = "xattr" \/ (k = "time" /\ \E f \in files : f.at = RenameTo)} \in SUBSET FileId
      BY <2>1, DataTyped
    <3>. QED BY <3>1, <3>2
  <2>4. past' = [h EXCEPT !.hit = @ \cup A, !.late = B]
    BY <1>12 DEF RenameTmp
  <2>. QED BY <1>0, <2>2, <2>3, <2>4 DEF PastRec, PastFine, PastTyped, Grows
<1>13. CASE Die
  <2>. PICK D, B : D = (IF Working({"renamed", "times"}) THEN Data(RenameTo) ELSE {})
                   /\ B = [h.late EXCEPT !["time"] = @ \cup D]
    OBVIOUS
  <2>1. past' = [h EXCEPT !.died = TRUE, !.late = B]
    BY <1>13 DEF Die
  <2>4. B \in [Attr -> SUBSET FileId]
    <3>1. h.late \in [Attr -> SUBSET FileId]
      BY <1>0 DEF PastRec
    <3>2. D \in SUBSET FileId
      BY MoverLoc, DataTyped DEF Working
    <3>. QED BY <3>1, <3>2
  <2>2. past' \in PastRec /\ past'.died
    BY <1>0, <2>1, <2>4 DEF PastRec
  <2>3. UNCHANGED <<past.gone, past.hit, past.shadowed, past.stale, past.torn, past.carried>>
    BY <1>13, DieMarks
  <2>. QED BY <1>13, <2>2, <2>3 DEF PastFine, PastTyped, Grows
<1>14. CASE OverwriteTimes
  <2>1. Target \in Loc /\ RenameTo \in Loc
    BY <1>14, MoverLoc DEF OverwriteTimes, At
  <2>. PICK B : B = [h.late EXCEPT !["time"] = @ \cup IF mover.clash THEN Data(Target) \cup Data(RenameTo) ELSE {}]
    OBVIOUS
  <2>2. B \in [Attr -> SUBSET FileId]
    <3>1. h.late \in [Attr -> SUBSET FileId]
      BY <1>0 DEF PastRec
    <3>2. Data(Target) \in SUBSET FileId /\ Data(RenameTo) \in SUBSET FileId
      BY <2>1, DataTyped
    <3>. QED BY <3>1, <3>2
  <2>3. past' = [h EXCEPT !.late = B]
    BY <1>14 DEF OverwriteTimes
  <2>. QED BY <1>0, <2>2, <2>3 DEF PastRec, PastFine, PastTyped, Grows
<1>15. CASE ChangePath
  <2>1. mover.f.name \in Path
    BY <1>15, MoverLoc DEF ChangePath, At
  <2>. PICK p : p = mover.f.name
    OBVIOUS
  <2>2. past' = [h EXCEPT !.shadowed = @ \cup {p}]
    BY <1>15 DEF ChangePath
  <2>. QED BY <1>0, <2>1, <2>2 DEF PastRec, PastFine, PastTyped, Grows
<1>16. CASE UpdateDb
  <2>1. \E A : past' = [h EXCEPT !.fresh = @ \ A]
    BY <1>16 DEF UpdateDb
  <2>. QED BY <1>0, <2>1 DEF PastRec, PastFine, PastTyped, Grows
<1>17. CASE Request
  <2>1. CASE CallFails \/ Stat
    BY <1>1, <2>1 DEF CallFails, Stat
  <2>2. CASE \/ \E op \in FileOps, p, q \in Visible : Lookup(op, p, q)
             \/ \E op \in DirChanges, d, e \in Dir : BeginDir(op, d, e)
    BY <1>1, <2>2 DEF Lookup, BeginDir
  <2>3. CASE \E op \in {"create", "mknod", "symlink"}, p \in Visible : Make(op, p)
    BY <1>8, <2>3
  <2>4. CASE Truncate \/ Chmod \/ Chown \/ Setxattr \/ Removexattr \/ Utimens
    BY <1>7, <2>4 DEF Truncate, Chmod, Chown, Setxattr, Removexattr, Utimens, Attr
  <2>. QED BY <1>2, <1>3, <1>4, <1>5, <1>6, <1>9, <1>10, <1>17, <2>1, <2>2, <2>3, <2>4
           DEF Request, Access, Readlink, Lseek, Getxattr, Listxattr
<1>18. CASE Worker
  <2>1. CASE StartPass \/ Crawl \/ Copy \/ CopyFail \/ CopyMode \/ Remove \/ TestExists \/ Record \/ Join \/ EndPass
    BY <1>1, <2>1 DEF StartPass, Crawl, Copy, CopyFail, CopyMode, Remove, TestExists, Record, Join, EndPass
  <2>. QED BY <1>11, <1>12, <1>14, <1>15, <1>16, <1>18, <2>1 DEF Worker
<1>. QED BY <1>1, <1>13, <1>17, <1>18 DEF Next, Restart, vars

LEMMA TypedNext == Typed /\ [Next]_vars => Typed'
BY FileNext, DirNext, DbNext, CountsNext, ReqNext, WorkNext, PastNext DEF PastFine, Typed

\* Whatever requests and the worker do, the tree, the database and the pass keep their
\* shapes: entries name tiers, and crawled Files are locations of the tree.
THEOREM NamespaceTypeCorrect == Spec => []TypeOK
<1>1. Typed => TypeOK
  BY Numbers DEF Typed, TypeOK, DirTyped, FileTyped, DbTyped, CountsTyped, WorkTyped, FileRec
<1>. QED BY <1>1, TypedInit, TypedNext, PTL DEF Spec
-----------------------------------------------------------------------------
(* What a step does to the files, but for their attributes *)

\* The file at l stays there; l gets the file that k had.
HasNext(l) == file'[l] # Absent
Stays(l) == /\ HasNext(l) <=> HasFile(l)
            /\ HasFile(l) => file'[l].data = file[l].data /\ file'[l].sym = file[l].sym
Gets(l, k) == HasFile(k) /\ HasNext(l) /\ file'[l].data = file[k].data /\ file'[l].sym = file[k].sym

Erased(l) == ~HasNext(l) /\ \A x \in Loc \ {l} : Stays(x)
Copies(l, k) == Gets(k, l) /\ \A x \in Loc \ {k} : Stays(x)
Shifts(l, k) == l # k /\ Gets(k, l) /\ ~HasNext(l) /\ \A x \in Loc \ {l, k} : Stays(x)
Makes(l) == HasNext(l) /\ file'[l].data = made + 1 /\ \A x \in Loc \ {l} : Stays(x)
\* The files under directory d of tier t come under e, and no others are there.
Carries(t, d, e) ==
    /\ HasDir(t, d) /\ (HasDir(t, e) => EmptyDir(t, e))
    /\ \A l \in Loc : l[1] = t /\ l[2][1] = e =>
          IF HasFile(<<t, Moved(l[2], d)>>) THEN Gets(l, <<t, Moved(l[2], d)>>) ELSE ~HasNext(l)
    /\ \A l \in Loc : l[1] = t /\ l[2][1] = d => ~HasNext(l)
    /\ \A l \in Loc : (l[1] = t => l[2][1] # d /\ l[2][1] # e) => Stays(l)

Makings == {"create", "mknod", "symlink"}
RequestEffect ==
    \/ Unlink /\ Erased(Here)
    \/ Rename /\ Shifts(Here, There)
    \/ Link /\ Copies(Here, There)
    \/ RenameDir /\ Carries(req.t, req.p, req.q)
    \/ \E op \in Makings, p \in Visible : Make(op, p) /\ Makes(<<1, p>>)
WorkEffect ==
    \/ Remove /\ Erased(Source)
    \/ RenameTmp /\ Shifts(Tmp, RenameTo)
    \/ Copy /\ Copies(Source, Tmp)
Effect == \/ \A l \in Loc : Stays(l)
          \/ RequestEffect /\ UNCHANGED worker
          \/ WorkEffect /\ UNCHANGED <<req, counts>>

LEMMA NotInode == ASSUME NEW v \in Inode PROVE v # Absent
BY AbsentAssumption

LEMMA RenameToShown ==
    ASSUME WorkTyped, mover.pc # "idle"
    PROVE  /\ RenameTo[2][3] # Hidden /\ RenameTo[1] = mover.t /\ RenameTo[2] \in {mover.f.name, ConflictName}
           /\ RenameTo[2][1] = mover.f.name[1] /\ RenameTo # Source
<1>1. mover.f.name \in Visible /\ ConflictName[3] \in Tier /\ Target = <<mover.t, mover.f.name>>
      /\ ConflictName = <<mover.f.name[1], mover.f.name[2], Source[1]>> /\ Source[1] # mover.t
  BY MoverLoc DEF ConflictName
<1>2. mover.f.name[3] # Hidden /\ ConflictName[3] # Hidden
  BY <1>1, Names DEF Visible
<1>. QED BY <1>1, <1>2 DEF RenameTo

LEMMA SetStays ==
    ASSUME FileTyped, NEW l \in Loc, HasFile(l), NEW v, v.data = file[l].data, v.sym = file[l].sym,
           v # Absent, file' = [file EXCEPT ![l] = v]
    PROVE  \A x \in Loc : Stays(x)
BY DEF FileTyped, Stays, HasNext, HasFile

LEMMA CopyEffect == ASSUME Typed, Copy PROVE Copies(Source, Tmp)
<1>. USE DEF Typed
<1>. PICK v, w : v = file[Source] /\ w = [v EXCEPT !.mode = Raw, !.xattr = 0, !.time = Raw]
  OBVIOUS
<1>1. Source \in Loc /\ Tmp \in Loc /\ HasFile(Source) /\ v \in Inode
  BY MoverLoc, FileHere DEF Copy, At
<1>2. file' = [file EXCEPT ![Tmp] = w]
  BY DEF Copy
<1>3. w \in Inode /\ w.data = v.data /\ w.sym = v.sym
  BY <1>1 DEF Inode, Value
<1>4. w # Absent
  BY <1>3, NotInode
<1>. QED BY <1>1, <1>2, <1>3, <1>4 DEF FileTyped, Copies, Gets, Stays, HasNext, HasFile

LEMMA MakeEffect == ASSUME Typed, NEW op \in Makings, NEW p \in Visible, Make(op, p) PROVE Makes(<<1, p>>)
<1>. USE DEF Typed
<1>1. <<1, p>> \in Loc
  BY Numbers DEF Visible, Loc
<1>2. file' = [file EXCEPT ![<<1, p>>] = NewFile(made + 1, op = "symlink")]
  BY DEF Make
<1>3. NewFile(made + 1, op = "symlink") \in Inode /\ NewFile(made + 1, op = "symlink").data = made + 1
  <2>1. made + 1 \in 1 .. MaxFiles
    BY Numbers DEF Make, CountsTyped
  <2>. QED BY <2>1 DEF NewFile, Inode, Value
<1>. PICK v : v = NewFile(made + 1, op = "symlink")
  OBVIOUS
<1>4. v # Absent
  BY <1>3, NotInode
<1>. QED BY <1>1, <1>2, <1>3, <1>4 DEF FileTyped, Makes, Stays, HasNext, HasFile

LEMMA RenameDirEffect ==
    ASSUME Typed, [Next]_vars, RenameDir
    PROVE  \/ /\ Carries(req.t, req.p, req.q)
              /\ dir' = [dir EXCEPT ![req.t][req.q] = dir[req.t][req.p], ![req.t][req.p] = Absent]
           \/ dir' = dir /\ file' = file
<1>. USE DEF Typed
<1>. PICK d, e, t : d = req.p /\ e = req.q /\ t = req.t
  OBVIOUS
<1>1. d \in Dir /\ e \in Dir /\ t \in Tier /\ d # e
  BY DEF RenameDir, Calling, DirChanges, ReqTyped, ReqRec
<1>. DEFINE ok == HasDir(t, d) /\ (HasDir(t, e) => EmptyDir(t, e))
            F == [l \in Loc |-> CASE ok /\ l[1] = t /\ l[2][1] = e -> file[<<t, Moved(l[2], d)>>]
                                 [] ok /\ l[1] = t /\ l[2][1] = d -> Absent
                                 [] OTHER -> file[l]]
<1>a. file' = F
  BY DEF RenameDir
<1>. HIDE DEF ok
<1>2. ASSUME NEW l \in Loc
      PROVE  /\ (~ok \/ l[1] # t) => file'[l] = file[l]
             /\ (ok /\ l[1] = t /\ l[2][1] = e) => file'[l] = file[<<t, Moved(l[2], d)>>]
             /\ (ok /\ l[1] = t /\ l[2][1] # e /\ l[2][1] = d) => file'[l] = Absent
             /\ (ok /\ l[1] = t /\ l[2][1] # e /\ l[2][1] # d) => file'[l] = file[l]
  <2>1. file'[l] = CASE ok /\ l[1] = t /\ l[2][1] = e -> file[<<t, Moved(l[2], d)>>]
                     [] ok /\ l[1] = t /\ l[2][1] = d -> Absent
                     [] OTHER -> file[l]
    BY <1>a
  <2>2. (~ok \/ l[1] # t) => file'[l] = file[l]
    BY <2>1
  <2>3. (ok /\ l[1] = t /\ l[2][1] = e) => file'[l] = file[<<t, Moved(l[2], d)>>]
    BY <1>1, <2>1
  <2>4. (ok /\ l[1] = t /\ l[2][1] # e /\ l[2][1] = d) => file'[l] = Absent
    BY <2>1
  <2>5. (ok /\ l[1] = t /\ l[2][1] # e /\ l[2][1] # d) => file'[l] = file[l]
    BY <2>1
  <2>. QED BY <2>2, <2>3, <2>4, <2>5
<1>. HIDE DEF F
<1>d. dir' = IF ok THEN [dir EXCEPT ![t][e] = dir[t][d], ![t][d] = Absent] ELSE dir
  BY DEF RenameDir, ok
<1>3. CASE ~ok
  <2>1. \A l \in Loc : file'[l] = file[l]
    BY <1>2, <1>3, Zenon
  <2>2. FileTyped'
    BY FileNext
  <2>3. file' = file
    BY <2>1, <2>2 DEF FileTyped
  <2>. QED BY <1>d, <1>3, <2>3
<1>. SUFFICES ASSUME ok PROVE Carries(req.t, req.p, req.q)
  BY <1>3, <1>d
<1>4. ASSUME NEW l \in Loc, l[1] = t, l[2][1] = e
      PROVE  IF HasFile(<<t, Moved(l[2], d)>>) THEN Gets(l, <<t, Moved(l[2], d)>>) ELSE ~HasNext(l)
  <2>1. file'[l] = file[<<t, Moved(l[2], d)>>]
    BY <1>2, <1>4
  <2>. QED BY <2>1 DEF Gets, HasNext, HasFile
<1>5. ASSUME NEW l \in Loc, l[1] = t, l[2][1] = d PROVE ~HasNext(l)
  BY <1>1, <1>2, <1>5 DEF HasNext, HasFile
<1>6. ASSUME NEW l \in Loc, l[1] = t => l[2][1] # d /\ l[2][1] # e PROVE Stays(l)
  <2>1. file'[l] = file[l]
    BY <1>2, <1>6
  <2>. QED BY <2>1 DEF Stays, HasNext, HasFile
<1>. QED BY <1>4, <1>5, <1>6 DEF Carries, ok

LEMMA Steps == ASSUME Typed, [Next]_vars PROVE Effect
<1>. USE DEF Typed
<1>0. CASE file' = file
  <2>1. \A l \in Loc : Stays(l)
    BY <1>0 DEF Stays, HasNext, HasFile
  <2>. QED BY <2>1 DEF Effect
<1>1. ASSUME Unlink PROVE Erased(Here)
  <2>1. Here \in Loc
    BY <1>1, HereLoc DEF Unlink, Calling, FileOps
  <2>2. file' = [file EXCEPT ![Here] = Absent]
    BY <1>1 DEF Unlink
  <2>. QED BY <2>1, <2>2 DEF FileTyped, Erased, Stays, HasNext, HasFile
<1>2. ASSUME Rename, file' # file PROVE Shifts(Here, There)
  <2>1. Here \in Loc /\ There \in Loc /\ Here # There /\ HasFile(Here)
    <3>1. req.op = "rename"
      BY <1>2 DEF Rename, Calling
    <3>2. Here \in Loc /\ There \in Loc /\ req.p # req.q /\ Here[2] = req.p /\ There[2] = req.q
      BY <3>1, HereLoc DEF FileOps, ReqTyped
    <3>. QED BY <1>2, <3>2 DEF Rename
  <2>2. file' = [file EXCEPT ![Here] = Absent, ![There] = file[Here]]
    BY <1>2 DEF Rename
  <2>. QED BY <2>1, <2>2 DEF FileTyped, Shifts, Gets, Stays, HasNext, HasFile
<1>3. ASSUME Link PROVE Copies(Here, There)
  <2>1. Here \in Loc /\ There \in Loc /\ HasFile(Here)
    BY <1>3, HereLoc DEF Link, Calling, FileOps
  <2>2. file' = [file EXCEPT ![There] = file[Here]]
    BY <1>3 DEF Link
  <2>. QED BY <2>1, <2>2 DEF FileTyped, Copies, Gets, Stays, HasNext, HasFile
<1>4. ASSUME NEW k \in Attr, Set(k) PROVE \A l \in Loc : Stays(l)
  <2>1. Here \in Loc /\ HasFile(Here)
    BY <1>4, HereLoc DEF Set, Calling, FileOps, OnlyName
  <2>. PICK v, w : v = file[Here] /\ w = [v EXCEPT ![k] = 1]
    OBVIOUS
  <2>2. v \in Inode
    BY <2>1, FileHere
  <2>3. w \in Inode /\ w.data = v.data /\ w.sym = v.sym
    <3>1. 1 \in Value
      BY DEF Value
    <3>. QED BY <2>2, <3>1, InodeSet
  <2>4. file' = [file EXCEPT ![Here] = w]
    BY <1>4 DEF Set
  <2>5. w # Absent
    <3>1. file'[Here] = w
      BY <2>1, <2>4 DEF FileTyped
    <3>. QED BY <2>3, NotInode
  <2>. QED BY <2>1, <2>3, <2>4, <2>5, SetStays
<1>5. ASSUME NEW op \in Makings, NEW p \in Visible, Make(op, p) PROVE Makes(<<1, p>>)
  BY <1>5, MakeEffect
<1>6. ASSUME RenameDir, file' # file PROVE Carries(req.t, req.p, req.q)
  BY <1>6, RenameDirEffect
<1>7. ASSUME Copy PROVE Copies(Source, Tmp)
  BY <1>7, CopyEffect
<1>8. ASSUME CopyMode, file' # file PROVE \A l \in Loc : Stays(l)
  <2>. PICK v, w : v = file[Tmp] /\ w = [v EXCEPT !.mode = file[Source].mode]
    OBVIOUS
  <2>1. Tmp \in Loc /\ HasFile(Tmp) /\ v \in Inode /\ file[Source].mode \in Value
    <3>1. HasFile(Tmp) /\ HasFile(Source) /\ Tmp \in Loc /\ Source \in Loc
      BY <1>8, MoverLoc DEF CopyMode, At
    <3>. QED BY <3>1, FileHere DEF Inode
  <2>2. file' = [file EXCEPT ![Tmp] = w]
    BY <1>8 DEF CopyMode
  <2>3. w \in Inode /\ w.data = v.data /\ w.sym = v.sym
    BY <2>1 DEF Inode
  <2>4. w # Absent
    BY <2>3, NotInode
  <2>. QED BY <2>1, <2>2, <2>3, <2>4, SetStays
<1>9. ASSUME Remove PROVE Erased(Source)
  <2>1. Source \in Loc
    BY <1>9, MoverLoc DEF Remove, At
  <2>2. file' = [file EXCEPT ![Source] = Absent]
    BY <1>9 DEF Remove
  <2>. QED BY <2>1, <2>2 DEF FileTyped, Erased, Stays, HasNext, HasFile
<1>10. ASSUME RenameTmp PROVE Shifts(Tmp, RenameTo)
  <2>1. Tmp \in Loc /\ RenameTo \in Loc /\ HasFile(Tmp) /\ Tmp # RenameTo
    <3>1. Tmp \in Loc /\ RenameTo \in Loc /\ HasFile(Tmp)
      BY <1>10, MoverLoc DEF RenameTmp, At
    <3>2. Tmp[2][3] = Hidden /\ RenameTo[2][3] # Hidden
      BY <1>10, MoverLoc, RenameToShown DEF RenameTmp, At
    <3>. QED BY <3>1, <3>2
  <2>2. file' = [file EXCEPT ![RenameTo] = file[Tmp], ![Tmp] = Absent]
    BY <1>10 DEF RenameTmp
  <2>. QED BY <2>1, <2>2 DEF FileTyped, Shifts, Gets, Stays, HasNext, HasFile
<1>11. ASSUME OverwriteTimes, file' # file PROVE \A l \in Loc : Stays(l)
  <2>. PICK v, x : v = file[Target] /\ x = mover.f.time
    OBVIOUS
  <2>. PICK w : w = [v EXCEPT !.time = x]
    OBVIOUS
  <2>1. Target \in Loc /\ HasFile(Target) /\ v \in Inode /\ x \in Value
    <3>1. HasFile(Target) /\ Target \in Loc /\ mover.f \in FileRec
      BY <1>11, MoverLoc DEF OverwriteTimes, At
    <3>. QED BY <3>1, FileHere DEF FileRec
  <2>2. file' = [file EXCEPT ![Target] = w]
    BY <1>11 DEF OverwriteTimes
  <2>3. w \in Inode /\ w.data = v.data /\ w.sym = v.sym
    BY <2>1 DEF Inode
  <2>4. w # Absent
    BY <2>3, NotInode
  <2>. QED BY <2>1, <2>2, <2>3, <2>4, SetStays
<1>. QED BY FileSteps, <1>0, <1>1, <1>2, <1>3, <1>4, <1>5, <1>6, <1>7, <1>8, <1>9, <1>10, <1>11
        DEF FileRequest, FileWork, Effect, RequestEffect, WorkEffect, Makings
-----------------------------------------------------------------------------
(* Files stand in directories that exist; a directory rename takes a temporary or none *)

Housed == \A l \in Loc : HasFile(l) => HasDir(l[1], l[2][1])

LEMMA LocOf == ASSUME NEW l \in Loc PROVE l[1] \in Tier /\ l[2] \in Path /\ l[2][1] \in Dir /\ l = <<l[1], l[2]>>
BY PathOf DEF Loc

LEMMA DirThere == ASSUME NEW t, NEW d \in Dir PROVE HasDir(t, d) <=> dir[t][d] # Absent
BY Names DEF HasDir

LEMMA DirLater == ASSUME NEW CONSTANT t, NEW CONSTANT d \in Dir PROVE HasDir(t, d)' <=> dir'[t][d] # Absent
BY Names DEF HasDir

LEMMA DirKept ==
    ASSUME Typed, [Next]_vars, NEW t \in Tier, NEW d \in Dir, dir[t][d] # Absent
    PROVE  \/ dir'[t][d] # Absent
           \/ Rmdir /\ EmptyDir(t, d) /\ t = req.t /\ d = req.p
           \/ RenameDir /\ Carries(req.t, req.p, req.q) /\ t = req.t /\ d = req.p
<1>. USE DEF Typed
<1>1. CASE dir' = dir
  BY <1>1
<1>2. CASE Mkdir
  <2>1. dir' = [dir EXCEPT ![req.t][req.p] = IF @ = Absent THEN 0 ELSE @]
    BY <1>2 DEF Mkdir
  <2>. QED BY <2>1, Names DEF DirTyped, Value
<1>3. CASE SetDir
  <2>1. dir' = [dir EXCEPT ![req.t][req.p] = IF @ # Absent THEN 1 ELSE @]
    BY <1>3 DEF SetDir
  <2>. QED BY <2>1, Names DEF DirTyped, Value
<1>4. CASE Rmdir
  <2>. PICK ok : ok = (HasDir(req.t, req.p) /\ EmptyDir(req.t, req.p))
    OBVIOUS
  <2>1. dir' = [dir EXCEPT ![req.t][req.p] = IF ok THEN Absent ELSE @]
    BY <1>4 DEF Rmdir
  <2>2. CASE ok /\ t = req.t /\ d = req.p
    BY <1>4, <2>2
  <2>3. CASE ~(ok /\ t = req.t /\ d = req.p)
    BY <2>1, <2>3 DEF DirTyped
  <2>. QED BY <2>2, <2>3
<1>5. CASE RenameDir
  <2>1. CASE Carries(req.t, req.p, req.q) /\ dir' = [dir EXCEPT ![req.t][req.q] = dir[req.t][req.p], ![req.t][req.p] = Absent]
    <3>1. HasDir(req.t, req.p) /\ req.p \in Dir
      BY <1>5, <2>1, InDirChange DEF Carries, RenameDir, Calling, DirChanges
    <3>2. dir[req.t][req.p] # Absent
      BY <3>1, DirThere
    <3>. QED BY <1>5, <2>1, <3>2 DEF DirTyped
  <2>. QED BY <1>1, <1>5, <2>1, RenameDirEffect
<1>6. ASSUME NEW f, NEW u \in Tier, MoveFile(f, u) PROVE dir'[t][d] # Absent
  <2>1. PICK D : dir' = [dir EXCEPT ![u] = [x \in Dir |-> IF x \in D THEN Raw ELSE @[x]]]
    BY <1>6 DEF MoveFile
  <2>. QED BY <2>1, Names DEF DirTyped, Value
<1>. QED BY DirSteps, <1>1, <1>2, <1>3, <1>4, <1>5, <1>6 DEF DirRequest, DirWork

LEMMA HousedInit == Init => Housed
<1>. SUFFICES ASSUME Init, NEW l \in Loc, HasFile(l) PROVE HasDir(l[1], l[2][1])
  BY DEF Housed
<1>1. PICK D \in SUBSET Dir :
          dir = [t \in Tier |-> [d \in Dir |-> IF d \in D THEN 0 ELSE Absent]]
  BY DEF Init
<1>2. l[1] \in Tier /\ l[2][1] \in Dir /\ 1 \in Tier
  BY LocOf, Numbers
<1>3. HasDir(1, l[2][1])
  BY DEF Init, HasFile
<1>4. l[2][1] \in D
  BY <1>1, <1>2, <1>3, DirThere
<1>5. 0 # Absent
  BY Names DEF Value
<1>. QED BY <1>1, <1>2, <1>4, <1>5, DirThere

LEMMA HousedNext == Typed /\ Housed /\ [Next]_vars => Housed'
<1>. SUFFICES ASSUME Typed, Housed, [Next]_vars, NEW CONSTANT l \in Loc, HasNext(l) PROVE dir'[l[1]][l[2][1]] # Absent
  <2>1. \A x \in Loc : HasNext(x) <=> HasFile(x)'
    BY DEF HasNext, HasFile
  <2>2. \A x \in Loc : HasDir(x[1], x[2][1])' <=> dir'[x[1]][x[2][1]] # Absent
    BY DirLater, LocOf
  <2>3. Housed' <=> \A x \in Loc : HasFile(x)' => HasDir(x[1], x[2][1])'
    BY DEF Housed
  <2>. QED BY <2>1, <2>2, <2>3
<1>. USE DEF Typed
<1>0. l[1] \in Tier /\ l[2] \in Path /\ l[2][1] \in Dir /\ l = <<l[1], l[2]>>
  BY LocOf
\* The directory was there.
<1>1. ASSUME dir[l[1]][l[2][1]] # Absent, HasFile(l) \/ UNCHANGED dir PROVE dir'[l[1]][l[2][1]] # Absent
  <2>1. ~(EmptyDir(l[1], l[2][1]) /\ HasFile(l))
    BY <1>0 DEF EmptyDir, In
  <2>2. ~(Carries(req.t, req.p, req.q) /\ l[1] = req.t /\ l[2][1] = req.p)
    BY DEF Carries
  <2>. QED BY <1>0, <1>1, <2>1, <2>2, DirKept
<1>2. CASE HasFile(l)
  <2>1. dir[l[1]][l[2][1]] # Absent
    BY <1>0, <1>2, DirThere DEF Housed
  <2>. QED BY <1>1, <1>2, <2>1
<1>3. CASE ~HasFile(l)
  <2>0. ~Stays(l)
    BY <1>3 DEF Stays
  <2>1. CASE (Rename \/ Link) /\ l = There
    <3>1. HasDir(req.t, req.q[1]) /\ UNCHANGED dir
      BY <2>1 DEF Rename, Link
    <3>2. l[1] = req.t /\ l[2] = req.q
      BY <2>1 DEF There
    <3>. QED BY <1>0, <1>1, <3>1, <3>2, DirThere
  <2>2. ASSUME NEW op, NEW p \in Visible, Make(op, p), l = <<1, p>> PROVE dir'[l[1]][l[2][1]] # Absent
    <3>1. HasDir(1, p[1]) /\ UNCHANGED dir
      BY <2>2 DEF Make, SeesDir
    <3>. QED BY <1>0, <1>1, <2>2, <3>1, DirThere
  <2>3. CASE RenameDir /\ Carries(req.t, req.p, req.q)
    <3>. PICK d, e, t : d = req.p /\ e = req.q /\ t = req.t
      OBVIOUS
    <3>1. d \in Dir /\ e \in Dir /\ t \in Tier /\ d # e
      BY <2>3, InDirChange DEF RenameDir, Calling, DirChanges, ReqTyped
    <3>2. l[1] = t /\ l[2][1] = e
      BY <2>0, <2>3 DEF Carries
    <3>3. HasFile(<<t, Moved(l[2], d)>>)
      BY <2>3, <3>2 DEF Carries
    <3>4. HasDir(t, d) /\ dir[t][d] # Absent
      BY <2>3, <3>1, DirThere DEF Carries
    <3>5. file' # file
      BY <1>3 DEF HasNext, HasFile
    <3>6. dir' = [dir EXCEPT ![t][e] = dir[t][d], ![t][d] = Absent]
      BY <2>3, <3>5, RenameDirEffect
    <3>7. dir'[t][e] = dir[t][d]
      BY <3>1, <3>6 DEF DirTyped
    <3>. QED BY <3>2, <3>4, <3>7
  <2>4. CASE Copy /\ l = Tmp
    <3>1. HasDir(mover.t, mover.f.name[1]) /\ UNCHANGED dir
      BY <2>4 DEF Copy
    <3>2. l[1] = mover.t /\ l[2][1] = mover.f.name[1]
      BY <2>4, TmpOf DEF Copy, At
    <3>. QED BY <1>0, <1>1, <3>1, <3>2, DirThere
  <2>5. CASE RenameTmp /\ l = RenameTo
    <3>1. HasFile(Tmp) /\ UNCHANGED dir /\ Tmp \in Loc
      BY <2>5, MoverLoc DEF RenameTmp, At
    <3>2. l[1] = Tmp[1] /\ l[2][1] = Tmp[2][1]
      BY <2>5, TmpOf, RenameToShown DEF RenameTmp, At
    <3>3. HasDir(Tmp[1], Tmp[2][1])
      BY <3>1 DEF Housed
    <3>. QED BY <1>0, <1>1, <3>1, <3>2, <3>3, DirThere
  <2>. QED BY Steps, <2>0, <2>1, <2>2, <2>3, <2>4, <2>5
           DEF Effect, RequestEffect, WorkEffect, Erased, Shifts, Copies, Makes
<1>. QED BY <1>2, <1>3
-----------------------------------------------------------------------------
(* The mover's way *)

\* The mover goes from one place to another with the file and the destination it has.
Going(from, to) == mover.pc = from /\ mover'.pc = to /\ mover'.f = mover.f /\ mover'.t = mover.t
Sure == mover'.clash = mover.clash
MoverStep == \/ Copy /\ Going("copy", "copied") /\ Sure
             \/ CopyMode /\ Going("copied", "remove") /\ Sure
             \/ Remove /\ Going("remove", "removed") /\ Sure
             \/ TestExists /\ Going("removed", "tested") /\ mover'.clash = HasFile(Target)
             \/ RenameTmp /\ Going("tested", "renamed") /\ Sure
             \/ Record /\ Going("renamed", "times") /\ Sure
             \/ OverwriteTimes /\ Going("times", "change") /\ Sure
MoverBegins == \E f \in files, t \in Tier : MoveFile(f, t) /\ mover'.pc = "copy" /\ mover'.f = f /\ mover'.t = t
MoverStops == mover'.pc = "idle" /\ mover' = NoMove /\ (UNCHANGED past \/ OverwriteTimes \/ ChangePath \/ Die)

LEMMA AtPc ==
    ASSUME WorkTyped
    PROVE  /\ Copy => mover.pc = "copy" /\ mover'.pc = "copied"
           /\ Remove => mover.pc = "remove" /\ mover'.pc = "removed"
           /\ RenameTmp => mover.pc = "tested" /\ mover'.pc = "renamed"
<1>. PICK m : m = mover
  OBVIOUS
<1>0. m \in MoverRec
  BY DEF WorkTyped
<1>1. ASSUME NEW to \in MoverPC, mover' = [m EXCEPT !.pc = to] PROVE mover'.pc = to
  BY <1>0, <1>1 DEF MoverRec
<1>2. ASSUME Copy PROVE mover.pc = "copy" /\ mover'.pc = "copied"
  BY <1>1, <1>2 DEF Copy, At, MoveTo, MoverPC
<1>3. ASSUME Remove PROVE mover.pc = "remove" /\ mover'.pc = "removed"
  BY <1>1, <1>3 DEF Remove, At, MoveTo, MoverPC
<1>4. ASSUME RenameTmp PROVE mover.pc = "tested" /\ mover'.pc = "renamed"
  BY <1>1, <1>4 DEF RenameTmp, At, MoveTo, MoverPC
<1>. QED BY <1>2, <1>3, <1>4

LEMMA MoverNext ==
    ASSUME Typed, [Next]_vars
    PROVE  mover' = mover \/ MoverStops \/ MoverBegins \/ MoverStep
<1>. USE DEF Typed
<1>. PICK m : m = mover
  OBVIOUS
<1>0. m \in MoverRec
  BY DEF WorkTyped
<1>1. ASSUME NEW to \in MoverPC, mover' = [m EXCEPT !.pc = to]
      PROVE  mover'.pc = to /\ mover'.f = m.f /\ mover'.t = m.t /\ mover'.clash = m.clash
  BY <1>0, <1>1 DEF MoverRec
<1>2. CASE Copy \/ CopyMode \/ Remove \/ RenameTmp \/ Record
  <2>1. CASE Copy
    BY <1>1, <2>1 DEF Copy, At, MoveTo, MoverPC, MoverStep, Going, Sure
  <2>2. CASE CopyMode
    BY <1>1, <2>2 DEF CopyMode, At, MoveTo, MoverPC, MoverStep, Going, Sure
  <2>3. CASE Remove
    BY <1>1, <2>3 DEF Remove, At, MoveTo, MoverPC, MoverStep, Going, Sure
  <2>4. CASE RenameTmp
    BY <1>1, <2>4 DEF RenameTmp, At, MoveTo, MoverPC, MoverStep, Going, Sure
  <2>5. CASE Record
    BY <1>1, <2>5 DEF Record, At, MoveTo, MoverPC, MoverStep, Going, Sure
  <2>. QED BY <1>2, <2>1, <2>2, <2>3, <2>4, <2>5
<1>3. CASE TestExists
  <2>. PICK c : c = HasFile(Target)
    OBVIOUS
  <2>1. mover' = [m EXCEPT !.pc = "tested", !.clash = c] /\ m.pc = "removed"
    BY <1>3 DEF TestExists, At
  <2>2. mover'.pc = "tested" /\ mover'.f = m.f /\ mover'.t = m.t /\ mover'.clash = c
    BY <1>0, <2>1 DEF MoverRec
  <2>. QED BY <1>3, <2>1, <2>2 DEF MoverStep, Going
<1>4. CASE OverwriteTimes
  <2>1. mover' = NoMove \/ mover' = [m EXCEPT !.pc = "change"]
    BY <1>4 DEF OverwriteTimes, MoveTo
  <2>2. mover.pc = "times"
    BY <1>4 DEF OverwriteTimes, At
  <2>. QED BY <1>1, <1>4, <2>1, <2>2 DEF MoverPC, MoverStep, Going, Sure, MoverStops, NoMove
<1>5. CASE CopyFail \/ ChangePath \/ Die
  BY <1>5 DEF CopyFail, ChangePath, Die, MoverStops, NoMove
<1>6. ASSUME NEW f \in files, NEW t \in Tier, MoveFile(f, t) PROVE MoverBegins
  BY <1>6 DEF MoveFile, MoverBegins
<1>7. CASE Request
  BY <1>7 DEF Request, worker
<1>8. CASE StartPass \/ Crawl \/ Join \/ UpdateDb \/ EndPass
  BY <1>8 DEF StartPass, Crawl, Join, UpdateDb, EndPass
<1>. QED BY <1>2, <1>3, <1>4, <1>5, <1>6, <1>7, <1>8 DEF Next, Worker, Restart, vars

\* While the mover stays with its file, so do its places.
LEMMA SamePlaces ==
    ASSUME mover'.f = mover.f, mover'.t = mover.t
    PROVE  Tmp' = Tmp /\ Source' = Source /\ Target' = Target /\ ConflictName' = ConflictName
BY DEF Tmp, Source, Target, ConflictName

LEMMA LaterFile == ASSUME NEW CONSTANT l PROVE HasFile(l)' <=> HasNext(l)
BY DEF HasFile, HasNext

\* The temporary of a move is where the mover left it, unless its directory was renamed.
Guarded == Working({"copied", "remove", "removed", "tested"}) => HasFile(Tmp) \/ past.carried

\* A directory rename moves every file below the directory, and finds none below the new name.
LEMMA CarriedTo ==
    ASSUME Typed, Housed, RenameDir, Carries(req.t, req.p, req.q), NEW l \in Loc, HasFile(l), ~Stays(l)
    PROVE  /\ l[1] = req.t /\ l[2][1] = req.p
           /\ <<l[1], Moved(l[2], req.q)>> \in Loc /\ Moved(l[2], req.q)[3] = l[2][3]
           /\ Gets(<<l[1], Moved(l[2], req.q)>>, l)
<1>. USE DEF Typed
<1>0. l[1] \in Tier /\ l[2] \in Path /\ l[2][1] \in Dir /\ l = <<l[1], l[2]>>
  BY LocOf
<1>. PICK d, e, t : d = req.p /\ e = req.q /\ t = req.t
  OBVIOUS
<1>1. d \in Dir /\ e \in Dir /\ t \in Tier /\ d # e
  BY InDirChange DEF RenameDir, Calling, DirChanges, ReqTyped
<1>2. l[1] = t /\ (l[2][1] = d \/ l[2][1] = e)
  BY DEF Carries
<1>3. l[2][1] # e
  <2>1. HasDir(l[1], l[2][1])
    BY DEF Housed
  <2>2. ~EmptyDir(l[1], l[2][1])
    BY <1>0 DEF EmptyDir, In
  <2>. QED BY <1>2, <2>1, <2>2 DEF Carries
<1>. PICK k : k = <<t, Moved(l[2], e)>>
  OBVIOUS
<1>4. k \in Loc /\ k[1] = t /\ k[2][1] = e /\ Moved(k[2], d) = l[2] /\ Moved(l[2], e)[3] = l[2][3]
  BY <1>0, <1>1, <1>2, <1>3, MovedPath DEF Loc
<1>5. <<t, Moved(k[2], d)>> = l
  BY <1>0, <1>2, <1>4
<1>6. Gets(k, l)
  BY <1>4, <1>5 DEF Carries
<1>. QED BY <1>2, <1>3, <1>4, <1>6

\* What has the name of a temporary stays where it is, but for the mover's renaming and a
\* renamed directory.
LEMMA HiddenStays ==
    ASSUME Typed, Housed, [Next]_vars, NEW l \in Loc, l[2][3] = Hidden, HasFile(l)
    PROVE  \/ HasNext(l) /\ Stays(l)
           \/ RenameTmp /\ l = Tmp
           \/ /\ RenameDir /\ Carries(req.t, req.p, req.q) /\ UNCHANGED worker
              /\ l[1] = req.t /\ l[2][1] = req.p
              /\ <<l[1], Moved(l[2], req.q)>> \in Loc /\ Moved(l[2], req.q)[3] = Hidden
              /\ Gets(<<l[1], Moved(l[2], req.q)>>, l)
<1>. USE DEF Typed
<1>0. l[1] \in Tier /\ l[2] \in Path /\ l[2][1] \in Dir /\ l = <<l[1], l[2]>> /\ l[2] \notin Visible
  BY LocOf, Names DEF Visible
<1>1. CASE \A x \in Loc : Stays(x)
  BY <1>1 DEF Stays
<1>2. CASE (Unlink /\ Erased(Here)) \/ (Rename /\ Shifts(Here, There)) \/ (Link /\ Copies(Here, There))
  <2>1. Here # l /\ There # l
    <3>1. req.op \in FileOps
      BY <1>2 DEF Unlink, Rename, Link, Calling, FileOps
    <3>. QED BY <1>0, <3>1, HereLoc
  <2>2. Stays(l)
    BY <1>2, <2>1 DEF Erased, Shifts, Copies
  <2>. QED BY <2>2 DEF Stays
<1>3. CASE RenameDir /\ Carries(req.t, req.p, req.q) /\ UNCHANGED worker
  <2>1. CASE Stays(l)
    BY <2>1 DEF Stays
  <2>2. CASE ~Stays(l)
    BY <1>0, <1>3, <2>2, CarriedTo
  <2>. QED BY <2>1, <2>2
<1>4. CASE \E op \in Makings, p \in Visible : Make(op, p) /\ Makes(<<1, p>>)
  <2>1. PICK p \in Visible : Makes(<<1, p>>)
    BY <1>4
  <2>2. <<1, p>> # l
    BY <1>0
  <2>3. Stays(l)
    BY <2>1, <2>2 DEF Makes
  <2>. QED BY <2>3 DEF Stays
<1>5. CASE Remove /\ Erased(Source)
  <2>1. Source # l
    BY <1>0, <1>5, MoverLoc DEF Remove, At
  <2>2. Stays(l)
    BY <1>5, <2>1 DEF Erased
  <2>. QED BY <2>2 DEF Stays
<1>6. CASE RenameTmp /\ Shifts(Tmp, RenameTo)
  <2>1. RenameTo # l
    BY <1>6, RenameToShown DEF RenameTmp, At
  <2>2. l = Tmp \/ Stays(l)
    BY <1>6, <2>1 DEF Shifts
  <2>. QED BY <1>6, <2>2 DEF Stays
<1>7. CASE Copy /\ Copies(Source, Tmp)
  <2>1. l # Tmp
    BY <1>7 DEF Copy
  <2>2. Stays(l)
    BY <1>7, <2>1 DEF Copies
  <2>. QED BY <2>2 DEF Stays
<1>. QED BY Steps, <1>1, <1>2, <1>3, <1>4, <1>5, <1>6, <1>7 DEF Effect, RequestEffect, WorkEffect

LEMMA CarriedNow ==
    ASSUME Typed, RenameDir, Carries(req.t, req.p, req.q), ~Working({"idle", "copy"}),
           Tmp[1] = req.t, Tmp[2][1] = req.p
    PROVE  past'.carried
<1>. USE DEF Typed
<1>. PICK h : h = past
  OBVIOUS
<1>1. h \in PastRec
  BY DEF PastTyped
<1>2. \E ok, after : Turn(ok, after) /\ ok
  BY DEF RenameDir, Carries
<1>3. PICK ok, after : Turn(ok, after) /\ ok
  BY <1>2
<1>4. req.op = "renamedir"
  BY DEF RenameDir, Calling
<1>. PICK C : C = (/\ ok /\ req.op = "renamedir" /\ ~Working({"idle", "copy"}) /\ Tmp[1] = req.t
                   /\ Tmp[2][1] = req.p)
  OBVIOUS
<1>5. \E A, B, D, E : past' = [h EXCEPT !.torn = @ \cup A, !.stale = @ \cup B, !.carried = @ \/ C, !.late = D, !.hit = @ \cup E]
  BY <1>3 DEF Turn
<1>6. past'.carried = (h.carried \/ C)
  BY <1>1, <1>5 DEF PastRec
<1>. QED BY <1>3, <1>4, <1>6

LEMMA GuardedNext == Typed /\ Housed /\ Guarded /\ [Next]_vars => Guarded'
<1>. SUFFICES ASSUME Typed, Housed, Guarded, [Next]_vars, mover'.pc \in {"copied", "remove", "removed", "tested"},
                     ~past'.carried
              PROVE  HasFile(Tmp)'
  BY DEF Guarded, Working
<1>0. ~past.carried
  BY PastNext DEF PastFine, Grows
<1>1. ~RenameTmp
  BY AtPc DEF Typed
<1>2. Tmp' = Tmp /\ (mover.pc \in {"copied", "remove", "removed", "tested"} \/ Copy)
  <2>1. CASE mover' = mover
    BY <2>1, SamePlaces
  <2>2. CASE MoverStep
    <3>1. Tmp' = Tmp
      BY <2>2, SamePlaces DEF MoverStep, Going
    <3>. QED BY <2>2, <3>1 DEF MoverStep, Going
  <2>. QED BY MoverNext, <2>1, <2>2 DEF MoverBegins, MoverStops
<1>3. SUFFICES HasNext(Tmp)
  BY <1>2, LaterFile DEF HasFile, HasNext
<1>4. CASE Copy
  BY <1>4, CopyEffect DEF Copies, Gets
<1>5. CASE mover.pc \in {"copied", "remove", "removed", "tested"}
  <2>1. HasFile(Tmp) /\ Tmp \in Loc /\ Tmp[2][3] = Hidden
    BY <1>0, <1>5, MoverLoc DEF Guarded, Working, Typed
  <2>2. ~(RenameDir /\ Carries(req.t, req.p, req.q) /\ Tmp[1] = req.t /\ Tmp[2][1] = req.p)
    BY <1>5, CarriedNow DEF Working
  <2>. QED BY <1>1, <2>1, <2>2, HiddenStays
<1>. QED BY <1>2, <1>4, <1>5

LEMMA GuardedInit == Init => Guarded
BY DEF Init, Guarded, Working, NoMove

\* Between the removal of the source and the renaming of the temporary, the only copy of the
\* file stays under the temporary's name, unless the directory is renamed.
THEOREM TemporaryStaysAlways == Spec => []TemporaryStays
<1>1. Guarded => TemporaryStays
  BY DEF Guarded, TemporaryStays, At, Working
<1>. QED BY <1>1, TypedInit, TypedNext, HousedInit, HousedNext, GuardedInit, GuardedNext, PTL DEF Spec
-----------------------------------------------------------------------------
(* No file is lost *)

Numbered == \A l \in Loc : HasFile(l) => file[l].data \in 1 .. made
\* Before the mover removes the source, a temporary has its data; it replaces no file that
\* it has not found there.
SourceSafe == Working({"copied", "remove"}) /\ HasFile(Source) =>
    \/ file[Source].data \in past.hit
    \/ \E l \in Loc : l[2][3] = Hidden /\ HasFile(l) /\ file[l].data = file[Source].data
TargetSafe == Working({"tested"}) /\ ~mover.clash /\ HasFile(Target) => file[Target].data \in past.hit

KeptInv == Housed /\ Numbered /\ SourceSafe /\ TargetSafe /\ FilesKept

LEMMA KeptInit == Init => Numbered /\ SourceSafe /\ TargetSafe /\ FilesKept
<1>. SUFFICES ASSUME Init PROVE Numbered /\ SourceSafe /\ TargetSafe /\ FilesKept
  OBVIOUS
<1>1. PICK S \in SUBSET {p \in Visible : HasDir(1, p[1])} :
        /\ Cardinality(S) <= OldFiles /\ made = Cardinality(S)
        /\ \E where \in [S -> Tier], id \in [S -> 1 .. Cardinality(S)] :
            /\ \A p, q \in S : id[p] = id[q] => p = q
            /\ file = [l \in Loc |-> IF l[2] \in S /\ where[l[2]] = l[1]
                                     THEN NewFile(id[l[2]], FALSE) ELSE Absent]
            /\ db = [p \in Path |-> IF p \in S THEN where[p] ELSE Absent]
  BY DEF Init
<1>2. PICK where \in [S -> Tier], id \in [S -> 1 .. Cardinality(S)] :
            /\ \A p, q \in S : id[p] = id[q] => p = q
            /\ file = [l \in Loc |-> IF l[2] \in S /\ where[l[2]] = l[1]
                                     THEN NewFile(id[l[2]], FALSE) ELSE Absent]
  BY <1>1
<1>3. S \subseteq Visible /\ IsFiniteSet(S) /\ Cardinality(S) \in Nat
  BY OldFinite, FS_CardinalityType
<1>4. Numbered
  BY <1>1, <1>2 DEF Numbered, HasFile, NewFile
<1>5. FilesKept
  <2>1. ASSUME NEW i \in 1 .. made PROVE \E l \in Loc : i \in Data(l)
    <3>1. \E p \in S : id[p] = i
      <4>1. id \in Injection(S, 1 .. Cardinality(S))
        BY <1>2 DEF Injection, IsInjective
      <4>2. IsFiniteSet(1 .. Cardinality(S)) /\ Cardinality(1 .. Cardinality(S)) = Cardinality(S)
        BY <1>3, FS_Interval
      <4>3. id \in Surjection(S, 1 .. Cardinality(S))
        BY <1>3, <4>1, <4>2, FS_Surjection, FS_Injection
      <4>. QED BY <1>1, <4>3 DEF Surjection
    <3>2. PICK p \in S : id[p] = i
      BY <3>1
    <3>3. <<where[p], p>> \in Loc
      BY <1>2, <1>3 DEF Loc, Visible
    <3>4. file[<<where[p], p>>] = NewFile(i, FALSE)
      BY <1>2, <3>2, <3>3
    <3>5. NewFile(i, FALSE) # Absent /\ NewFile(i, FALSE).data = i
      <4>1. NewFile(i, FALSE) \in Inode
        BY <1>1, <1>3, Numbers DEF NewFile, Inode, Value
      <4>. QED BY <4>1, NotInode DEF NewFile
    <3>. QED BY <3>3, <3>4, <3>5 DEF Data, HasFile
  <2>. QED BY <2>1 DEF FilesKept
<1>6. SourceSafe /\ TargetSafe
  BY DEF Init, SourceSafe, TargetSafe, Working, NoMove
<1>. QED BY <1>4, <1>5, <1>6

\* What the steps add to the sets of unlinked and hit files.
LEMMA Recorded ==
    ASSUME Typed
    PROVE  /\ Unlink => Lost(Here) \subseteq past'.gone
           /\ Rename => Lost(There) \subseteq past'.gone /\ InPlace(There, Data(Here)) \subseteq past'.hit
           /\ Link => InPlace(There, Data(Here)) \subseteq past'.hit
           /\ \A op, p : Make(op, p) => Data(<<1, p>>) \subseteq past'.hit /\ InPlace(<<1, p>>, {made + 1}) \subseteq past'.hit
           /\ RenameDir /\ Carries(req.t, req.p, req.q) =>
                 \A p \in In(req.q) : InPlace(<<req.t, p>>, Data(<<req.t, Moved(p, req.p)>>)) \subseteq past'.hit
           /\ RenameTmp /\ mover.clash => Data(<<mover.t, ConflictName>>) \subseteq past'.hit
<1>. PICK h : h = past
  OBVIOUS
<1>0. h \in PastRec
  BY DEF Typed, PastTyped
<1>1. ASSUME Unlink PROVE Lost(Here) \subseteq past'.gone
  <2>1. \E B, C : past' = [h EXCEPT !.gone = @ \cup Lost(Here), !.stale = @ \cup B, !.late = C]
    BY <1>1 DEF Unlink
  <2>. QED BY <1>0, <2>1 DEF PastRec
<1>2. ASSUME Rename PROVE Lost(There) \subseteq past'.gone /\ InPlace(There, Data(Here)) \subseteq past'.hit
  <2>1. \E C, D, E : past' = [h EXCEPT !.gone = @ \cup Lost(There), !.hit = @ \cup InPlace(There, Data(Here)),
                                       !.shadowed = @ \cup C, !.stale = @ \cup D, !.late = E]
    BY <1>2 DEF Rename
  <2>2. past'.gone = h.gone \cup Lost(There) /\ past'.hit = h.hit \cup InPlace(There, Data(Here))
    BY <1>0, <2>1 DEF PastRec
  <2>. QED BY <2>2
<1>3. ASSUME Link PROVE InPlace(There, Data(Here)) \subseteq past'.hit
  <2>1. \E A, B, C, D : past' = [h EXCEPT !.fresh = @ \cup A, !.stale = @ \cup B, !.shadowed = @ \cup C,
                                       !.hit = @ \cup InPlace(There, Data(Here)), !.late = D]
    BY <1>3 DEF Link
  <2>2. past'.hit = h.hit \cup InPlace(There, Data(Here))
    BY <1>0, <2>1 DEF PastRec
  <2>. QED BY <2>2
<1>4. ASSUME NEW op, NEW p, Make(op, p)
      PROVE  Data(<<1, p>>) \subseteq past'.hit /\ InPlace(<<1, p>>, {made + 1}) \subseteq past'.hit
  <2>1. \E F, C, D, E : past' = [h EXCEPT !.hit = @ \cup Data(<<1, p>>) \cup InPlace(<<1, p>>, {made + 1}),
                                       !.fresh = F, !.shadowed = @ \cup C, !.stale = @ \cup D, !.late = E]
    BY <1>4 DEF Make
  <2>2. past'.hit = h.hit \cup Data(<<1, p>>) \cup InPlace(<<1, p>>, {made + 1})
    BY <1>0, <2>1 DEF PastRec
  <2>. QED BY <2>2
<1>5. ASSUME RenameDir, Carries(req.t, req.p, req.q), NEW p \in In(req.q)
      PROVE  InPlace(<<req.t, p>>, Data(<<req.t, Moved(p, req.p)>>)) \subseteq past'.hit
  <2>. PICK X : X = UNION {InPlace(<<req.t, x>>, Data(<<req.t, Moved(x, req.p)>>)) : x \in In(req.q)}
    OBVIOUS
  <2>1. \E ok, after : Turn(ok, after) /\ ok
    BY <1>5 DEF RenameDir, Carries
  <2>2. PICK ok, after : Turn(ok, after) /\ ok /\ req.op = "renamedir"
    BY <1>5, <2>1 DEF RenameDir, Calling
  <2>3. \E A, B, C, D : past' = [h EXCEPT !.torn = @ \cup A, !.stale = @ \cup B, !.carried = @ \/ C, !.late = D, !.hit = @ \cup X]
    BY <2>2 DEF Turn
  <2>4. past'.hit = h.hit \cup X
    BY <1>0, <2>3 DEF PastRec
  <2>. QED BY <2>4
<1>6. ASSUME RenameTmp, mover.clash PROVE Data(<<mover.t, ConflictName>>) \subseteq past'.hit
  <2>1. \E B : past' = [h EXCEPT !.hit = @ \cup Data(<<mover.t, ConflictName>>), !.late = B]
    BY <1>6 DEF RenameTmp
  <2>. QED BY <1>0, <2>1 DEF PastRec
<1>. QED BY <1>1, <1>2, <1>3, <1>4, <1>5, <1>6

LEMMA MadeNext ==
    ASSUME [Next]_vars
    PROVE  made' = made \/ (made' = made + 1 /\ \E op \in Makings, p \in Visible : Make(op, p))
<1>1. CASE Request
  <2>1. CASE \E op \in Makings, p \in Visible : Make(op, p)
    BY <2>1 DEF Make
  <2>2. CASE ~\E op \in Makings, p \in Visible : Make(op, p)
    <3>1. ASSUME NEW op, NEW p, NEW q, Lookup(op, p, q) PROVE made' = made
      BY <3>1 DEF Lookup
    <3>2. ASSUME NEW op, NEW p, NEW q, BeginDir(op, p, q) PROVE made' = made
      BY <3>2 DEF BeginDir
    <3>3. ASSUME NEW k, Set(k) PROVE made' = made
      BY <3>3 DEF Set, counts
    <3>4. ASSUME NEW ok, NEW after, Turn(ok, after) PROVE made' = made
      BY <3>4 DEF Turn, counts
    <3>5. CASE Mkdir \/ Rmdir \/ SetDir \/ RenameDir
      BY <3>4, <3>5 DEF Mkdir, Rmdir, SetDir, RenameDir
    <3>6. CASE CallFails \/ Stat \/ Unlink \/ UnlinkEntry \/ Rename \/ RenameEntry \/ Link \/ CreateEntry
               \/ RenameKeys
      BY <3>6 DEF CallFails, Stat, Unlink, UnlinkEntry, Rename, RenameEntry, Link, CreateEntry,
                  RenameKeys, counts
    <3>. QED BY <1>1, <2>2, <3>1, <3>2, <3>3, <3>5, <3>6
             DEF Request, Makings, Access, Readlink, Lseek, Getxattr, Listxattr,
                 Truncate, Chmod, Chown, Setxattr, Removexattr, Utimens
  <2>. QED BY <2>1, <2>2
<1>2. CASE Worker \/ Restart \/ UNCHANGED vars
  BY <1>2 DEF Worker, Restart, vars, counts
<1>. QED BY <1>1, <1>2 DEF Next

\* Whatever the mover finds where it reads or writes was there, or counts as hit.
LEMMA Arrives ==
    ASSUME Typed, [Next]_vars, mover.pc # "idle", NEW l \in {Source, Target}, HasNext(l)
    PROVE  (HasFile(l) /\ Stays(l)) \/ file'[l].data \in past'.hit \/ RenameTmp
<1>. USE DEF Typed
<1>0. l \in Loc /\ Source = mover.f.at /\ Target = <<mover.t, mover.f.name>> /\ l[2] \in Visible /\ l # Tmp
  <2>1. Source \in Loc /\ Target \in Loc /\ Source[2] \in Visible /\ Target[2] \in Visible /\ Tmp[2] \notin Visible
    BY MoverLoc, Names DEF Visible
  <2>. QED BY <2>1 DEF Source, Target
<1>1. ASSUME NEW I, NEW i \in I, InPlace(l, I) \subseteq past'.hit PROVE i \in past'.hit
  BY <1>0, <1>1 DEF InPlace, Working
<1>2. CASE Stays(l)
  BY <1>2 DEF Stays
<1>3. CASE ~Stays(l)
  <2>1. CASE (Unlink /\ Erased(Here)) \/ (Remove /\ Erased(Source))
    BY <1>0, <1>3, <2>1 DEF Erased
  <2>2. CASE (Rename /\ Shifts(Here, There)) \/ (Link /\ Copies(Here, There))
    <3>1. l = There /\ Gets(There, Here)
      BY <1>0, <1>3, <2>2 DEF Shifts, Copies
    <3>2. file[Here].data \in Data(Here) /\ file'[l].data = file[Here].data
      BY <3>1 DEF Data, Gets
    <3>3. InPlace(l, Data(Here)) \subseteq past'.hit
      BY <2>2, <3>1, Recorded
    <3>. QED BY <1>1, <3>2, <3>3
  <2>3. CASE RenameDir /\ Carries(req.t, req.p, req.q)
    <3>. PICK d, e, t : d = req.p /\ e = req.q /\ t = req.t
      OBVIOUS
    <3>. PICK k : k = <<t, Moved(l[2], d)>>
      OBVIOUS
    <3>1. l[1] = t /\ l[2][1] = e
      BY <1>0, <1>3, <2>3 DEF Carries
    <3>2. HasFile(k) /\ file'[l].data = file[k].data
      BY <1>0, <2>3, <3>1 DEF Carries, Gets
    <3>3. l = <<t, l[2]>> /\ l[2] \in In(e)
      BY <1>0, <3>1, LocOf DEF In
    <3>4. InPlace(<<t, l[2]>>, Data(k)) \subseteq past'.hit
      BY <2>3, <3>3, Recorded
    <3>5. file[k].data \in Data(k)
      BY <3>2 DEF Data
    <3>. QED BY <1>1, <3>2, <3>3, <3>4, <3>5
  <2>4. ASSUME NEW op \in Makings, NEW p \in Visible, Make(op, p), Makes(<<1, p>>) PROVE file'[l].data \in past'.hit
    <3>1. l = <<1, p>> /\ file'[l].data = made + 1
      BY <1>0, <1>3, <2>4 DEF Makes
    <3>2. InPlace(l, {made + 1}) \subseteq past'.hit
      BY <2>4, <3>1, Recorded
    <3>. QED BY <1>1, <3>1, <3>2
  <2>5. ~(Copy /\ Copies(Source, Tmp))
    BY <1>0, <1>3 DEF Copies
  <2>. QED BY <1>0, <1>3, <2>1, <2>2, <2>3, <2>4, <2>5, Steps DEF Effect, RequestEffect, WorkEffect
<1>. QED BY <1>2, <1>3

LEMMA NumberedNext == Typed /\ Numbered /\ [Next]_vars => Numbered'
<1>. SUFFICES ASSUME Typed, Numbered, [Next]_vars, NEW CONSTANT l \in Loc, HasNext(l) PROVE file'[l].data \in 1 .. made'
  BY DEF Numbered, HasFile, HasNext
<1>. USE DEF Typed
<1>0. made \in Nat /\ made' \in Nat /\ made' >= made
  BY MadeNext, Numbers DEF CountsTyped
<1>1. ASSUME NEW k \in Loc, HasFile(k), file'[l].data = file[k].data PROVE file'[l].data \in 1 .. made'
  <2>1. file[k].data \in 1 .. made
    BY <1>1 DEF Numbered
  <2>. QED BY <1>0, <1>1, <2>1
<1>2. CASE Stays(l)
  BY <1>1, <1>2 DEF Stays
<1>3. ASSUME NEW op \in Makings, NEW p \in Visible, Make(op, p), Makes(<<1, p>>), l = <<1, p>>
      PROVE  file'[l].data \in 1 .. made'
  BY <1>0, <1>3 DEF Makes, Make
<1>4. CASE (Rename /\ Shifts(Here, There)) \/ (Link /\ Copies(Here, There))
  <2>1. Here \in Loc
    BY <1>4, HereLoc DEF Rename, Link, Calling, FileOps
  <2>. QED BY <1>1, <1>2, <1>4, <2>1 DEF Shifts, Copies, Gets
<1>5. CASE (RenameTmp /\ Shifts(Tmp, RenameTo)) \/ (Copy /\ Copies(Source, Tmp))
  <2>1. Tmp \in Loc /\ Source \in Loc
    BY <1>5, MoverLoc DEF RenameTmp, Copy, At
  <2>. QED BY <1>1, <1>2, <1>5, <2>1 DEF Shifts, Copies, Gets
<1>6. CASE RenameDir /\ Carries(req.t, req.p, req.q)
  <2>. PICK d, e, t : d = req.p /\ e = req.q /\ t = req.t
    OBVIOUS
  <2>1. d \in Dir /\ t \in Tier
    BY <1>6, InDirChange DEF RenameDir, Calling, DirChanges
  <2>2. <<t, Moved(l[2], d)>> \in Loc
    BY <2>1, LocOf, MovedPath DEF Loc
  <2>3. Stays(l) \/ (l[1] = t /\ l[2][1] = e)
    BY <1>6 DEF Carries
  <2>4. CASE l[1] = t /\ l[2][1] = e
    BY <1>1, <1>6, <2>2, <2>4 DEF Carries, Gets
  <2>. QED BY <1>2, <2>3, <2>4
<1>7. CASE (Unlink /\ Erased(Here)) \/ (Remove /\ Erased(Source))
  BY <1>2, <1>7 DEF Erased
<1>8. CASE \E op \in Makings, p \in Visible : Make(op, p) /\ Makes(<<1, p>>)
  BY <1>2, <1>3, <1>8 DEF Makes
<1>. QED BY <1>2, <1>4, <1>5, <1>6, <1>7, <1>8, Steps DEF Effect, RequestEffect, WorkEffect

LEMMA SourceSafeNext == Typed /\ Housed /\ SourceSafe /\ [Next]_vars => SourceSafe'
<1>. SUFFICES ASSUME Typed, Housed, SourceSafe, [Next]_vars, mover'.pc \in {"copied", "remove"}, HasFile(Source)'
              PROVE  \/ file'[Source'].data \in past'.hit
                     \/ \E l \in Loc : l[2][3] = Hidden /\ HasNext(l) /\ file'[l].data = file'[Source'].data
  BY DEF SourceSafe, Working, HasFile, HasNext
<1>. USE DEF Typed
<1>1. ~RenameTmp /\ ~Remove
  BY AtPc
<1>2. Source' = Source /\ (mover.pc \in {"copied", "remove"} \/ Copy)
  <2>1. CASE mover' = mover
    BY <2>1, SamePlaces
  <2>2. CASE MoverStep
    <3>1. Source' = Source
      BY <2>2, SamePlaces DEF MoverStep, Going
    <3>. QED BY <2>2, <3>1 DEF MoverStep, Going
  <2>. QED BY MoverNext, <2>1, <2>2 DEF MoverBegins, MoverStops
<1>3. HasNext(Source)
  BY <1>2 DEF HasFile, HasNext
<1>4. CASE Copy
  <2>1. Source \in Loc /\ Tmp \in Loc /\ Tmp[2][3] = Hidden /\ Source # Tmp
    BY <1>4, MoverLoc DEF Copy, At
  <2>2. Gets(Tmp, Source) /\ Stays(Source)
    BY <1>4, <2>1, CopyEffect DEF Copies
  <2>3. HasNext(Tmp) /\ file'[Tmp].data = file'[Source].data
    BY <2>2 DEF Gets, Stays
  <2>. QED BY <1>2, <2>1, <2>3
<1>5. CASE mover.pc \in {"copied", "remove"}
  <2>1. CASE file'[Source].data \in past'.hit
    BY <1>2, <2>1
  <2>2. CASE HasFile(Source) /\ Stays(Source)
    <3>1. file'[Source].data = file[Source].data
      BY <2>2 DEF Stays
    <3>2. CASE file[Source].data \in past.hit
      BY <1>2, <3>1, <3>2, PastNext DEF PastFine, Grows
    <3>3. ASSUME NEW l \in Loc, l[2][3] = Hidden, HasFile(l), file[l].data = file[Source].data
          PROVE  \E k \in Loc : k[2][3] = Hidden /\ HasNext(k) /\ file'[k].data = file'[Source].data
      <4>1. CASE HasNext(l) /\ Stays(l)
        BY <3>1, <3>3, <4>1 DEF Stays
      <4>2. CASE <<l[1], Moved(l[2], req.q)>> \in Loc /\ Moved(l[2], req.q)[3] = Hidden
                 /\ Gets(<<l[1], Moved(l[2], req.q)>>, l)
        <5>. PICK k : k = <<l[1], Moved(l[2], req.q)>>
          OBVIOUS
        <5>1. k \in Loc /\ k[2][3] = Hidden /\ HasNext(k) /\ file'[k].data = file[l].data
          BY <4>2 DEF Gets
        <5>. QED BY <3>1, <3>3, <5>1
      <4>. QED BY <1>1, <3>3, <4>1, <4>2, HiddenStays
    <3>. QED BY <1>2, <1>5, <2>2, <3>2, <3>3 DEF SourceSafe, Working
  <2>. QED BY <1>1, <1>3, <1>5, <2>1, <2>2, Arrives
<1>. QED BY <1>2, <1>4, <1>5

LEMMA TargetSafeNext == Typed /\ TargetSafe /\ [Next]_vars => TargetSafe'
<1>. SUFFICES ASSUME Typed, TargetSafe, [Next]_vars, mover'.pc = "tested", ~mover'.clash, HasFile(Target)'
              PROVE  file'[Target'].data \in past'.hit
  BY DEF TargetSafe, Working
<1>. USE DEF Typed
<1>1. ~RenameTmp
  BY AtPc
<1>2. CASE MoverStep
  <2>1. TestExists /\ Target' = Target /\ ~HasFile(Target)
    BY <1>2, SamePlaces DEF MoverStep, Going
  <2>2. file' = file
    BY <2>1 DEF TestExists
  <2>. QED BY <2>1, <2>2 DEF HasFile
<1>3. CASE mover' = mover
  <2>1. Target' = Target /\ HasNext(Target) /\ mover.pc = "tested" /\ ~mover.clash
    BY <1>3, SamePlaces DEF HasFile, HasNext
  <2>2. CASE HasFile(Target) /\ Stays(Target)
    <3>1. file[Target].data \in past.hit
      BY <2>1, <2>2 DEF TargetSafe, Working
    <3>. QED BY <2>1, <2>2, <3>1, PastNext DEF PastFine, Grows, Stays
  <2>. QED BY <1>1, <2>1, <2>2, Arrives
<1>. QED BY MoverNext, <1>2, <1>3 DEF MoverBegins, MoverStops

LEMMA KeptNext == Typed /\ Housed /\ Numbered /\ SourceSafe /\ TargetSafe /\ FilesKept /\ [Next]_vars => FilesKept'
<1>. SUFFICES ASSUME Typed, Housed, SourceSafe, TargetSafe, FilesKept, [Next]_vars,
                     NEW CONSTANT i \in 1 .. made', i \notin past'.gone, i \notin past'.hit
              PROVE  \E l \in Loc : HasNext(l) /\ file'[l].data = i
  <2>1. ASSUME NEW CONSTANT i, NEW CONSTANT l \in Loc, HasNext(l) /\ file'[l].data = i PROVE (i \in Data(l))'
    BY <2>1 DEF Data, HasNext, HasFile
  <2>. QED BY <2>1 DEF FilesKept
<1>. USE DEF Typed
<1>0. made \in Nat /\ i \notin past.gone /\ i \notin past.hit
  BY PastNext DEF PastFine, Grows, CountsTyped
<1>1. ASSUME NEW op \in Makings, NEW p \in Visible, Makes(<<1, p>>), i = made + 1
      PROVE  \E l \in Loc : HasNext(l) /\ file'[l].data = i
  <2>1. <<1, p>> \in Loc
    BY Numbers DEF Loc, Visible
  <2>. QED BY <1>1, <2>1 DEF Makes
<1>2. CASE i \notin 1 .. made
  <2>1. i = made + 1 /\ \E op \in Makings, p \in Visible : Make(op, p)
    BY <1>0, <1>2, MadeNext
  <2>. QED BY <1>1, <2>1, MakeEffect
<1>3. CASE i \in 1 .. made
  <2>1. PICK l \in Loc : HasFile(l) /\ file[l].data = i
    BY <1>0, <1>3 DEF FilesKept, Data
  <2>2. ASSUME NEW k \in Loc, HasFile(k), file[k].data = i, Stays(k) PROVE \E x \in Loc : HasNext(x) /\ file'[x].data = i
    BY <2>2 DEF Stays
  <2>3. ASSUME NEW k \in Loc, NEW m, HasFile(m), file[m].data = i, Gets(k, m) PROVE \E x \in Loc : HasNext(x) /\ file'[x].data = i
    BY <2>3 DEF Gets
  <2>4. CASE Stays(l)
    BY <2>1, <2>2, <2>4
  \* Nothing of the data is lost with a name that has a second.
  <2>5. ASSUME NEW k \in Loc, k[2] \in Visible, HasFile(k), file[k].data = i, i \notin Lost(k)
        PROVE  \E x \in Loc : x # k /\ HasFile(x) /\ file[x].data = i
    <3>1. CASE ~OnlyName(k)
      BY <2>5, <3>1 DEF OnlyName
    <3>2. CASE OnlyName(k)
      <4>1. Copied(i)
        BY <2>5, <3>2 DEF Lost
      <4>2. mover.pc # "idle" /\ HasFile(Tmp) /\ file[Tmp].data = i
        BY <4>1 DEF Copied, Working
      <4>3. Tmp \in Loc /\ Tmp # k
        BY <2>5, <4>2, MoverLoc, Names DEF Visible
      <4>. QED BY <4>2, <4>3
    <3>. QED BY <3>1, <3>2
  <2>6. CASE Unlink /\ Erased(Here)
    <3>1. Here \in Loc /\ Here[2] \in Visible /\ Lost(Here) \subseteq past'.gone
      BY <2>6, HereLoc, Recorded DEF Unlink, Calling, FileOps
    <3>2. CASE l = Here
      <4>1. PICK x \in Loc : x # Here /\ HasFile(x) /\ file[x].data = i
        BY <2>1, <2>5, <3>1, <3>2
      <4>. QED BY <2>2, <2>6, <4>1 DEF Erased
    <3>3. CASE l # Here
      BY <2>1, <2>2, <2>6, <3>3 DEF Erased
    <3>. QED BY <3>2, <3>3
  <2>7. CASE Rename /\ Shifts(Here, There)
    <3>1. Here \in Loc /\ There \in Loc /\ There[2] \in Visible /\ Lost(There) \subseteq past'.gone
      BY <2>7, HereLoc, Recorded DEF Rename, Calling, FileOps
    <3>2. ASSUME NEW x \in Loc, x # There, HasFile(x), file[x].data = i
          PROVE  \E y \in Loc : HasNext(y) /\ file'[y].data = i
      <4>1. CASE x = Here
        BY <2>3, <2>7, <3>1, <3>2, <4>1 DEF Shifts
      <4>2. CASE x # Here
        BY <2>2, <2>7, <3>2, <4>2 DEF Shifts
      <4>. QED BY <4>1, <4>2
    <3>3. CASE l = There
      BY <2>1, <2>5, <3>1, <3>2, <3>3
    <3>. QED BY <2>1, <3>2, <3>3
  <2>8. CASE Link /\ Copies(Here, There)
    <3>1. l # There
      BY <2>1, <2>8 DEF Link
    <3>. QED BY <2>1, <2>2, <2>8, <3>1 DEF Copies
  <2>9. CASE RenameDir /\ Carries(req.t, req.p, req.q)
    BY <2>1, <2>2, <2>3, <2>9, CarriedTo
  <2>10. ASSUME NEW op \in Makings, NEW p \in Visible, Make(op, p), Makes(<<1, p>>)
         PROVE  \E x \in Loc : HasNext(x) /\ file'[x].data = i
    <3>1. l # <<1, p>>
      BY <2>1, <2>10, Recorded DEF Data
    <3>. QED BY <2>1, <2>2, <2>10, <3>1 DEF Makes
  <2>11. CASE Remove /\ Erased(Source)
    <3>1. CASE l = Source
      <4>1. mover.pc = "remove" /\ Source[2][3] # Hidden
        BY <2>11, MoverLoc, Names DEF Remove, At, Visible
      <4>2. PICK x \in Loc : x[2][3] = Hidden /\ HasFile(x) /\ file[x].data = i
        BY <1>0, <2>1, <3>1, <4>1 DEF SourceSafe, Working
      <4>3. x # Source
        BY <4>1, <4>2
      <4>. QED BY <2>2, <2>11, <4>2, <4>3 DEF Erased
    <3>2. CASE l # Source
      BY <2>1, <2>2, <2>11, <3>2 DEF Erased
    <3>. QED BY <3>1, <3>2
  <2>12. CASE RenameTmp /\ Shifts(Tmp, RenameTo)
    <3>1. Tmp \in Loc /\ RenameTo \in Loc /\ mover.pc = "tested"
      BY <2>12, MoverLoc DEF RenameTmp, At
    <3>2. CASE l = Tmp
      BY <2>1, <2>3, <2>12, <3>1, <3>2 DEF Shifts
    <3>3. CASE l = RenameTo
      <4>1. CASE mover.clash
        <5>1. i \in past'.hit
          BY <2>1, <2>12, <3>3, <4>1, Recorded DEF RenameTo, Data
        <5>. QED BY <5>1
      <4>2. CASE ~mover.clash
        BY <1>0, <2>1, <3>1, <3>3, <4>2 DEF RenameTo, TargetSafe, Working
      <4>. QED BY <4>1, <4>2
    <3>4. CASE l # Tmp /\ l # RenameTo
      BY <2>1, <2>2, <2>12, <3>4 DEF Shifts
    <3>. QED BY <3>2, <3>3, <3>4
  <2>13. CASE Copy /\ Copies(Source, Tmp)
    <3>1. l # Tmp
      BY <2>1, <2>13 DEF Copy
    <3>. QED BY <2>1, <2>2, <2>13, <3>1 DEF Copies
  <2>. QED BY <2>1, <2>4, <2>6, <2>7, <2>8, <2>9, <2>10, <2>11, <2>12, <2>13, Steps
           DEF Effect, RequestEffect, WorkEffect
<1>. QED BY <1>2, <1>3

\* The data of a file that is not unlinked, replaced by a rename, truncated by a create
\* that did not see it or put in a mover's way always stands in some tier, under its name,
\* a conflict name or the mover's temporary.
THEOREM NoFileLost == Spec => []FilesKept
BY TypedInit, TypedNext, HousedInit, HousedNext, KeptInit, NumberedNext, SourceSafeNext, TargetSafeNext, KeptNext, PTL
   DEF Spec
-----------------------------------------------------------------------------
(* The tiers agree on the directories *)

InLoop == req.op \in DirChanges /\ req.step = "call"
AgreeFrom(d, n) == \A s, t \in Tier : s >= n /\ t >= n => dir[s][d] = dir[t][d]
\* What the loop leaves of a directory in a tier it is done with.
DirValue(d) == IF req.op = "mkdir" THEN 0 ELSE IF req.op = "rmdir" THEN Absent
               ELSE IF req.op = "setdir" THEN 1 ELSE IF d = req.p THEN Absent ELSE dir[req.t][req.p]
Changed(d) == \A s \in Tier : s < req.t /\ (req.op = "renamedir" => req.p \notin past.torn)
                                 => dir[s][d] = DirValue(d)
Renamed(d) == req.op = "renamedir" /\ d = req.p => \A s \in Tier : s < req.t => dir[s][d] = Absent
Agreed(d) == IF InLoop /\ d \in {req.p, req.q} THEN AgreeFrom(d, req.t) /\ Changed(d) /\ Renamed(d)
             ELSE AgreeFrom(d, 1)
\* Tiers ahead of the loop agree among themselves, those behind it have its result.
AgreeInv == ~past.died => \A d \in Dir \ past.torn : Agreed(d)

\* A turn of the loop changes two directories of its tier, or nothing.
TurnTaken(ok) ==
    /\ req.op \in DirChanges /\ req.step = "call"
    /\ req' = NoReq \/ (ok /\ Turning) \/ (ok /\ req.op = "renamedir" /\ req' = [req EXCEPT !.step = "keys"])
    /\ ok /\ req.t < NTiers => Turning
    /\ ok => \A s \in Tier, d \in Dir :
                dir'[s][d] = IF s = req.t /\ d \in {req.p, req.q} THEN DirValue(d) ELSE dir[s][d]
    /\ ~ok => \A s \in Tier, d \in Dir : dir'[s][d] = dir[s][d]
    /\ (~ok /\ req.t > 1) \/ (ok /\ req.op = "renamedir" /\ req.p \in past.torn) => {req.p, req.q} \subseteq past'.torn

LEMMA TornTurn ==
    ASSUME PastTyped, NEW ok, NEW after, Turn(ok, after),
           (~ok /\ req.t > 1) \/ (ok /\ req.op = "renamedir" /\ req.p \in past.torn)
    PROVE  {req.p, req.q} \subseteq past'.torn
<1>. PICK h : h = past
  OBVIOUS
<1>. PICK A : A = IF (~ok /\ req.t > 1) \/ (ok /\ req.op = "renamedir" /\ req.p \in h.torn) THEN {req.p, req.q} ELSE {}
  OBVIOUS
<1>1. h \in PastRec /\ A = {req.p, req.q}
  BY DEF PastTyped
<1>2. \E B, C, D, E : past' = [h EXCEPT !.torn = @ \cup A, !.stale = @ \cup B, !.carried = @ \/ C, !.late = D, !.hit = @ \cup E]
  BY DEF Turn
<1>3. past'.torn = h.torn \cup A
  BY <1>1, <1>2 DEF PastRec
<1>. QED BY <1>1, <1>3

LEMMA TurnReq ==
    ASSUME Typed, NEW ok, NEW after, Turn(ok, after), req.op \in DirChanges, req.step = "call",
           after = NoReq \/ (req.op = "renamedir" /\ after = [req EXCEPT !.step = "keys"])
    PROVE  /\ req' = NoReq \/ (ok /\ Turning) \/ (ok /\ req.op = "renamedir" /\ req' = [req EXCEPT !.step = "keys"])
           /\ ok /\ req.t < NTiers => Turning
<1>1. req' = IF ~ok THEN NoReq ELSE IF req.t < NTiers THEN [req EXCEPT !.t = @ + 1] ELSE after
  BY DEF Turn, Goto
<1>. QED BY <1>1 DEF Turning

LEMMA DirTurn == ASSUME Typed, [Next]_vars, DirRequest PROVE \E ok \in BOOLEAN : TurnTaken(ok)
<1>. USE DEF Typed
<1>. PICK t, d, e : t = req.t /\ d = req.p /\ e = req.q
  OBVIOUS
<1>0. req.op \in DirChanges /\ req.step = "call"
  BY DEF DirRequest, Mkdir, Rmdir, SetDir, RenameDir, Calling, DirChanges
<1>1. d \in Dir /\ e \in Dir /\ t \in Tier
  BY <1>0, InDirChange
<1>2. ASSUME NEW ok \in BOOLEAN, NEW after, Turn(ok, after),
             after = NoReq \/ (req.op = "renamedir" /\ after = [req EXCEPT !.step = "keys"]),
             ok => \A s \in Tier, x \in Dir : dir'[s][x] = IF s = t /\ x \in {d, e} THEN DirValue(x) ELSE dir[s][x],
             ~ok => \A s \in Tier, x \in Dir : dir'[s][x] = dir[s][x]
      PROVE  TurnTaken(ok)
  <2>1. /\ req' = NoReq \/ (ok /\ Turning) \/ (ok /\ req.op = "renamedir" /\ req' = [req EXCEPT !.step = "keys"])
        /\ ok /\ req.t < NTiers => Turning
    BY <1>0, <1>2, TurnReq
  <2>2. (~ok /\ req.t > 1) \/ (ok /\ req.op = "renamedir" /\ req.p \in past.torn) => {req.p, req.q} \subseteq past'.torn
    BY <1>2, TornTurn
  <2>. QED BY <1>0, <1>2, <2>1, <2>2 DEF TurnTaken
<1>3. CASE Mkdir
  <2>. PICK ok \in BOOLEAN : ok = (dir[t][d] = Absent)
    OBVIOUS
  <2>1. dir' = [dir EXCEPT ![t][d] = IF @ = Absent THEN 0 ELSE @] /\ Turn(ok, NoReq) /\ req.op = "mkdir"
    BY <1>3 DEF Mkdir, Calling
  <2>2. d = e
    BY <2>1 DEF ReqTyped
  <2>3. ok => \A s \in Tier, x \in Dir : dir'[s][x] = IF s = t /\ x \in {d, e} THEN 0 ELSE dir[s][x]
    BY <1>1, <2>1, <2>2 DEF DirTyped
  <2>4. ~ok => \A s \in Tier, x \in Dir : dir'[s][x] = dir[s][x]
    BY <1>1, <2>1, <2>2 DEF DirTyped
  <2>5. \A x \in Dir : ok /\ x \in {d, e} => DirValue(x) = 0
    BY <2>1 DEF DirValue
  <2>6. ok => \A s \in Tier, x \in Dir : dir'[s][x] = IF s = t /\ x \in {d, e} THEN DirValue(x) ELSE dir[s][x]
    BY <2>3, <2>5
  <2>7. TurnTaken(ok)
    BY <1>2, <2>1, <2>4, <2>6
  <2>. QED BY <2>7
<1>4. CASE Rmdir
  <2>. PICK ok \in BOOLEAN : ok = (HasDir(t, d) /\ EmptyDir(t, d))
    OBVIOUS
  <2>1. dir' = [dir EXCEPT ![t][d] = IF ok THEN Absent ELSE @] /\ Turn(ok, NoReq) /\ req.op = "rmdir"
    BY <1>4 DEF Rmdir, Calling
  <2>2. d = e
    BY <2>1 DEF ReqTyped
  <2>3. ok => \A s \in Tier, x \in Dir : dir'[s][x] = IF s = t /\ x \in {d, e} THEN Absent ELSE dir[s][x]
    BY <1>1, <2>1, <2>2 DEF DirTyped
  <2>4. ~ok => \A s \in Tier, x \in Dir : dir'[s][x] = dir[s][x]
    BY <1>1, <2>1, <2>2 DEF DirTyped
  <2>5. \A x \in Dir : ok /\ x \in {d, e} => DirValue(x) = Absent
    BY <2>1 DEF DirValue
  <2>6. ok => \A s \in Tier, x \in Dir : dir'[s][x] = IF s = t /\ x \in {d, e} THEN DirValue(x) ELSE dir[s][x]
    BY <2>3, <2>5
  <2>7. TurnTaken(ok)
    BY <1>2, <2>1, <2>4, <2>6
  <2>. QED BY <2>7
<1>5. CASE SetDir
  <2>. PICK ok \in BOOLEAN : ok = (dir[t][d] # Absent)
    OBVIOUS
  <2>1. dir' = [dir EXCEPT ![t][d] = IF @ # Absent THEN 1 ELSE @] /\ Turn(ok, NoReq) /\ req.op = "setdir"
    BY <1>5 DEF SetDir, Calling
  <2>2. d = e
    BY <2>1 DEF ReqTyped
  <2>3. ok => \A s \in Tier, x \in Dir : dir'[s][x] = IF s = t /\ x \in {d, e} THEN 1 ELSE dir[s][x]
    BY <1>1, <2>1, <2>2 DEF DirTyped
  <2>4. ~ok => \A s \in Tier, x \in Dir : dir'[s][x] = dir[s][x]
    BY <1>1, <2>1, <2>2 DEF DirTyped
  <2>5. \A x \in Dir : ok /\ x \in {d, e} => DirValue(x) = 1
    BY <2>1 DEF DirValue
  <2>6. ok => \A s \in Tier, x \in Dir : dir'[s][x] = IF s = t /\ x \in {d, e} THEN DirValue(x) ELSE dir[s][x]
    BY <2>3, <2>5
  <2>7. TurnTaken(ok)
    BY <1>2, <2>1, <2>4, <2>6
  <2>. QED BY <2>7
<1>6. CASE RenameDir
  <2>. PICK ok \in BOOLEAN : ok = (HasDir(t, d) /\ (HasDir(t, e) => EmptyDir(t, e)))
    OBVIOUS
  <2>. PICK after : after = [req EXCEPT !.step = "keys"]
    OBVIOUS
  <2>1. dir' = (IF ok THEN [dir EXCEPT ![t][e] = dir[t][d], ![t][d] = Absent] ELSE dir) /\ Turn(ok, after)
        /\ req.op = "renamedir"
    BY <1>6 DEF RenameDir, Calling
  <2>2. d # e
    BY <2>1 DEF ReqTyped
  <2>3. ok => \A s \in Tier, x \in Dir :
              dir'[s][x] = IF s = t /\ x \in {d, e} THEN (IF x = d THEN Absent ELSE dir[t][d]) ELSE dir[s][x]
    BY <1>1, <2>1, <2>2 DEF DirTyped
  <2>4. ~ok => \A s \in Tier, x \in Dir : dir'[s][x] = dir[s][x]
    BY <2>1
  <2>5. \A x \in Dir : ok /\ x \in {d, e} => DirValue(x) = (IF x = d THEN Absent ELSE dir[t][d])
    BY <2>1 DEF DirValue
  <2>6. ok => \A s \in Tier, x \in Dir : dir'[s][x] = IF s = t /\ x \in {d, e} THEN DirValue(x) ELSE dir[s][x]
    BY <2>3, <2>5
  <2>7. TurnTaken(ok)
    BY <1>2, <2>1, <2>4, <2>6
  <2>. QED BY <2>7
<1>. QED BY <1>3, <1>4, <1>5, <1>6 DEF DirRequest

\* Only a turn of the loop or the end of the daemon changes the request then.
LEMMA LoopGoesOn ==
    ASSUME Typed, [Next]_vars, InLoop
    PROVE  DirRequest \/ Die \/ req' = req
<1>. USE DEF InLoop, DirChanges
<1>1. CASE Request
  <2>1. ~(\E op \in FileOps, p, q \in Visible : Lookup(op, p, q))
        /\ ~(\E op \in {"create", "mknod", "symlink"}, p \in Visible : Make(op, p))
        /\ ~(\E op \in DirChanges, d, e \in Dir : BeginDir(op, d, e))
    <3>1. req # NoReq
      BY DEF NoReq
    <3>. QED BY <3>1 DEF Lookup, Make, BeginDir, Begin
  <2>2. ~CallFails /\ ~Stat /\ ~Unlink /\ ~UnlinkEntry /\ ~Rename /\ ~RenameEntry /\ ~Link /\ ~CreateEntry
        /\ ~RenameKeys
    BY DEF CallFails, Stat, Unlink, UnlinkEntry, Rename, RenameEntry, Link, CreateEntry, RenameKeys, Calling, FileOps, Attr
  <2>3. ~Truncate /\ ~Chmod /\ ~Chown /\ ~Setxattr /\ ~Removexattr /\ ~Utimens
    BY DEF Truncate, Chmod, Chown, Setxattr, Removexattr, Utimens, Set, Calling
  <2>. QED BY <1>1, <2>1, <2>2, <2>3
           DEF Request, Access, Readlink, Lseek, Getxattr, Listxattr, DirRequest
<1>2. CASE Worker
  BY <1>2 DEF Worker
<1>3. CASE Restart
  BY <1>3 DEF Restart
<1>. QED BY <1>1, <1>2, <1>3 DEF Next, vars

\* A loop begins at the first tier.
LEMMA LoopBegins ==
    ASSUME Typed, [Next]_vars, ~InLoop, InLoop'
    PROVE  req'.t = 1 \/ req' = req
<1>. USE DEF Typed
<1>. PICK r : r = req
  OBVIOUS
<1>0. r \in ReqRec /\ NoReq.op = "none" /\ NoReq.op \notin DirChanges
  BY DEF ReqTyped, NoReq, DirChanges
<1>1. req'.op \in DirChanges /\ req'.step = "call" /\ ~(req.op \in DirChanges /\ req.step = "call")
  BY DEF InLoop
<1>2. ~Entering
  <2>1. r.op \in {"unlink", "rename"} => [r EXCEPT !.step = "entry"].step = "entry"
    BY <1>0 DEF ReqRec
  <2>. QED BY <1>1, <2>1 DEF Entering
<1>3. ~Turning
  <2>1. [r EXCEPT !.t = @ + 1].op = r.op
    BY <1>0 DEF ReqRec
  <2>. QED BY <1>1, <2>1 DEF Turning, DirChanges
<1>4. ~Turned
  <2>1. [r EXCEPT !.step = "keys"].step = "keys"
    BY <1>0 DEF ReqRec
  <2>. QED BY <1>1, <2>1 DEF Turned
<1>5. ASSUME NEW op \in FileOps, NEW p, NEW q, Lookup(op, p, q) PROVE FALSE
  BY <1>1, <1>5 DEF Lookup, Begin, FileOps, Attr, DirChanges
<1>6. ASSUME NEW op, NEW p, Make(op, p) PROVE FALSE
  BY <1>0, <1>1, <1>6 DEF Make, Begin, DirChanges
<1>7. ASSUME NEW op, NEW d, NEW e, BeginDir(op, d, e) PROVE req'.t = 1
  <2>1. req' = [op |-> op, step |-> "call", p |-> d, q |-> e, t |-> 1]
    BY <1>7 DEF BeginDir, Begin
  <2>. QED BY <2>1
<1>8. req' # NoReq
  BY <1>0, <1>1
<1>. QED BY <1>2, <1>3, <1>4, <1>5, <1>6, <1>7, <1>8, ReqSteps DEF ReqBegins

\* Directories that the step leaves whole have the modes they had.
LEMMA AgreeSame ==
    ASSUME AgreeInv, ~past.died, req' = req, past.torn \subseteq past'.torn,
           \A s \in Tier, x \in Dir \ past'.torn : dir'[s][x] = dir[s][x], ReqTyped,
           NEW CONSTANT d \in Dir, d \notin past'.torn
    PROVE  Agreed(d)'
<1>1. Agreed(d) /\ \A n : AgreeFrom(d, n) <=> AgreeFrom(d, n)'
  BY DEF AgreeInv, AgreeFrom
<1>2. CASE ~(InLoop /\ d \in {req.p, req.q})
  BY <1>1, <1>2 DEF Agreed, InLoop, AgreeFrom
<1>. SUFFICES ASSUME InLoop, d \in {req.p, req.q} PROVE Agreed(d)'
  BY <1>2
<1>3. AgreeFrom(d, req.t) /\ Changed(d) /\ Renamed(d) /\ req.p \in Dir /\ req.q \in Dir /\ req.t \in Tier
  BY <1>1, InDirChange DEF Agreed, InLoop
<1>4. AgreeFrom(d, req.t)'
  BY <1>3 DEF AgreeFrom
<1>5. ASSUME NEW s \in Tier, s < req'.t, req'.op = "renamedir" => req'.p \notin past'.torn
      PROVE  dir'[s][d] = DirValue(d)'
  <2>1. dir[s][d] = DirValue(d)
    BY <1>3, <1>5 DEF Changed
  <2>2. DirValue(d)' = DirValue(d)
    <3>1. CASE req.op \in {"mkdir", "rmdir", "setdir"}
      BY <3>1 DEF DirValue
    <3>2. CASE req.op = "renamedir"
      <4>1. dir'[req.t][req.p] = dir[req.t][req.p]
        BY <1>3, <1>5, <3>2
      <4>. QED BY <3>2, <4>1 DEF DirValue
    <3>. QED BY <3>1, <3>2 DEF InLoop, DirChanges
  <2>. QED BY <2>1, <2>2
<1>6. Renamed(d)'
  BY <1>3 DEF Renamed
<1>7. Changed(d)'
  BY <1>5 DEF Changed
<1>8. InLoop' /\ d \in {req'.p, req'.q}
  BY DEF InLoop
<1>. QED BY <1>4, <1>6, <1>7, <1>8 DEF Agreed

LEMMA AgreeTurn ==
    ASSUME Typed, AgreeInv, ~past.died, past.torn \subseteq past'.torn, NEW ok \in BOOLEAN, TurnTaken(ok),
           NEW CONSTANT d \in Dir, d \notin past'.torn
    PROVE  Agreed(d)'
<1>. USE DEF Typed
<1>. PICK t, p, q, r : t = req.t /\ p = req.p /\ q = req.q /\ r = req
  OBVIOUS
<1>0. InLoop /\ p \in Dir /\ q \in Dir /\ t \in Tier /\ t \in Nat /\ NTiers \in Nat /\ t >= 1 /\ t <= NTiers /\ r \in ReqRec
  BY Numbers, InDirChange DEF TurnTaken, InLoop, ReqTyped, Tier
<1>1. Agreed(d) /\ d \notin past.torn
  BY DEF AgreeInv
<1>n. req' = NoReq => ~InLoop'
  BY DEF InLoop, NoReq, DirChanges
<1>2. CASE ~ok
  <2>1. req' = NoReq /\ \A s \in Tier : dir'[s][d] = dir[s][d]
    BY <1>2 DEF TurnTaken
  <2>2. AgreeFrom(d, 1)
    <3>1. CASE t > 1
      <4>1. d \notin {p, q}
        BY <1>2, <3>1 DEF TurnTaken
      <4>. QED BY <1>1, <4>1 DEF Agreed
    <3>2. CASE t = 1
      BY <1>1, <3>2 DEF Agreed
    <3>. QED BY <1>0, <3>1, <3>2
  <2>. QED BY <1>n, <2>1, <2>2 DEF Agreed, AgreeFrom
<1>. SUFFICES ASSUME ok PROVE Agreed(d)'
  BY <1>2
<1>3. \A s \in Tier, x \in Dir : dir'[s][x] = IF s = t /\ x \in {p, q} THEN DirValue(x) ELSE dir[s][x]
  BY DEF TurnTaken
<1>4. CASE d \notin {p, q}
  <2>1. AgreeFrom(d, 1)
    BY <1>1, <1>4 DEF Agreed
  <2>2. ~(InLoop' /\ d \in {req'.p, req'.q})
    <3>1. CASE Turning
      <4>1. req' = [r EXCEPT !.t = @ + 1]
        BY <3>1 DEF Turning
      <4>. QED BY <1>0, <1>4, <4>1 DEF ReqRec
    <3>2. CASE req' = [r EXCEPT !.step = "keys"]
      BY <1>0, <3>2 DEF ReqRec, InLoop
    <3>. QED BY <1>n, <3>1, <3>2 DEF TurnTaken
  <2>. QED BY <1>0, <1>3, <1>4, <2>1, <2>2 DEF Agreed, AgreeFrom
<1>. SUFFICES ASSUME d \in {p, q} PROVE Agreed(d)'
  BY <1>4
<1>5. req.op = "renamedir" => p \notin past.torn
  BY DEF TurnTaken
<1>6. AgreeFrom(d, t) /\ (\A s \in Tier : s < t => dir[s][d] = DirValue(d)) /\ Renamed(d)
  BY <1>0, <1>1, <1>5 DEF Agreed, Changed
<1>7. \A s \in Tier : s <= t => dir'[s][d] = DirValue(d)
  BY <1>0, <1>3, <1>6, Numbers DEF Tier
<1>8. CASE Turning
  <2>1. req' = [r EXCEPT !.t = @ + 1]
    BY <1>8 DEF Turning
  <2>2. req'.t = t + 1 /\ req'.op = req.op /\ req'.p = p /\ req'.q = q /\ req'.step = "call" /\ t + 1 \in Tier
    BY <1>0, <1>8, <2>1 DEF ReqRec, Turning, TurnTaken, Tier
  <2>3. AgreeFrom(d, req.t)'
    BY <1>0, <1>3, <1>6, <2>2 DEF AgreeFrom, Tier
  <2>4. DirValue(d)' = DirValue(d)
    <3>1. CASE req.op \in {"mkdir", "rmdir", "setdir"}
      BY <2>2, <3>1 DEF DirValue
    <3>2. CASE req.op = "renamedir" /\ d = p
      BY <2>2, <3>2 DEF DirValue
    <3>3. CASE req.op = "renamedir" /\ d # p
      <4>1. AgreeFrom(p, t)
        BY <1>0, <1>5, <3>3 DEF AgreeInv, Agreed
      <4>2. dir[t + 1][p] = dir[t][p]
        BY <1>0, <2>2, <4>1 DEF AgreeFrom
      <4>3. dir'[t + 1][p] = dir[t + 1][p]
        BY <1>0, <1>3, <2>2
      <4>. QED BY <2>2, <3>3, <4>2, <4>3 DEF DirValue
    <3>. QED BY <1>0, <3>1, <3>2, <3>3 DEF InLoop, DirChanges
  <2>5. Changed(d)'
    BY <1>0, <1>7, <2>2, <2>4 DEF Changed, Tier
  <2>6. Renamed(d)'
    BY <1>0, <1>7, <2>2 DEF Renamed, DirValue, Tier
  <2>7. InLoop' /\ d \in {req'.p, req'.q}
    BY <1>0, <2>2 DEF InLoop
  <2>. QED BY <2>3, <2>5, <2>6, <2>7 DEF Agreed
<1>9. CASE ~Turning
  <2>1. t = NTiers
    BY <1>0, <1>9 DEF TurnTaken
  <2>2. ~InLoop'
    <3>1. CASE req' = [r EXCEPT !.step = "keys"]
      BY <1>0, <3>1 DEF ReqRec, InLoop
    <3>. QED BY <1>n, <1>9, <3>1 DEF TurnTaken
  <2>3. \A s \in Tier : dir'[s][d] = DirValue(d)
    BY <1>0, <1>7, <2>1 DEF Tier
  <2>. QED BY <2>2, <2>3 DEF Agreed, AgreeFrom
<1>. QED BY <1>8, <1>9

LEMMA AgreeNext == Typed /\ AgreeInv /\ [Next]_vars => AgreeInv'
<1>. SUFFICES ASSUME Typed, AgreeInv, [Next]_vars, ~past'.died, NEW d \in Dir, d \notin past'.torn
              PROVE  Agreed(d)'
  BY DEF AgreeInv
<1>. USE DEF Typed
<1>1. ~past.died /\ past.torn \subseteq past'.torn
  BY PastNext DEF PastFine, Grows
<1>2. ~Die
  BY DieMarks
<1>3. CASE DirRequest
  BY <1>1, <1>3, DirTurn, AgreeTurn
<1>4. CASE DirWork /\ req' = req
  <2>1. PICK f \in files, t \in Tier : MoveFile(f, t)
    BY <1>4 DEF DirWork
  <2>. PICK D, h : D = {x \in {f.name[1]} : ~HasDir(t, x)} /\ h = past
    OBVIOUS
  <2>2. dir' = [dir EXCEPT ![t] = [x \in Dir |-> IF x \in D THEN Raw ELSE @[x]]]
        /\ past' = [h EXCEPT !.torn = @ \cup D]
    BY <2>1 DEF MoveFile
  <2>3. D \subseteq past'.torn
    BY <2>2 DEF PastTyped, PastRec
  <2>4. \A s \in Tier, x \in Dir \ past'.torn : dir'[s][x] = dir[s][x]
    BY <2>2, <2>3 DEF DirTyped
  <2>. QED BY <1>1, <1>4, <2>4, AgreeSame
<1>5. CASE dir' = dir /\ req' = req
  BY <1>1, <1>5, AgreeSame
<1>6. CASE dir' = dir /\ ~InLoop /\ req' # req
  <2>1. AgreeFrom(d, 1)'
    BY <1>1, <1>6 DEF AgreeInv, Agreed, AgreeFrom
  <2>2. CASE InLoop'
    <3>1. req'.t = 1
      BY <1>6, <2>2, LoopBegins
    <3>2. ~(\E s \in Tier : s < 1)
      BY DEF Tier
    <3>. QED BY <2>1, <3>1, <3>2 DEF Agreed, Changed, Renamed
  <2>. QED BY <2>1, <2>2 DEF Agreed
<1>7. InLoop => DirRequest \/ req' = req
  BY <1>2, LoopGoesOn
<1>. QED BY <1>3, <1>4, <1>5, <1>6, <1>7, DirSteps

LEMMA AgreeInit == Init => AgreeInv
<1>. SUFFICES ASSUME Init PROVE AgreeInv
  OBVIOUS
<1>1. ~InLoop
  BY DEF Init, InLoop, NoReq, DirChanges
<1>2. PICK D \in SUBSET Dir : dir = [t \in Tier |-> [d \in Dir |-> IF d \in D THEN 0 ELSE Absent]]
  BY DEF Init
<1>. QED BY <1>1, <1>2 DEF AgreeInv, Agreed, AgreeFrom

LEMMA AgreeNow == Typed /\ AgreeInv => DirsAgree
<1>. SUFFICES ASSUME Typed, AgreeInv, NEW d \in Dir, NEW t \in Tier,
                     req.op \in DirChanges => d \notin {req.p, req.q}, d \notin past.torn, ~past.died
              PROVE  dir[t][d] = dir[1][d]
  BY DEF DirsAgree
<1>1. AgreeFrom(d, 1)
  BY DEF AgreeInv, Agreed, InLoop
<1>2. t >= 1 /\ 1 \in Tier
  BY Numbers DEF Tier
<1>. QED BY <1>1, <1>2 DEF AgreeFrom

\* Between the directory operations, each a loop over the tiers, all tiers have the same
\* directories with the same modes, but for those where a loop stopped half way or a mover
\* made the directory of its destination.
THEOREM DirectoriesAgree == Spec => []DirsAgree
BY TypedInit, TypedNext, AgreeInit, AgreeNext, AgreeNow, PTL DEF Spec
-----------------------------------------------------------------------------
(* Where the entries of the database point *)

Has(t, p) == HasFile(<<t, p>>)
\* The mover works on p; it has taken the file away, and the entry does not say where.
Mine(p) == mover.pc # "idle" /\ mover.f.name = p
Away(p) == Mine(p) /\ mover.pc \in {"removed", "tested", "renamed"}
\* A request has changed the file p and not its entry yet.
AtEntry(p) == req.step = "entry" /\ p \in {req.p, req.q}
\* A directory rename has changed p in the first tiers.
Mid(p) == req.op = "renamedir" /\ (req.step = "keys" \/ req.t > 1) /\ p[1] \in {req.p, req.q}

OneTier(p) == \A t, u \in Tier : Has(t, p) /\ Has(u, p) => t = u
Entered(p) == ~Away(p) => \A t \in Tier : Has(t, p) => db[p] \in {t, Absent}
Settled(p) == ~Away(p) /\ ~AtEntry(p) =>
    /\ db[p] # Absent => Has(db[p], p)
    /\ \A t \in Tier : Has(t, p) /\ db[p] = Absent => p \in past.fresh
Moves(p) == Mine(p) =>
    /\ mover.pc \in {"copy", "copied", "remove"} => Has(mover.f.at[1], p)
    /\ mover.pc \in {"removed", "tested"} => \A t \in Tier : ~Has(t, p)
    /\ mover.pc = "tested" => ~mover.clash
    /\ mover.pc = "renamed" => Has(mover.t, p)
\* What update_db will write is where the file is.
InPass(p) == \A f \in files : f.name = p =>
    /\ ~f.done => f.meta = f.at[1]
    /\ ~Away(p) => Has(f.meta, p)
    /\ \A g \in files : g.name = p => g.at = f.at
Pending(p) == AtEntry(p) =>
    /\ req.op = "unlink" => ~Held(p) /\ \A t \in Tier : ~Has(t, p)
    /\ p = req.q /\ p \notin taken /\ req.op # "unlink" => Has(req.t, p)
    /\ p = req.p /\ p \notin taken => \A t \in Tier : Has(t, p) => t = req.t
Plainly(p) == OneTier(p) /\ Entered(p) /\ Settled(p) /\ Moves(p) /\ InPass(p) /\ Pending(p)
PlainInv == \A p \in Visible : ~Excused(p) /\ ~Mid(p) => Plainly(p)
CrawlInv == phase = "crawl" => \A f \in files : ~f.done

\* In a directory rename, of p under the new directory: its tier is done with; the name p
\* had; whether a tier has the file under the name it should have there by now.
Passed(t) == t < req.t \/ req.step = "keys"
Old(p) == Moved(p, req.p)
Virt(t, p) == IF Passed(t) THEN Has(t, p) ELSE Has(t, Old(p))
HeldAt(p) == ~Away(p) /\ \A f \in files : f.name = p => Has(f.meta, p)
Whole(p) == ~Excused(p) /\ Old(p) \notin past.stale \cup past.shadowed /\ p \notin taken /\ Old(p) \notin taken
Carried(p) ==
    /\ HeldAt(p) /\ HeldAt(Old(p))
    /\ \A t, u \in Tier : Virt(t, p) /\ Virt(u, p) => t = u
    /\ db[Old(p)] # Absent => Virt(db[Old(p)], p)
    /\ db[p] # Absent => Has(db[p], p)
Left(p) == \A t \in Tier : Passed(t) => ~Has(t, p)
MidInv == \A p \in Visible : Mid(p) =>
    /\ p[1] = req.p /\ p \notin taken => Left(p)
    /\ p[1] = req.q /\ Whole(p) => Carried(p)

LEMMA Calm ==
    ASSUME NEW P, NEW p \in P, Stale(P) \subseteq past'.stale, p \notin past'.stale
    PROVE  ~Held(p) /\ p \notin taken /\ p \notin past.stale \cup past.shadowed
BY DEF Stale

LEMMA CalmUnder ==
    ASSUME NEW p \in Visible, NEW d \in Dir, NEW e \in Dir, p[1] = e, StaleUnder(d, e) \subseteq past'.stale, p \notin past'.stale
    PROVE  /\ ~Held(p) /\ p \notin taken /\ p \notin past.stale \cup past.shadowed
           /\ ~Held(Moved(p, d)) /\ Moved(p, d) \notin taken /\ Moved(p, d) \notin past.stale \cup past.shadowed
<1>1. p \in Path /\ p \in In(e)
  BY DEF Visible, In
<1>2. Moved(p, e) = p
  BY <1>1, MovedPath
<1>3. Stale({Moved(p, d), Moved(p, e)}) = {}
  BY <1>1 DEF StaleUnder
<1>. QED BY <1>2, <1>3 DEF Stale

LEMMA CalmBefore ==
    ASSUME NEW p \in Visible, NEW d \in Dir, NEW e \in Dir, p[1] = d, StaleUnder(d, e) \subseteq past'.stale, p \notin past'.stale
    PROVE  ~Held(p) /\ p \notin taken /\ p \notin past.stale \cup past.shadowed
<1>1. p \in Path /\ p \in In(d)
  BY DEF Visible, In
<1>2. Moved(p, d) = p
  BY <1>1, MovedPath
<1>3. Stale({Moved(p, d), Moved(p, e)}) = {}
  BY <1>1 DEF StaleUnder
<1>. QED BY <1>2, <1>3 DEF Stale

LEMMA Alone == ASSUME NEW t, NEW p, Second(t, p) \subseteq past'.shadowed, p \notin past'.shadowed
               PROVE  \A u \in Tier : Has(u, p) => u = t
BY DEF Second, Has

\* What the operations note of the names they change.
LEMMA Marks ==
    ASSUME Typed
    PROVE  /\ Unlink => Stale({req.p}) \subseteq past'.stale
           /\ UnlinkEntry => Stale({req.p}) \subseteq past'.stale
           /\ Rename => Stale({req.p, req.q}) \subseteq past'.stale /\ Second(req.t, req.q) \subseteq past'.shadowed
           /\ RenameEntry => Stale({req.p, req.q}) \subseteq past'.stale /\ {p \in {req.p} : HasFile(Here)} \subseteq past'.fresh
           /\ Link => Stale({req.q}) \subseteq past'.stale /\ Second(req.t, req.q) \subseteq past'.shadowed /\ req.q \in past'.fresh
           /\ CreateEntry => Stale({req.p}) \subseteq past'.stale
           /\ \A op, p : Make(op, p) => /\ Stale({p}) \subseteq past'.stale /\ Second(1, p) \subseteq past'.shadowed
                                        /\ op # "create" => p \in past'.fresh
           /\ RenameDir /\ Carries(req.t, req.p, req.q) => /\ StaleUnder(req.p, req.q) \subseteq past'.stale
                                                           /\ req.p \in past.torn => req.q \in past'.torn
           /\ RenameKeys => /\ StaleUnder(req.p, req.q) \subseteq past'.stale
                            /\ {p \in In(req.q) \cap Visible : db[Moved(p, req.p)] = Absent} \subseteq past'.fresh
           /\ ChangePath => mover.f.name \in past'.shadowed
<1>. PICK h : h = past
  OBVIOUS
<1>0. h \in PastRec
  BY DEF Typed, PastTyped
<1>1. ASSUME Unlink PROVE Stale({req.p}) \subseteq past'.stale
  <2>1. \E B, C : past' = [h EXCEPT !.gone = @ \cup B, !.stale = @ \cup Stale({req.p}), !.late = C]
    BY <1>1 DEF Unlink
  <2>. QED BY <1>0, <2>1 DEF PastRec
<1>2. ASSUME UnlinkEntry \/ CreateEntry PROVE Stale({req.p}) \subseteq past'.stale
  <2>1. past' = [h EXCEPT !.stale = @ \cup Stale({req.p})]
    BY <1>2 DEF UnlinkEntry, CreateEntry
  <2>. QED BY <1>0, <2>1 DEF PastRec
<1>3. ASSUME Rename PROVE Stale({req.p, req.q}) \subseteq past'.stale /\ Second(req.t, req.q) \subseteq past'.shadowed
  <2>1. \E A, B, E : past' = [h EXCEPT !.gone = @ \cup A, !.hit = @ \cup B, !.shadowed = @ \cup Second(req.t, req.q),
                                       !.stale = @ \cup Stale({req.p, req.q}), !.late = E]
    BY <1>3 DEF Rename
  <2>2. past'.stale = h.stale \cup Stale({req.p, req.q}) /\ past'.shadowed = h.shadowed \cup Second(req.t, req.q)
    BY <1>0, <2>1 DEF PastRec
  <2>. QED BY <2>2
<1>4. ASSUME RenameEntry
      PROVE  Stale({req.p, req.q}) \subseteq past'.stale /\ {p \in {req.p} : HasFile(Here)} \subseteq past'.fresh
  <2>1. past' = [h EXCEPT !.stale = @ \cup Stale({req.p, req.q}), !.fresh = @ \cup {p \in {req.p} : HasFile(Here)}]
    BY <1>4 DEF RenameEntry
  <2>2. past'.stale = h.stale \cup Stale({req.p, req.q}) /\ past'.fresh = h.fresh \cup {p \in {req.p} : HasFile(Here)}
    BY <1>0, <2>1 DEF PastRec
  <2>. QED BY <2>2
<1>5. ASSUME Link
      PROVE  Stale({req.q}) \subseteq past'.stale /\ Second(req.t, req.q) \subseteq past'.shadowed /\ req.q \in past'.fresh
  <2>1. \E C, D : past' = [h EXCEPT !.fresh = @ \cup {req.q}, !.stale = @ \cup Stale({req.q}),
                                    !.shadowed = @ \cup Second(req.t, req.q), !.hit = @ \cup C, !.late = D]
    BY <1>5 DEF Link
  <2>2. past'.stale = h.stale \cup Stale({req.q}) /\ past'.shadowed = h.shadowed \cup Second(req.t, req.q)
        /\ past'.fresh = h.fresh \cup {req.q}
    BY <1>0, <2>1 DEF PastRec
  <2>. QED BY <2>2
<1>6. ASSUME NEW op, NEW p, Make(op, p)
      PROVE  Stale({p}) \subseteq past'.stale /\ Second(1, p) \subseteq past'.shadowed /\ (op # "create" => p \in past'.fresh)
  <2>. PICK F : F = IF op = "create" THEN h.fresh \ {p} ELSE h.fresh \cup {p}
    OBVIOUS
  <2>1. \E A, E : past' = [h EXCEPT !.hit = @ \cup Data(<<1, p>>) \cup A, !.fresh = F, !.shadowed = @ \cup Second(1, p),
                                    !.stale = @ \cup Stale({p}), !.late = E]
    BY <1>6 DEF Make
  <2>2. past'.stale = h.stale \cup Stale({p}) /\ past'.shadowed = h.shadowed \cup Second(1, p) /\ past'.fresh = F
    BY <1>0, <2>1 DEF PastRec
  <2>. QED BY <2>2
<1>7. ASSUME RenameDir, Carries(req.t, req.p, req.q)
      PROVE  StaleUnder(req.p, req.q) \subseteq past'.stale /\ (req.p \in past.torn => req.q \in past'.torn)
  <2>1. \E ok, after : Turn(ok, after) /\ ok
    BY <1>7 DEF RenameDir, Carries
  <2>2. PICK ok, after : Turn(ok, after) /\ ok /\ req.op = "renamedir"
    BY <1>7, <2>1 DEF RenameDir, Calling
  <2>. PICK A : A = IF (~ok /\ req.t > 1) \/ (ok /\ req.op = "renamedir" /\ req.p \in h.torn) THEN {req.p, req.q} ELSE {}
    OBVIOUS
  <2>3. \E C, D, E : past' = [h EXCEPT !.torn = @ \cup A, !.stale = @ \cup StaleUnder(req.p, req.q), !.carried = @ \/ C,
                                       !.late = D, !.hit = @ \cup E]
    BY <2>2 DEF Turn
  <2>4. past'.torn = h.torn \cup A /\ past'.stale = h.stale \cup StaleUnder(req.p, req.q)
    BY <1>0, <2>3 DEF PastRec
  <2>. QED BY <2>2, <2>4
<1>8. ASSUME RenameKeys
      PROVE  /\ StaleUnder(req.p, req.q) \subseteq past'.stale
             /\ {p \in In(req.q) \cap Visible : db[Moved(p, req.p)] = Absent} \subseteq past'.fresh
  <2>. PICK F : F = {p \in In(req.q) \cap Visible : db[Moved(p, req.p)] = Absent}
    OBVIOUS
  <2>1. past' = [h EXCEPT !.stale = @ \cup StaleUnder(req.p, req.q), !.fresh = @ \cup F]
    BY <1>8 DEF RenameKeys
  <2>2. past'.stale = h.stale \cup StaleUnder(req.p, req.q) /\ past'.fresh = h.fresh \cup F
    BY <1>0, <2>1 DEF PastRec
  <2>. QED BY <2>2
<1>9. ASSUME ChangePath PROVE mover.f.name \in past'.shadowed
  <2>1. past' = [h EXCEPT !.shadowed = @ \cup {mover.f.name}]
    BY <1>9 DEF ChangePath
  <2>. QED BY <1>0, <2>1 DEF PastRec
<1>. QED BY <1>1, <1>2, <1>3, <1>4, <1>5, <1>6, <1>7, <1>8, <1>9

(* What leaves the entry of a name as true as it was *)

Kept(p) == /\ \A t \in Tier : HasNext(<<t, p>>) <=> Has(t, p)
           /\ db'[p] = db[p] /\ (p \in past.fresh => p \in past'.fresh)
FilesKeep(p) == \A f \in files' : f.name = p =>
    \E g \in files : g.name = p /\ g.at = f.at /\ g.meta = f.meta /\ (~f.done => ~g.done)
Early == {"copy", "copied", "remove"}
\* The mover starts with the file p, goes on with it, or lets it go where its entry is right.
MoverKeepsTo(p) ==
    \/ mover' = mover
    \/ ~(mover'.pc # "idle" /\ mover'.f.name = p) /\ ~Away(p)
    \/ /\ mover'.pc # "idle" /\ mover'.f.name = p /\ ~Away(p) /\ mover'.pc \in Early \cup {"times", "change"}
       /\ mover'.pc \in Early => Has(mover'.f.at[1], p)
    \/ Mine(p) /\ Going("removed", "tested") /\ ~mover'.clash
AtNext(p) == req'.step = "entry" /\ p \in {req'.p, req'.q}
ReqKeepsTo(p) == IF AtNext(p) THEN req' = req /\ (p \in taken => p \in taken') ELSE ~AtEntry(p)

LEMMA PlainSame ==
    ASSUME Typed, [Next]_vars, NEW CONSTANT p \in Visible, Plainly(p), Kept(p), FilesKeep(p), MoverKeepsTo(p), ReqKeepsTo(p)
    PROVE  Plainly(p)'
<1>0. Typed'
  BY TypedNext
<1>1. \A t \in Tier : Has(t, p)' <=> Has(t, p)
  BY DEF Kept, Has, HasNext, HasFile
<1>2. /\ db[p] \in Tier \cup {Absent} /\ p \in Path /\ mover.t \in Tier /\ mover'.t \in Tier /\ req.t \in Tier /\ req'.t \in Tier
      /\ mover.pc # "idle" => mover.f.at[1] \in Tier
      /\ mover'.pc # "idle" => mover'.f.at[1] \in Tier
      /\ \A f \in files : f.meta \in Tier
      /\ \A f \in files' : f.meta \in Tier
  <2>1. db[p] \in Tier \cup {Absent} /\ p \in Path
    BY DEF Typed, DbTyped, Visible
  <2>2. mover.t \in Tier /\ \A f \in files : f.meta \in Tier
    BY DEF Typed, WorkTyped, MoverRec, FileRec
  <2>3. mover'.t \in Tier /\ \A f \in files' : f.meta \in Tier
    BY <1>0 DEF Typed, WorkTyped, MoverRec, FileRec
  <2>4. req.t \in Tier
    BY DEF Typed, ReqTyped, ReqRec
  <2>5. req'.t \in Tier
    BY <1>0 DEF Typed, ReqTyped, ReqRec
  <2>6. mover.pc # "idle" => mover.f.at[1] \in Tier
    BY LocOf DEF Typed, WorkTyped, FileRec
  <2>7. mover'.pc # "idle" => mover'.f.at[1] \in Tier
    BY <1>0, LocOf DEF Typed, WorkTyped, FileRec
  <2>. QED BY <2>1, <2>2, <2>3, <2>4, <2>5, <2>6, <2>7
<1>3. OneTier(p)'
  BY <1>1 DEF Plainly, OneTier
<1>4. Away(p)' <=> Away(p)
  BY DEF MoverKeepsTo, Away, Mine, Going, Early
<1>5. db'[p] = db[p] /\ (p \in past.fresh => p \in past'.fresh)
  BY DEF Kept
<1>6. Entered(p)'
  BY <1>1, <1>4, <1>5 DEF Plainly, Entered
<1>7. AtEntry(p)' => req' = req
  BY DEF ReqKeepsTo, AtNext, AtEntry
<1>8. AtEntry(p) => AtEntry(p)'
  BY DEF ReqKeepsTo, AtNext, AtEntry
<1>9. Settled(p)'
  <2>1. db[p] # Absent => (Has(db[p], p)' <=> Has(db[p], p))
    BY <1>1, <1>2, <1>5 DEF Has, HasFile
  <2>. QED BY <1>1, <1>4, <1>5, <1>8, <2>1 DEF Plainly, Settled
<1>10. Moves(p)'
  <2>1. CASE mover' = mover
    BY <1>1, <1>2, <2>1 DEF Plainly, Moves, Mine
  <2>2. CASE mover' # mover
    BY <1>1, <1>2, <2>2 DEF Plainly, Moves, Mine, MoverKeepsTo, Going, Early
  <2>. QED BY <2>1, <2>2
<1>11. InPass(p)'
  BY <1>1, <1>2, <1>4 DEF Plainly, InPass, FilesKeep
<1>12. Held(p)' => Held(p)
  BY DEF Held, FilesKeep
<1>13. Pending(p)'
  BY <1>1, <1>2, <1>7, <1>8, <1>12 DEF Plainly, Pending, ReqKeepsTo, AtNext, AtEntry
<1>. QED BY <1>3, <1>6, <1>9, <1>10, <1>11, <1>13 DEF Plainly

\* The requests that change the file or the entry p.
ChangesFile(p) ==
    \/ Unlink /\ p = req.p
    \/ Rename /\ p \in {req.p, req.q}
    \/ Link /\ p = req.q
    \/ RenameDir /\ Carries(req.t, req.p, req.q) /\ p[1] \in {req.p, req.q}
    \/ \E op \in Makings : Make(op, p)
ChangesEntry(p) ==
    \/ UnlinkEntry /\ p = req.p
    \/ RenameEntry /\ p \in {req.p, req.q}
    \/ CreateEntry /\ p = req.p
    \/ RenameKeys /\ p[1] \in {req.p, req.q}
WritesBack(p) == UpdateDb /\ \E f \in files : f.name = p /\ db'[p] = f.meta /\ files' = files \ {f}
\* The steps of the mover that do.
MovesFile(p) == (Remove \/ RenameTmp) /\ mover.f.name = p
MovesEntry(p) == (Record \/ ChangePath) /\ mover.f.name = p

LEMMA FileAt ==
    ASSUME Typed, [Next]_vars, NEW p \in Visible
    PROVE  (\A t \in Tier : HasNext(<<t, p>>) <=> Has(t, p)) \/ ChangesFile(p) \/ MovesFile(p)
<1>1. \A t \in Tier : <<t, p>> \in Loc
  BY DEF Loc, Visible
<1>2. Effect
  BY Steps
<1>3. p \in Path /\ p[3] = Plain
  BY DEF Visible
<1>4. CASE \A l \in Loc : Stays(l)
  BY <1>1, <1>4 DEF Stays, Has
<1>5. CASE RequestEffect /\ UNCHANGED worker
  <2>1. CASE Unlink /\ Erased(Here)
    BY <1>1, <2>1 DEF ChangesFile, Erased, Stays, Has, Here
  <2>2. CASE Rename /\ Shifts(Here, There)
    BY <1>1, <2>2 DEF ChangesFile, Shifts, Stays, Has, Here, There
  <2>3. CASE Link /\ Copies(Here, There)
    BY <1>1, <2>3 DEF ChangesFile, Copies, Stays, Has, There
  <2>4. CASE RenameDir /\ Carries(req.t, req.p, req.q)
    BY <1>1, <2>4 DEF ChangesFile, Carries, Stays, Has
  <2>5. ASSUME NEW op \in Makings, NEW q \in Visible, Make(op, q) /\ Makes(<<1, q>>)
        PROVE  (\A t \in Tier : HasNext(<<t, p>>) <=> Has(t, p)) \/ ChangesFile(p)
    BY <1>1, <2>5 DEF ChangesFile, Makes, Stays, Has
  <2>. QED BY <1>5, <2>1, <2>2, <2>3, <2>4, <2>5 DEF RequestEffect
<1>6. CASE WorkEffect /\ UNCHANGED <<req, counts>>
  <2>0. WorkTyped /\ mover.pc # "idle"
    BY <1>6, AtPc DEF Typed, WorkEffect
  <2>1. /\ Source[2] = mover.f.name /\ Tmp[2][3] = Hidden /\ RenameTo[2] \in {mover.f.name, ConflictName}
        /\ ConflictName[3] \in Tier
    BY <2>0, MoverLoc, RenameToShown
  <2>2. Plain \notin Tier /\ Plain # Hidden
    BY Names
  <2>3. CASE Remove /\ Erased(Source)
    BY <1>1, <2>1, <2>3 DEF MovesFile, Erased, Stays, Has
  <2>4. CASE RenameTmp /\ Shifts(Tmp, RenameTo)
    BY <1>1, <1>3, <2>1, <2>2, <2>4 DEF MovesFile, Shifts, Stays, Has
  <2>5. CASE Copy /\ Copies(Source, Tmp)
    BY <1>1, <1>3, <2>1, <2>2, <2>5 DEF Copies, Stays, Has
  <2>. QED BY <1>6, <2>3, <2>4, <2>5 DEF WorkEffect
<1>. QED BY <1>2, <1>4, <1>5, <1>6 DEF Effect

LEMMA EntryAt ==
    ASSUME Typed, [Next]_vars, NEW p \in Visible
    PROVE  db'[p] = db[p] \/ ChangesEntry(p) \/ MovesEntry(p) \/ WritesBack(p)
<1>0. p \in Path /\ p[3] = Plain /\ db \in [Path -> Tier \cup {Absent}]
  BY DEF Visible, Typed, DbTyped
<1>1. CASE db' = db
  BY <1>1
<1>2. CASE UnlinkEntry
  BY <1>0, <1>2 DEF UnlinkEntry, ChangesEntry
<1>3. CASE RenameEntry
  BY <1>0, <1>3 DEF RenameEntry, ChangesEntry
<1>4. CASE CreateEntry
  BY <1>0, <1>4 DEF CreateEntry, ChangesEntry
<1>5. CASE RenameKeys
  <2>1. p[1] # req.p /\ p[1] # req.q => db'[p] = db[p]
    BY <1>0, <1>5 DEF RenameKeys
  <2>. QED BY <1>5, <2>1 DEF ChangesEntry
<1>6. CASE Record
  BY <1>0, <1>6 DEF Record, MovesEntry
<1>7. CASE ChangePath
  <2>1. WorkTyped /\ mover.pc # "idle"
    BY <1>7 DEF ChangePath, At, Typed
  <2>2. ConflictName[3] \in Tier /\ Plain \notin Tier
    BY <2>1, MoverLoc, Names
  <2>3. db' = [db EXCEPT ![mover.f.name] = Absent, ![ConflictName] = mover.t]
    BY <1>7 DEF ChangePath
  <2>. QED BY <1>0, <1>7, <2>2, <2>3 DEF MovesEntry
<1>8. CASE UpdateDb
  <2>1. PICK f \in files : db' = [db EXCEPT ![f.name] = f.meta] /\ files' = files \ {f}
    BY <1>8 DEF UpdateDb
  <2>. QED BY <1>0, <1>8, <2>1 DEF WritesBack
<1>. QED BY <1>1, <1>2, <1>3, <1>4, <1>5, <1>6, <1>7, <1>8, DbSteps DEF DbRequest, DbWork

\* The Files a step leaves are those it found, or what the crawl has found.
LEMMA FilesLater ==
    ASSUME Typed, [Next]_vars, NEW CONSTANT g, g \in files', g.name \in Visible
    PROVE  \/ /\ Crawl /\ g.at = <<crawling, g.name>> /\ ~g.done /\ HasFile(g.at)
              /\ g.meta = IF db[g.name] = Absent THEN crawling ELSE db[g.name]
           \/ \E f \in files : /\ f.at = g.at /\ f.name = g.name /\ (~g.done => ~f.done)
                               /\ IF Record /\ g.at = Source THEN g.meta = mover.t ELSE g.meta = f.meta
<1>0. files \in SUBSET FileRec
  BY DEF Typed, WorkTyped
<1>1. CASE g \in files /\ ~Record
  BY <1>1
<1>2. CASE Crawl
  <2>1. g \in files \/ \E p \in Path : /\ HasFile(<<crawling, p>>)
                                       /\ g = [at |-> <<crawling, p>>, name |-> p, meta |-> IF db[p] = Absent THEN crawling ELSE db[p],
                                               time |-> file[<<crawling, p>>].time, done |-> FALSE]
    BY <1>2 DEF Crawl
  <2>2. ~Record
    BY <1>2 DEF Crawl, Record, At
  <2>3. ASSUME NEW p \in Path, HasFile(<<crawling, p>>),
               g = [at |-> <<crawling, p>>, name |-> p, meta |-> IF db[p] = Absent THEN crawling ELSE db[p],
                    time |-> file[<<crawling, p>>].time, done |-> FALSE]
        PROVE  /\ g.at = <<crawling, g.name>> /\ ~g.done /\ HasFile(g.at)
               /\ g.meta = IF db[g.name] = Absent THEN crawling ELSE db[g.name]
    <3>1. g.name = p
      BY <2>3
    <3>2. g.at = <<crawling, p>> /\ g.done = FALSE /\ g.meta = IF db[p] = Absent THEN crawling ELSE db[p]
      BY <2>3
    <3>. QED BY <2>3, <3>1, <3>2
  <2>. QED BY <1>1, <1>2, <2>1, <2>2, <2>3
<1>3. ASSUME NEW f \in files, NEW t \in Tier, MoveFile(f, t)
      PROVE  g \in files \/ \E x \in files : x.at = g.at /\ x.name = g.name /\ g.done /\ g.meta = x.meta
  <2>1. g \in files \/ g = [f EXCEPT !.done = TRUE]
    BY <1>3 DEF MoveFile
  <2>2. f \in FileRec
    BY <1>0
  <2>. QED BY <2>1, <2>2 DEF FileRec
<1>4. CASE Record
  <2>1. PICK f \in files : g = IF f.at = Source THEN [f EXCEPT !.meta = mover.t] ELSE f
    BY <1>4 DEF Record
  <2>2. f \in FileRec
    BY <1>0
  <2>3. f.at = g.at /\ f.name = g.name /\ (~g.done => ~f.done) /\ IF g.at = Source THEN g.meta = mover.t ELSE g.meta = f.meta
    BY <2>1, <2>2 DEF FileRec
  <2>. QED BY <1>4, <2>3
<1>5. CASE ChangePath
  <2>1. PICK f \in files : g = IF f.at = Source THEN [f EXCEPT !.name = ConflictName] ELSE f
    BY <1>5 DEF ChangePath
  <2>2. f \in FileRec
    BY <1>0
  <2>3. WorkTyped /\ mover.pc # "idle"
    BY <1>5 DEF ChangePath, At, Typed
  <2>4. ConflictName \notin Visible
    BY <2>3, MoverLoc, Names DEF Visible
  <2>5. g = f
    BY <2>1, <2>2, <2>4 DEF FileRec
  <2>6. ~Record
    BY <1>5 DEF ChangePath, Record, At
  <2>. QED BY <1>1, <2>5, <2>6
<1>6. CASE UpdateDb
  BY <1>1, <1>6 DEF UpdateDb, Record, At
<1>7. CASE files' = files
  BY <1>1, <1>4, <1>7
<1>8. CASE StartPass \/ Moving \/ Join \/ EndPass \/ UNCHANGED <<phase, crawling, files, mover>>
  BY <1>7, <1>8 DEF StartPass, Moving, Join, EndPass
<1>9. CASE Die
  BY <1>9 DEF Die
<1>10. ASSUME NEW f \in files, NEW t \in Tier, MoveFile(f, t) PROVE ~Record
  BY <1>10 DEF MoveFile, Record, At
<1>. QED BY <1>1, <1>2, <1>3, <1>4, <1>5, <1>6, <1>8, <1>9, <1>10, WorkSteps

\* A name made without an entry is remembered until it is made with one or a pass writes it.
LEMMA FreshAt ==
    ASSUME Typed, [Next]_vars, NEW p \in Visible, p \in past.fresh
    PROVE  p \in past'.fresh \/ ChangesFile(p) \/ WritesBack(p)
<1>. PICK h : h = past
  OBVIOUS
<1>0. h \in PastRec
  BY DEF Typed, PastTyped
<1>1. CASE past' = past
  BY <1>1
<1>2. CASE Unlink \/ UnlinkEntry \/ CreateEntry \/ OverwriteTimes \/ ChangePath
  <2>1. \/ \E A, B, C : past' = [h EXCEPT !.gone = A, !.stale = B, !.late = C]
        \/ \E A : past' = [h EXCEPT !.stale = A]
                  \/ past' = [h EXCEPT !.late = A] \/ past' = [h EXCEPT !.shadowed = A]
    <3>1. CASE Unlink
      BY <3>1 DEF Unlink
    <3>2. CASE UnlinkEntry \/ CreateEntry
      BY <3>2 DEF UnlinkEntry, CreateEntry
    <3>4. CASE OverwriteTimes
      BY <3>4 DEF OverwriteTimes
    <3>5. CASE ChangePath
      BY <3>5 DEF ChangePath
    <3>. QED BY <1>2, <3>1, <3>2, <3>4, <3>5
  <2>. QED BY <1>0, <2>1 DEF PastRec
<1>3. CASE Rename
  <2>1. \E A, B, C, D, E : past' = [h EXCEPT !.gone = A, !.hit = B, !.shadowed = C, !.stale = D, !.late = E]
    BY <1>3 DEF Rename
  <2>. QED BY <1>0, <2>1 DEF PastRec
<1>4. CASE RenameEntry \/ RenameKeys
  <2>1. \E B, C : past' = [h EXCEPT !.stale = B, !.fresh = @ \cup C]
    BY <1>4 DEF RenameEntry, RenameKeys
  <2>. QED BY <1>0, <2>1 DEF PastRec
<1>5. CASE Link
  <2>1. \E A, B, C, D : past' = [h EXCEPT !.fresh = @ \cup {req.q}, !.stale = A, !.shadowed = B, !.hit = C, !.late = D]
    BY <1>5 DEF Link
  <2>. QED BY <1>0, <2>1 DEF PastRec
<1>6. ASSUME NEW k \in Attr, Set(k) PROVE past'.fresh = past.fresh
  <2>1. \E w, e : past' = [h EXCEPT !.wanted = w, !.late = e]
    BY <1>6 DEF Set
  <2>. QED BY <1>0, <2>1 DEF PastRec
<1>7. ASSUME NEW op \in Makings, NEW q \in Visible, Make(op, q)
      PROVE  p \in past'.fresh \/ ChangesFile(p)
  <2>. PICK F : F = IF op = "create" THEN h.fresh \ {q} ELSE h.fresh \cup {q}
    OBVIOUS
  <2>1. \E A, B, C, D : past' = [h EXCEPT !.hit = A, !.fresh = F, !.shadowed = B, !.stale = C, !.late = D]
    BY <1>7 DEF Make
  <2>2. past'.fresh = F
    BY <1>0, <2>1 DEF PastRec
  <2>3. p = q => ChangesFile(p)
    BY <1>7 DEF ChangesFile
  <2>. QED BY <2>2, <2>3
<1>8. CASE Mkdir \/ Rmdir \/ SetDir \/ RenameDir
  <2>1. PICK ok, after : Turn(ok, after)
    BY <1>8 DEF Mkdir, Rmdir, SetDir, RenameDir
  <2>. PICK A, B, C, D, E :
          /\ A = h.torn \cup IF (~ok /\ req.t > 1) \/ (ok /\ req.op = "renamedir" /\ req.p \in h.torn)
                             THEN {req.p, req.q} ELSE {}
          /\ B = h.stale \cup IF ok /\ req.op = "renamedir" THEN StaleUnder(req.p, req.q) ELSE {}
          /\ C = (h.carried \/ (ok /\ req.op = "renamedir" /\ ~Working({"idle", "copy"}) /\ Tmp[1] = req.t /\ Tmp[2][1] = req.p))
          /\ D = (IF ok /\ req.op = "renamedir" THEN Split(1 .. made) ELSE h.late)
          /\ E = h.hit \cup IF ok /\ req.op = "renamedir"
                            THEN UNION {InPlace(<<req.t, q>>, Data(<<req.t, Moved(q, req.p)>>)) : q \in In(req.q)} ELSE {}
    OBVIOUS
  <2>2. past' = [h EXCEPT !.torn = A, !.stale = B, !.carried = C, !.late = D, !.hit = E]
    BY <2>1 DEF Turn
  <2>. QED BY <1>0, <2>2 DEF PastRec
<1>9. ASSUME NEW f \in files, NEW t, MoveFile(f, t) PROVE past'.fresh = past.fresh
  <2>1. \E D : past' = [h EXCEPT !.torn = D]
    BY <1>9 DEF MoveFile
  <2>. QED BY <1>0, <2>1 DEF PastRec
<1>10. CASE RenameTmp
  <2>1. \E A, B : past' = [h EXCEPT !.hit = A, !.late = B]
    BY <1>10 DEF RenameTmp
  <2>. QED BY <1>0, <2>1 DEF PastRec
<1>11. CASE UpdateDb
  <2>1. PICK f \in files : db' = [db EXCEPT ![f.name] = f.meta] /\ files' = files \ {f} /\ past' = [h EXCEPT !.fresh = @ \ {f.name}]
    BY <1>11 DEF UpdateDb
  <2>2. past'.fresh = h.fresh \ {f.name}
    BY <1>0, <2>1 DEF PastRec
  <2>3. f.name = p => db'[p] = f.meta
    BY <2>1 DEF Typed, DbTyped, Visible
  <2>. QED BY <1>11, <2>1, <2>2, <2>3 DEF WritesBack
<1>12. CASE Request
  <2>1. CASE CallFails \/ Stat
    BY <1>1, <2>1 DEF CallFails, Stat
  <2>2. CASE \/ \E op \in FileOps, x, y \in Visible : Lookup(op, x, y)
             \/ \E op \in DirChanges, d, e \in Dir : BeginDir(op, d, e)
    BY <1>1, <2>2 DEF Lookup, BeginDir
  <2>3. CASE \E op \in {"create", "mknod", "symlink"}, q \in Visible : Make(op, q)
    BY <1>7, <2>3 DEF Makings
  <2>4. CASE Truncate \/ Chmod \/ Chown \/ Setxattr \/ Removexattr \/ Utimens
    BY <1>6, <2>4 DEF Truncate, Chmod, Chown, Setxattr, Removexattr, Utimens, Attr
  <2>. QED BY <1>2, <1>3, <1>4, <1>5, <1>8, <1>12, <2>1, <2>2, <2>3, <2>4
           DEF Request, Access, Readlink, Lseek, Getxattr, Listxattr
<1>13. CASE Worker
  <2>1. CASE StartPass \/ Crawl \/ Copy \/ CopyFail \/ CopyMode \/ Remove \/ TestExists \/ Record \/ Join \/ EndPass
    BY <1>1, <2>1 DEF StartPass, Crawl, Copy, CopyFail, CopyMode, Remove, TestExists, Record, Join, EndPass
  <2>. QED BY <1>2, <1>9, <1>10, <1>11, <1>13, <2>1 DEF Worker
<1>14. CASE Die
  BY <1>14, DieMarks DEF Typed
<1>. QED BY <1>1, <1>12, <1>13, <1>14 DEF Next, Restart, vars

Concerns(p) == ChangesFile(p) \/ ChangesEntry(p) \/ MovesFile(p) \/ MovesEntry(p) \/ WritesBack(p)

LEMMA KeptAside ==
    ASSUME Typed, [Next]_vars, NEW p \in Visible, ~Concerns(p)
    PROVE  Kept(p)
BY FileAt, EntryAt, FreshAt DEF Concerns, Kept

\* While a request lasts, the names that movers took away are remembered.
LEMMA TakenGrows ==
    ASSUME [Next]_vars, req # NoReq, req' # NoReq
    PROVE  taken \subseteq taken'
<1>1. CASE Request
  <2>1. ASSUME NEW ok, NEW after, Turn(ok, after) PROVE taken' = taken
    BY <2>1 DEF Turn, Goto
  <2>2. CASE Mkdir \/ Rmdir \/ SetDir \/ RenameDir
    BY <2>1, <2>2 DEF Mkdir, Rmdir, SetDir, RenameDir
  <2>3. CASE \/ \E op \in FileOps, p, q \in Visible : Lookup(op, p, q)
             \/ \E op \in {"create", "mknod", "symlink"}, p \in Visible : Make(op, p)
             \/ \E op \in DirChanges, d, e \in Dir : BeginDir(op, d, e)
    BY <2>3 DEF Lookup, Make, BeginDir, Begin
  <2>4. CASE Unlink \/ Rename
    BY <2>4 DEF Unlink, Rename, UpdateNext, Goto
  <2>5. CASE CallFails \/ Stat \/ UnlinkEntry \/ RenameEntry \/ Link \/ CreateEntry \/ RenameKeys
    BY <2>5 DEF CallFails, Stat, UnlinkEntry, RenameEntry, Link, CreateEntry, RenameKeys, Finish, Goto
  <2>6. ASSUME NEW k, Set(k) PROVE FALSE
    BY <2>6 DEF Set, Finish, Goto
  <2>. QED BY <1>1, <2>2, <2>3, <2>4, <2>5, <2>6
           DEF Request, Access, Readlink, Lseek, Getxattr, Listxattr,
               Truncate, Chmod, Chown, Setxattr, Removexattr, Utimens
<1>2. CASE Worker
  BY <1>2 DEF Worker, Remove, RenameTmp, Take
<1>3. CASE Restart
  BY <1>3 DEF Restart, Finish, Goto
<1>. QED BY <1>1, <1>2, <1>3 DEF Next, vars

\* Only these requests change their step to or from the entry.
EntryBegins == (Unlink \/ Rename) /\ req' = [req EXCEPT !.step = "entry"]
EntryMade == \E p \in Visible : Make("create", p) /\ req' = [op |-> "create", step |-> "entry", p |-> p, q |-> p, t |-> 1]
EntryEnds == (UnlinkEntry \/ RenameEntry \/ CreateEntry) /\ req' = NoReq

LEMMA EntrySteps ==
    ASSUME Typed, [Next]_vars, req.step = "entry" \/ req'.step = "entry"
    PROVE  req' = req \/ Die \/ EntryBegins \/ EntryMade \/ EntryEnds
<1>. PICK r : r = req
  OBVIOUS
<1>0. r \in ReqRec /\ NoReq.step = "none" /\ NoReq.op = "none"
  BY DEF Typed, ReqTyped, NoReq
<1>1. ~(req.step = "call" /\ req' = NoReq) /\ ~(req.step = "keys" /\ req' = NoReq)
  BY <1>0
<1>2. CASE Request
  <2>1. CASE Mkdir \/ Rmdir \/ SetDir \/ RenameDir
    <3>1. req.op \in DirChanges /\ req.step = "call"
      BY <2>1 DEF Mkdir, Rmdir, SetDir, RenameDir, Calling, DirChanges
    <3>2. req' = NoReq \/ Turning \/ Turned
      BY <3>1, <2>1, ReqSteps, DirTurn DEF DirRequest, TurnTaken, Turned, Turning, DirChanges, Entering, ReqBegins, NoReq
    <3>3. [r EXCEPT !.t = @ + 1].step = r.step /\ [r EXCEPT !.step = "keys"].step = "keys"
      BY <1>0 DEF ReqRec
    <3>. QED BY <1>1, <3>1, <3>2, <3>3 DEF Turning, Turned
  <2>2. ASSUME NEW op \in FileOps, NEW p, NEW q, Lookup(op, p, q) PROVE FALSE
    BY <1>0, <2>2 DEF Lookup, Begin
  <2>3. ASSUME NEW op, NEW d, NEW e, BeginDir(op, d, e) PROVE FALSE
    <3>1. req = NoReq /\ req'.step = "call"
      BY <2>3 DEF BeginDir, Begin
    <3>. QED BY <1>0, <3>1
  <2>4. ASSUME NEW op \in {"create", "mknod", "symlink"}, NEW p \in Visible, Make(op, p) PROVE EntryMade
    <3>1. req = NoReq /\ req' = IF op = "create" THEN [op |-> op, step |-> "entry", p |-> p, q |-> p, t |-> 1] ELSE NoReq
      BY <2>4 DEF Make, Begin
    <3>2. op = "create"
      BY <1>0, <3>1
    <3>. QED BY <2>4, <3>1, <3>2 DEF EntryMade
  <2>5. CASE Unlink \/ Rename
    BY <2>5 DEF Unlink, Rename, UpdateNext, Goto, EntryBegins
  <2>6. CASE UnlinkEntry \/ RenameEntry \/ CreateEntry
    BY <2>6 DEF UnlinkEntry, RenameEntry, CreateEntry, Finish, Goto, EntryEnds
  <2>7. CASE CallFails \/ Stat \/ Link \/ RenameKeys
    BY <1>1, <2>7 DEF CallFails, Stat, Link, RenameKeys, Finish, Goto, Calling
  <2>8. ASSUME NEW k, Set(k) PROVE FALSE
    BY <1>1, <2>8 DEF Set, Finish, Goto, Calling
  <2>. QED BY <1>2, <2>1, <2>2, <2>3, <2>4, <2>5, <2>6, <2>7, <2>8
           DEF Request, Access, Readlink, Lseek, Getxattr, Listxattr,
               Truncate, Chmod, Chown, Setxattr, Removexattr, Utimens
<1>3. CASE Worker
  BY <1>3 DEF Worker
<1>4. CASE Restart
  BY <1>4 DEF Restart
<1>. QED BY <1>2, <1>3, <1>4 DEF Next, vars

LEMMA ReqAside ==
    ASSUME Typed, [Next]_vars, ~Die, NEW p \in Visible, ~ChangesFile(p), ~ChangesEntry(p)
    PROVE  ReqKeepsTo(p)
<1>. PICK r : r = req
  OBVIOUS
<1>0. r \in ReqRec /\ NoReq.step = "none"
  BY DEF Typed, ReqTyped, NoReq
<1>1. ~(req.step = "entry") /\ ~(req'.step = "entry") => ReqKeepsTo(p)
  BY DEF ReqKeepsTo, AtNext, AtEntry
<1>. SUFFICES ASSUME req.step = "entry" \/ req'.step = "entry" PROVE ReqKeepsTo(p)
  BY <1>1
<1>2. CASE req' = req
  <2>1. req # NoReq
    BY <1>0, <1>2
  <2>. QED BY <1>2, <2>1, TakenGrows DEF ReqKeepsTo, AtNext, AtEntry
<1>3. CASE EntryBegins
  <2>1. req.step = "call" /\ (Rename => p # req.p /\ p # req.q) /\ (Unlink => req.op = "unlink" /\ p # req.p)
    BY <1>3 DEF EntryBegins, Unlink, Rename, Calling, ChangesFile
  <2>2. req.op = "unlink" => req.p = req.q
    BY DEF Typed, ReqTyped
  <2>3. req'.p = req.p /\ req'.q = req.q
    BY <1>0, <1>3 DEF EntryBegins, ReqRec
  <2>4. p # req.p /\ p # req.q
    BY <1>3, <2>1, <2>2 DEF EntryBegins
  <2>. QED BY <2>3, <2>4 DEF ReqKeepsTo, AtNext, AtEntry
<1>4. CASE EntryMade
  <2>1. PICK q \in Visible : Make("create", q) /\ req' = [op |-> "create", step |-> "entry", p |-> q, q |-> q, t |-> 1]
    BY <1>4 DEF EntryMade
  <2>2. p # q /\ req = NoReq
    BY <2>1 DEF ChangesFile, Makings, Make, Begin
  <2>. QED BY <1>0, <2>1, <2>2 DEF ReqKeepsTo, AtNext, AtEntry
<1>5. CASE EntryEnds
  <2>1. (UnlinkEntry => req.op = "unlink" /\ p # req.p) /\ (RenameEntry => p # req.p /\ p # req.q)
        /\ (CreateEntry => req.op = "create" /\ p # req.p)
    BY DEF UnlinkEntry, RenameEntry, CreateEntry, ChangesEntry
  <2>2. req.op \in {"unlink", "create"} => req.p = req.q
    BY DEF Typed, ReqTyped
  <2>3. p # req.p /\ p # req.q /\ req' = NoReq
    BY <1>5, <2>1, <2>2 DEF EntryEnds
  <2>. QED BY <1>0, <2>3 DEF ReqKeepsTo, AtNext, AtEntry
<1>. QED BY <1>2, <1>3, <1>4, <1>5, EntrySteps

LEMMA MoverGone ==
    ASSUME [Next]_vars, mover' = NoMove, mover.pc \in {"removed", "tested", "renamed"}
    PROVE  Die
<1>0. NoMove.pc = "idle"
  BY DEF NoMove
<1>1. mover' # mover
  BY <1>0
<1>2. CASE Copy \/ CopyMode \/ Remove \/ RenameTmp \/ Record
  BY <1>2, <1>0 DEF Copy, CopyMode, Remove, RenameTmp, Record, At, MoveTo, NoMove
<1>3. CASE CopyFail \/ OverwriteTimes \/ ChangePath \/ TestExists
  BY <1>3, <1>0 DEF CopyFail, OverwriteTimes, ChangePath, TestExists, At, NoMove
<1>4. ASSUME NEW f, NEW t, MoveFile(f, t) PROVE FALSE
  BY <1>4 DEF MoveFile, At
<1>5. CASE StartPass \/ Crawl \/ Join \/ UpdateDb \/ EndPass
  BY <1>1, <1>5 DEF StartPass, Crawl, Join, UpdateDb, EndPass
<1>. QED BY <1>1, <1>2, <1>3, <1>4, <1>5 DEF Next, Request, Worker, Restart, worker, vars

LEMMA MoverAside ==
    ASSUME Typed, [Next]_vars, ~Die, NEW p \in Visible, Plainly(p), ~MovesFile(p), ~MovesEntry(p)
    PROVE  MoverKeepsTo(p)
<1>1. CASE mover' = mover
  BY <1>1 DEF MoverKeepsTo
<1>2. CASE MoverStops
  <2>1. ~Away(p)
    BY <1>2, MoverGone DEF MoverStops, Away
  <2>. QED BY <1>2, <2>1 DEF MoverStops, MoverKeepsTo
<1>3. CASE MoverBegins
  <2>1. PICK f \in files : \E t \in Tier : MoveFile(f, t) /\ mover'.pc = "copy" /\ mover'.f = f
    BY <1>3 DEF MoverBegins
  <2>2. mover.pc = "idle" /\ ~f.done
    BY <2>1 DEF MoveFile, At
  <2>3. ~Away(p)
    BY <2>2 DEF Away
  <2>4. f.name = p => Has(f.at[1], p)
    BY <2>2, <2>3 DEF Plainly, InPass
  <2>. QED BY <2>1, <2>3, <2>4 DEF MoverKeepsTo, Early
<1>4. CASE MoverStep
  <2>1. CASE ~Mine(p)
    <3>1. mover.f.name # p /\ mover'.f = mover.f
      BY <1>4, <2>1 DEF MoverStep, Going, Mine
    <3>. QED BY <2>1, <3>1 DEF MoverKeepsTo, Away
  <2>2. CASE Mine(p)
    <3>1. ~Remove /\ ~RenameTmp /\ ~Record
      BY <2>2 DEF MovesFile, MovesEntry, Mine
    <3>2. CASE Going("copy", "copied") \/ Going("copied", "remove")
      BY <2>2, <3>2 DEF Going, MoverKeepsTo, Early, Plainly, Moves, Mine, Away
    <3>3. CASE Going("removed", "tested") /\ mover'.clash = HasFile(Target)
      <4>1. ~Has(mover.t, p)
        BY <2>2, <3>3 DEF Going, Plainly, Moves, Mine, Typed, WorkTyped, MoverRec
      <4>2. Target = <<mover.t, p>>
        BY <2>2 DEF Mine, Target
      <4>. QED BY <2>2, <3>3, <4>1, <4>2 DEF MoverKeepsTo, Has
    <3>4. CASE Going("times", "change")
      BY <2>2, <3>4 DEF Going, MoverKeepsTo, Early, Mine, Away
    <3>. QED BY <1>4, <3>1, <3>2, <3>3, <3>4 DEF MoverStep
  <2>. QED BY <2>1, <2>2
<1>. QED BY <1>1, <1>2, <1>3, <1>4, MoverNext

\* The Files at the mover's source are its own.
LEMMA AtSource ==
    ASSUME WorkTyped, mover.pc # "idle", NEW f \in files, f.at = Source
    PROVE  f.name = mover.f.name /\ f.done
<1>1. PICK g \in files : g.at = mover.f.at /\ g.name = mover.f.name /\ g.done
  BY DEF WorkTyped
<1>2. f = g
  BY <1>1 DEF WorkTyped, Source
<1>. QED BY <1>1, <1>2

LEMMA FilesAside ==
    ASSUME Typed, [Next]_vars, ~Crawl, NEW p \in Visible, ~MovesEntry(p)
    PROVE  FilesKeep(p)
<1>. SUFFICES ASSUME NEW CONSTANT g, g \in files', g.name = p
              PROVE  \E f \in files : f.name = p /\ f.at = g.at /\ f.meta = g.meta /\ (~g.done => ~f.done)
  BY DEF FilesKeep
<1>1. PICK f \in files : /\ f.at = g.at /\ f.name = g.name /\ (~g.done => ~f.done)
                         /\ IF Record /\ g.at = Source THEN g.meta = mover.t ELSE g.meta = f.meta
  BY FilesLater
<1>2. Record => g.at # Source
  <2>. SUFFICES ASSUME Record, g.at = Source PROVE FALSE
    OBVIOUS
  <2>1. mover.pc # "idle" /\ WorkTyped
    BY DEF Record, At, Typed
  <2>2. f.name = mover.f.name
    BY <1>1, <2>1, AtSource
  <2>. QED BY <1>1, <2>2 DEF MovesEntry
<1>. QED BY <1>1, <1>2

LEMMA PlainAside ==
    ASSUME Typed, [Next]_vars, ~Die, ~Crawl, NEW CONSTANT p \in Visible, Plainly(p), ~Concerns(p)
    PROVE  Plainly(p)'
BY KeptAside, FilesAside, MoverAside, ReqAside, PlainSame DEF Concerns

(* Requests that change the file or the entry *)

LEMMA Unheld ==
    ASSUME Typed, UNCHANGED worker, NEW CONSTANT p, ~Held(p)
    PROVE  Moves(p)' /\ InPass(p)' /\ ~Held(p)' /\ ~Mine(p) /\ ~Away(p) /\ ~Away(p)'
<1>1. ~Mine(p)
  BY DEF Mine, Held, Typed, WorkTyped
<1>2. ~Mine(p)' /\ ~Held(p)'
  BY <1>1 DEF Mine, Held, worker
<1>. QED BY <1>1, <1>2 DEF Moves, InPass, Away, Held

LEMMA LaterHas == ASSUME NEW CONSTANT p PROVE \A t \in Tier : Has(t, p)' <=> HasNext(<<t, p>>)
BY DEF Has, HasNext, HasFile

LEMMA PlainUnlink ==
    ASSUME Typed, Unlink, UNCHANGED worker, NEW CONSTANT p \in Visible, p = req.p, p \notin past'.stale, Plainly(p)
    PROVE  Plainly(p)'
<1>1. req.op = "unlink" /\ HasFile(Here) /\ req' = [req EXCEPT !.step = "entry"] /\ db' = db
      /\ file' = [file EXCEPT ![Here] = Absent] /\ req.p = req.q
  BY DEF Unlink, Calling, UpdateNext, Goto, Typed, ReqTyped
<1>2. ~Held(p)
  BY Calm, Marks
<1>3. Here = <<req.t, p>> /\ Has(req.t, p) /\ req.t \in Tier
  BY <1>1 DEF Here, Has, Typed, ReqTyped, ReqRec
<1>4. \A t \in Tier : ~Has(t, p)'
  <2>1. \A t \in Tier : Has(t, p) => t = req.t
    BY <1>3 DEF Plainly, OneTier
  <2>2. \A t \in Tier : <<t, p>> \in Loc
    BY DEF Visible, Loc
  <2>3. \A t \in Tier : HasNext(<<t, p>>) => HasFile(<<t, p>>) /\ t # req.t
    BY <1>1, <1>3, <2>2 DEF HasNext, HasFile, Typed, FileTyped
  <2>. QED BY <2>1, <2>3, LaterHas DEF Has
<1>5. req'.step = "entry" /\ req'.op = "unlink" /\ req'.p = p
  BY <1>1 DEF Typed, ReqTyped, ReqRec
<1>6. OneTier(p)' /\ Entered(p)'
  BY <1>4 DEF OneTier, Entered
<1>7. Settled(p)' /\ Pending(p)'
  BY <1>2, <1>4, <1>5, Unheld DEF Settled, Pending, AtEntry
<1>. QED BY <1>2, <1>6, <1>7, Unheld DEF Plainly

LEMMA PlainUnlinkEntry ==
    ASSUME Typed, UnlinkEntry, UNCHANGED worker, NEW CONSTANT p \in Visible, p = req.p, p \notin past'.stale, Plainly(p)
    PROVE  Plainly(p)'
<1>1. req.op = "unlink" /\ req.step = "entry" /\ req' = NoReq /\ db' = [db EXCEPT ![p] = Absent] /\ file' = file
  BY DEF UnlinkEntry, Finish, Goto
<1>2. ~Held(p)
  BY Calm, Marks
<1>3. \A t \in Tier : ~Has(t, p)'
  BY <1>1 DEF Plainly, Pending, AtEntry, Has, HasFile
<1>4. db'[p] = Absent
  BY <1>1 DEF Typed, DbTyped, Visible
<1>5. OneTier(p)' /\ Entered(p)' /\ Settled(p)' /\ Pending(p)'
  BY <1>1, <1>3, <1>4 DEF OneTier, Entered, Settled, Pending, AtEntry, NoReq
<1>. QED BY <1>2, <1>5, Unheld DEF Plainly

LEMMA PlainRename ==
    ASSUME Typed, Rename, UNCHANGED worker, NEW CONSTANT p \in Visible, p \in {req.p, req.q},
           p \notin past'.stale, p \notin past'.shadowed, Plainly(p)
    PROVE  Plainly(p)'
<1>1. /\ req.op = "rename" /\ req.step = "call" /\ HasFile(Here) /\ req' = [req EXCEPT !.step = "entry"] /\ db' = db
      /\ file' = [file EXCEPT ![Here] = Absent, ![There] = file[Here]] \/ (HasFile(There) /\ file' = file)
      /\ req.p # req.q /\ req.p \in Path /\ req.q \in Path
  BY HereLoc DEF Rename, Calling, UpdateNext, Goto, Typed, ReqTyped, FileOps
<1>2. ~Held(p) /\ p \notin taken
  BY Calm, Marks
<1>3. Here = <<req.t, req.p>> /\ There = <<req.t, req.q>> /\ req.t \in Tier
  BY DEF Here, There, Typed, ReqTyped, ReqRec
<1>4. \A t \in Tier : <<t, p>> \in Loc
  BY DEF Visible, Loc
<1>5. req'.step = "entry" /\ req'.op = "rename" /\ req'.p = req.p /\ req'.q = req.q /\ req'.t = req.t
  BY <1>1 DEF Typed, ReqTyped, ReqRec
<1>6. ~AtEntry(p) /\ AtEntry(p)'
  BY <1>1, <1>5 DEF AtEntry
<1>7. Settled(p)'
  BY <1>6 DEF Settled
<1>8. db[p] # Absent => Has(db[p], p)
  BY <1>2, <1>6, Unheld DEF Plainly, Settled
<1>9. CASE p = req.p
  <2>1. \A t \in Tier : Has(t, p)' => Has(t, p)
    <3>1. \A t \in Tier : HasNext(<<t, p>>) => HasFile(<<t, p>>)
      BY <1>1, <1>3, <1>4, <1>9 DEF HasNext, HasFile, Typed, FileTyped
    <3>. QED BY <3>1, LaterHas DEF Has
  <2>2. \A t \in Tier : Has(t, p) => t = req.t
    BY <1>1, <1>3, <1>9 DEF Plainly, OneTier, Has
  <2>3. OneTier(p)' /\ Pending(p)'
    BY <2>1, <2>2, <1>1, <1>5, <1>9 DEF OneTier, Pending
  <2>4. Entered(p)'
    BY <1>1, <1>2, <2>1, Unheld DEF Plainly, Entered
  <2>. QED BY <1>2, <1>7, <2>3, <2>4, Unheld DEF Plainly
<1>10. CASE p = req.q
  <2>1. \A u \in Tier : Has(u, p) => u = req.t
    BY <1>10, Marks, Alone
  <2>2. \A t \in Tier : Has(t, p)' <=> t = req.t
    <3>1. file[Here] # Absent
      BY <1>1 DEF HasFile
    <3>2. \A t \in Tier : t # req.t => (HasNext(<<t, p>>) <=> HasFile(<<t, p>>))
      BY <1>1, <1>3, <1>4, <1>10 DEF HasNext, HasFile, Typed, FileTyped
    <3>3. HasNext(<<req.t, p>>)
      BY <1>1, <1>3, <1>4, <1>10, <3>1 DEF HasNext, HasFile, Typed, FileTyped
    <3>. QED BY <2>1, <3>2, <3>3, LaterHas DEF Has
  <2>3. OneTier(p)' /\ Pending(p)'
    BY <2>2, <1>1, <1>3, <1>5, <1>10 DEF OneTier, Pending
  <2>4. db[p] \in {req.t, Absent}
    BY <1>8, <2>1 DEF Typed, DbTyped, Visible
  <2>5. Entered(p)'
    BY <1>1, <2>2, <2>4 DEF Entered
  <2>. QED BY <1>2, <1>7, <2>3, <2>5, Unheld DEF Plainly
<1>. QED BY <1>9, <1>10

LEMMA PlainRenameEntry ==
    ASSUME Typed, RenameEntry, UNCHANGED worker, NEW CONSTANT p \in Visible, p \in {req.p, req.q},
           p \notin past'.stale, Plainly(p)
    PROVE  Plainly(p)'
<1>1. /\ req.op = "rename" /\ req.step = "entry" /\ req' = NoReq /\ file' = file
      /\ db' = [db EXCEPT ![req.p] = Absent, ![req.q] = req.t] /\ req.p # req.q
  BY DEF RenameEntry, Finish, Goto, Typed, ReqTyped
<1>2. ~Held(p) /\ p \notin taken
  BY Calm, Marks
<1>3. AtEntry(p) /\ ~AtEntry(p)' /\ req.t \in Tier
  BY <1>1 DEF AtEntry, NoReq, Typed, ReqTyped, ReqRec
<1>4. \A t \in Tier : Has(t, p)' <=> Has(t, p)
  BY <1>1 DEF Has, HasFile
<1>5. OneTier(p)' /\ Pending(p)'
  BY <1>3, <1>4 DEF Plainly, OneTier, Pending
<1>6. p \in Path /\ db \in [Path -> Tier \cup {Absent}]
  BY DEF Visible, Typed, DbTyped
<1>7. CASE p = req.p
  <2>1. db'[p] = Absent
    BY <1>1, <1>6, <1>7
  <2>2. \A t \in Tier : Has(t, p) => p \in past'.fresh
    <3>1. \A t \in Tier : Has(t, p) => t = req.t
      BY <1>1, <1>2, <1>3, <1>7 DEF Plainly, Pending
    <3>2. HasFile(Here) => p \in past'.fresh
      BY <1>7, Marks
    <3>. QED BY <1>7, <3>1, <3>2 DEF Has, Here
  <2>3. Entered(p)' /\ Settled(p)'
    BY <1>4, <2>1, <2>2 DEF Entered, Settled
  <2>. QED BY <1>2, <1>5, <2>3, Unheld DEF Plainly
<1>8. CASE p = req.q
  <2>1. db'[p] = req.t /\ req.t # Absent
    BY <1>1, <1>3, <1>6, <1>8, Names
  <2>2. Has(req.t, p)
    BY <1>1, <1>2, <1>3, <1>8 DEF Plainly, Pending
  <2>4. Entered(p)'
    BY <1>3, <1>4, <2>1, <2>2 DEF Entered, Plainly, OneTier
  <2>5. Settled(p)'
    BY <1>1, <2>1, <2>2 DEF Settled, Has, HasFile
  <2>. QED BY <1>2, <1>5, <2>4, <2>5, Unheld DEF Plainly
<1>. QED BY <1>7, <1>8

LEMMA PlainLink ==
    ASSUME Typed, Link, UNCHANGED worker, NEW CONSTANT p \in Visible, p = req.q,
           p \notin past'.stale, p \notin past'.shadowed, Plainly(p)
    PROVE  Plainly(p)'
<1>1. /\ req.op = "link" /\ req.step = "call" /\ HasFile(Here) /\ ~HasFile(There) /\ req' = NoReq /\ db' = db
      /\ file' = [file EXCEPT ![There] = file[Here]]
  BY DEF Link, Calling, Finish, Goto
<1>2. ~Held(p) /\ p \in past'.fresh
  BY Calm, Marks
<1>3. There = <<req.t, p>> /\ req.t \in Tier /\ \A t \in Tier : <<t, p>> \in Loc
  BY DEF There, Typed, ReqTyped, ReqRec, Visible, Loc
<1>4. \A t \in Tier : ~Has(t, p)
  <2>1. \A u \in Tier : Has(u, p) => u = req.t
    BY Marks, Alone
  <2>. QED BY <1>1, <1>3, <2>1 DEF Has
<1>5. \A t \in Tier : Has(t, p)' <=> t = req.t
  <2>1. file[Here] # Absent
    BY <1>1 DEF HasFile
  <2>2. \A t \in Tier : t # req.t => (HasNext(<<t, p>>) <=> HasFile(<<t, p>>))
    BY <1>1, <1>3 DEF HasNext, HasFile, Typed, FileTyped
  <2>3. HasNext(<<req.t, p>>)
    BY <1>1, <1>3, <2>1 DEF HasNext, HasFile, Typed, FileTyped
  <2>. QED BY <1>4, <2>2, <2>3, LaterHas DEF Has
<1>6. db'[p] = Absent
  <2>1. ~Away(p) /\ ~AtEntry(p)
    BY <1>1, <1>2, Unheld DEF AtEntry
  <2>2. db[p] # Absent => Has(db[p], p) /\ db[p] \in Tier
    BY <2>1 DEF Plainly, Settled, Typed, DbTyped, Visible
  <2>. QED BY <1>1, <1>4, <2>2
<1>7. OneTier(p)' /\ Entered(p)' /\ Settled(p)' /\ Pending(p)'
  BY <1>1, <1>2, <1>5, <1>6 DEF OneTier, Entered, Settled, Pending, AtEntry, NoReq
<1>. QED BY <1>2, <1>7, Unheld DEF Plainly

LEMMA PlainMake ==
    ASSUME Typed, NEW op \in Makings, NEW CONSTANT p \in Visible, Make(op, p), UNCHANGED worker,
           p \notin past'.stale, p \notin past'.shadowed, Plainly(p)
    PROVE  Plainly(p)'
<1>1. /\ req = NoReq /\ db' = db /\ SeesDir(p[1]) /\ ~Sees(p)
      /\ req' = IF op = "create" THEN [op |-> op, step |-> "entry", p |-> p, q |-> p, t |-> 1] ELSE NoReq
  BY DEF Make, Begin
<1>2. ~Held(p) /\ (op # "create" => p \in past'.fresh)
  BY Calm, Marks
<1>3. \A t \in Tier : <<t, p>> \in Loc
  BY DEF Visible, Loc
<1>4. \A u \in Tier : Has(u, p) => u = 1
  BY Marks, Alone
<1>5. \A t \in Tier : Has(t, p)' <=> t = 1
  <2>1. Makes(<<1, p>>)
    BY MakeEffect
  <2>2. \A t \in Tier : t # 1 => (HasNext(<<t, p>>) <=> HasFile(<<t, p>>))
    BY <1>3, <2>1 DEF Makes, Stays
  <2>. QED BY <1>4, <2>1, <2>2, LaterHas DEF Makes, Has
<1>6. db'[p] = Absent
  <2>1. ~Away(p) /\ ~AtEntry(p)
    BY <1>1, <1>2, Unheld DEF AtEntry, NoReq
  <2>2. db[p] # Absent => Has(db[p], p)
    BY <2>1 DEF Plainly, Settled
  <2>. QED BY <1>1, <2>2 DEF Sees, Has
<1>7. OneTier(p)' /\ Entered(p)'
  BY <1>5, <1>6 DEF OneTier, Entered
<1>8. CASE op = "create"
  <2>1. req'.step = "entry" /\ req'.op = "create" /\ req'.p = p /\ req'.q = p /\ req'.t = 1
    BY <1>1, <1>8
  <2>2. Has(1, p)'
    BY <1>5, Numbers
  <2>3. Settled(p)' /\ Pending(p)'
    BY <1>5, <2>1, <2>2 DEF Settled, Pending, AtEntry
  <2>. QED BY <1>2, <1>7, <2>3, Unheld DEF Plainly
<1>9. CASE op # "create"
  <2>1. Settled(p)' /\ Pending(p)'
    BY <1>1, <1>2, <1>6, <1>9 DEF Settled, Pending, AtEntry, NoReq
  <2>. QED BY <1>2, <1>7, <2>1, Unheld DEF Plainly
<1>. QED BY <1>8, <1>9

LEMMA PlainCreateEntry ==
    ASSUME Typed, CreateEntry, UNCHANGED worker, NEW CONSTANT p \in Visible, p = req.p, p \notin past'.stale, Plainly(p)
    PROVE  Plainly(p)'
<1>1. /\ req.op = "create" /\ req.step = "entry" /\ req' = NoReq /\ file' = file
      /\ db' = [db EXCEPT ![p] = IF @ = Absent THEN 1 ELSE @] /\ req.p = req.q /\ req.t = 1
  BY DEF CreateEntry, Finish, Goto, Typed, ReqTyped
<1>2. ~Held(p) /\ p \notin taken
  BY Calm, Marks
<1>3. AtEntry(p) /\ ~AtEntry(p)'
  BY <1>1 DEF AtEntry, NoReq
<1>4. \A t \in Tier : Has(t, p)' <=> Has(t, p)
  BY <1>1 DEF Has, HasFile
<1>5. Has(1, p)
  BY <1>1, <1>2, <1>3 DEF Plainly, Pending
<1>6. db'[p] = 1 /\ 1 # Absent
  <2>1. db[p] \in {1, Absent}
    BY <1>2, <1>5, Unheld, Numbers DEF Plainly, Entered
  <2>. QED BY <1>1, <2>1, Names, Numbers DEF Typed, DbTyped, Visible
<1>7. OneTier(p)' /\ Pending(p)'
  BY <1>3, <1>4 DEF Plainly, OneTier, Pending
<1>8. Entered(p)'
  BY <1>4, <1>5, <1>6, Numbers DEF Entered, Plainly, OneTier
<1>9. Settled(p)'
  BY <1>1, <1>5, <1>6 DEF Settled, Has, HasFile
<1>. QED BY <1>2, <1>7, <1>8, <1>9, Unheld DEF Plainly

(* Steps of the worker that change the file, the entry or the Files *)

LEMMA ReqStays ==
    ASSUME Typed, [Next]_vars, ~Die, ~UNCHANGED worker
    PROVE  req' = req /\ (req # NoReq => taken \subseteq taken')
<1>1. req' = req
  BY DEF Next, Request, Worker, Restart, vars, worker
<1>. QED BY <1>1, TakenGrows

LEMMA PlainCrawl ==
    ASSUME Typed, [Next]_vars, CrawlInv, Crawl, NEW CONSTANT p \in Visible, Plainly(p)
    PROVE  Plainly(p)'
<1>1. /\ phase = "crawl" /\ mover' = mover /\ file' = file /\ db' = db /\ past' = past /\ ~Die
      /\ ~UNCHANGED worker
  <2>1. phase' = "move" \/ crawling' = crawling + 1
    BY DEF Crawl
  <2>2. crawling \in Nat
    BY Numbers DEF Typed, WorkTyped
  <2>3. ~UNCHANGED worker
    BY <2>1, <2>2 DEF Crawl, worker
  <2>. QED BY <2>3 DEF Crawl, Die, At
<1>2. mover.pc = "idle"
  BY <1>1 DEF Typed, WorkTyped
<1>3. req' = req /\ (req # NoReq => taken \subseteq taken')
  BY <1>1, ReqStays
<1>4. ~Mine(p) /\ ~Away(p) /\ ~Mine(p)' /\ ~Away(p)'
  BY <1>1, <1>2 DEF Mine, Away
<1>5. \A t \in Tier : Has(t, p)' <=> Has(t, p)
  BY <1>1 DEF Has, HasFile
<1>6. OneTier(p)' /\ Entered(p)' /\ Moves(p)'
  BY <1>1, <1>4, <1>5 DEF Plainly, OneTier, Entered, Moves
<1>7. Settled(p)'
  BY <1>1, <1>3, <1>4 DEF Plainly, Settled, AtEntry, Has, HasFile
<1>8. ASSUME NEW CONSTANT g, g \in files', g.name = p
      PROVE  \/ \E f \in files : f.at = g.at /\ f.name = p /\ f.meta = g.meta
             \/ g.at = <<crawling, p>> /\ Has(crawling, p) /\ g.meta = crawling
  <2>1. CASE /\ g.at = <<crawling, g.name>> /\ HasFile(g.at)
             /\ g.meta = IF db[g.name] = Absent THEN crawling ELSE db[g.name]
    <3>1. Has(crawling, p) /\ crawling \in Tier
      BY <1>8, <2>1 DEF Has, Typed, WorkTyped
    <3>2. db[p] \in {crawling, Absent}
      BY <1>4, <3>1 DEF Plainly, Entered
    <3>. QED BY <1>8, <2>1, <3>1, <3>2
  <2>2. CASE \E f \in files : /\ f.at = g.at /\ f.name = g.name /\ (~g.done => ~f.done)
                              /\ IF Record /\ g.at = Source THEN g.meta = mover.t ELSE g.meta = f.meta
    <3>1. ~Record
      BY <1>1 DEF Record, At
    <3>. QED BY <1>8, <2>2, <3>1
  <2>. QED BY <1>8, <2>1, <2>2, FilesLater
<1>9. \A f \in files : f.name = p => f.meta = f.at[1] /\ Has(f.meta, p) /\ f.at = <<f.meta, p>> /\ f.meta \in Tier
  <2>. SUFFICES ASSUME NEW f \in files, f.name = p
                PROVE  f.meta = f.at[1] /\ Has(f.meta, p) /\ f.at = <<f.meta, p>> /\ f.meta \in Tier
    OBVIOUS
  <2>1. ~f.done /\ f.meta = f.at[1] /\ Has(f.meta, p)
    BY <1>1, <1>4 DEF CrawlInv, Plainly, InPass
  <2>2. f.at \in Loc /\ f.meta \in Tier /\ f.at[2] = p
    BY <2>1 DEF Typed, WorkTyped, FileRec
  <2>. QED BY <2>1, <2>2, LocOf
<1>10. \A g \in files' : g.name = p => g.at = <<g.meta, p>> /\ Has(g.meta, p) /\ g.meta \in Tier
  <2>1. crawling \in Tier
    BY DEF Typed, WorkTyped
  <2>. QED BY <1>8, <1>9, <2>1
<1>11. InPass(p)'
  <2>1. \A g \in files' : g.name = p => Has(g.meta, p)'
    BY <1>1, <1>10 DEF Has, HasFile
  <2>2. \A f, g \in files' : f.name = p /\ g.name = p => f.at = g.at
    BY <1>10 DEF Plainly, OneTier
  <2>. QED BY <1>10, <2>1, <2>2 DEF InPass
<1>12. Pending(p)'
  <2>. SUFFICES ASSUME AtEntry(p)' PROVE Pending(p)'
    BY DEF Pending
  <2>1. AtEntry(p) /\ req # NoReq /\ taken \subseteq taken'
    BY <1>3 DEF AtEntry, NoReq
  <2>2. req.op = "unlink" => ~Held(p)'
    BY <1>10, <2>1 DEF Plainly, Pending, Held
  <2>3. p \notin taken' => p \notin taken
    BY <2>1
  <2>4. req.t \in Tier
    BY DEF Typed, ReqTyped, ReqRec
  <2>5. Has(req.t, p) => Has(req.t, p)'
    BY <1>1, <1>3 DEF Has, HasFile
  <2>. QED BY <1>3, <1>5, <2>1, <2>2, <2>3, <2>5 DEF Plainly, Pending
<1>. QED BY <1>6, <1>7, <1>11, <1>12 DEF Plainly

LEMMA MineHeld == ASSUME WorkTyped, NEW p, Mine(p) PROVE Held(p)
BY DEF WorkTyped, Mine, Held

LEMMA PlainRemove ==
    ASSUME Typed, [Next]_vars, Remove, NEW CONSTANT p \in Visible, mover.f.name = p, Plainly(p)
    PROVE  Plainly(p)'
<1>1. /\ mover.pc = "remove" /\ mover' = [mover EXCEPT !.pc = "removed"] /\ file' = [file EXCEPT ![Source] = Absent]
      /\ db' = db /\ files' = files /\ past' = past /\ ~Die
  BY DEF Remove, At, MoveTo, Die
<1>2. mover'.pc = "removed" /\ mover'.f = mover.f /\ mover'.t = mover.t
  BY <1>1 DEF Typed, WorkTyped, MoverRec
<1>3. Mine(p) /\ Away(p)' /\ Mine(p)' /\ Held(p) /\ WorkTyped
  BY <1>1, <1>2, MineHeld DEF Mine, Away, Typed
<1>4. req' = req /\ (req # NoReq => p \in taken')
  <2>1. mover' # mover
    BY <1>1, <1>2
  <2>. QED BY <1>1, <2>1, ReqStays DEF worker, Remove, Take
<1>5. Source = <<mover.f.at[1], p>> /\ Source[1] = mover.f.at[1] /\ mover.f.at[1] \in Tier /\ Source \in Loc
  BY <1>1, MoverLoc, LocOf DEF Typed, Source
<1>6. \A t \in Tier : ~Has(t, p)'
  <2>1. \A t \in Tier : Has(t, p) => t = mover.f.at[1]
    BY <1>1, <1>3, <1>5 DEF Plainly, Moves, OneTier
  <2>2. \A t \in Tier : <<t, p>> \in Loc
    BY DEF Visible, Loc
  <2>3. \A t \in Tier : HasNext(<<t, p>>) => HasFile(<<t, p>>) /\ t # mover.f.at[1]
    BY <1>1, <1>5, <2>2 DEF HasNext, HasFile, Typed, FileTyped
  <2>. QED BY <2>1, <2>3, LaterHas DEF Has
<1>7. OneTier(p)' /\ Entered(p)' /\ Settled(p)'
  BY <1>3, <1>6 DEF OneTier, Entered, Settled
<1>8. Moves(p)'
  BY <1>2, <1>6 DEF Moves
<1>9. InPass(p)'
  BY <1>1, <1>3 DEF Plainly, InPass
<1>10. Pending(p)'
  <2>. SUFFICES ASSUME AtEntry(p)' PROVE Pending(p)'
    BY DEF Pending
  <2>1. AtEntry(p) /\ req # NoReq
    BY <1>4 DEF AtEntry, NoReq
  <2>. QED BY <1>3, <1>4, <2>1 DEF Plainly, Pending
<1>. QED BY <1>7, <1>8, <1>9, <1>10 DEF Plainly

LEMMA PlainRenameTmp ==
    ASSUME Typed, [Next]_vars, RenameTmp, NEW CONSTANT p \in Visible, mover.f.name = p, Plainly(p)
    PROVE  Plainly(p)'
<1>1. /\ mover.pc = "tested" /\ mover' = [mover EXCEPT !.pc = "renamed"] /\ HasFile(Tmp)
      /\ file' = [file EXCEPT ![RenameTo] = file[Tmp], ![Tmp] = Absent]
      /\ db' = db /\ files' = files /\ ~Die
  BY DEF RenameTmp, At, MoveTo, Die
<1>2. mover'.pc = "renamed" /\ mover'.f = mover.f /\ mover'.t = mover.t
  BY <1>1 DEF Typed, WorkTyped, MoverRec
<1>3. Mine(p) /\ Away(p)' /\ Mine(p)' /\ Held(p) /\ WorkTyped
  BY <1>1, <1>2, MineHeld DEF Mine, Away, Typed
<1>4. req' = req /\ (req # NoReq => p \in taken')
  <2>1. mover' # mover
    BY <1>1, <1>2
  <2>. QED BY <1>1, <2>1, ReqStays DEF worker, RenameTmp, Take
<1>5. RenameTo = <<mover.t, p>> /\ mover.t \in Tier /\ RenameTo \in Loc /\ Tmp \in Loc /\ Tmp[2] # p
  <2>1. ~mover.clash
    BY <1>1, <1>3 DEF Plainly, Moves
  <2>. QED BY <1>1, <1>3, <2>1, MoverLoc DEF RenameTo, Target
<1>6. \A t \in Tier : Has(t, p)' <=> t = mover.t
  <2>1. \A t \in Tier : ~Has(t, p)
    BY <1>1, <1>3 DEF Plainly, Moves
  <2>2. \A t \in Tier : <<t, p>> \in Loc /\ <<t, p>> # Tmp
    BY <1>5 DEF Visible, Loc
  <2>3. \A t \in Tier : t # mover.t => (HasNext(<<t, p>>) <=> HasFile(<<t, p>>))
    BY <1>1, <1>5, <2>2 DEF HasNext, HasFile, Typed, FileTyped
  <2>4. HasNext(<<mover.t, p>>)
    BY <1>1, <1>5, <2>2 DEF HasNext, HasFile, Typed, FileTyped
  <2>. QED BY <2>1, <2>3, <2>4, LaterHas DEF Has
<1>7. OneTier(p)' /\ Entered(p)' /\ Settled(p)'
  BY <1>3, <1>6 DEF OneTier, Entered, Settled
<1>8. Moves(p)'
  BY <1>2, <1>5, <1>6 DEF Moves
<1>9. InPass(p)'
  BY <1>1, <1>3 DEF Plainly, InPass
<1>10. Pending(p)'
  <2>. SUFFICES ASSUME AtEntry(p)' PROVE Pending(p)'
    BY DEF Pending
  <2>1. AtEntry(p) /\ req # NoReq
    BY <1>4 DEF AtEntry, NoReq
  <2>. QED BY <1>3, <1>4, <2>1 DEF Plainly, Pending
<1>. QED BY <1>7, <1>8, <1>9, <1>10 DEF Plainly

\* A request is between its two steps on p as before, and p stands where it stood.
LEMMA PendingSame ==
    ASSUME Typed, [Next]_vars, ~Die, ~UNCHANGED worker, file' = file, NEW CONSTANT p \in Visible, Plainly(p), Held(p)
    PROVE  Pending(p)'
<1>. SUFFICES ASSUME AtEntry(p)' PROVE Pending(p)'
  BY DEF Pending
<1>1. req' = req /\ AtEntry(p) /\ req # NoReq /\ taken \subseteq taken'
  BY ReqStays DEF AtEntry, NoReq
<1>2. \A t \in Tier : Has(t, p)' <=> Has(t, p)
  BY DEF Has, HasFile
<1>3. req.op # "unlink" /\ (p \notin taken' => p \notin taken)
  BY <1>1 DEF Plainly, Pending
<1>4. Has(req.t, p) => Has(req.t, p)'
  BY <1>1 DEF Has, HasFile
<1>. QED BY <1>1, <1>2, <1>3, <1>4 DEF Plainly, Pending

LEMMA PlainRecord ==
    ASSUME Typed, [Next]_vars, Record, NEW CONSTANT p \in Visible, mover.f.name = p, Plainly(p)
    PROVE  Plainly(p)'
<1>1. /\ mover.pc = "renamed" /\ mover' = [mover EXCEPT !.pc = "times"] /\ file' = file
      /\ db' = [db EXCEPT ![p] = mover.t] /\ ~Die
  BY DEF Record, At, MoveTo, Die
<1>2. mover'.pc = "times" /\ mover'.f = mover.f /\ mover'.t = mover.t /\ mover.t \in Tier /\ mover.t # Absent
  BY <1>1, Names DEF Typed, WorkTyped, MoverRec
<1>3. Mine(p) /\ ~Away(p)' /\ Held(p) /\ WorkTyped /\ Has(mover.t, p)
  BY <1>1, <1>2, MineHeld DEF Mine, Away, Typed, Plainly, Moves
<1>4. \A t \in Tier : Has(t, p)' <=> t = mover.t
  <2>1. \A t \in Tier : Has(t, p)' <=> Has(t, p)
    BY <1>1 DEF Has, HasFile
  <2>. QED BY <1>2, <1>3, <2>1 DEF Plainly, OneTier
<1>5. db'[p] = mover.t
  BY <1>1 DEF Typed, DbTyped, Visible
<1>6. Has(db[p], p)'
  BY <1>1, <1>3, <1>5 DEF Has, HasFile
<1>7. OneTier(p)' /\ Entered(p)' /\ Settled(p)'
  BY <1>2, <1>4, <1>5, <1>6 DEF OneTier, Entered, Settled
<1>8. Moves(p)'
  BY <1>2 DEF Moves
<1>9. \A g \in files' : g.name = p => g.at = Source /\ g.meta = mover.t /\ g.done
  <2>. SUFFICES ASSUME NEW CONSTANT g, g \in files', g.name = p PROVE g.at = Source /\ g.meta = mover.t /\ g.done
    OBVIOUS
  <2>1. ~Crawl
    BY <1>3 DEF Mine, Typed, WorkTyped, Crawl
  <2>2. PICK f \in files : /\ f.at = g.at /\ f.name = g.name /\ (~g.done => ~f.done)
                           /\ IF Record /\ g.at = Source THEN g.meta = mover.t ELSE g.meta = f.meta
    BY <2>1, FilesLater
  <2>3. PICK x \in files : x.at = Source /\ x.name = p
    BY <1>3 DEF WorkTyped, Mine, Source
  <2>4. f.at = Source
    BY <2>2, <2>3 DEF Plainly, InPass
  <2>5. f.done
    BY <1>3, <2>4, AtSource DEF Mine
  <2>. QED BY <2>2, <2>4, <2>5
<1>10. InPass(p)'
  <2>1. \A g \in files' : g.name = p => Has(g.meta, p)'
    BY <1>1, <1>3, <1>9 DEF Has, HasFile
  <2>2. \A f, g \in files' : f.name = p /\ g.name = p => f.at = g.at
    BY <1>9
  <2>. QED BY <1>9, <2>1, <2>2 DEF InPass
<1>11. Pending(p)'
  <2>1. ~UNCHANGED worker
    BY <1>1, <1>2 DEF worker
  <2>. QED BY <1>1, <1>3, <2>1, PendingSame
<1>. QED BY <1>7, <1>8, <1>10, <1>11 DEF Plainly

LEMMA PlainWriteBack ==
    ASSUME Typed, [Next]_vars, NEW CONSTANT p \in Visible, WritesBack(p), Plainly(p)
    PROVE  Plainly(p)'
<1>1. PICK f \in files : f.name = p /\ db'[p] = f.meta /\ files' = files \ {f}
  BY DEF WritesBack
<1>2. phase = "update" /\ file' = file /\ mover' = mover /\ ~Die
  BY DEF WritesBack, UpdateDb, Die, At
<1>3. Held(p) /\ mover.pc = "idle" /\ ~Away(p) /\ ~Away(p)' /\ ~Mine(p)'
  BY <1>1, <1>2 DEF Held, Away, Mine, Typed, WorkTyped
<1>4. \A t \in Tier : Has(t, p)' <=> Has(t, p)
  BY <1>2 DEF Has, HasFile
<1>5. Has(f.meta, p) /\ f.meta \in Tier /\ f.meta # Absent
  BY <1>1, <1>3, Names DEF Plainly, InPass, Typed, WorkTyped, FileRec
<1>6. OneTier(p)' /\ Moves(p)'
  BY <1>3, <1>4 DEF Plainly, OneTier, Moves
<1>7. Has(db[p], p)'
  BY <1>1, <1>2, <1>5 DEF Has, HasFile
<1>8. Entered(p)' /\ Settled(p)'
  BY <1>1, <1>4, <1>5, <1>7 DEF Entered, Settled, Plainly, OneTier
<1>9. InPass(p)'
  <2>1. \A g \in files' : g.name = p => Has(g.meta, p)'
    BY <1>1, <1>2, <1>3 DEF Plainly, InPass, Has, HasFile
  <2>. QED BY <1>1, <2>1 DEF Plainly, InPass
<1>10. Pending(p)'
  <2>1. ~UNCHANGED worker
    BY <1>1 DEF worker
  <2>. QED BY <1>2, <1>3, <2>1, PendingSame
<1>. QED BY <1>6, <1>8, <1>9, <1>10 DEF Plainly

(* All steps, for a name whose directory is not being renamed *)

LEMMA WorkerStays ==
    ASSUME Typed, [Next]_vars, ~Die, req' # req \/ made' # made
    PROVE  UNCHANGED worker
BY DEF Next, Request, Worker, Restart, vars, worker, counts

LEMMA DirRenamed ==
    ASSUME Typed, [Next]_vars, RenameDir
    PROVE  \/ Carries(req.t, req.p, req.q) /\ req' \in {[req EXCEPT !.t = @ + 1], [req EXCEPT !.step = "keys"]}
              /\ (req' # [req EXCEPT !.t = @ + 1] => req.t >= NTiers)
           \/ ~Carries(req.t, req.p, req.q) /\ file' = file /\ req' = NoReq /\ (req.t > 1 => {req.p, req.q} \subseteq past'.torn)
<1>. PICK ok : ok = (HasDir(req.t, req.p) /\ (HasDir(req.t, req.q) => EmptyDir(req.t, req.q)))
  OBVIOUS
<1>0. req.op = "renamedir" /\ req.step = "call" /\ req.p \in Dir /\ req.q \in Dir /\ req.t \in Nat /\ NTiers \in Nat
  BY Numbers DEF RenameDir, Calling, Typed, ReqTyped, ReqRec, DirChanges
<1>1. Turn(ok, [req EXCEPT !.step = "keys"])
  BY DEF RenameDir
<1>2. req' = IF ~ok THEN NoReq ELSE IF req.t < NTiers THEN [req EXCEPT !.t = @ + 1] ELSE [req EXCEPT !.step = "keys"]
  BY <1>1 DEF Turn, Goto
<1>3. CASE ok
  <2>1. Carries(req.t, req.p, req.q)
    <3>1. CASE dir' = dir /\ file' = file
      <4>1. dir' = [dir EXCEPT ![req.t][req.q] = dir[req.t][req.p], ![req.t][req.p] = Absent]
        BY <1>3 DEF RenameDir
      <4>2. dir'[req.t][req.p] = Absent
        BY <1>0, <4>1 DEF Typed, DirTyped, ReqTyped, ReqRec
      <4>3. dir[req.t][req.p] # Absent
        BY <1>0, <1>3, DirThere
      <4>. QED BY <3>1, <4>2, <4>3
    <3>. QED BY <3>1, RenameDirEffect
  <2>. QED BY <1>0, <1>2, <1>3, <2>1
<1>4. CASE ~ok
  <2>1. file' = file
    BY <1>4, RenameDirEffect DEF Carries
  <2>3. ~Carries(req.t, req.p, req.q)
    BY <1>4 DEF Carries
  <2>2. req.t > 1 => {req.p, req.q} \subseteq past'.torn
    BY <1>1, <1>4, TornTurn DEF Typed
  <2>. QED BY <1>2, <1>4, <2>1, <2>2, <2>3
<1>. QED BY <1>3, <1>4

LEMMA DiedNow == ASSUME Typed, Die PROVE past'.died
BY DieMarks DEF Typed

LEMMA MidBegins ==
    ASSUME Typed, RenameDir, NEW CONSTANT p, p[1] \in {req.p, req.q},
           req' \in {[req EXCEPT !.t = @ + 1], [req EXCEPT !.step = "keys"]}
    PROVE  Mid(p)'
<1>. PICK r : r = req
  OBVIOUS
<1>1. r \in ReqRec /\ r.op = "renamedir" /\ r.t \in Nat /\ r.t >= 1
  BY Numbers DEF Typed, ReqTyped, ReqRec, RenameDir, Calling, Tier
<1>2. req' \in {[r EXCEPT !.t = r.t + 1], [r EXCEPT !.step = "keys"]}
  OBVIOUS
<1>3. req'.op = "renamedir" /\ req'.p = r.p /\ req'.q = r.q /\ (req'.step = "keys" \/ req'.t = r.t + 1)
  BY <1>1, <1>2 DEF ReqRec
<1>. QED BY <1>1, <1>3 DEF Mid

LEMMA PlainStep ==
    ASSUME Typed, [Next]_vars, CrawlInv, NEW CONSTANT p \in Visible, ~Excused(p)', ~Mid(p)', ~Mid(p), Plainly(p)
    PROVE  Plainly(p)'
<1>1. ~Die /\ p \notin past'.stale /\ p \notin past'.shadowed /\ p[1] \notin past'.torn
  BY DiedNow DEF Excused
<1>. PICK r : r = req
  OBVIOUS
<1>2. r \in ReqRec /\ NoReq.step = "none" /\ NoReq.op = "none"
  BY DEF Typed, ReqTyped, NoReq
<1>3. CASE Crawl
  BY <1>3, PlainCrawl
<1>4. CASE ~Concerns(p) /\ ~Crawl
  BY <1>1, <1>4, PlainAside
<1>5. CASE ChangesFile(p)
  <2>1. CASE Unlink /\ p = req.p
    <3>1. req' = [r EXCEPT !.step = "entry"] /\ r.step = "call"
      BY <2>1 DEF Unlink, Calling, UpdateNext, Goto
    <3>2. req' # req
      BY <1>2, <3>1 DEF ReqRec
    <3>. QED BY <1>1, <2>1, <3>2, WorkerStays, PlainUnlink
  <2>2. CASE Rename /\ p \in {req.p, req.q}
    <3>1. req' = [r EXCEPT !.step = "entry"] /\ r.step = "call"
      BY <2>2 DEF Rename, Calling, UpdateNext, Goto
    <3>2. req' # req
      BY <1>2, <3>1 DEF ReqRec
    <3>. QED BY <1>1, <2>2, <3>2, WorkerStays, PlainRename
  <2>3. CASE Link /\ p = req.q
    <3>1. req' = NoReq /\ req.step = "call"
      BY <2>3 DEF Link, Calling, Finish, Goto
    <3>2. req' # req
      BY <1>2, <3>1
    <3>. QED BY <1>1, <2>3, <3>2, WorkerStays, PlainLink
  <2>4. CASE RenameDir /\ Carries(req.t, req.p, req.q) /\ p[1] \in {req.p, req.q}
    BY <2>4, DirRenamed, MidBegins
  <2>5. ASSUME NEW op \in Makings, Make(op, p) PROVE Plainly(p)'
    <3>1. made' = made + 1 /\ made \in Nat
      BY <2>5 DEF Make, Typed, CountsTyped
    <3>. QED BY <1>1, <2>5, <3>1, WorkerStays, PlainMake
  <2>. QED BY <1>5, <2>1, <2>2, <2>3, <2>4, <2>5 DEF ChangesFile
<1>6. CASE ChangesEntry(p)
  <2>1. UnlinkEntry \/ RenameEntry \/ CreateEntry => req' = NoReq /\ req.step = "entry"
    BY DEF UnlinkEntry, RenameEntry, CreateEntry, Finish, Goto
  <2>2. UnlinkEntry \/ RenameEntry \/ CreateEntry => UNCHANGED worker
    BY <1>1, <1>2, <2>1, WorkerStays
  <2>3. CASE RenameKeys /\ p[1] \in {req.p, req.q}
    BY <2>3 DEF RenameKeys, Mid
  <2>. QED BY <1>1, <1>6, <2>2, <2>3, PlainUnlinkEntry, PlainRenameEntry, PlainCreateEntry DEF ChangesEntry
<1>7. CASE MovesFile(p) \/ MovesEntry(p)
  BY <1>1, <1>7, PlainRemove, PlainRenameTmp, PlainRecord, Marks DEF MovesFile, MovesEntry
<1>8. CASE WritesBack(p)
  BY <1>8, PlainWriteBack
<1>. QED BY <1>3, <1>4, <1>5, <1>6, <1>7, <1>8 DEF Concerns

(* Names whose directory is being renamed: steps of the worker *)

\* What goes on is the renaming of a directory.
Renaming == req' = req /\ req.op = "renamedir"

LEMMA RenamingSteps ==
    ASSUME Typed, [Next]_vars, Renaming, NEW p \in Visible
    PROVE  ~ChangesFile(p) /\ ~ChangesEntry(p)
<1>. PICK r : r = req
  OBVIOUS
<1>0. r \in ReqRec /\ NoReq.op = "none" /\ r.op = "renamedir" /\ r.t \in Nat
  BY Numbers DEF Renaming, Typed, ReqTyped, ReqRec, NoReq
<1>1. ~Unlink /\ ~Rename /\ ~Link /\ ~UnlinkEntry /\ ~RenameEntry /\ ~CreateEntry
  BY DEF Renaming, Unlink, Rename, Link, UnlinkEntry, RenameEntry, CreateEntry, Calling
<1>2. ASSUME NEW op, NEW q, Make(op, q) PROVE FALSE
  BY <1>0, <1>2 DEF Make, Begin
<1>3. ~RenameKeys
  BY <1>0 DEF Renaming, RenameKeys, Finish, Goto
<1>4. ~(RenameDir /\ Carries(req.t, req.p, req.q))
  <2>1. [r EXCEPT !.t = r.t + 1].t = r.t + 1 /\ [r EXCEPT !.step = "keys"].step = "keys" /\ r.t + 1 # r.t
    BY <1>0 DEF ReqRec
  <2>2. RenameDir => r.step = "call"
    BY DEF RenameDir, Calling
  <2>3. RenameDir /\ Carries(req.t, req.p, req.q) => r \in {[r EXCEPT !.t = r.t + 1], [r EXCEPT !.step = "keys"]}
    BY DirRenamed DEF Renaming
  <2>. QED BY <2>1, <2>2, <2>3
<1>. QED BY <1>1, <1>2, <1>3, <1>4 DEF ChangesFile, ChangesEntry

LEMMA RenamingFile ==
    ASSUME Typed, [Next]_vars, Renaming, NEW p \in Visible, p \notin taken'
    PROVE  \A t \in Tier : HasNext(<<t, p>>) <=> Has(t, p)
<1>1. req # NoReq
  BY DEF Renaming, NoReq
<1>2. ~MovesFile(p)
  BY <1>1 DEF MovesFile, Remove, RenameTmp, Take
<1>. QED BY <1>2, RenamingSteps, FileAt

LEMMA RenamingEntry ==
    ASSUME Typed, [Next]_vars, Renaming, NEW p \in Visible, HeldAt(p)
    PROVE  \/ db'[p] = db[p] \/ db'[p] = Absent
           \/ db'[p] \in Tier /\ Has(db'[p], p)
<1>1. CASE MovesEntry(p)
  <2>1. ~Record
    BY <1>1 DEF MovesEntry, Record, At, HeldAt, Away, Mine
  <2>2. ChangePath /\ mover.f.name = p
    BY <1>1, <2>1 DEF MovesEntry
  <2>3. db' = [db EXCEPT ![mover.f.name] = Absent, ![ConflictName] = mover.t] /\ mover.pc # "idle"
    BY <2>2 DEF ChangePath, At
  <2>4. ConflictName # p
    BY <2>3, MoverLoc, Names DEF Typed, Visible
  <2>5. db'[p] = Absent
    BY <2>2, <2>3, <2>4 DEF Typed, DbTyped, Visible
  <2>. QED BY <2>5
<1>2. CASE WritesBack(p)
  BY <1>2 DEF WritesBack, HeldAt, Typed, WorkTyped, FileRec
<1>. QED BY <1>1, <1>2, RenamingSteps, EntryAt

LEMMA RenamingHeld ==
    ASSUME Typed, [Next]_vars, ~Die, Renaming, NEW CONSTANT p \in Visible, HeldAt(p), p \notin taken',
           \A t \in Tier : Has(t, p) /\ db[p] # Absent => Has(db[p], p)
    PROVE  HeldAt(p)'
<1>1. req # NoReq
  BY DEF Renaming, NoReq
<1>2. ~Away(p)'
  <2>1. ~Remove \/ mover.f.name # p
    BY <1>1 DEF Remove, Take
  <2>. QED BY <2>1, MoverNext DEF HeldAt, Away, Mine, MoverStops, MoverBegins, MoverStep, Going
<1>3. ASSUME NEW CONSTANT g, g \in files', g.name = p PROVE Has(g.meta, p) /\ g.meta \in Tier
  <2>1. CASE /\ g.at = <<crawling, g.name>> /\ HasFile(g.at)
             /\ g.meta = IF db[g.name] = Absent THEN crawling ELSE db[g.name]
    BY <1>3, <2>1 DEF Has, Typed, WorkTyped, DbTyped, Visible
  <2>2. CASE \E f \in files : /\ f.at = g.at /\ f.name = g.name /\ (~g.done => ~f.done)
                              /\ IF Record /\ g.at = Source THEN g.meta = mover.t ELSE g.meta = f.meta
    <3>1. PICK f \in files : /\ f.at = g.at /\ f.name = g.name /\ (~g.done => ~f.done)
                             /\ IF Record /\ g.at = Source THEN g.meta = mover.t ELSE g.meta = f.meta
      BY <2>2
    <3>2. ~(Record /\ f.at = Source)
      BY <1>3, <3>1, AtSource DEF Record, At, HeldAt, Away, Mine, Typed
    <3>. QED BY <1>3, <3>1, <3>2 DEF HeldAt, Typed, WorkTyped, FileRec
  <2>. QED BY <1>3, <2>1, <2>2, FilesLater
<1>4. ASSUME NEW CONSTANT g, g \in files', g.name = p PROVE Has(g.meta, p)'
  <2>1. \A t \in Tier : Has(t, p)' <=> Has(t, p)
    BY RenamingFile, LaterHas
  <2>. QED BY <1>3, <1>4, <2>1
<1>. QED BY <1>2, <1>4 DEF HeldAt

LEMMA MidStays ==
    ASSUME Typed, [Next]_vars, ~Die, Renaming, MidInv, NEW CONSTANT p \in Visible, Mid(p)
    PROVE  /\ p[1] = req'.p /\ p \notin taken' => Left(p)'
           /\ p[1] = req'.q /\ Whole(p)' => Carried(p)'
<1>0. req' = req /\ req.op = "renamedir" /\ req # NoReq /\ req.p \in Dir /\ req.q \in Dir /\ p \in Path
  BY DEF Renaming, NoReq, Typed, ReqTyped, DirChanges, Visible
<1>1. taken \subseteq taken'
  BY <1>0, TakenGrows
<1>2. ASSUME p[1] = req'.p, p \notin taken' PROVE Left(p)'
  <2>1. Left(p)
    BY <1>0, <1>1, <1>2 DEF MidInv
  <2>2. \A t \in Tier : Has(t, p)' <=> Has(t, p)
    BY <1>2, RenamingFile, LaterHas
  <2>. QED BY <1>0, <2>1, <2>2 DEF Left, Passed
<1>3. ASSUME p[1] = req'.q, Whole(p)' PROVE Carried(p)'
  <2>. PICK o : o = Old(p)
    OBVIOUS
  <2>0. o = Moved(p, req.p) /\ o = Old(p)' /\ o \in Visible /\ o[1] = req.p
    BY <1>0, MovedPath DEF Old
  <2>1. p \notin taken' /\ o \notin taken' /\ p \notin taken /\ o \notin taken
    BY <1>1, <1>3, <2>0 DEF Whole
  <2>2. Grows
    BY PastNext DEF PastFine
  <2>3. Whole(p)
    BY <1>3, <2>0, <2>1, <2>2 DEF Whole, Excused, Grows
  <2>4. Carried(p)
    BY <1>0, <1>3, <2>3 DEF MidInv
  <2>5. Mid(o)
    BY <1>0, <2>0 DEF Mid
  <2>6. Left(o)
    BY <2>0, <2>1, <2>5 DEF MidInv
  <2>7. \A t \in Tier : (Has(t, p)' <=> Has(t, p)) /\ (Has(t, o)' <=> Has(t, o))
    BY <2>0, <2>1, RenamingFile, LaterHas
  <2>8. \A t \in Tier : (Virt(t, p)' <=> Virt(t, p)) /\ (Has(t, o) => Virt(t, p))
    BY <1>0, <2>0, <2>6, <2>7 DEF Virt, Passed, Left
  <2>9. db[p] \in Tier \cup {Absent} /\ db[o] \in Tier \cup {Absent} /\ Absent \notin Tier
    BY <2>0, Names DEF Typed, DbTyped, Visible
  <2>10. HeldAt(p)'
    BY <2>1, <2>4, RenamingHeld DEF Carried
  <2>11. HeldAt(o)'
    <3>1. \A t \in Tier : Has(t, o) /\ db[o] # Absent => Has(db[o], o)
      BY <2>0, <2>4, <2>8, <2>9 DEF Carried
    <3>2. HeldAt(o)
      BY <2>0, <2>4 DEF Carried
    <3>. QED BY <2>0, <2>1, <3>1, <3>2, RenamingHeld
  <2>12. \A t, u \in Tier : Virt(t, p)' /\ Virt(u, p)' => t = u
    BY <2>4, <2>8 DEF Carried
  <2>13. db'[o] # Absent => db'[o] \in Tier /\ Virt(db'[o], p)
    BY <2>0, <2>4, <2>8, <2>9, RenamingEntry DEF Carried
  <2>14. db'[p] # Absent => db'[p] \in Tier /\ Has(db'[p], p)
    BY <2>4, <2>9, RenamingEntry DEF Carried
  <2>. PICK x, y : x = db'[o] /\ y = db'[p]
    OBVIOUS
  <2>15. x # Absent => Virt(x, p)'
    BY <2>8, <2>13
  <2>16. y # Absent => Has(y, p)'
    BY <2>7, <2>14
  <2>17. (db[Old(p)] # Absent => Virt(db[Old(p)], p))'
    BY <2>0, <2>15 DEF Virt, Passed, Has, HasFile
  <2>18. (db[p] # Absent => Has(db[p], p))'
    BY <2>16 DEF Has, HasFile
  <2>19. HeldAt(Old(p))'
    BY <2>0, <2>11 DEF HeldAt, Away, Mine, Has, HasFile
  <2>. QED BY <2>10, <2>12, <2>17, <2>18, <2>19 DEF Carried
<1>. QED BY <1>2, <1>3

(* Names whose directory is being renamed: a tier is done with *)

\* The end of the daemon ends the request.
LEMMA DieEnds == ASSUME [Next]_vars, Die PROVE req' = NoReq
<1>1. phase \in {"crawl", "move"} /\ phase' = "idle"
  BY DEF Die
<1>2. ~Request /\ ~UNCHANGED vars
  BY <1>1 DEF Request, worker, vars
<1>3. ~Worker
  BY <1>1 DEF Worker, StartPass, Crawl, Copy, CopyFail, CopyMode, TestExists, Record, OverwriteTimes, ChangePath,
              Join, UpdateDb, EndPass, Remove, RenameTmp, MoveFile, At
<1>. QED BY <1>2, <1>3 DEF Next, Restart, Finish, Goto

LEMMA DirTurned ==
    ASSUME Typed, [Next]_vars, RenameDir, Carries(req.t, req.p, req.q)
    PROVE  /\ req'.op = "renamedir" /\ req'.p = req.p /\ req'.q = req.q /\ req.step = "call" /\ req.op = "renamedir"
           /\ req.p \in Dir /\ req.q \in Dir /\ req.p # req.q /\ req.t \in Tier
           /\ \A t \in Tier : (Passed(t) <=> t < req.t) /\ (Passed(t)' <=> t <= req.t)
           /\ \A t \in Tier : t < req.t => req.t > 1
           /\ taken' = taken /\ db' = db /\ UNCHANGED worker /\ ~Die
<1>. PICK r : r = req
  OBVIOUS
<1>0. /\ r \in ReqRec /\ r.op = "renamedir" /\ r.step = "call" /\ r.t \in Nat /\ NTiers \in Nat /\ r.t \in Tier
      /\ r.p \in Dir /\ r.q \in Dir /\ r.p # r.q /\ NoReq.op = "none"
  BY Numbers DEF Typed, ReqTyped, ReqRec, RenameDir, Calling, DirChanges, NoReq
<1>1. req' \in {[r EXCEPT !.t = r.t + 1], [r EXCEPT !.step = "keys"]} /\ (req' # [r EXCEPT !.t = r.t + 1] => r.t >= NTiers)
  BY DirRenamed
<1>2. req'.op = "renamedir" /\ req'.p = r.p /\ req'.q = r.q
      /\ \/ req'.step = "keys" /\ r.t >= NTiers
         \/ req'.step = "call" /\ req'.t = r.t + 1
  BY <1>0, <1>1 DEF ReqRec
<1>3. \A t \in Tier : t \in Nat /\ t <= NTiers /\ t >= 1
  BY Numbers DEF Tier
<1>4. \A t \in Tier : (Passed(t) <=> t < req.t) /\ (Passed(t)' <=> t <= req.t)
  BY <1>0, <1>2, <1>3 DEF Passed
<1>5. req' # req /\ req' # NoReq
  BY <1>0, <1>2
<1>6. ~Die
  BY <1>5, DieEnds
<1>7. taken' = taken
  <2>1. \E ok, after : Turn(ok, after)
    BY DEF RenameDir
  <2>. QED BY <1>5, <2>1 DEF Turn, Goto
<1>8. db' = db
  BY DEF RenameDir
<1>9. \A t \in Tier : t < req.t => req.t > 1
  BY <1>0, <1>3
<1>. QED BY <1>0, <1>2, <1>4, <1>5, <1>6, <1>7, <1>8, <1>9, WorkerStays

LEMMA DirMoved ==
    ASSUME Typed, Housed, Carries(req.t, req.p, req.q), req.op = "renamedir", NEW p \in Visible
    PROVE  /\ p[1] = req.p => ~HasNext(<<req.t, p>>)
           /\ p[1] = req.q => /\ HasNext(<<req.t, p>>) <=> Has(req.t, Old(p))
                              /\ ~Has(req.t, p)
           /\ \A t \in Tier : t # req.t => (HasNext(<<t, p>>) <=> Has(t, p))
<1>0. req.t \in Tier /\ req.q \in Dir /\ \A t \in Tier : <<t, p>> \in Loc
  BY DEF Typed, ReqTyped, ReqRec, DirChanges, Visible, Loc
<1>1. p[1] = req.q => ~Has(req.t, p)
  BY <1>0 DEF Carries, Housed, EmptyDir, Has, Visible, In
<1>2. p[1] = req.q => (HasNext(<<req.t, p>>) <=> Has(req.t, Old(p)))
  BY <1>0 DEF Carries, Gets, Has, Old
<1>3. p[1] = req.p => ~HasNext(<<req.t, p>>)
  BY <1>0 DEF Carries
<1>4. \A t \in Tier : t # req.t => Stays(<<t, p>>)
  BY <1>0 DEF Carries
<1>. QED BY <1>1, <1>2, <1>3, <1>4 DEF Stays, Has

LEMMA LeftTurn ==
    ASSUME Typed, Housed, [Next]_vars, RenameDir, Carries(req.t, req.p, req.q), MidInv,
           NEW CONSTANT p \in Visible, p[1] = req.p, p \notin taken'
    PROVE  Left(p)'
<1>1. \A t \in Tier : (Passed(t) <=> t < req.t) /\ (Passed(t)' <=> t <= req.t)
  BY DirTurned
<1>2. req.op = "renamedir" /\ taken' = taken /\ req.t \in Tier /\ \A t \in Tier : t < req.t => Mid(p)
  BY DirTurned DEF Mid
<1>3. \A t \in Tier : t < req.t => ~Has(t, p)
  BY <1>1, <1>2 DEF MidInv, Left
<1>4. \A t \in Tier : t <= req.t => ~HasNext(<<t, p>>)
  <2>1. \A t \in Tier : t <= req.t => t < req.t \/ t = req.t
    BY <1>2, Numbers
  <2>2. \A t \in Tier : t < req.t => t # req.t
    BY <1>2, Numbers
  <2>. QED BY <1>2, <1>3, <2>1, <2>2, DirMoved
<1>. QED BY <1>1, <1>4, LaterHas DEF Left

\* What there was under both names before the first tier, or after some.
LEMMA CarriedBefore ==
    ASSUME Typed, [Next]_vars, RenameDir, Carries(req.t, req.p, req.q), MidInv, PlainInv,
           NEW CONSTANT p \in Visible, p[1] = req.q, Whole(p)'
    PROVE  /\ HeldAt(p) /\ HeldAt(Old(p)) /\ ~Held(p) /\ ~Held(Old(p))
           /\ \A t, u \in Tier : Virt(t, p) /\ Virt(u, p) => t = u
           /\ db[Old(p)] # Absent => Virt(db[Old(p)], p)
           /\ db[p] # Absent => Has(db[p], p)
<1>. PICK o : o = Old(p)
  OBVIOUS
<1>0. /\ req'.op = "renamedir" /\ req'.p = req.p /\ req'.q = req.q /\ req.step = "call" /\ req.op = "renamedir"
      /\ req.p \in Dir /\ req.q \in Dir /\ req.p # req.q /\ req.t \in Tier /\ taken' = taken
  BY DirTurned
<1>1. o = Old(p)' /\ o = Moved(p, req.p) /\ o \in Visible /\ o[1] = req.p
  BY <1>0, MovedPath DEF Old, Visible
<1>2. ~Excused(p)' /\ p \notin past'.stale /\ o \notin past'.stale \cup past'.shadowed /\ p \notin taken /\ o \notin taken
  BY <1>0, <1>1 DEF Whole, Excused
<1>3. Grows /\ ~Excused(p)
  BY <1>2, PastNext DEF PastFine, Grows, Excused
<1>4. ~Held(p) /\ ~Held(o)
  BY <1>0, <1>1, <1>2, Marks, CalmUnder
<1>5. HeldAt(p) /\ HeldAt(o)
  BY <1>4, MineHeld DEF HeldAt, Held, Away, Typed
<1>6. CASE req.t > 1
  <2>1. Mid(p) /\ Whole(p)
    BY <1>0, <1>1, <1>2, <1>3, <1>6 DEF Mid, Whole, Grows
  <2>. QED BY <1>1, <1>4, <1>5, <2>1 DEF MidInv, Carried
<1>7. CASE ~(req.t > 1)
  <2>1. ~Mid(p) /\ ~Mid(o)
    BY <1>0, <1>7 DEF Mid
  <2>2. ~Excused(o)
    <3>1. req.q \notin past'.torn
      BY <1>2 DEF Excused
    <3>2. req.p \notin past.torn
      BY <3>1, Marks
    <3>. QED BY <1>1, <1>2, <1>3, <3>2 DEF Excused, Grows
  <2>3. Plainly(p) /\ Plainly(o)
    BY <1>1, <1>3, <2>1, <2>2 DEF PlainInv
  <2>4. ~AtEntry(p) /\ ~AtEntry(o)
    BY <1>0 DEF AtEntry
  <2>5. \A t \in Tier : ~Passed(t)
    BY <1>0, <1>7, Numbers DEF Passed, Tier
  <2>6. db[o] \in Tier \cup {Absent}
    BY <1>1 DEF Typed, DbTyped, Visible
  <2>7. (db[p] # Absent => Has(db[p], p)) /\ (db[o] # Absent => Has(db[o], o))
    BY <1>5, <2>3, <2>4 DEF Plainly, Settled, HeldAt
  <2>8. \A t \in Tier : Virt(t, p) <=> Has(t, o)
    BY <1>1, <2>5 DEF Virt
  <2>9. \A t, u \in Tier : Virt(t, p) /\ Virt(u, p) => t = u
    BY <2>3, <2>8 DEF Plainly, OneTier
  <2>10. db[o] # Absent => Virt(db[o], p)
    BY <2>6, <2>7, <2>8
  <2>. QED BY <1>1, <1>4, <1>5, <2>7, <2>9, <2>10
<1>. QED BY <1>6, <1>7

LEMMA CarriedTurn ==
    ASSUME Typed, Housed, [Next]_vars, RenameDir, Carries(req.t, req.p, req.q), MidInv, PlainInv,
           NEW CONSTANT p \in Visible, p[1] = req.q, Whole(p)'
    PROVE  Carried(p)'
<1>. PICK o, n : o = Old(p) /\ n = req.t
  OBVIOUS
<1>0. /\ req'.p = req.p /\ req.op = "renamedir" /\ req.p \in Dir /\ req.p # req.q /\ n \in Tier
      /\ db' = db /\ UNCHANGED worker
      /\ \A t \in Tier : (Passed(t) <=> t < n) /\ (Passed(t)' <=> t <= n)
  BY DirTurned
<1>1. o = Old(p)' /\ o = Moved(p, req.p) /\ o \in Visible /\ o[1] = req.p
  BY <1>0, MovedPath DEF Old, Visible
<1>2. /\ ~Held(p) /\ ~Held(o)
      /\ \A t, u \in Tier : Virt(t, p) /\ Virt(u, p) => t = u
      /\ db[o] # Absent => Virt(db[o], p)
      /\ db[p] # Absent => Has(db[p], p)
  BY <1>1, CarriedBefore
<1>3. HeldAt(p)' /\ HeldAt(o)'
  BY <1>0, <1>2, Unheld DEF HeldAt, Held
<1>4. /\ \A t \in Tier : t # n => (Has(t, p)' <=> Has(t, p)) /\ (Has(t, o)' <=> Has(t, o))
      /\ (Has(n, p)' <=> Has(n, o)) /\ ~Has(n, p)
  <2>1. /\ \A t \in Tier : t # n => (HasNext(<<t, p>>) <=> Has(t, p))
        /\ HasNext(<<n, p>>) <=> Has(n, o)
        /\ ~Has(n, p)
    BY <1>0, <1>1, DirMoved
  <2>2. \A t \in Tier : t # n => (HasNext(<<t, o>>) <=> Has(t, o))
    BY <1>0, <1>1, DirMoved
  <2>3. Has(n, p)' <=> HasNext(<<n, p>>)
    BY DEF Has, HasNext, HasFile
  <2>. QED BY <2>1, <2>2, <2>3, LaterHas
<1>5. ASSUME NEW CONSTANT t \in Tier PROVE Virt(t, p)' <=> Virt(t, p)
  <2>0. t \in Nat /\ n \in Nat
    BY <1>0, Numbers
  <2>1. t < n \/ t = n \/ t > n
    BY <2>0
  <2>2. Virt(t, p)' <=> IF Passed(t)' THEN Has(t, p)' ELSE Has(t, o)'
    BY <1>1 DEF Virt, Has, HasFile
  <2>3. Virt(t, p) <=> IF Passed(t) THEN Has(t, p) ELSE Has(t, o)
    BY <1>1 DEF Virt
  <2>4. CASE t = n
    <3>1. Passed(t)' /\ ~Passed(t)
      BY <1>0, <2>0, <2>4
    <3>2. Has(t, p)' <=> Has(n, p)'
      BY <2>4 DEF Has, HasFile
    <3>. QED BY <1>4, <2>2, <2>3, <2>4, <3>1, <3>2
  <2>5. CASE t # n
    <3>1. Passed(t)' <=> Passed(t)
      BY <1>0, <2>0, <2>1, <2>5
    <3>. QED BY <1>4, <2>2, <2>3, <2>5, <3>1
  <2>. QED BY <2>4, <2>5
<1>6. db[o] \in Tier \cup {Absent} /\ db[p] \in Tier \cup {Absent}
  BY <1>1 DEF Typed, DbTyped, Visible
<1>. PICK x, y : x = db[o] /\ y = db[p]
  OBVIOUS
<1>7. (\A t, u \in Tier : Virt(t, p) /\ Virt(u, p) => t = u)'
  BY <1>2, <1>5
<1>8. (db[Old(p)] # Absent => Virt(db[Old(p)], p))'
  <2>1. x # Absent => Virt(x, p)'
    BY <1>2, <1>5, <1>6
  <2>. QED BY <1>0, <1>1, <2>1 DEF Virt, Passed, Has, HasFile
<1>9. (db[p] # Absent => Has(db[p], p))'
  <2>1. y # Absent => Has(y, p)'
    BY <1>2, <1>4, <1>6
  <2>. QED BY <1>0, <2>1 DEF Has, HasFile
<1>10. HeldAt(Old(p))'
  BY <1>1, <1>3 DEF HeldAt, Away, Mine, Has, HasFile
<1>. QED BY <1>3, <1>7, <1>8, <1>9, <1>10 DEF Carried

\* A directory rename is under way because it was, or because a tier is done with.
LEMMA MidComes ==
    ASSUME Typed, [Next]_vars, NEW CONSTANT p \in Visible, Mid(p)'
    PROVE  \/ Renaming /\ Mid(p) /\ ~Die
           \/ RenameDir /\ Carries(req.t, req.p, req.q)
<1>. PICK r : r = req
  OBVIOUS
<1>0. /\ r \in ReqRec /\ NoReq.op = "none" /\ NoReq.t = 1 /\ (r.op \in DirChanges => r.step \in {"call", "keys"})
      /\ (r.op = "renamedir" => r.p \in Dir)
  BY DEF Typed, ReqTyped, NoReq, DirChanges
<1>1. req'.op = "renamedir" /\ (req'.step = "keys" \/ req'.t > 1)
  BY DEF Mid
<1>2. CASE req' = req
  <2>1. ~Die
    BY <1>0, <1>1, <1>2, DieEnds
  <2>. QED BY <1>1, <1>2, <2>1 DEF Renaming, Mid
<1>3. CASE req' # req
  <2>1. ~Entering
    <3>1. r.op \in {"unlink", "rename"} => [r EXCEPT !.step = "entry"].op # "renamedir"
      BY <1>0 DEF ReqRec
    <3>. QED BY <1>1, <3>1 DEF Entering
  <2>2. ~ReqBegins
    <3>1. ASSUME NEW op \in FileOps, NEW a, NEW b, Lookup(op, a, b) PROVE FALSE
      BY <1>1, <3>1 DEF Lookup, Begin, FileOps, Attr
    <3>2. ASSUME NEW op, NEW a, Make(op, a) PROVE FALSE
      BY <1>0, <1>1, <3>2 DEF Make, Begin
    <3>3. ASSUME NEW op, NEW d, NEW e, BeginDir(op, d, e) PROVE FALSE
      <4>1. req' = [op |-> op, step |-> "call", p |-> d, q |-> e, t |-> 1]
        BY <3>3 DEF BeginDir, Begin
      <4>. QED BY <1>1, <4>1
    <3>. QED BY <3>1, <3>2, <3>3 DEF ReqBegins
  <2>3. CASE Turning \/ Turned
    <3>1. r.op = "renamedir" /\ r.step = "call"
      <4>1. CASE Turning
        <5>1. r.step = "call" /\ req' = [r EXCEPT !.t = r.t + 1]
          BY <4>1 DEF Turning
        <5>. QED BY <1>0, <1>1, <5>1 DEF ReqRec
      <4>2. CASE Turned
        <5>. QED BY <4>2 DEF Turned
      <4>. QED BY <2>3, <4>1, <4>2
    <3>2. RenameDir \/ Die
      <4>1. InLoop
        BY <3>1 DEF InLoop, DirChanges
      <4>2. ~Mkdir /\ ~Rmdir /\ ~SetDir
        BY <3>1 DEF Mkdir, Rmdir, SetDir, Calling
      <4>. QED BY <1>3, <4>1, <4>2, LoopGoesOn DEF DirRequest
    <3>3. req' # NoReq
      BY <1>0, <1>1
    <3>4. ~Die
      BY <3>3, DieEnds
    <3>. QED BY <3>2, <3>3, <3>4, DirRenamed
  <2>. QED BY <1>0, <1>1, <1>3, <2>1, <2>2, <2>3, ReqSteps
<1>. QED BY <1>2, <1>3

LEMMA MidNext == Typed /\ Housed /\ MidInv /\ PlainInv /\ [Next]_vars => MidInv'
<1>. SUFFICES ASSUME Typed, Housed, MidInv, PlainInv, [Next]_vars, NEW CONSTANT p \in Visible, Mid(p)'
              PROVE  /\ p[1] = req'.p /\ p \notin taken' => Left(p)'
                     /\ p[1] = req'.q /\ Whole(p)' => Carried(p)'
  BY DEF MidInv
<1>1. CASE Renaming /\ Mid(p) /\ ~Die
  BY <1>1, MidStays
<1>2. CASE RenameDir /\ Carries(req.t, req.p, req.q)
  <2>1. req'.p = req.p /\ req'.q = req.q
    BY <1>2, DirTurned
  <2>. QED BY <1>2, <2>1, LeftTurn, CarriedTurn
<1>. QED BY <1>1, <1>2, MidComes

(* A directory rename ends *)

LEMMA KeysGoOn ==
    ASSUME Typed, [Next]_vars, req.op = "renamedir", req.step = "keys"
    PROVE  RenameKeys \/ Die \/ req' = req
<1>1. CASE Request
  <2>1. req # NoReq
    BY DEF NoReq
  <2>2. ~(\E op \in FileOps, q, s \in Visible : Lookup(op, q, s))
        /\ ~(\E op \in {"create", "mknod", "symlink"}, q \in Visible : Make(op, q))
        /\ ~(\E op \in DirChanges, d, e \in Dir : BeginDir(op, d, e))
    BY <2>1 DEF Lookup, Make, BeginDir, Begin
  <2>3. ~CallFails /\ ~Stat /\ ~Unlink /\ ~UnlinkEntry /\ ~Rename /\ ~RenameEntry /\ ~Link /\ ~CreateEntry
        /\ ~Mkdir /\ ~Rmdir /\ ~SetDir /\ ~RenameDir
    BY DEF CallFails, Stat, Unlink, UnlinkEntry, Rename, RenameEntry, Link, CreateEntry, Mkdir, Rmdir, SetDir, RenameDir, Calling, FileOps, Attr
  <2>4. ~Truncate /\ ~Chmod /\ ~Chown /\ ~Setxattr /\ ~Removexattr /\ ~Utimens
    BY DEF Truncate, Chmod, Chown, Setxattr, Removexattr, Utimens, Set, Calling
  <2>. QED BY <1>1, <2>2, <2>3, <2>4 DEF Request, Access, Readlink, Lseek, Getxattr, Listxattr
<1>2. CASE Worker
  BY <1>2 DEF Worker
<1>3. CASE Restart
  BY <1>3 DEF Restart
<1>. QED BY <1>1, <1>2, <1>3 DEF Next, vars

\* A rename that ends without the entries leaves the directories torn.
LEMMA MidEnds ==
    ASSUME Typed, [Next]_vars, NEW CONSTANT p, Mid(p), ~Mid(p)', ~Excused(p)'
    PROVE  RenameKeys /\ UNCHANGED worker
<1>0. req.op = "renamedir" /\ req.step \in {"call", "keys"} /\ p[1] \in {req.p, req.q} /\ (req.step = "call" => req.t > 1)
  BY DEF Mid, Typed, ReqTyped, DirChanges
<1>1. ~Die
  BY DiedNow DEF Excused
<1>2. req' # req
  BY DEF Mid
<1>3. CASE req.step = "call"
  <2>1. RenameDir
    <3>1. InLoop
      BY <1>0, <1>3 DEF InLoop, DirChanges
    <3>2. ~Mkdir /\ ~Rmdir /\ ~SetDir
      BY <1>0 DEF Mkdir, Rmdir, SetDir, Calling
    <3>. QED BY <1>1, <1>2, <3>1, <3>2, LoopGoesOn DEF DirRequest
  <2>2. {req.p, req.q} \subseteq past'.torn
    BY <1>0, <1>3, <2>1, DirRenamed, MidBegins
  <2>. QED BY <1>0, <2>2 DEF Excused
<1>4. CASE req.step = "keys"
  BY <1>0, <1>1, <1>2, <1>4, KeysGoOn, WorkerStays
<1>. QED BY <1>0, <1>3, <1>4

LEMMA PlainKeys ==
    ASSUME Typed, MidInv, [Next]_vars, NEW CONSTANT p \in Visible, Mid(p), ~Mid(p)', ~Excused(p)'
    PROVE  Plainly(p)'
<1>1. /\ RenameKeys /\ UNCHANGED worker /\ req.step = "keys" /\ req' = NoReq /\ file' = file
      /\ req.p \in Dir /\ req.q \in Dir /\ req.p # req.q
  BY MidEnds DEF RenameKeys, Finish, Goto, Typed, ReqTyped, DirChanges
<1>2. p \in Path /\ p[1] \in {req.p, req.q} /\ p \notin past'.stale
  BY DEF Mid, Visible, Excused
<1>. PICK o : o = Old(p)
  OBVIOUS
<1>3. o = Moved(p, req.p) /\ o \in Visible /\ o \in Path
  BY <1>1, <1>2, MovedPath DEF Old, Visible
<1>4. ~Held(p) /\ p \notin taken
  BY <1>1, <1>2, Marks, CalmBefore, CalmUnder
<1>5. ~AtEntry(p)'
  BY <1>1 DEF AtEntry, NoReq
<1>6. \A t \in Tier : Has(t, p)' <=> Has(t, p)
  BY <1>1 DEF Has, HasFile
<1>7. OneTier(p)' /\ Entered(p)' /\ Settled(p)'
  <2>1. CASE p[1] = req.p
    <3>1. \A t \in Tier : ~Has(t, p)
      BY <1>1, <1>4, <2>1 DEF MidInv, Left, Passed
    <3>2. db'[p] = Absent
      BY <1>1, <1>2, <2>1 DEF RenameKeys
    <3>. QED BY <1>6, <3>1, <3>2 DEF OneTier, Entered, Settled
  <2>2. CASE p[1] = req.q
    <3>1. p \notin past.stale \cup past.shadowed /\ o \notin taken /\ o \notin past.stale \cup past.shadowed
      BY <1>1, <1>2, <1>3, <2>2, Marks, CalmUnder
    <3>2. ~Excused(p)
      <4>1. Grows
        BY PastNext DEF PastFine
      <4>. QED BY <4>1 DEF Grows, Excused
    <3>3. Whole(p)
      BY <1>3, <1>4, <3>1, <3>2 DEF Whole
    <3>4. Carried(p)
      BY <2>2, <3>3 DEF MidInv
    <3>5. \A t : Virt(t, p) <=> Has(t, p)
      BY <1>1 DEF Virt, Passed
    <3>6. \A t, u \in Tier : Has(t, p) /\ Has(u, p) => t = u
      BY <3>4, <3>5 DEF Carried
    <3>. PICK x, y : x = db[o] /\ y = db[p]
      OBVIOUS
    <3>7. x \in Tier \cup {Absent} /\ y \in Tier \cup {Absent} /\ (x # Absent => Has(x, p)) /\ (y # Absent => Has(y, p))
      BY <1>2, <1>3, <3>4, <3>5 DEF Carried, Typed, DbTyped
    <3>8. db'[p] = IF x # Absent THEN x ELSE y
      BY <1>1, <1>2, <1>3, <2>2 DEF RenameKeys
    <3>9. db'[p] = Absent => p \in past'.fresh
      <4>1. db'[p] = Absent => db[Moved(p, req.p)] = Absent
        BY <1>3, <3>8
      <4>2. {q \in In(req.q) \cap Visible : db[Moved(q, req.p)] = Absent} \subseteq past'.fresh
        BY <1>1, Marks
      <4>3. p \in In(req.q) \cap Visible
        BY <1>2, <2>2 DEF In
      <4>. QED BY <4>1, <4>2, <4>3
    <3>. PICK z : z = db'[p]
      OBVIOUS
    <3>10. z \in Tier \cup {Absent} /\ (z # Absent => Has(z, p))
      BY <3>7, <3>8
    <3>11. Entered(p)' /\ OneTier(p)'
      BY <1>6, <3>6, <3>10 DEF Entered, OneTier
    <3>12. z # Absent => Has(z, p)'
      BY <1>6, <3>10
    <3>13. db'[p] # Absent => Has(db[p], p)'
      BY <3>12 DEF Has, HasFile
    <3>14. Settled(p)'
      BY <3>9, <3>13 DEF Settled
    <3>. QED BY <3>11, <3>14
  <2>. QED BY <1>2, <2>1, <2>2
<1>8. Moves(p)' /\ InPass(p)'
  BY <1>1, <1>4, Unheld
<1>9. Pending(p)'
  BY <1>5 DEF Pending
<1>. QED BY <1>7, <1>8, <1>9 DEF Plainly

LEMMA PlainNext == Typed /\ PlainInv /\ MidInv /\ CrawlInv /\ [Next]_vars => PlainInv'
<1>. SUFFICES ASSUME Typed, PlainInv, MidInv, CrawlInv, [Next]_vars,
                     NEW CONSTANT p \in Visible, ~Excused(p)', ~Mid(p)'
              PROVE  Plainly(p)'
  BY DEF PlainInv
<1>1. ~Excused(p)
  BY PastNext DEF PastFine, Grows, Excused
<1>. QED BY <1>1, PlainStep, PlainKeys DEF PlainInv

LEMMA CrawlNext == Typed /\ CrawlInv /\ [Next]_vars => CrawlInv'
<1>. SUFFICES ASSUME Typed, CrawlInv, [Next]_vars, phase' = "crawl", NEW CONSTANT f, f \in files' PROVE ~f.done
  BY DEF CrawlInv
<1>1. CASE StartPass
  BY <1>1 DEF StartPass, Typed, WorkTyped
<1>2. CASE Crawl
  <2>. PICK t : t = crawling
    OBVIOUS
  <2>1. files' = files \cup
          {[at |-> <<t, p>>, name |-> p, meta |-> IF db[p] = Absent THEN t ELSE db[p],
            time |-> file[<<t, p>>].time, done |-> FALSE] :
           p \in {q \in Path : HasFile(<<t, q>>) /\ ~file[<<t, q>>].sym}}
    BY <1>2 DEF Crawl
  <2>2. CASE f \in files
    BY <1>2, <2>2 DEF Crawl, CrawlInv
  <2>3. CASE f \notin files
    <3>1. \E p \in Path : f = [at |-> <<t, p>>, name |-> p, meta |-> IF db[p] = Absent THEN t ELSE db[p],
                              time |-> file[<<t, p>>].time, done |-> FALSE]
      BY <2>1, <2>3
    <3>. QED BY <3>1
  <2>. QED BY <2>2, <2>3
<1>3. CASE UNCHANGED <<phase, crawling, files, mover>>
  BY <1>3 DEF CrawlInv
<1>4. ~(\E g \in files, t \in Tier : MoveFile(g, t)) /\ ~Moving /\ ~Record /\ ~ChangePath /\ ~Join /\ ~UpdateDb /\ ~EndPass
      /\ ~Die
  BY DEF MoveFile, Moving, Record, ChangePath, Join, UpdateDb, EndPass, Die, At
<1>. QED BY <1>1, <1>2, <1>3, <1>4, WorkSteps

LEMMA PlainInit == Init => PlainInv /\ CrawlInv /\ MidInv
<1>. SUFFICES ASSUME Init PROVE PlainInv /\ CrawlInv /\ MidInv
  OBVIOUS
<1>1. req = NoReq /\ files = {} /\ mover = NoMove /\ phase = "idle" /\ NoMove.pc = "idle"
      /\ NoReq.op = "none" /\ NoReq.step = "none"
  BY DEF Init, NoReq, NoMove
<1>2. CrawlInv /\ MidInv
  BY <1>1 DEF CrawlInv, MidInv, Mid
<1>3. PICK S \in SUBSET {p \in Visible : HasDir(1, p[1])} :
        /\ Cardinality(S) <= OldFiles /\ made = Cardinality(S)
        /\ \E where \in [S -> Tier], id \in [S -> 1 .. Cardinality(S)] :
            /\ \A p, q \in S : id[p] = id[q] => p = q
            /\ file = [l \in Loc |-> IF l[2] \in S /\ where[l[2]] = l[1]
                                     THEN NewFile(id[l[2]], FALSE) ELSE Absent]
            /\ db = [p \in Path |-> IF p \in S THEN where[p] ELSE Absent]
  BY DEF Init
<1>4. ASSUME NEW p \in Visible PROVE \A t \in Tier : Has(t, p) <=> db[p] = t
  <2>1. PICK where \in [S -> Tier], id \in [S -> 1 .. Cardinality(S)] :
            /\ file = [l \in Loc |-> IF l[2] \in S /\ where[l[2]] = l[1]
                                     THEN NewFile(id[l[2]], FALSE) ELSE Absent]
            /\ db = [q \in Path |-> IF q \in S THEN where[q] ELSE Absent]
    BY <1>3
  <2>2. \A t \in Tier : <<t, p>> \in Loc /\ p \in Path
    BY DEF Visible, Loc
  <2>3. Cardinality(S) \in Nat
    BY OldFinite, FS_CardinalityType
  <2>4. p \in S => NewFile(id[p], FALSE) # Absent
    <3>1. p \in S => NewFile(id[p], FALSE) \in Inode
      BY <1>3, <2>3, Numbers DEF NewFile, Inode, Value
    <3>. QED BY <3>1, NotInode
  <2>5. \A t \in Tier : Has(t, p) <=> p \in S /\ where[p] = t
    BY <2>1, <2>2, <2>4 DEF Has, HasFile
  <2>6. \A t \in Tier : db[p] = t <=> p \in S /\ where[p] = t
    BY <2>1, <2>2, Names
  <2>. QED BY <2>5, <2>6
<1>5. PlainInv
  <2>. SUFFICES ASSUME NEW p \in Visible PROVE Plainly(p)
    BY DEF PlainInv
  <2>0. db[p] \in Tier \cup {Absent}
    BY TypedInit DEF Typed, DbTyped, Visible
  <2>1. OneTier(p) /\ Entered(p)
    BY <1>4 DEF OneTier, Entered
  <2>2. db[p] = Absent => \A t \in Tier : ~Has(t, p)
    BY <1>4, Names
  <2>3. Settled(p)
    BY <1>4, <2>0, <2>2 DEF Settled
  <2>. QED BY <1>1, <2>1, <2>3 DEF Plainly, Moves, Mine, InPass, Pending, AtEntry
<1>. QED BY <1>2, <1>5

FoundInv == Typed /\ Housed /\ PlainInv /\ CrawlInv /\ MidInv

LEMMA FoundInit == Init => FoundInv
BY TypedInit, HousedInit, PlainInit DEF FoundInv

LEMMA FoundNext == FoundInv /\ [Next]_vars => FoundInv'
BY TypedNext, HousedNext, PlainNext, CrawlNext, MidNext DEF FoundInv

LEMMA SettledNow ==
    ASSUME FoundInv, NEW p \in Visible, ~Busy(p), ~Excused(p)
    PROVE  /\ db[p] # Absent => Has(db[p], p)
           /\ \A t \in Tier : Has(t, p) /\ db[p] = Absent => p \in past.fresh
<1>1. ~AtEntry(p) /\ ~Mid(p) /\ ~Away(p)
  BY DEF Busy, AtEntry, Mid, Away, Mine, Working, DirChanges
<1>2. Settled(p)
  BY <1>1 DEF FoundInv, PlainInv, Plainly
<1>. QED BY <1>1, <1>2 DEF Settled

LEMMA GhostNow == FoundInv => NoGhost
BY SettledNow DEF NoGhost, Has

LEMMA FindNow == FoundInv /\ AgreeInv => Findable
<1>. SUFFICES ASSUME FoundInv, AgreeInv, NEW l \in Tier \X Visible, HasFile(l),
                     ~Busy(l[2]), ~Excused(l[2]), l[2] \notin past.fresh
              PROVE  Sees(l[2])
  BY DEF Findable
<1>. PICK t \in Tier, p \in Visible : l = <<t, p>>
  OBVIOUS
<1>1. Has(t, p) /\ ~Busy(p) /\ ~Excused(p) /\ p \notin past.fresh /\ l[2] = p
  BY DEF Has
<1>2. db[p] # Absent /\ Has(db[p], p)
  BY <1>1, SettledNow
<1>3. SeesDir(p[1])
  <2>1. p[1] \in Dir /\ 1 \in Tier /\ l \in Loc
    BY PathOf, Numbers DEF Visible, Loc
  <2>2. dir[t][p[1]] # Absent
    BY <2>1, DirThere DEF FoundInv, Housed
  <2>3. dir[t][p[1]] = dir[1][p[1]]
    <3>1. DirsAgree
      BY AgreeNow DEF FoundInv
    <3>. QED BY <1>1, <2>1, <3>1 DEF DirsAgree, Busy, Excused
  <2>. QED BY <2>1, <2>2, <2>3, DirThere DEF SeesDir
<1>. QED BY <1>1, <1>2, <1>3 DEF Sees, Has

\* Between requests and moves an entry names a tier that has the file: unlink, rename and
\* the renaming of directories leave nothing of the old name, and neither a move nor what
\* update_db writes back brings an entry back for a name nobody changed during the pass.
THEOREM NoGhosts == Spec => []NoGhost
BY FoundInit, FoundNext, GhostNow, PTL DEF Spec

\* getattr finds every regular file under its name: the first tier has its directory, and
\* its entry names its tier, once a pass has stored the entry that mknod, link or a rename
\* did not.
THEOREM FilesFound == Spec => []Findable
<1>1. Init => AgreeInv
  BY AgreeInit
<1>2. FoundInv /\ AgreeInv /\ [Next]_vars => AgreeInv'
  BY AgreeNext DEF FoundInv
<1>. QED BY <1>1, <1>2, FoundInit, FoundNext, FindNow, PTL DEF Spec
-----------------------------------------------------------------------------
(* Files keep the attributes that applications set *)

\* Attribute k of file i is, or will be, what the application set last, if it was set in time.
Right(i, k, x) == i \in past.late[k] \/ x = past.wanted[i][k]
RightNext(i, k, x) == i \in past'.late[k] \/ x = past'.wanted[i][k]

\* The copy is right: its length as soon as it is made, the rest as far as the mover is.
CopyRight == Working({"copied", "remove", "removed", "tested"}) /\ ~past.carried =>
    LET i == file[Tmp].data IN
    /\ Right(i, "cut", file[Tmp].cut) /\ Right(i, "time", mover.f.time)
    /\ IF mover.pc = "copied" THEN i \in past.late["mode"] \/ (HasFile(Source) /\ file[Source].data = i)
       ELSE Right(i, "mode", file[Tmp].mode)
\* So are the times that the pass has crawled of a file it may still move, that the mover
\* will read beside, and that it will restore.
CrawlRight == \A f \in files : ~f.done /\ f.name \in Visible /\ HasFile(f.at) => Right(file[f.at].data, "time", f.time)
SourceRight == mover.pc = "copy" /\ HasFile(Source) => Right(file[Source].data, "time", mover.f.time)
RestoreRight == Working({"renamed", "times"}) /\ ~mover.clash /\ HasFile(Target) =>
    Right(file[Target].data, "time", mover.f.time)
Unset == \A i \in FileId, k \in Attr : i > made => past.wanted[i][k] = 0

AttrInv == AttributesKept /\ CopyRight /\ CrawlRight /\ SourceRight /\ RestoreRight /\ Unset

\* What the operations note of the files they change.
LEMMA LateMarks ==
    ASSUME Typed
    PROVE  /\ Unlink => past'.wanted = past.wanted /\ past'.late = Split(Data(Here))
           /\ Rename => past'.wanted = past.wanted /\ past'.late = Split(Data(Here) \cup Data(There))
           /\ Link => past'.wanted = past.wanted /\ past'.late = [k \in Attr |-> past.late[k] \cup {file[Here].data}]
           /\ \A op, p : Make(op, p) => /\ past'.wanted = past.wanted
                                        /\ past'.late = Split(Data(<<1, p>>) \cup {i \in {made + 1} : Held(p)})
           /\ RenameDir => /\ past'.wanted = past.wanted
                           /\ IF Carries(req.t, req.p, req.q) THEN past'.late = Split(1 .. made)
                              ELSE past'.late \in {past.late, Split(1 .. made)}
           /\ \A k \in Attr : Set(k) =>
                 /\ past'.wanted = [past.wanted EXCEPT ![file[Here].data][k] = 1]
                 /\ past'.late = [past.late EXCEPT ![k] = IF TooLate(file[Here].data, k) THEN @ \cup {file[Here].data} ELSE @]
           /\ RenameTmp => /\ past'.wanted = past.wanted
                           /\ past'.late = [k \in Attr |-> past.late[k] \cup {i \in Data(Tmp) :
                                  past.carried \/ k = "xattr" \/ (k = "time" /\ \E f \in files : f.at = RenameTo)}]
           /\ OverwriteTimes => /\ past'.wanted = past.wanted
                                /\ past'.late = [past.late EXCEPT !["time"] = @
                                      \cup IF mover.clash THEN Data(Target) \cup Data(RenameTo) ELSE {}]
<1>. PICK h : h = past
  OBVIOUS
<1>0. h \in PastRec
  BY DEF Typed, PastTyped
<1>1. ASSUME Unlink PROVE past'.wanted = h.wanted /\ past'.late = Split(Data(Here))
  <2>. PICK D : D = Split(Data(Here))
    OBVIOUS
  <2>1. \E A, B : past' = [h EXCEPT !.gone = @ \cup A, !.stale = @ \cup B, !.late = D]
    BY <1>1 DEF Unlink
  <2>2. past'.wanted = h.wanted /\ past'.late = D
    BY <1>0, <2>1 DEF PastRec
  <2>. QED BY <2>2
<1>2. ASSUME Rename PROVE past'.wanted = h.wanted /\ past'.late = Split(Data(Here) \cup Data(There))
  <2>. PICK D : D = Split(Data(Here) \cup Data(There))
    OBVIOUS
  <2>1. \E A, B, C, E : past' = [h EXCEPT !.gone = @ \cup A, !.hit = @ \cup B, !.shadowed = @ \cup C,
                                          !.stale = @ \cup E, !.late = D]
    BY <1>2 DEF Rename
  <2>2. past'.wanted = h.wanted /\ past'.late = D
    BY <1>0, <2>1 DEF PastRec
  <2>. QED BY <2>2
<1>3. ASSUME Link PROVE past'.wanted = h.wanted /\ past'.late = [k \in Attr |-> h.late[k] \cup {file[Here].data}]
  <2>. PICK D : D = [k \in Attr |-> h.late[k] \cup {file[Here].data}]
    OBVIOUS
  <2>1. \E A, B, C, E : past' = [h EXCEPT !.fresh = @ \cup A, !.stale = @ \cup B, !.shadowed = @ \cup C,
                                          !.hit = @ \cup E, !.late = D]
    BY <1>3 DEF Link
  <2>2. past'.wanted = h.wanted /\ past'.late = D
    BY <1>0, <2>1 DEF PastRec
  <2>. QED BY <2>2
<1>4. ASSUME NEW op, NEW p, Make(op, p)
      PROVE  past'.wanted = h.wanted /\ past'.late = Split(Data(<<1, p>>) \cup {i \in {made + 1} : Held(p)})
  <2>. PICK D, F : D = Split(Data(<<1, p>>) \cup {i \in {made + 1} : Held(p)})
                   /\ F = IF op = "create" THEN h.fresh \ {p} ELSE h.fresh \cup {p}
    OBVIOUS
  <2>1. \E A, B, C, E : past' = [h EXCEPT !.hit = @ \cup A \cup B, !.fresh = F, !.shadowed = @ \cup C,
                                          !.stale = @ \cup E, !.late = D]
    BY <1>4 DEF Make
  <2>2. past'.wanted = h.wanted /\ past'.late = D
    BY <1>0, <2>1 DEF PastRec
  <2>. QED BY <2>2
<1>5. ASSUME RenameDir
      PROVE  /\ past'.wanted = h.wanted
             /\ IF Carries(req.t, req.p, req.q) THEN past'.late = Split(1 .. made)
                ELSE past'.late \in {h.late, Split(1 .. made)}
  <2>. PICK S : S = Split(1 .. made)
    OBVIOUS
  <2>1. PICK ok, after : Turn(ok, after) /\ (Carries(req.t, req.p, req.q) => ok) /\ req.op = "renamedir"
    <3>1. \E ok, after : Turn(ok, after) /\ (Carries(req.t, req.p, req.q) => ok)
      BY <1>5 DEF RenameDir, Carries
    <3>. QED BY <1>5, <3>1 DEF RenameDir, Calling
  <2>. PICK D : D = IF ok THEN S ELSE h.late
    OBVIOUS
  <2>2. \E A, B, C, E : past' = [h EXCEPT !.torn = @ \cup A, !.stale = @ \cup B, !.carried = @ \/ C,
                                          !.late = D, !.hit = @ \cup E]
    BY <2>1 DEF Turn
  <2>3. past'.wanted = h.wanted /\ past'.late = D
    BY <1>0, <2>2 DEF PastRec
  <2>. QED BY <2>1, <2>3
<1>6. ASSUME NEW k \in Attr, Set(k)
      PROVE  /\ past'.wanted = [h.wanted EXCEPT ![file[Here].data][k] = 1]
             /\ past'.late = [h.late EXCEPT ![k] = IF TooLate(file[Here].data, k) THEN @ \cup {file[Here].data} ELSE @]
  <2>. PICK i : i = file[Here].data
    OBVIOUS
  <2>. PICK w, e : w = [h.wanted EXCEPT ![i][k] = 1] /\ e = [h.late EXCEPT ![k] = IF TooLate(i, k) THEN @ \cup {i} ELSE @]
    OBVIOUS
  <2>1. past' = [h EXCEPT !.wanted = w, !.late = e]
    BY <1>6 DEF Set
  <2>2. past'.wanted = w /\ past'.late = e
    BY <1>0, <2>1 DEF PastRec
  <2>. QED BY <2>2
<1>7. ASSUME RenameTmp
      PROVE  /\ past'.wanted = h.wanted
             /\ past'.late = [k \in Attr |-> h.late[k] \cup {i \in Data(Tmp) :
                    h.carried \/ k = "xattr" \/ (k = "time" /\ \E f \in files : f.at = RenameTo)}]
  <2>. PICK D : D = [k \in Attr |-> h.late[k] \cup {i \in Data(Tmp) :
                        h.carried \/ k = "xattr" \/ (k = "time" /\ \E f \in files : f.at = RenameTo)}]
    OBVIOUS
  <2>1. \E A : past' = [h EXCEPT !.hit = @ \cup A, !.late = D]
    BY <1>7 DEF RenameTmp
  <2>2. past'.wanted = h.wanted /\ past'.late = D
    BY <1>0, <2>1 DEF PastRec
  <2>. QED BY <2>2
<1>8. ASSUME OverwriteTimes
      PROVE  /\ past'.wanted = h.wanted
             /\ past'.late = [h.late EXCEPT !["time"] = @ \cup IF mover.clash THEN Data(Target) \cup Data(RenameTo) ELSE {}]
  <2>. PICK D : D = [h.late EXCEPT !["time"] = @ \cup IF mover.clash THEN Data(Target) \cup Data(RenameTo) ELSE {}]
    OBVIOUS
  <2>1. past' = [h EXCEPT !.late = D]
    BY <1>8 DEF OverwriteTimes
  <2>2. past'.wanted = h.wanted /\ past'.late = D
    BY <1>0, <2>1 DEF PastRec
  <2>. QED BY <2>2
<1>9. RenameTmp => /\ past'.wanted = past.wanted
                   /\ past'.late = [k \in Attr |-> past.late[k] \cup {i \in Data(Tmp) :
                          past.carried \/ k = "xattr" \/ (k = "time" /\ \E f \in files : f.at = RenameTo)}]
  BY <1>7, Zenon
<1>. QED BY <1>1, <1>2, <1>3, <1>4, <1>5, <1>6, <1>8, <1>9

Telling == \/ Unlink \/ Rename \/ Link \/ RenameDir \/ RenameTmp \/ OverwriteTimes \/ Die
           \/ \E k \in Attr : Set(k)
           \/ \E op \in Makings, p \in Visible : Make(op, p)

LEMMA Untold == ASSUME Typed, [Next]_vars, ~Telling PROVE past'.wanted = past.wanted /\ past'.late = past.late
<1>. PICK h : h = past
  OBVIOUS
<1>0. h \in PastRec
  BY DEF Typed, PastTyped
<1>1. CASE past' = past
  BY <1>1
<1>2. CASE UnlinkEntry \/ CreateEntry
  <2>1. \E A : past' = [h EXCEPT !.stale = @ \cup A]
    BY <1>2 DEF UnlinkEntry, CreateEntry
  <2>. QED BY <1>0, <2>1 DEF PastRec
<1>3. CASE RenameEntry \/ RenameKeys
  <2>1. \E A, B : past' = [h EXCEPT !.stale = @ \cup A, !.fresh = @ \cup B]
    BY <1>3 DEF RenameEntry, RenameKeys
  <2>. QED BY <1>0, <2>1 DEF PastRec
<1>4. CASE Mkdir \/ Rmdir \/ SetDir
  <2>1. PICK ok, after : Turn(ok, after) /\ req.op # "renamedir"
    BY <1>4 DEF Mkdir, Rmdir, SetDir, Calling
  <2>2. \E A, B, C, E : past' = [h EXCEPT !.torn = @ \cup A, !.stale = @ \cup B, !.carried = @ \/ C,
                                          !.late = h.late, !.hit = @ \cup E]
    BY <2>1 DEF Turn
  <2>. QED BY <1>0, <2>2 DEF PastRec
<1>5. ASSUME NEW f, NEW t, MoveFile(f, t) PROVE past'.wanted = past.wanted /\ past'.late = past.late
  <2>1. \E A : past' = [h EXCEPT !.torn = @ \cup A]
    BY <1>5 DEF MoveFile
  <2>. QED BY <1>0, <2>1 DEF PastRec
<1>7. CASE ChangePath
  <2>1. \E A : past' = [h EXCEPT !.shadowed = @ \cup A]
    BY <1>7 DEF ChangePath
  <2>. QED BY <1>0, <2>1 DEF PastRec
<1>8. CASE UpdateDb
  <2>1. \E A : past' = [h EXCEPT !.fresh = @ \ A]
    BY <1>8 DEF UpdateDb
  <2>. QED BY <1>0, <2>1 DEF PastRec
<1>9. CASE Request
  <2>1. CASE CallFails \/ Stat
    BY <1>1, <2>1 DEF CallFails, Stat
  <2>2. CASE \/ \E op \in FileOps, p, q \in Visible : Lookup(op, p, q)
             \/ \E op \in DirChanges, d, e \in Dir : BeginDir(op, d, e)
    BY <1>1, <2>2 DEF Lookup, BeginDir
  <2>3. ~(Truncate \/ Chmod \/ Chown \/ Setxattr \/ Removexattr \/ Utimens)
    BY DEF Telling, Truncate, Chmod, Chown, Setxattr, Removexattr, Utimens, Attr
  <2>. QED BY <1>2, <1>3, <1>4, <1>9, <2>1, <2>2, <2>3
           DEF Request, Access, Readlink, Lseek, Getxattr, Listxattr, Telling, Makings
<1>10. CASE Worker
  <2>1. CASE StartPass \/ Crawl \/ Copy \/ CopyFail \/ CopyMode \/ Remove \/ TestExists \/ Record \/ Join \/ EndPass
    BY <1>1, <2>1 DEF StartPass, Crawl, Copy, CopyFail, CopyMode, Remove, TestExists, Record, Join, EndPass
  <2>. QED BY <1>5, <1>7, <1>8, <1>10, <2>1 DEF Worker, Telling
<1>. QED BY <1>1, <1>9, <1>10 DEF Next, Restart, vars, Telling

LEMMA SplitGrows == ASSUME NEW I, NEW k \in Attr PROVE past.late[k] \subseteq Split(I)[k]
BY DEF Split

\* Files only become late, and only applications set attributes.
LEMMA LateGrows ==
    ASSUME Typed, [Next]_vars, NEW k \in Attr
    PROVE  past.late[k] \subseteq past'.late[k] /\ (past'.wanted = past.wanted \/ \E a \in Attr : Set(a))
<1>0. past.late \in [Attr -> SUBSET FileId]
  BY DEF Typed, PastTyped, PastRec
<1>1. CASE ~Telling
  BY <1>1, Untold
<1>2. CASE Unlink \/ Rename \/ RenameDir \/ \E op \in Makings, p \in Visible : Make(op, p)
  BY <1>2, LateMarks, SplitGrows
<1>3. CASE Link
  BY <1>3, LateMarks
<1>4. CASE RenameTmp
  BY <1>4, LateMarks
<1>5. CASE OverwriteTimes
  BY <1>0, <1>5, LateMarks DEF Attr
<1>6. ASSUME NEW a \in Attr, Set(a) PROVE past.late[k] \subseteq past'.late[k]
  <2>. PICK i, b : i = file[Here].data /\ b = TooLate(i, a)
    OBVIOUS
  <2>1. past'.late = [past.late EXCEPT ![a] = IF b THEN @ \cup {i} ELSE @]
    BY <1>6, LateMarks
  <2>. QED BY <1>0, <2>1
<1>7. CASE Die
  BY <1>7, DieMarks DEF Typed
<1>. QED BY <1>1, <1>2, <1>3, <1>4, <1>5, <1>6, <1>7 DEF Telling

\* What is right stays right until the application sets the attribute of that file.
LEMMA RightStays ==
    ASSUME Typed, [Next]_vars, NEW i \in FileId, NEW k \in Attr, NEW x, Right(i, k, x),
           Set(k) /\ file[Here].data = i => TooLate(i, k)
    PROVE  RightNext(i, k, x)
<1>0. past.late \in [Attr -> SUBSET FileId] /\ past.wanted \in [FileId -> [Attr -> Value]]
  BY DEF Typed, PastTyped, PastRec
<1>1. CASE past'.wanted = past.wanted
  BY <1>1, LateGrows DEF Right, RightNext
<1>2. ASSUME NEW a \in Attr, Set(a) PROVE RightNext(i, k, x)
  <2>. PICK j, b : j = file[Here].data /\ b = TooLate(j, a)
    OBVIOUS
  <2>1. past'.late = [past.late EXCEPT ![a] = IF b THEN @ \cup {j} ELSE @]
        /\ past'.wanted = [past.wanted EXCEPT ![j][a] = 1]
    BY <1>2, LateMarks
  <2>2. j \in FileId
    BY <1>2, HereLoc, FileHere DEF Set, Calling, FileOps, OnlyName, Inode, FileId, Typed
  <2>3. CASE a = k /\ j = i
    <3>1. b
      BY <1>2, <2>3
    <3>. QED BY <1>0, <2>1, <2>3, <3>1 DEF RightNext
  <2>4. CASE a # k \/ j # i
    <3>1. past'.wanted[i][k] = past.wanted[i][k]
      <4>. PICK w : w = past.wanted
        OBVIOUS
      <4>. QED BY <1>0, <2>1, <2>2, <2>4
    <3>. QED BY <3>1, LateGrows DEF Right, RightNext
  <2>. QED BY <2>3, <2>4
<1>. QED BY <1>1, <1>2, LateGrows

\* Where the file at l has come from.
Comes(l) ==
    \/ HasFile(l) /\ file'[l] = file[l]
    \/ (Rename \/ Link) /\ l = There /\ HasFile(Here) /\ file'[l] = file[Here]
    \/ \E op \in Makings, p \in Visible : Make(op, p) /\ l = <<1, p>> /\ file'[l] = NewFile(made + 1, op = "symlink")
    \/ /\ RenameDir /\ Carries(req.t, req.p, req.q) /\ l[1] = req.t /\ l[2][1] = req.q
       /\ <<req.t, Moved(l[2], req.p)>> \in Loc /\ HasFile(<<req.t, Moved(l[2], req.p)>>)
       /\ file'[l] = file[<<req.t, Moved(l[2], req.p)>>]
    \/ \E k \in Attr : Set(k) /\ l = Here /\ file'[l] = [file[l] EXCEPT ![k] = 1]
    \/ Copy /\ l = Tmp /\ file'[l] = [file[Source] EXCEPT !.mode = Raw, !.xattr = 0, !.time = Raw]
    \/ /\ CopyMode /\ l = Tmp /\ HasFile(Source) /\ HasFile(Tmp)
       /\ file'[l] = [file[l] EXCEPT !.mode = file[Source].mode]
    \/ RenameTmp /\ l = RenameTo /\ file'[l] = file[Tmp]
    \/ OverwriteTimes /\ l = Target /\ HasFile(Target) /\ file'[l] = [file[l] EXCEPT !.time = mover.f.time]

LEMMA ComesBy == ASSUME Typed, [Next]_vars, NEW l \in Loc, HasNext(l) PROVE Comes(l)
<1>. USE DEF Typed
<1>0. CASE file'[l] = file[l]
  BY <1>0 DEF Comes, HasNext, HasFile
<1>. SUFFICES ASSUME file'[l] # file[l] PROVE Comes(l)
  BY <1>0
<1>1. ASSUME Unlink PROVE FALSE
  BY <1>1 DEF Unlink, FileTyped, HasNext
<1>2. ASSUME Rename PROVE Comes(l)
  <2>1. Here \in Loc /\ There \in Loc /\ HasFile(Here)
    BY <1>2, HereLoc DEF Rename, Calling, FileOps
  <2>2. file' = [file EXCEPT ![Here] = Absent, ![There] = file[Here]]
    BY <1>2 DEF Rename
  <2>3. l = There /\ file'[l] = file[Here]
    BY <2>1, <2>2 DEF FileTyped, HasNext
  <2>. QED BY <1>2, <2>1, <2>3 DEF Comes
<1>3. ASSUME Link PROVE Comes(l)
  <2>1. There \in Loc /\ HasFile(Here)
    BY <1>3, HereLoc DEF Link, Calling, FileOps
  <2>2. file' = [file EXCEPT ![There] = file[Here]]
    BY <1>3 DEF Link
  <2>3. l = There /\ file'[l] = file[Here]
    BY <2>1, <2>2 DEF FileTyped
  <2>. QED BY <1>3, <2>1, <2>3 DEF Comes
<1>4. ASSUME NEW k \in Attr, Set(k) PROVE Comes(l)
  <2>. PICK v : v = [file[Here] EXCEPT ![k] = 1]
    OBVIOUS
  <2>1. Here \in Loc
    BY <1>4, HereLoc DEF Set, Calling, FileOps
  <2>2. file' = [file EXCEPT ![Here] = v]
    BY <1>4 DEF Set
  <2>3. l = Here /\ file'[l] = v
    BY <2>1, <2>2 DEF FileTyped
  <2>4. file'[l] = [file[l] EXCEPT ![k] = 1]
    BY <2>3
  <2>. QED BY <1>4, <2>3, <2>4 DEF Comes
<1>5. ASSUME NEW op \in Makings, NEW p \in Visible, Make(op, p) PROVE Comes(l)
  <2>. PICK v : v = NewFile(made + 1, op = "symlink")
    OBVIOUS
  <2>1. file' = [file EXCEPT ![<<1, p>>] = v]
    BY <1>5 DEF Make
  <2>2. l = <<1, p>> /\ file'[l] = v
    BY <2>1 DEF FileTyped
  <2>. QED BY <1>5, <2>2 DEF Comes
<1>6. ASSUME RenameDir PROVE Comes(l)
  <2>1. Carries(req.t, req.p, req.q)
    BY <1>6, RenameDirEffect
  <2>. PICK d, e, t : d = req.p /\ e = req.q /\ t = req.t
    OBVIOUS
  <2>2. d \in Dir /\ e \in Dir /\ t \in Tier /\ d # e
    BY <1>6 DEF RenameDir, Calling, DirChanges, ReqTyped, ReqRec
  <2>. DEFINE ok == HasDir(t, d) /\ (HasDir(t, e) => EmptyDir(t, e))
  <2>3. file' = [l_1 \in Loc |-> CASE ok /\ l_1[1] = t /\ l_1[2][1] = e -> file[<<t, Moved(l_1[2], d)>>]
                                   [] ok /\ l_1[1] = t /\ l_1[2][1] = d -> Absent
                                   [] OTHER -> file[l_1]]
    BY <1>6 DEF RenameDir
  <2>4. ok
    BY <2>1 DEF Carries
  <2>. HIDE DEF ok
  <2>5. file'[l] = CASE ok /\ l[1] = t /\ l[2][1] = e -> file[<<t, Moved(l[2], d)>>]
                     [] ok /\ l[1] = t /\ l[2][1] = d -> Absent
                     [] OTHER -> file[l]
    BY <2>3
  <2>6. l[1] = t /\ l[2][1] = e /\ file'[l] = file[<<t, Moved(l[2], d)>>]
    BY <2>2, <2>4, <2>5 DEF HasNext
  <2>7. <<t, Moved(l[2], d)>> \in Loc
    BY <2>2, LocOf, MovedPath DEF Loc
  <2>8. HasFile(<<t, Moved(l[2], d)>>)
    BY <2>6 DEF HasFile, HasNext
  <2>. QED BY <1>6, <2>1, <2>6, <2>7, <2>8 DEF Comes
<1>7. ASSUME Copy PROVE Comes(l)
  <2>. PICK v : v = [file[Source] EXCEPT !.mode = Raw, !.xattr = 0, !.time = Raw]
    OBVIOUS
  <2>1. Tmp \in Loc
    BY <1>7, MoverLoc DEF Copy, At
  <2>2. file' = [file EXCEPT ![Tmp] = v]
    BY <1>7 DEF Copy
  <2>3. l = Tmp /\ file'[l] = v
    BY <2>1, <2>2 DEF FileTyped
  <2>. QED BY <1>7, <2>3 DEF Comes
<1>8. ASSUME CopyMode PROVE Comes(l)
  <2>. PICK v : v = [file[Tmp] EXCEPT !.mode = file[Source].mode]
    OBVIOUS
  <2>1. Tmp \in Loc
    BY <1>8, MoverLoc DEF CopyMode, At
  <2>2. file' = [file EXCEPT ![Tmp] = v] /\ HasFile(Source) /\ HasFile(Tmp)
    BY <1>8 DEF CopyMode
  <2>3. l = Tmp /\ file'[l] = v
    BY <2>1, <2>2 DEF FileTyped
  <2>4. file'[l] = [file[l] EXCEPT !.mode = file[Source].mode]
    BY <2>3
  <2>. QED BY <1>8, <2>2, <2>3, <2>4 DEF Comes
<1>9. ASSUME Remove PROVE FALSE
  BY <1>9 DEF Remove, FileTyped, HasNext
<1>10. ASSUME RenameTmp PROVE Comes(l)
  <2>1. Tmp \in Loc /\ RenameTo \in Loc
    BY <1>10, MoverLoc DEF RenameTmp, At
  <2>2. file' = [file EXCEPT ![RenameTo] = file[Tmp], ![Tmp] = Absent]
    BY <1>10 DEF RenameTmp
  <2>3. l = RenameTo /\ file'[l] = file[Tmp]
    BY <2>1, <2>2 DEF FileTyped, HasNext
  <2>. QED BY <1>10, <2>3 DEF Comes
<1>11. ASSUME OverwriteTimes PROVE Comes(l)
  <2>. PICK v : v = [file[Target] EXCEPT !.time = mover.f.time]
    OBVIOUS
  <2>1. Target \in Loc
    BY <1>11, MoverLoc DEF OverwriteTimes, At
  <2>2. file' = [file EXCEPT ![Target] = v] /\ HasFile(Target)
    BY <1>11 DEF OverwriteTimes
  <2>3. l = Target /\ file'[l] = v
    BY <2>1, <2>2 DEF FileTyped
  <2>4. file'[l] = [file[l] EXCEPT !.time = mover.f.time]
    BY <2>3
  <2>. QED BY <1>11, <2>2, <2>3, <2>4 DEF Comes
<1>. QED BY FileSteps, <1>1, <1>2, <1>3, <1>4, <1>5, <1>6, <1>7, <1>8, <1>9, <1>10, <1>11
        DEF FileRequest, FileWork, Makings

LEMMA TimesLater ==
    ASSUME Typed, [Next]_vars, NEW CONSTANT g, g \in files', g.name \in Visible
    PROVE  \/ Crawl /\ g.at = <<crawling, g.name>> /\ HasFile(g.at) /\ g.time = file[g.at].time
           \/ \E f \in files : f.at = g.at /\ f.name = g.name /\ f.time = g.time /\ (~g.done => ~f.done)
<1>0. files \in SUBSET FileRec
  BY DEF Typed, WorkTyped
<1>1. CASE g \in files
  BY <1>1
<1>2. CASE Crawl
  <2>1. g \in files \/ \E p \in Path : /\ HasFile(<<crawling, p>>)
                                       /\ g = [at |-> <<crawling, p>>, name |-> p, meta |-> IF db[p] = Absent THEN crawling ELSE db[p],
                                               time |-> file[<<crawling, p>>].time, done |-> FALSE]
    BY <1>2 DEF Crawl
  <2>2. ASSUME NEW p \in Path, HasFile(<<crawling, p>>),
               g = [at |-> <<crawling, p>>, name |-> p, meta |-> IF db[p] = Absent THEN crawling ELSE db[p],
                    time |-> file[<<crawling, p>>].time, done |-> FALSE]
        PROVE  g.at = <<crawling, g.name>> /\ HasFile(g.at) /\ g.time = file[g.at].time
    <3>1. g.name = p /\ g.at = <<crawling, p>>
      BY <2>2
    <3>2. g.time = file[<<crawling, p>>].time
      BY <2>2
    <3>. QED BY <2>2, <3>1, <3>2
  <2>. QED BY <1>1, <1>2, <2>1, <2>2
<1>3. ASSUME NEW f \in files, NEW t \in Tier, MoveFile(f, t)
      PROVE  g \in files \/ \E x \in files : x.at = g.at /\ x.name = g.name /\ x.time = g.time /\ g.done
  <2>1. g \in files \/ g = [f EXCEPT !.done = TRUE]
    BY <1>3 DEF MoveFile
  <2>2. f \in FileRec
    BY <1>0
  <2>. QED BY <2>1, <2>2 DEF FileRec
<1>4. CASE Record
  <2>1. PICK f \in files : g = IF f.at = Source THEN [f EXCEPT !.meta = mover.t] ELSE f
    BY <1>4 DEF Record
  <2>2. f \in FileRec
    BY <1>0
  <2>3. f.at = g.at /\ f.name = g.name /\ f.time = g.time /\ (~g.done => ~f.done)
    BY <2>1, <2>2 DEF FileRec
  <2>. QED BY <2>3
<1>5. CASE ChangePath
  <2>1. PICK f \in files : g = IF f.at = Source THEN [f EXCEPT !.name = ConflictName] ELSE f
    BY <1>5 DEF ChangePath
  <2>2. f \in FileRec
    BY <1>0
  <2>3. WorkTyped /\ mover.pc # "idle"
    BY <1>5 DEF ChangePath, At, Typed
  <2>4. ConflictName \notin Visible
    BY <2>3, MoverLoc, Names DEF Visible
  <2>5. g = f
    BY <2>1, <2>2, <2>4 DEF FileRec
  <2>. QED BY <1>1, <2>5
<1>6. CASE UpdateDb
  BY <1>1, <1>6 DEF UpdateDb
<1>7. CASE StartPass \/ Moving \/ Join \/ EndPass \/ UNCHANGED <<phase, crawling, files, mover>>
  BY <1>1, <1>7 DEF StartPass, Moving, Join, EndPass
<1>8. CASE Die
  BY <1>8 DEF Die
<1>. QED BY <1>1, <1>2, <1>3, <1>4, <1>5, <1>6, <1>7, <1>8, WorkSteps

\* Of the files of a split the mover's copy, or the crawled times, are no longer theirs.
LEMMA Belated ==
    ASSUME NEW I, NEW i \in I, NEW k \in Attr, past'.late = Split(I), Copied(i) \/ TooLate(i, k)
    PROVE  i \in past'.late[k]
BY DEF Split

\* Times read while the pass holds the name stay those of the file that has it.
LEMMA TimeHolds ==
    ASSUME Typed, Numbered, [Next]_vars, NEW l \in Loc, l[2] \in Visible, Held(l[2]), NEW x,
           HasFile(l) => Right(file[l].data, "time", x), HasNext(l),
           RenameTmp /\ l = RenameTo => \E f \in files : f.at = l
    PROVE  RightNext(file'[l].data, "time", x)
<1>. USE DEF Typed
<1>0. \A i : TooLate(i, "time")
  BY DEF TooLate, Held
<1>1. "time" \in Attr
  BY DEF Attr
<1>2. ASSUME HasFile(l), file'[l].data = file[l].data PROVE RightNext(file'[l].data, "time", x)
  <2>1. file[l].data \in FileId
    BY <1>2, FileHere DEF Inode, FileId
  <2>. QED BY <1>0, <1>1, <1>2, <2>1, RightStays
<1>3. CASE HasFile(l) /\ file'[l] = file[l]
  BY <1>2, <1>3
<1>4. CASE (Rename \/ Link) /\ l = There /\ HasFile(Here) /\ file'[l] = file[Here]
  <2>1. CASE Rename
    <3>1. file[Here].data \in Data(Here)
      BY <1>4 DEF Data
    <3>. QED BY <1>0, <1>1, <1>4, <2>1, <3>1, LateMarks, Belated DEF RightNext
  <2>2. CASE Link
    <3>1. past'.late["time"] = past.late["time"] \cup {file[Here].data}
      BY <1>1, <2>2, LateMarks
    <3>. QED BY <1>4, <3>1 DEF RightNext
  <2>. QED BY <1>4, <2>1, <2>2
<1>5. ASSUME NEW op \in Makings, NEW p \in Visible, Make(op, p), l = <<1, p>>, file'[l] = NewFile(made + 1, op = "symlink")
      PROVE  RightNext(file'[l].data, "time", x)
  <2>1. file'[l].data = made + 1
    BY <1>5 DEF NewFile
  <2>2. made + 1 \in {i \in {made + 1} : Held(p)}
    BY <1>5
  <2>3. past'.late = Split(Data(<<1, p>>) \cup {i \in {made + 1} : Held(p)})
    BY <1>5, LateMarks
  <2>4. made + 1 \in past'.late["time"]
    BY <1>0, <1>1, <2>2, <2>3, Belated
  <2>. QED BY <2>1, <2>4 DEF RightNext
<1>6. CASE /\ RenameDir /\ Carries(req.t, req.p, req.q)
           /\ <<req.t, Moved(l[2], req.p)>> \in Loc /\ HasFile(<<req.t, Moved(l[2], req.p)>>)
           /\ file'[l] = file[<<req.t, Moved(l[2], req.p)>>]
  <2>1. file'[l].data \in 1 .. made
    BY <1>6 DEF Numbered
  <2>2. past'.late = Split(1 .. made)
    BY <1>6, LateMarks
  <2>3. file'[l].data \in past'.late["time"]
    BY <1>0, <1>1, <2>1, <2>2, Belated
  <2>. QED BY <2>3 DEF RightNext
<1>7. ASSUME NEW k \in Attr, Set(k), l = Here, file'[l] = [file[l] EXCEPT ![k] = 1]
      PROVE  RightNext(file'[l].data, "time", x)
  <2>1. HasFile(l) /\ file[l] \in Inode /\ 1 \in Value
    BY <1>7, FileHere DEF Set, OnlyName, Value
  <2>. QED BY <1>2, <1>7, <2>1, InodeSet
<1>8. ~(Copy /\ l = Tmp) /\ ~(CopyMode /\ l = Tmp)
  BY MoverLoc, Names DEF Copy, CopyMode, At, Visible
<1>9. CASE RenameTmp /\ l = RenameTo /\ file'[l] = file[Tmp]
  <2>1. file[Tmp].data \in Data(Tmp)
    BY <1>9 DEF RenameTmp, Data
  <2>2. \E f \in files : f.at = RenameTo
    BY <1>9
  <2>3. past'.late["time"] = past.late["time"] \cup {i \in Data(Tmp) :
            past.carried \/ "time" = "xattr" \/ ("time" = "time" /\ \E f \in files : f.at = RenameTo)}
    BY <1>1, <1>9, LateMarks
  <2>. QED BY <1>9, <2>1, <2>2, <2>3 DEF RightNext
<1>10. CASE OverwriteTimes /\ HasFile(Target) /\ l = Target /\ file'[l] = [file[l] EXCEPT !.time = mover.f.time]
  <2>1. HasFile(l) /\ file[l] \in Inode
    BY <1>10, FileHere
  <2>2. file'[l].data = file[l].data
    BY <1>10, <2>1 DEF Inode
  <2>. QED BY <1>2, <2>1, <2>2
<1>. QED BY ComesBy, <1>3, <1>4, <1>5, <1>6, <1>7, <1>8, <1>9, <1>10 DEF Comes

LEMMA CrawlRightNext == Typed /\ Numbered /\ AttributesKept /\ CrawlRight /\ [Next]_vars => CrawlRight'
<1>. SUFFICES ASSUME Typed, Numbered, AttributesKept, CrawlRight, [Next]_vars,
                     NEW CONSTANT g, g \in files', ~g.done, g.name \in Visible, HasNext(g.at)
              PROVE  RightNext(file'[g.at].data, "time", g.time)
  BY LaterFile DEF CrawlRight, Right, RightNext, HasFile, HasNext
<1>. USE DEF Typed
<1>1. CASE Crawl /\ g.at = <<crawling, g.name>> /\ HasFile(g.at) /\ g.time = file[g.at].time
  <2>1. UNCHANGED <<file, past>>
    BY <1>1 DEF Crawl
  <2>2. g.at \in Loc /\ Shown(g.at)
    BY <1>1, Names DEF WorkTyped, Loc, Visible, Shown
  <2>3. ~Working({"renamed", "times"})
    BY <1>1 DEF Crawl, WorkTyped, Working
  <2>4. Right(file[g.at].data, "time", g.time)
    BY <1>1, <2>2, <2>3 DEF AttributesKept, Right, Attr
  <2>. QED BY <2>1, <2>4 DEF Right, RightNext
<1>2. ASSUME NEW f \in files, f.at = g.at, f.name = g.name, f.time = g.time, ~f.done
      PROVE  RightNext(file'[g.at].data, "time", g.time)
  <2>1. f.at \in Loc /\ f.at[2] = f.name /\ Held(f.name)
    BY <1>2 DEF WorkTyped, FileRec, Held
  <2>2. HasFile(f.at) => Right(file[f.at].data, "time", f.time)
    BY <1>2 DEF CrawlRight
  <2>. QED BY <1>2, <2>1, <2>2, TimeHolds
<1>. QED BY <1>1, <1>2, TimesLater

LEMMA MoverHolds ==
    ASSUME WorkTyped, mover.pc # "idle"
    PROVE  Held(mover.f.name) /\ files # {}
BY DEF WorkTyped, Held

LEMMA SourceRightNext == Typed /\ Numbered /\ CrawlRight /\ SourceRight /\ [Next]_vars => SourceRight'
<1>. SUFFICES ASSUME Typed, Numbered, CrawlRight, SourceRight, [Next]_vars, mover'.pc = "copy", HasFile(Source)'
              PROVE  Right(file[Source].data, "time", mover.f.time)'
  BY DEF SourceRight
<1>. USE DEF Typed
<1>1. ~RenameTmp
  BY AtPc
<1>2. CASE mover' = mover
  <2>1. Source' = Source /\ mover'.f = mover.f /\ mover.pc = "copy"
    BY <1>2, SamePlaces
  <2>2. Source \in Loc /\ Source[2] \in Visible /\ Held(Source[2])
    BY <2>1, MoverLoc, MoverHolds
  <2>3. HasNext(Source)
    BY <2>1 DEF HasNext, HasFile
  <2>4. HasFile(Source) => Right(file[Source].data, "time", mover.f.time)
    BY <2>1 DEF SourceRight
  <2>5. RightNext(file'[Source].data, "time", mover.f.time)
    BY <1>1, <2>2, <2>3, <2>4, TimeHolds
  <2>. QED BY <2>1, <2>5 DEF Right, RightNext
<1>3. CASE MoverBegins
  <2>1. PICK f \in files, t \in Tier : MoveFile(f, t) /\ mover'.f = f
    BY <1>3 DEF MoverBegins
  <2>2. f.name \in Visible /\ ~f.done /\ Source' = f.at
    BY <2>1 DEF MoveFile, Source
  <2>3. f.at \in Loc /\ f.at[2] = f.name /\ Held(f.name)
    BY <2>1, <2>2 DEF WorkTyped, FileRec, Held
  <2>4. HasNext(f.at)
    BY <2>2 DEF HasNext, HasFile
  <2>5. HasFile(f.at) => Right(file[f.at].data, "time", f.time)
    BY <2>2 DEF CrawlRight
  <2>6. RightNext(file'[f.at].data, "time", f.time)
    BY <2>2, <2>3, <2>4, <2>5, TimeHolds
  <2>. QED BY <2>1, <2>2, <2>6 DEF Right, RightNext
<1>4. ~MoverStops /\ ~MoverStep
  BY DEF MoverStops, MoverStep, Going
<1>. QED BY <1>2, <1>3, <1>4, MoverNext

LEMMA RestoreRightNext == Typed /\ Numbered /\ CopyRight /\ RestoreRight /\ [Next]_vars => RestoreRight'
<1>. SUFFICES ASSUME Typed, Numbered, CopyRight, RestoreRight, [Next]_vars,
                     mover'.pc \in {"renamed", "times"}, ~mover'.clash, HasFile(Target)'
              PROVE  Right(file[Target].data, "time", mover.f.time)'
  BY DEF RestoreRight, Working
<1>. USE DEF Typed
<1>1. /\ mover.pc # "idle" /\ Target' = Target /\ mover'.f = mover.f /\ ~mover.clash
      /\ mover.pc \in {"renamed", "times"} \/ RenameTmp
  <2>1. CASE mover' = mover
    BY <2>1, SamePlaces
  <2>2. CASE MoverStep
    <3>1. mover'.f = mover.f /\ mover'.t = mover.t
      BY <2>2 DEF MoverStep, Going
    <3>. QED BY <2>2, <3>1, SamePlaces DEF MoverStep, Going, Sure
  <2>3. ~MoverStops /\ ~MoverBegins
    BY DEF MoverStops, MoverBegins
  <2>. QED BY <2>1, <2>2, <2>3, MoverNext
<1>2. HasNext(Target)
  BY <1>1 DEF HasNext, HasFile
<1>3. Target \in Loc /\ Target[2] \in Visible /\ Held(Target[2])
  BY <1>1, MoverLoc, MoverHolds
<1>4. CASE RenameTmp
  <2>1. RenameTo = Target /\ mover.pc = "tested" /\ Tmp \in Loc /\ HasFile(Tmp)
    BY <1>1, <1>4, AtPc, MoverLoc DEF RenameTo, RenameTmp
  <2>2. file'[Target] = file[Tmp]
    <3>1. file' = [file EXCEPT ![RenameTo] = file[Tmp], ![Tmp] = Absent] /\ Tmp # RenameTo
      BY <1>1, <1>4, MoverLoc, RenameToShown DEF RenameTmp
    <3>. QED BY <1>3, <2>1, <3>1 DEF FileTyped
  <2>. PICK i : i = file[Tmp].data
    OBVIOUS
  <2>3. i \in Data(Tmp) /\ "time" \in Attr
    BY <2>1 DEF Data, Attr
  <2>4. CASE past.carried
    <3>1. i \in past'.late["time"]
      BY <1>4, <2>3, <2>4, LateMarks
    <3>. QED BY <1>1, <2>2, <3>1 DEF Right
  <2>5. CASE ~past.carried
    <3>1. Right(i, "time", mover.f.time)
      BY <2>1, <2>5 DEF CopyRight, Working
    <3>2. past'.wanted = past.wanted /\ past.late["time"] \subseteq past'.late["time"]
      BY <1>4, <2>3, LateMarks, LateGrows
    <3>. QED BY <1>1, <2>2, <3>1, <3>2 DEF Right
  <2>. QED BY <2>4, <2>5
<1>5. CASE ~RenameTmp
  <2>1. HasFile(Target) => Right(file[Target].data, "time", mover.f.time)
    BY <1>1, <1>5 DEF RestoreRight, Working
  <2>2. RightNext(file'[Target].data, "time", mover.f.time)
    BY <1>2, <1>3, <1>5, <2>1, TimeHolds
  <2>. QED BY <1>1, <2>2 DEF Right, RightNext
<1>. QED BY <1>4, <1>5

LEMMA UnsetNext == Typed /\ Numbered /\ Unset /\ [Next]_vars => Unset'
<1>. SUFFICES ASSUME Typed, Numbered, Unset, [Next]_vars, NEW CONSTANT i \in FileId, NEW CONSTANT k \in Attr, i > made'
              PROVE  past'.wanted[i][k] = 0
  BY DEF Unset
<1>. USE DEF Typed
<1>0. made \in Nat /\ i \in Nat
  BY Numbers DEF CountsTyped, FileId
<1>1. i > made
  BY <1>0, MadeNext
<1>2. past.wanted[i][k] = 0
  BY <1>1 DEF Unset
<1>3. ASSUME NEW a \in Attr, Set(a) PROVE past'.wanted[i] = past.wanted[i]
  <2>. PICK j, w : j = file[Here].data /\ w = past.wanted
    OBVIOUS
  <2>1. past'.wanted = [w EXCEPT ![j][a] = 1]
    BY <1>3, LateMarks
  <2>2. j \in 1 .. made
    BY <1>3, HereLoc DEF Set, Calling, FileOps, OnlyName, Numbered
  <2>3. j # i /\ w \in [FileId -> [Attr -> Value]]
    BY <1>0, <1>1, <2>2 DEF PastTyped, PastRec
  <2>. QED BY <2>1, <2>3
<1>. QED BY <1>2, <1>3, LateGrows

Copying == {"copied", "remove", "removed", "tested"}

\* Until it is renamed the copy stays what it is, but for the permissions the mover sets.
LEMMA TmpKept ==
    ASSUME Typed, Housed, Guarded, [Next]_vars, mover.pc \in Copying, ~past'.carried, ~RenameTmp
    PROVE  /\ Tmp \in Loc /\ HasFile(Tmp) /\ HasNext(Tmp) /\ Copied(file[Tmp].data) /\ file'[Tmp].data = file[Tmp].data
           /\ \/ file'[Tmp] = file[Tmp]
              \/ CopyMode /\ HasFile(Source) /\ file'[Tmp] = [file[Tmp] EXCEPT !.mode = file[Source].mode]
<1>. USE DEF Typed
<1>1. mover.pc # "idle" /\ ~past.carried /\ ~Copy
  BY PastNext, AtPc DEF PastFine, Grows, Copying
<1>2. Tmp \in Loc /\ HasFile(Tmp) /\ Tmp[2][3] = Hidden /\ Tmp[2] \notin Visible
  BY <1>1, MoverLoc, Names DEF Guarded, Working, Copying, Visible
<1>3. Copied(file[Tmp].data)
  BY <1>2 DEF Copied, Working, Copying
<1>4. ~(RenameDir /\ Carries(req.t, req.p, req.q) /\ Tmp[1] = req.t /\ Tmp[2][1] = req.p)
  BY <1>1, CarriedNow DEF Working, Copying
<1>5. HasNext(Tmp) /\ file'[Tmp].data = file[Tmp].data
  BY <1>2, <1>4, HiddenStays DEF Stays
<1>6. ~((Rename \/ Link) /\ Tmp = There)
  BY <1>2, HereLoc DEF Rename, Link, Calling, FileOps
<1>7. ~(\E op \in Makings, p \in Visible : Tmp = <<1, p>>)
  BY <1>2
<1>8. ~(RenameDir /\ Carries(req.t, req.p, req.q) /\ Tmp[1] = req.t /\ Tmp[2][1] = req.q)
  <2>. SUFFICES ASSUME Carries(req.t, req.p, req.q), Tmp[1] = req.t, Tmp[2][1] = req.q PROVE FALSE
    OBVIOUS
  <2>1. HasDir(Tmp[1], Tmp[2][1])
    BY <1>2 DEF Housed
  <2>2. ~EmptyDir(Tmp[1], Tmp[2][1])
    BY <1>2, LocOf DEF EmptyDir, In
  <2>. QED BY <2>1, <2>2 DEF Carries
<1>9. \A k \in Attr : ~(Set(k) /\ Tmp = Here)
  BY <1>2, HereLoc DEF Set, Calling, FileOps
<1>10. ~OverwriteTimes
  BY DEF OverwriteTimes, At, Copying
<1>11. Comes(Tmp)
  BY <1>2, <1>5, ComesBy
<1>12. \/ file'[Tmp] = file[Tmp]
       \/ CopyMode /\ HasFile(Source) /\ file'[Tmp] = [file[Tmp] EXCEPT !.mode = file[Source].mode]
  BY <1>1, <1>6, <1>7, <1>8, <1>9, <1>10, <1>11 DEF Comes
<1>. QED BY <1>2, <1>3, <1>5, <1>12

\* While a copy waits for its permissions, the source stays in place or the file is late.
LEMMA SourceKept ==
    ASSUME Typed, Numbered, [Next]_vars, mover.pc = "copied", HasFile(Source), Copied(file[Source].data)
    PROVE  file[Source].data \in past'.late["mode"] \/ (HasNext(Source) /\ file'[Source].data = file[Source].data)
<1>. USE DEF Typed
<1>. PICK i : i = file[Source].data
  OBVIOUS
<1>1. Source \in Loc /\ i \in Data(Source) /\ i \in 1 .. made /\ "mode" \in Attr
  BY MoverLoc DEF Numbered, Data, Attr
<1>2. CASE Stays(Source)
  BY <1>2 DEF Stays
<1>3. CASE Unlink /\ Erased(Here)
  <2>1. Source = Here \/ Stays(Source)
    BY <1>1, <1>3 DEF Erased
  <2>2. CASE Source = Here
    <3>1. past'.late = Split(Data(Here))
      BY <1>3, LateMarks
    <3>. QED BY <1>1, <2>2, <3>1, Belated
  <2>. QED BY <1>2, <2>1, <2>2
<1>4. CASE Rename /\ Shifts(Here, There)
  <2>1. Source \in {Here, There} \/ Stays(Source)
    BY <1>1, <1>4 DEF Shifts
  <2>2. CASE Source \in {Here, There}
    <3>1. past'.late = Split(Data(Here) \cup Data(There))
      BY <1>4, LateMarks
    <3>2. i \in Data(Here) \cup Data(There)
      BY <1>1, <2>2
    <3>. QED BY <1>1, <3>1, <3>2, Belated
  <2>. QED BY <1>2, <2>1, <2>2
<1>5. CASE Link /\ Copies(Here, There)
  <2>1. Source # There
    BY <1>5 DEF Link
  <2>. QED BY <1>1, <1>2, <1>5, <2>1 DEF Copies
<1>6. CASE RenameDir /\ Carries(req.t, req.p, req.q)
  <2>1. past'.late = Split(1 .. made)
    BY <1>6, LateMarks
  <2>. QED BY <1>1, <2>1, Belated
<1>7. ASSUME NEW op \in Makings, NEW p \in Visible, Make(op, p), Makes(<<1, p>>)
      PROVE  i \in past'.late["mode"] \/ (HasNext(Source) /\ file'[Source].data = i)
  <2>1. CASE Source = <<1, p>>
    <3>1. past'.late = Split(Data(<<1, p>>) \cup {j \in {made + 1} : Held(p)})
      BY <1>7, LateMarks
    <3>2. i \in Data(<<1, p>>) \cup {j \in {made + 1} : Held(p)}
      BY <1>1, <2>1
    <3>. QED BY <1>1, <3>1, <3>2, Belated
  <2>2. CASE Source # <<1, p>>
    BY <1>1, <1>2, <1>7, <2>2 DEF Makes
  <2>. QED BY <2>1, <2>2
<1>8. ~Remove /\ ~RenameTmp /\ ~Copy
  BY AtPc
<1>. QED BY Steps, <1>1, <1>2, <1>3, <1>4, <1>5, <1>6, <1>7, <1>8 DEF Effect, RequestEffect, WorkEffect

LEMMA CopyRightBegins ==
    ASSUME Typed, AttributesKept, SourceRight, Copy
    PROVE  LET i == file'[Tmp].data IN
           /\ RightNext(i, "cut", file'[Tmp].cut) /\ RightNext(i, "time", mover.f.time)
           /\ HasNext(Source) /\ file'[Source].data = i
<1>. USE DEF Typed
<1>. PICK v, w : v = file[Source] /\ w = [v EXCEPT !.mode = Raw, !.xattr = 0, !.time = Raw]
  OBVIOUS
<1>1. mover.pc = "copy" /\ Source \in Loc /\ Tmp \in Loc /\ HasFile(Source) /\ v \in Inode /\ past' = past
  BY MoverLoc, FileHere DEF Copy, At
<1>2. file' = [file EXCEPT ![Tmp] = w]
  BY DEF Copy
<1>3. w.data = v.data /\ w.cut = v.cut
  BY <1>1 DEF Inode
<1>4. Source[2][3] # Hidden /\ Source # Tmp
  BY <1>1, MoverLoc, Names DEF Visible
<1>5. file'[Tmp] = w /\ file'[Source] = v /\ v # Absent
  BY <1>1, <1>2, <1>4, NotInode DEF FileTyped
<1>6. Right(v.data, "cut", v.cut)
  <2>1. Shown(Source) /\ "cut" \in Attr /\ "cut" # "time"
    BY <1>1, <1>4 DEF Shown, Attr
  <2>2. v.data \notin past.late["cut"] => v["cut"] = past.wanted[v.data]["cut"]
    BY <1>1, <2>1 DEF AttributesKept
  <2>. QED BY <2>2 DEF Right
<1>7. Right(v.data, "time", mover.f.time)
  BY <1>1 DEF SourceRight
<1>. QED BY <1>1, <1>3, <1>5, <1>6, <1>7 DEF Right, RightNext, HasNext

LEMMA CopyRightNext ==
    Typed /\ Housed /\ Guarded /\ Numbered /\ AttributesKept /\ SourceRight /\ CopyRight /\ [Next]_vars => CopyRight'
<1>. SUFFICES ASSUME Typed, Housed, Guarded, Numbered, AttributesKept, SourceRight, CopyRight, [Next]_vars,
                     mover'.pc \in Copying, ~past'.carried
              PROVE  (LET i == file[Tmp].data IN
                      /\ Right(i, "cut", file[Tmp].cut) /\ Right(i, "time", mover.f.time)
                      /\ IF mover.pc = "copied" THEN i \in past.late["mode"] \/ (HasFile(Source) /\ file[Source].data = i)
                         ELSE Right(i, "mode", file[Tmp].mode))'
  BY DEF CopyRight, Working, Copying
<1>. USE DEF Typed
<1>1. ~RenameTmp /\ (Copy => mover'.pc = "copied")
  BY AtPc DEF Copying
<1>2. /\ Tmp' = Tmp /\ Source' = Source /\ mover'.f = mover.f
      /\ \/ Copy
         \/ mover' = mover /\ mover.pc \in Copying
         \/ CopyMode /\ mover.pc = "copied" /\ mover'.pc = "remove"
         \/ mover.pc \in Copying \ {"copied"} /\ mover'.pc # "copied"
  <2>1. CASE mover' = mover
    BY <2>1, SamePlaces
  <2>2. CASE MoverStep
    <3>1. mover'.f = mover.f /\ mover'.t = mover.t
      BY <2>2 DEF MoverStep, Going
    <3>. QED BY <2>2, <3>1, SamePlaces DEF MoverStep, Going, Copying
  <2>3. ~MoverStops /\ ~MoverBegins
    BY DEF MoverStops, MoverBegins, Copying
  <2>. QED BY <2>1, <2>2, <2>3, MoverNext
<1>. PICK i : i = file'[Tmp].data
  OBVIOUS
<1>3. SUFFICES /\ RightNext(i, "cut", file'[Tmp].cut) /\ RightNext(i, "time", mover.f.time)
               /\ IF mover'.pc = "copied" THEN i \in past'.late["mode"] \/ (HasNext(Source) /\ file'[Source].data = i)
                  ELSE RightNext(i, "mode", file'[Tmp].mode)
  BY <1>2 DEF Right, RightNext, HasFile, HasNext
<1>4. CASE Copy
  BY <1>1, <1>4, CopyRightBegins
<1>5. CASE mover.pc \in Copying
  <2>1. /\ Tmp \in Loc /\ HasFile(Tmp) /\ Copied(i) /\ i = file[Tmp].data
        /\ \/ file'[Tmp] = file[Tmp]
           \/ CopyMode /\ HasFile(Source) /\ file'[Tmp] = [file[Tmp] EXCEPT !.mode = file[Source].mode]
    BY <1>1, <1>5, TmpKept
  <2>. PICK v, m : v = file[Tmp] /\ m = file[Source].mode
    OBVIOUS
  <2>2. v \in Inode /\ i \in FileId /\ ~past.carried
    BY <2>1, FileHere, PastNext DEF Inode, FileId, PastFine, Grows
  <2>3. /\ Right(i, "cut", v.cut) /\ Right(i, "time", mover.f.time)
        /\ IF mover.pc = "copied" THEN i \in past.late["mode"] \/ (HasFile(Source) /\ file[Source].data = i)
           ELSE Right(i, "mode", v.mode)
    BY <1>5, <2>1, <2>2 DEF CopyRight, Working, Copying
  <2>4. RightNext(i, "cut", file'[Tmp].cut)
    <3>1. file'[Tmp].cut = v.cut
      BY <2>1, <2>2 DEF Inode
    <3>2. TooLate(i, "cut") /\ "cut" \in Attr
      BY <2>1 DEF TooLate, Attr
    <3>. QED BY <2>2, <2>3, <3>1, <3>2, RightStays
  <2>5. RightNext(i, "time", mover.f.time)
    <3>1. files # {}
      BY <1>5, MoverHolds DEF Copying
    <3>2. TooLate(i, "time") /\ "time" \in Attr
      BY <3>1 DEF TooLate, Attr
    <3>. QED BY <2>2, <2>3, <3>2, RightStays
  <2>6. CASE mover.pc = "copied" /\ mover' = mover
    <3>1. CASE i \in past.late["mode"]
      BY <2>4, <2>5, <2>6, <3>1, LateGrows DEF Attr
    <3>2. CASE HasFile(Source) /\ file[Source].data = i
      <4>1. i \in past'.late["mode"] \/ (HasNext(Source) /\ file'[Source].data = i)
        BY <2>1, <2>6, <3>2, SourceKept
      <4>. QED BY <2>4, <2>5, <2>6, <4>1
    <3>. QED BY <2>3, <2>6, <3>1, <3>2
  <2>7. CASE CopyMode /\ mover.pc = "copied" /\ mover'.pc = "remove"
    <3>1. past' = past /\ Source \in Loc /\ Source[2][3] # Hidden
      BY <2>7, MoverLoc, Names DEF CopyMode, At, Visible
    <3>2. RightNext(i, "mode", file'[Tmp].mode)
      <4>1. CASE i \in past.late["mode"]
        BY <3>1, <4>1 DEF RightNext
      <4>2. CASE HasFile(Source) /\ file[Source].data = i
        <5>1. file'[Tmp] = [v EXCEPT !.mode = m]
          BY <2>1, <2>7, <4>2 DEF CopyMode, FileTyped
        <5>2. file'[Tmp].mode = m
          BY <2>2, <5>1 DEF Inode
        <5>3. Shown(Source) /\ "mode" \in Attr /\ "mode" # "time"
          BY <3>1, <4>2 DEF Shown, Attr
        <5>4. i \notin past.late["mode"] => file[Source]["mode"] = past.wanted[i]["mode"]
          BY <3>1, <4>2, <5>3 DEF AttributesKept
        <5>. QED BY <3>1, <5>2, <5>4 DEF RightNext
      <4>. QED BY <2>3, <2>7, <4>1, <4>2
    <3>. QED BY <2>4, <2>5, <2>7, <3>2
  <2>8. CASE mover.pc # "copied" /\ mover'.pc # "copied"
    <3>1. ~CopyMode
      BY <2>8 DEF CopyMode, At
    <3>2. TooLate(i, "mode") /\ "mode" \in Attr
      BY <2>1, <2>8 DEF TooLate, Attr, Working
    <3>3. RightNext(i, "mode", v.mode)
      BY <2>2, <2>3, <2>8, <3>2, RightStays
    <3>. QED BY <2>1, <2>4, <2>5, <2>8, <3>1, <3>3
  <2>. QED BY <1>1, <1>2, <1>5, <2>6, <2>7, <2>8, AtPc DEF Copying
<1>. QED BY <1>2, <1>4, <1>5 DEF Copying

\* The mover has given the file its name and not yet its times.
Paused(l, k) == k = "time" /\ Working({"renamed", "times"}) /\ l = RenameTo

LEMMA ShownRight ==
    ASSUME AttributesKept, NEW l \in Loc, NEW k \in Attr, Shown(l), ~Paused(l, k)
    PROVE  Right(file[l].data, k, file[l][k])
BY DEF AttributesKept, Right, Paused

LEMMA PausedNext ==
    ASSUME Typed, [Next]_vars, mover.pc \in {"renamed", "times"}
    PROVE  \/ Working({"renamed", "times"})' /\ RenameTo' = RenameTo
           \/ OverwriteTimes \/ Die
<1>. USE DEF Typed
<1>. PICK m : m = mover
  OBVIOUS
<1>0. m \in MoverRec
  BY DEF WorkTyped
<1>1. CASE mover' = mover
  <2>1. RenameTo' = RenameTo
    BY <1>1 DEF RenameTo, Target, ConflictName, Source
  <2>. QED BY <1>1, <2>1 DEF Working
<1>2. CASE Record
  <2>1. mover' = [m EXCEPT !.pc = "times"]
    BY <1>2 DEF Record, MoveTo
  <2>2. mover'.pc = "times" /\ mover'.f = m.f /\ mover'.t = m.t /\ mover'.clash = m.clash
    BY <1>0, <2>1 DEF MoverRec
  <2>3. RenameTo' = RenameTo
    BY <2>2 DEF RenameTo, Target, ConflictName, Source
  <2>. QED BY <2>2, <2>3 DEF Working
<1>3. CASE Request
  BY <1>1, <1>3 DEF Request, worker
<1>4. CASE StartPass \/ Crawl \/ Join \/ UpdateDb \/ EndPass
  BY <1>1, <1>4 DEF StartPass, Crawl, Join, UpdateDb, EndPass
<1>5. ~Copy /\ ~CopyFail /\ ~CopyMode /\ ~Remove /\ ~TestExists /\ ~RenameTmp /\ ~ChangePath
      /\ ~(\E f \in files, t \in Tier : MoveFile(f, t))
  BY DEF Copy, CopyFail, CopyMode, Remove, TestExists, RenameTmp, ChangePath, MoveFile, At
<1>. QED BY <1>1, <1>2, <1>3, <1>4, <1>5 DEF Next, Worker, Restart, vars

\* overwrite_times gives the file the times of the crawl.
LEMMA Restored ==
    ASSUME Typed, RestoreRight, OverwriteTimes, NEW l \in Loc, HasFile(l), l = RenameTo
    PROVE  RightNext(file'[l].data, "time", file'[l].time)
<1>. USE DEF Typed
<1>1. mover.pc = "times" /\ Target \in Loc /\ "time" \in Attr
  BY MoverLoc DEF OverwriteTimes, At, Attr
<1>0. past.late \in [Attr -> SUBSET FileId]
  BY DEF PastTyped, PastRec
<1>2. past'.wanted = past.wanted
      /\ past'.late["time"] = past.late["time"] \cup IF mover.clash THEN Data(Target) \cup Data(RenameTo) ELSE {}
  BY <1>0, <1>1, LateMarks
<1>. PICK v, x : v = file[Target] /\ x = mover.f.time
  OBVIOUS
<1>3. file' = IF HasFile(Target) THEN [file EXCEPT ![Target] = [v EXCEPT !.time = x]] ELSE file
  BY DEF OverwriteTimes
<1>4. file'[l].data = file[l].data
  <2>1. CASE l = Target
    <3>1. v \in Inode
      BY <1>1, <2>1, FileHere
    <3>. QED BY <1>1, <1>3, <2>1, <3>1 DEF FileTyped, Inode
  <2>. QED BY <1>1, <1>3, <2>1 DEF FileTyped
<1>5. CASE mover.clash
  <2>1. file[l].data \in Data(RenameTo)
    BY DEF Data
  <2>. QED BY <1>2, <1>4, <1>5, <2>1 DEF RightNext
<1>6. CASE ~mover.clash
  <2>1. l = Target
    BY <1>6 DEF RenameTo
  <2>2. v \in Inode
    BY <1>1, <2>1, FileHere
  <2>3. file'[l].time = x
    <3>1. file'[l] = [v EXCEPT !.time = x]
      BY <1>1, <1>3, <2>1 DEF FileTyped
    <3>. QED BY <2>2, <3>1 DEF Inode
  <2>4. Right(file[l].data, "time", x)
    BY <1>1, <1>6, <2>1 DEF RestoreRight, Working
  <2>. QED BY <1>2, <1>4, <2>3, <2>4 DEF Right, RightNext
<1>. QED BY <1>5, <1>6

LEMMA SetRight ==
    ASSUME Typed, NEW k \in Attr, Set(k)
    PROVE  /\ Here \in Loc /\ HasFile(Here) /\ file[Here].data \in FileId
           /\ file'[Here].data = file[Here].data /\ RightNext(file'[Here].data, k, file'[Here][k])
<1>. USE DEF Typed
<1>. PICK v, w : v = file[Here] /\ w = [v EXCEPT ![k] = 1]
  OBVIOUS
<1>1. Here \in Loc /\ HasFile(Here) /\ v \in Inode /\ v.data \in FileId
  BY HereLoc, FileHere DEF Set, Calling, FileOps, OnlyName, Inode, FileId
<1>2. file' = [file EXCEPT ![Here] = w]
  BY DEF Set
<1>3. file'[Here] = w
  BY <1>1, <1>2 DEF FileTyped
<1>4. w.data = v.data /\ w[k] = 1
  BY <1>1 DEF Inode, Attr
<1>5. past'.wanted[v.data][k] = 1
  <2>. PICK h, i : h = past.wanted /\ i = v.data
    OBVIOUS
  <2>1. past'.wanted = [h EXCEPT ![i][k] = 1] /\ h \in [FileId -> [Attr -> Value]]
    BY LateMarks DEF PastTyped, PastRec
  <2>. QED BY <1>1, <2>1
<1>. QED BY <1>1, <1>3, <1>4, <1>5 DEF RightNext

\* What a file that stays in place, or comes whole from another place, brings with it.
LEMMA Brought ==
    ASSUME Typed, [Next]_vars, AttributesKept, NEW x \in Loc, NEW k \in Attr, Shown(x), ~Paused(x, k), ~Set(k)
    PROVE  RightNext(file[x].data, k, file[x][k])
<1>1. Right(file[x].data, k, file[x][k])
  BY ShownRight
<1>2. file[x].data \in FileId
  BY FileHere DEF Typed, Shown, Inode, FileId
<1>. QED BY <1>1, <1>2, RightStays

LEMMA StayedRight ==
    ASSUME Typed, [Next]_vars, AttributesKept, RestoreRight, NEW l \in Loc, NEW k \in Attr,
           Shown(l), file'[l].data = file[l].data, file'[l][k] = file[l][k], ~Paused(l, k)'
    PROVE  RightNext(file'[l].data, k, file'[l][k])
<1>1. CASE ~Paused(l, k) /\ ~Set(k)
  BY <1>1, Brought
<1>2. CASE Set(k) /\ l # Here /\ file[Here].data = file[l].data
  <2>1. OnlyName(Here) /\ HasFile(l)
    BY <1>2 DEF Set, Shown
  <2>2. l[2][3] = Hidden
    BY <1>2, <2>1 DEF OnlyName
  <2>. QED BY <2>2 DEF Shown
<1>3. CASE Set(k) /\ l = Here
  BY <1>3, SetRight
<1>4. CASE Set(k) /\ file[Here].data # file[l].data /\ ~Paused(l, k)
  <2>1. Right(file[l].data, k, file[l][k])
    BY <1>4, ShownRight
  <2>2. file[l].data \in FileId
    BY FileHere DEF Typed, Shown, Inode, FileId
  <2>. QED BY <1>4, <2>1, <2>2, RightStays
<1>5. CASE Paused(l, k)
  <2>1. mover.pc \in {"renamed", "times"} /\ l = RenameTo /\ k = "time"
    BY <1>5 DEF Paused, Working
  <2>2. OverwriteTimes \/ Die
    BY <2>1, PausedNext DEF Paused
  <2>3. HasFile(l) /\ file'[l]["time"] = file'[l].time
    BY DEF Shown
  <2>4. CASE OverwriteTimes
    BY <2>1, <2>3, <2>4, Restored
  <2>5. CASE Die
    <3>1. past'.late["time"] = past.late["time"] \cup Data(RenameTo)
      BY <2>1, <2>5, DieMarks DEF Working, Typed
    <3>2. file[l].data \in Data(RenameTo)
      BY <2>1, <2>3 DEF Data
    <3>. QED BY <2>1, <3>1, <3>2 DEF RightNext
  <2>. QED BY <2>2, <2>4, <2>5
<1>. QED BY <1>1, <1>2, <1>3, <1>4, <1>5

LEMMA AttributesNext ==
    Typed /\ Numbered /\ AttributesKept /\ CopyRight /\ RestoreRight /\ Unset /\ [Next]_vars => AttributesKept'
<1>. SUFFICES ASSUME Typed, Numbered, AttributesKept, CopyRight, RestoreRight, Unset, [Next]_vars,
                     NEW CONSTANT l \in Loc, NEW CONSTANT k \in Attr, HasNext(l), l[2][3] # Hidden,
                     ~Paused(l, k)'
              PROVE  RightNext(file'[l].data, k, file'[l][k])
  BY DEF AttributesKept, Shown, HasFile, HasNext, Paused, RightNext
<1>. USE DEF Typed
<1>1. CASE HasFile(l) /\ file'[l] = file[l]
  BY <1>1, StayedRight DEF Shown
<1>2. CASE Rename /\ l = There /\ HasFile(Here) /\ file'[l] = file[Here]
  <2>1. Here \in Loc /\ Shown(Here)
    BY <1>2, HereLoc, Names DEF Rename, Calling, FileOps, Shown, Visible
  <2>2. CASE Paused(Here, k)
    <3>1. past'.late = Split(Data(Here) \cup Data(There))
      BY <1>2, LateMarks
    <3>2. file[Here].data \in Data(Here) \cup Data(There)
      BY <1>2 DEF Data
    <3>3. TooLate(file[Here].data, k)
      BY <2>2 DEF Paused, TooLate
    <3>. QED BY <1>2, <3>1, <3>2, <3>3, Belated DEF RightNext
  <2>3. ~Set(k)
    BY <1>2 DEF Rename, Set, Calling, Attr
  <2>. QED BY <1>2, <2>1, <2>2, <2>3, Brought
<1>3. CASE Link /\ l = There /\ HasFile(Here) /\ file'[l] = file[Here]
  <2>1. past'.late[k] = past.late[k] \cup {file[Here].data}
    BY <1>3, LateMarks
  <2>. QED BY <1>3, <2>1 DEF RightNext
<1>4. ASSUME NEW op \in Makings, NEW p \in Visible, Make(op, p), l = <<1, p>>, file'[l] = NewFile(made + 1, op = "symlink")
      PROVE  RightNext(file'[l].data, k, file'[l][k])
  <2>1. file'[l].data = made + 1 /\ file'[l][k] = 0
    BY <1>4 DEF NewFile, Attr
  <2>2. made + 1 \in FileId /\ made + 1 > made
    BY <1>4, Numbers DEF Make, CountsTyped, FileId
  <2>3. past.wanted[made + 1][k] = 0
    BY <2>2 DEF Unset
  <2>4. past'.wanted = past.wanted
    BY <1>4, LateMarks
  <2>. QED BY <2>1, <2>3, <2>4 DEF RightNext
<1>5. CASE /\ RenameDir /\ Carries(req.t, req.p, req.q)
           /\ <<req.t, Moved(l[2], req.p)>> \in Loc /\ HasFile(<<req.t, Moved(l[2], req.p)>>)
           /\ file'[l] = file[<<req.t, Moved(l[2], req.p)>>]
  <2>. PICK x : x = <<req.t, Moved(l[2], req.p)>>
    OBVIOUS
  <2>1. req.p \in Dir
    BY <1>5 DEF RenameDir, Calling, DirChanges, ReqTyped
  <2>2. x \in Loc /\ x[2] = Moved(l[2], req.p) /\ HasFile(x) /\ file'[l] = file[x]
    BY <1>5
  <2>3. Shown(x)
    BY <2>1, <2>2, LocOf, MovedPath DEF Shown
  <2>4. CASE Paused(x, k)
    <3>1. past'.late = Split(1 .. made)
      BY <1>5, LateMarks
    <3>2. file[x].data \in 1 .. made
      BY <2>2 DEF Numbered
    <3>3. TooLate(file[x].data, k)
      BY <2>4 DEF Paused, TooLate
    <3>. QED BY <2>2, <3>1, <3>2, <3>3, Belated DEF RightNext
  <2>5. ~Set(k)
    BY <1>5 DEF RenameDir, Set, Calling, Attr
  <2>. QED BY <2>2, <2>3, <2>4, <2>5, Brought
<1>6. ASSUME NEW a \in Attr, Set(a), l = Here, file'[l] = [file[l] EXCEPT ![a] = 1]
      PROVE  RightNext(file'[l].data, k, file'[l][k])
  <2>1. HasFile(l) /\ file[l] \in Inode /\ file'[l].data = file[l].data
    BY <1>6, SetRight, FileHere
  <2>2. CASE a = k
    BY <1>6, <2>2, SetRight
  <2>3. CASE a # k
    <3>. PICK v : v = file[l]
      OBVIOUS
    <3>1. file'[l][k] = v[k]
      <4>1. v \in Inode /\ file'[l] = [v EXCEPT ![a] = 1]
        BY <1>6, <2>1
      <4>. QED BY <2>3, <4>1 DEF Inode, Attr
    <3>. QED BY <2>1, <3>1, StayedRight DEF Shown
  <2>. QED BY <2>2, <2>3
<1>7. ~((Copy \/ CopyMode) /\ l = Tmp)
  BY MoverLoc DEF Copy, CopyMode, At
<1>8. CASE RenameTmp /\ l = RenameTo /\ file'[l] = file[Tmp]
  <2>1. mover.pc = "tested" /\ HasFile(Tmp) /\ Tmp \in Loc
    BY <1>8, MoverLoc DEF RenameTmp, At
  <2>2. Working({"renamed", "times"})' /\ RenameTo' = RenameTo
    <3>. PICK m : m = mover
      OBVIOUS
    <3>1. m \in MoverRec /\ mover' = [m EXCEPT !.pc = "renamed"]
      BY <1>8 DEF WorkTyped, RenameTmp, MoveTo
    <3>2. mover'.pc = "renamed" /\ mover'.f = m.f /\ mover'.t = m.t /\ mover'.clash = m.clash
      BY <3>1 DEF MoverRec
    <3>. QED BY <3>2 DEF RenameTo, Target, ConflictName, Source, Working
  <2>3. k \in {"cut", "mode", "xattr"}
    BY <1>8, <2>2 DEF Paused, Attr
  <2>. PICK i : i = file[Tmp].data
    OBVIOUS
  <2>4. CASE past.carried \/ k = "xattr"
    <3>1. i \in Data(Tmp)
      BY <2>1 DEF Data
    <3>2. past'.late[k] = past.late[k] \cup {j \in Data(Tmp) : past.carried \/ k = "xattr" \/ (k = "time" /\ \E f \in files : f.at = RenameTo)}
      BY <1>8, LateMarks
    <3>. QED BY <1>8, <2>4, <3>1, <3>2 DEF RightNext
  <2>5. CASE ~past.carried /\ k # "xattr"
    <3>1. Right(i, "cut", file[Tmp].cut) /\ Right(i, "mode", file[Tmp].mode)
      BY <2>1, <2>5 DEF CopyRight, Working
    <3>2. Right(i, k, file[Tmp][k])
      BY <2>3, <2>5, <3>1
    <3>3. past'.wanted = past.wanted /\ past.late[k] \subseteq past'.late[k]
      BY <1>8, LateMarks, LateGrows
    <3>. QED BY <1>8, <3>2, <3>3 DEF Right, RightNext
  <2>. QED BY <2>4, <2>5
<1>9. CASE OverwriteTimes /\ HasFile(Target) /\ l = Target /\ file'[l] = [file[l] EXCEPT !.time = mover.f.time]
  <2>. PICK v, x : v = file[l] /\ x = mover.f.time
    OBVIOUS
  <2>1. v \in Inode /\ HasFile(l) /\ Shown(l) /\ file'[l] = [v EXCEPT !.time = x]
    BY <1>9, FileHere DEF Shown
  <2>2. file'[l].data = v.data /\ (k # "time" => file'[l][k] = v[k])
    BY <2>1 DEF Inode, Attr
  <2>3. CASE k # "time"
    BY <2>1, <2>2, <2>3, StayedRight
  <2>4. CASE k = "time" /\ ~mover.clash
    <3>1. l = RenameTo /\ file'[l]["time"] = file'[l].time
      BY <1>9, <2>4 DEF RenameTo
    <3>. QED BY <1>9, <2>1, <2>4, <3>1, Restored
  <2>5. CASE k = "time" /\ mover.clash
    <3>0. past.late \in [Attr -> SUBSET FileId]
      BY DEF PastTyped, PastRec
    <3>1. past'.late["time"] = past.late["time"] \cup (Data(Target) \cup Data(RenameTo))
      BY <1>9, <2>5, <3>0, LateMarks
    <3>2. v.data \in Data(Target)
      BY <1>9 DEF Data
    <3>. QED BY <2>2, <2>5, <3>1, <3>2 DEF RightNext
  <2>. QED BY <2>3, <2>4, <2>5
<1>. QED BY ComesBy, <1>1, <1>2, <1>3, <1>4, <1>5, <1>6, <1>7, <1>8, <1>9 DEF Comes

LEMMA AttributesInit == Init => AttrInv
<1>. SUFFICES ASSUME Init PROVE AttrInv
  OBVIOUS
<1>s. PICK S \in SUBSET {p \in Visible : HasDir(1, p[1])} :
        /\ Cardinality(S) <= OldFiles /\ made = Cardinality(S)
        /\ \E where \in [S -> Tier], id \in [S -> 1 .. Cardinality(S)] :
            /\ \A p, q \in S : id[p] = id[q] => p = q
            /\ file = [l \in Loc |-> IF l[2] \in S /\ where[l[2]] = l[1]
                                     THEN NewFile(id[l[2]], FALSE) ELSE Absent]
            /\ db = [p \in Path |-> IF p \in S THEN where[p] ELSE Absent]
  BY DEF Init
<1>1. PICK where \in [S -> Tier], id \in [S -> 1 .. Cardinality(S)] :
            file = [l \in Loc |-> IF l[2] \in S /\ where[l[2]] = l[1]
                                  THEN NewFile(id[l[2]], FALSE) ELSE Absent]
  BY <1>s
<1>2. ASSUME NEW l \in Loc, HasFile(l), NEW k \in Attr PROVE file[l][k] = 0 /\ file[l].data \in FileId
  <2>1. \E i : file[l] = NewFile(i, FALSE)
    BY <1>1, <1>2 DEF HasFile
  <2>2. file[l].data \in FileId
    BY <1>2, TypedInit, FileHere DEF Typed, Inode, FileId
  <2>. QED BY <2>1, <2>2 DEF NewFile, Attr
<1>3. past.wanted = [i \in FileId |-> [k \in Attr |-> 0]]
  <2>. PICK w : w = [i \in FileId |-> [k \in Attr |-> 0]]
    OBVIOUS
  <2>1. \E a, b, c, d, e, f, g, h, i : past = [wanted |-> w, late |-> a, gone |-> b, hit |-> c, shadowed |-> d, fresh |-> e,
                                               stale |-> f, torn |-> g, carried |-> h, died |-> i]
    BY DEF Init, FileId
  <2>2. past.wanted = w
    BY <2>1
  <2>. QED BY <2>2
<1>4. AttributesKept
  BY <1>2, <1>3 DEF AttributesKept, Shown
<1>5. Unset
  BY <1>3 DEF Unset
<1>6. CopyRight /\ CrawlRight /\ SourceRight /\ RestoreRight
  BY DEF Init, CopyRight, CrawlRight, SourceRight, RestoreRight, Working, NoMove
<1>. QED BY <1>4, <1>5, <1>6 DEF AttrInv

LEMMA AttributesInvNext == Typed /\ Housed /\ Guarded /\ Numbered /\ AttrInv /\ [Next]_vars => AttrInv'
BY AttributesNext, CopyRightNext, CrawlRightNext, SourceRightNext, RestoreRightNext, UnsetNext DEF AttrInv

LEMMA KeptNow == AttrInv => AttributesKept
BY DEF AttrInv

\* Lengths, permissions and times that applications set survive every move, conflict and
\* rename, unless the mover, or the crawl, had read them before or a request took the file
\* from under it: copy_ownership_and_perms and overwrite_times put back what was set.
THEOREM AttributesSurvive == Spec => []AttributesKept
BY TypedInit, TypedNext, HousedInit, HousedNext, GuardedInit, GuardedNext, KeptInit, NumberedNext,
   AttributesInit, AttributesInvNext, KeptNow, PTL DEF Spec
=============================================================================
