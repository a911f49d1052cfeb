----------------------------- MODULE Namespace -----------------------------
(***************************************************************************)
(* The file and directory operations of autotierfs (fuseOps/) next to a    *)
(* running pass.  The directory tree exists once per tier; a file is in    *)
(* one tier, which its database entry names.  A directory operation is     *)
(* repeated tier by tier and stops at the first failure; a file operation  *)
(* looks the tier up, makes one system call there and updates the entry.   *)
(* The worker crawls the tiers, moves files and writes the metadata back,  *)
(* and shares no lock with the operations.                                 *)
(*                                                                         *)
(* The kernel's directory locks and libfuse's path locks run operations on *)
(* related paths one after the other: there is one request at a time, and  *)
(* each of its system and database calls is a step between steps of the    *)
(* worker.  init.cpp turns the kernel's caches off, so a request starts    *)
(* with a getattr.  TierMigration models open files and parallel movers,   *)
(* Listing readdir.                                                        *)
(*                                                                         *)
(* Abstractions: directories stand in the root, files in them; a file's    *)
(* data is the number of the call that made it; cut stands for its length, *)
(* mode for owner and permissions, xattr for its extended attributes, time *)
(* for its times.  No name is a directory's at one time and a file's at    *)
(* another: where that would make a call of the worker throw, it is one of *)
(* the exceptions of Die.                                                  *)
(***************************************************************************)
EXTENDS Integers, FiniteSets

CONSTANTS
    Dir,        \* directories applications use
    Base,       \* file names they use
    NTiers,     \* number of tiers
    Absent,
    MaxFiles,   \* bound: files that are ever made
    MaxRequests,\* bound: requests
    MaxMoves,   \* bound: files moved
    OldFiles    \* bound: files that are there at the start

ASSUME SpaceAssumption ==
    /\ NTiers \in Nat \ {0} /\ OldFiles \in 0 .. MaxFiles
    /\ MaxFiles \in Nat /\ MaxRequests \in Nat /\ MaxMoves \in Nat
    /\ IsFiniteSet(Dir) /\ IsFiniteSet(Base) /\ Absent \notin Nat

Tier == 1 .. NTiers
\* A name as it is, its ".autotier.hide" temporary, or its conflict copy from tier k.
Plain == 0
Hidden == -1
Kind == {Plain, Hidden} \cup Tier
Path == Dir \X Base \X Kind
Loc == Tier \X Path
Visible == {p \in Path : p[3] = Plain}
In(d) == {p \in Path : p[1] = d}
Moved(p, d) == <<d, p[2], p[3]>>            \* p with its directory replaced

\* What a request can set.  Raw: what the mover's own creat or mkdir leaves.
Attr == {"cut", "mode", "xattr", "time"}
Raw == 2
Value == {0, 1, Raw}
Inode == [data : 1 .. MaxFiles, sym : BOOLEAN,
          cut : Value, mode : Value, xattr : Value, time : Value]

\* Absent is no file.
ASSUME AbsentAssumption == Absent \notin Inode

VARIABLES
    dir,        \* mode of every directory in every tier, or Absent
    file,       \* what stands at every backend path
    db,         \* rocksdb: the tier of every path
    req,        \* the request: operation, step, its paths, the tier it is at
    taken,      \* history: names a mover took away since the request began
    phase,      \* the worker: idle, crawl, move, update
    crawling,   \* the next tier launch_crawlers visits
    files,      \* files_: crawled location, relative_path_, metadata_, times_
    mover,      \* where the mover is, its File and the destination
    made, begun, moves, \* files made, requests begun, files moved
    past        \* history, for the properties

vars == <<dir, file, db, req, taken, phase, crawling, files, mover, made, begun, moves, past>>
worker == <<phase, crawling, files, mover, moves>>
counts == <<made, begun>>

NoReq == [op |-> "none", step |-> "none", p |-> Absent, q |-> Absent, t |-> 1]
NoMove == [pc |-> "idle", f |-> Absent, t |-> 1, clash |-> FALSE]
NewFile(i, s) == [data |-> i, sym |-> s, cut |-> 0, mode |-> 0, xattr |-> 0, time |-> 0]

HasDir(t, d) == dir[t][d] # Absent
HasFile(l) == file[l] # Absent
EmptyDir(t, d) == \A p \in In(d) : ~HasFile(<<t, p>>)

\* getattr: a directory is looked for in the first tier, a file where its entry says.
SeesDir(d) == HasDir(1, d)
Sees(p) == SeesDir(p[1]) /\ db[p] # Absent /\ HasFile(<<db[p], p>>)

\* The pass has, or will have, written metadata of its own for p.
Held(p) == \E f \in files : f.name = p
Tmp == <<mover.t, <<mover.f.name[1], mover.f.name[2], Hidden>>>>
Working(pcs) == mover.pc \in pcs
\* No other name has the data of l: what happens to l happens to the file.  A temporary
\* counts when its source is gone.
OnlyName(l) == HasFile(l) /\ \A k \in Loc \ {l} :
    /\ HasFile(k) /\ file[k].data = file[l].data
    => k[2][3] = Hidden /\ ~(Working({"removed", "tested"}) /\ k = Tmp)
\* A mover has a copy of file i under its temporary name.
Copied(i) == /\ Working({"copied", "remove", "removed", "tested"})
             /\ HasFile(Tmp) /\ file[Tmp].data = i
\* A copy of file i has taken its k already; times are taken by the crawl.
TooLate(i, k) ==
    \/ Copied(i) /\ (k = "cut" \/ ~Working({"copied"}))
    \/ k = "time" /\ (files # {} \/ Working({"renamed", "times"}))
-----------------------------------------------------------------------------
\* Backends whose directories were cloned (README.md, Quick Start), and files that the
\* database knows.
Init ==
    /\ \E D \in SUBSET Dir :
        dir = [t \in Tier |-> [d \in Dir |-> IF d \in D THEN 0 ELSE Absent]]
    /\ \E S \in SUBSET {p \in Visible : HasDir(1, p[1])} :
        /\ Cardinality(S) <= OldFiles /\ made = Cardinality(S)
        /\ \E where \in [S -> Tier], id \in [S -> 1 .. Cardinality(S)] :
            /\ \A p, q \in S : id[p] = id[q] => p = q
            /\ file = [l \in Loc |-> IF l[2] \in S /\ where[l[2]] = l[1]
                                     THEN NewFile(id[l[2]], FALSE) ELSE Absent]
            /\ db = [p \in Path |-> IF p \in S THEN where[p] ELSE Absent]
    /\ req = NoReq /\ taken = {}
    /\ phase = "idle" /\ crawling = 1 /\ files = {} /\ mover = NoMove
    /\ begun = 0 /\ moves = 0
    /\ past = [wanted |-> [i \in 1 .. MaxFiles |-> [k \in Attr |-> 0]],
               late |-> [k \in Attr |-> {}],     \* files whose k was set too late,
                                                 \* or that had two names or copies
               gone |-> {},                      \* files unlinked or replaced
               hit |-> {},                       \* truncated by a create that did not see
                                                 \* them, put in the mover's way, or a
                                                 \* conflict copy that a later one replaced
               shadowed |-> {},                  \* names that two tiers have: made, linked
                                                 \* or renamed over in one of them only
               fresh |-> {},                     \* made without an entry, which the next
                                                 \* pass stores
               stale |-> {},                     \* changed while the pass held metadata
               torn |-> {},                      \* directories an operation left half done,
                                                 \* or that a mover made in its tier
               carried |-> FALSE,                \* a directory rename took the temporary
               died |-> FALSE]                   \* an exception in a pass ended the daemon
-----------------------------------------------------------------------------
(* Requests *)

InFlight == IF Working({"removed", "tested"}) THEN {mover.f.name} ELSE {}
Begin(r) ==
    /\ req = NoReq /\ begun < MaxRequests
    /\ req' = r /\ begun' = begun + 1
    /\ taken' = IF r = NoReq THEN {} ELSE InFlight
Goto(r) ==
    /\ req' = r
    /\ taken' = IF r = NoReq THEN {} ELSE taken
Finish == Goto(NoReq)
UpdateNext == Goto([req EXCEPT !.step = "entry"])
Calling(op) == req.op = op /\ req.step = "call"
Here == <<req.t, req.p>>
There == <<req.t, req.q>>
\* The file that ends with l, unless a mover has a copy, which will bring it back.
Lost(l) == {file[k].data : k \in {x \in {l} : OnlyName(x) /\ ~Copied(file[x].data)}}
Data(l) == {file[k].data : k \in {x \in {l} : HasFile(x)}}
\* The pass holds metadata of p or has moved it since the request began, or did before.
Stale(P) == {p \in P : Held(p) \/ p \in taken \cup past.stale \cup past.shadowed}
\* Of the files I one is put where a mover is reading or about to write.
InPlace(l, I) == {i \in I : ~Working({"idle"}) /\ l \in {mover.f.at, <<mover.t, mover.f.name>>}}
StaleUnder(d, e) == {p \in In(d) \cup In(e) : Stale({Moved(p, d), Moved(p, e)}) # {}}
\* A file under this name in tier t is not the only one.
Second(t, p) == {q \in {p} : \E u \in Tier \ {t} : HasFile(<<u, q>>)}
\* Of these files the mover's copy becomes a second one, or has the times of another.
Split(I) == [k \in Attr |-> past.late[k] \cup {i \in I : Copied(i) \/ TooLate(i, k)}]

\* The kernel's getattr has found p, is_directory(p) is false, Metadata says which tier.
Lookup(op, p, q) ==
    /\ Sees(p) /\ SeesDir(q[1])
    /\ op \in {"rename", "link"} <=> p # q
    /\ op = "link" => ~Sees(q)
    /\ Begin([op |-> op, step |-> "call", p |-> p, q |-> q, t |-> db[p]])
    /\ UNCHANGED <<dir, file, db, made, past>>

FileOps == {"unlink", "rename", "link", "stat"} \cup Attr

\* The system call fails: -errno.
CallFails ==
    /\ req.op \in FileOps /\ req.step = "call"
    /\ \/ ~HasFile(Here)
       \/ req.op \in {"rename", "link"} /\ ~HasDir(req.t, req.q[1])
       \/ req.op = "link" /\ HasFile(There)
    /\ Finish
    /\ UNCHANGED <<dir, file, db, counts, past>>

\* One system call that changes nothing.
Stat ==
    /\ Calling("stat") /\ HasFile(Here)
    /\ Finish
    /\ UNCHANGED <<dir, file, db, counts, past>>
Access == Stat
Readlink == Stat
Lseek == Stat
Getxattr == Stat
Listxattr == Stat

Unlink ==
    /\ Calling("unlink") /\ HasFile(Here)
    /\ file' = [file EXCEPT ![Here] = Absent]
    /\ past' = [past EXCEPT !.gone = @ \cup Lost(Here),
                            !.stale = @ \cup Stale({req.p}),
                            !.late = Split(Data(Here))]
    /\ UpdateNext
    /\ UNCHANGED <<dir, db, counts>>

\* Mutant: the entry stays in the database.
UnlinkEntryKept ==
    /\ req.op = "unlink" /\ req.step = "entry"
    /\ Finish
    /\ UNCHANGED <<dir, file, db, counts, past>>

UnlinkEntry ==
    /\ req.op = "unlink" /\ req.step = "entry"
    /\ db' = [db EXCEPT ![req.p] = Absent]
    /\ past' = [past EXCEPT !.stale = @ \cup Stale({req.p})]
    /\ Finish
    /\ UNCHANGED <<dir, file, counts>>

\* ::rename within the tier of the source: a file of the new name in another tier is not
\* replaced.  Of two names of one inode both stay.
Rename ==
    /\ Calling("rename") /\ HasFile(Here) /\ HasDir(req.t, req.q[1])
    /\ \/ file' = [file EXCEPT ![Here] = Absent, ![There] = file[Here]]
       \/ /\ HasFile(There) /\ file[There].data = file[Here].data
          /\ file' = file
    /\ past' = [past EXCEPT
          !.gone = @ \cup Lost(There), !.hit = @ \cup InPlace(There, Data(Here)),
          !.shadowed = @ \cup Second(req.t, req.q),
          !.stale = @ \cup Stale({req.p, req.q}),
          !.late = Split(Data(Here) \cup Data(There))]
    /\ UpdateNext
    /\ UNCHANGED <<dir, db, counts>>

\* Metadata::update: one batch deletes the old key and puts the new one.
RenameEntry ==
    /\ req.op = "rename" /\ req.step = "entry"
    /\ db' = [db EXCEPT ![req.p] = Absent, ![req.q] = req.t]
    /\ past' = [past EXCEPT !.stale = @ \cup Stale({req.p, req.q}),
                            !.fresh = @ \cup {p \in {req.p} : HasFile(Here)}]
    /\ Finish
    /\ UNCHANGED <<dir, file, counts>>

\* ::link succeeds, ::lchown of the mount-relative path does not: the request fails,
\* the name stays, and no entry is stored.
Link ==
    /\ Calling("link") /\ HasFile(Here) /\ HasDir(req.t, req.q[1]) /\ ~HasFile(There)
    /\ file' = [file EXCEPT ![There] = file[Here]]
    /\ past' = [past EXCEPT !.fresh = @ \cup {req.q},
                            !.stale = @ \cup Stale({req.q}),
                            !.shadowed = @ \cup Second(req.t, req.q),
                            !.hit = @ \cup InPlace(There, Data(Here)),
                            !.late = [k \in Attr |-> @[k] \cup {file[Here].data}]]
    /\ Finish
    /\ UNCHANGED <<dir, db, counts>>

\* One system call on the attributes.  Names with a hard link are left out.
Set(k) ==
    /\ Calling(k) /\ OnlyName(Here)
    /\ file' = [file EXCEPT ![Here][k] = 1]
    /\ LET i == file[Here].data IN
       past' = [past EXCEPT !.wanted[i][k] = 1,
                            !.late[k] = IF TooLate(i, k) THEN @ \cup {i} ELSE @]
    /\ Finish
    /\ UNCHANGED <<dir, db, counts>>

Truncate == Set("cut")
Chmod == Set("mode")
Chown == Set("mode")
Setxattr == Set("xattr")
Removexattr == Set("xattr")
Utimens == Set("time")

\* A file is made in the first tier when getattr has not found one: mknod and symlink
\* construct a Metadata and drop it, create stores it.  ::mknod and ::symlink want no
\* file there, ::creat truncates it.
Make(op, p) ==
    /\ made < MaxFiles
    /\ SeesDir(p[1]) /\ ~Sees(p)
    /\ op # "create" => ~HasFile(<<1, p>>)
    /\ made' = made + 1
    /\ file' = [file EXCEPT ![<<1, p>>] = NewFile(made + 1, op = "symlink")]
    /\ past' = [past EXCEPT
          !.hit = @ \cup Data(<<1, p>>) \cup InPlace(<<1, p>>, {made + 1}),
          !.fresh = IF op = "create" THEN @ \ {p} ELSE @ \cup {p},
          !.shadowed = @ \cup Second(1, p),
          !.stale = @ \cup Stale({p}),
          !.late = Split(Data(<<1, p>>) \cup {i \in {made + 1} : Held(p)})]
    /\ Begin(IF op = "create" THEN [op |-> op, step |-> "entry", p |-> p, q |-> p, t |-> 1]
             ELSE NoReq)
    /\ UNCHANGED <<dir, db>>

\* Metadata(path, db, top_tier).update(path, db): an entry that is there keeps its tier.
CreateEntry ==
    /\ req.op = "create" /\ req.step = "entry"
    /\ db' = [db EXCEPT ![req.p] = IF @ = Absent THEN 1 ELSE @]
    /\ past' = [past EXCEPT !.stale = @ \cup Stale({req.p})]
    /\ Finish
    /\ UNCHANGED <<dir, file, counts>>
-----------------------------------------------------------------------------
(* Requests on directories: a loop over the tiers that stops at a failure *)

DirChanges == {"mkdir", "rmdir", "setdir", "renamedir"}

BeginDir(op, d, e) ==
    /\ IF op = "mkdir" THEN ~SeesDir(d) ELSE SeesDir(d)
    /\ op = "renamedir" <=> d # e
    /\ Begin([op |-> op, step |-> "call", p |-> d, q |-> e, t |-> 1])
    /\ UNCHANGED <<dir, file, db, made, past>>

\* One turn: on to the next tier, after the last one to `after`, or out with an error.
Turn(ok, after) ==
    /\ Goto(IF ~ok THEN NoReq
            ELSE IF req.t < NTiers THEN [req EXCEPT !.t = @ + 1]
            ELSE after)
    /\ past' = [past EXCEPT
          !.torn = @ \cup IF (~ok /\ req.t > 1)
                            \/ (ok /\ req.op = "renamedir" /\ req.p \in @)
                         THEN {req.p, req.q} ELSE {},
          !.stale = @ \cup IF ok /\ req.op = "renamedir"
                           THEN StaleUnder(req.p, req.q) ELSE {},
          !.carried = \/ @
                       \/ /\ ok /\ req.op = "renamedir"
                          /\ ~Working({"idle", "copy"}) /\ Tmp[1] = req.t
                          /\ Tmp[2][1] = req.p,
          !.late = IF ok /\ req.op = "renamedir" THEN Split(1 .. made) ELSE @,
          !.hit = @ \cup IF ok /\ req.op = "renamedir"
                         THEN UNION {InPlace(<<req.t, p>>, Data(<<req.t, Moved(p, req.p)>>)) :
                                     p \in In(req.q)} ELSE {}]
    /\ UNCHANGED counts

Mkdir ==
    /\ Calling("mkdir")
    /\ dir' = [dir EXCEPT ![req.t][req.p] = IF @ = Absent THEN 0 ELSE @]
    /\ Turn(dir[req.t][req.p] = Absent, NoReq)
    /\ UNCHANGED <<file, db>>

Rmdir ==
    /\ Calling("rmdir")
    /\ LET ok == HasDir(req.t, req.p) /\ EmptyDir(req.t, req.p) IN
       /\ dir' = [dir EXCEPT ![req.t][req.p] = IF ok THEN Absent ELSE @]
       /\ Turn(ok, NoReq)
    /\ UNCHANGED <<file, db>>

\* chmod, chown, utimens, setxattr and removexattr of a directory.
SetDir ==
    /\ Calling("setdir")
    /\ dir' = [dir EXCEPT ![req.t][req.p] = IF @ # Absent THEN 1 ELSE @]
    /\ Turn(dir[req.t][req.p] # Absent, NoReq)
    /\ UNCHANGED <<file, db>>

\* Mutant: the error of a tier is forgotten when a later tier succeeds.
RenameDirOn ==
    /\ Calling("renamedir")
    /\ LET t == req.t  d == req.p  e == req.q
           ok == HasDir(t, d) /\ (HasDir(t, e) => EmptyDir(t, e)) IN
       /\ dir' = IF ok THEN [dir EXCEPT ![t][e] = dir[t][d], ![t][d] = Absent] ELSE dir
       /\ file' = [l \in Loc |-> CASE ok /\ l[1] = t /\ l[2][1] = e -> file[<<t, Moved(l[2], d)>>]
                                   [] ok /\ l[1] = t /\ l[2][1] = d -> Absent
                                   [] OTHER -> file[l]]
    /\ Turn(TRUE, [req EXCEPT !.step = "keys"])
    /\ UNCHANGED db

\* ::rename of the directory in this tier, over an empty one at most.
RenameDir ==
    /\ Calling("renamedir")
    /\ LET t == req.t  d == req.p  e == req.q
           ok == HasDir(t, d) /\ (HasDir(t, e) => EmptyDir(t, e)) IN
       /\ dir' = IF ok THEN [dir EXCEPT ![t][e] = dir[t][d], ![t][d] = Absent] ELSE dir
       /\ file' = [l \in Loc |-> CASE ok /\ l[1] = t /\ l[2][1] = e -> file[<<t, Moved(l[2], d)>>]
                                   [] ok /\ l[1] = t /\ l[2][1] = d -> Absent
                                   [] OTHER -> file[l]]
       /\ Turn(ok, [req EXCEPT !.step = "keys"])
    /\ UNCHANGED db

\* update_keys_in_directory: one batch moves every key under the old prefix.
RenameKeys ==
    /\ req.op = "renamedir" /\ req.step = "keys"
    /\ db' = [p \in Path |-> CASE p[1] = req.p -> Absent
                               [] p[1] = req.q /\ db[Moved(p, req.p)] # Absent
                                    -> db[Moved(p, req.p)]
                               [] OTHER -> db[p]]
    /\ past' = [past EXCEPT !.stale = @ \cup StaleUnder(req.p, req.q),
                            !.fresh = @ \cup {p \in In(req.q) \cap Visible : db[Moved(p, req.p)] = Absent}]
    /\ Finish
    /\ UNCHANGED <<dir, file, counts>>

Request ==
    /\ \/ \E op \in FileOps, p, q \in Visible : Lookup(op, p, q)
       \/ CallFails \/ Access \/ Readlink \/ Lseek \/ Getxattr \/ Listxattr
       \/ Unlink \/ UnlinkEntry \/ Rename \/ RenameEntry \/ Link
       \/ Truncate \/ Chmod \/ Chown \/ Setxattr \/ Removexattr \/ Utimens
       \/ \E op \in {"create", "mknod", "symlink"}, p \in Visible : Make(op, p)
       \/ CreateEntry
       \/ \E op \in DirChanges, d, e \in Dir : BeginDir(op, d, e)
       \/ Mkdir \/ Rmdir \/ SetDir \/ RenameDir \/ RenameKeys
    /\ UNCHANGED worker
-----------------------------------------------------------------------------
(* The worker; one File is moved at a time *)

\* Mutant: the crawl starts before the first tier.
StartPassEarly ==
    /\ phase = "idle"
    /\ phase' = "crawl" /\ crawling' = 0
    /\ UNCHANGED <<dir, file, db, files, mover, past>>

StartPass ==
    /\ phase = "idle"
    /\ phase' = "crawl"
    /\ UNCHANGED <<dir, file, db, crawling, files, mover, past>>

\* crawl() of one tier, without symlinks: the entry of the database, or this tier; the
\* times of the file.
Crawl ==
    /\ phase = "crawl"
    /\ LET t == crawling IN
       files' = files \cup
          {[at |-> <<t, p>>, name |-> p, meta |-> IF db[p] = Absent THEN t ELSE db[p],
            time |-> file[<<t, p>>].time, done |-> FALSE] :
           p \in {q \in Path : HasFile(<<t, q>>) /\ ~file[<<t, q>>].sym}}
    /\ IF crawling = NTiers THEN phase' = "move" /\ crawling' = 1
       ELSE phase' = phase /\ crawling' = crawling + 1
    /\ UNCHANGED <<dir, file, db, mover, past>>

At(pc) == phase = "move" /\ mover.pc = pc
MoveTo(pc) == mover' = [mover EXCEPT !.pc = pc]
Source == mover.f.at
Target == <<mover.t, mover.f.name>>
ConflictName == <<mover.f.name[1], mover.f.name[2], Source[1]>>
\* Mutant: the temporary replaces whatever has the name.
RenameToName == Target
RenameTo == IF mover.clash THEN <<mover.t, ConflictName>> ELSE Target
Take(P) == taken' = IF req = NoReq THEN {} ELSE taken \cup P

\* move_file() begins: the parent directories are made in the destination.
MoveFile(f, t) ==
    /\ At("idle") /\ f.name \in Visible /\ ~f.done /\ t # f.at[1]
    /\ moves < MaxMoves /\ moves' = moves + 1
    /\ mover' = [pc |-> "copy", f |-> f, t |-> t, clash |-> FALSE]
    /\ files' = (files \ {f}) \cup {[f EXCEPT !.done = TRUE]}
    /\ LET D == {d \in {f.name[1]} : ~HasDir(t, d)} IN
       /\ dir' = [dir EXCEPT ![t] = [d \in Dir |-> IF d \in D THEN Raw ELSE @[d]]]
       /\ past' = [past EXCEPT !.torn = @ \cup D]
    /\ UNCHANGED <<file, db, phase, crawling>>

\* Both opens and the copy loop; the extended attributes are not copied.
Copy ==
    /\ At("copy") /\ HasFile(Source) /\ HasDir(mover.t, mover.f.name[1]) /\ ~HasFile(Tmp)
    /\ file' = [file EXCEPT ![Tmp] = [file[Source] EXCEPT !.mode = Raw, !.xattr = 0, !.time = Raw]]
    /\ MoveTo("copied")
    /\ UNCHANGED <<dir, db, phase, crawling, files, past>>

\* Mutant: a failed copy counts as a success.
CopyFailOn ==
    /\ At("copy")
    /\ MoveTo("remove")
    /\ UNCHANGED <<dir, file, db, phase, crawling, files, past>>

\* copy_error_out, before or after the temporary was made.
CopyFail ==
    /\ At("copy") \/ At("copied")
    /\ mover' = NoMove
    /\ UNCHANGED <<dir, file, db, phase, crawling, files, past>>

\* Mutant: permissions are read after the source is removed.
CopyModeLate ==
    /\ At("copied")
    /\ MoveTo("remove")
    /\ UNCHANGED <<dir, file, db, phase, crawling, files, past>>

\* copy_ownership_and_perms, if the source is still there.
CopyMode ==
    /\ At("copied")
    /\ file' = IF HasFile(Source) /\ HasFile(Tmp)
               THEN [file EXCEPT ![Tmp].mode = file[Source].mode] ELSE file
    /\ MoveTo("remove")
    /\ UNCHANGED <<dir, db, phase, crawling, files, past>>

\* fs::remove(old_path)
Remove ==
    /\ At("remove")
    /\ file' = [file EXCEPT ![Source] = Absent]
    /\ MoveTo("removed") /\ Take({mover.f.name})
    /\ UNCHANGED <<dir, db, phase, crawling, files, past>>

\* fs::exists(new_path)
TestExists ==
    /\ At("removed")
    /\ mover' = [mover EXCEPT !.pc = "tested", !.clash = HasFile(Target)]
    /\ UNCHANGED <<dir, file, db, phase, crawling, files, past>>

\* fs::rename of the temporary, which is still where it was made, or what a directory rename
\* put in its place.  A second conflict copy replaces the first; where the pass has crawled a
\* file of its own, the times are that one's.
RenameTmp ==
    /\ At("tested") /\ HasFile(Tmp)
    /\ file' = [file EXCEPT ![RenameTo] = file[Tmp], ![Tmp] = Absent]
    /\ MoveTo("renamed") /\ Take({mover.f.name, RenameTo[2]})
    /\ past' = [past EXCEPT
          !.hit = @ \cup IF mover.clash THEN Data(<<mover.t, ConflictName>>) ELSE {},
          !.late = [k \in Attr |-> @[k] \cup {i \in Data(Tmp) :
                       \/ past.carried \/ k = "xattr"
                       \/ k = "time" /\ \E f \in files : f.at = RenameTo}]]
    /\ UNCHANGED <<dir, db, phase, crawling, files>>

\* The worker and the movers call std::filesystem without error codes and catch nothing:
\* directory_iterator on a directory that is renamed or removed during the crawl,
\* create_directories, remove and exists on an error, rename when the temporary is gone or
\* the name has become a directory's.  One such exception, in any of the threads of a pass,
\* ends the daemon wherever the others are.  It is started again.
Die ==
    /\ phase \in {"crawl", "move"}
    /\ phase' = "idle" /\ crawling' = 1 /\ files' = {} /\ mover' = NoMove
    /\ past' = [past EXCEPT !.died = TRUE,
                            !.late["time"] = @ \cup IF Working({"renamed", "times"})
                                                    THEN Data(RenameTo) ELSE {}]
    /\ UNCHANGED <<dir, file, db>>

\* Mutant: the metadata is left to update_db.
RecordLater ==
    /\ At("renamed")
    /\ files' = {IF f.at = Source THEN [f EXCEPT !.meta = mover.t] ELSE f : f \in files}
    /\ MoveTo("times")
    /\ UNCHANGED <<dir, file, db, phase, crawling, past>>

\* transfer_to_tier
Record ==
    /\ At("renamed")
    /\ db' = [db EXCEPT ![mover.f.name] = mover.t]
    /\ files' = {IF f.at = Source THEN [f EXCEPT !.meta = mover.t] ELSE f : f \in files}
    /\ MoveTo("times")
    /\ UNCHANGED <<dir, file, phase, crawling, past>>

\* overwrite_times: the times of the crawl, on whatever has the name in the destination.
\* After a conflict that is the file that was there before.
OverwriteTimes ==
    /\ At("times")
    /\ file' = IF HasFile(Target) THEN [file EXCEPT ![Target].time = mover.f.time] ELSE file
    /\ IF mover.clash THEN MoveTo("change") ELSE mover' = NoMove
    /\ past' = [past EXCEPT !.late["time"] = @
          \cup IF mover.clash THEN Data(Target) \cup Data(RenameTo) ELSE {}]
    /\ UNCHANGED <<dir, db, phase, crawling, files>>

\* change_path: the entry of the name goes, though a file still has it.
ChangePath ==
    /\ At("change")
    /\ db' = [db EXCEPT ![mover.f.name] = Absent, ![ConflictName] = mover.t]
    /\ files' = {IF f.at = Source THEN [f EXCEPT !.name = ConflictName] ELSE f : f \in files}
    /\ past' = [past EXCEPT !.shadowed = @ \cup {mover.f.name}]
    /\ mover' = NoMove
    /\ UNCHANGED <<dir, file, phase, crawling>>

Join ==
    /\ At("idle")
    /\ phase' = "update"
    /\ UNCHANGED <<dir, file, db, crawling, files, mover, past>>

\* update_db: the metadata of every File, in any order.
UpdateDb ==
    /\ phase = "update"
    /\ \E f \in files :
        /\ db' = [db EXCEPT ![f.name] = f.meta]
        /\ files' = files \ {f}
        /\ past' = [past EXCEPT !.fresh = @ \ {f.name}]
    /\ UNCHANGED <<dir, file, phase, crawling, mover>>

EndPass ==
    /\ phase = "update" /\ files = {}
    /\ phase' = "idle"
    /\ UNCHANGED <<dir, file, db, crawling, files, mover, past>>

Worker ==
    /\ \/ /\ \/ StartPass \/ Crawl \/ Copy \/ CopyFail \/ CopyMode \/ TestExists
             \/ Record \/ OverwriteTimes \/ ChangePath \/ Join \/ UpdateDb \/ EndPass
          /\ UNCHANGED <<taken, moves>>
       \/ (Remove \/ RenameTmp) /\ UNCHANGED moves
       \/ \E f \in files, t \in Tier : MoveFile(f, t) /\ UNCHANGED taken
    /\ UNCHANGED <<req, counts>>

\* The end of the daemon is the end of the request in progress as well.
Restart == Die /\ Finish /\ UNCHANGED <<counts, moves>>

Next == Request \/ Worker \/ Restart

Spec == Init /\ [][Next]_vars
-----------------------------------------------------------------------------
(* Properties *)

TypeOK ==
    /\ dir \in [Tier -> [Dir -> Value \cup {Absent}]]
    /\ file \in [Loc -> Inode \cup {Absent}]
    /\ db \in [Path -> Tier \cup {Absent}]
    /\ phase \in {"idle", "crawl", "move", "update"} /\ crawling \in Tier
    /\ \A f \in files : f.at \in Loc /\ f.name \in Path /\ f.meta \in Tier
    /\ made \in 0 .. MaxFiles /\ begun \in 0 .. MaxRequests /\ moves \in 0 .. MaxMoves

\* A request or a move is about to change p, or has changed it in part.
Busy(p) == \/ req.step = "entry" /\ p \in {req.p, req.q}
           \/ req.op \in DirChanges /\ p[1] \in {req.p, req.q}
           \/ Working({"removed", "tested", "renamed", "times", "change"})
              /\ mover.f.name = p
\* The code is known to lose track of p: it changed under a pass that held metadata of
\* it, a rename replaced it in another tier, or an operation on its directory failed.
Excused(p) == p \in past.stale \cup past.shadowed \/ p[1] \in past.torn \/ past.died

\* No entry names a tier that does not hold the file.  After unlink and rename nothing
\* of the old name is left, and the write-backs of a pass restore no entry, unless the
\* name changed while the pass held it.
NoGhost == \A p \in Visible :
    db[p] # Absent /\ ~Busy(p) /\ ~Excused(p) => HasFile(<<db[p], p>>)

\* Every regular file is found under its name, wherever unlink, rename, directory
\* operations and passes have left it; one made by mknod or link, or under a name without
\* an entry, as soon as a pass has written its metadata.
Findable == \A l \in Tier \X Visible :
    /\ HasFile(l) /\ ~file[l].sym
    /\ ~Busy(l[2]) /\ ~Excused(l[2]) /\ l[2] \notin past.fresh
    => Sees(l[2])

\* Lengths, permissions and times that applications set survive every move, conflict and
\* rename, unless they were set after the mover, or the crawl, had read them; a file that
\* has just been moved has its times as soon as overwrite_times has run, unless the daemon
\* ends before.  Extended attributes survive renames, but no move.
Shown(l) == HasFile(l) /\ l[2][3] # Hidden
AttributesKept == \A l \in Loc, k \in Attr :
    /\ Shown(l) /\ file[l].data \notin past.late[k]
    /\ k = "time" /\ Working({"renamed", "times"}) => l # RenameTo
    => file[l][k] = past.wanted[file[l].data][k]

\* No file is lost but by unlink or by a rename over its name, unless create truncates a
\* name it cannot see, or a request puts the file where a mover is at work.
FilesKept == \A i \in 1 .. made :
    i \in past.gone \cup past.hit \/ \E l \in Loc : i \in Data(l)

\* The tiers agree on the directories and their modes, unless an operation failed half
\* way or a mover made the directory in the tier it moved to.
DirsAgree == \A d \in Dir, t \in Tier :
    /\ req.op \in DirChanges => d \notin {req.p, req.q}
    /\ d \notin past.torn /\ ~past.died
    => dir[t][d] = dir[1][d]

\* From the removal of the source until the mover renames its temporary, the temporary is
\* the only copy of the file, and no request takes it away but the renaming of its directory.
TemporaryStays == At("removed") \/ At("tested") => HasFile(Tmp) \/ past.carried
=============================================================================
