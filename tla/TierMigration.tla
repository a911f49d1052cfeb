--------------------------- MODULE TierMigration ---------------------------
(***************************************************************************)
(* The core of autotierfs: the tier worker moves files between the backend *)
(* directories of the tiers (tiering.cpp, tier.cpp, file.cpp) while FUSE    *)
(* threads open, create, write and release the same files (open.cpp,       *)
(* create.cpp, write.cpp, release.cpp).  The two sides share three things: *)
(* the backend directories, the metadata database that says which tier     *)
(* holds a path, and the registry of open files the movers consult.        *)
(*                                                                         *)
(* One worker thread runs tier(): it crawls the tiers, plans a tier per    *)
(* file, starts one mover thread per destination tier, joins them and      *)
(* writes every crawled File's metadata back.  A FUSE request is one       *)
(* thread, named by the file handle it opens.  Every system call, database *)
(* call and registry call of both sides is a step of its own.              *)
(*                                                                         *)
(* Abstractions: a path is a name without its directories; a file's        *)
(* contents is the identity of the write that produced it; the plan is any *)
(* assignment of tiers (TierPlacement models how it is computed); pinned   *)
(* files, which emplace_file leaves out of the crawl, are not represented. *)
(***************************************************************************)
EXTENDS Naturals, FiniteSets

CONSTANTS
    Visible,     \* names applications use
    Hide,        \* [Movable -> Name], the "." + name + ".autotier.hide" temporary
    Conflict,    \* [Movable \X Tier -> Name], name + ".autotier_conflict." + tier
    Movable,     \* names the plan may move (a bound: the code moves every name)
    Name,        \* every name above
    NTiers,      \* number of tiers
    Handle,      \* FUSE requests that open or create a file, and their descriptors
    Absent,      \* no file at a location, no entry in the database
    Partial,     \* contents of an unfinished copy
    MaxWrites,   \* bound: writes and truncations
    MaxCrashes,  \* bound: daemon crashes
    MaxLeaks,    \* bound: releases that return without unregistering
    MaxCopies    \* bound: tiers that hold the same name when the daemon starts

Tier == 1 .. NTiers              \* tiers_, fastest first
Loc == Tier \X Name              \* a backend path: tier directory / name
Content == Loc \X Nat            \* where and by which write it was produced

\* The derived names are new names, distinct for distinct files.
ASSUME NameAssumption ==
    /\ NTiers \in Nat \ {0}
    /\ Visible \subseteq Movable /\ Movable \subseteq Name
    /\ Hide \in [Movable -> Name] /\ Conflict \in [Movable \X Tier -> Name]
    /\ \A n \in Movable : Hide[n] \notin Visible /\ Hide[n] # n
    /\ \A n \in Movable, t \in Tier : Conflict[<<n, t>>] \notin Visible
    /\ \A n \in Movable, m \in Movable, t \in Tier : Hide[n] # Conflict[<<m, t>>]
    /\ \A x, y \in Movable \X Tier : Conflict[x] = Conflict[y] => x = y

ASSUME DataAssumption ==
    /\ Absent \notin Content \cup Tier \cup {Partial}
    /\ Partial \notin Content
    /\ IsFiniteSet(Handle)
    /\ MaxWrites \in Nat /\ MaxCrashes \in Nat /\ MaxLeaks \in Nat /\ MaxCopies \in Nat

VARIABLES
    disk,        \* the backend directories: contents of every location
    db,          \* rocksdb: Metadata::tier_path_ of every path
    open_files,  \* OpenFiles::open_files_: registration count per backend path
    hpc,         \* where each request is
    hloc,        \* its fullpath: the tier of its metadata lookup, and the name
    attached,    \* its descriptor's inode is still linked at hloc
    exposed,     \* history: it got its descriptor while a mover was past its check
    phase,       \* the worker in tier(): idle, crawl, move, update
    crawling,    \* the next tier launch_crawlers visits
    files,       \* files_: crawled location -> relative_path_ and metadata_
    todo,        \* incoming_files_ of each tier
    mpc,         \* where each mover thread is in transfer_files / move_file
    msrc,        \* the File it works on, by its crawled location
    conflicted,  \* move_file's *conflicted
    owed,        \* history: contents no one has overwritten or truncated
    raced,       \* history: a create's lookup or a descriptor fell into a move of its name
    clobbered,   \* history: a rename replaced a file, or a create truncated one that
                 \* its lookup had not found
    leaked,      \* history: releases of a backend path that left it registered
    leaks,       \* their number
    writes, crashes

handles == <<hpc, hloc, attached, exposed, raced>>
pass == <<phase, crawling, files, todo>>
movers == <<mpc, msrc, conflicted>>
store == <<disk, db>>
registry == <<open_files, leaked, leaks>>
history == <<owed, clobbered, writes, crashes>>
vars == <<disk, db, open_files, hpc, hloc, attached, exposed, phase, crawling,
          files, todo, mpc, msrc, conflicted, owed, raced, clobbered, leaked, leaks,
          writes, crashes>>

Entry == [name : Name, meta : Tier]
NoEntry == [name |-> Absent, meta |-> Absent]
HandlePC == {"idle", "found", "statted", "registered", "fd",
             "c_lookup", "c_registered", "c_fd", "open"}
MoverPC == {"idle", "copy", "copying", "remove", "exists", "rename",
            "record", "change"}

\* Requests that stand in OpenFiles, and those that hold a descriptor.
Registered(h) == hpc[h] \in {"registered", "fd", "c_registered", "c_fd", "open"}
HasFd(h) == hpc[h] \in {"fd", "c_fd", "open"}

Target(t) == <<t, msrc[t][2]>>                      \* new_path
\* Mutant: the copy is made under the final name.
CopyInPlace(t) == <<t, msrc[t][2]>>
Tmp(t) == <<t, Hide[msrc[t][2]]>>                   \* new_tmp_path
ConflictPath(t) == <<t, Conflict[<<msrc[t][2], msrc[t][1]>>]>>
RenameTo(t) == IF conflicted[t] THEN ConflictPath(t) ELSE Target(t)

\* A mover that will remove or replace l whatever happens to l from now on.
Committed(l) == \E t \in Tier :
    \/ mpc[t] \in {"copy", "copying", "remove"} /\ msrc[t] = l
    \/ mpc[t] = "rename" /\ ~conflicted[t] /\ Target(t) = l
Moving(n) == \E t \in Tier : mpc[t] # "idle" /\ msrc[t][2] = n

\* getattr finds n: the database has an entry for it and the file is there.
Found(n) == \E t \in Tier : db[n] = t /\ disk[<<t, n>>] # Absent

OnDisk == {disk[l] : l \in Loc}
-----------------------------------------------------------------------------
\* The daemon starts on backend directories in which each name is on 1 to
\* MaxCopies tiers (README.md, "File Path Conflicts") and the database, written by
\* an earlier run, points at one of the copies.
Init ==
    /\ \E S \in SUBSET (Tier \X Visible) :
        /\ \A n \in Visible : Cardinality({l \in S : l[2] = n}) <= MaxCopies
        /\ disk = [l \in Loc |-> IF l \in S THEN <<l, 0>> ELSE Absent]
        /\ db \in [Name -> Tier \cup {Absent}]
        /\ \A n \in Name : IF \E t \in Tier : <<t, n>> \in S
                           THEN <<db[n], n>> \in S ELSE db[n] = Absent
        /\ owed = {<<l, 0>> : l \in S}
    /\ open_files = [l \in Loc |-> 0]
    /\ hpc = [h \in Handle |-> "idle"]
    /\ hloc \in [Handle -> {1} \X Visible]
    /\ attached = [h \in Handle |-> FALSE]
    /\ exposed = [h \in Handle |-> FALSE]
    /\ phase = "idle" /\ crawling = 1
    /\ files = [l \in Loc |-> NoEntry]
    /\ todo = [t \in Tier |-> {}]
    /\ mpc = [t \in Tier |-> "idle"]
    /\ msrc \in [Tier -> {1} \X Visible]
    /\ conflicted = [t \in Tier |-> FALSE]
    /\ raced = FALSE /\ clobbered = FALSE
    /\ leaked = [l \in Loc |-> 0] /\ leaks = 0
    /\ writes = 0 /\ crashes = 0
-----------------------------------------------------------------------------
(* The tier worker *)

\* tier() is called: by the period or for an ad hoc ONESHOT.
StartPass ==
    /\ phase = "idle"
    /\ phase' = "crawl" /\ crawling' = 1
    /\ UNCHANGED <<store, registry, handles, files, todo, movers, history>>

\* Mutant: the constructor without the tier_path_ default.
NewFileNoDefault(l) == [name |-> l[2], meta |-> db[l[2]]]

\* The File constructor: the entry of the database, or the crawled tier.
NewFile(l) == [name |-> l[2], meta |-> IF db[l[2]] = Absent THEN l[1] ELSE db[l[2]]]

\* crawl() of one tier.  Every regular file becomes a File, the movers' hidden
\* temporaries included: temp_file_re is matched against the whole path, which a
\* pattern that starts at the file name's dot never matches.
Crawl ==
    /\ phase = "crawl" /\ crawling \in Tier
    /\ files' = [l \in Loc |-> IF l[1] = crawling /\ disk[l] # Absent
                               THEN NewFile(l) ELSE files[l]]
    /\ crawling' = crawling + 1
    /\ UNCHANGED <<store, registry, handles, phase, todo, movers, history>>

Crawled == {l \in Loc : files[l] # NoEntry}

\* sort() and simulate_tier(): a tier for every File; the ones that are to leave
\* their tier are queued at their destination.  move_files() starts the threads.
Plan ==
    /\ phase = "crawl" /\ crawling = NTiers + 1
    /\ \E dest \in [{l \in Crawled : l[2] \in Movable} -> Tier] :
        todo' = [t \in Tier |-> {l \in DOMAIN dest : dest[l] = t /\ l[1] # t}]
    /\ phase' = "move"
    /\ UNCHANGED <<store, registry, handles, crawling, files, movers, history>>

\* Mutant: no look at the registry of open files.
CheckNothing(t) ==
    /\ phase = "move" /\ mpc[t] = "idle"
    /\ \E l \in todo[t] :
        /\ todo' = [todo EXCEPT ![t] = @ \ {l}]
        /\ mpc' = [mpc EXCEPT ![t] = "copy"]
        /\ msrc' = [msrc EXCEPT ![t] = l]
    /\ conflicted' = [conflicted EXCEPT ![t] = FALSE]
    /\ UNCHANGED <<store, registry, handles, phase, crawling, files, history>>

\* transfer_files() takes the next File; one that is open is left where it is.
Check(t) ==
    /\ phase = "move" /\ mpc[t] = "idle"
    /\ \E l \in todo[t] :
        /\ todo' = [todo EXCEPT ![t] = @ \ {l}]
        /\ IF open_files[l] > 0
           THEN UNCHANGED <<mpc, msrc>>
           ELSE /\ mpc' = [mpc EXCEPT ![t] = "copy"]
                /\ msrc' = [msrc EXCEPT ![t] = l]
    /\ conflicted' = [conflicted EXCEPT ![t] = FALSE]
    /\ UNCHANGED <<store, registry, handles, phase, crawling, files, history>>

\* Mutant: the temporary is opened without O_EXCL.
CopyOpenNoExcl(t) ==
    /\ mpc[t] = "copy" /\ disk[msrc[t]] # Absent
    /\ disk' = [disk EXCEPT ![Tmp(t)] = Partial]
    /\ mpc' = [mpc EXCEPT ![t] = "copying"]
    /\ UNCHANGED <<db, registry, handles, pass, msrc, conflicted, history>>

\* move_file() opens the source and creates the temporary, with O_EXCL.
CopyOpen(t) ==
    /\ mpc[t] = "copy" /\ disk[msrc[t]] # Absent /\ disk[Tmp(t)] = Absent
    /\ disk' = [disk EXCEPT ![Tmp(t)] = Partial]
    /\ mpc' = [mpc EXCEPT ![t] = "copying"]
    /\ UNCHANGED <<db, registry, handles, pass, msrc, conflicted, history>>

\* The copy loop has reached the end of the source.
CopyDone(t) ==
    /\ mpc[t] = "copying" /\ disk[msrc[t]] # Absent
    /\ disk' = [disk EXCEPT ![Tmp(t)] = disk[msrc[t]]]
    /\ mpc' = [mpc EXCEPT ![t] = "remove"]
    /\ UNCHANGED <<db, registry, handles, pass, msrc, conflicted, history>>

\* Mutant: a failed read or write does not end the move.
CopyFailIgnored(t) ==
    /\ mpc[t] \in {"copy", "copying"}
    /\ mpc' = [mpc EXCEPT ![t] = IF mpc[t] = "copy" THEN "idle" ELSE "remove"]
    /\ UNCHANGED <<store, registry, handles, pass, msrc, conflicted, history>>

\* copy_error_out: either open fails (a missing source, a leftover temporary), or a
\* read, a write or an lseek does.  The temporary stays as it is.
CopyFail(t) ==
    /\ mpc[t] \in {"copy", "copying"}
    /\ mpc' = [mpc EXCEPT ![t] = "idle"]
    /\ UNCHANGED <<store, registry, handles, pass, msrc, conflicted, history>>

\* Descriptors of l lose their name when l is unlinked or replaced.
Detach(l) == attached' = [h \in Handle |-> attached[h] /\ hloc[h] # l]

\* fs::remove(old_path)
Remove(t) ==
    /\ mpc[t] = "remove"
    /\ disk' = [disk EXCEPT ![msrc[t]] = Absent]
    /\ Detach(msrc[t])
    /\ mpc' = [mpc EXCEPT ![t] = "exists"]
    /\ UNCHANGED <<db, registry, hpc, hloc, exposed, raced, pass, msrc,
                   conflicted, history>>

\* fs::exists(new_path)
TestExists(t) ==
    /\ mpc[t] = "exists"
    /\ conflicted' = [conflicted EXCEPT ![t] = disk[Target(t)] # Absent]
    /\ mpc' = [mpc EXCEPT ![t] = "rename"]
    /\ UNCHANGED <<store, registry, handles, pass, msrc, history>>

\* fs::rename of the temporary to the name or the conflict name; it replaces what
\* stands there.
Rename(t) ==
    /\ mpc[t] = "rename"
    /\ disk' = [disk EXCEPT ![RenameTo(t)] = disk[Tmp(t)], ![Tmp(t)] = Absent]
    /\ Detach(RenameTo(t))
    /\ mpc' = [mpc EXCEPT ![t] = "record"]
    /\ clobbered' = (clobbered \/ disk[RenameTo(t)] # Absent)
    /\ UNCHANGED <<db, registry, hpc, hloc, exposed, raced, pass, msrc,
                   conflicted, owed, writes, crashes>>

\* Mutant: the new tier is not stored before update_db().
RecordInMemory(t) ==
    /\ mpc[t] = "record"
    /\ files' = [files EXCEPT ![msrc[t]].meta = t]
    /\ mpc' = [mpc EXCEPT ![t] = IF conflicted[t] THEN "change" ELSE "idle"]
    /\ UNCHANGED <<store, registry, handles, phase, crawling, todo, msrc,
                   conflicted, history>>

\* File::transfer_to_tier: the File's metadata names the new tier and is stored.
Record(t) ==
    /\ mpc[t] = "record"
    /\ files' = [files EXCEPT ![msrc[t]].meta = t]
    /\ db' = [db EXCEPT ![msrc[t][2]] = t]
    /\ mpc' = [mpc EXCEPT ![t] = IF conflicted[t] THEN "change" ELSE "idle"]
    /\ UNCHANGED <<disk, registry, handles, phase, crawling, todo, msrc,
                   conflicted, history>>

\* File::change_path: one batch deletes the old key and stores the conflict name.
ChangePath(t) ==
    /\ mpc[t] = "change"
    /\ files' = [files EXCEPT ![msrc[t]].name = ConflictPath(t)[2]]
    /\ db' = [db EXCEPT ![msrc[t][2]] = Absent, ![ConflictPath(t)[2]] = t]
    /\ mpc' = [mpc EXCEPT ![t] = "idle"]
    /\ UNCHANGED <<disk, registry, handles, phase, crawling, todo, msrc,
                   conflicted, history>>

\* move_files() has joined every mover.
Join ==
    /\ phase = "move" /\ \A t \in Tier : todo[t] = {} /\ mpc[t] = "idle"
    /\ phase' = "update"
    /\ UNCHANGED <<store, registry, handles, crawling, files, todo, movers, history>>

\* update_db(): the metadata of one File, as crawled or as moved, is stored.
UpdateDb ==
    /\ phase = "update"
    /\ \E l \in Crawled :
        /\ db' = [db EXCEPT ![files[l].name] = files[l].meta]
        /\ files' = [files EXCEPT ![l] = NoEntry]
    /\ UNCHANGED <<disk, registry, handles, phase, crawling, todo, movers, history>>

EndPass ==
    /\ phase = "update" /\ Crawled = {}
    /\ phase' = "idle"
    /\ UNCHANGED <<store, registry, handles, crawling, files, todo, movers, history>>
-----------------------------------------------------------------------------
(* FUSE requests *)

Goto(h, pc) == hpc' = [hpc EXCEPT ![h] = pc]
Register(l) ==
    /\ open_files' = [open_files EXCEPT ![l] = @ + 1]
    /\ UNCHANGED <<leaked, leaks>>

\* Mutant: release_open_file erases the path whatever its count.
UnregisterAll(l) ==
    /\ open_files' = [open_files EXCEPT ![l] = 0]
    /\ UNCHANGED <<leaked, leaks>>

Unregister(l) ==
    /\ open_files' = [open_files EXCEPT ![l] = IF @ > 0 THEN @ - 1 ELSE 0]
    /\ UNCHANGED <<leaked, leaks>>

\* open(): the metadata says in which tier the file is; ENOENT without an entry.
OpenLookup(h, n) ==
    /\ hpc[h] = "idle" /\ db[n] # Absent
    /\ hloc' = [hloc EXCEPT ![h] = <<db[n], n>>]
    /\ Goto(h, "found")
    /\ UNCHANGED <<store, registry, attached, exposed, raced, pass, movers, history>>

\* l::file_size: ENOENT ends the request.
OpenStat(h) ==
    /\ hpc[h] = "found"
    /\ Goto(h, IF disk[hloc[h]] = Absent THEN "idle" ELSE "statted")
    /\ UNCHANGED <<store, registry, hloc, attached, exposed, raced, pass, movers,
                   history>>

OpenRegister(h) ==
    /\ hpc[h] = "statted"
    /\ Register(hloc[h])
    /\ Goto(h, "registered")
    /\ UNCHANGED <<store, hloc, attached, exposed, raced, pass, movers, history>>

\* The request gets a descriptor of the inode that is at its path now.
GetFd(h) ==
    /\ attached' = [attached EXCEPT ![h] = TRUE]
    /\ exposed' = [exposed EXCEPT ![h] = Committed(hloc[h])]
    /\ raced' = (raced \/ Moving(hloc[h][2]))

\* ::open(fullpath)
OpenFd(h) ==
    /\ hpc[h] = "registered" /\ disk[hloc[h]] # Absent
    /\ GetFd(h)
    /\ Goto(h, "fd")
    /\ UNCHANGED <<store, registry, hloc, pass, movers, history>>

\* f.touch(), f.update(): the metadata read by OpenLookup is written back.
OpenCommit(h) ==
    /\ hpc[h] = "fd"
    /\ db' = [db EXCEPT ![hloc[h][2]] = hloc[h][1]]
    /\ Goto(h, "open")
    /\ UNCHANGED <<disk, registry, hloc, attached, exposed, raced, pass, movers,
                   history>>

\* create() reaches the daemon when the kernel's lookup (getattr) found no file; the
\* kernel lets one create of a name at a time through.
CreateLookup(h, n) ==
    /\ hpc[h] = "idle"
    /\ ~Found(n)
    /\ \A g \in Handle : hpc[g] \in {"c_lookup", "c_registered", "c_fd"} => hloc[g][2] # n
    /\ hloc' = [hloc EXCEPT ![h] = <<1, n>>]
    /\ Goto(h, "c_lookup")
    /\ raced' = (raced \/ Moving(n))
    /\ UNCHANGED <<store, registry, attached, exposed, pass, movers, history>>

CreateRegister(h) ==
    /\ hpc[h] = "c_lookup"
    /\ Register(hloc[h])
    /\ Goto(h, "c_registered")
    /\ UNCHANGED <<store, hloc, attached, exposed, raced, pass, movers, history>>

\* The inode at l gets new contents; the ones it had are no longer owed.
Store(l) ==
    /\ writes < MaxWrites
    /\ writes' = writes + 1
    /\ disk' = [disk EXCEPT ![l] = <<l, writes + 1>>]
    /\ owed' = (owed \ {disk[l]}) \cup {<<l, writes + 1>>}

\* ::creat(fullpath): a new empty file, or the file that is there, truncated.
Creat(h) ==
    /\ hpc[h] = "c_registered"
    /\ Store(hloc[h])
    /\ clobbered' = (clobbered \/ disk[hloc[h]] # Absent)
    /\ GetFd(h)
    /\ Goto(h, "c_fd")
    /\ UNCHANGED <<db, registry, hloc, pass, movers, crashes>>

\* Metadata(path, db, top_tier).update(path, db): an entry the database already has
\* keeps its tier.
CreateCommit(h) ==
    /\ hpc[h] = "c_fd"
    /\ db' = [db EXCEPT ![hloc[h][2]] = IF @ = Absent THEN hloc[h][1] ELSE @]
    /\ Goto(h, "open")
    /\ UNCHANGED <<disk, registry, hloc, attached, exposed, raced, pass, movers,
                   history>>

\* registered_error_out: ::open or ::creat failed.
OpenError(h) ==
    /\ hpc[h] \in {"registered", "c_registered"}
    /\ Unregister(hloc[h])
    /\ Goto(h, "idle")
    /\ UNCHANGED <<store, hloc, attached, exposed, raced, pass, movers, history>>

\* write(): the data go to the descriptor's inode, which may have no name any more.
Write(h) ==
    /\ hpc[h] = "open"
    /\ IF attached[h]
       THEN Store(hloc[h])
       ELSE /\ writes < MaxWrites
            /\ writes' = writes + 1
            /\ owed' = owed \cup {<<hloc[h], writes + 1>>}
            /\ disk' = disk
    /\ UNCHANGED <<db, registry, handles, pass, movers, clobbered, crashes>>

\* The application is rid of its handle h, whatever release() answers.
Close(h) ==
    /\ hpc[h] = "open"
    /\ Goto(h, "idle")
    /\ attached' = [attached EXCEPT ![h] = FALSE]
    /\ exposed' = [exposed EXCEPT ![h] = FALSE]
    /\ UNCHANGED <<store, hloc, raced, pass, movers, history>>

Release(h) == Close(h) /\ Unregister(hloc[h])

\* release() does not reach release_open_file: fstat fails (it returns at once), or the
\* descriptor is not in the path map.  The registration stays.
ReleaseLeaks(h) ==
    /\ Close(h)
    /\ leaks < MaxLeaks
    /\ leaks' = leaks + 1
    /\ leaked' = [leaked EXCEPT ![hloc[h]] = @ + 1]
    /\ UNCHANGED open_files
-----------------------------------------------------------------------------
\* The daemon dies and is started again: the directories and the database stay.
Crash ==
    /\ crashes < MaxCrashes
    /\ crashes' = crashes + 1
    /\ open_files' = [l \in Loc |-> 0] /\ leaked' = [l \in Loc |-> 0]
    /\ hpc' = [h \in Handle |-> "idle"]
    /\ attached' = [h \in Handle |-> FALSE]
    /\ exposed' = [h \in Handle |-> FALSE]
    /\ phase' = "idle"
    /\ files' = [l \in Loc |-> NoEntry]
    /\ todo' = [t \in Tier |-> {}]
    /\ mpc' = [t \in Tier |-> "idle"]
    /\ UNCHANGED <<store, hloc, raced, crawling, msrc, conflicted, owed, clobbered,
                   leaks, writes>>

Mover(t) ==
    \/ Check(t) \/ CopyOpen(t) \/ CopyDone(t) \/ CopyFail(t) \/ Remove(t)
    \/ TestExists(t) \/ Rename(t) \/ Record(t) \/ ChangePath(t)

Worker == StartPass \/ Crawl \/ Plan \/ Join \/ UpdateDb \/ EndPass

Request(h) ==
    \/ \E n \in Visible : OpenLookup(h, n) \/ CreateLookup(h, n)
    \/ OpenStat(h) \/ OpenRegister(h) \/ OpenFd(h) \/ OpenCommit(h)
    \/ CreateRegister(h) \/ Creat(h) \/ CreateCommit(h)
    \/ OpenError(h) \/ Write(h) \/ Release(h) \/ ReleaseLeaks(h)

Next == Worker \/ (\E t \in Tier : Mover(t)) \/ (\E h \in Handle : Request(h)) \/ Crash

Spec == Init /\ [][Next]_vars
-----------------------------------------------------------------------------
(* Properties *)

StoreOK ==
    /\ disk \in [Loc -> Content \cup {Absent, Partial}]
    /\ db \in [Name -> Tier \cup {Absent}]
    /\ open_files \in [Loc -> Nat] /\ leaked \in [Loc -> Nat]
RequestsOK ==
    /\ hpc \in [Handle -> HandlePC] /\ hloc \in [Handle -> Tier \X Visible]
    /\ attached \in [Handle -> BOOLEAN] /\ exposed \in [Handle -> BOOLEAN]
PassOK ==
    /\ phase \in {"idle", "crawl", "move", "update"}
    /\ crawling \in 1 .. NTiers + 1
    /\ files \in [Loc -> Entry \cup {NoEntry}]
    /\ todo \in [Tier -> SUBSET (Tier \X Movable)]
MoversOK ==
    /\ mpc \in [Tier -> MoverPC] /\ msrc \in [Tier -> Tier \X Movable]
    /\ conflicted \in [Tier -> BOOLEAN]
HistoryOK ==
    /\ owed \subseteq Content /\ raced \in BOOLEAN /\ clobbered \in BOOLEAN
    /\ writes \in 0 .. MaxWrites /\ crashes \in 0 .. MaxCrashes /\ leaks \in 0 .. MaxLeaks

TypeOK == StoreOK /\ RequestsOK /\ PassOK /\ MoversOK /\ HistoryOK

\* Movers run, and have files queued, only between Plan and Join, and only for Files of
\* this pass.
PassShape ==
    /\ phase # "move" => \A t \in Tier : todo[t] = {} /\ mpc[t] = "idle"
    /\ \A t \in Tier : /\ todo[t] \subseteq Crawled
                       /\ mpc[t] # "idle" => msrc[t] \in Crawled

\* OpenFiles counts a path once for every request that registered it and has not ended,
\* on every way out of open() and create(), and once more for every release() that
\* returned without release_open_file.  So the movers see every open file as open, and
\* such a release keeps its file from being moved until the daemon is started again.
Holders(l) == {h \in Handle : Registered(h) /\ hloc[h] = l}
OpenCountExact == \A l \in Loc : open_files[l] = Cardinality(Holders(l)) + leaked[l]

\* A file that an application has open is never moved, removed or replaced under it,
\* unless the descriptor was obtained while a mover was already committed to that
\* path (the registry was read before the request registered).
OpenFileStays == \A h \in Handle : HasFd(h) /\ ~exposed[h] => attached[h]

\* Why it holds: the file is still there, and no mover is committed to its path.
Safe(h) == attached[h] /\ disk[hloc[h]] # Absent /\ ~Committed(hloc[h])
OpenFileSafe == \A h \in Handle : HasFd(h) /\ ~exposed[h] => Safe(h)

\* The same without the exception: what create.cpp:69 says registering early is for.
OpenNeverMoved == \A h \in Handle : HasFd(h) => attached[h]

\* From fs::remove of the source to the rename, the temporary is the only copy of the
\* application's file: it is whole, and no other mover and no leftover takes it away.
OnlyCopyIsWhole == \A t \in Tier :
    mpc[t] \in {"exists", "rename"} /\ msrc[t][2] \in Visible
        => disk[Tmp(t)] \in Content

\* No name that applications use ever shows an unfinished copy, also after a failed
\* copy or a crash left one behind.
NoPartialFile == \A l \in Tier \X Visible : disk[l] # Partial

\* Whatever an application stored and nobody overwrote is in some backend directory.
\* Failed copies, crashes, leftovers and conflicting names lose nothing, unless an open
\* or create slipped into a move of the same name or a file was clobbered.
DataSurvives == ~raced /\ ~clobbered => owed \subseteq OnDisk

\* The moves implement Relocation: through crashes, failed copies and leftovers a file
\* keeps its contents on the way, is in one place or out of sight, and neither an older
\* version nor a second copy of it ever comes into sight.
PublicName == {m \in Name : m \in Visible \/ \E n \in Visible, t \in Tier : m = Conflict[<<n, t>>]}
Public == Tier \X PublicName
InSight == {disk[l] : l \in Public}
Promise == INSTANCE Relocation WITH
    Place <- Public,
    shown <- [l \in Public |-> disk[l]],
    hidden <- IF raced \/ clobbered THEN {} ELSE (owed \cap OnDisk) \ InSight,
    chaos <- raced \/ clobbered
Relocates == Promise!Spec

\* A file that stands in a tier is found through the database, once no move of its
\* name is under way, if the daemon did not crash and no open or create raced a move.
Creating(n) == \E h \in Handle : hpc[h] = "c_fd" /\ hloc[h][2] = n
Findable == ~raced /\ crashes = 0 =>
    \A n \in Visible :
        /\ ~Moving(n) /\ ~Creating(n)
        /\ \E t \in Tier : disk[<<t, n>>] # Absent
        => Found(n)

\* Starting from backends without duplicates, nothing is ever clobbered as long as no
\* request races a move and the daemon does not crash: the mover's test of the target
\* and the database's answer to a create's lookup both still hold when they are used.
NothingClobbered == ~raced /\ crashes = 0 => ~clobbered

\* In a collision the file that is already in the tier is left untouched: a move never
\* replaces a file, neither under its own name nor under the conflict name.
ResidentUntouched == [][
    \A t \in Tier : ~raced /\ mpc[t] = "rename" /\ mpc'[t] = "record"
        => disk[RenameTo(t)] = Absent]_vars
=============================================================================
