----------------------------- MODULE TierUsage -----------------------------
(***************************************************************************)
(* The bytes in use that autotierfs keeps per tier (Tier::usage_) and the  *)
(* maps of FusePriv from a descriptor to its path and to the size of the   *)
(* file when it was opened.  Nothing counts while files are written:       *)
(* release() adds the size now minus the size at open, unlink() subtracts, *)
(* a move shifts the size the crawl has seen, and the crawl of each pass   *)
(* replaces the count by a sum.  statfs() reports the result.              *)
(*                                                                         *)
(* Requests run on several threads: a handle is a descriptor with the      *)
(* thread that works on it.  libfuse's path locks and the kernel's lock of *)
(* the directory keep renames, unlinks, opens and creates of one path      *)
(* apart, and as hard_remove is off, an unlink of an open file is a        *)
(* rename.  Nothing keeps a mover from any of them.                        *)
(*                                                                         *)
(* Abstractions: a file has two names that rename switches between, and    *)
(* two files can stand for one path in two tiers; a mover looks at the     *)
(* registry, copies, and then removes, renames and records in one step     *)
(* (its steps are those of TierMigration, its conflicts those of           *)
(* Namespace); the plan of a pass is any; no tier's path is a prefix of    *)
(* another's (fullpath_to_tier).                                           *)
(***************************************************************************)
EXTENDS Integers, FiniteSets, FiniteSetsExt

CONSTANTS
    File, Handle, Fd,
    NTiers,     \* number of tiers
    Quota,      \* quota of each tier in bytes
    MaxSize,    \* bound: size of a file
    MaxCalls,   \* bound: calls that open, change, rename or remove a file
    MaxMoves,   \* bound: files moved
    W,          \* counts are modulo W: the width of Bytes and fsblkcnt_t
    BlockSize,  \* f_bsize of each tier's file system
    Absent

ASSUME UsageAssumption ==
    /\ NTiers \in Nat \ {0} /\ MaxSize \in Nat \ {0}
    /\ BlockSize \in [1 .. NTiers -> Nat \ {0}]
    /\ MaxCalls \in Nat /\ MaxMoves \in Nat
    /\ Quota \in [1 .. NTiers -> Nat]
    /\ W \in Nat \ {0}
    /\ Fd \subseteq Nat /\ Absent \notin Nat \cup File /\ IsFiniteSet(File) /\ IsFiniteSet(Handle)

Tier == 1 .. NTiers
Size == 0 .. MaxSize
Key == Tier \X File \X BOOLEAN          \* a backend path

VARIABLES
    where,      \* tier of each file, or Absent
    size, name, \* its size, and which of its two names it has
    handle,     \* each handle: step, file, path, descriptor, sizes
    count,      \* open_files_: registrations of each path
    path_of,    \* fd_to_path_
    size_at,    \* size_at_open_
    usage,      \* Tier::usage_
    gone,       \* the tier unlink() has subtracted a file's size from, or Absent
    phase, tier, \* the worker: idle, crawl, move; the tier it crawls
    seen,       \* File::size_ and the place of crawled files
    moving,     \* the file a mover is at, its target and the bytes copied
    calls, moves, \* calls and moves begun
    quiet, drift \* history: nothing changed since the tier's crawl began;
                 \* tiers whose count the code gets wrong until a later crawl

disk == <<where, size, name>>
maps == <<count, path_of, size_at>>
pass == <<phase, tier, seen, moving>>
vars == <<where, size, name, handle, count, path_of, size_at, usage, gone,
          phase, tier, seen, moving, calls, moves, quiet, drift>>

NoHandle == [pc |-> "idle", file |-> Absent, key |-> Absent, fd |-> Absent,
             old |-> 0, new |-> 0, orphan |-> FALSE]

SizeOf(f) == IF where[f] = Absent THEN 0 ELSE size[f]
Stored(t) == MapThenSumSet(LAMBDA f : size[f], {f \in File : where[f] = t})
\* Handles whose release has yet to measure the file they have open.
Opening == {"sized", "registered", "maps", "created"}
Measuring(f) == {h \in Handle :
    handle[h].file = f /\ ~handle[h].orphan /\ handle[h].pc \in Opening \cup {"open"}}
Owing(t) == {h \in Handle : /\ handle[h].pc \notin {"idle", "creating", "close", "leaked"}
                            /\ handle[h].key[1] = t}
\* What release() will add for each handle.
Owes == [h \in Handle |-> IF h \in Measuring(handle[h].file)
                          THEN SizeOf(handle[h].file) - handle[h].old
                          ELSE handle[h].new - handle[h].old]
\* The handle's tier misses what it owes if it goes now.
Forfeit(h) == drift' = IF Owes[h] = 0 THEN drift ELSE drift \cup {handle[h].key[1]}
-----------------------------------------------------------------------------
Init ==
    /\ where \in [File -> Tier \cup {Absent}] /\ size \in [File -> Size]
    /\ \A f \in File : where[f] = Absent => size[f] = 0
    /\ name = [f \in File |-> FALSE]
    /\ handle = [h \in Handle |-> NoHandle]
    /\ count = [k \in Key |-> 0]
    /\ path_of = [d \in Fd |-> Absent] /\ size_at = [d \in Fd |-> Absent]
    /\ usage = [t \in Tier |-> 0] /\ drift = Tier      \* until the first crawl
    /\ gone = [f \in File |-> Absent] /\ phase = "idle" /\ tier = 1
    /\ seen = [f \in File |-> Absent] /\ moving = Absent /\ quiet = FALSE
    /\ calls = 0 /\ moves = 0
-----------------------------------------------------------------------------
(* open and create *)

Set(h, r) == handle' = [handle EXCEPT ![h] = r]
To(h, pc) == Set(h, [handle[h] EXCEPT !.pc = pc])
At(h, pc) == handle[h].pc = pc
KeyOf(f) == <<where[f], f, name[f]>>
FreeFds == {d \in Fd : \A h \in Handle : handle[h].fd # d}
\* File f gets n bytes by a call on one of the handles H: other handles measure the
\* change too, and without a handle nobody does.
Resize(f, n, H) ==
    /\ size' = [size EXCEPT ![f] = n]
    /\ drift' = IF n # size[f] /\ Cardinality(Measuring(f) \cup H) # 1
                THEN drift \cup {where[f]} ELSE drift

\* Metadata and the size, before the file is registered.
OpenSize(h, f) ==
    /\ At(h, "idle") /\ where[f] # Absent /\ gone[f] = Absent
    /\ Set(h, [NoHandle EXCEPT !.pc = "sized", !.file = f, !.key = KeyOf(f), !.old = size[f]])
    /\ UNCHANGED <<disk, maps, usage, gone, drift>>

Creating(f) == \E h \in Handle : At(h, "creating") /\ handle[h].key[2] = f

\* The kernel did not find the file; it may be there all the same (Namespace).
CreateRegister(h, f) ==
    /\ At(h, "idle") /\ gone[f] = Absent /\ ~Creating(f)
    /\ LET k == <<1, f, name[f]>> IN
       /\ Set(h, [NoHandle EXCEPT !.pc = "creating", !.key = k])
       /\ count' = [count EXCEPT ![k] = @ + 1]
    /\ UNCHANGED <<disk, path_of, size_at, usage, gone, drift>>

OpenRegister(h) ==
    /\ At(h, "sized")
    /\ To(h, "registered")
    /\ count' = [count EXCEPT ![handle[h].key] = @ + 1]
    /\ UNCHANGED <<disk, path_of, size_at, usage, gone, drift>>

\* The kernel hands out the lowest free number.
Lowest(d) == d \in FreeFds /\ \A x \in FreeFds : d <= x
GetFd(h, pc, f) ==
    \E d \in Fd : Lowest(d) /\ Set(h, [handle[h] EXCEPT !.pc = pc, !.fd = d, !.file = f])

\* ::creat in the first tier makes a file, also beside one in another tier, or truncates
\* what is there.
Creat(h) ==
    /\ At(h, "creating")
    /\ LET f == handle[h].key[2] IN
       \/ /\ where[f] = 1
          /\ Resize(f, 0, {}) /\ UNCHANGED where
          /\ GetFd(h, "created", f)
       \/ \E g \in File :
          /\ where[f] # 1 /\ where[g] = Absent
          /\ where[f] = Absent => g = f
          /\ where' = [where EXCEPT ![g] = 1] /\ size' = [size EXCEPT ![g] = 0]
          /\ GetFd(h, "created", g)
          /\ UNCHANGED drift
    /\ UNCHANGED <<name, maps, usage, gone>>

\* ::open, with or without O_TRUNC
OpenFd(h) ==
    /\ At(h, "registered")
    /\ LET f == handle[h].file IN
       /\ KeyOf(f) = handle[h].key
       /\ Resize(f, size[f], {h}) \/ Resize(f, 0, {h})
       /\ GetFd(h, "maps", f)
    /\ UNCHANGED <<where, name, maps, usage, gone>>

\* registered_error_out: the file has moved away, there is no descriptor, or the call is
\* refused.
OpenFails(h) ==
    /\ At(h, "registered") \/ At(h, "creating")
    /\ count' = [count EXCEPT ![handle[h].key] = @ - 1]
    /\ Set(h, NoHandle)
    /\ Forfeit(h)
    /\ UNCHANGED <<disk, path_of, size_at, usage, gone>>

\* Mutant: create() leaves the size of the file to whoever had the number before.
InsertMapsOpen(h) ==
    /\ At(h, "maps") \/ At(h, "created")
    /\ size_at' = [size_at EXCEPT ![handle[h].fd] = IF At(h, "created") THEN @ ELSE handle[h].old]
    /\ path_of' = [path_of EXCEPT ![handle[h].fd] = IF @ = Absent THEN handle[h].key ELSE @]
    /\ To(h, "open")
    /\ UNCHANGED <<disk, count, usage, gone, drift>>

\* insert_fd_to_path, insert_size_at_open: a path that is there already stays, freed.
InsertMaps(h) ==
    /\ At(h, "maps") \/ At(h, "created")
    /\ size_at' = [size_at EXCEPT ![handle[h].fd] = handle[h].old]
    /\ path_of' = [path_of EXCEPT ![handle[h].fd] = IF @ = Absent THEN handle[h].key ELSE @]
    /\ To(h, "open")
    /\ UNCHANGED <<disk, count, usage, gone, drift>>
-----------------------------------------------------------------------------
(* write, truncate, unlink, rename *)

\* The size of an open file changes.
ResizeOpen(h, n) ==
    /\ At(h, "open") /\ ~handle[h].orphan
    /\ Resize(handle[h].file, n, {h})
    /\ UNCHANGED <<where, name, handle, maps, usage, gone>>
Extend(h, n) == ResizeOpen(h, n) /\ n >= size[handle[h].file]

\* pwrite, splice, posix_fallocate and copy_file_range never make a file smaller.  (Out of
\* space, the first two ask for a pass and make the call again.)
Write(h, n) == Extend(h, n)
WriteBuf(h, n) == Extend(h, n)
Fallocate(h, n) == Extend(h, n)
CopyFileRange(h, n) == Extend(h, n)
Ftruncate(h, n) == ResizeOpen(h, n)

\* truncate by path.
TruncatePath(f, n) ==
    /\ where[f] # Absent /\ gone[f] = Absent
    /\ Resize(f, n, {})
    /\ UNCHANGED <<where, name, handle, maps, usage, gone>>

\* The locks that rename and unlink wait for.
Busy(f) == Creating(f) \/ \E h \in Handle : handle[h].file = f /\ handle[h].pc \in Opening
Unlocked(f) == where[f] # Absent /\ gone[f] = Absent /\ ~Busy(f)
Unused(f) == \A h \in Handle : handle[h].file # f

Rename(f) ==
    /\ Unlocked(f)
    /\ name' = [name EXCEPT ![f] = ~@]
    /\ UNCHANGED <<where, size, handle, maps, usage, gone, drift>>

Vanish(f) == where' = [where EXCEPT ![f] = Absent] /\ size' = [size EXCEPT ![f] = 0]

\* rename() onto another file, whose size nothing subtracts.
RenameOver(f, g) ==
    /\ f # g /\ Unlocked(f) /\ Unlocked(g) /\ where[g] = where[f] /\ Unused(g)
    /\ name' = [name EXCEPT ![f] = ~@, ![g] = FALSE]
    /\ Vanish(g)
    /\ drift' = IF size[g] = 0 THEN drift ELSE drift \cup {where[g]}
    /\ UNCHANGED <<handle, maps, usage, gone>>

UnlinkSize(f) ==
    /\ Unlocked(f) /\ Unused(f)
    /\ gone' = [gone EXCEPT ![f] = where[f]]
    /\ usage' = [usage EXCEPT ![where[f]] = (@ - size[f]) % W]
    /\ UNCHANGED <<disk, handle, maps, drift>>

Unlink(f) ==
    /\ gone[f] # Absent /\ where[f] = gone[f]
    /\ Vanish(f) /\ name' = [name EXCEPT ![f] = FALSE]
    /\ gone' = [gone EXCEPT ![f] = Absent]
    /\ UNCHANGED <<handle, maps, usage, drift>>

\* ::unlink is refused, or a mover was there first: the count stays as it is.
UnlinkFails(f) ==
    /\ gone[f] # Absent
    /\ gone' = [gone EXCEPT ![f] = Absent]
    /\ drift' = IF where[f] = gone[f] /\ size[f] # 0 THEN drift \cup {gone[f]} ELSE drift
    /\ UNCHANGED <<disk, handle, maps, usage>>
-----------------------------------------------------------------------------
(* release *)

\* fstat; a file that a mover has removed can have any size.
ReleaseStat(h, n) ==
    /\ At(h, "open")
    /\ handle[h].orphan \/ n = size[handle[h].file]
    /\ Set(h, [handle[h] EXCEPT !.pc = "stat", !.new = n, !.old = size_at[handle[h].fd],
                                !.key = path_of[handle[h].fd]])
    /\ UNCHANGED <<disk, maps, usage, gone, drift>>

\* fstat fails: release returns with everything still in place.
ReleaseFails(h) ==
    /\ At(h, "open")
    /\ Set(h, [handle[h] EXCEPT !.pc = "leaked", !.file = Absent])
    /\ Forfeit(h)
    /\ UNCHANGED <<disk, maps, usage, gone>>

\* Mutant: the descriptor is closed before its entries are removed.
ForgetClosed(h) ==
    /\ At(h, "stat")
    /\ count' = [count EXCEPT ![handle[h].key] = @ - 1]
    /\ Set(h, [handle[h] EXCEPT !.pc = "delta", !.fd = Absent])
    /\ UNCHANGED <<disk, path_of, size_at, usage, gone, drift>>

\* release_open_file, remove_fd_to_path, remove_size_at_open.
Forget(h) ==
    /\ At(h, "stat")
    /\ count' = [count EXCEPT ![handle[h].key] = @ - 1]
    /\ path_of' = [path_of EXCEPT ![handle[h].fd] = Absent]
    /\ size_at' = [size_at EXCEPT ![handle[h].fd] = Absent]
    /\ To(h, "delta")
    /\ UNCHANGED <<disk, usage, gone, drift>>

\* Mutant: a file that became smaller is not subtracted.
DeltaUp(h) == IF handle[h].new > handle[h].old THEN handle[h].new - handle[h].old ELSE 0
Delta(h) == handle[h].new - handle[h].old

\* size_delta (over the quota a pass is asked for, see WorkQueue)
ReleaseDelta(h) ==
    /\ At(h, "delta")
    /\ usage' = [usage EXCEPT ![handle[h].key[1]] = (@ + Delta(h)) % W]
    /\ Set(h, [NoHandle EXCEPT !.pc = "close", !.file = handle[h].file, !.fd = handle[h].fd])
    /\ UNCHANGED <<disk, maps, gone, drift>>

Close(h) ==
    /\ At(h, "close")
    /\ Set(h, NoHandle)
    /\ UNCHANGED <<disk, maps, usage, gone, drift>>

Call ==
    /\ calls < MaxCalls /\ calls' = calls + 1
    /\ \/ \E h \in Handle, f \in File : OpenSize(h, f) \/ CreateRegister(h, f)
       \/ \E h \in Handle, n \in Size :
            Write(h, n) \/ WriteBuf(h, n) \/ Fallocate(h, n) \/ CopyFileRange(h, n) \/ Ftruncate(h, n)
       \/ \E f \in File, n \in Size : TruncatePath(f, n)
       \/ \E f \in File : Rename(f) \/ UnlinkSize(f) \/ \E g \in File : RenameOver(f, g)
       \/ \E h \in Handle : ReleaseFails(h)

CallOn ==
    /\ UNCHANGED calls
    /\ \/ \E h \in Handle :
            \/ OpenRegister(h) \/ Creat(h) \/ OpenFd(h) \/ OpenFails(h) \/ InsertMaps(h)
            \/ \E n \in Size : ReleaseStat(h, n)
            \/ Forget(h) \/ ReleaseDelta(h) \/ Close(h)
       \/ \E f \in File : Unlink(f) \/ UnlinkFails(f)

Request ==
    /\ Call \/ CallOn
    /\ quiet' = (quiet /\ where' = where /\ size' = size /\ usage' = usage)
    /\ UNCHANGED <<pass, moves>>
-----------------------------------------------------------------------------
(* The pass *)

CrawlTier(t) ==
    /\ tier' = t /\ quiet' = TRUE

\* The timer or queued work.
StartPass ==
    /\ phase = "idle"
    /\ phase' = "crawl"
    /\ CrawlTier(1)
    /\ UNCHANGED <<disk, handle, maps, usage, gone, seen, moving, drift>>

CrawlFile(f) ==
    /\ phase = "crawl" /\ where[f] = tier /\ seen[f] = Absent
    /\ seen' = [seen EXCEPT ![f] = [size |-> size[f], key |-> KeyOf(f)]]
    /\ UNCHANGED <<disk, handle, maps, usage, gone, phase, tier, moving, quiet, drift>>

\* Nothing in tier t is still to be added or subtracted.
Settled(t) == /\ \A h \in Owing(t) : ~handle[h].orphan /\ Owes[h] = 0
              /\ \A f \in File : gone[f] # t

SeenIn(t) == LET S == {f \in File : seen[f] # Absent /\ seen[f].key[1] = t}
                 bytes == [f \in S |-> seen[f].size]
             IN  MapThenSumSet(LAMBDA f : bytes[f], S)

\* t->usage(usage): what the crawl of the tier has summed up.
CrawlEnd ==
    /\ phase = "crawl" /\ \A f \in File : where[f] = tier => seen[f] # Absent
    /\ usage' = [usage EXCEPT ![tier] = SeenIn(tier) % W]
    /\ drift' = IF quiet /\ Settled(tier) THEN drift \ {tier} ELSE drift \cup {tier}
    /\ IF tier < NTiers THEN CrawlTier(tier + 1) /\ phase' = phase
       ELSE phase' = "move" /\ UNCHANGED <<tier, quiet>>
    /\ UNCHANGED <<disk, handle, maps, gone, seen, moving>>

\* transfer_files: the registry is asked for the crawled path.
MoveBegin(f, t) ==
    /\ phase = "move" /\ moving = Absent /\ seen[f] # Absent /\ t # seen[f].key[1]
    /\ count[seen[f].key] = 0
    /\ moves < MaxMoves /\ moves' = moves + 1
    /\ moving' = [file |-> f, to |-> t, bytes |-> Absent]
    /\ UNCHANGED <<disk, handle, maps, usage, gone, phase, tier, seen, quiet, drift>>

InPlace(f) == KeyOf(f) = seen[f].key

\* move_file: the copy
MoveCopy ==
    /\ moving # Absent /\ InPlace(moving.file)
    /\ moving' = [moving EXCEPT !.bytes = size[moving.file]]
    /\ UNCHANGED <<disk, handle, maps, usage, gone, phase, tier, seen, quiet, drift>>

\* transfer_to_tier: the size of the crawl
Shift(f, from, to) == [usage EXCEPT ![from] = (@ - seen[f].size) % W,
                                    ![to] = (@ + seen[f].size) % W]

\* move_file succeeds: the file is at the target, with the bytes of the copy, also if it
\* was opened or if unlink() came in the meantime.
MoveEnd(f, to, bytes) ==
    LET from == seen[f].key[1]
        H == {h \in Handle : handle[h].file = f /\ handle[h].pc # "close"} IN
    /\ InPlace(f)
    /\ where' = [where EXCEPT ![f] = to] /\ size' = [size EXCEPT ![f] = bytes]
    /\ usage' = Shift(f, from, to)
    /\ handle' = [h \in Handle |-> IF h \in H
                                   THEN [handle[h] EXCEPT !.orphan = TRUE] ELSE handle[h]]
    /\ drift' = drift \cup (IF size[f] # seen[f].size \/ H # {} \/ gone[f] = from
                            THEN {from} ELSE {})
                     \cup (IF bytes # seen[f].size THEN {to} ELSE {})

\* The file was renamed or removed after the copy: the copy is another file now, and the
\* source has not become smaller.
MoveTwice(f, to, bytes) ==
    LET from == seen[f].key[1] IN
    /\ ~InPlace(f)
    /\ \E g \in File : /\ where[g] = Absent
                       /\ where' = [where EXCEPT ![g] = to] /\ size' = [size EXCEPT ![g] = bytes]
    /\ usage' = Shift(f, from, to)
    /\ drift' = drift \cup (IF seen[f].size # 0 THEN {from} ELSE {})
                     \cup (IF bytes # seen[f].size THEN {to} ELSE {})
    /\ UNCHANGED handle

Move ==
    /\ moving # Absent /\ moving.bytes # Absent
    /\ \/ MoveEnd(moving.file, moving.to, moving.bytes)
       \/ MoveTwice(moving.file, moving.to, moving.bytes)
    /\ moving' = Absent /\ seen' = [seen EXCEPT ![moving.file] = Absent]
    /\ UNCHANGED <<name, maps, gone, phase, tier, quiet>>

CopyFails ==
    /\ moving # Absent
    /\ moving' = Absent /\ seen' = [seen EXCEPT ![moving.file] = Absent]
    /\ UNCHANGED <<disk, handle, maps, usage, gone, phase, tier, quiet, drift>>

EndPass ==
    /\ phase = "move" /\ moving = Absent
    /\ phase' = "idle" /\ seen' = [f \in File |-> Absent]
    /\ UNCHANGED <<disk, handle, maps, usage, gone, tier, moving, quiet, drift>>

PassStep == \/ \E f \in File : CrawlFile(f)
            \/ CrawlEnd \/ MoveCopy \/ CopyFails \/ EndPass

Worker ==
    /\ \/ (StartPass \/ PassStep \/ Move) /\ UNCHANGED moves
       \/ \E f \in File, t \in Tier : MoveBegin(f, t)
    /\ UNCHANGED calls

Next == Request \/ Worker

Spec == Init /\ [][Next]_vars
-----------------------------------------------------------------------------
(* Properties *)

TypeOK ==
    /\ where \in [File -> Tier \cup {Absent}] /\ size \in [File -> Size] /\ name \in [File -> BOOLEAN]
    /\ count \in [Key -> 0 .. Cardinality(Handle)]
    /\ path_of \in [Fd -> Key \cup {Absent}] /\ size_at \in [Fd -> Size \cup {Absent}]
    /\ usage \in [Tier -> 0 .. W - 1] /\ drift \subseteq Tier
    /\ gone \in [File -> Tier \cup {Absent}]
    /\ \A h \in Handle : handle[h].old \in Size /\ handle[h].new \in Size

\* The bytes of tier t but for those unlink() has subtracted and has yet to remove.
NetOf(t, f) == IF where[f] = t /\ gone[f] # t THEN size[f] ELSE 0
Net(t) == [f \in File |-> NetOf(t, f)]

\* The count of a tier and what open handles and unlinks still owe it make the bytes it
\* stores: every pass ends with exact counts and they stay exact, whatever calls and moves
\* interleave, but where the code gets them wrong (drift): a size that changes without a
\* handle or under two, a file replaced by rename(), an unlink that fails, a file that
\* changes or goes between its crawl and the end of its move, a release that fails, and a
\* crawl that something changes under.
UsageOwed == \A t \in Tier \ drift :
    (usage[t] + MapThenSumSet(LAMBDA h : Owes[h], Owing(t))) % W
    = MapThenSumSet(LAMBDA f : Net(t)[f], File) % W

\* Descriptor numbers are reused, yet a handle finds its own path and size in the maps and
\* leaves nothing behind, and the registry counts exactly the handles of a path.
HandlesTracked ==
    /\ \A h \in Handle : handle[h].pc \in {"open", "stat", "leaked"} =>
          path_of[handle[h].fd] = handle[h].key /\ size_at[handle[h].fd] = handle[h].old
    /\ \A d \in Fd : path_of[d] # Absent \/ size_at[d] # Absent =>
          \E h \in Handle : handle[h].fd = d
    /\ \A k \in Key : count[k] = Cardinality({h \in Handle :
          handle[h].key = k /\ handle[h].pc \notin {"idle", "sized", "delta", "close"}})

\* The quotas together are below the width of the counts.
ASSUME WidthAssumption == MapThenSumSet(LAMBDA t : Quota[t], Tier) < W

\* f_blocks of each tier, and the blocks of its files.
QuotaBlocks == [t \in Tier |-> Quota[t] \div BlockSize[t]]
UsedBlocks == [t \in Tier |-> usage[t] \div BlockSize[t]]
\* Mutant: only the last tier's quota is counted.
StatfsLastQuota == (MapThenSumSet(LAMBDA t : QuotaBlocks[t], {NTiers})
                    - MapThenSumSet(LAMBDA t : UsedBlocks[t], Tier)) % W
\* f_bfree as statfs() computes it, modulo the width of fsblkcnt_t.
Statfs == (MapThenSumSet(LAMBDA t : QuotaBlocks[t], Tier)
           - MapThenSumSet(LAMBDA t : UsedBlocks[t], Tier)) % W

\* When no file is open or being removed, df, which multiplies by the block size of the
\* first tier (f_frsize, the same as f_bsize), shows the room that the quotas leave, up to
\* the rounding of each tier to blocks, unless counts have drifted or the files exceed the
\* quotas (then the count wraps).
FreeSpaceShown ==
    LET total == MapThenSumSet(LAMBDA t : Quota[t], Tier)
        stored == [t \in Tier |-> Stored(t)]
        used == MapThenSumSet(LAMBDA t : stored[t], Tier)
        rounding == NTiers * (Max({BlockSize[t] : t \in Tier}) - 1) IN
    /\ drift = {} /\ \A f \in File : gone[f] = Absent
    /\ \A h \in Handle : At(h, "idle")
    /\ used + rounding <= total
    => Statfs * BlockSize[1] \in total - used - rounding .. total - used + rounding

\* That holds when all tiers have the block size of the first one.  Blocks of different
\* sizes are added up all the same.
FreeSpaceRight == (\A t \in Tier : BlockSize[t] = BlockSize[1]) => FreeSpaceShown
=============================================================================
