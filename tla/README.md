# autotier, verified

TLA+ specifications of the parts of autotier whose correctness depends on
order: the movement of files between tiers while applications use them, the
planning of a tiering pass, the file and directory operations over several
backends, the accounting of space, the queue that drives the tier worker and
the commands that fill it. TLC checks them on small instances; TLAPS proves the
central safety properties, and that moves implement an abstract specification of
what tiering promises, for any number of files, tiers, threads and requests.

Paths below are relative to `src/src/impl/autotierfs/` unless they start with
`src/`.

## 1. The system

autotierfs is a FUSE filesystem over several backend directories, the *tiers*,
fastest first. Every file is in one tier, every directory in all of them, and a
rocksdb database maps the path of a file to its tier. A worker thread
periodically, or when asked, runs a *pass*:

| step of `tier()` | code | what it does |
| --- | --- | --- |
| crawl | `TierEngine/components/tiering.cpp:89-127` | walks every tier, makes a `File` per regular file from its database entry, sums the usage |
| popularity, sort | `tiering.cpp:129-163` | orders the files, most popular first |
| simulate | `tiering.cpp:165-186` | first fit into the quotas; files that are to leave their tier are queued at their destination |
| move | `tiering.cpp:188-197`, `tier.cpp:112-217` | one thread per destination copies to a hidden temporary, removes the source, renames, updates the database |
| update | `tiering.cpp:199-203` | writes the metadata of every crawled file back |

### Inventory

| component | state | operations | shared with | correct means |
| --- | --- | --- | --- | --- |
| tier migration (`tier.cpp`, `file.cpp`) | backend directories, `incoming_files_`, the `File` in hand | `transfer_files`, `move_file`, `transfer_to_tier`, `change_path` | requests (directories, database, registry) | loses no data, shows no partial file, takes no open file away |
| open-file registry (`openFiles.cpp`) | `open_files_`, a count per backend path | register, release, `is_open` (without the lock) | requests write it, movers read it | counts exactly |
| open, create, write, release (`fuseOps/`) | descriptors, `fd_to_path`, `size_at_open` | the four calls | directories, database, registry, usage, queue | finds what is there, truncates nothing unseen |
| calls on descriptors (`truncate.cpp`, `fallocate.cpp`, `copyFileRange.cpp`) | the size of an open file | one call each | usage | - |
| metadata and database (`metadata.cpp`, `database.cpp`, rocksdb) | path -> tier, popularity, access count, pin | lookup, update, delete with put in one batch | every thread | entries and files agree |
| pass and planner (`tiering.cpp`) | `files_`, `sim_usage_` | crawl, sort, simulate, move, update | movers, usage | respects popularity, quotas and pins, comes to rest |
| namespace (`rename.cpp`, `unlink.cpp`, `link.cpp`, `mknod.cpp`, `symlink.cpp`, `mkdir.cpp`, `rmdir.cpp`) | directories, database | the file and directory operations | running passes | no ghost, no lost file, tiers agree on directories |
| listing (`directory.cpp`) | `dirp`: a stream per tier, the entry that did not fit, one offset | `opendir`, `readdir`, `releasedir` | movers; the kernel, which calls again with the last offset | shows every file, once, and ends |
| attributes (`chmod.cpp`, `chown.cpp`, `utimens.cpp`, `xattr.cpp`, `access.cpp`, `readlink.cpp`, ...) | those of the backend file | a lookup and one system call | movers | what is set is kept |
| usage and `statfs` (`tier.cpp`, `release.cpp`, `unlink.cpp`, `statfs.cpp`) | `usage_` of each tier | crawl sets it; moves, releases and unlinks correct it | all | counts are the bytes stored |
| ad hoc server and queue (`adhoc.cpp`, `adhoc.hpp`, `sleep.cpp`) | `adhoc_work_`, `oneshot_in_queue_`, `sleep_cv_`, `sleep_mt_`, `stop_flag_`, `currently_tiering_` | enqueue, execute, sleep, wake, stop | socket server, FUSE threads, worker | forgets no request, serves all, stops when told to |
| commands and client (`adhoc.cpp`, `src/src/impl/autotier/`) | one command and its answer | oneshot, pin, unpin, status, queries | queue | answers are true |
| pins (`adhoc.cpp:509-568`) | `pinned_` | pin, unpin | worker, planner, `open` | a stored pin holds |
| conflict log (`conflicts.cpp`) | `conflicts.log` | add, check | movers, `status` | loses no entry |
| start and stop (`init.cpp`, `destroy.cpp`, `base.cpp`) | threads, flags | start, `stop()` | worker, server | both threads end |
| popularity (`file.cpp:83-95`) | `popularity_`, `access_count_` | decay and damping | planner, `open` | - |
| passthrough without state (`read.cpp`, `flush.cpp`, `fsync.cpp`, `flock.cpp`, `lock.cpp`) | none | one system call on the descriptor | - | - |
| process mutex, configuration, main and logging | read once | - | - | - |

### What is hard

* A move takes about ten system, database and registry calls and holds no lock
  that requests take. `is_open` is consulted once, at its start.
* The database entry of a file is written by `open` (a write-back of what it
  read), by `create`, by the mover, by the pin command and by the end of the pass
  (a write-back of what the crawl read or the mover changed), in any order.
* Between the removal of the source and the rename the only copy of a file is
  a hidden temporary. Crashes, failed copies and the temporaries they leave
  meet the next pass, which crawls those temporaries as files.
* A directory is changed tier by tier, while movers make directories in one tier.
* The worker and the movers call `std::filesystem` without error codes and catch
  nothing: a directory renamed or removed under them ends the daemon.
* A listing walks the streams of several tiers with one offset, and the kernel calls
  it again from an offset that only one of them gave.
* Usage is corrected by differences: of a size at open and at release, of a size
  at the crawl. Whatever happens in between is counted twice or not at all.
* The queue is filled by threads that do not take the mutex the worker sleeps
  under, and the flag that coalesces passes is read and written without a lock.

`PROJECT.json` lists each hazard at its line, with the properties that would
notice it going wrong.

## 2. Modules

| module | models | composed of |
| --- | --- | --- |
| `TierMigration` | passes and requests over directories, database and registry, call by call | `Relocation` |
| `Relocation` | the abstract specification: a file leaves its place and arrives, whole, where nothing stands | - |
| `TierPlacement` | how a pass plans, and what it does to usage | - |
| `Namespace` | every operation on names and attributes, next to one mover of a pass | - |
| `Listing` | `opendir`, `readdir` and `releasedir` of one directory, next to a mover; TLC only | - |
| `TierUsage` | `usage_`, descriptor maps and `statfs` next to crawls and a mover | - |
| `WorkQueue` | queue, sleep, wake-up, start and shutdown | - |
| `AdhocCommands` | client, server, pins, conflict log, and the passes next to them | - |
| `MC*` | the TLC instances of the module of that name | that module |
| `TierMigrationProofs`, `TierLookupProofs` | TLAPS proofs, the second built on the first | `TierMigration` |
| `TierPlacementProofs`, `NamespaceProofs`, `TierUsageProofs`, `WorkQueueProofs`, `AdhocCommandsProofs` | TLAPS proofs | the module of that name |
| `Sums` | lemmas about sums over finite sets and about remainders, with proofs | - |

The modules share the database, directories and passes of one program and cut it at
different depths. `TierMigration` leaves the plan open (any assignment of tiers
to crawled files), so what it shows holds for the plans of `TierPlacement`.
`Namespace` takes its mover's steps from it, and adds what it leaves out:
directories, times, attributes, conflicts with names that applications change, and the
exceptions that end the daemon. `Listing` keeps three steps of a move: the copy, the removal
and the rename.
`TierUsage` takes a move as three steps (the look at the registry, the copy, the rest),
`AdhocCommands` as one after that look, because their state does not tell its parts apart;
`WorkQueue` abstracts a pass to its start and its end.

Operators whose comment starts with "Mutant:" are deliberate bugs next to the
definition they would replace. They are not part of a specification: each shows
that a property notices such a bug.

### TierMigration

State: `disk` (the contents of every backend path), `db` (the tier of each
path), `open_files` (the registry); for each request its position `hpc`, its
path `hloc` and whether its inode is still linked there (`attached`); for the
worker the phase of the pass and `files`, and for each mover its position,
its `File` and `conflicted`. Contents are identified by the write that produced
them, so "lost data" is a content in the history variable `owed` (stored, not
overwritten) that is no longer anywhere on disk. The other history variables
are `exposed` (a descriptor obtained while a mover was past its check),
`raced` (a request's lookup or descriptor fell into a move of the same name)
and `clobbered` (a file was replaced by a rename or truncated by a create that
had not found it).

Every system call, database call and registry call is one action:
`open` is `OpenLookup, OpenStat, OpenRegister, OpenFd, OpenCommit`, `create` is
`CreateLookup` (the kernel's getattr), `CreateRegister, Creat, CreateCommit`;
both share the error path `OpenError`. A move is `Check, CopyOpen, CopyDone`
(or `CopyFail`), `Remove, TestExists, Rename, Record` and, after a conflict,
`ChangePath`. The worker's own steps are `StartPass, Crawl, Plan, Join,
UpdateDb, EndPass`; `UpdateDb` writes one `File` back per step. `Crash` kills the
daemon between any two steps and starts it again. A release unregisters (`Release`) or
returns before it does, when `fstat` fails or the descriptor has no path (`ReleaseLeaks`,
which `leaked` counts per path); both close the request.

### Relocation

State: what can be seen at every place (`shown`), the contents in transit
(`hidden`) and `chaos`, after which nothing is promised. Steps: `Depart`,
`Arrive` (nothing stands there), `Store` (an application stores new contents).
`TierMigration` implements it under this mapping: a place is a tier with a name
that applications can see, conflict names included; `hidden` is what is owed and
on disk but not in sight; `chaos` is `raced \/ clobbered`. So a move is seen as a
departure at `fs::remove` and an arrival at `fs::rename`, copies and their
failures are not seen at all, and a crash in between leaves the file hidden for
ever: safe, and not findable.

### TierPlacement

State: sizes, quotas, tiers and pins of files, usage and simulated usage of tiers,
the sorted files and the queues. `Place` is one round of `simulate_tier()`'s
loop, `Transfer` one of `transfer_files()`'s. Popularity is any number, changed
at will before every sort (`CalcPopularity`); ties, which `std::sort` leaves in any
order, are any order. Between passes `Resize`, `Pin` and `Unpin` happen.

### Namespace

State: the mode of every directory in every tier (`dir`), the inode at every
backend path (`file`: its data, whether it is a symlink, four groups of
attributes: length, owner and permissions, extended attributes, times), `db`, one request with its step, and one mover with the metadata it
holds. A request starts with the kernel's getattr and is then one action per tier
for a directory operation (`Mkdir`, `Rmdir`, `RenameDir`, chmod and the like),
or one system call and one database call for a file operation.
libfuse's path locks run requests on related paths one after the other, so there is
one request at a time; every step of it interleaves with the steps of the pass. A move
copies length, permissions and times, and no extended attributes. `Die` is an uncaught
exception of the crawl or a mover: the daemon ends at any moment of a pass, and the request
with it.
`past` collects, per cause, the names for which the code is known to lose track:
`stale` (changed while a pass held metadata of it), `shadowed` (a rename, of a request
or of a mover with a conflict, left a second file of the name), `torn` (a directory
operation stopped half way, or met a directory that a mover made in one tier),
`fresh` (made without an entry), `late` (set after the mover had read it, or on the
copy of it that a create made in the first tier, or overwritten by those of another
file), `gone` (unlinked or replaced),
`hit` (truncated by a create that did not see it, or in the way of a mover's rename),
`carried` (a directory rename took the mover's temporary with it), `died` (the daemon
ended with an exception). They only grow. Several of these causes were found by random runs on larger instances (three
tiers, three requests, two moves) before anything was proved.

### Listing

State: for each tier the offset behind every entry of the directory (`cookie`), `dirp` (the
streams that are open, their positions, the entry that did not fit, the one offset), the
call in progress with the room its reply has left, and a file on its way between tiers.
`Opendir` opens the tiers that have the directory, `Readdir` is the kernel's call with the
offset of the last entry it got, `EnterStream` the comparison with `dirp::offset` and
`seekdir`, `ReadEntry` one round of the loop (`Take`: the entry is shown or skipped; `Fill`:
filler takes it or the reply is full and it is kept), `EndOfStream`, `NextStream` and `Reply`
the rest. A reply without entries ends the listing. Offsets are any increasing numbers, as
file systems choose them; a new name gets any free one.

### TierUsage

State: place, size and name of files, handles with the thread that works on each,
the registry, `fd_to_path`, `size_at_open`, `usage` modulo `W`, the crawl's sizes,
the file a mover is at with the bytes it has copied, and `gone`, the tier an unlink has
subtracted a file from before it removes it. Descriptors are the lowest free numbers and
are reused. Requests keep out of each other's way by libfuse's path locks and the kernel's
directory locks (`Unlocked`, `Creating`); nothing keeps a mover from any of them, so a file
can be opened, renamed, unlinked or changed at every step of its move. Then the mover's
copy is a second file (`MoveTwice`), or an unlink meets nothing (`UnlinkFails`). A create
that did not see a file of the first tier truncates it, and one that did not see a file of
another tier puts a second one beside it: two members of `File` are then one path.

`drift` names the tiers whose count the code gets wrong until a later crawl, set by
the step that errs: two handles that see the same growth, a change of size without a
handle (truncation by path, a create on a file it did not see), a crawl that overlaps
changes or open handles, a file that changes, is opened, renamed or unlinked between its
crawl and the end of its move, a rename onto another file, an unlink that fails after it
has subtracted, a `release` that returns early, an `open` that fails after the file has
changed. `Owes` is what a handle, or a thread in the middle of its `release`, has measured
and not yet added to the count. `Statfs` divides each tier by the block size of its own
file system (`BlockSize`) and multiplies by the first one's, as `df` does.

### WorkQueue

State: the queue, both flags, `stop_flag_`, the holder of `sleep_mt_`, the
positions of the worker, of every caller of `enqueue_work`, of the ad hoc
server and of `stop()`. `stop_flag_` and `currently_tiering_` start with any value,
as in the code. The history variable `wanted` holds the requesters for
which no pass has started yet. Each access to a shared variable is a step: the
test, the set, the push and the notification of `enqueue_work` are four. The server's
`accept` and its blocking `receive` are two steps; a connection or a command that fails
brings it back to the loop. A pass and a pin take as long as they like.

### AdhocCommands

State: files by the place they had at the start, `db` with pins, the conflict log
and its lock, the client's command, the server's, the queue, the worker with the
metadata it has in hand, one mover per tier, and an `open` that has read metadata.
The client checks its arguments, the server answers, the worker executes:
`PinLookup`, `PinMove` and the store of the pin are steps of their own, as are
reading and rewriting the log. After its last argument a pin queues a pass
(`RequestPass`), as the instance has no strict period.

## 3. Runs

| run | instance | question and answer |
| --- | --- | --- |
| `migration` | 2 requests, 1 name, 2 tiers, 1 write | every interleaving of two requests and passes: open files stay, no data is lost, files are found, nothing is clobbered (with the exceptions the properties name) |
| `faults` | 1 request, 1 write, 1 crash, 1 leak | crashes, failed copies and releases that do not unregister (one) lose nothing and expose nothing, and the registry counts what was left; moves implement `Relocation` |
| `leftovers` | no request, 1 crash, the temporary may be moved too | a move's only copy is whole although leftovers are crawled and moved; moves implement `Relocation` |
| `work_queue` | 1 releasing thread, server, worker, stop, queue up to 2 | requests are kept, and served if moves end; stop ends both threads if besides clients speak |
| `placement` | 3 files, 2 tiers, sizes 0-2, quotas 0-3, 3 popularities | priority, quotas, usage, rest (pins: `commands`) |
| `namespace` | 2 directories, 1 base name, 2 tiers, up to 2 files (1 at the start), 2 requests, 1 move | entries and files agree, nothing is lost, attributes are kept, the tiers agree, the only copy of a file stays where the mover made it |
| `listing` | 2 files, 2 tiers, 3 offsets, replies of 2 or 3 entries, 1 move | listings end; those of one tier, or of one reply, show all that stood still, once |
| `accounting` | 2 files of size 0-1, 2 handles, 2 descriptors, 2 calls, 2 moves, quotas 3 and 4, blocks of 2 bytes, counts modulo 8 | counts with what handles and unlinks owe are the bytes stored; the maps fit the descriptors; `statfs` shows the free space up to rounding |
| `commands` | 1 client, 2 names, 2 tiers, 1 request, 2 moves | answers are true, pins hold, the log loses no entry |
| `open_race` | 1 request | *violated*: an open file can be moved |
| `conflict_copies` | a name on both tiers at the start | *violated*: a second collision replaces a conflict copy |
| `whole_listing` | as `listing`, no move | *violated*: a listing of several replies misses files |

The three violations are the `findings` of `PROJECT.json`:

1. `create.cpp:69` registers early "to avoid tiering race". A mover that has
   looked at the registry already does not look again before `fs::remove`:
   the request gets a descriptor of an inode that loses its name, and what it
   writes is lost.
2. README.md of autotier promises that in a collision the file in the tier is left
   untouched. The conflict name depends on the name and the tier only, so the
   conflict copy of an earlier collision is replaced.
3. autotier is to merge the tiers. `readdir` keeps one offset for all its streams: when a
   reply is full, the next call comes with an offset that one tier's `telldir` gave, and the
   streams of the other tiers are sent to it too (`directory.cpp:105-115`). Files of a large
   directory are left out, or appear twice, although nothing moves. The entry that did not
   fit is handed out before the first stream, with an offset of that one.

Three more disagreements have no run of their own; the passing properties are stated
around them, and a change of a configuration shows each:

* With `Tier Period = -1` the worker sleeps until it is woken, and whoever queues work
  notifies without the mutex (`adhoc.hpp:113`): between the look at the queue and the wait
  the notification wakes nobody. `Served` is violated with `Periodic = FALSE`, as it is by
  the mutant `SleepNoTimeout`.
* The header's pseudocode starts a tier's usage at "size of pinned files"
  (`tiering.hpp:116`), the code at zero (`tiering.cpp:167`). `QuotaKeptUnpinned` is violated
  without its condition that no file is pinned.
* `statfs` divides the quota and the usage of each tier by the block size of that tier,
  adds the quotients and reports the first tier's block size (`statfs.cpp:58-63`), so `df`
  is wrong when the tiers are file systems with different block sizes. `FreeSpaceShown`,
  which is `FreeSpaceRight` without its condition, is violated with blocks of 2 bytes in
  the first tier and of 1 in the second.

### Exceptions the passing properties name

The properties hold with exceptions, and each exception is a window of the code.
They say that these windows are the only ways for the bad thing to happen.

* `TierMigration`: `OpenFileStays` excepts descriptors obtained in the window of
  finding 1; `DataSurvives`, `Relocates`, `Findable` and `NothingClobbered` except
  behaviours in which a request fell into a move of its own name (`raced`);
  `Findable` and `NothingClobbered` also crashes, after which an entry can name a
  tier the file has left for good (`file.cpp:130` keeps the entry of the database).
* `Namespace`: an unlink, rename or create during a pass is undone by the
  write-back of the mover or of `update_db`. A rename over a name in another tier
  leaves the old file there. `link` calls `lchown` with a path relative to the
  mount and fails with the link made (`link.cpp:60`). A create on a name without an
  entry truncates what stands in the first tier. Names made by mknod and link are
  found after the next pass, symlinks never, as the crawl takes regular files only.
  `rmdir` of a directory that is empty in the first tier only removes it there. The
  mover's `create_directories` makes a directory in one tier (`tier.cpp:146`). What
  is set on a file between the mover's copy of attributes and the removal is lost, and
  a move loses all extended attributes (`tier.cpp:36-48`). Renaming the directory of a
  temporary makes `fs::rename` throw in the mover's thread; so does a directory made under
  the file's name after `exists`, and the crawl's iterators and `create_directories` throw
  when directories go under them: each ends the daemon (`died`), after which `NoGhost`,
  `Findable` and `DirsAgree` promise nothing until the end of the behaviour.
* `Listing`: what is listed of a file that moves meanwhile; of several tiers, listings that
  need a second reply (finding 3), for `NothingMissing` and `ListedOnce`; and for
  `ListedOnce` a last stream of several that ends with an entry that is skipped (a temporary,
  or a directory of a later tier): `dirp::offset` is past it, the offset of the last call is
  not, and the first stream is read again from that place.
* `TierUsage`: the causes of `drift` above. `statfs` wraps when the files exceed the
  quotas, and is right up to rounding only if all tiers have one block size.
* `AdhocCommands`: `PinsHold` excepts an `open` that writes the entry it had read
  before the pin back over it. It is about pins that were stored: `pin_files` returns
  at the first file that is in its tier already, so the files after it are never
  pinned although the client was told OK. The test whether a file to pin is open
  asks for the wrong path and never refuses. `ConflictsListed` looks at conflicts of
  passes, as one met by a pin is not logged, while both files stand where they met:
  `status` drops the entry when one is moved.

Several hazards are themselves such an exception, and the notes in `PROJECT.json` say
which: a property then shows that the damage goes no further than the exception, not that
the hazard is harmless.

### Steps that are coarser than the code

* `is_open` searches a map without the mutex (`openFiles.cpp:50`), and `fd_to_path()` and
  `size_at_open()` read theirs without one (`fuseOps.hpp:101`, `:130`); the models read them
  in one step. What an unlocked read during a rehash does is undefined and not modelled.
* `CreateLookup` of `TierMigration` is the whole getattr, `CreateCommit` the lookup of the
  `Metadata` constructor with the put of `update()`. In `Namespace`, `Make` is the getattr
  with the `mknod`, `symlink` or `creat`, and `RenameKeys` the iteration over the database
  with the batch. A mover between their parts would concern names that are excepted already
  (`raced`, `stale`, `fresh`).
* The application of `AdhocCommands` opens and unlinks; it neither renames nor creates.

### Bounds

`MaxWrites`, `MaxCrashes`, `MaxLeaks`, `MaxCopies`, `MaxFiles`, `MaxRequests`, `MaxMoves`,
`MaxCalls`, `MaxSize`, `MaxCookie` and `MaxCount` bound counters in guards; `Rooms` are the
sizes of replies. Two requests
are needed for counts above one and for a create against an open; a third adds
no new kind of step. Two tiers give two movers, in both directions, on the same
name at the same time. One name suffices in `migration` because movers and requests
of different names share no location. `faults` and `leftovers` have a crash and then
a full pass over what it left. Queue bound 2 holds a pass, a pin and the push that
races them. In `placement` two files compete for the space of a third, quotas go from
nothing to more than one tier's worth, and three popularities order three files
strictly or with ties. In `namespace` two directories and two requests are what a
rename and a change after it need, and one moved file is enough to meet them at every
step. A second move matters in one case: renames of directories bring the temporary
that an earlier move left behind into the place of the mover's; `carried` records it
and the proofs cover it for every number of moves. In `accounting` two
handles of one file are what double counting and the reuse of a descriptor need, two files
what a rename, a create beside another file or a move during a rename makes; two calls are
an open and what happens to it, or two opens, one of which truncates. The modulus is more
than all quotas together, and blocks of two bytes divide neither the sizes nor the first quota; longer histories are left to the proofs.
In `listing` 3 offsets hold what 2 files, a temporary and a subdirectory leave of a
directory's places, so that every order occurs, in replies that hold less than all and all;
`MaxCount` 2 tells twice from once. In `commands` two names give a pin of two files and a
collision. Symmetry is used over interchangeable values in runs without liveness
properties; the views hide values that no later step reads.

### Fairness

`WorkQueue`: weak fairness of the worker, the ad hoc server, each caller of `enqueue_work`
and `stop()`, as threads that the operating system schedules, none of which holds a lock
across another's step for ever; and time passes. Nobody is made to send a request, to stop
the daemon, or to wake up without cause. Two things are *not* fair, because nothing in the
code bounds them: the end of a pass or pin that moves files (a mover that runs out of space
tries again for ever and never looks at `stop_flag_`, `tier.cpp:165-189`), and the client
whose command the server waits for (`adhoc.cpp:71`; `stop()` only shuts down the listening
socket). They are premises of the properties instead: `Served` assumes `MovesEnd`, `StopEnds`
assumes `MovesEnd` and `ClientsSpeak`. `Served` holds in `work_queue` because the period
ends every sleep.

`Listing`: weak fairness of the process that lists the directory and reads it to the end,
none of the movers; `ListingEnds` says that mixing the offsets of several streams never
sends it in circles. The other specifications have no fairness.

## 4. Proofs

`TierMigrationProofs`: for any sets of names, tiers and requests and any bounds,
`TypeOK`; `PassShape` (movers and their queues exist only while files move);
`OpenCountExact`, from the fact that each step moves one request into or out of
the finite set of holders of one path, or from there to the leaked registrations of it;
and `OpenFileStays`. The last is not inductive. Its strengthening `OpenFileSafe` adds why it holds: the file is there and
no mover is committed to its path. A mover commits to a path only in `Check`, where
the count of that path is zero, and a request with a descriptor is counted
(`OpenCountExact`); a rename commits only where `TestExists` found nothing, and
the request's file is there.

The second part proves `DataSurvives`, `NoPartialFile`, `OnlyCopyIsWhole` and
`Relocates`: the argument is that every copy belongs to one mover. `Apart`: no two
movers are at, or will take, the same source, because a file is queued at one
destination only. `Present`: what waits for a mover or has not been removed by one
is there, and so is a mover's temporary. `OwnTmp`: a mover's temporary is nobody's
source, because `O_EXCL` made it where nothing was, and what is queued is there. With
these, `Copies` (an unfinished copy is in a temporary only, a finished one is
whole) and `Whole` (it is a copy of what the source has *now*: a write in between
needs a descriptor, whose request either raced or is counted and was seen by `Check`)
are inductive, and `DataSurvives` follows step by step: `Remove` leaves the copy,
`Rename` replaces nothing or sets `clobbered`. For the refinement `Numbered` and
`Single` are added: contents in sight or in flight are owed and distinct, so that a
removal hides exactly one of them and a write makes a new one. Then each action is a
departure, an arrival, a store, a step into chaos or a stutter.

`TierLookupProofs`: `Findable` and `NothingClobbered`, for backends on which no name is
in two tiers (`MaxCopies <= 1`) and, for the second, plans that move the
applications' own files only (`Movable = Visible`). Five writers change entries and
files without a common lock, so what makes the two agree is a statement about who is
under way. `EntryHere`: a file is in the tier its entry names, but for a create that
has not stored its entry and a move between the rename and the store. `EntryTrue`: an
entry has its file, but for a move past the removal. `Unseen`: what a create did
not see is in no tier, has no entry and is not in the worker's hands either, so the
write-back at the end of the pass cannot bring it back. `Creators`: one create of a
name at a time, and no mover takes what it made, which `is_open` guarantees.
`Visited`: the worker has one `File` per name, and what it will write back is true.
`Unopposed`: a mover finds its name free, as it has removed the only file of it.
Each holds as long as no request fell into a move and nothing crashed, and each needs
the others; together with the invariants of the two modules before they are inductive.

`TierUsageProofs`: `TypeOK`, `HandlesTracked`, `UsageOwed` and `FreeSpaceRight`. For
`HandlesTracked`: the kernel reuses the number of a descriptor
while the thread that released it still has accounting to do, so the maps keyed by
that number are right only because of the order in which `release` looks up, erases
and closes. `Fits` says it: the entries under a number are its handle's from the
insertion to the removal, and nobody's before and after.

`UsageOwed` is a balance: a count, plus what every handle will still add, equals the
bytes in the tier less those being unlinked, modulo the width (`Balance`). `Owes` is a
difference of two sizes taken at different moments, so a step that changes a size
must change exactly one of them, or put the tier into `drift`. That needs `Placed`
(the file of a handle is in the tier the handle will correct, or the mover that took it
away has put the tier into `drift`), `Leaving` (a
file that is being unlinked still stands, and a mover that has taken it elsewhere has put
the tier it was subtracted from into `drift`), `Crawled` and `PassOK` (what a quiet crawl has
seen is still so).
`FreeSpaceRight` then follows from the balance of all tiers with nothing owed: the sum
of the counts is the sum of the sizes, and rounding each tier down to blocks loses
less than a block per tier. It is stated for tiers of one block size, as it is false for
others, and assumes that quotas together stay below the width of the
counts (`WidthAssumption`).

`NamespaceProofs`: `TypeOK`, `TemporaryStays`, `FilesKept`, `DirsAgree`,
`NoGhost`, `Findable` and `AttributesKept`. `Housed`: a file stands in a
directory that its tier has; `rmdir` in a tier refuses directories with files, a rename of a directory takes them along, and the
mover makes the directory it renames into. `Guarded`: from the copy to the rename a
mover's temporary is there, unless a directory rename carried it away; no request can
name it: that is `TemporaryStays`, by which `fs::rename` does not throw for want of the
temporary. That the daemon lives is no theorem: the other exceptions can end it (`Die`).
For `FilesKept` the mover is split in two: `SourceSafe` says that until the source is
removed it is the file the temporary is a copy of, or what stands there now was lost
to a recorded cause; `TargetSafe`, that what a mover finds at its destination after it
tested it is recorded too. `Numbered` makes the numbers of files new when they are
given out. `AgreeInv` describes the tiers inside a loop over them: those the
loop has passed have the new state of the directory, those ahead the old one, and all
of the latter agree; `DirsAgree` is the case outside loops.

`NoGhost` and `Findable` are two sides of one fact about a name and its entry. `PlainInv`
states it for a name whose directory is not being renamed: at most one tier has a file of
the name, the entry names that tier or is absent, and an absent entry with a file is
recorded (`fresh`). It carries the reasons: the metadata that a pass will write back is
true unless a mover is between the removal and `transfer_to_tier` (`InPass`), the mover's
source is the file of the name (`Moves`), and a request between its system call and its
entry has the file where it will say it is (`Pending`). A request that changes a name the
pass has hold of breaks `InPass` for good, which is why such a name is excused from then
on (`stale`). While a directory is renamed tier by tier a name has two halves: `MidInv`
says that the tiers passed have nothing under the old name, and that the tiers passed under
the new name and the others under the old one, taken together, have the file at most once,
where the entry of the old name says; `RenameKeys` makes that the plain statement about
the new name. `CrawlInv` (no file is moved during the crawl) makes what the crawl adds to
the list agree with what is there. `Findable` needs `AgreeInv` besides, as `getattr`
looks for the directory in the first tier.

`AttributesKept` follows the attributes of a file through the places where a move keeps
them. A file that stands under a name has them itself; `CopyRight` says what the
temporary has so far (the length as soon as it is made, the permissions once
`copy_ownership_and_perms` has run, and until then the source is still there to read
them from); `CrawlRight`, `SourceRight` and `RestoreRight` say that the times read by
the crawl are those of the file when it is chosen, while it is copied and until
`overwrite_times` puts them back. A file only leaves this chain by a cause that `late`
records, and `late` only grows. A first version of the property failed when the proof
was begun: a rename of the directory takes the temporary away, another rename brings
the temporary that an earlier, failed move left there, and the mover gives that one the
name, with the permissions and times of nobody. `late` records it since (`carried`),
as it records the extended attributes of every file that moves, and the exemption that had hidden it for times, in every history with a stale
name, is gone.

`AdhocCommandsProofs`: `ConflictsListed`. `Locked` says that whoever is between its
read and its write of the log holds the lock, so what `Clash` keeps for a conflict
(in the log, and in what the holder of the lock has read) survives the write. An entry
has the name the file was crawled under, as a `File` is moved once.

The second part proves `TypeOK`, `PinsHold` and `AnswersTrue`. `Held` strengthens a pin by
the moment between the move and the store (`Storing`), when the worker has in hand
what the entry will be; `Apart` says that no file of a running pass has a pinned name,
because the worker takes no command before the pass has ended. For the answers, `Owned`
says that every command in the queue, in the worker or in the history is its client's,
and `Placed` that it is in no place before it is answered OK and in one after; the
daemon's own passes are nobody's.

`WorkQueueProofs`: `FlagMeansPending` and `RequestPending` are inductive together
with the types. A request that the flag turns away is pending because the flag is
set, and each step that takes a ONESHOT from one stage puts it into the next.

`TierPlacementProofs`: `NoPriorityInversion` for any files, tiers, sizes and
quotas. The strengthening `Denied` keeps the reason why a file was not placed
in a faster tier: that tier's simulated usage only grows, so a colder file that
fits later is smaller.

The second part is about sums. `Measured` (the usage of a tier the crawl has passed is the
sum over its files) gives `UsageExact`: a successful move takes a file out of one sum
and into another and corrects the two counts by the same size. `Filled` says the same of
the simulation at each round (the simulated usage of a tier is the sum of the files
placed there before, and within its quota), and `Queued` carries it to the end of
the moves, where the files are where they were placed: `QuotaKeptUnpinned`. For
`AtRest`, `FirstFit` keeps for every file why it was placed where it is, in terms of
sums over the files before it. When the pass has ended that is a statement about the
popularities and the tiers alone (`Fixed`: no file fits in a tier faster than its own,
counting the hotter files there), and the next pass, round by round, finds the
same placement.

Assumptions: those of the modules, which TLC evaluates on every run. The one that
carries weight is `NameAssumption`: the derived names (`.x.autotier.hide`,
`x.autotier_conflict.t`) are no application names and differ from each other.

`Sums`: what the sums above are compared by. `MapThenSumSet` is a fold over a finite
set that takes its elements in an order nobody chose. The library's induction theorems
take the claim as an operator, which the installed provers do not instantiate, so
the lemmas argue by a smallest counterexample instead: of the sets that violate a
claim one contains no other (`SmallestSet`, from the well-foundedness of strict
inclusion), and without one of its elements the claim holds. Thus the fold has a value
(`TotalExists`), takes any element first (`TotalRemove`), and a change of one term
changes the sum by its difference (`TotalChange`). The terms are given as a
function, not as an operator, for the same reason.

Only model-checked: the liveness properties, of which TLAPS has no proofs, and all of
`Listing`. Every other invariant and action property of a passing run is a theorem.

## 5. Not modelled

* The popularity formula (`file.cpp:83-95`) is floating point; `TierPlacement` takes
  any numbers. For young files and short periods its damping falls below 1 and
  counts the old popularity negatively (`file.cpp:88`), which no property notices.
* Space: a writer or mover that meets `ENOSPC` asks for a pass and tries again; the
  retry is a step that has not happened yet. Whether it ever succeeds is not modelled; what
  depends on it has `MovesEnd` as its premise.
* Passthrough calls without state (read, flush, fsync, flock, lock): one system call
  on the descriptor each.
* The process mutex: only the worker ever tries it, `lock_mutex()` has no caller.
* Configuration, options, help, logging, the text of replies, `main`: input and output.
* A crash while `conflicts.log` is rewritten; `seekdir` and `rewinddir` of an application.
* Parallel requests on related paths in `Namespace` (libfuse's locks exclude them),
  and the inner steps of a move in `AdhocCommands`.
* Access counts and the popularity kept in an entry.

Hazards without a property, besides `file.cpp:88` and `tier.cpp:177` above:
`file.cpp:130`, where an entry is wrong for ever after a crash (excepted in
`Findable`); `adhoc.cpp:531`, `adhoc.cpp:170` and `adhoc.cpp:543`, where the code does not
do what its reply says, or does it over a file of the name, which the exceptions above
describe; and the unlocked reads at `openFiles.cpp:50` and `fuseOps.hpp:101`.
