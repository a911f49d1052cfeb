--------------------------- MODULE AdhocCommands ---------------------------
(***************************************************************************)
(* The commands of the autotier client: the client sends one command over  *)
(* the socket and waits; the server thread of the daemon answers one       *)
(* client at a time, at once or after it has queued work; the worker runs  *)
(* the queue between two passes (pin_files, unpin_files, tier).  The       *)
(* conflict log in the run path is rewritten by the movers of a pass and   *)
(* by every status command, under conflict_lock.                           *)
(*                                                                         *)
(* Meanwhile applications open and remove files.  open() writes back the   *)
(* metadata it has read before, so it can undo a pin.                      *)
(*                                                                         *)
(* Abstractions: a crawl and a move are one step (their steps are those of *)
(* TierMigration and Namespace), the plan of a pass is any, the queue's    *)
(* flags and wake-ups are those of WorkQueue; config, list-pins,           *)
(* list-popularity and which-tier read without changing anything.          *)
(***************************************************************************)
EXTENDS Integers, Sequences, SequencesExt

CONSTANTS
    Client,     \* processes that run autotier, with one command each
    Base,       \* file names
    Foreign,    \* a file outside the mount point
    NTiers,     \* number of tiers
    Absent,
    Strict,     \* "Strict Period": passes only when the period ends
    MaxRequests,\* bound: requests of applications
    MaxMoves    \* bound: files moved by passes

Tier == 1 .. NTiers
\* A name as it is, or its conflict copy: from tier k, or 0 from a pin, which gives
\* move_file() no tier.
Plain == -1
Name == Base \X (Plain .. NTiers)
Loc == Tier \X Name
Meta == [tier : Tier, pin : BOOLEAN]
NoTier == 0                                     \* a tier name that does not exist
Args == {<<n>> : n \in Base \cup {Foreign}}
        \cup {a \in Base \X (Base \cup {Foreign}) : a[1] # a[2]}
Command == [op : {"oneshot", "status", "query"}, by : Client, tier : {NoTier}, args : {<<>>}]
           \cup [op : {"pin"}, by : Client, tier : Tier \cup {NoTier}, args : Args]
           \cup [op : {"unpin"}, by : Client, tier : {NoTier}, args : Args]

ASSUME CommandAssumption ==
    /\ NTiers \in Nat \ {0} /\ MaxRequests \in Nat /\ MaxMoves \in Nat
    /\ Foreign \notin Base /\ Strict \in BOOLEAN
    /\ Absent \notin (0 .. NTiers) \cup Client \cup Meta

VARIABLES
    file,       \* what stands at every backend path: where it was at the start
    db,         \* rocksdb: tier and pin of every name
    log,        \* entries of conflicts.log: backend paths
    lock,       \* conflict_lock: the mover (or 0, the server) that has it, what it has read
    client,     \* each client: its command and the answer
    server,     \* the command the server is at, its step and the answer
    queue,      \* adhoc_work_
    worker,     \* idle, crawl, move, update, pin, unpin; command, argument, metadata
    files,      \* files_ of the pass: place, name, metadata
    mover,      \* the mover of each tier: step, file and whether its name was taken
    open,       \* an open() that has read metadata and not written it
    asked, moves, \* requests and moves so far
    done,       \* history: commands executed
    pins,       \* history: tier and file of every pin that was stored and stands
    clashes     \* history: logged conflicts of files that both stand where they did

vars == <<file, db, log, lock, client, server, queue, worker, files, mover, open, asked, moves,
          done, pins, clashes>>
store == <<file, db>>
conflicts == <<log, lock>>
serving == <<client, server>>
pass == <<files, mover, moves>>
apps == <<open, asked>>

NoCmd == [op |-> "none", by |-> Absent, tier |-> NoTier, args |-> <<>>]
OwnPass == [NoCmd EXCEPT !.op = "oneshot"]        \* a pass the daemon queues itself
NoServer == [pc |-> "accept", cmd |-> NoCmd, answer |-> "none"]
NoWork == [pc |-> "idle", cmd |-> NoCmd, i |-> 1, meta |-> Absent]
NoMove == [pc |-> "idle", f |-> Absent, clash |-> FALSE]
Free == [by |-> Absent, list |-> {}]
At(l) == file[l] # Absent
Sees(n) == db[n] # Absent /\ At(<<db[n].tier, n>>)
Of(b) == <<b, Plain>>
-----------------------------------------------------------------------------
\* Every name is in the tier of its entry; one may be in another tier as well, put there
\* behind the mount or left by a rename.
Init ==
    /\ \E e \in [Base -> Tier \cup {Absent}] :
        db = [n \in Name |-> IF n[2] = Plain /\ e[n[1]] # Absent
                             THEN [tier |-> e[n[1]], pin |-> FALSE] ELSE Absent]
    /\ \E S \in SUBSET {l \in Loc : db[l[2]] # Absent} :
        /\ \A n \in Name : db[n] # Absent => <<db[n].tier, n>> \in S
        /\ file = [l \in Loc |-> IF l \in S THEN l ELSE Absent]
    /\ log = {} /\ lock = Free
    /\ client = [c \in Client |-> [cmd |-> NoCmd, answer |-> "none"]]
    /\ server = NoServer /\ queue = <<>> /\ worker = NoWork
    /\ files = {} /\ mover = [t \in Tier |-> NoMove] /\ open = Absent
    /\ asked = 0 /\ moves = 0
    /\ done = {} /\ pins = [b \in Base |-> Absent] /\ clashes = {}
-----------------------------------------------------------------------------
(* The client: main() of autotier; it prints the answer and exits *)

\* Unknown commands, a pin or unpin without paths and paths that do not exist end the
\* client before it connects.
ClientSend(c, cmd) ==
    /\ client[c].cmd = NoCmd /\ cmd.by = c
    /\ \A b \in ToSet(cmd.args) \ {Foreign} : Sees(Of(b))
    /\ client' = [client EXCEPT ![c].cmd = cmd]
    /\ UNCHANGED <<store, conflicts, server, queue, worker, pass, apps, done, pins>>
-----------------------------------------------------------------------------
(* The server thread *)

Serving(pc) == server.pc = pc
Answer(a) == server' = [server EXCEPT !.pc = "reply", !.answer = a]
Push == queue' = Append(queue, server.cmd)
ServerSame == UNCHANGED <<store, worker, pass, apps, done, pins>>

Accept(c) ==
    /\ Serving("accept") /\ client[c].cmd # NoCmd /\ client[c].answer = "none"
    /\ server' = [NoServer EXCEPT !.pc = client[c].cmd.op, !.cmd = client[c].cmd]
    /\ UNCHANGED <<client, conflicts, queue>> /\ ServerSame

\* currently_tiering_ is set from the crawl to the end of a pass.
ProcessOneshot ==
    /\ Serving("oneshot")
    /\ IF worker.pc \in {"crawl", "move", "update"}
       THEN Answer("ERR") /\ UNCHANGED queue
       ELSE Push /\ Answer("OK")
    /\ UNCHANGED <<client, conflicts>> /\ ServerSame

\* Mutant: the refusal does not return.
ProcessPinOn ==
    /\ Serving("pin") \/ Serving("unpin")
    /\ IF (Serving("pin") /\ server.cmd.tier = NoTier) \/ Foreign \in ToSet(server.cmd.args)
       THEN Answer("ERR") ELSE Answer("OK")
    /\ Push
    /\ UNCHANGED <<client, conflicts>> /\ ServerSame

\* An unknown tier or a path outside the mount refuses the whole command.  The test for
\* open files asks the registry for paths it never holds.
ProcessPin ==
    /\ Serving("pin") \/ Serving("unpin")
    /\ IF (Serving("pin") /\ server.cmd.tier = NoTier) \/ Foreign \in ToSet(server.cmd.args)
       THEN Answer("ERR") /\ UNCHANGED queue
       ELSE Push /\ Answer("OK")
    /\ UNCHANGED <<client, conflicts>> /\ ServerSame

\* An entry stays while the file has its name and a conflict copy is beside it.
StillConflicted(l) == At(l) /\ \E k \in 0 .. NTiers : At(<<l[1], <<l[2][1], k>>>>)
ReadConflicts == {l \in log : StillConflicted(l)}
Lock(who) == lock = Free /\ lock' = [by |-> who, list |-> ReadConflicts]

\* check_conflicts: read_conflicts and write_conflicts under the lock.
StatusRead ==
    /\ Serving("status")
    /\ Lock(0) /\ server' = [server EXCEPT !.pc = "status write"]
    /\ UNCHANGED <<client, log, queue>> /\ ServerSame
StatusWrite ==
    /\ Serving("status write")
    /\ log' = lock.list /\ lock' = Free
    /\ Answer("OK")
    /\ UNCHANGED <<client, queue>> /\ ServerSame

Query ==
    /\ Serving("query")
    /\ Answer("OK")
    /\ UNCHANGED <<client, conflicts, queue>> /\ ServerSame

\* send_data, close_connection
Reply ==
    /\ Serving("reply")
    /\ client' = [client EXCEPT ![server.cmd.by].answer = server.answer]
    /\ server' = NoServer
    /\ UNCHANGED <<conflicts, queue>> /\ ServerSame

Server == \/ \E c \in Client : Accept(c)
          \/ ProcessOneshot \/ ProcessPin \/ StatusRead \/ StatusWrite \/ Query \/ Reply
-----------------------------------------------------------------------------
(* The worker: pin_files and unpin_files *)

Working(pc) == worker.pc = pc
WorkerSame == UNCHANGED <<serving, apps>>
Finish == worker' = NoWork /\ done' = done \cup ({worker.cmd} \ {NoCmd, OwnPass})
\* Mutant: one argument too many.
NextArgPast == IF worker.i <= Len(worker.cmd.args)
               THEN /\ worker' = [NoWork EXCEPT !.pc = worker.cmd.op, !.cmd = worker.cmd, !.i = worker.i + 1]
                    /\ done' = done
               ELSE Finish
\* The next argument, or the end of the command.
NextArg == IF worker.i < Len(worker.cmd.args)
           THEN /\ worker' = [NoWork EXCEPT !.pc = worker.cmd.op, !.cmd = worker.cmd, !.i = worker.i + 1]
                /\ done' = done
           ELSE Finish
\* After its last argument pin_files queues a pass, unless the period is strict or one is
\* queued already.
LastArg == worker.i >= Len(worker.cmd.args)
RequestPass ==
    \/ /\ ~LastArg \/ Strict \/ \E k \in DOMAIN queue : queue[k].op = "oneshot"
       /\ UNCHANGED queue
    \/ LastArg /\ ~Strict /\ queue' = Append(queue, OwnPass)
Arg == Of(worker.cmd.args[worker.i])
Dest == worker.cmd.tier

Pop ==
    /\ Working("idle") /\ queue # <<>>
    /\ queue' = Tail(queue)
    /\ worker' = [NoWork EXCEPT !.cmd = Head(queue),
                                !.pc = IF Head(queue).op = "oneshot" THEN "crawl" ELSE Head(queue).op]
    /\ UNCHANGED <<store, conflicts, pass, done, pins>> /\ WorkerSame

\* Not in the database, or not where the entry says: the next argument.
PinSkip ==
    /\ Working("pin") /\ worker.meta = Absent /\ ~Sees(Arg)
    /\ NextArg /\ RequestPass
    /\ UNCHANGED <<store, conflicts, pass, pins>> /\ WorkerSame

\* In the tier already: the entry is stored and the command ends, whatever follows.
PinThere ==
    /\ Working("pin") /\ worker.meta = Absent /\ db[Arg] # Absent /\ db[Arg].tier = Dest
    /\ db' = [db EXCEPT ![Arg].pin = TRUE]
    /\ pins' = [pins EXCEPT ![Arg[1]] = IF Sees(Arg) THEN [tier |-> Dest, id |-> file[<<Dest, Arg>>]]
                                        ELSE Absent]
    /\ Finish
    /\ UNCHANGED <<file, conflicts, queue, pass>> /\ WorkerSame

PinLookup ==
    /\ Working("pin") /\ worker.meta = Absent /\ Sees(Arg) /\ db[Arg].tier # Dest
    /\ worker' = [worker EXCEPT !.meta = db[Arg]]
    /\ UNCHANGED <<store, conflicts, queue, pass, done, pins>> /\ WorkerSame

\* move_file fails, or the file has gone: nothing is stored.
PinFails ==
    /\ Working("pin") /\ worker.meta # Absent /\ worker.meta.tier # Dest
    /\ NextArg /\ RequestPass
    /\ UNCHANGED <<store, conflicts, pass, pins>> /\ WorkerSame

\* What move_file() makes of the file at l: tier t, under its name or beside a file that
\* has it, in the place of an older conflict copy.
Moved(l, t, k) ==
    LET to == IF At(<<t, l[2]>>) THEN <<t, <<l[2][1], k>>>> ELSE <<t, l[2]>> IN
    [file EXCEPT ![l] = Absent, ![to] = file[l]]

\* move_file() without `conflicted`: nobody hears of a conflict.
PinMove ==
    /\ Working("pin") /\ worker.meta # Absent /\ worker.meta.tier # Dest
    /\ LET l == <<worker.meta.tier, Arg>> IN
       /\ At(l)
       /\ file' = Moved(l, Dest, 0)
       /\ pins' = [pins EXCEPT ![Arg[1]] = IF At(<<Dest, Arg>>) THEN Absent
                                           ELSE [tier |-> Dest, id |-> file[l]]]
    /\ worker' = [worker EXCEPT !.meta = [tier |-> Dest, pin |-> TRUE]]
    /\ UNCHANGED <<db, conflicts, queue, pass, done>> /\ WorkerSame

PinUpdate ==
    /\ Working("pin") /\ worker.meta # Absent /\ worker.meta.tier = Dest
    /\ db' = [db EXCEPT ![Arg] = worker.meta]
    /\ NextArg /\ RequestPass
    /\ UNCHANGED <<file, conflicts, pass, pins>> /\ WorkerSame

UnpinLookup ==
    /\ Working("unpin") /\ worker.meta = Absent
    /\ IF db[Arg] = Absent THEN NextArg
       ELSE worker' = [worker EXCEPT !.meta = [db[Arg] EXCEPT !.pin = FALSE]] /\ done' = done
    /\ UNCHANGED <<store, conflicts, queue, pass, pins>> /\ WorkerSame

UnpinUpdate ==
    /\ Working("unpin") /\ worker.meta # Absent
    /\ db' = [db EXCEPT ![Arg] = worker.meta]
    /\ pins' = [pins EXCEPT ![Arg[1]] = Absent]
    /\ NextArg
    /\ UNCHANGED <<file, conflicts, queue, pass>> /\ WorkerSame
-----------------------------------------------------------------------------
(* The worker: a pass *)

\* The timer; a queued oneshot starts at the crawl.
StartPass ==
    /\ Working("idle")
    /\ worker' = [NoWork EXCEPT !.pc = "crawl"]
    /\ UNCHANGED <<store, conflicts, queue, pass, done, pins>> /\ WorkerSame

\* Mutant: the pin is not looked at.
CrawlAll ==
    /\ Working("crawl")
    /\ files' = {[at |-> l, name |-> l[2], moved |-> FALSE,
                  meta |-> IF db[l[2]] = Absent THEN [tier |-> l[1], pin |-> FALSE] ELSE db[l[2]]] :
                 l \in {x \in Loc : At(x)}}
    /\ worker' = [worker EXCEPT !.pc = "move"]
    /\ UNCHANGED <<store, conflicts, queue, mover, moves, done, pins>> /\ WorkerSame

\* emplace_file: files whose entry is pinned are left out.
Crawl ==
    /\ Working("crawl")
    /\ files' = {[at |-> l, name |-> l[2], moved |-> FALSE,
                  meta |-> IF db[l[2]] = Absent THEN [tier |-> l[1], pin |-> FALSE] ELSE db[l[2]]] :
                 l \in {x \in Loc : At(x) /\ (db[x[2]] = Absent \/ ~db[x[2]].pin)}}
    /\ worker' = [worker EXCEPT !.pc = "move"]
    /\ UNCHANGED <<store, conflicts, queue, mover, moves, done, pins>> /\ WorkerSame

MoverAt(t, pc) == mover[t].pc = pc
Step(t, pc) == mover' = [mover EXCEPT ![t].pc = pc]
MoverSame == UNCHANGED <<queue, worker, moves, done, pins>>
From(t) == mover[t].f.at
CopyName(t) == <<mover[t].f.name[1], From(t)[1]>>
SetFile(t, g) == files' = (files \ {mover[t].f}) \cup {g} /\ mover' = [mover EXCEPT ![t].f = g]

\* A conflict copy is not moved a second time (bound).
MoveFile(t, f) ==
    /\ Working("move") /\ MoverAt(t, "idle") /\ moves < MaxMoves
    /\ f.at[1] # t /\ ~f.moved /\ f.name[2] = Plain /\ At(f.at)
    /\ file' = Moved(f.at, t, f.at[1])
    /\ LET g == [f EXCEPT !.moved = TRUE] IN
       /\ files' = (files \ {f}) \cup {g}
       /\ mover' = [mover EXCEPT ![t] = [pc |-> "record", f |-> g, clash |-> At(<<t, f.name>>)]]
    /\ moves' = moves + 1
    /\ UNCHANGED <<db, conflicts, queue, worker, done, pins>> /\ WorkerSame

\* transfer_to_tier
Record(t) ==
    /\ MoverAt(t, "record")
    /\ db' = [db EXCEPT ![mover[t].f.name] = [mover[t].f.meta EXCEPT !.tier = t]]
    /\ LET g == [mover[t].f EXCEPT !.meta.tier = t] IN
       /\ files' = (files \ {mover[t].f}) \cup {g}
       /\ mover' = [mover EXCEPT ![t] = IF mover[t].clash THEN [@ EXCEPT !.pc = "change", !.f = g]
                                        ELSE NoMove]
    /\ UNCHANGED <<file, conflicts>> /\ MoverSame /\ WorkerSame

\* change_path deletes the entry of the name, which the file that was there still has.
ChangePath(t) ==
    /\ MoverAt(t, "change")
    /\ db' = [db EXCEPT ![mover[t].f.name] = Absent, ![CopyName(t)] = mover[t].f.meta]
    /\ LET g == [mover[t].f EXCEPT !.name = CopyName(t)] IN
       /\ files' = (files \ {mover[t].f}) \cup {g}
       /\ mover' = [mover EXCEPT ![t].pc = "log"]
    /\ UNCHANGED <<file, conflicts>> /\ MoverSame /\ WorkerSame

\* Mutant: the log is read before the lock is taken.
AddReadUnlocked(t) ==
    /\ MoverAt(t, "log")
    /\ lock' = [by |-> t, list |-> ReadConflicts]
    /\ Step(t, "log write")
    /\ UNCHANGED <<store, log, files>> /\ MoverSame /\ WorkerSame

\* add_conflict
AddRead(t) ==
    /\ MoverAt(t, "log")
    /\ Lock(t)
    /\ Step(t, "log write")
    /\ UNCHANGED <<store, log, files>> /\ MoverSame /\ WorkerSame

AddWrite(t) ==
    /\ MoverAt(t, "log write")
    /\ log' = lock.list \cup {<<t, mover[t].f.name>>} /\ lock' = Free
    /\ mover' = [mover EXCEPT ![t] = NoMove]
    /\ UNCHANGED <<store, files>> /\ MoverSame /\ WorkerSame

Join ==
    /\ Working("move") /\ \A t \in Tier : MoverAt(t, "idle")
    /\ worker' = [worker EXCEPT !.pc = "update"]
    /\ UNCHANGED <<store, conflicts, queue, pass, done, pins>> /\ WorkerSame

\* update_db writes the metadata of every File, the last one of a name stays; the pass
\* ends.
UpdateDb ==
    /\ Working("update")
    /\ \E last \in [{f.name : f \in files} -> files] :
        /\ \A n \in DOMAIN last : last[n].name = n
        /\ db' = [n \in Name |-> IF n \in DOMAIN last THEN last[n].meta ELSE db[n]]
    /\ files' = {} /\ Finish
    /\ UNCHANGED <<file, conflicts, queue, mover, moves, pins>> /\ WorkerSame

Worker ==
    \/ Pop \/ PinSkip \/ PinThere \/ PinLookup \/ PinFails \/ PinMove \/ PinUpdate
    \/ UnpinLookup \/ UnpinUpdate
    \/ StartPass \/ Crawl \/ Join \/ UpdateDb
    \/ \E t \in Tier : \/ \E f \in files : MoveFile(t, f)
                       \/ Record(t) \/ ChangePath(t) \/ AddRead(t) \/ AddWrite(t)
-----------------------------------------------------------------------------
(* Applications *)

Ask == asked < MaxRequests /\ asked' = asked + 1
AppSame == UNCHANGED <<conflicts, serving, queue, worker, pass, done>>

OpenLookup(b) ==
    /\ Ask /\ open = Absent /\ Sees(Of(b))
    /\ open' = [base |-> b, meta |-> db[Of(b)]]
    /\ UNCHANGED <<store, pins>> /\ AppSame

\* touch() and update(): the entry as it was read, with the pin and the tier of then.
OpenUpdate ==
    /\ open # Absent
    /\ db' = [db EXCEPT ![Of(open.base)] = open.meta]
    /\ pins' = [pins EXCEPT ![open.base] = IF @ # Absent /\ open.meta # [tier |-> @.tier, pin |-> TRUE]
                                           THEN Absent ELSE @]
    /\ open' = Absent
    /\ UNCHANGED <<file, asked>> /\ AppSame

Unlink(n) ==
    /\ Ask /\ Sees(n) /\ (open # Absent => n # Of(open.base))
    /\ file' = [file EXCEPT ![<<db[n].tier, n>>] = Absent]
    /\ db' = [db EXCEPT ![n] = Absent]
    /\ pins' = [pins EXCEPT ![n[1]] = IF n[2] = Plain THEN Absent ELSE @]
    /\ UNCHANGED open /\ AppSame

Application == (\E b \in Base : OpenLookup(b)) \/ OpenUpdate \/ \E n \in Name : Unlink(n)
-----------------------------------------------------------------------------
\* Conflicts logged by this step, and older ones, whose files stand where they did.
KeepClashes ==
    LET new == {[name |-> <<t, mover[t].f.at[2]>>, copy |-> <<t, <<mover[t].f.at[2][1], From(t)[1]>>>>] :
                t \in {x \in Tier : MoverAt(x, "log write") /\ mover'[x].pc = "idle"}}
    IN clashes' = {c \in clashes \cup new : /\ At(c.name) /\ file'[c.name] = file[c.name]
                                            /\ At(c.copy) /\ file'[c.copy] = file[c.copy]}

Next ==
    /\ \/ \E c \in Client, cmd \in Command : ClientSend(c, cmd)
       \/ Server \/ Worker \/ Application
    /\ KeepClashes

Spec == Init /\ [][Next]_vars
-----------------------------------------------------------------------------
(* Properties *)

TypeOK ==
    /\ file \in [Loc -> Loc \cup {Absent}] /\ db \in [Name -> Meta \cup {Absent}]
    /\ log \subseteq Loc /\ lock.by \in Tier \cup {0, Absent}
    /\ \A c \in Client : client[c].answer \in {"none", "OK", "ERR"}
    /\ queue \in Seq(Command \cup {OwnPass})
    /\ worker.cmd.args # <<>> => worker.i \in 1 .. Len(worker.cmd.args)
    /\ worker.pc \in {"idle", "crawl", "move", "update", "pin", "unpin"}

\* A pin that has been stored holds: the entry keeps the pin and the tier, and the file
\* stays in it through passes, other commands and conflicts until it is unpinned, pinned
\* elsewhere or removed, or an open() that read the entry before writes it back.
PinsHold == \A b \in Base :
    LET n == Of(b)  p == pins[b] IN
    p # Absent /\ ~(Working("pin") /\ Arg = n /\ worker.meta # Absent)
    => db[n] = [tier |-> p.tier, pin |-> TRUE] /\ file[<<p.tier, n>>] = p.id

\* The conflict log names every conflict a pass has met for as long as both files stand
\* where they met: no mover and no status command loses an entry of another.
ConflictsListed == \A c \in clashes : c.name \in log

\* A client told OK has its command queued, running or executed, exactly once; one told
\* ERR has it nowhere.
AnswersTrue == \A c \in Client :
    LET cmd == client[c].cmd
        places == Cardinality({k \in 1 .. Len(queue) : queue[k] = cmd})
                  + (IF worker.cmd = cmd THEN 1 ELSE 0) + (IF cmd \in done THEN 1 ELSE 0) IN
    cmd.op \in {"oneshot", "pin", "unpin"} =>
        /\ client[c].answer = "OK" => places = 1
        /\ client[c].answer = "ERR" => places = 0
=============================================================================
