------------------------ MODULE AdhocCommandsProofs ------------------------
(* Proofs that the conflict log loses no entry, that AdhocCommands is type correct, that a *)
(* stored pin holds and that the answers are true, for every number of clients and tiers. *)
EXTENDS AdhocCommands, FiniteSetTheorems, TLAPS

\* The shape of what the steps rewrite in part.
Cmd == Command \cup {NoCmd}
Answers == {"none", "OK", "ERR"}
ServerPC == {"accept", "oneshot", "status", "query", "pin", "unpin", "status write", "reply"}
Talk ==
    /\ server \in [pc : ServerPC, cmd : Cmd, answer : Answers]
    /\ client \in [Client -> [cmd : Cmd, answer : Answers]]
IsFile(f) == DOMAIN f = {"at", "name", "moved", "meta"}
IsMove(m) == DOMAIN m = {"pc", "f", "clash"}

LEMMA MoveStep ==
    ASSUME NEW m, NEW x, IsMove(m), NEW a, a = [m EXCEPT !.pc = x]
    PROVE  IsMove(a) /\ a.pc = x /\ a.f = m.f
BY DEF IsMove

LEMMA MoveEnd == IsMove(NoMove) /\ NoMove.pc = "idle"
BY DEF IsMove, NoMove

\* A File has the name it was crawled under until it is moved, and its mover keeps that.
Moves ==
    /\ \A f \in files : IsFile(f) /\ f.at \in Loc /\ (f.moved \/ f.name = f.at[2])
    /\ mover = [t \in Tier |-> mover[t]] /\ \A t \in Tier : IsMove(mover[t])
    /\ \A t \in Tier : mover[t].pc # "idle" =>
          LET f == mover[t].f IN IsFile(f) /\ f.at \in Loc /\ f.moved /\ f.name = f.at[2]

\* Whoever has read the log holds the lock.
Locked ==
    /\ server.pc = "status write" => lock.by = 0
    /\ \A t \in Tier : mover[t].pc = "log write" => lock.by = t

\* Every logged conflict whose files still stand is in the log, in what the holder of the
\* lock will write, and not dropped by the next reader.
Clash(c) ==
    /\ c.name \in log
    /\ lock # Free => c.name \in lock.list
    /\ At(c.name) /\ At(c.copy)
    /\ \E k \in 0 .. NTiers : c.copy = <<c.name[1], <<c.name[2][1], k>>>>

LogInv == Talk /\ Moves /\ Locked /\ \A c \in clashes : Clash(c)
-----------------------------------------------------------------------------
LEMMA Numbers == NTiers \in Nat /\ Absent \notin Tier \cup {0} /\ 0 \notin Tier
                 /\ Tier \subseteq 0 .. NTiers
BY CommandAssumption DEF Tier

LEMMA LogInit == Init => LogInv
<1>. SUFFICES ASSUME Init PROVE LogInv
  OBVIOUS
<1>1. Talk
  BY DEF Init, Talk, Cmd, Answers, ServerPC, NoServer
<1>2. Moves /\ Locked
  BY DEF Init, Moves, Locked, IsMove, NoMove, NoServer
<1>. QED BY <1>1, <1>2 DEF Init, LogInv

\* The pass and the log.
MoverSteps(t) == Record(t) \/ ChangePath(t) \/ AddRead(t) \/ AddWrite(t)

\* Steps that touch neither the log, its lock nor the movers.
LEMMA Others ==
    ASSUME Next
    PROVE  \/ UNCHANGED <<log, lock, files, mover, server>>
           \/ (\E c \in Client : Accept(c)) \/ ProcessOneshot \/ ProcessPin \/ StatusRead
           \/ StatusWrite \/ Query \/ Reply
           \/ Crawl \/ UpdateDb
           \/ \E t \in Tier : (\E f \in files : MoveFile(t, f)) \/ MoverSteps(t)
<1>1. ASSUME NEW c \in Client, NEW m \in Command, ClientSend(c, m)
      PROVE  UNCHANGED <<log, lock, files, mover, server>>
  BY <1>1 DEF ClientSend, conflicts, pass
<1>2. Application => UNCHANGED <<log, lock, files, mover, server>>
  BY DEF Application, OpenLookup, OpenUpdate, Unlink, AppSame, conflicts, pass, serving
<1>3. Pop \/ PinSkip \/ PinThere \/ PinLookup \/ PinFails \/ PinMove \/ PinUpdate
      \/ UnpinLookup \/ UnpinUpdate \/ StartPass \/ Join
      => UNCHANGED <<log, lock, files, mover, server>>
  BY DEF Pop, PinSkip, PinThere, PinLookup, PinFails, PinMove, PinUpdate, UnpinLookup,
         UnpinUpdate, StartPass, Join, WorkerSame, conflicts, pass, serving
<1>. QED BY <1>1, <1>2, <1>3 DEF Next, Server, Worker, MoverSteps

LEMMA TalkNext == Talk /\ Next => Talk'
<1>. SUFFICES ASSUME Talk, Next PROVE Talk'
  OBVIOUS
<1>1. CASE UNCHANGED <<client, server>>
  BY <1>1 DEF Talk
<1>2. ASSUME NEW c \in Client, NEW m \in Command, ClientSend(c, m) PROVE Talk'
  BY <1>2 DEF ClientSend, Talk, Cmd
<1>3. ASSUME NEW c \in Client, Accept(c) PROVE Talk'
  <2>1. client[c].cmd \in Command /\ client' = client
    BY <1>3 DEF Accept, Talk, Cmd
  <2>2. client[c].cmd.op \in {"oneshot", "status", "query", "pin", "unpin"}
    BY <2>1 DEF Command
  <2>3. server' = [pc |-> client[c].cmd.op, cmd |-> client[c].cmd, answer |-> "none"]
    BY <1>3 DEF Accept, NoServer
  <2>. QED BY <2>1, <2>2, <2>3 DEF Talk, Cmd, ServerPC, Answers
<1>4. CASE ProcessOneshot \/ ProcessPin \/ StatusRead \/ StatusWrite \/ Query
  <2>1. /\ client' = client
        /\ \/ server' = [server EXCEPT !.pc = "reply", !.answer = "OK"]
           \/ server' = [server EXCEPT !.pc = "reply", !.answer = "ERR"]
           \/ server' = [server EXCEPT !.pc = "status write"]
    BY <1>4 DEF ProcessOneshot, ProcessPin, StatusRead, StatusWrite, Query, Answer
  <2>. QED BY <2>1 DEF Talk, ServerPC, Answers
<1>5. CASE Reply
  <2>1. server' \in [pc : ServerPC, cmd : Cmd, answer : Answers]
    BY <1>5 DEF Reply, NoServer, ServerPC, Cmd, Answers
  <2>2. server.answer \in Answers
    BY DEF Talk
  <2>3. client' \in [Client -> [cmd : Cmd, answer : Answers]]
    BY <1>5, <2>2 DEF Reply, Talk
  <2>. QED BY <2>1, <2>3 DEF Talk
<1>6. Worker \/ Application => UNCHANGED <<client, server>>
  BY DEF Worker, Pop, PinSkip, PinThere, PinLookup, PinFails, PinMove, PinUpdate, UnpinLookup,
         UnpinUpdate, StartPass, Join, Crawl, UpdateDb, MoveFile, Record, ChangePath, AddRead,
         AddWrite, WorkerSame, serving, Application, OpenLookup, OpenUpdate, Unlink, AppSame
<1>. QED BY <1>1, <1>2, <1>3, <1>4, <1>5, <1>6 DEF Next, Server

LEMMA MovesNext == Moves /\ Next => Moves'
<1>. SUFFICES ASSUME Moves, Next PROVE Moves'
  OBVIOUS
<1>1. CASE UNCHANGED <<files, mover>>
  BY <1>1 DEF Moves
<1>2. Server => UNCHANGED <<files, mover>>
  BY DEF Server, Accept, ProcessOneshot, ProcessPin, StatusRead, StatusWrite, Query, Reply,
         ServerSame, pass
<1>3. CASE Crawl \/ UpdateDb
  <2>1. mover' = mover
    BY <1>3 DEF Crawl, UpdateDb
  <2>2. ASSUME NEW f \in files' PROVE IsFile(f) /\ f.at \in Loc /\ f.name = f.at[2]
    <3>1. PICK l \in Loc : \E m : f = [at |-> l, name |-> l[2], moved |-> FALSE, meta |-> m]
      BY <1>3, <2>2 DEF Crawl, UpdateDb
    <3>. QED BY <3>1 DEF IsFile
  <2>. QED BY <2>1, <2>2 DEF Moves
<1>4. ASSUME NEW t \in Tier, NEW f \in files, MoveFile(t, f) PROVE Moves'
  <2>. DEFINE g == [f EXCEPT !.moved = TRUE]
  <2>1. /\ files' = (files \ {f}) \cup {g} /\ ~f.moved
        /\ mover' = [mover EXCEPT ![t] = [pc |-> "record", f |-> g, clash |-> At(<<t, f.name>>)]]
    BY <1>4 DEF MoveFile
  <2>2. IsFile(f) /\ f.at \in Loc /\ f.name = f.at[2]
    BY <2>1 DEF Moves
  <2>3. IsFile(g) /\ g.at = f.at /\ g.name = f.name /\ g.moved
    BY <2>2 DEF IsFile
  <2>. HIDE DEF g
  <2>4. /\ mover' = [u \in Tier |-> mover'[u]] /\ \A u \in Tier \ {t} : mover'[u] = mover[u]
        /\ mover'[t] = [pc |-> "record", f |-> g, clash |-> At(<<t, f.name>>)]
    BY <2>1 DEF Moves
  <2>. QED BY <2>1, <2>2, <2>3, <2>4 DEF Moves, IsMove
<1>5. ASSUME NEW t \in Tier, Record(t) \/ ChangePath(t) PROVE Moves'
  <2>. DEFINE f == mover[t].f
  <2>1. IsFile(f) /\ f.at \in Loc /\ f.moved /\ f.name = f.at[2] /\ IsMove(mover[t])
    BY <1>5 DEF Moves, Record, ChangePath, MoverAt
  <2>2. PICK g : /\ files' = (files \ {f}) \cup {g}
                 /\ \/ /\ g = [f EXCEPT !.meta.tier = t]
                       /\ \/ mover' = [mover EXCEPT ![t] = [@ EXCEPT !.pc = "change", !.f = g]]
                          \/ mover' = [mover EXCEPT ![t] = NoMove]
                    \/ /\ g = [f EXCEPT !.name = CopyName(t)]
                       /\ mover' = [mover EXCEPT ![t].pc = "log"]
    BY <1>5 DEF Record, ChangePath
  <2>3. IsFile(g) /\ g.at = f.at /\ g.moved /\ (g = [f EXCEPT !.meta.tier = t] => g.name = f.name)
    BY <2>1, <2>2 DEF IsFile
  <2>. HIDE DEF f
  <2>4. mover' = [u \in Tier |-> mover'[u]] /\ \A u \in Tier \ {t} : mover'[u] = mover[u]
    BY <2>2 DEF Moves
  <2>6. \/ mover'[t] = NoMove
        \/ mover'[t] = [mover[t] EXCEPT !.pc = "change", !.f = g] /\ g = [f EXCEPT !.meta.tier = t]
        \/ mover'[t] = [mover[t] EXCEPT !.pc = "log"]
    BY <2>2 DEF Moves
  <2>5. /\ IsMove(mover'[t])
        /\ \/ mover'[t].pc = "idle"
           \/ mover'[t].f = g /\ g.name = f.name
           \/ mover'[t].f = f
    <3>1. CASE mover'[t] = NoMove
      BY <3>1, MoveEnd
    <3>2. CASE mover'[t] = [mover[t] EXCEPT !.pc = "change", !.f = g] /\ g = [f EXCEPT !.meta.tier = t]
      <4>1. IsMove(mover'[t]) /\ mover'[t].f = g
        <5>1. IsMove(mover[t])
          BY <2>1
        <5>. QED BY <5>1, <3>2 DEF IsMove
      <4>. QED BY <4>1, <2>3, <3>2
    <3>3. CASE mover'[t] = [mover[t] EXCEPT !.pc = "log"]
      <4>1. IsMove(mover'[t]) /\ mover'[t].f = mover[t].f
        BY <2>1, <3>3, MoveStep
      <4>. QED BY <4>1 DEF f
    <3>. QED BY <3>1, <3>2, <3>3, <2>6
  <2>. QED BY <2>1, <2>2, <2>3, <2>4, <2>5 DEF Moves
<1>6. ASSUME NEW t \in Tier, AddRead(t) \/ AddWrite(t) PROVE Moves'
  <2>1. /\ files' = files /\ mover[t].pc # "idle"
        /\ \/ mover' = [mover EXCEPT ![t].pc = "log write"]
           \/ mover' = [mover EXCEPT ![t] = NoMove]
    BY <1>6 DEF AddRead, AddWrite, Step, MoverAt
  <2>2. mover' = [u \in Tier |-> mover'[u]] /\ \A u \in Tier \ {t} : mover'[u] = mover[u]
    BY <2>1 DEF Moves
  <2>3. IsMove(mover'[t]) /\ (mover'[t].pc = "idle" \/ mover'[t].f = mover[t].f)
    <3>1. mover'[t] = NoMove \/ mover'[t] = [mover[t] EXCEPT !.pc = "log write"]
      BY <2>1 DEF Moves
    <3>2. IsMove(mover[t])
      BY DEF Moves
    <3>3. CASE mover'[t] = NoMove
      BY <3>3, MoveEnd
    <3>4. CASE mover'[t] = [mover[t] EXCEPT !.pc = "log write"]
      BY <3>2, <3>4 DEF IsMove
    <3>. QED BY <3>1, <3>3, <3>4
  <2>4. ASSUME NEW u \in Tier
        PROVE  /\ IsMove(mover'[u])
               /\ mover'[u].pc # "idle" =>
                     LET f == mover'[u].f IN IsFile(f) /\ f.at \in Loc /\ f.moved /\ f.name = f.at[2]
    <3>1. CASE u = t
      <4>1. LET f == mover[t].f IN IsFile(f) /\ f.at \in Loc /\ f.moved /\ f.name = f.at[2]
        BY <2>1 DEF Moves
      <4>. QED BY <2>3, <3>1, <4>1
    <3>2. CASE u # t
      <4>1. mover'[u] = mover[u]
        BY <2>2, <3>2
      <4>. QED BY <4>1 DEF Moves
    <3>. QED BY <3>1, <3>2
  <2>. QED BY <2>1, <2>2, <2>4 DEF Moves
<1>. QED BY <1>1, <1>2, <1>3, <1>4, <1>5, <1>6, Others DEF Server, MoverSteps

LEMMA LockedNext == Talk /\ Moves /\ Locked /\ Next => Locked'
<1>. SUFFICES ASSUME Talk, Moves, Locked, Next PROVE Locked'
  OBVIOUS
<1>. USE Numbers
<1>1. CASE UNCHANGED <<lock, mover>> /\ (server'.pc = server.pc \/ server'.pc # "status write")
  BY <1>1 DEF Locked
<1>2. ASSUME NEW c \in Client, Accept(c) PROVE Locked'
  <2>1. client[c].cmd \in Command
    BY <1>2 DEF Accept, Talk, Cmd
  <2>2. client[c].cmd.op # "status write"
    BY <2>1 DEF Command
  <2>3. server'.pc = client[c].cmd.op /\ UNCHANGED <<lock, mover>>
    BY <1>2 DEF Accept, NoServer, conflicts, ServerSame, pass
  <2>. QED BY <1>1, <2>2, <2>3
<1>3. CASE ProcessOneshot \/ ProcessPin \/ Query \/ Reply
  <2>1. UNCHANGED <<lock, mover>>
    BY <1>3 DEF ProcessOneshot, ProcessPin, Query, Reply, conflicts, ServerSame, pass
  <2>2. \/ server' = NoServer \/ server' = [server EXCEPT !.pc = "reply", !.answer = "OK"]
        \/ server' = [server EXCEPT !.pc = "reply", !.answer = "ERR"]
    BY <1>3 DEF ProcessOneshot, ProcessPin, Query, Reply, Answer
  <2>3. server'.pc # "status write"
    <3>1. CASE server' = NoServer
      BY <3>1 DEF NoServer
    <3>2. CASE server' # NoServer
      BY <2>2, <3>2 DEF Talk
    <3>. QED BY <3>1, <3>2
  <2>. QED BY <1>1, <2>1, <2>3
<1>4. CASE StatusRead
  <2>1. lock = Free /\ lock'.by = 0 /\ mover' = mover
    BY <1>4 DEF StatusRead, Lock, ServerSame, pass
  <2>2. \A t \in Tier : mover[t].pc # "log write"
    BY <2>1 DEF Locked, Free
  <2>. QED BY <2>1, <2>2 DEF Locked
<1>5. CASE StatusWrite
  <2>1. lock.by = 0 /\ mover' = mover
    BY <1>5 DEF StatusWrite, Serving, Locked, ServerSame, pass
  <2>2. server'.pc # "status write"
    BY <1>5 DEF StatusWrite, Answer, Talk
  <2>. QED BY <2>1, <2>2 DEF Locked
<1>6. CASE Crawl \/ UpdateDb
  BY <1>1, <1>6 DEF Crawl, UpdateDb, WorkerSame, serving, conflicts
<1>7. ASSUME NEW t \in Tier, (\E f \in files : MoveFile(t, f)) \/ Record(t) \/ ChangePath(t)
      PROVE  Locked'
  <2>1. UNCHANGED <<lock, server>> /\ mover' = [mover EXCEPT ![t] = mover'[t]]
    BY <1>7 DEF Moves, MoveFile, Record, ChangePath, WorkerSame, serving, conflicts
  <2>2. mover'[t].pc # "log write"
    <3>1. ASSUME NEW f \in files, MoveFile(t, f) PROVE mover'[t].pc = "record"
      BY <3>1 DEF Moves, MoveFile
    <3>2. IsMove(mover[t])
      BY DEF Moves
    <3>3. CASE Record(t)
      <4>1. PICK g : mover'[t] = NoMove \/ mover'[t] = [mover[t] EXCEPT !.pc = "change", !.f = g]
        BY <3>3 DEF Record, Moves
      <4>2. CASE mover'[t] = [mover[t] EXCEPT !.pc = "change", !.f = g]
        BY <3>2, <4>2 DEF IsMove
      <4>. QED BY <4>1, <4>2, MoveEnd
    <3>4. CASE ChangePath(t)
      <4>1. mover'[t] = [mover[t] EXCEPT !.pc = "log"]
        BY <3>4 DEF ChangePath, Moves
      <4>. QED BY <3>2, <4>1, MoveStep
    <3>. QED BY <1>7, <3>1, <3>3, <3>4
  <2>3. \A u \in Tier \ {t} : mover'[u] = mover[u]
    BY <2>1 DEF Moves
  <2>. QED BY <2>1, <2>2, <2>3 DEF Locked
<1>8. ASSUME NEW t \in Tier, AddRead(t) PROVE Locked'
  <2>1. lock = Free /\ lock'.by = t /\ UNCHANGED server /\ mover' = [mover EXCEPT ![t].pc = "log write"]
    BY <1>8 DEF AddRead, Lock, Step, WorkerSame, serving
  <2>2. server.pc # "status write" /\ \A u \in Tier : mover[u].pc # "log write"
    BY <2>1 DEF Locked, Free
  <2>3. \A u \in Tier \ {t} : mover'[u] = mover[u]
    BY <2>1 DEF Moves
  <2>. QED BY <2>1, <2>2, <2>3 DEF Locked
<1>9. ASSUME NEW t \in Tier, AddWrite(t) PROVE Locked'
  <2>1. lock.by = t /\ UNCHANGED server /\ mover' = [mover EXCEPT ![t] = NoMove]
    BY <1>9 DEF AddWrite, MoverAt, Locked, WorkerSame, serving
  <2>2. server.pc # "status write" /\ \A u \in Tier \ {t} : mover[u].pc # "log write"
    BY <2>1 DEF Locked
  <2>3. mover'[t].pc = "idle" /\ \A u \in Tier \ {t} : mover'[u] = mover[u]
    BY <2>1, MoveEnd DEF Moves
  <2>. QED BY <2>1, <2>2, <2>3 DEF Locked
<1>. QED BY <1>1, <1>2, <1>3, <1>4, <1>5, <1>6, <1>7, <1>8, <1>9, Others DEF MoverSteps

\* Only add_conflict's write ends a mover that was at it.
LEMMA Writes ==
    ASSUME Moves, Next, NEW t \in Tier, mover[t].pc = "log write", mover'[t].pc = "idle"
    PROVE  AddWrite(t)
<1>1. CASE mover' = mover
  BY <1>1
<1>2. ASSUME NEW c \in Client, Accept(c) PROVE mover' = mover
  BY <1>2 DEF Accept, ServerSame, pass
<1>3. ProcessOneshot \/ ProcessPin \/ StatusRead \/ StatusWrite \/ Query \/ Reply => mover' = mover
  BY DEF ProcessOneshot, ProcessPin, StatusRead, StatusWrite, Query, Reply, ServerSame, pass
<1>4. Crawl \/ UpdateDb => mover' = mover
  BY DEF Crawl, UpdateDb
<1>5. ASSUME NEW u \in Tier, (\E f \in files : MoveFile(u, f)) \/ MoverSteps(u) PROVE AddWrite(t)
  <2>1. mover' = [mover EXCEPT ![u] = mover'[u]]
    BY <1>5 DEF Moves, MoverSteps, MoveFile, Record, ChangePath, AddRead, AddWrite, Step
  <2>2. u = t
    BY <2>1 DEF Moves
  <2>3. AddWrite(u)
    BY <1>5, <2>2 DEF MoverSteps, MoveFile, Record, ChangePath, AddRead, MoverAt
  <2>. QED BY <2>2, <2>3
<1>. QED BY <1>1, <1>2, <1>3, <1>4, <1>5, Others

\* Readers keep an entry whose files stand; writers write what they have read.
LEMMA EntryStays ==
    ASSUME Locked, Next, NEW l \in log, StillConflicted(l), lock # Free => l \in lock.list
    PROVE  l \in log' /\ (lock' # Free => l \in lock'.list)
<1>. USE Numbers
<1>1. CASE UNCHANGED <<log, lock>>
  BY <1>1
<1>2. ASSUME NEW who, Lock(who), log' = log PROVE l \in log' /\ (lock' # Free => l \in lock'.list)
  BY <1>2 DEF Lock, ReadConflicts
<1>3. CASE StatusWrite
  <2>1. lock.by = 0
    BY <1>3 DEF StatusWrite, Serving, Locked
  <2>2. lock # Free
    BY <2>1 DEF Free
  <2>3. l \in lock.list /\ lock.list \subseteq log' /\ lock' = Free
    BY <1>3, <2>2 DEF StatusWrite
  <2>. QED BY <2>3
<1>4. ASSUME NEW t \in Tier, AddWrite(t) PROVE l \in log' /\ (lock' # Free => l \in lock'.list)
  <2>1. lock.by = t
    BY <1>4 DEF AddWrite, MoverAt, Locked
  <2>2. lock # Free
    BY <2>1 DEF Free
  <2>3. l \in lock.list /\ lock.list \subseteq log' /\ lock' = Free
    BY <1>4, <2>2 DEF AddWrite
  <2>. QED BY <2>3
<1>5. ASSUME NEW c \in Client, Accept(c) PROVE UNCHANGED <<log, lock>>
  BY <1>5 DEF Accept, conflicts
<1>6. ProcessOneshot \/ ProcessPin \/ Query \/ Reply \/ Crawl \/ UpdateDb => UNCHANGED <<log, lock>>
  BY DEF ProcessOneshot, ProcessPin, Query, Reply, Crawl, UpdateDb, conflicts
<1>7. ASSUME NEW t \in Tier, (\E f \in files : MoveFile(t, f)) \/ Record(t) \/ ChangePath(t)
      PROVE  UNCHANGED <<log, lock>>
  BY <1>7 DEF MoveFile, Record, ChangePath, conflicts
<1>8. StatusRead => Lock(0) /\ log' = log
  BY DEF StatusRead
<1>9. ASSUME NEW t \in Tier, AddRead(t) PROVE Lock(t) /\ log' = log
  BY <1>9 DEF AddRead
<1>. QED BY <1>1, <1>2, <1>3, <1>4, <1>5, <1>6, <1>7, <1>8, <1>9, Others DEF MoverSteps

LEMMA ClashNext == LogInv /\ Next => \A c \in clashes' : Clash(c)'
<1>. SUFFICES ASSUME LogInv, Next, NEW c \in clashes' PROVE Clash(c)'
  OBVIOUS
<1>1. /\ \/ c \in clashes
         \/ \E t \in Tier : /\ MoverAt(t, "log write") /\ mover'[t].pc = "idle"
                            /\ c = [name |-> <<t, mover[t].f.at[2]>>,
                                    copy |-> <<t, <<mover[t].f.at[2][1], From(t)[1]>>>>]
      /\ At(c.name) /\ file'[c.name] = file[c.name] /\ At(c.copy) /\ file'[c.copy] = file[c.copy]
  BY DEF Next, KeepClashes
<1>2. At(c.name)' /\ At(c.copy)'
  BY <1>1 DEF At
<1>3. CASE c \in clashes
  <2>1. Clash(c)
    BY <1>3 DEF LogInv
  <2>2. StillConflicted(c.name)
    BY <2>1 DEF Clash, StillConflicted
  <2>3. c.name \in log' /\ (lock' # Free => c.name \in lock'.list)
    BY <2>1, <2>2, EntryStays DEF LogInv, Clash
  <2>. QED BY <1>2, <2>1, <2>3 DEF Clash
<1>4. ASSUME NEW t \in Tier, MoverAt(t, "log write"), mover'[t].pc = "idle",
             c = [name |-> <<t, mover[t].f.at[2]>>,
                  copy |-> <<t, <<mover[t].f.at[2][1], From(t)[1]>>>>]
      PROVE  Clash(c)'
  <2>1. mover[t].pc = "log write" /\ AddWrite(t)
    BY <1>4, Writes DEF LogInv, MoverAt
  <2>2. mover[t].f.name = mover[t].f.at[2] /\ mover[t].f.at \in Loc
    BY <2>1 DEF LogInv, Moves
  <2>3. c.name \in log' /\ lock' = Free
    BY <1>4, <2>1, <2>2 DEF AddWrite
  <2>4. From(t)[1] \in 0 .. NTiers
    BY <2>2, Numbers DEF From, Loc
  <2>5. c.copy = <<c.name[1], <<c.name[2][1], From(t)[1]>>>>
    BY <1>4
  <2>6. \E k \in 0 .. NTiers : c.copy = <<c.name[1], <<c.name[2][1], k>>>>
    BY <2>4, <2>5
  <2>. QED BY <1>2, <2>3, <2>6 DEF Clash
<1>. QED BY <1>1, <1>3, <1>4

LEMMA LogNext == LogInv /\ [Next]_vars => LogInv'
<1>. SUFFICES ASSUME LogInv, [Next]_vars PROVE LogInv'
  OBVIOUS
<1>1. CASE Next
  BY <1>1, TalkNext, MovesNext, LockedNext, ClashNext DEF LogInv
<1>2. CASE UNCHANGED vars
  <2>1. UNCHANGED <<server, client, files, mover, lock, log, clashes, file>>
    BY <1>2 DEF vars
  <2>2. Talk' /\ Moves' /\ Locked'
    BY <2>1 DEF LogInv, Talk, Moves, Locked
  <2>3. \A c \in clashes' : Clash(c)'
    BY <2>1 DEF LogInv, Clash, At
  <2>. QED BY <2>2, <2>3 DEF LogInv
<1>. QED BY <1>1, <1>2

\* The log names every conflict a pass has met for as long as both files stand where they
\* met, for any clients, names, tiers and requests: a reader drops only entries whose files
\* have gone, and nobody else reads or writes while add_conflict or a status command is
\* between its read and its write.
THEOREM LogComplete == Spec => []ConflictsListed
<1>1. LogInv => ConflictsListed
  BY DEF LogInv, Clash, ConflictsListed
<1>. QED BY <1>1, LogInit, LogNext, PTL DEF Spec
-----------------------------------------------------------------------------
(* The effect of commands *)

\* What the queue may hold: what changes something, files in the mount point and tiers that
\* exist.
Queued == {m \in Command : /\ m.op \in {"oneshot", "unpin"} \/ (m.op = "pin" /\ m.tier \in Tier)
                           /\ Foreign \notin ToSet(m.args)} \cup {OwnPass}
WorkerPC == {"idle", "crawl", "move", "update", "pin", "unpin"}

StoreTypes ==
    /\ file \in [Loc -> Loc \cup {Absent}] /\ db \in [Name -> Meta \cup {Absent}]
    /\ open = Absent \/ open \in [base : Base, meta : Meta]
    /\ pins = [b \in Base |-> pins[b]]
LogTypes == log \subseteq Loc /\ lock \in [by : Tier \cup {0, Absent}, list : SUBSET Loc]
QueueTypes ==
    /\ server.pc \in {"oneshot", "pin", "unpin"} =>
          server.cmd \in Command /\ server.cmd.op = server.pc
    /\ queue \in Seq(Queued)
WorkTypes ==
    /\ worker \in [pc : WorkerPC, cmd : Queued \cup {NoCmd}, i : Nat \ {0}, meta : Meta \cup {Absent}]
    /\ worker.cmd.args # <<>> => worker.i <= Len(worker.cmd.args)
    /\ worker.pc \in {"pin", "unpin"} => worker.cmd.op = worker.pc
PassTypes ==
    /\ \A f \in files : f.meta \in Meta /\ f.name \in Name
    /\ \A t \in Tier : mover[t].pc # "idle" => mover[t].f.meta \in Meta
Types == StoreTypes /\ LogTypes /\ QueueTypes /\ WorkTypes /\ PassTypes

\* The worker has moved the file for a pin and not stored it.
Storing(n) == Working("pin") /\ Arg = n /\ worker.meta # Absent /\ worker.meta.tier = Dest

\* The files of a pass are not pinned ones; movers run only in a pass.
Apart ==
    /\ \A t \in Tier : mover[t].pc # "idle" => worker.pc = "move"
    /\ worker.pc \in {"move", "update"} => \A b \in Base : pins[b] # Absent =>
          /\ \A f \in files : f.name # Of(b)
          /\ \A t \in Tier : mover[t].pc # "idle" => mover[t].f.name # Of(b)

\* What is stored, or about to be, and where the file is.
Held(b) == pins[b] # Absent =>
    /\ file[<<pins[b].tier, Of(b)>>] = pins[b].id /\ pins[b].tier \in Tier
    /\ LET m == [tier |-> pins[b].tier, pin |-> TRUE] IN
       IF Storing(Of(b)) THEN worker.meta = m /\ Dest = pins[b].tier ELSE db[Of(b)] = m

PinInv == Talk /\ Moves /\ Types /\ Apart /\ \A b \in Base : Held(b)
-----------------------------------------------------------------------------
LEMMA PinInit == Init => PinInv
<1>. SUFFICES ASSUME Init PROVE PinInv
  OBVIOUS
<1>1. Talk /\ Moves
  BY LogInit DEF LogInv
<1>2. StoreTypes
  <2>1. PICK e \in [Base -> Tier \cup {Absent}] :
            db = [n \in Name |-> IF n[2] = Plain /\ e[n[1]] # Absent
                                 THEN [tier |-> e[n[1]], pin |-> FALSE] ELSE Absent]
    BY DEF Init
  <2>2. ASSUME NEW n \in Name PROVE db[n] \in Meta \cup {Absent}
    BY <2>1 DEF Name, Meta
  <2>3. file \in [Loc -> Loc \cup {Absent}]
    BY DEF Init
  <2>. QED BY <2>1, <2>2, <2>3 DEF Init, StoreTypes
<1>3. LogTypes
  BY DEF Init, LogTypes, Free
<1>4. QueueTypes
  BY DEF Init, QueueTypes, NoServer
<1>5. WorkTypes
  BY DEF Init, WorkTypes, NoWork, NoCmd, WorkerPC
<1>6. PassTypes /\ Apart
  BY DEF Init, PassTypes, Apart, NoMove, NoWork
<1>7. \A b \in Base : Held(b)
  BY DEF Init, Held
<1>. QED BY <1>1, <1>2, <1>3, <1>4, <1>5, <1>6, <1>7 DEF PinInv, Types

LEMMA QueuedShape ==
    ASSUME NEW m \in Queued
    PROVE  /\ m.op \in {"oneshot", "pin", "unpin"} /\ (m.op = "pin" => m.tier \in Tier)
           /\ IF m.op = "oneshot" THEN m.args = <<>>
              ELSE m.args \in Args /\ Foreign \notin ToSet(m.args)
BY DEF Queued, Command, OwnPass, NoCmd

LEMMA ArgLength == ASSUME NEW a \in Args PROVE a # <<>> /\ Len(a) \in Nat \ {0}
<1>1. CASE \E n \in Base \cup {Foreign} : a = <<n>>
  BY <1>1
<1>2. CASE a \in Base \X (Base \cup {Foreign})
  <2>1. a = <<a[1], a[2]>>
    BY <1>2
  <2>. QED BY <2>1
<1>. QED BY <1>1, <1>2 DEF Args

LEMMA ArgBase ==
    ASSUME NEW a \in Args, Foreign \notin ToSet(a), NEW k \in 1 .. Len(a)
    PROVE  a[k] \in Base
<1>1. CASE \E n \in Base \cup {Foreign} : a = <<n>>
  BY <1>1 DEF ToSet
<1>2. CASE a \in Base \X (Base \cup {Foreign})
  <2>1. a = <<a[1], a[2]>> /\ a[1] \in Base /\ a[2] \in Base \cup {Foreign}
    BY <1>2
  <2>2. Len(a) = 2 /\ DOMAIN a = 1 .. 2
    BY <2>1
  <2>3. a[2] # Foreign
    BY <2>2 DEF ToSet
  <2>. QED BY <2>1, <2>2, <2>3
<1>. QED BY <1>1, <1>2 DEF Args

\* What the server pushes.
LEMMA Pushed ==
    ASSUME QueueTypes, server.pc \in {"oneshot", "pin", "unpin"},
           server.pc = "pin" => server.cmd.tier # NoTier,
           Foreign \notin ToSet(server.cmd.args)
    PROVE  Append(queue, server.cmd) \in Seq(Queued)
<1>1. server.cmd \in Queued
  BY DEF QueueTypes, Queued, Command
<1>. QED BY <1>1 DEF QueueTypes

LEMMA QueueNext == Talk /\ QueueTypes /\ Next => QueueTypes'
<1>. SUFFICES ASSUME Talk, QueueTypes, Next PROVE QueueTypes'
  OBVIOUS
<1>1. CASE server' = server /\ queue' \in Seq(Queued)
  BY <1>1 DEF QueueTypes
<1>2. \A c \in Client, m \in Command : ClientSend(c, m) => UNCHANGED <<server, queue>>
  BY DEF ClientSend
<1>3. ASSUME NEW c \in Client, Accept(c) PROVE QueueTypes'
  <2>1. /\ client[c].cmd \in Command /\ queue' = queue
        /\ server' = [pc |-> client[c].cmd.op, cmd |-> client[c].cmd, answer |-> "none"]
    BY <1>3 DEF Accept, Talk, Cmd, NoServer
  <2>. QED BY <2>1 DEF QueueTypes
<1>4. ASSUME server'.pc \notin {"oneshot", "pin", "unpin"}, queue' \in Seq(Queued) PROVE QueueTypes'
  BY <1>4 DEF QueueTypes
<1>5. ASSUME NEW a, Answer(a) PROVE server'.pc = "reply"
  BY <1>5 DEF Answer, Talk
<1>6. CASE ProcessOneshot \/ ProcessPin
  <2>1. \/ queue' = queue
        \/ queue' = Append(queue, server.cmd) /\ (server.pc = "pin" => server.cmd.tier # NoTier)
           /\ Foreign \notin ToSet(server.cmd.args)
    <3>1. CASE ProcessOneshot
      <4>1. server.pc = "oneshot" /\ (queue' = queue \/ queue' = Append(queue, server.cmd))
        BY <3>1 DEF ProcessOneshot, Push, Serving
      <4>2. server.cmd.args = <<>>
        BY <4>1 DEF QueueTypes, Command
      <4>. QED BY <4>1, <4>2 DEF ToSet
    <3>. DEFINE Bad == \/ server.pc = "pin" /\ server.cmd.tier = NoTier
                       \/ Foreign \in ToSet(server.cmd.args)
    <3>2. CASE ProcessPin /\ Bad
      BY <3>2 DEF ProcessPin, Serving
    <3>3. CASE ProcessPin /\ ~Bad
      <4>1. queue' = queue \/ queue' = Append(queue, server.cmd)
        BY <3>3 DEF ProcessPin, Push
      <4>. QED BY <3>3, <4>1
    <3>. QED BY <1>6, <3>1, <3>2, <3>3
  <2>2. server.pc \in {"oneshot", "pin", "unpin"} /\ \E a : Answer(a)
    BY <1>6 DEF ProcessOneshot, ProcessPin, Serving
  <2>3. queue' \in Seq(Queued)
    BY <2>1, <2>2, Pushed DEF QueueTypes
  <2>. QED BY <2>2, <2>3, <1>4, <1>5
<1>7. CASE StatusRead \/ StatusWrite \/ Query \/ Reply
  <2>1. queue' = queue /\ queue \in Seq(Queued)
    BY <1>7 DEF StatusRead, StatusWrite, Query, Reply, QueueTypes
  <2>2. server'.pc \in {"status write", "reply", "accept"}
    <3>1. CASE StatusRead
      BY <3>1 DEF StatusRead, Talk
    <3>2. CASE StatusWrite \/ Query
      BY <3>2, <1>5 DEF StatusWrite, Query
    <3>3. CASE Reply
      BY <3>3 DEF Reply, NoServer
    <3>. QED BY <1>7, <3>1, <3>2, <3>3
  <2>. QED BY <2>1, <2>2, <1>4
<1>8. CASE Worker
  <2>1. server' = server
    BY <1>8 DEF Worker, Pop, PinSkip, PinThere, PinLookup, PinFails, PinMove, PinUpdate,
                UnpinLookup, UnpinUpdate, StartPass, Join, Crawl, UpdateDb, MoveFile, Record,
                ChangePath, AddRead, AddWrite, WorkerSame, serving
  <2>2. queue' = queue \/ queue' = Append(queue, OwnPass) \/ (queue # <<>> /\ queue' = Tail(queue))
    BY <1>8 DEF Worker, Pop, PinSkip, PinThere, PinLookup, PinFails, PinMove, PinUpdate,
                UnpinLookup, UnpinUpdate, StartPass, Join, Crawl, UpdateDb, MoveFile, Record,
                ChangePath, AddRead, AddWrite, RequestPass, MoverSame
  <2>3. queue' \in Seq(Queued)
    <3>. OwnPass \in Queued
      BY DEF Queued
    <3>. HIDE DEF Queued
    <3>. QED BY <2>2 DEF QueueTypes
  <2>. QED BY <2>1, <2>3, <1>1
<1>9. Application => UNCHANGED <<server, queue>>
  BY DEF Application, OpenLookup, OpenUpdate, Unlink, AppSame, serving
<1>. QED BY <1>1, <1>2, <1>3, <1>6, <1>7, <1>8, <1>9 DEF Next, Server, QueueTypes

LEMMA LogTypesNext == Moves /\ LogTypes /\ Next => LogTypes'
<1>. SUFFICES ASSUME Moves, LogTypes, Next PROVE LogTypes'
  OBVIOUS
<1>1. CASE UNCHANGED <<log, lock>>
  BY <1>1 DEF LogTypes
<1>2. ASSUME NEW who \in Tier \cup {0}, Lock(who), log' = log PROVE LogTypes'
  BY <1>2 DEF LogTypes, Lock, ReadConflicts
<1>3. CASE StatusWrite
  BY <1>3 DEF StatusWrite, LogTypes, Free
<1>4. ASSUME NEW t \in Tier, AddWrite(t) PROVE LogTypes'
  <2>1. mover[t].f.at \in Loc /\ mover[t].f.name = mover[t].f.at[2]
    BY <1>4 DEF Moves, AddWrite, MoverAt
  <2>2. <<t, mover[t].f.name>> \in Loc
    BY <2>1 DEF Loc
  <2>. QED BY <1>4, <2>2 DEF AddWrite, LogTypes, Free
<1>5. ASSUME NEW c \in Client, Accept(c) PROVE UNCHANGED <<log, lock>>
  BY <1>5 DEF Accept, conflicts
<1>6. ProcessOneshot \/ ProcessPin \/ Query \/ Reply \/ Crawl \/ UpdateDb => UNCHANGED <<log, lock>>
  BY DEF ProcessOneshot, ProcessPin, Query, Reply, Crawl, UpdateDb, conflicts
<1>7. ASSUME NEW t \in Tier, (\E f \in files : MoveFile(t, f)) \/ Record(t) \/ ChangePath(t)
      PROVE  UNCHANGED <<log, lock>>
  BY <1>7 DEF MoveFile, Record, ChangePath, conflicts
<1>8. StatusRead => Lock(0) /\ log' = log
  BY DEF StatusRead
<1>9. ASSUME NEW t \in Tier, AddRead(t) PROVE Lock(t) /\ log' = log
  BY <1>9 DEF AddRead
<1>. QED BY <1>1, <1>2, <1>3, <1>4, <1>5, <1>6, <1>7, <1>8, <1>9, Others DEF MoverSteps

\* The worker: what begins, continues and ends a command.
LEMMA WorkBegins ==
    ASSUME NEW m \in Queued, NEW p \in WorkerPC, p \in {"pin", "unpin"} => m.op = p,
           worker' = [pc |-> p, cmd |-> m, i |-> 1, meta |-> Absent]
    PROVE  WorkTypes'
<1>2. m.args # <<>> => 1 <= Len(m.args)
  BY QueuedShape, ArgLength
<1>3. worker' \in [pc : WorkerPC, cmd : Queued \cup {NoCmd}, i : Nat \ {0}, meta : Meta \cup {Absent}]
  <2>. HIDE DEF Queued
  <2>. QED OBVIOUS
<1>4. worker'.cmd = m /\ worker'.pc = p /\ worker'.i = 1
  OBVIOUS
<1>. QED BY <1>2, <1>3, <1>4 DEF WorkTypes

LEMMA WorkIdle ==
    ASSUME NEW p \in WorkerPC \ {"pin", "unpin"},
           worker' = [pc |-> p, cmd |-> NoCmd, i |-> 1, meta |-> Absent]
    PROVE  WorkTypes'
<1>2. worker' \in [pc : WorkerPC, cmd : Queued \cup {NoCmd}, i : Nat \ {0}, meta : Meta \cup {Absent}]
  OBVIOUS
<1>3. worker'.cmd.args = <<>> /\ worker'.pc = p
  BY DEF NoCmd
<1>. QED BY <1>2, <1>3 DEF WorkTypes

LEMMA WorkArg == ASSUME WorkTypes, worker.pc \in {"pin", "unpin"}, NextArg PROVE WorkTypes'
<1>1. CASE worker.i < Len(worker.cmd.args)
  <2>1. worker' = [pc |-> worker.cmd.op, cmd |-> worker.cmd, i |-> worker.i + 1, meta |-> Absent]
    BY <1>1 DEF NextArg, NoWork
  <2>2. worker.cmd \in Queued \cup {NoCmd} /\ worker.i \in Nat \ {0} /\ worker.cmd.op = worker.pc
    BY DEF WorkTypes
  <2>3. worker.cmd.args = <<>> \/ worker.cmd.args \in Args
    BY <2>2, QueuedShape DEF NoCmd
  <2>4. Len(worker.cmd.args) \in Nat
    BY <2>3, ArgLength
  <2>. QED BY <2>4, <1>1, <2>1, <2>2, <2>3 DEF WorkTypes, WorkerPC
<1>2. CASE ~(worker.i < Len(worker.cmd.args))
  <2>1. worker' = [pc |-> "idle", cmd |-> NoCmd, i |-> 1, meta |-> Absent]
    BY <1>2 DEF NextArg, Finish, NoWork
  <2>. QED BY <2>1, WorkIdle DEF WorkerPC
<1>. QED BY <1>1, <1>2

\* The file a pin or an unpin is at.
LEMMA ArgName ==
    ASSUME WorkTypes, worker.pc \in {"pin", "unpin"}
    PROVE  /\ Arg \in Name /\ Arg[1] \in Base /\ Arg = Of(Arg[1])
           /\ worker.pc = "pin" => Dest \in Tier
<1>1. worker.cmd \in Queued \cup {NoCmd} /\ worker.cmd.op = worker.pc /\ worker.i \in Nat \ {0}
  BY DEF WorkTypes
<1>2. worker.cmd \in Queued
  BY <1>1 DEF NoCmd
<1>3. worker.cmd.args \in Args /\ Foreign \notin ToSet(worker.cmd.args)
      /\ (worker.pc = "pin" => Dest \in Tier)
  BY <1>1, <1>2, QueuedShape DEF Dest
<1>4. worker.i \in 1 .. Len(worker.cmd.args)
  BY <1>1, <1>3, ArgLength DEF WorkTypes
<1>5. worker.cmd.args[worker.i] \in Base
  BY <1>3, <1>4, ArgBase
<1>. QED BY <1>3, <1>5, Numbers DEF Arg, Of, Name, Plain

LEMMA WorkNext == StoreTypes /\ QueueTypes /\ WorkTypes /\ Next => WorkTypes'
<1>. SUFFICES ASSUME StoreTypes, QueueTypes, WorkTypes, Next PROVE WorkTypes'
  OBVIOUS
<1>1. CASE worker' = worker
  BY <1>1 DEF WorkTypes
<1>2. CASE Pop
  <2>. DEFINE m == Head(queue)
  <2>1. /\ m \in Queued
        /\ worker' = [NoWork EXCEPT !.cmd = m, !.pc = IF m.op = "oneshot" THEN "crawl" ELSE m.op]
    <3>. HIDE DEF Queued
    <3>. QED BY <1>2 DEF Pop, QueueTypes
  <2>2. m.op \in {"oneshot", "pin", "unpin"}
    BY <2>1, QueuedShape
  <2>. DEFINE p == IF m.op = "oneshot" THEN "crawl" ELSE m.op
  <2>3. p \in WorkerPC /\ (p \in {"pin", "unpin"} => m.op = p)
    BY <2>2 DEF WorkerPC
  <2>4. worker' = [pc |-> p, cmd |-> m, i |-> 1, meta |-> Absent]
    BY <2>1 DEF NoWork
  <2>. HIDE DEF m, p
  <2>. QED BY <2>1, <2>3, <2>4, WorkBegins
<1>3. CASE PinSkip \/ PinFails \/ PinUpdate \/ UnpinUpdate
  <2>1. NextArg /\ worker.pc \in {"pin", "unpin"}
    BY <1>3 DEF PinSkip, PinFails, PinUpdate, UnpinUpdate, Working
  <2>. QED BY <2>1, WorkArg
<1>4. ASSUME NEW p \in {"idle", "crawl"}, worker' = [NoWork EXCEPT !.pc = p] PROVE WorkTypes'
  <2>1. worker' = [pc |-> p, cmd |-> NoCmd, i |-> 1, meta |-> Absent]
    BY <1>4 DEF NoWork
  <2>. QED BY <2>1, WorkIdle DEF WorkerPC
<1>5. ASSUME NEW m \in Meta, worker' = [worker EXCEPT !.meta = m] PROVE WorkTypes'
  <2>. HIDE DEF Queued, Meta
  <2>. QED BY <1>5 DEF WorkTypes
<1>6. CASE PinThere \/ UpdateDb \/ StartPass
  <2>1. worker' = [NoWork EXCEPT !.pc = "idle"] \/ worker' = [NoWork EXCEPT !.pc = "crawl"]
    BY <1>6 DEF PinThere, UpdateDb, StartPass, Finish, NoWork
  <2>. QED BY <2>1, <1>4
<1>7. CASE PinLookup
  <2>1. db[Arg] \in Meta /\ worker' = [worker EXCEPT !.meta = db[Arg]]
    <3>1. Arg \in Name
      BY <1>7, ArgName DEF PinLookup, Working
    <3>2. db[Arg] \in Meta
      BY <1>7, <3>1 DEF PinLookup, Sees, StoreTypes
    <3>. QED BY <1>7, <3>2 DEF PinLookup
  <2>. QED BY <2>1, <1>5
<1>8. CASE PinMove
  <2>1. [tier |-> Dest, pin |-> TRUE] \in Meta
    BY <1>8, ArgName DEF PinMove, Working, Meta
  <2>2. worker' = [worker EXCEPT !.meta = [tier |-> Dest, pin |-> TRUE]]
    BY <1>8 DEF PinMove
  <2>. QED BY <2>1, <2>2, <1>5
<1>9. CASE UnpinLookup
  <2>1. CASE db[Arg] = Absent
    BY <1>9, <2>1, WorkArg DEF UnpinLookup, Working
  <2>2. CASE db[Arg] # Absent
    <3>1. Arg \in Name
      BY <1>9, ArgName DEF UnpinLookup, Working
    <3>2. [db[Arg] EXCEPT !.pin = FALSE] \in Meta
      BY <3>1, <2>2 DEF StoreTypes, Meta
    <3>3. worker' = [worker EXCEPT !.meta = [db[Arg] EXCEPT !.pin = FALSE]]
      BY <1>9, <2>2 DEF UnpinLookup
    <3>. QED BY <3>2, <3>3, <1>5
  <2>. QED BY <2>1, <2>2
<1>10. ASSUME NEW p \in {"move", "update"}, worker' = [worker EXCEPT !.pc = p] PROVE WorkTypes'
  <2>. HIDE DEF Queued, Meta
  <2>. QED BY <1>10 DEF WorkTypes, WorkerPC
<1>11. CASE Crawl \/ Join
  BY <1>10, <1>11 DEF Crawl, Join
<1>12. ASSUME NEW t \in Tier, (\E f \in files : MoveFile(t, f)) \/ MoverSteps(t) PROVE worker' = worker
  BY <1>12 DEF MoveFile, MoverSteps, Record, ChangePath, AddRead, AddWrite, MoverSame
<1>13. Server \/ Application \/ (\E c \in Client, m \in Command : ClientSend(c, m)) => worker' = worker
  BY DEF Server, Accept, ProcessOneshot, ProcessPin, StatusRead, StatusWrite, Query, Reply,
         ServerSame, ClientSend, Application, OpenLookup, OpenUpdate, Unlink, AppSame
<1>. QED BY <1>1, <1>2, <1>3, <1>6, <1>7, <1>8, <1>9, <1>11, <1>12, <1>13 DEF Next, Worker, MoverSteps

LEMMA PassNext == Moves /\ StoreTypes /\ PassTypes /\ Next => PassTypes'
<1>. SUFFICES ASSUME Moves, StoreTypes, PassTypes, Next PROVE PassTypes'
  OBVIOUS
<1>1. CASE UNCHANGED <<files, mover>>
  BY <1>1 DEF PassTypes
<1>2. Server => UNCHANGED <<files, mover>>
  BY DEF Server, Accept, ProcessOneshot, ProcessPin, StatusRead, StatusWrite, Query, Reply,
         ServerSame, pass
<1>3. CASE Crawl
  <2>1. ASSUME NEW f \in files' PROVE f.meta \in Meta /\ f.name \in Name
    <3>1. PICK l \in Loc :
              f = [at |-> l, name |-> l[2], moved |-> FALSE,
                   meta |-> IF db[l[2]] = Absent THEN [tier |-> l[1], pin |-> FALSE] ELSE db[l[2]]]
      BY <1>3, <2>1 DEF Crawl
    <3>2. l[1] \in Tier /\ l[2] \in Name
      BY DEF Loc
    <3>3. db[l[2]] \in Meta \cup {Absent} /\ [tier |-> l[1], pin |-> FALSE] \in Meta
      BY <3>2 DEF StoreTypes, Meta
    <3>. HIDE DEF Meta
    <3>. QED BY <3>1, <3>2, <3>3
  <2>. QED BY <1>3, <2>1 DEF Crawl, PassTypes
<1>4. UpdateDb => files' = {} /\ mover' = mover
  BY DEF UpdateDb
<1>5. ASSUME NEW t \in Tier, NEW f \in files, MoveFile(t, f) PROVE PassTypes'
  <2>. DEFINE g == [f EXCEPT !.moved = TRUE]
  <2>1. /\ files' = (files \ {f}) \cup {g} /\ mover' = [u \in Tier |-> mover'[u]]
        /\ \A u \in Tier \ {t} : mover'[u] = mover[u]
        /\ mover'[t] = [pc |-> "record", f |-> g, clash |-> At(<<t, f.name>>)]
    BY <1>5 DEF MoveFile, Moves
  <2>2. g.meta \in Meta /\ g.name \in Name
    BY DEF PassTypes, Moves, IsFile
  <2>. HIDE DEF g
  <2>. QED BY <2>1, <2>2 DEF PassTypes
<1>6. ASSUME NEW t \in Tier, Record(t) \/ ChangePath(t) PROVE PassTypes'
  <2>. DEFINE f == mover[t].f
  <2>1. /\ IsFile(f) /\ f.at \in Loc /\ f.name = f.at[2] /\ f.meta \in Meta
        /\ mover' = [u \in Tier |-> mover'[u]] /\ \A u \in Tier \ {t} : mover'[u] = mover[u]
    BY <1>6 DEF Moves, PassTypes, Record, ChangePath, MoverAt
  <2>2. f.name \in Name /\ CopyName(t) \in Name
    BY <2>1 DEF Loc, Name, CopyName, From, Plain, Tier
  <2>3. CASE Record(t)
    <3>. DEFINE g == [f EXCEPT !.meta.tier = t]
    <3>1. g.meta \in Meta /\ g.name \in Name
      BY <2>1, <2>2 DEF IsFile, Meta
    <3>2. files' = (files \ {f}) \cup {g}
      BY <2>3 DEF Record
    <3>3. mover'[t] = NoMove \/ mover'[t] = [mover[t] EXCEPT !.pc = "change", !.f = g]
      BY <2>3 DEF Record, Moves
    <3>. HIDE DEF g
    <3>4. mover'[t].pc # "idle" => mover'[t].f = g
      <4>1. IsMove(mover[t])
        BY DEF Moves
      <4>2. CASE mover'[t] = [mover[t] EXCEPT !.pc = "change", !.f = g]
        BY <4>1, <4>2 DEF IsMove
      <4>. QED BY <3>3, <4>2, MoveEnd
    <3>. QED BY <2>1, <3>1, <3>2, <3>4 DEF PassTypes
  <2>4. CASE ChangePath(t)
    <3>. DEFINE g == [f EXCEPT !.name = CopyName(t)]
    <3>1. g.meta \in Meta /\ g.name \in Name
      BY <2>1, <2>2 DEF IsFile
    <3>2. files' = (files \ {f}) \cup {g}
      BY <2>4 DEF ChangePath
    <3>3. mover'[t] = [mover[t] EXCEPT !.pc = "log"]
      BY <2>4 DEF ChangePath, Moves
    <3>. HIDE DEF g
    <3>4. mover'[t].f = f
      BY <3>3, MoveStep DEF Moves
    <3>. QED BY <2>1, <3>1, <3>2, <3>4 DEF PassTypes
  <2>. QED BY <1>6, <2>3, <2>4
<1>7. ASSUME NEW t \in Tier, AddRead(t) \/ AddWrite(t) PROVE PassTypes'
  <2>1. /\ files' = files /\ mover' = [u \in Tier |-> mover'[u]]
        /\ \A u \in Tier \ {t} : mover'[u] = mover[u]
        /\ mover[t].pc # "idle"
        /\ mover'[t] = NoMove \/ mover'[t] = [mover[t] EXCEPT !.pc = "log write"]
    BY <1>7 DEF AddRead, AddWrite, Step, Moves, MoverAt
  <2>2. mover'[t].pc # "idle" => mover'[t].f = mover[t].f
    <3>1. IsMove(mover[t])
      BY DEF Moves
    <3>2. CASE mover'[t] = [mover[t] EXCEPT !.pc = "log write"]
      BY <3>1, <3>2 DEF IsMove
    <3>. QED BY <2>1, <3>2, MoveEnd
  <2>. QED BY <2>1, <2>2 DEF PassTypes
<1>8. UpdateDb => PassTypes'
  BY <1>4 DEF PassTypes
<1>. QED BY <1>1, <1>2, <1>3, <1>5, <1>6, <1>7, <1>8, Others DEF Server, MoverSteps

LEMMA StoreNext == Moves /\ Types /\ Next => StoreTypes'
<1>. SUFFICES ASSUME Moves, Types, Next PROVE StoreTypes'
  OBVIOUS
<1>. USE DEF Types
<1>1. CASE UNCHANGED <<store, open, pins>>
  BY <1>1 DEF StoreTypes, store
<1>2. Server \/ (\E c \in Client, m \in Command : ClientSend(c, m)) => UNCHANGED <<store, open, pins>>
  BY DEF Server, Accept, ProcessOneshot, ProcessPin, StatusRead, StatusWrite, Query, Reply,
         ServerSame, apps, ClientSend
<1>3. Pop \/ PinSkip \/ PinLookup \/ PinFails \/ UnpinLookup \/ StartPass \/ Crawl \/ Join
      => UNCHANGED <<store, open, pins>>
  BY DEF Pop, PinSkip, PinLookup, PinFails, UnpinLookup, StartPass, Crawl, Join, WorkerSame, apps
\* What a move makes of the files.
<1>4. ASSUME NEW l \in Loc, NEW t \in Tier, NEW k \in 0 .. NTiers
      PROVE  Moved(l, t, k) \in [Loc -> Loc \cup {Absent}]
  <2>1. <<t, <<l[2][1], k>>>> \in Loc /\ <<t, l[2]>> \in Loc
    BY DEF Loc, Name, Plain, Tier
  <2>. QED BY <2>1 DEF Moved, StoreTypes
\* One entry is written.
<1>5. ASSUME NEW n \in Name, NEW m \in Meta \cup {Absent}, NEW D, D = [db EXCEPT ![n] = m]
      PROVE  D \in [Name -> Meta \cup {Absent}]
  BY <1>5 DEF StoreTypes
<1>6. CASE PinThere
  <2>1. Arg \in Name
    BY <1>6, ArgName DEF PinThere, Working
  <2>2. [db[Arg] EXCEPT !.pin = TRUE] \in Meta
    BY <1>6, <2>1 DEF PinThere, StoreTypes, Meta
  <2>3. db' = [db EXCEPT ![Arg] = [db[Arg] EXCEPT !.pin = TRUE]]
    BY <1>6 DEF PinThere
  <2>4. db' \in [Name -> Meta \cup {Absent}]
    BY <2>1, <2>2, <2>3, <1>5
  <2>. QED BY <1>6, <2>4 DEF PinThere, StoreTypes, WorkerSame, apps
<1>7. CASE PinMove
  <2>1. worker.meta \in Meta /\ Arg \in Name /\ Dest \in Tier
    BY <1>7, ArgName DEF PinMove, Working, WorkTypes
  <2>2. <<worker.meta.tier, Arg>> \in Loc
    BY <2>1 DEF Meta, Loc
  <2>3. file' = Moved(<<worker.meta.tier, Arg>>, Dest, 0)
    BY <1>7 DEF PinMove
  <2>4. file' \in [Loc -> Loc \cup {Absent}]
    BY <2>1, <2>2, <2>3, <1>4, Numbers
  <2>5. db' = db /\ open' = open /\ pins' = [b \in Base |-> pins'[b]]
    BY <1>7 DEF PinMove, StoreTypes, WorkerSame, apps
  <2>. QED BY <2>4, <2>5 DEF StoreTypes
<1>8. CASE PinUpdate \/ UnpinUpdate
  <2>1. worker.meta \in Meta /\ Arg \in Name /\ db' = [db EXCEPT ![Arg] = worker.meta]
    BY <1>8, ArgName DEF PinUpdate, UnpinUpdate, Working, WorkTypes
  <2>2. db' \in [Name -> Meta \cup {Absent}]
    BY <2>1, <1>5
  <2>. QED BY <1>8, <2>2 DEF PinUpdate, UnpinUpdate, StoreTypes, WorkerSame, apps
<1>9. CASE UpdateDb
  <2>1. PICK last \in [{f.name : f \in files} -> files] :
            db' = [n \in Name |-> IF n \in DOMAIN last THEN last[n].meta ELSE db[n]]
    BY <1>9 DEF UpdateDb
  <2>2. \A n \in DOMAIN last : last[n].meta \in Meta
    BY DEF PassTypes
  <2>3. db' \in [Name -> Meta \cup {Absent}]
    <3>. HIDE DEF Meta
    <3>. QED BY <2>1, <2>2 DEF StoreTypes
  <2>. QED BY <1>9, <2>3 DEF UpdateDb, StoreTypes, WorkerSame, apps
<1>10. ASSUME NEW t \in Tier, NEW f \in files, MoveFile(t, f) PROVE StoreTypes'
  <2>1. f.at \in Loc /\ f.at[1] \in 0 .. NTiers
    BY Numbers DEF Moves, Loc
  <2>2. file' = Moved(f.at, t, f.at[1])
    BY <1>10 DEF MoveFile
  <2>3. file' \in [Loc -> Loc \cup {Absent}]
    BY <2>1, <2>2, <1>4
  <2>. QED BY <1>10, <2>3 DEF MoveFile, StoreTypes, WorkerSame, apps
<1>11. ASSUME NEW t \in Tier, Record(t) \/ ChangePath(t) PROVE StoreTypes'
  <2>1. mover[t].f.at \in Loc /\ mover[t].f.name = mover[t].f.at[2] /\ mover[t].f.meta \in Meta
    BY <1>11 DEF Moves, PassTypes, Record, ChangePath, MoverAt
  <2>2. mover[t].f.name \in Name /\ CopyName(t) \in Name /\ [mover[t].f.meta EXCEPT !.tier = t] \in Meta
    BY <2>1 DEF Loc, Name, CopyName, From, Plain, Tier, Meta
  <2>3. \/ db' = [db EXCEPT ![mover[t].f.name] = [mover[t].f.meta EXCEPT !.tier = t]]
        \/ db' = [db EXCEPT ![mover[t].f.name] = Absent, ![CopyName(t)] = mover[t].f.meta]
    BY <1>11 DEF Record, ChangePath
  <2>4. db' \in [Name -> Meta \cup {Absent}]
    <3>. HIDE DEF Meta
    <3>. QED BY <2>1, <2>2, <2>3 DEF StoreTypes
  <2>. QED BY <1>11, <2>4 DEF Record, ChangePath, StoreTypes, MoverSame, WorkerSame, apps
<1>12. \A t \in Tier : AddRead(t) \/ AddWrite(t) => UNCHANGED <<store, open, pins>>
  BY DEF AddRead, AddWrite, MoverSame, WorkerSame, apps
<1>13. ASSUME NEW b \in Base, OpenLookup(b) PROVE StoreTypes'
  <2>1. Of(b) \in Name
    BY Numbers DEF Of, Name, Plain, Tier
  <2>2. db[Of(b)] \in Meta
    BY <1>13, <2>1 DEF OpenLookup, Sees, StoreTypes
  <2>3. open' \in [base : Base, meta : Meta]
    BY <1>13, <2>2 DEF OpenLookup
  <2>. QED BY <1>13, <2>3 DEF OpenLookup, StoreTypes, store
<1>14. CASE OpenUpdate
  <2>1. open.base \in Base /\ open.meta \in Meta
    BY <1>14 DEF OpenUpdate, StoreTypes
  <2>2. Of(open.base) \in Name
    BY <2>1, Numbers DEF Of, Name, Plain, Tier
  <2>3. db' \in [Name -> Meta \cup {Absent}]
    BY <1>14, <2>1, <2>2, <1>5 DEF OpenUpdate
  <2>. QED BY <1>14, <2>3 DEF OpenUpdate, StoreTypes
<1>15. ASSUME NEW n \in Name, Unlink(n) PROVE StoreTypes'
  BY <1>15 DEF Unlink, StoreTypes
<1>. QED BY <1>1, <1>2, <1>3, <1>6, <1>7, <1>8, <1>9, <1>10, <1>11, <1>12, <1>13, <1>14, <1>15
         DEF Next, Worker, Application

LEMMA CopyIsNotPlain ==
    ASSUME Moves, NEW t \in Tier, mover[t].pc # "idle", NEW b \in Base
    PROVE  CopyName(t) # Of(b)
<1>1. From(t)[1] \in Tier
  BY DEF Moves, From, Loc
<1>. QED BY <1>1, Numbers DEF CopyName, Of, Plain, Tier

LEMMA ApartNext == PinInv /\ Next => Apart'
<1>. SUFFICES ASSUME PinInv, Next PROVE Apart'
  OBVIOUS
<1>. USE DEF PinInv
<1>1. CASE UNCHANGED <<files, mover>> /\ worker'.pc = worker.pc
           /\ \A b \in Base : pins'[b] = pins[b] \/ pins'[b] = Absent
  BY <1>1 DEF Apart
<1>2. ASSUME mover' = mover, worker.pc # "move", worker'.pc \notin {"move", "update"} PROVE Apart'
  BY <1>2 DEF Apart
<1>3. Server \/ (\E c \in Client, m \in Command : ClientSend(c, m))
      => UNCHANGED <<files, mover, worker, pins>>
  BY DEF Server, Accept, ProcessOneshot, ProcessPin, StatusRead, StatusWrite, Query, Reply,
         ServerSame, pass, ClientSend
<1>4. CASE Application
  <2>1. UNCHANGED <<files, mover, worker>>
    BY <1>4 DEF Application, OpenLookup, OpenUpdate, Unlink, AppSame, pass
  <2>2. \A b \in Base : pins'[b] = pins[b] \/ pins'[b] = Absent
    BY <1>4 DEF Application, OpenLookup, OpenUpdate, Unlink, Types, StoreTypes
  <2>. QED BY <1>1, <2>1, <2>2
<1>5. CASE Pop \/ PinSkip \/ PinThere \/ PinLookup \/ PinFails \/ PinMove \/ PinUpdate
           \/ UnpinLookup \/ UnpinUpdate \/ StartPass
  <2>1. mover' = mover
    BY <1>5 DEF Pop, PinSkip, PinThere, PinLookup, PinFails, PinMove, PinUpdate, UnpinLookup,
                UnpinUpdate, StartPass, pass
  <2>2. worker.pc \in {"idle", "pin", "unpin"}
    BY <1>5 DEF Pop, PinSkip, PinThere, PinLookup, PinFails, PinMove, PinUpdate, UnpinLookup,
                UnpinUpdate, StartPass, Working
  <2>3. worker'.pc \notin {"move", "update"}
    <3>1. ASSUME NextArg, worker.pc \in {"pin", "unpin"} PROVE worker'.pc \notin {"move", "update"}
      <4>1. worker.cmd.op = worker.pc
        BY <3>1 DEF Types, WorkTypes
      <4>2. \/ worker' = [pc |-> worker.cmd.op, cmd |-> worker.cmd, i |-> worker.i + 1, meta |-> Absent]
            \/ worker' = [pc |-> "idle", cmd |-> NoCmd, i |-> 1, meta |-> Absent]
        BY <3>1 DEF NextArg, Finish, NoWork
      <4>3. worker'.pc = worker.cmd.op \/ worker'.pc = "idle"
        BY <4>2
      <4>. QED BY <3>1, <4>1, <4>3
    <3>2. CASE PinSkip \/ PinFails \/ PinUpdate \/ UnpinUpdate
      BY <3>1, <3>2 DEF PinSkip, PinFails, PinUpdate, UnpinUpdate, Working
    <3>3. CASE PinThere \/ StartPass
      BY <3>3 DEF PinThere, StartPass, Finish, NoWork
    <3>4. CASE PinLookup \/ PinMove
      BY <2>2, <3>4 DEF PinLookup, PinMove, Types, WorkTypes
    <3>5. CASE UnpinLookup
      <4>1. CASE NextArg
        BY <3>1, <3>5, <4>1 DEF UnpinLookup, Working
      <4>2. CASE ~NextArg
        <5>1. worker' = [worker EXCEPT !.meta = [db[Arg] EXCEPT !.pin = FALSE]]
          BY <3>5, <4>2 DEF UnpinLookup
        <5>. QED BY <2>2, <5>1 DEF Types, WorkTypes
      <4>. QED BY <4>1, <4>2
    <3>6. CASE Pop
      <4>1. Head(queue) \in Queued
        <5>. HIDE DEF Queued
        <5>. QED BY <3>6 DEF Pop, Types, QueueTypes
      <4>2. Head(queue).op \in {"oneshot", "pin", "unpin"}
        BY <4>1, QueuedShape
      <4>. QED BY <3>6, <4>2 DEF Pop, NoWork
    <3>. QED BY <1>5, <3>2, <3>3, <3>4, <3>5, <3>6
  <2>. QED BY <1>2, <2>1, <2>2, <2>3
<1>6. CASE Crawl
  <2>1. worker.pc = "crawl" /\ mover' = mover /\ pins' = pins
    BY <1>6 DEF Crawl, Working
  <2>2. ASSUME NEW b \in Base, pins[b] # Absent, NEW f \in files' PROVE f.name # Of(b)
    <3>1. db[Of(b)] = [tier |-> pins[b].tier, pin |-> TRUE] /\ pins[b].tier \in Tier
      BY <2>1, <2>2 DEF Held, Storing, Working
    <3>2. db[Of(b)] # Absent /\ db[Of(b)].pin
      <4>1. db[Of(b)] \in Meta
        BY <3>1 DEF Meta
      <4>2. Absent \notin Meta
        BY CommandAssumption
      <4>3. db[Of(b)] # Absent
        BY <4>1, <4>2
      <4>4. db[Of(b)].pin
        BY <3>1
      <4>. QED BY <4>3, <4>4
    <3>3. PICK l \in Loc : f.name = l[2] /\ (db[l[2]] = Absent \/ ~db[l[2]].pin)
      BY <1>6, <2>2 DEF Crawl
    <3>. QED BY <3>2, <3>3
  <2>3. worker'.pc = "move"
    BY <1>6 DEF Crawl, Types, WorkTypes
  <2>. QED BY <2>1, <2>2, <2>3 DEF Apart
<1>7. CASE Join \/ UpdateDb
  <2>1. /\ mover' = mover /\ pins' = pins /\ \A t \in Tier : mover[t].pc = "idle"
        /\ (files' = files /\ worker.pc = "move") \/ files' = {}
    BY <1>7 DEF Join, UpdateDb, Apart, Working, MoverAt, pass
  <2>. QED BY <2>1 DEF Apart
<1>8. ASSUME NEW t \in Tier, (\E f \in files : MoveFile(t, f)) \/ MoverSteps(t) PROVE Apart'
  <2>1. worker' = worker /\ pins' = pins /\ worker.pc = "move"
    BY <1>8 DEF MoveFile, MoverSteps, Record, ChangePath, AddRead, AddWrite, MoverSame, Working,
                MoverAt, Apart
  <2>2. \A u \in Tier \ {t} : mover'[u] = mover[u]
    <3>1. mover' = [mover EXCEPT ![t] = mover'[t]]
      BY <1>8 DEF Moves, MoveFile, MoverSteps, Record, ChangePath, AddRead, AddWrite, Step
    <3>. QED BY <3>1 DEF Moves
  <2>. DEFINE Away(x) == \A b \in Base : pins[b] # Absent => x.name # Of(b)
  <2>3. (\A f \in files : Away(f)) /\ \A u \in Tier : mover[u].pc # "idle" => Away(mover[u].f)
    BY <2>1 DEF Apart
  <2>4. ASSUME \A f \in files' : f \in files \/ Away(f), mover'[t].pc # "idle" => Away(mover'[t].f)
        PROVE  Apart'
    <3>1. \A u \in Tier : mover'[u].pc # "idle" => Away(mover'[u].f)
      BY <2>2, <2>3, <2>4
    <3>2. \A f \in files' : Away(f)
      BY <2>3, <2>4
    <3>. QED BY <2>1, <3>1, <3>2 DEF Apart
  <2>5. ASSUME NEW f \in files, MoveFile(t, f) PROVE Apart'
    <3>. DEFINE g == [f EXCEPT !.moved = TRUE]
    <3>1. g.name = f.name
      BY DEF Moves, IsFile
    <3>2. /\ files' = (files \ {f}) \cup {g}
          /\ mover'[t] = [pc |-> "record", f |-> g, clash |-> At(<<t, f.name>>)]
      BY <2>5 DEF MoveFile, Moves
    <3>3. Away(g)
      BY <2>3, <3>1
    <3>4. mover'[t].f = g
      BY <3>2
    <3>. HIDE DEF g, Away
    <3>. QED BY <3>2, <3>3, <3>4, <2>4
  <2>6. CASE Record(t)
    <3>. DEFINE g == [mover[t].f EXCEPT !.meta.tier = t]
    <3>1. mover[t].pc # "idle" /\ IsFile(mover[t].f) /\ IsMove(mover[t])
      BY <2>6 DEF Record, MoverAt, Moves
    <3>2. g.name = mover[t].f.name
      BY <3>1 DEF IsFile
    <3>3. Away(g)
      BY <2>3, <3>1, <3>2
    <3>4. files' = (files \ {mover[t].f}) \cup {g}
      BY <2>6 DEF Record
    <3>5. mover'[t] = NoMove \/ mover'[t] = [mover[t] EXCEPT !.pc = "change", !.f = g]
      BY <2>6 DEF Record, Moves
    <3>. HIDE DEF g, Away
    <3>6. mover'[t].pc # "idle" => mover'[t].f = g
      <4>1. CASE mover'[t] = [mover[t] EXCEPT !.pc = "change", !.f = g]
        BY <3>1, <4>1 DEF IsMove
      <4>. QED BY <3>5, <4>1, MoveEnd
    <3>. QED BY <3>3, <3>4, <3>6, <2>4
  <2>7. CASE ChangePath(t)
    <3>. DEFINE g == [mover[t].f EXCEPT !.name = CopyName(t)]
    <3>1. mover[t].pc # "idle" /\ IsFile(mover[t].f) /\ IsMove(mover[t])
      BY <2>7 DEF ChangePath, MoverAt, Moves
    <3>2. g.name = CopyName(t)
      BY <3>1 DEF IsFile
    <3>3. Away(g) /\ Away(mover[t].f)
      BY <2>3, <3>1, <3>2, CopyIsNotPlain
    <3>4. files' = (files \ {mover[t].f}) \cup {g} /\ mover'[t] = [mover[t] EXCEPT !.pc = "log"]
      BY <2>7 DEF ChangePath, Moves
    <3>. HIDE DEF g, Away
    <3>5. mover'[t].f = mover[t].f
      BY <3>1, <3>4 DEF IsMove
    <3>. QED BY <3>3, <3>4, <3>5, <2>4
  <2>8. CASE AddRead(t) \/ AddWrite(t)
    <3>1. mover[t].pc # "idle" /\ IsMove(mover[t]) /\ files' = files
      BY <2>8 DEF AddRead, AddWrite, MoverAt, Moves
    <3>2. mover'[t] = NoMove \/ mover'[t] = [mover[t] EXCEPT !.pc = "log write"]
      BY <2>8 DEF AddRead, AddWrite, Step, Moves
    <3>3. Away(mover[t].f)
      BY <2>3, <3>1
    <3>. HIDE DEF Away
    <3>4. mover'[t].pc # "idle" => mover'[t].f = mover[t].f
      <4>1. CASE mover'[t] = [mover[t] EXCEPT !.pc = "log write"]
        BY <3>1, <4>1 DEF IsMove
      <4>. QED BY <3>2, <4>1, MoveEnd
    <3>. QED BY <3>1, <3>3, <3>4, <2>4
  <2>. QED BY <1>8, <2>5, <2>6, <2>7, <2>8 DEF MoverSteps
<1>. QED BY <1>1, <1>3, <1>4, <1>5, <1>6, <1>7, <1>8 DEF Next, Worker, MoverSteps

\* A pin is undisturbed by what touches neither its entry nor its file.
LEMMA HeldKept ==
    ASSUME NEW b \in Base, Held(b),
           pins'[b] # Absent => /\ pins'[b] = pins[b]
                                /\ file'[<<pins[b].tier, Of(b)>>] = file[<<pins[b].tier, Of(b)>>]
                                /\ ~Storing(Of(b)) => db'[Of(b)] = db[Of(b)],
           worker' = worker \/ (~Storing(Of(b)) /\ ~Storing(Of(b))')
    PROVE  Held(b)'
<1>1. CASE worker' = worker
  BY <1>1 DEF Held, Storing, Working, Arg, Dest
<1>2. CASE ~Storing(Of(b)) /\ ~Storing(Of(b))'
  BY <1>2 DEF Held
<1>. QED BY <1>1, <1>2

\* Moving another name does not move the file at Of(b).
LEMMA MovedElse ==
    ASSUME StoreTypes, NEW l \in Loc, NEW t \in Tier, NEW k \in 0 .. NTiers, NEW u \in Tier,
           NEW b \in Base, l[2] # Of(b)
    PROVE  Moved(l, t, k)[<<u, Of(b)>>] = file[<<u, Of(b)>>]
<1>1. Of(b) \in Name /\ <<u, Of(b)>> \in Loc
  BY Numbers DEF Of, Name, Plain, Tier, Loc
<1>2. <<l[2][1], k>> # Of(b)
  BY Numbers DEF Of, Plain
<1>3. <<u, Of(b)>> # l /\ <<u, Of(b)>> # <<t, l[2]>> /\ <<u, Of(b)>> # <<t, <<l[2][1], k>>>>
  BY <1>2
<1>. QED BY <1>1, <1>3 DEF Moved, StoreTypes

LEMMA NextArgEnds == NextArg => worker'.meta = Absent
<1>. SUFFICES ASSUME NextArg PROVE worker'.meta = Absent
  OBVIOUS
<1>1. \/ worker' = [pc |-> worker.cmd.op, cmd |-> worker.cmd, i |-> worker.i + 1, meta |-> Absent]
      \/ worker' = [pc |-> "idle", cmd |-> NoCmd, i |-> 1, meta |-> Absent]
  BY DEF NextArg, Finish, NoWork
<1>. QED BY <1>1

LEMMA HeldNext == ASSUME PinInv, Next, NEW b \in Base PROVE Held(b)'
<1>. USE DEF PinInv
<1>. DEFINE n == Of(b)
<1>1. n \in Name /\ Held(b) /\ (pins[b] # Absent => pins[b].tier \in Tier)
  BY Numbers DEF Of, Name, Plain, Tier, Held
<1>2. CASE UNCHANGED <<store, worker, pins>>
  BY <1>1, <1>2, HeldKept DEF store
<1>3. Server \/ (\E c \in Client, m \in Command : ClientSend(c, m)) => UNCHANGED <<store, worker, pins>>
  BY DEF Server, Accept, ProcessOneshot, ProcessPin, StatusRead, StatusWrite, Query, Reply,
         ServerSame, ClientSend
\* Steps of the worker that keep the store, at no pin.
<1>4. ASSUME UNCHANGED <<store, pins>>, ~Storing(n), worker'.meta = Absent \/ worker'.pc # "pin"
      PROVE  Held(b)'
  <2>1. ~Storing(n)'
    BY <1>4 DEF Storing, Working
  <2>. QED BY <1>1, <1>4, <2>1, HeldKept DEF store
<1>5. CASE PinSkip \/ PinFails
  <2>1. worker'.meta = Absent /\ UNCHANGED <<store, pins>>
    BY <1>5, NextArgEnds DEF PinSkip, PinFails
  <2>2. ~Storing(n)
    BY <1>5 DEF PinSkip, PinFails, Storing
  <2>. QED BY <1>4, <2>1, <2>2
<1>6. CASE StartPass \/ Crawl \/ Join
  <2>1. worker.pc # "pin" /\ UNCHANGED <<store, pins>>
    BY <1>6 DEF StartPass, Crawl, Join, Working
  <2>2. worker'.pc # "pin"
    BY <1>6 DEF StartPass, Crawl, Join, NoWork, Types, WorkTypes
  <2>. QED BY <1>4, <2>1, <2>2 DEF Storing, Working
<1>7. CASE Pop
  <2>1. worker'.meta = Absent /\ worker.pc = "idle" /\ UNCHANGED <<store, pins>>
    BY <1>7 DEF Pop, NoWork, Working
  <2>. QED BY <1>4, <2>1 DEF Storing, Working
<1>8. CASE UnpinLookup
  <2>1. worker.pc = "unpin" /\ UNCHANGED <<store, pins>>
    BY <1>8 DEF UnpinLookup, Working
  <2>2. worker'.meta = Absent \/ worker'.pc # "pin"
    <3>1. CASE NextArg
      BY <3>1, NextArgEnds
    <3>2. CASE ~NextArg
      <4>1. worker' = [worker EXCEPT !.meta = [db[Arg] EXCEPT !.pin = FALSE]]
        BY <1>8, <3>2 DEF UnpinLookup
      <4>. QED BY <2>1, <4>1 DEF Types, WorkTypes
    <3>. QED BY <3>1, <3>2
  <2>. QED BY <1>4, <2>1, <2>2 DEF Storing, Working
<1>9. CASE PinLookup
  <2>1. /\ UNCHANGED <<store, pins>> /\ worker.meta = Absent /\ db[Arg].tier # Dest
        /\ worker' = [worker EXCEPT !.meta = db[Arg]]
    BY <1>9 DEF PinLookup
  <2>2. worker'.meta = db[Arg] /\ worker'.cmd = worker.cmd
    BY <2>1 DEF Types, WorkTypes
  <2>3. ~Storing(n) /\ ~Storing(n)'
    BY <2>1, <2>2 DEF Storing, Dest
  <2>. QED BY <1>1, <2>1, <2>3, HeldKept DEF store
<1>10. CASE UnpinUpdate
  <2>1. Arg \in Name /\ Arg[1] \in Base /\ Arg = Of(Arg[1]) /\ worker.pc = "unpin"
    BY <1>10, ArgName DEF UnpinUpdate, Working, Types
  <2>2. ~Storing(n) /\ ~Storing(n)'
    <3>1. worker'.meta = Absent
      BY <1>10, NextArgEnds DEF UnpinUpdate
    <3>. QED BY <2>1, <3>1 DEF Storing, Working
  <2>3. file' = file /\ db' = [db EXCEPT ![Arg] = worker.meta] /\ pins' = [pins EXCEPT ![Arg[1]] = Absent]
    BY <1>10 DEF UnpinUpdate
  <2>4. pins'[b] # Absent => pins'[b] = pins[b] /\ db'[n] = db[n]
    <3>1. CASE Arg[1] = b
      BY <2>3, <3>1 DEF Types, StoreTypes
    <3>2. CASE Arg[1] # b
      <4>1. n # Arg
        BY <2>1, <3>2 DEF Of
      <4>. QED BY <2>3, <3>2, <4>1, <1>1 DEF Types, StoreTypes
    <3>. QED BY <3>1, <3>2
  <2>. HIDE DEF n
  <2>. QED BY <1>1, <2>2, <2>3, <2>4, HeldKept DEF n
<1>11. CASE PinThere
  <2>1. Arg \in Name /\ Arg[1] \in Base /\ Arg = Of(Arg[1]) /\ Dest \in Tier
    BY <1>11, ArgName DEF PinThere, Working, Types
  <2>2. ~Storing(n) /\ ~Storing(n)'
    <3>1. worker' = NoWork /\ worker.meta = Absent
      BY <1>11 DEF PinThere, Finish
    <3>2. worker'.pc = "idle"
      BY <3>1 DEF NoWork
    <3>. QED BY <3>1, <3>2 DEF Storing, Working
  <2>3. /\ file' = file /\ db' = [db EXCEPT ![Arg] = [db[Arg] EXCEPT !.pin = TRUE]]
        /\ pins' = [pins EXCEPT ![Arg[1]] = IF Sees(Arg) THEN [tier |-> Dest, id |-> file[<<Dest, Arg>>]]
                                            ELSE Absent]
        /\ db[Arg] # Absent /\ db[Arg].tier = Dest
    BY <1>11 DEF PinThere
  <2>4. CASE Arg[1] = b /\ Sees(Arg)
    <3>1. pins'[b] = [tier |-> Dest, id |-> file[<<Dest, n>>]] /\ n = Arg
      BY <2>1, <2>3, <2>4 DEF Types, StoreTypes
    <3>2. db[Arg] \in Meta /\ db'[n] = [db[Arg] EXCEPT !.pin = TRUE]
      BY <2>1, <2>3, <3>1 DEF Types, StoreTypes
    <3>3. db'[n] = [tier |-> Dest, pin |-> TRUE]
      BY <2>3, <3>2 DEF Meta
    <3>. HIDE DEF n
    <3>4. pins'[b].tier = Dest /\ pins'[b].id = file[<<Dest, n>>]
      BY <3>1
    <3>. QED BY <2>1, <2>2, <2>3, <3>3, <3>4 DEF Held, n
  <2>5. CASE Arg[1] = b /\ ~Sees(Arg)
    BY <2>3, <2>5 DEF Types, StoreTypes, Held
  <2>6. CASE Arg[1] # b
    <3>1. n # Arg
      BY <2>1, <2>6 DEF Of
    <3>2. pins'[b] = pins[b] /\ db'[n] = db[n]
      BY <2>3, <2>6, <3>1, <1>1 DEF Types, StoreTypes
    <3>. HIDE DEF n
    <3>. QED BY <1>1, <2>2, <2>3, <3>2, HeldKept DEF n
  <2>. QED BY <2>4, <2>5, <2>6
<1>12. CASE PinMove
  <2>. DEFINE l == <<worker.meta.tier, Arg>>
  <2>1. Arg \in Name /\ Arg[1] \in Base /\ Arg = Of(Arg[1]) /\ Dest \in Tier /\ worker.meta \in Meta
    BY <1>12, ArgName DEF PinMove, Working, Types, WorkTypes
  <2>2. /\ worker.meta.tier # Dest /\ file' = Moved(l, Dest, 0) /\ db' = db
        /\ pins' = [pins EXCEPT ![Arg[1]] = IF At(<<Dest, Arg>>) THEN Absent
                                            ELSE [tier |-> Dest, id |-> file[l]]]
        /\ worker' = [worker EXCEPT !.meta = [tier |-> Dest, pin |-> TRUE]]
    BY <1>12 DEF PinMove
  <2>3. l \in Loc /\ <<Dest, Arg>> \in Loc
    BY <2>1 DEF Meta, Loc
  <2>4. /\ worker'.meta = [tier |-> Dest, pin |-> TRUE] /\ worker'.cmd = worker.cmd
        /\ worker'.i = worker.i /\ worker'.pc = "pin"
    BY <1>12, <2>2 DEF Types, WorkTypes, PinMove, Working
  <2>5. Arg' = Arg /\ Dest' = Dest /\ ~Storing(n)
    BY <2>2, <2>4 DEF Arg, Dest, Storing
  <2>6. CASE Arg[1] = b /\ ~At(<<Dest, Arg>>)
    <3>1. pins'[b] = [tier |-> Dest, id |-> file[l]] /\ n = Arg
      BY <2>1, <2>2, <2>6 DEF Types, StoreTypes
    <3>2. file'[<<Dest, Arg>>] = file[l]
      <4>1. l # <<Dest, Arg>> /\ l[2] = Arg
        BY <2>2
      <4>2. file' = [file EXCEPT ![l] = Absent, ![<<Dest, Arg>>] = file[l]]
        BY <2>2, <2>6, <4>1 DEF Moved
      <4>. HIDE DEF l
      <4>. QED BY <2>3, <4>1, <4>2 DEF Types, StoreTypes
    <3>3. pins'[b].tier = Dest /\ pins'[b].id = file[l]
      BY <3>1
    <3>4. Storing(n)'
      <4>1. [tier |-> Dest, pin |-> TRUE] # Absent
        <5>1. [tier |-> Dest, pin |-> TRUE] \in Meta
          BY <2>1 DEF Meta
        <5>. HIDE DEF Meta
        <5>. QED BY <5>1, CommandAssumption
      <4>2. worker'.meta.tier = Dest
        BY <2>4
      <4>. QED BY <2>4, <2>5, <3>1, <4>1, <4>2 DEF Storing, Working
    <3>. HIDE DEF n, l
    <3>. QED BY <2>1, <2>4, <2>5, <3>1, <3>2, <3>3, <3>4 DEF Held, n
  <2>7. CASE Arg[1] = b /\ At(<<Dest, Arg>>)
    BY <2>2, <2>7 DEF Types, StoreTypes, Held
  <2>8. CASE Arg[1] # b
    <3>1. n # Arg
      BY <2>1, <2>8 DEF Of
    <3>2. pins'[b] = pins[b]
      BY <2>2, <2>8 DEF Types, StoreTypes
    <3>3. ~Storing(n)'
      BY <2>5, <3>1 DEF Storing
    <3>4. pins[b] # Absent => file'[<<pins[b].tier, n>>] = file[<<pins[b].tier, n>>]
      BY <1>1, <2>1, <2>2, <2>3, <3>1, MovedElse, Numbers DEF Types
    <3>. HIDE DEF n
    <3>. QED BY <1>1, <2>2, <2>5, <3>2, <3>3, <3>4, HeldKept DEF n
  <2>. QED BY <2>6, <2>7, <2>8
<1>13. CASE PinUpdate
  <2>1. Arg \in Name /\ Arg[1] \in Base /\ Arg = Of(Arg[1])
    BY <1>13, ArgName DEF PinUpdate, Working, Types
  <2>2. /\ file' = file /\ pins' = pins /\ db' = [db EXCEPT ![Arg] = worker.meta]
        /\ Storing(Arg) /\ worker'.meta = Absent
    BY <1>13, NextArgEnds DEF PinUpdate, Storing
  <2>3. ~Storing(n)'
    BY <2>2 DEF Storing
  <2>4. CASE Arg[1] = b
    <3>1. n = Arg
      BY <2>1, <2>4
    <3>2. db'[n] = worker.meta
      BY <1>1, <2>2, <3>1 DEF Types, StoreTypes
    <3>. HIDE DEF n
    <3>. QED BY <1>1, <2>2, <2>3, <3>1, <3>2 DEF Held, n
  <2>5. CASE Arg[1] # b
    <3>1. n # Arg
      BY <2>1, <2>5 DEF Of
    <3>2. db'[n] = db[n]
      BY <1>1, <2>2, <3>1 DEF Types, StoreTypes
    <3>3. ~Storing(n)
      BY <3>1 DEF Storing
    <3>. HIDE DEF n
    <3>. QED BY <1>1, <2>2, <2>3, <3>2, <3>3, HeldKept DEF n
  <2>. QED BY <2>4, <2>5
<1>14. CASE UpdateDb
  <2>1. worker.pc = "update" /\ worker' = NoWork /\ UNCHANGED <<file, pins>>
    BY <1>14 DEF UpdateDb, Finish, Working
  <2>2. worker'.pc # "pin"
    BY <2>1 DEF NoWork
  <2>3. pins[b] # Absent => db'[n] = db[n]
    <3>1. pins[b] # Absent => n \notin {f.name : f \in files}
      BY <2>1 DEF Apart
    <3>. QED BY <1>14, <3>1, <1>1 DEF UpdateDb
  <2>. HIDE DEF n
  <2>. QED BY <1>1, <2>1, <2>2, <2>3, HeldKept DEF Storing, Working, n
<1>15. ASSUME NEW t \in Tier, NEW f \in files, MoveFile(t, f) PROVE Held(b)'
  <2>1. /\ f.at \in Loc /\ f.name = f.at[2] /\ f.at[1] \in 0 .. NTiers
        /\ worker.pc = "move" /\ file' = Moved(f.at, t, f.at[1])
        /\ UNCHANGED <<db, worker, pins>>
    BY <1>15, Numbers DEF Moves, MoveFile, Working, Loc
  <2>2. pins[b] # Absent => f.at[2] # n
    BY <2>1 DEF Apart
  <2>3. pins[b] # Absent => file'[<<pins[b].tier, n>>] = file[<<pins[b].tier, n>>]
    BY <1>1, <2>1, <2>2, MovedElse DEF Types
  <2>. HIDE DEF n
  <2>. QED BY <1>1, <2>1, <2>3, HeldKept DEF n
<1>16. ASSUME NEW t \in Tier, Record(t) \/ ChangePath(t) PROVE Held(b)'
  <2>1. mover[t].pc # "idle" /\ UNCHANGED <<file, worker, pins>>
    BY <1>16 DEF Record, ChangePath, MoverAt, MoverSame
  <2>2. pins[b] # Absent => n # mover[t].f.name /\ n # CopyName(t)
    BY <2>1, CopyIsNotPlain DEF Apart
  <2>3. \/ db' = [db EXCEPT ![mover[t].f.name] = [mover[t].f.meta EXCEPT !.tier = t]]
        \/ db' = [db EXCEPT ![mover[t].f.name] = Absent, ![CopyName(t)] = mover[t].f.meta]
    BY <1>16 DEF Record, ChangePath
  <2>4. pins[b] # Absent => db'[n] = db[n]
    BY <1>1, <2>2, <2>3 DEF Types, StoreTypes
  <2>. HIDE DEF n
  <2>. QED BY <1>1, <2>1, <2>4, HeldKept DEF n
<1>17. ASSUME NEW t \in Tier, AddRead(t) \/ AddWrite(t) PROVE UNCHANGED <<store, worker, pins>>
  BY <1>17 DEF AddRead, AddWrite, MoverSame
<1>18. ASSUME NEW c \in Base, OpenLookup(c) PROVE UNCHANGED <<store, worker, pins>>
  BY <1>18 DEF OpenLookup, AppSame
<1>19. CASE OpenUpdate
  <2>1. open.base \in Base /\ open.meta \in Meta
    BY <1>19 DEF OpenUpdate, Types, StoreTypes
  <2>2. /\ file' = file /\ worker' = worker /\ db' = [db EXCEPT ![Of(open.base)] = open.meta]
        /\ pins' = [pins EXCEPT ![open.base] = IF @ # Absent /\ open.meta # [tier |-> @.tier, pin |-> TRUE]
                                               THEN Absent ELSE @]
    BY <1>19 DEF OpenUpdate, AppSame
  <2>3. CASE open.base = b
    <3>1. pins'[b] # Absent => pins'[b] = pins[b] /\ open.meta = [tier |-> pins[b].tier, pin |-> TRUE]
      BY <2>2, <2>3 DEF Types, StoreTypes
    <3>2. db'[n] = open.meta
      BY <1>1, <2>2, <2>3 DEF Types, StoreTypes
    <3>3. Storing(n)' <=> Storing(n)
      BY <2>2 DEF Storing, Working, Arg, Dest
    <3>. HIDE DEF n
    <3>. QED BY <1>1, <2>2, <3>1, <3>2, <3>3 DEF Held, Dest, n
  <2>4. CASE open.base # b
    <3>1. n # Of(open.base)
      BY <2>4 DEF Of
    <3>2. pins'[b] = pins[b] /\ db'[n] = db[n]
      BY <1>1, <2>2, <2>4, <3>1 DEF Types, StoreTypes
    <3>. HIDE DEF n
    <3>. QED BY <1>1, <2>2, <3>2, HeldKept DEF n
  <2>. QED BY <2>3, <2>4
<1>20. ASSUME NEW m \in Name, Unlink(m) PROVE Held(b)'
  <2>1. /\ worker' = worker /\ db' = [db EXCEPT ![m] = Absent]
        /\ file' = [file EXCEPT ![<<db[m].tier, m>>] = Absent]
        /\ pins' = [pins EXCEPT ![m[1]] = IF m[2] = Plain THEN Absent ELSE @]
    BY <1>20 DEF Unlink, AppSame
  <2>2. m[1] \in Base /\ m = <<m[1], m[2]>>
    BY DEF Name
  <2>3. pins'[b] # Absent => pins'[b] = pins[b] /\ m # n
    <3>1. CASE m = n
      <4>1. m[1] = b /\ m[2] = Plain
        BY <3>1 DEF Of
      <4>. QED BY <2>1, <2>2, <4>1 DEF Types, StoreTypes
    <3>2. CASE m # n
      <4>1. pins'[b] = pins[b] \/ pins'[b] = Absent
        BY <2>1, <2>2 DEF Types, StoreTypes
      <4>. QED BY <3>2, <4>1
    <3>. QED BY <3>1, <3>2
  <2>4. m # n => db'[n] = db[n] /\ file'[<<pins[b].tier, n>>] = file[<<pins[b].tier, n>>]
    BY <1>1, <2>1 DEF Types, StoreTypes
  <2>. HIDE DEF n
  <2>. QED BY <1>1, <2>1, <2>3, <2>4, HeldKept DEF n
<1>. QED BY <1>2, <1>3, <1>5, <1>6, <1>7, <1>8, <1>9, <1>10, <1>11, <1>12, <1>13, <1>14, <1>15,
            <1>16, <1>17, <1>18, <1>19, <1>20 DEF Next, Worker, Application

LEMMA PinNext == PinInv /\ [Next]_vars => PinInv'
<1>1. CASE Next
  BY <1>1, TalkNext, MovesNext, StoreNext, LogTypesNext, QueueNext, WorkNext, PassNext, ApartNext,
     HeldNext DEF PinInv, Types
<1>2. CASE UNCHANGED vars
  <2>1. UNCHANGED <<file, db, log, lock, client, server, queue, worker, files, mover, open, pins>>
    BY <1>2 DEF vars
  <2>2. PinInv => Talk' /\ Moves'
    BY <2>1 DEF PinInv, Talk, Moves
  <2>3. PinInv => Types' /\ Apart'
    BY <2>1 DEF PinInv, Types, StoreTypes, LogTypes, QueueTypes, WorkTypes, PassTypes, Apart
  <2>4. PinInv => \A b \in Base : Held(b)'
    BY <2>1 DEF PinInv, Held, Storing, Working, Arg, Dest
  <2>. QED BY <2>2, <2>3, <2>4 DEF PinInv
<1>. QED BY <1>1, <1>2

LEMMA PinAlways == Spec => []PinInv
BY PinInit, PinNext, PTL DEF Spec

LEMMA PinInvTypes == PinInv => TypeOK
<1>. SUFFICES ASSUME PinInv PROVE TypeOK
  OBVIOUS
<1>1. queue \in Seq(Command \cup {OwnPass})
  <2>1. Queued \subseteq Command \cup {OwnPass}
    BY DEF Queued
  <2>. HIDE DEF Queued
  <2>. QED BY <2>1 DEF PinInv, Types, QueueTypes
<1>2. worker.cmd.args # <<>> => worker.i \in 1 .. Len(worker.cmd.args)
  <2>1. worker.cmd \in Queued \cup {NoCmd} /\ worker.i \in Nat \ {0}
    BY DEF PinInv, Types, WorkTypes
  <2>2. worker.cmd.args # <<>> => worker.cmd.args \in Args
    BY <2>1, QueuedShape DEF NoCmd
  <2>. QED BY <2>1, <2>2, ArgLength DEF PinInv, Types, WorkTypes
<1>3. \A c \in Client : client[c].answer \in {"none", "OK", "ERR"}
  BY DEF PinInv, Talk, Answers
<1>. QED BY <1>1, <1>2, <1>3 DEF TypeOK, PinInv, Types, StoreTypes, LogTypes, WorkTypes, WorkerPC

\* The store, the conflict log, the answers, the queue and the worker have their types for
\* any clients, names and tiers: in particular the worker never looks past the last path of
\* a pin or unpin command.
THEOREM CommandTypes == Spec => []TypeOK
BY PinAlways, PinInvTypes, PTL

\* A pin that has been stored holds for any clients, names, tiers and requests: the entry
\* keeps the pin and the tier and the file stays there, through passes, other commands and
\* conflicts, until it is unpinned, pinned elsewhere, removed, or written back by an open()
\* that read the entry before.
THEOREM PinsStay == Spec => []PinsHold
<1>1. PinInv => PinsHold
  BY DEF PinInv, PinsHold, Held, Storing
<1>. QED BY <1>1, PinAlways, PTL
-----------------------------------------------------------------------------
(* Answers.  A command is in no place before it is answered OK, and in one after. *)

InQueue(m) == \E k \in 1 .. Len(queue) : queue[k] = m
Single(m) == \A j, k \in 1 .. Len(queue) : queue[j] = m /\ queue[k] = m => j = k
Nowhere(m) == ~InQueue(m) /\ worker.cmd # m /\ m \notin done
Once(m) ==
    \/ InQueue(m) /\ Single(m) /\ worker.cmd # m /\ m \notin done
    \/ ~InQueue(m) /\ worker.cmd = m /\ m \notin done
    \/ ~InQueue(m) /\ worker.cmd # m /\ m \in done

\* A command is the client's that it names, or the daemon's own.
Theirs(m) == m \in {NoCmd, OwnPass} \/ (m.by \in Client /\ client[m.by].cmd = m)
Owned ==
    /\ \A c \in Client : IF client[c].cmd = NoCmd THEN client[c].answer = "none"
                         ELSE client[c].cmd.by = c
    /\ \A k \in 1 .. Len(queue) : Theirs(queue[k])
    /\ Theirs(worker.cmd) /\ (worker.pc = "idle" => worker.cmd = NoCmd)
    /\ \A m \in done : Theirs(m)

\* The server works for a client that waits.
Waiting ==
    /\ server.pc # "accept" =>
          /\ server.cmd \in Command /\ server.cmd.by \in Client
          /\ client[server.cmd.by].cmd = server.cmd /\ client[server.cmd.by].answer = "none"
    /\ server.pc = "reply" => server.answer \in {"OK", "ERR"}
    /\ server.pc \in {"status", "status write"} => server.cmd.op = "status"
    /\ server.pc = "query" => server.cmd.op = "query"

Accepted(c) == client[c].answer = "OK"
               \/ (server.pc = "reply" /\ server.cmd.by = c /\ server.answer = "OK")
Placed(c) == client[c].cmd.op \in {"oneshot", "pin", "unpin"} =>
    IF Accepted(c) THEN Once(client[c].cmd) ELSE Nowhere(client[c].cmd)

AnswerInv == Talk /\ Moves /\ Types /\ Owned /\ Waiting /\ \A c \in Client : Placed(c)
-----------------------------------------------------------------------------
\* A client's command is not one of the daemon's own.
LEMMA ClientCommand == ASSUME NEW m, m.by \in Client PROVE m # NoCmd /\ m # OwnPass
<1>1. NoCmd.by = Absent /\ OwnPass.by = Absent
  BY DEF NoCmd, OwnPass
<1>. QED BY <1>1, CommandAssumption

LEMMA Appended ==
    ASSUME NEW S, queue \in Seq(S), NEW x \in S, queue' = Append(queue, x), NEW m
    PROVE  /\ InQueue(m)' <=> InQueue(m) \/ m = x
           /\ Single(m) /\ m # x => Single(m)'
           /\ ~InQueue(m) => Single(m)'
           /\ \A k \in 1 .. Len(queue') : queue'[k] = x \/ \E j \in 1 .. Len(queue) : queue'[k] = queue[j]
<1>1. /\ Len(queue) \in Nat /\ Len(queue') = Len(queue) + 1 /\ queue'[Len(queue) + 1] = x
      /\ \A k \in 1 .. Len(queue) : queue'[k] = queue[k]
  OBVIOUS
<1>2. \A k \in 1 .. Len(queue') : k = Len(queue) + 1 \/ k \in 1 .. Len(queue)
  BY <1>1
<1>3. InQueue(m)' <=> InQueue(m) \/ m = x
  <2>1. ASSUME InQueue(m) \/ m = x PROVE InQueue(m)'
    <3>1. Len(queue) + 1 \in 1 .. Len(queue') /\ 1 .. Len(queue) \subseteq 1 .. Len(queue')
      BY <1>1
    <3>. QED BY <1>1, <2>1, <3>1 DEF InQueue
  <2>. QED BY <1>1, <1>2, <2>1 DEF InQueue
<1>4. (Single(m) /\ m # x) \/ ~InQueue(m) => Single(m)'
  BY <1>1, <1>2 DEF Single, InQueue
<1>. QED BY <1>1, <1>2, <1>3, <1>4

LEMMA Popped ==
    ASSUME NEW S, queue \in Seq(S), queue # <<>>, queue' = Tail(queue), NEW m, m # Head(queue) \/ Single(m)
    PROVE  /\ InQueue(m)' <=> InQueue(m) /\ m # Head(queue)
           /\ Single(m) => Single(m)'
           /\ InQueue(Head(queue))
           /\ \A k \in 1 .. Len(queue') : \E j \in 1 .. Len(queue) : queue'[k] = queue[j]
<1>1. /\ Len(queue) \in Nat \ {0} /\ Len(queue') = Len(queue) - 1 /\ Head(queue) = queue[1]
      /\ \A k \in 1 .. Len(queue') : queue'[k] = queue[k + 1] /\ k + 1 \in 1 .. Len(queue)
  OBVIOUS
<1>2. \A j \in 1 .. Len(queue) : j = 1 \/ j - 1 \in 1 .. Len(queue')
  BY <1>1
<1>3. InQueue(m)' => InQueue(m) /\ m # Head(queue)
  <2>1. ASSUME NEW k \in 1 .. Len(queue'), queue'[k] = m PROVE InQueue(m) /\ m # Head(queue)
    <3>1. queue[k + 1] = m /\ k + 1 \in 1 .. Len(queue) /\ k + 1 # 1
      BY <1>1, <2>1
    <3>2. 1 \in 1 .. Len(queue)
      BY <1>1
    <3>. QED BY <1>1, <3>1, <3>2 DEF InQueue, Single
  <2>. QED BY <2>1 DEF InQueue
<1>4. InQueue(m) /\ m # Head(queue) => InQueue(m)'
  <2>1. ASSUME NEW j \in 1 .. Len(queue), queue[j] = m, m # Head(queue) PROVE InQueue(m)'
    <3>1. j - 1 \in 1 .. Len(queue') /\ (j - 1) + 1 = j
      BY <1>1, <1>2, <2>1
    <3>2. queue'[j - 1] = queue[j]
      BY <1>1, <3>1
    <3>. QED BY <2>1, <3>1, <3>2 DEF InQueue
  <2>. QED BY <2>1 DEF InQueue
<1>5. Single(m) => Single(m)'
  <2>1. ASSUME Single(m), NEW j \in 1 .. Len(queue'), NEW k \in 1 .. Len(queue'), queue'[j] = m, queue'[k] = m
        PROVE  j = k
    <3>1. j + 1 = k + 1
      BY <1>1, <2>1 DEF Single
    <3>. QED BY <3>1
  <2>. QED BY <2>1 DEF Single
<1>6. InQueue(Head(queue))
  BY <1>1 DEF InQueue
<1>. QED BY <1>1, <1>3, <1>4, <1>5, <1>6

\* What a step of the worker does to the places of commands, but Pop.
LEMMA WorkerPlaces ==
    ASSUME Worker, ~Pop, WorkTypes, Owned, Apart
    PROVE  /\ queue' = queue \/ queue' = Append(queue, OwnPass)
           /\ \/ worker'.cmd = worker.cmd /\ done' = done /\ worker'.pc # "idle"
              \/ /\ worker'.cmd = NoCmd
                 /\ done' = done \cup ({worker.cmd} \ {NoCmd, OwnPass})
<1>1. queue' = queue \/ queue' = Append(queue, OwnPass)
  BY DEF Worker, PinSkip, PinThere, PinLookup, PinFails, PinMove, PinUpdate,
         UnpinLookup, UnpinUpdate, StartPass, Join, Crawl, UpdateDb, MoveFile, Record,
         ChangePath, AddRead, AddWrite, RequestPass, MoverSame
<1>. DEFINE Stays == worker'.cmd = worker.cmd /\ done' = done /\ worker'.pc # "idle"
            Ends == worker'.cmd = NoCmd /\ done' = done \cup ({worker.cmd} \ {NoCmd, OwnPass})
<1>. SUFFICES Stays \/ Ends
  BY <1>1
<1>2. ASSUME Finish PROVE Ends
  BY <1>2 DEF Finish, NoWork
<1>3. ASSUME NextArg, worker.pc \in {"pin", "unpin"} PROVE Stays \/ Ends
  <2>1. CASE worker.i < Len(worker.cmd.args)
    <3>1. /\ worker' = [pc |-> worker.cmd.op, cmd |-> worker.cmd, i |-> worker.i + 1, meta |-> Absent]
          /\ done' = done
      BY <1>3, <2>1 DEF NextArg, NoWork
    <3>2. worker.cmd.op \in {"pin", "unpin"}
      BY <1>3 DEF WorkTypes
    <3>. QED BY <3>1, <3>2
  <2>2. CASE ~(worker.i < Len(worker.cmd.args))
    BY <1>3, <1>2, <2>2 DEF NextArg
  <2>. QED BY <2>1, <2>2
<1>4. CASE PinSkip \/ PinFails \/ PinUpdate \/ UnpinUpdate
  BY <1>3, <1>4 DEF PinSkip, PinFails, PinUpdate, UnpinUpdate, Working
<1>5. CASE PinThere \/ UpdateDb
  BY <1>2, <1>5 DEF PinThere, UpdateDb
<1>6. ASSUME NEW m, worker' = [worker EXCEPT !.meta = m], done' = done, worker.pc # "idle" PROVE Stays
  BY <1>6 DEF WorkTypes
<1>7. CASE PinLookup \/ PinMove
  BY <1>6, <1>7 DEF PinLookup, PinMove, Working
<1>8. CASE UnpinLookup
  <2>1. CASE NextArg
    BY <1>3, <1>8, <2>1 DEF UnpinLookup, Working
  <2>2. CASE ~NextArg
    BY <1>6, <1>8, <2>2 DEF UnpinLookup, Working
  <2>. QED BY <2>1, <2>2
<1>9. CASE Crawl \/ Join
  BY <1>9 DEF Crawl, Join, WorkTypes
<1>10. CASE StartPass
  <2>1. worker'.cmd = NoCmd /\ done' = done /\ worker.cmd = NoCmd
    BY <1>10 DEF StartPass, Working, Owned, NoWork
  <2>. QED BY <2>1
<1>11. ASSUME NEW t \in Tier, (\E f \in files : MoveFile(t, f)) \/ MoverSteps(t) PROVE Stays
  <2>1. worker' = worker /\ done' = done
    BY <1>11 DEF MoveFile, MoverSteps, Record, ChangePath, AddRead, AddWrite, MoverSame
  <2>2. worker.pc = "move"
    BY <1>11 DEF MoveFile, MoverSteps, Record, ChangePath, AddRead, AddWrite, Working, MoverAt, Apart
  <2>. QED BY <2>1, <2>2
<1>. QED BY <1>4, <1>5, <1>7, <1>8, <1>9, <1>10, <1>11 DEF Worker, MoverSteps

\* The worker takes no client's command away and brings none.
LEMMA WorkerKeeps ==
    ASSUME Worker, Types, Owned, Apart, NEW m, m # NoCmd, m # OwnPass
    PROVE  (Once(m) => Once(m)') /\ (Nowhere(m) => Nowhere(m)')
<1>1. OwnPass \in Queued /\ queue \in Seq(Queued)
  BY DEF Queued, Types, QueueTypes
<1>. HIDE DEF Queued
<1>2. CASE Pop
  <2>1. /\ queue # <<>> /\ queue' = Tail(queue) /\ worker'.cmd = Head(queue)
        /\ worker.cmd = NoCmd /\ done' = done
    BY <1>2 DEF Pop, NoWork, Working, Owned
  <2>2. InQueue(m) => InQueue(Head(queue))
    BY <1>1, <2>1 DEF InQueue
  <2>3. Nowhere(m) => m # Head(queue)
    BY <1>1, <2>1 DEF Nowhere, InQueue
  <2>4. CASE Single(m) \/ m # Head(queue)
    <3>1. /\ (InQueue(m)' <=> InQueue(m) /\ m # Head(queue)) /\ (Single(m) => Single(m)')
          /\ InQueue(Head(queue))
      BY <1>1, <2>1, <2>4, Popped
    <3>. QED BY <2>1, <3>1 DEF Once, Nowhere
  <2>5. CASE ~(Single(m) \/ m # Head(queue))
    <3>1. InQueue(m)
      BY <2>5 DEF Single, InQueue
    <3>. QED BY <2>1, <2>5, <3>1 DEF Once, Nowhere
  <2>. QED BY <2>4, <2>5
<1>3. CASE ~Pop
  <2>1. (InQueue(m)' <=> InQueue(m)) /\ (Single(m) => Single(m)')
    <3>1. CASE queue' = queue
      BY <3>1 DEF InQueue, Single
    <3>2. CASE queue' = Append(queue, OwnPass)
      BY <1>1, <3>2, Appended
    <3>. QED BY <1>3, <3>1, <3>2, WorkerPlaces DEF Types
  <2>2. \/ worker'.cmd = worker.cmd /\ done' = done
        \/ worker'.cmd = NoCmd /\ done' = done \cup ({worker.cmd} \ {NoCmd, OwnPass})
    BY <1>3, WorkerPlaces DEF Types
  <2>. QED BY <2>1, <2>2 DEF Once, Nowhere
<1>. QED BY <1>2, <1>3

LEMMA OwnedNext == AnswerInv /\ Apart /\ Next => Owned'
<1>. SUFFICES ASSUME AnswerInv, Apart, Next PROVE Owned'
  OBVIOUS
<1>. USE DEF AnswerInv
<1>0. queue \in Seq(Queued) /\ OwnPass \in Queued
  BY DEF Types, QueueTypes, Queued
<1>. HIDE DEF Queued
<1>1. CASE UNCHANGED <<client, queue, worker, done>>
  BY <1>1 DEF Owned, Theirs
<1>2. ASSUME NEW c \in Client, NEW m \in Command, ClientSend(c, m) PROVE Owned'
  <2>1. /\ client[c].cmd = NoCmd /\ m.by = c /\ client' = [client EXCEPT ![c].cmd = m]
        /\ UNCHANGED <<queue, worker, done>>
    BY <1>2 DEF ClientSend
  <2>2. client'[c].cmd = m /\ client'[c].answer = client[c].answer
        /\ \A d \in Client \ {c} : client'[d] = client[d]
    BY <2>1 DEF Talk
  <2>3. ASSUME NEW x, Theirs(x) PROVE Theirs(x)'
    BY <2>1, <2>2, <2>3 DEF Theirs
  <2>4. m # NoCmd
    BY <2>1, ClientCommand
  <2>. QED BY <2>1, <2>2, <2>3, <2>4 DEF Owned
<1>3. CASE Worker
  <2>1. client' = client
    BY <1>3 DEF Worker, Pop, PinSkip, PinThere, PinLookup, PinFails, PinMove, PinUpdate, UnpinLookup,
                UnpinUpdate, StartPass, Join, Crawl, UpdateDb, MoveFile, Record, ChangePath, AddRead,
                AddWrite, WorkerSame, serving
  <2>2. \A x : Theirs(x)' <=> Theirs(x)
    BY <2>1 DEF Theirs
  <2>3. Theirs(NoCmd) /\ Theirs(OwnPass)
    BY DEF Theirs
  <2>4. CASE Pop
    <3>1. queue # <<>> /\ queue' = Tail(queue) /\ done' = done
      BY <2>4 DEF Pop
    <3>2. worker'.cmd = Head(queue) /\ worker'.pc # "idle"
      <4>1. Head(queue) \in Queued
        BY <1>0, <3>1
      <4>2. Head(queue).op \in {"oneshot", "pin", "unpin"}
        BY <4>1, QueuedShape
      <4>. QED BY <2>4, <4>2 DEF Pop, NoWork
    <3>3. \A k \in 1 .. Len(queue') : \E j \in 1 .. Len(queue) : queue'[k] = queue[j]
      BY <1>0, <3>1
    <3>4. Theirs(Head(queue))
      BY <1>0, <3>1 DEF Owned
    <3>. HIDE DEF Theirs
    <3>. QED BY <2>1, <2>2, <3>1, <3>2, <3>3, <3>4 DEF Owned
  <2>5. CASE ~Pop
    <3>1. \A k \in 1 .. Len(queue') : queue'[k] = OwnPass \/ \E j \in 1 .. Len(queue) : queue'[k] = queue[j]
      <4>1. CASE queue' = queue
        BY <4>1
      <4>2. CASE queue' = Append(queue, OwnPass)
        BY <1>0, <4>2, Appended
      <4>. QED BY <1>3, <2>5, <4>1, <4>2, WorkerPlaces DEF Types
    <3>2. \/ worker'.cmd = worker.cmd /\ done' = done /\ worker'.pc # "idle"
          \/ worker'.cmd = NoCmd /\ done' = done \cup ({worker.cmd} \ {NoCmd, OwnPass})
      BY <1>3, <2>5, WorkerPlaces DEF Types
    <3>. HIDE DEF Theirs
    <3>. QED BY <2>1, <2>2, <2>3, <3>1, <3>2 DEF Owned
  <2>. QED BY <2>4, <2>5
<1>4. CASE ProcessOneshot \/ ProcessPin
  <2>1. /\ UNCHANGED <<client, worker, done>>
        /\ queue' = queue \/ queue' = Append(queue, server.cmd)
    BY <1>4 DEF ProcessOneshot, ProcessPin, Push, ServerSame
  <2>2. server.cmd \in Command /\ Theirs(server.cmd)
    <3>1. server.pc # "accept"
      BY <1>4 DEF ProcessOneshot, ProcessPin, Serving
    <3>. QED BY <3>1 DEF Waiting, Theirs
  <2>3. \A x : Theirs(x)' <=> Theirs(x)
    BY <2>1 DEF Theirs
  <2>4. CASE queue' = queue
    BY <2>1, <2>4, <1>1
  <2>5. CASE queue' = Append(queue, server.cmd)
    <3>1. queue \in Seq(Queued \cup {server.cmd})
      BY <1>0
    <3>2. \A k \in 1 .. Len(queue') : queue'[k] = server.cmd \/ \E j \in 1 .. Len(queue) : queue'[k] = queue[j]
      BY <2>5, <3>1, Appended
    <3>. HIDE DEF Theirs
    <3>. QED BY <2>1, <2>2, <2>3, <3>2 DEF Owned
  <2>. QED BY <2>1, <2>4, <2>5
<1>5. CASE Reply
  <2>1. /\ UNCHANGED <<queue, worker, done>>
        /\ client' = [client EXCEPT ![server.cmd.by].answer = server.answer]
    BY <1>5 DEF Reply, ServerSame
  <2>2. \A c \in Client : client'[c].cmd = client[c].cmd
    BY <2>1 DEF Talk
  <2>3. \A c \in Client : client[c].cmd = NoCmd => client'[c] = client[c]
    <3>1. server.pc # "accept" /\ server.cmd.by \in Client
      BY <1>5 DEF Reply, Serving, Waiting
    <3>2. client[server.cmd.by].cmd # NoCmd
      BY <3>1, ClientCommand DEF Waiting
    <3>. QED BY <2>1, <3>2 DEF Talk
  <2>4. \A x : Theirs(x)' <=> Theirs(x)
    BY <2>2 DEF Theirs
  <2>. HIDE DEF Theirs
  <2>. QED BY <2>1, <2>2, <2>3, <2>4 DEF Owned
<1>6. (\E c \in Client : Accept(c)) \/ StatusRead \/ StatusWrite \/ Query \/ Application
      => UNCHANGED <<client, queue, worker, done>>
  BY DEF Accept, StatusRead, StatusWrite, Query, ServerSame, Application, OpenLookup, OpenUpdate,
         Unlink, AppSame, serving
<1>. QED BY <1>1, <1>2, <1>3, <1>4, <1>5, <1>6 DEF Next, Server

LEMMA WaitingNext == AnswerInv /\ Next => Waiting'
<1>. SUFFICES ASSUME AnswerInv, Next PROVE Waiting'
  OBVIOUS
<1>. USE DEF AnswerInv
<1>1. CASE UNCHANGED <<client, server>>
  BY <1>1 DEF Waiting
<1>2. Worker \/ Application => UNCHANGED <<client, server>>
  BY DEF Worker, Pop, PinSkip, PinThere, PinLookup, PinFails, PinMove, PinUpdate, UnpinLookup,
         UnpinUpdate, StartPass, Join, Crawl, UpdateDb, MoveFile, Record, ChangePath, AddRead,
         AddWrite, WorkerSame, serving, Application, OpenLookup, OpenUpdate, Unlink, AppSame
<1>3. ASSUME NEW c \in Client, NEW m \in Command, ClientSend(c, m) PROVE Waiting'
  <2>1. client[c].cmd = NoCmd /\ client' = [client EXCEPT ![c].cmd = m] /\ server' = server
    BY <1>3 DEF ClientSend
  <2>2. server.pc # "accept" => server.cmd.by # c
    BY <2>1, ClientCommand DEF Waiting
  <2>. QED BY <2>1, <2>2 DEF Waiting, Talk
<1>4. ASSUME NEW c \in Client, Accept(c) PROVE Waiting'
  <2>1. client[c].cmd # NoCmd /\ client[c].answer = "none" /\ client' = client
    BY <1>4 DEF Accept
  <2>2. client[c].cmd \in Command /\ client[c].cmd.by = c
    BY <2>1 DEF Talk, Cmd, Owned
  <2>3. server' = [pc |-> client[c].cmd.op, cmd |-> client[c].cmd, answer |-> "none"]
    BY <1>4 DEF Accept, NoServer
  <2>5. client[c].cmd.op \in {"oneshot", "status", "query", "pin", "unpin"}
    BY <2>2 DEF Command
  <2>6. server'.pc = client[c].cmd.op /\ server'.cmd = client[c].cmd
    BY <2>3
  <2>. QED BY <2>1, <2>2, <2>5, <2>6 DEF Waiting
<1>5. CASE ProcessOneshot \/ ProcessPin \/ StatusWrite \/ Query
  <2>1. /\ client' = client /\ server.pc # "accept"
        /\ server' = [server EXCEPT !.pc = "reply", !.answer = "OK"]
           \/ server' = [server EXCEPT !.pc = "reply", !.answer = "ERR"]
    BY <1>5 DEF ProcessOneshot, ProcessPin, StatusWrite, Query, Answer, Serving
  <2>2. server'.pc = "reply" /\ server'.cmd = server.cmd /\ server'.answer \in {"OK", "ERR"}
    BY <2>1 DEF Talk
  <2>. QED BY <2>1, <2>2 DEF Waiting
<1>6. CASE StatusRead
  <2>1. client' = client /\ server.pc = "status" /\ server' = [server EXCEPT !.pc = "status write"]
    BY <1>6 DEF StatusRead, Serving
  <2>2. server'.pc = "status write" /\ server'.cmd = server.cmd
    BY <2>1 DEF Talk
  <2>. QED BY <2>1, <2>2 DEF Waiting
<1>7. CASE Reply
  BY <1>7 DEF Reply, NoServer, Waiting
<1>. QED BY <1>1, <1>2, <1>3, <1>4, <1>5, <1>6, <1>7 DEF Next, Server

LEMMA PlacedNext == ASSUME AnswerInv, Apart, Next, NEW c \in Client PROVE Placed(c)'
<1>. USE DEF AnswerInv
<1>0. PICK m : m = client[c].cmd
  OBVIOUS
<1>. USE <1>0
<1>1. /\ Placed(c)
      /\ m.op \in {"oneshot", "pin", "unpin"} => m \in Command /\ m.by = c /\ m # NoCmd /\ m # OwnPass
  <2>1. CASE m = NoCmd
    BY <2>1 DEF NoCmd
  <2>2. CASE m # NoCmd
    BY <2>2, ClientCommand DEF Talk, Cmd, Owned
  <2>. QED BY <2>1, <2>2
<1>2. ASSUME UNCHANGED <<queue, worker, done>>, client'[c].cmd = m, Accepted(c)' <=> Accepted(c)
      PROVE  Placed(c)'
  BY <1>1, <1>2 DEF Placed, Once, Nowhere, InQueue, Single
<1>3. CASE Worker
  <2>1. UNCHANGED <<client, server>>
    BY <1>3 DEF Worker, Pop, PinSkip, PinThere, PinLookup, PinFails, PinMove, PinUpdate, UnpinLookup,
                UnpinUpdate, StartPass, Join, Crawl, UpdateDb, MoveFile, Record, ChangePath, AddRead,
                AddWrite, WorkerSame, serving
  <2>2. m.op \in {"oneshot", "pin", "unpin"} => (Once(m) => Once(m)') /\ (Nowhere(m) => Nowhere(m)')
    BY <1>1, <1>3, WorkerKeeps
  <2>3. (Accepted(c)' <=> Accepted(c)) /\ client'[c].cmd = m
    BY <2>1 DEF Accepted
  <2>. QED BY <1>1, <2>2, <2>3 DEF Placed
<1>4. CASE Application
  BY <1>2, <1>4 DEF Application, OpenLookup, OpenUpdate, Unlink, AppSame, serving, Accepted
<1>5. ASSUME NEW d \in Client, NEW x \in Command, ClientSend(d, x) PROVE Placed(c)'
  <2>1. /\ client[d].cmd = NoCmd /\ x.by = d /\ client' = [client EXCEPT ![d].cmd = x]
        /\ UNCHANGED <<server, queue, worker, done>>
    BY <1>5 DEF ClientSend
  <2>2. CASE c # d
    <3>1. client'[c] = client[c]
      BY <2>1, <2>2 DEF Talk
    <3>. QED BY <1>2, <2>1, <3>1 DEF Accepted
  <2>3. CASE c = d
    <3>1. client'[c].cmd = x /\ client'[c].answer = "none"
      BY <2>1, <2>3 DEF Talk, Owned
    <3>2. ~Accepted(c)'
      <4>1. server.pc = "reply" => server.cmd.by # c
        BY <2>1, <2>3, ClientCommand DEF Waiting
      <4>. QED BY <2>1, <3>1, <4>1 DEF Accepted
    <3>3. ~Theirs(x)
      BY <2>1, ClientCommand DEF Theirs
    <3>4. Nowhere(x)'
      BY <2>1, <3>3 DEF Nowhere, InQueue, Owned
    <3>. QED BY <3>1, <3>2, <3>4 DEF Placed
  <2>. QED BY <2>2, <2>3
<1>6. ASSUME NEW d \in Client, Accept(d) PROVE Placed(c)'
  <2>1. server.pc = "accept" /\ client' = client /\ UNCHANGED <<queue, worker, done>>
    BY <1>6 DEF Accept, Serving, ServerSame
  <2>2. server'.pc # "reply"
    <3>1. client[d].cmd \in Command
      BY <1>6 DEF Accept, Talk, Cmd
    <3>2. server' = [pc |-> client[d].cmd.op, cmd |-> client[d].cmd, answer |-> "none"]
      BY <1>6 DEF Accept, NoServer
    <3>. QED BY <3>1, <3>2 DEF Command
  <2>. QED BY <1>2, <2>1, <2>2 DEF Accepted
<1>7. CASE StatusRead
  <2>1. server.pc = "status" /\ client' = client /\ UNCHANGED <<queue, worker, done>>
    BY <1>7 DEF StatusRead, Serving, ServerSame
  <2>2. server'.pc # "reply"
    BY <1>7 DEF StatusRead, Talk
  <2>. QED BY <1>2, <2>1, <2>2 DEF Accepted
<1>8. CASE StatusWrite \/ Query
  <2>1. /\ server.pc \in {"status write", "query"} /\ client' = client /\ UNCHANGED <<queue, worker, done>>
        /\ \E a : Answer(a)
    BY <1>8 DEF StatusWrite, Query, Serving, ServerSame
  <2>2. server'.pc = "reply" /\ server'.cmd = server.cmd
    BY <2>1 DEF Answer, Talk
  <2>3. server.cmd.op \in {"status", "query"} /\ client[server.cmd.by].cmd = server.cmd
    BY <2>1 DEF Waiting
  <2>4. CASE server.cmd.by = c
    BY <2>1, <2>3, <2>4 DEF Placed
  <2>5. CASE server.cmd.by # c
    BY <1>2, <2>1, <2>2, <2>5 DEF Accepted
  <2>. QED BY <2>4, <2>5
<1>9. CASE Reply
  <2>1. /\ server.pc = "reply" /\ server' = NoServer /\ UNCHANGED <<queue, worker, done>>
        /\ client' = [client EXCEPT ![server.cmd.by].answer = server.answer]
    BY <1>9 DEF Reply, Serving, ServerSame
  <2>2. server'.pc # "reply" /\ client'[c].cmd = m
    BY <2>1 DEF NoServer, Talk
  <2>3. CASE server.cmd.by = c
    <3>1. client'[c].answer = server.answer /\ client[c].answer = "none"
      BY <2>1, <2>3 DEF Talk, Waiting
    <3>. QED BY <1>2, <2>1, <2>2, <2>3, <3>1 DEF Accepted
  <2>4. CASE server.cmd.by # c
    <3>1. client'[c] = client[c]
      BY <2>1, <2>4 DEF Talk
    <3>. QED BY <1>2, <2>1, <2>2, <2>4, <3>1 DEF Accepted
  <2>. QED BY <2>3, <2>4
<1>10. CASE ProcessOneshot \/ ProcessPin
  <2>1. /\ server.pc \in {"oneshot", "pin", "unpin"} /\ UNCHANGED <<client, worker, done>>
        /\ \/ queue' = queue /\ Answer("ERR")
           \/ queue' = Append(queue, server.cmd) /\ Answer("OK")
    BY <1>10 DEF ProcessOneshot, ProcessPin, Serving, Push, ServerSame
  <2>2. server'.pc = "reply" /\ server'.cmd = server.cmd
    BY <2>1 DEF Answer, Talk
  <2>3. CASE queue' = queue /\ Answer("ERR")
    <3>1. server'.answer = "ERR"
      BY <2>3 DEF Answer, Talk
    <3>. QED BY <1>2, <2>1, <2>2, <2>3, <3>1 DEF Accepted
  <2>4. CASE queue' = Append(queue, server.cmd) /\ Answer("OK")
    <3>1. server'.answer = "OK"
      BY <2>4 DEF Answer, Talk
    <3>2. queue \in Seq(Queued \cup {server.cmd})
      <4>. HIDE DEF Queued
      <4>. QED BY DEF Types, QueueTypes
    <3>3. /\ InQueue(m)' <=> InQueue(m) \/ m = server.cmd
          /\ Single(m) /\ m # server.cmd => Single(m)'
          /\ ~InQueue(m) => Single(m)'
      BY <2>4, <3>2, Appended
    <3>4. CASE server.cmd.by = c
      <4>1. m = server.cmd /\ ~Accepted(c) /\ Accepted(c)'
        BY <2>1, <2>2, <3>1, <3>4 DEF Waiting, Accepted
      <4>2. m.op \in {"oneshot", "pin", "unpin"} => Once(m)'
        BY <1>1, <2>1, <3>3, <4>1 DEF Placed, Nowhere, Once
      <4>. QED BY <2>1, <4>1, <4>2 DEF Placed
    <3>5. CASE server.cmd.by # c
      <4>1. Accepted(c)' <=> Accepted(c)
        BY <2>1, <2>2, <3>5 DEF Accepted
      <4>2. m.op \in {"oneshot", "pin", "unpin"} => (Once(m) => Once(m)') /\ (Nowhere(m) => Nowhere(m)')
        BY <1>1, <2>1, <3>3, <3>5 DEF Once, Nowhere
      <4>. QED BY <1>1, <2>1, <4>1, <4>2 DEF Placed
    <3>. QED BY <3>4, <3>5
  <2>. QED BY <2>1, <2>3, <2>4
<1>. QED BY <1>3, <1>4, <1>5, <1>6, <1>7, <1>8, <1>9, <1>10 DEF Next, Server

LEMMA AnswerInit == Init => AnswerInv
<1>. SUFFICES ASSUME Init PROVE AnswerInv
  OBVIOUS
<1>1. PinInv
  BY PinInit
<1>2. Owned /\ Waiting
  BY DEF Init, Owned, Waiting, Theirs, NoServer, NoWork
<1>3. \A c \in Client : Placed(c)
  BY DEF Init, Placed, NoCmd
<1>. QED BY <1>1, <1>2, <1>3 DEF AnswerInv, PinInv

LEMMA AnswerNext == PinInv /\ AnswerInv /\ [Next]_vars => AnswerInv'
<1>. SUFFICES ASSUME PinInv, AnswerInv, [Next]_vars PROVE AnswerInv'
  OBVIOUS
<1>1. PinInv'
  BY PinNext
<1>2. CASE Next
  BY <1>1, <1>2, OwnedNext, WaitingNext, PlacedNext DEF AnswerInv, PinInv
<1>3. CASE UNCHANGED vars
  <2>1. UNCHANGED <<client, server, queue, worker, done>>
    BY <1>3 DEF vars
  <2>2. Owned' /\ Waiting'
    BY <2>1 DEF AnswerInv, Owned, Waiting, Theirs
  <2>3. \A c \in Client : Placed(c)'
    BY <2>1 DEF AnswerInv, Placed, Accepted, Once, Nowhere, InQueue, Single
  <2>. QED BY <1>1, <2>2, <2>3 DEF AnswerInv, PinInv
<1>. QED BY <1>2, <1>3

LEMMA PlaceCount ==
    ASSUME NEW m
    PROVE  LET Q == Cardinality({k \in 1 .. Len(queue) : queue[k] = m}) IN
           (InQueue(m) /\ Single(m) => Q = 1) /\ (~InQueue(m) => Q = 0)
<1>. DEFINE Q == {k \in 1 .. Len(queue) : queue[k] = m}
<1>1. ASSUME InQueue(m), Single(m) PROVE Cardinality(Q) = 1
  <2>1. PICK j \in 1 .. Len(queue) : queue[j] = m
    BY <1>1 DEF InQueue
  <2>2. Q = {j}
    BY <1>1, <2>1 DEF Single
  <2>. QED BY <2>2, FS_Singleton
<1>2. ASSUME ~InQueue(m) PROVE Cardinality(Q) = 0
  <2>1. Q = {}
    BY <1>2 DEF InQueue
  <2>. QED BY <2>1, FS_EmptySet
<1>. QED BY <1>1, <1>2

\* A client told OK has its command queued, running or executed exactly once, and one told
\* ERR has it nowhere, for any clients, paths and tiers and any length of the queue.
THEOREM AnswersHold == Spec => []AnswersTrue
<1>1. AnswerInv => AnswersTrue
  <2>. SUFFICES ASSUME AnswerInv, NEW c \in Client, NEW m, m = client[c].cmd,
                       m.op \in {"oneshot", "pin", "unpin"}
                PROVE  LET places == Cardinality({k \in 1 .. Len(queue) : queue[k] = m})
                              + (IF worker.cmd = m THEN 1 ELSE 0) + (IF m \in done THEN 1 ELSE 0) IN
                       /\ client[c].answer = "OK" => places = 1
                       /\ client[c].answer = "ERR" => places = 0
    BY DEF AnswersTrue
  <2>1. client[c].answer = "OK" => Once(m)
    BY DEF AnswerInv, Placed, Accepted
  <2>2. client[c].answer = "ERR" => Nowhere(m)
    BY DEF AnswerInv, Placed, Accepted, Waiting
  <2>. QED BY <2>1, <2>2, PlaceCount DEF Once, Nowhere
<1>2. Spec => []AnswerInv
  BY AnswerInit, AnswerNext, PinAlways, PTL DEF Spec
<1>. QED BY <1>1, <1>2, PTL
=============================================================================
