----------------------------- MODULE WorkQueue -----------------------------
(***************************************************************************)
(* How the tier worker is driven.  TierEngineTiering::begin() runs a pass  *)
(* every period and, in between, the work that other threads queue in      *)
(* adhoc_work_: the ad hoc socket server pushes the commands of the CLI,    *)
(* and FUSE threads whose release() leaves a tier over its quota call      *)
(* enqueue_work(ONESHOT), which oneshot_in_queue_ keeps from queueing a     *)
(* second pass.  Between rounds the worker sleeps on sleep_cv_; the threads *)
(* that push do not hold sleep_mt_.  stop() ends worker and server.        *)
(*                                                                         *)
(* Every access to a flag, the queue, the mutex or the condition variable  *)
(* is a step of its own, except where the thread holds a lock that all      *)
(* others need, or the queue's single consumer tests and pops.  A pass, the *)
(* body of TierMigration, is its start and its end.                        *)
(***************************************************************************)
EXTENDS Naturals, Sequences

CONSTANTS
    Releaser,    \* FUSE threads in release(), or in write() when the tier is out of space
    Worker,      \* the tier worker as a caller of enqueue_work, after a pin
    Server,      \* the ad hoc server as a requester of passes
    Periodic,    \* Tier Period >= 0
    Strict,      \* Strict Period: quota overruns and pins do not ask for a pass
    MaxQueue     \* bound: length of the queue at which no new request is made

ASSUME QueueAssumption ==
    /\ Worker \notin Releaser /\ Server \notin Releaser \cup {Worker}
    /\ Periodic \in BOOLEAN /\ Strict \in BOOLEAN /\ MaxQueue \in Nat

Enqueuer == Releaser \cup {Worker}
Requester == Enqueuer \cup {Server}
\* QUERY stands for all that only reply: status and its like, and what is refused.
Command == {"ONESHOT", "PIN", "UNPIN", "QUERY"}
Work == {"ONESHOT", "PIN", "UNPIN"}

VARIABLES
    queue,              \* adhoc_work_
    oneshot_in_queue,   \* oneshot_in_queue_
    currently_tiering,  \* currently_tiering_
    stop_flag,          \* stop_flag_
    mutex,              \* who holds sleep_mt_
    wpc,                \* where the worker is in begin()
    nested,             \* the running tier() was called by execute_queued_work()
    late,               \* wake_time has passed
    epc,                \* where each caller of enqueue_work is
    spc,                \* where the ad hoc server is
    command,            \* the command it handles
    stopping,           \* where destroy() is in stop()
    wanted              \* history: requesters that no pass has started for yet

worker == <<wpc, nested>>
server == <<spc, command>>
vars == <<queue, oneshot_in_queue, currently_tiering, stop_flag, mutex, wpc, nested,
          late, epc, spc, command, stopping, wanted>>

WorkerPC == {"loop", "tier", "tiering", "drain", "reset", "pinning", "enqueue", "lock",
             "check", "decided", "asleep", "woken", "timedout", "done"}
ServerPC == {"loop", "accept", "receive", "test", "push", "notify", "done"}
-----------------------------------------------------------------------------
\* Neither currently_tiering_ nor stop_flag_ is initialised.  The server tests stop_flag_
\* before its first accept.
Init ==
    /\ queue = <<>> /\ oneshot_in_queue = FALSE
    /\ currently_tiering \in BOOLEAN
    /\ stop_flag \in BOOLEAN /\ mutex = "free"
    /\ wpc = IF Periodic THEN "tier" ELSE "loop"
    /\ nested = FALSE /\ late = FALSE
    /\ epc = [e \in Enqueuer |-> "idle"]
    /\ spc = "loop" /\ command = "QUERY"
    /\ stopping = "no" /\ wanted = {}

\* sleep_cv_.notify_one(): only the worker ever waits.
Notified == IF wpc = "asleep" THEN "woken" ELSE wpc
-----------------------------------------------------------------------------
(* enqueue_work(ONESHOT), by release() and by pin_files() *)

\* Mutant: a request is also turned away while a pass is running.
EnqueueTestTiering(e) ==
    /\ epc[e] = "idle"
    /\ wanted' = wanted \cup {e}
    /\ epc' = [epc EXCEPT ![e] = IF oneshot_in_queue \/ currently_tiering
                                THEN "idle" ELSE "set"]

EnqueueTest(e) ==
    /\ epc[e] = "idle"
    /\ wanted' = wanted \cup {e}
    /\ epc' = [epc EXCEPT ![e] = IF oneshot_in_queue THEN "idle" ELSE "set"]

\* release() of a file that leaves its tier over quota; write() makes the same call.
ReleaseOverQuota(e) ==
    /\ ~Strict /\ stopping = "no" /\ Len(queue) < MaxQueue
    /\ EnqueueTest(e)
    /\ UNCHANGED <<queue, oneshot_in_queue, currently_tiering, stop_flag, mutex, worker,
                   late, server, stopping>>

EnqueueSet(e) ==
    /\ epc[e] = "set"
    /\ oneshot_in_queue' = TRUE
    /\ epc' = [epc EXCEPT ![e] = "push"]
    /\ UNCHANGED <<queue, currently_tiering, stop_flag, mutex, worker, late, server,
                   stopping, wanted>>

EnqueuePush(e) ==
    /\ epc[e] = "push"
    /\ queue' = Append(queue, "ONESHOT")
    /\ epc' = [epc EXCEPT ![e] = "notify"]
    /\ UNCHANGED <<oneshot_in_queue, currently_tiering, stop_flag, mutex, worker, late,
                   server, stopping, wanted>>

EnqueueNotify(e) ==
    /\ epc[e] = "notify"
    /\ wpc' = Notified
    /\ epc' = [epc EXCEPT ![e] = "idle"]
    /\ UNCHANGED <<queue, oneshot_in_queue, currently_tiering, stop_flag, mutex, nested,
                   late, server, stopping, wanted>>
-----------------------------------------------------------------------------
(* process_adhoc_requests() *)

ServerGoes(from, to) ==
    /\ spc = from /\ spc' = to
    /\ UNCHANGED <<queue, oneshot_in_queue, currently_tiering, stop_flag, mutex, worker,
                   late, epc, command, stopping, wanted>>

\* wait_for_connection(): a client connects.  Clients that the kernel has queued are
\* accepted after the shutdown of the socket, too.
ServerConnect == Len(queue) < MaxQueue /\ ServerGoes("accept", "receive")

\* The accept fails for another reason than the shutdown.
ServerAcceptFails == ServerGoes("accept", "loop")

\* Mutant: commands that only reply are queued as well.
ServerReceiveAll(c) ==
    /\ spc = "receive"
    /\ command' = c
    /\ spc' = IF c = "ONESHOT" THEN "test" ELSE "push"
    /\ UNCHANGED <<queue, oneshot_in_queue, currently_tiering, stop_flag, mutex, worker,
                   late, epc, stopping, wanted>>

\* receive_data_async() blocks until the client has sent its command.
ServerReceive(c) ==
    /\ spc = "receive"
    /\ command' = c
    /\ spc' = CASE c = "ONESHOT" -> "test"
                [] c \in {"PIN", "UNPIN"} -> "push"
                [] c = "QUERY" -> "notify"
    /\ UNCHANGED <<queue, oneshot_in_queue, currently_tiering, stop_flag, mutex, worker,
                   late, epc, stopping, wanted>>

\* The client is gone before it has sent anything: no reply, and nobody is notified.
ServerReceiveFails == ServerGoes("receive", "loop")

\* process_oneshot(): refused during a pass.
ServerTest ==
    /\ spc = "test"
    /\ spc' = IF currently_tiering THEN "notify" ELSE "push"
    /\ wanted' = IF currently_tiering THEN wanted ELSE wanted \cup {Server}
    /\ UNCHANGED <<queue, oneshot_in_queue, currently_tiering, stop_flag, mutex, worker,
                   late, epc, command, stopping>>

ServerPush ==
    /\ spc = "push"
    /\ queue' = Append(queue, command)
    /\ spc' = "notify"
    /\ UNCHANGED <<oneshot_in_queue, currently_tiering, stop_flag, mutex, worker, late,
                   epc, command, stopping, wanted>>

\* The reply is sent, the connection closed and the worker notified, for any command.
ServerNotify ==
    /\ spc = "notify"
    /\ wpc' = Notified
    /\ spc' = "loop"
    /\ UNCHANGED <<queue, oneshot_in_queue, currently_tiering, stop_flag, mutex, nested,
                   late, epc, command, stopping, wanted>>

ServerLoop == ServerGoes("loop", IF stop_flag THEN "done" ELSE "accept")

\* wait_for_connection() throws EINVAL.
ServerShutdown == stopping = "done" /\ stop_flag /\ ServerGoes("accept", "done")
-----------------------------------------------------------------------------
(* stop(), called by destroy() when no FUSE request is left *)

StopLock ==
    /\ stopping = "no" /\ \A e \in Releaser : epc[e] = "idle"
    /\ mutex = "free" /\ mutex' = "stop"
    /\ stopping' = "locked"
    /\ UNCHANGED <<queue, oneshot_in_queue, currently_tiering, stop_flag, worker, late,
                   epc, server, wanted>>

StopSet ==
    /\ stopping = "locked"
    /\ stop_flag' = TRUE
    /\ stopping' = "set"
    /\ UNCHANGED <<queue, oneshot_in_queue, currently_tiering, mutex, worker, late, epc,
                   server, wanted>>

\* notify_one(), shutdown_socket_server(), and the lock_guard's end.
StopNotify ==
    /\ stopping = "set"
    /\ wpc' = Notified
    /\ mutex' = "free"
    /\ stopping' = "done"
    /\ UNCHANGED <<queue, oneshot_in_queue, currently_tiering, stop_flag, nested, late,
                   epc, server, wanted>>
-----------------------------------------------------------------------------
(* begin() *)

Step(from, to) == wpc = from /\ wpc' = to

\* Mutant: the deadline is tested before stop_flag_.
LoopTestLateFirst ==
    /\ wpc = "loop"
    /\ \/ late /\ wpc' = "tier" /\ late' = FALSE
       \/ ~late /\ stop_flag /\ wpc' = "done" /\ late' = late
       \/ ~late /\ ~stop_flag /\ wpc' = "drain" /\ late' = late
    /\ nested' = FALSE
    /\ UNCHANGED <<queue, oneshot_in_queue, currently_tiering, stop_flag, mutex, epc,
                   server, stopping, wanted>>

\* The inner loop's condition, and the outer one's when the inner loop ends.
LoopTest ==
    /\ wpc = "loop"
    /\ \/ stop_flag /\ wpc' = "done" /\ late' = late
       \/ ~stop_flag /\ late /\ wpc' = "tier" /\ late' = FALSE
       \/ ~stop_flag /\ ~late /\ wpc' = "drain" /\ late' = late
    /\ nested' = FALSE
    /\ UNCHANGED <<queue, oneshot_in_queue, currently_tiering, stop_flag, mutex, epc,
                   server, stopping, wanted>>

\* tier(): what is asked for from now on needs another pass.
TierStart ==
    /\ Step("tier", "tiering")
    /\ currently_tiering' = TRUE
    /\ wanted' = {}
    /\ UNCHANGED <<queue, oneshot_in_queue, stop_flag, mutex, nested, late, epc, server,
                   stopping>>

TierEnd ==
    /\ Step("tiering", IF nested THEN "drain" ELSE "loop")
    /\ currently_tiering' = FALSE
    /\ UNCHANGED <<queue, oneshot_in_queue, stop_flag, mutex, nested, late, epc, server,
                   stopping, wanted>>

\* execute_queued_work(): empty(), pop() and the switch.
Drain ==
    /\ queue # <<>>
    /\ queue' = Tail(queue)
    /\ \/ Head(queue) = "ONESHOT" /\ Step("drain", "reset")
       \/ Head(queue) = "PIN" /\ Step("drain", "pinning")
       \/ Head(queue) = "UNPIN" /\ Step("drain", "drain")
    /\ UNCHANGED <<oneshot_in_queue, currently_tiering, stop_flag, mutex, nested, late,
                   epc, server, stopping, wanted>>

DrainEmpty ==
    /\ queue = <<>> /\ Step("drain", "lock")
    /\ UNCHANGED <<queue, oneshot_in_queue, currently_tiering, stop_flag, mutex, nested,
                   late, epc, server, stopping, wanted>>

\* Mutant: the flag stays set.
ResetNothing ==
    /\ Step("reset", "tier")
    /\ nested' = TRUE
    /\ UNCHANGED <<queue, oneshot_in_queue, currently_tiering, stop_flag, mutex, late, epc,
                   server, stopping, wanted>>

Reset ==
    /\ Step("reset", "tier")
    /\ oneshot_in_queue' = FALSE
    /\ nested' = TRUE
    /\ UNCHANGED <<queue, currently_tiering, stop_flag, mutex, late, epc, server,
                   stopping, wanted>>

\* pin_files() has moved its files, or returns at one that is in the tier already and
\* asks for no pass.
PinEnd ==
    /\ \/ Step("pinning", "drain")
       \/ ~Strict /\ Step("pinning", "enqueue")
    /\ UNCHANGED <<queue, oneshot_in_queue, currently_tiering, stop_flag, mutex, nested,
                   late, epc, server, stopping, wanted>>

\* pin_files() ends with enqueue_work(ONESHOT); the worker goes on when that is done.
PinEnqueue ==
    /\ Step("enqueue", "drain")
    /\ EnqueueTest(Worker)
    /\ UNCHANGED <<queue, oneshot_in_queue, currently_tiering, stop_flag, mutex, nested,
                   late, server, stopping>>

\* sleep_until(), sleep_until_woken(): the lock, the predicate, the wait.
SleepLock ==
    /\ mutex = "free" /\ mutex' = "worker"
    /\ Step("lock", "check") \/ Step("woken", "check")
    /\ UNCHANGED <<queue, oneshot_in_queue, currently_tiering, stop_flag, nested, late,
                   epc, server, stopping, wanted>>

SleepCheck ==
    /\ IF stop_flag \/ queue # <<>>
       THEN Step("check", "loop") /\ mutex' = "free"
       ELSE Step("check", "decided") /\ mutex' = mutex
    /\ UNCHANGED <<queue, oneshot_in_queue, currently_tiering, stop_flag, nested, late,
                   epc, server, stopping, wanted>>

\* The wait releases the mutex; a notification before this step has no one to wake.
SleepWait ==
    /\ Step("decided", "asleep")
    /\ mutex' = "free"
    /\ UNCHANGED <<queue, oneshot_in_queue, currently_tiering, stop_flag, nested, late,
                   epc, server, stopping, wanted>>

\* Mutant: sleep_until_woken() whatever the period.
SleepNoTimeout ==
    /\ ~Periodic /\ late /\ Step("asleep", "timedout")
    /\ UNCHANGED <<queue, oneshot_in_queue, currently_tiering, stop_flag, mutex, nested,
                   late, epc, server, stopping, wanted>>

SleepTimeout ==
    /\ late /\ Step("asleep", "timedout")
    /\ UNCHANGED <<queue, oneshot_in_queue, currently_tiering, stop_flag, mutex, nested,
                   late, epc, server, stopping, wanted>>

SleepEnd ==
    /\ mutex = "free" /\ Step("timedout", "loop")
    /\ UNCHANGED <<queue, oneshot_in_queue, currently_tiering, stop_flag, mutex, nested,
                   late, epc, server, stopping, wanted>>

\* A condition variable may wake without a notification.
Spurious ==
    /\ Step("asleep", "woken")
    /\ UNCHANGED <<queue, oneshot_in_queue, currently_tiering, stop_flag, mutex, nested,
                   late, epc, server, stopping, wanted>>

\* wake_time passes.
TimePasses ==
    /\ Periodic /\ ~late
    /\ late' = TRUE
    /\ UNCHANGED <<queue, oneshot_in_queue, currently_tiering, stop_flag, mutex, worker,
                   epc, server, stopping, wanted>>
-----------------------------------------------------------------------------
\* A worker inside enqueue_work does nothing else.
WorkerRuns ==
    /\ epc[Worker] = "idle"
    /\ \/ LoopTest \/ TierStart \/ Drain \/ DrainEmpty \/ Reset \/ PinEnqueue
       \/ SleepLock \/ SleepCheck \/ SleepWait \/ SleepTimeout \/ SleepEnd

\* The end of the moves of a pass or a pin, which wait for room as long as there is none
\* and do not look at stop_flag_.
MoversEnd == TierEnd \/ PinEnd

EnqueueStep(e) == EnqueueSet(e) \/ EnqueuePush(e) \/ EnqueueNotify(e)
ServerRuns == ServerTest \/ ServerPush \/ ServerNotify \/ ServerLoop \/ ServerShutdown
ClientStep ==
    \/ ServerConnect \/ ServerAcceptFails \/ ServerReceiveFails
    \/ \E c \in Command : ServerReceive(c)
StopStep == StopSet \/ StopNotify

\* Worker and server have ended and are joined.
Terminated ==
    /\ wpc = "done" /\ spc = "done"
    /\ UNCHANGED vars

Next ==
    \/ WorkerRuns \/ MoversEnd \/ Spurious \/ TimePasses
    \/ \E e \in Releaser : ReleaseOverQuota(e)
    \/ \E e \in Enqueuer : EnqueueStep(e)
    \/ ClientStep \/ ServerRuns
    \/ StopLock \/ StopStep \/ Terminated

\* Every thread that has something to do is scheduled, and time passes.  Nobody has to
\* make a request, to stop the daemon or to wake without cause; a client need not send
\* what the server waits for, and moves need not come to an end.
Fairness ==
    /\ WF_vars(WorkerRuns) /\ WF_vars(TimePasses)
    /\ \A e \in Enqueuer : WF_vars(EnqueueStep(e))
    /\ WF_vars(ServerRuns) /\ WF_vars(StopStep)

Spec == Init /\ [][Next]_vars
FairSpec == Spec /\ Fairness
-----------------------------------------------------------------------------
(* Properties *)

TypeOK ==
    /\ queue \in Seq(Work)
    /\ oneshot_in_queue \in BOOLEAN /\ currently_tiering \in BOOLEAN
    /\ stop_flag \in BOOLEAN /\ mutex \in {"free", "worker", "stop"}
    /\ wpc \in WorkerPC /\ nested \in BOOLEAN /\ late \in BOOLEAN
    /\ epc \in [Enqueuer -> {"idle", "set", "push", "notify"}]
    /\ spc \in ServerPC
    /\ command \in Command
    /\ stopping \in {"no", "locked", "set", "done"}
    /\ wanted \subseteq Requester

\* A ONESHOT is in the queue, is about to be, or has just been taken from it.
InQueue == \E i \in DOMAIN queue : queue[i] = "ONESHOT"
Coming == \E e \in Enqueuer : epc[e] \in {"set", "push"}
Taken == wpc = "reset"

\* Coalescing is sound: whenever oneshot_in_queue_ turns a request away, a pass that has
\* not started yet is certain to come, whatever the order of the flag's test, set and
\* reset and of the pushes and pops of all threads.
FlagMeansPending == oneshot_in_queue => InQueue \/ Coming \/ Taken

\* A request for a pass, accepted or coalesced, is never forgotten: until a pass starts
\* after it, one is on its way.
RequestPending ==
    wanted # {} => InQueue \/ Coming \/ Taken \/ wpc = "tier"
                   \/ (spc = "push" /\ command = "ONESHOT")

\* What the threads depend on: no pass or pin moves files for ever, and no client keeps
\* a connection without sending a command or going away.
MovesEnd == []<>(wpc \notin {"tiering", "pinning"})
ClientsSpeak == []<>(spc # "receive")

\* If every pass and pin comes to an end, every request is followed by a pass that starts
\* after it, unless stop_flag_ is set: by stop(), or by the memory the daemon started
\* with.  A silent client holds up only the requests of other clients, which the server
\* has not accepted yet.
Served == MovesEnd => \A r \in Requester : r \in wanted ~> (r \notin wanted \/ stop_flag)

\* stop(), or a stop_flag_ that was never cleared, ends the worker and the ad hoc server,
\* whatever they are doing, if moves come to an end and the connected client speaks or
\* goes: stop() interrupts neither.
StopEnds == MovesEnd /\ ClientsSpeak => (stop_flag ~> (wpc = "done" /\ spc = "done"))
=============================================================================
