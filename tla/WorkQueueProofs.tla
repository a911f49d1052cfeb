-------------------------- MODULE WorkQueueProofs --------------------------
(***************************************************************************)
(* The queue of WorkQueue never loses a request for a pass: proofs for any *)
(* number of releasing threads and any length of the queue.                *)
(*                                                                         *)
(* FlagMeansPending and RequestPending are inductive together with TypeOK: *)
(* a request that the flag turns away is pending because the flag is set   *)
(* (FlagMeansPending before the step), and every step that takes a ONESHOT *)
(* from one stage puts it into the next.                                   *)
(***************************************************************************)
EXTENDS WorkQueue, TLAPS

Holds(q) == \E i \in DOMAIN q : q[i] = "ONESHOT"

\* push() keeps what is queued and adds what is pushed.
LEMMA AppendHolds ==
    ASSUME NEW q \in Seq(Work), NEW w \in Work
    PROVE  /\ Append(q, w) \in Seq(Work)
           /\ Holds(q) => Holds(Append(q, w))
           /\ w = "ONESHOT" => Holds(Append(q, w))
<1>1. Append(q, w) \in Seq(Work) /\ Len(Append(q, w)) = Len(q) + 1
  OBVIOUS
<1>2. DOMAIN q = 1 .. Len(q) /\ DOMAIN Append(q, w) = 1 .. Len(q) + 1 /\ Len(q) \in Nat
  OBVIOUS
<1>3. \A i \in 1 .. Len(q) : Append(q, w)[i] = q[i]
  OBVIOUS
<1>4. Append(q, w)[Len(q) + 1] = w
  OBVIOUS
<1> QED BY <1>1, <1>2, <1>3, <1>4 DEF Holds

\* pop() takes the head and keeps the rest.
LEMMA TailHolds ==
    ASSUME NEW q \in Seq(Work), q # <<>>
    PROVE  /\ Tail(q) \in Seq(Work)
           /\ Holds(q) => Head(q) = "ONESHOT" \/ Holds(Tail(q))
<1>1. Tail(q) \in Seq(Work) /\ Len(Tail(q)) = Len(q) - 1 /\ Len(q) \in Nat \ {0}
  OBVIOUS
<1>2. DOMAIN q = 1 .. Len(q) /\ DOMAIN Tail(q) = 1 .. Len(q) - 1
  BY <1>1
<1>3. \A i \in 1 .. Len(q) - 1 : Tail(q)[i] = q[i + 1]
  OBVIOUS
<1>4. ASSUME NEW i \in DOMAIN q, q[i] = "ONESHOT", Head(q) # "ONESHOT"
      PROVE  Holds(Tail(q))
  <2>1. i # 1
    BY <1>4
  <2>2. i - 1 \in DOMAIN Tail(q) /\ Tail(q)[i - 1] = q[i]
    BY <1>1, <1>2, <1>3, <2>1
  <2> QED BY <2>2, <1>4 DEF Holds
<1> QED BY <1>1, <1>4 DEF Holds
-----------------------------------------------------------------------------
\* Only commands that are work are on their way into the queue.
Forwarded ==
    /\ spc = "test" => command = "ONESHOT"
    /\ spc = "push" => command \in Work
Typed == TypeOK /\ Forwarded

LEMMA TypeInit == Init => Typed
<1> SUFFICES ASSUME Init PROVE Typed
  OBVIOUS
<1>1. wpc \in WorkerPC
  <2>1. wpc = "tier" \/ wpc = "loop"
    BY Zenon DEF Init
  <2> QED BY <2>1 DEF WorkerPC
<1>2. queue \in Seq(Work) /\ epc \in [Enqueuer -> {"idle", "set", "push", "notify"}]
  BY DEF Init
<1> QED BY <1>1, <1>2 DEF Init, Typed, TypeOK, Forwarded, Command, ServerPC

\* Every step of WorkQueue keeps the types of its variables.
LEMMA TypeStep == Typed /\ [Next]_vars => Typed'
<1> SUFFICES ASSUME Typed, [Next]_vars PROVE Typed'
  OBVIOUS
<1> USE QueueAssumption DEF Typed, TypeOK, Forwarded, Enqueuer, Requester, Command, Work, WorkerPC, ServerPC
<1>1. CASE WorkerRuns \/ MoversEnd
  <2>1. CASE LoopTest
    <3>1. wpc' \in WorkerPC /\ late' \in BOOLEAN /\ nested' \in BOOLEAN
      BY <2>1, Zenon DEF LoopTest
    <3> QED BY <2>1, <3>1 DEF LoopTest, server
  <2>2. CASE TierStart
    BY <2>2 DEF TierStart, Step, server
  <2>3. CASE TierEnd
    <3>1. CASE nested = TRUE
      BY <2>3, <3>1 DEF TierEnd, Step, server
    <3>2. CASE nested = FALSE
      BY <2>3, <3>2 DEF TierEnd, Step, server
    <3> QED BY <3>1, <3>2
  <2>10. CASE PinEnd
    BY <2>10 DEF PinEnd, Step, server
  <2>4. CASE Drain
    <3>1. queue' \in Seq(Work)
      BY <2>4, TailHolds DEF Drain
    <3> QED BY <2>4, <3>1 DEF Drain, Step, server
  <2>5. CASE DrainEmpty
    BY <2>5 DEF DrainEmpty, Step, server
  <2>6. CASE Reset
    BY <2>6 DEF Reset, Step, server
  <2>7. CASE PinEnqueue
    BY <2>7 DEF PinEnqueue, EnqueueTest, Step, server
  <2>8. CASE SleepLock \/ SleepCheck
    BY <2>8 DEF SleepLock, SleepCheck, Step, server
  <2>9. CASE SleepWait \/ SleepTimeout \/ SleepEnd
    BY <2>9 DEF SleepWait, SleepTimeout, SleepEnd, Step, server
  <2> QED BY <1>1, <2>1, <2>2, <2>3, <2>4, <2>5, <2>6, <2>7, <2>8, <2>9, <2>10 DEF WorkerRuns, MoversEnd
<1>2. CASE Spurious \/ TimePasses
  <2>1. CASE Spurious
    BY <2>1 DEF Spurious, Step, server, worker
  <2>2. CASE TimePasses
    BY <2>2 DEF TimePasses, server, worker
  <2> QED BY <1>2, <2>1, <2>2
<1>3. ASSUME NEW e \in Releaser, ReleaseOverQuota(e) PROVE Typed'
  BY <1>3 DEF ReleaseOverQuota, EnqueueTest, server, worker
<1>4. ASSUME NEW e \in Enqueuer, EnqueueStep(e) PROVE Typed'
  <2>1. CASE EnqueueSet(e)
    BY <2>1 DEF EnqueueSet, server, worker
  <2>2. CASE EnqueuePush(e)
    <3>1. queue' \in Seq(Work)
      BY <2>2, AppendHolds DEF EnqueuePush
    <3> QED BY <2>2, <3>1 DEF EnqueuePush, server, worker
  <2>3. CASE EnqueueNotify(e)
    BY <2>3 DEF EnqueueNotify, Notified, server
  <2> QED BY <1>4, <2>1, <2>2, <2>3 DEF EnqueueStep
<1>5. CASE ClientStep
  <2>1. ASSUME NEW c \in Command, ServerReceive(c) PROVE Typed'
    BY <2>1 DEF ServerReceive, worker
  <2>2. CASE ServerConnect \/ ServerAcceptFails \/ ServerReceiveFails
    BY <2>2 DEF ServerConnect, ServerAcceptFails, ServerReceiveFails, ServerGoes, worker
  <2> QED BY <1>5, <2>1, <2>2 DEF ClientStep
<1>6. CASE ServerRuns
  <2>1. CASE ServerPush
    <3>1. queue' \in Seq(Work)
      BY <2>1, AppendHolds DEF ServerPush
    <3> QED BY <2>1, <3>1 DEF ServerPush, worker
  <2>2. CASE ServerTest \/ ServerLoop \/ ServerShutdown
    BY <2>2 DEF ServerTest, ServerLoop, ServerShutdown, ServerGoes, worker
  <2>3. CASE ServerNotify
    BY <2>3 DEF ServerNotify, Notified
  <2> QED BY <1>6, <2>1, <2>2, <2>3 DEF ServerRuns
<1>7. CASE StopLock \/ StopStep
  <2>1. CASE StopLock
    BY <2>1 DEF StopLock, server, worker
  <2>3. CASE StopSet
    BY <2>3 DEF StopSet, server, worker
  <2>2. CASE StopNotify
    <3>1. wpc' \in {wpc, "woken"}
      BY <2>2 DEF StopNotify, Notified
    <3> QED BY <2>2, <3>1 DEF StopNotify, server
  <2> QED BY <1>7, <2>1, <2>2, <2>3 DEF StopStep
<1>8. CASE UNCHANGED vars
  BY <1>8 DEF vars, server, worker
<1> QED BY <1>1, <1>2, <1>3, <1>4, <1>5, <1>6, <1>7, <1>8 DEF Next, Terminated
-----------------------------------------------------------------------------
\* The inductive invariant.
Inv == Typed /\ FlagMeansPending /\ RequestPending

\* Where a request for a pass can be.
Pending == Holds(queue) \/ Coming \/ Taken
ServerBrings == spc = "push" /\ command = "ONESHOT"

LEMMA Restated ==
    /\ FlagMeansPending <=> (oneshot_in_queue => Pending)
    /\ RequestPending <=> (wanted # {} => Pending \/ wpc = "tier" \/ ServerBrings)
BY DEF FlagMeansPending, RequestPending, Pending, ServerBrings, InQueue, Holds

\* A step that moves no request, wakes the worker at most, and adds none.
LEMMA NothingMoves ==
    ASSUME Inv, queue' = queue, oneshot_in_queue' = oneshot_in_queue, epc' = epc,
           wanted' = wanted, spc' = spc, command' = command,
           wpc' = wpc \/ (wpc # "reset" /\ wpc # "tier")
    PROVE  FlagMeansPending' /\ RequestPending'
<1>1. Pending => Pending'
  BY DEF Pending, Coming, Taken
<1>2. ServerBrings => ServerBrings'
  BY DEF ServerBrings
<1> QED BY <1>1, <1>2, Restated DEF Inv, FlagMeansPending, RequestPending, Pending,
      ServerBrings, Coming, Taken, InQueue, Holds

\* Every step hands a request that it takes from one place to the next.
LEMMA PendingStep == Inv /\ [Next]_vars => FlagMeansPending' /\ RequestPending'
<1> SUFFICES ASSUME Inv, [Next]_vars PROVE FlagMeansPending' /\ RequestPending'
  OBVIOUS
<1> USE DEF Pending, Coming, Taken, ServerBrings
<1>0. TypeOK /\ Forwarded /\ (oneshot_in_queue => Pending)
      /\ (wanted # {} => Pending \/ wpc = "tier" \/ ServerBrings)
  BY Restated DEF Inv, Typed
<1>a. \/ ~oneshot_in_queue'
      \/ Holds(queue') \/ (\E e \in Enqueuer : epc'[e] \in {"set", "push"})
      \/ wpc' = "reset"
      <=> FlagMeansPending'
  BY DEF FlagMeansPending, InQueue, Holds
<1>b. \/ wanted' = {} \/ Holds(queue')
      \/ (\E e \in Enqueuer : epc'[e] \in {"set", "push"})
      \/ wpc' = "reset" \/ wpc' = "tier" \/ (spc' = "push" /\ command' = "ONESHOT")
      <=> RequestPending'
  BY DEF RequestPending, InQueue, Holds
<1>1. CASE WorkerRuns \/ MoversEnd
  <2>1. CASE LoopTest \/ TierEnd \/ PinEnd \/ DrainEmpty \/ SleepLock \/ SleepCheck \/ SleepWait
             \/ SleepTimeout \/ SleepEnd
    <3>1. UNCHANGED <<queue, oneshot_in_queue, epc, wanted, spc, command>>
      BY <2>1 DEF LoopTest, TierEnd, PinEnd, DrainEmpty, SleepLock, SleepCheck, SleepWait,
         SleepTimeout, SleepEnd, server
    <3>2. wpc # "reset" /\ wpc # "tier"
      BY <2>1 DEF LoopTest, TierEnd, PinEnd, DrainEmpty, SleepLock, SleepCheck, SleepWait,
         SleepTimeout, SleepEnd, Step
    <3> QED BY <3>1, <3>2, NothingMoves
  <2>2. CASE TierStart
    BY <2>2, <1>0, <1>a, <1>b DEF TierStart, Step
  <2>3. CASE Drain
    <3>1. Holds(queue) => Head(queue) = "ONESHOT" \/ Holds(queue')
      BY <2>3, <1>0, TailHolds DEF Drain, TypeOK
    <3>2. Head(queue) = "ONESHOT" => wpc' = "reset"
      BY <2>3 DEF Drain, Step
    <3>3. UNCHANGED <<oneshot_in_queue, epc, wanted, spc, command>> /\ wpc = "drain"
      BY <2>3 DEF Drain, Step, server
    <3> QED BY <3>1, <3>2, <3>3, <1>0, <1>a, <1>b
  <2>4. CASE Reset
    BY <2>4, <1>a, <1>b DEF Reset, Step
  <2>5. CASE PinEnqueue
    <3>1. epc'[Worker] = "set" \/ oneshot_in_queue
      BY <2>5, <1>0, QueueAssumption DEF PinEnqueue, EnqueueTest, TypeOK, Enqueuer
    <3>2. \A e \in Enqueuer : epc[e] \in {"set", "push"} => epc'[e] = epc[e]
      BY <2>5, <1>0 DEF PinEnqueue, EnqueueTest, TypeOK
    <3>3. UNCHANGED <<queue, oneshot_in_queue>> /\ wpc = "enqueue"
      BY <2>5 DEF PinEnqueue, Step
    <3> QED BY <3>1, <3>2, <3>3, <1>0, <1>a, <1>b DEF Enqueuer
  <2> QED BY <1>1, <2>1, <2>2, <2>3, <2>4, <2>5 DEF WorkerRuns, MoversEnd
<1>2. CASE Spurious \/ TimePasses
  BY <1>2, NothingMoves DEF Spurious, TimePasses, Step, server, worker
<1>3. ASSUME NEW e \in Releaser, ReleaseOverQuota(e)
      PROVE  FlagMeansPending' /\ RequestPending'
  <2>1. epc'[e] = "set" \/ oneshot_in_queue
    BY <1>3, <1>0 DEF ReleaseOverQuota, EnqueueTest, TypeOK, Enqueuer
  <2>2. \A d \in Enqueuer : epc[d] \in {"set", "push"} => epc'[d] = epc[d]
    BY <1>3, <1>0 DEF ReleaseOverQuota, EnqueueTest, TypeOK
  <2>3. UNCHANGED <<queue, oneshot_in_queue, wpc>>
    BY <1>3 DEF ReleaseOverQuota, worker
  <2> QED BY <2>1, <2>2, <2>3, <1>0, <1>a, <1>b DEF Enqueuer
<1>4. ASSUME NEW e \in Enqueuer, EnqueueStep(e)
      PROVE  FlagMeansPending' /\ RequestPending'
  <2>1. CASE EnqueueSet(e)
    BY <2>1, <1>0, <1>a, <1>b DEF EnqueueSet, TypeOK
  <2>2. CASE EnqueuePush(e)
    <3>1. Holds(queue')
      BY <2>2, <1>0, AppendHolds DEF EnqueuePush, TypeOK, Work
    <3> QED BY <3>1, <1>a, <1>b
  <2>3. CASE EnqueueNotify(e)
    <3>1. \A d \in Enqueuer : epc[d] \in {"set", "push"} => epc'[d] = epc[d]
      BY <2>3, <1>0 DEF EnqueueNotify, TypeOK
    <3>2. wpc \in {"reset", "tier"} => wpc' = wpc
      BY <2>3 DEF EnqueueNotify, Notified
    <3>3. UNCHANGED <<queue, oneshot_in_queue, wanted, spc, command>>
      BY <2>3 DEF EnqueueNotify, server
    <3> QED BY <3>1, <3>2, <3>3, <1>0, <1>a, <1>b
  <2> QED BY <1>4, <2>1, <2>2, <2>3 DEF EnqueueStep
<1>5. CASE ClientStep
  <2>1. ~ServerBrings /\ UNCHANGED <<queue, oneshot_in_queue, epc, wanted, wpc>>
    BY <1>5 DEF ClientStep, ServerConnect, ServerAcceptFails, ServerReceive,
       ServerReceiveFails, ServerGoes, worker
  <2> QED BY <2>1, <1>0, <1>a, <1>b
<1>6. CASE ServerRuns
  <2>1. CASE ServerTest
    <3>1. UNCHANGED <<queue, oneshot_in_queue, epc, wpc, command>> /\ spc = "test"
      BY <2>1 DEF ServerTest, worker
    <3>2. (currently_tiering /\ wanted' = wanted) \/ (spc' = "push" /\ command = "ONESHOT")
      BY <2>1, <1>0 DEF ServerTest, Forwarded
    <3> QED BY <3>1, <3>2, <1>0, <1>a, <1>b
  <2>2. CASE ServerPush
    <3>1. Holds(queue) \/ command = "ONESHOT" => Holds(queue')
      BY <2>2, <1>0, AppendHolds DEF ServerPush, TypeOK, Forwarded
    <3>2. UNCHANGED <<oneshot_in_queue, epc, wpc, wanted>>
      BY <2>2 DEF ServerPush, worker
    <3> QED BY <3>1, <3>2, <1>0, <1>a, <1>b
  <2>3. CASE ServerNotify
    <3>1. wpc \in {"reset", "tier"} => wpc' = wpc
      BY <2>3 DEF ServerNotify, Notified
    <3>2. UNCHANGED <<queue, oneshot_in_queue, epc, wanted>> /\ spc = "notify"
      BY <2>3 DEF ServerNotify
    <3> QED BY <3>1, <3>2, <1>0, <1>a, <1>b
  <2>4. CASE ServerLoop \/ ServerShutdown
    <3>1. UNCHANGED <<queue, oneshot_in_queue, epc, wanted, wpc>> /\ ~ServerBrings
      BY <2>4 DEF ServerLoop, ServerShutdown, ServerGoes, worker
    <3> QED BY <3>1, <1>0, <1>a, <1>b
  <2> QED BY <1>6, <2>1, <2>2, <2>3, <2>4 DEF ServerRuns
<1>7. CASE StopLock \/ StopStep
  <2>1. wpc \in {"reset", "tier"} => wpc' = wpc
    BY <1>7 DEF StopLock, StopStep, StopSet, StopNotify, Notified, worker
  <2>2. UNCHANGED <<queue, oneshot_in_queue, epc, wanted, spc, command>>
    BY <1>7 DEF StopLock, StopStep, StopSet, StopNotify, server
  <2> QED BY <2>1, <2>2, <1>0, <1>a, <1>b
<1>8. CASE UNCHANGED vars
  BY <1>8, <1>0, <1>a, <1>b DEF vars, server, worker
<1> QED BY <1>1, <1>2, <1>3, <1>4, <1>5, <1>6, <1>7, <1>8 DEF Next, Terminated
-----------------------------------------------------------------------------
LEMMA Invariant == Spec => []Inv
<1>1. Init => Inv
  BY TypeInit DEF Init, Inv, FlagMeansPending, RequestPending
<1>2. Inv /\ [Next]_vars => Inv'
  BY TypeStep, PendingStep DEF Inv
<1> QED BY <1>1, <1>2, PTL DEF Spec

\* The queue, the flags and the threads' positions stay well-typed: only work is queued.
THEOREM QueueTypeCorrect == Spec => []TypeOK
<1>1. Inv => TypeOK
  BY DEF Inv, Typed
<1> QED BY <1>1, Invariant, PTL

\* Whenever oneshot_in_queue_ turns a request away, a pass that has not started is still
\* to come, with any number of threads in release() and any order of their steps.
THEOREM CoalescingCorrect == Spec => []FlagMeansPending
<1>1. Inv => FlagMeansPending
  BY DEF Inv
<1> QED BY <1>1, Invariant, PTL

\* No accepted or coalesced request for a pass is forgotten before a pass starts.
THEOREM RequestsKept == Spec => []RequestPending
<1>1. Inv => RequestPending
  BY DEF Inv
<1> QED BY <1>1, Invariant, PTL
=============================================================================
