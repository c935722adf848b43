-------------------------- MODULE ThreadPoolProofs --------------------------
(***************************************************************************)
(* ThreadPool for any number of workers and callers and any queue limit:   *)
(* no lost wakeup on either condition, nobody asleep after stop(), at most *)
(* one task per worker after stop().                                       *)
(***************************************************************************)
EXTENDS ThreadPool, FiniteSetTheorems, SequenceTheorems, TLAPS

-----------------------------------------------------------------------------
\* pc after a notify: the caller is at next, at most waiters have moved.
PcMoved(waiting, retry, t, next) ==
  /\ pc' \in [Threads -> WorkerStates \cup CallerStates \cup {"idle"}]
  /\ \A w \in Workers : pc'[w] # "idle"
  /\ \A p \in Producers : pc'[p] \notin WorkerStates
  /\ \A u \in Threads \ {t} :
       pc'[u] = pc[u] \/ (pc[u] = waiting /\ pc'[u] = retry)
  /\ pc'[t] = next

\* What notify does to pc: the caller moves, and perhaps one waiter.
LEMMA NotifyType ==
  ASSUME TypeOK, NEW waiting, NEW retry, NEW t \in Threads, NEW next,
         Notify(waiting, retry, t, next),
         <<waiting, retry>> \in {<<"notFull", "run">>, <<"notEmpty", "take">>},
         next \in WorkerStates \cup CallerStates \cup {"idle"},
         pc[t] # waiting,
         t \in Workers => next # "idle",
         t \in Producers => next \notin WorkerStates
  PROVE  PcMoved(waiting, retry, t, next)
<1> USE DEF TypeOK, WorkerStates, CallerStates
<1> USE DEF PcMoved, Threads
<1>1. CASE pc' = [pc EXCEPT ![t] = next]
  BY <1>1
<1>2. ASSUME NEW u \in At(waiting), pc' = [pc EXCEPT ![t] = next, ![u] = retry]
      PROVE  PcMoved(waiting, retry, t, next)
  <2>1. u \in Threads /\ pc[u] = waiting
    BY DEF At
  <2> QED BY <1>2, <2>1
<1> HIDE DEF PcMoved
<1> QED BY <1>1, <1>2 DEF Notify

\* take() and run() move themselves and at most one waiter of the other kind.
LEMMA TakeMoves ==
  ASSUME TypeOK, NEW w \in Workers, TakeTask(w)
  PROVE  PcMoved("notFull", "run", w, "busy")
<1> USE PoolAssumption DEF TakeTask, WorkerStates, CallerStates
<1>1. w \in Threads /\ w \notin Producers /\ pc[w] # "notFull"
  BY DEF Threads
<1>2. CASE MaxQueueSz > 0
  BY <1>1, <1>2, NotifyType
<1>3. CASE ~(MaxQueueSz > 0)
  BY <1>1, <1>3 DEF PcMoved, TypeOK, Threads
<1> QED BY <1>2, <1>3

LEMMA PushMoves ==
  ASSUME TypeOK, NEW t \in Threads, RunPush(t)
  PROVE  PcMoved("notEmpty", "take", t, Returned(t))
<1>1. /\ Notify("notEmpty", "take", t, Returned(t))
      /\ pc[t] # "notEmpty"
      /\ Returned(t) \in {"busy", "idle"}
      /\ t \in Workers => Returned(t) # "idle"
      /\ t \in Producers => Returned(t) = "idle"
  BY PoolAssumption DEF RunPush, Returned
<1> QED BY <1>1, NotifyType DEF WorkerStates

\* Every step keeps the variables in range.
LEMMA TypeStep == TypeOK /\ [Next]_vars => TypeOK'
<1> SUFFICES ASSUME TypeOK, [Next]_vars PROVE TypeOK'
  OBVIOUS
<1> USE PoolAssumption DEF TypeOK, WorkerStates, CallerStates, Threads
<1>1. ASSUME NEW w \in Workers, CheckRunning(w) PROVE TypeOK'
  BY <1>1 DEF CheckRunning
<1>2. ASSUME NEW w \in Workers, TakeWait(w) PROVE TypeOK'
  BY <1>2 DEF TakeWait
<1>3. ASSUME NEW w \in Workers, TakeTask(w) PROVE TypeOK'
  <2>1. queue_' \in Seq(Task)
    BY <1>3, HeadTailProperties DEF TakeTask
  <2>2. late' \in [Workers -> Nat]
    BY <1>3 DEF TakeTask
  <2> HIDE DEF TypeOK
  <2>3. PcMoved("notFull", "run", w, "busy")
    BY <1>3, TakeMoves
  <2> QED BY <1>3, <2>1, <2>2, <2>3 DEF TakeTask, PcMoved, TypeOK
<1>4. ASSUME NEW w \in Workers, TakeNothing(w) PROVE TypeOK'
  BY <1>4 DEF TakeNothing
<1>5. ASSUME NEW w \in Workers, FinishTask(w) PROVE TypeOK'
  BY <1>5 DEF FinishTask
<1>6. ASSUME NEW t \in Threads, NEW x \in Task, CallRun(t, x) PROVE TypeOK'
  BY <1>6 DEF CallRun
<1>7. ASSUME NEW t \in Threads, RunWait(t) PROVE TypeOK'
  BY <1>7 DEF RunWait
<1>8. ASSUME NEW t \in Threads, RunPush(t) PROVE TypeOK'
  <2>1. queue_' \in Seq(Task)
    BY <1>8, AppendProperties DEF RunPush
  <2>2. arg' \in [Threads -> Task \cup {NoTask}]
    BY <1>8 DEF RunPush
  <2>3. Returned(t) \notin CallerStates
    BY DEF Returned
  <2> HIDE DEF TypeOK
  <2>4. PcMoved("notEmpty", "take", t, Returned(t))
    BY <1>8, PushMoves
  <2> QED BY <1>8, <2>1, <2>2, <2>3, <2>4 DEF RunPush, PcMoved, TypeOK
<1>9. ASSUME NEW t \in Threads, RunStopped(t) PROVE TypeOK'
  BY <1>9 DEF RunStopped, Returned
<1>10. CASE Start BY <1>10 DEF Start
<1>11. CASE Stop BY <1>11 DEF Stop
<1>12. CASE StopJoined BY <1>12 DEF StopJoined
<1>13. ASSUME NEW t \in Threads, SpuriousWakeup(t) PROVE TypeOK'
  BY <1>13 DEF SpuriousWakeup
<1>14. CASE UNCHANGED vars BY <1>14 DEF vars
<1> HIDE DEF TypeOK, Threads
<1> QED BY <1>1, <1>2, <1>3, <1>4, <1>5, <1>6, <1>7, <1>8, <1>9, <1>10,
           <1>11, <1>12, <1>13, <1>14 DEF Next, WorkerStep, RunStep

\* The pool's state always has the types of the code's members.
THEOREM ThreadPoolTypeOK == Spec => []TypeOK
<1>1. ASSUME Init PROVE TypeOK
  <2> USE <1>1, PoolAssumption DEF Init, WorkerStates, CallerStates, Threads
  <2>1. \A t \in Threads : pc[t] = IF t \in Workers THEN "unborn" ELSE "idle"
    OBVIOUS
  <2>2. pc \in [Threads -> WorkerStates \cup CallerStates \cup {"idle"}]
    OBVIOUS
  <2>3. /\ arg \in [Threads -> Task \cup {NoTask}]
        /\ late \in [Workers -> Nat]
    OBVIOUS
  <2>4. queue_ \in Seq(Task)
    BY EmptySeq
  <2> QED BY <2>1, <2>2, <2>3, <2>4 DEF TypeOK
<1> QED BY <1>1, TypeStep, PTL DEF Spec

-----------------------------------------------------------------------------
(* After stop().                                                           *)

OwnerInv == /\ running_ <=> owner = "started"
            /\ owner = "new" => \A w \in Workers : pc[w] = "unborn"
LateInv ==
  /\ running_ \/ owner = "new" => \A w \in Workers : late[w] = 0
  /\ \A w \in Workers : late[w] <= IF pc[w] \in {"take", "notEmpty"} THEN 0 ELSE 1

StopInv == OwnerInv /\ NobodySleepsAfterStop /\ LateInv

\* Every step preserves what holds after stop().
LEMMA StopStep == TypeOK /\ StopInv /\ [Next]_vars => StopInv'
<1> SUFFICES ASSUME TypeOK, StopInv, [Next]_vars PROVE StopInv'
  OBVIOUS
<1> USE PoolAssumption
    DEF TypeOK, WorkerStates, CallerStates, Threads, At,
        StopInv, OwnerInv, NobodySleepsAfterStop, LateInv
<1>1. ASSUME NEW w \in Workers, CheckRunning(w) PROVE StopInv'
  BY <1>1 DEF CheckRunning
<1>2. ASSUME NEW w \in Workers, TakeWait(w) PROVE StopInv'
  BY <1>2 DEF TakeWait
<1>3. ASSUME NEW w \in Workers, TakeTask(w) PROVE StopInv'
  <2>1. PcMoved("notFull", "run", w, "busy")
    <3> HIDE DEF TypeOK
    <3> QED BY <1>3, TakeMoves
  <2>2. /\ \A v \in Workers \ {w} : late'[v] = late[v]
        /\ running_ => late'[w] = late[w]
        /\ ~running_ => late'[w] = late[w] + 1
    BY <1>3 DEF TakeTask
  <2>3. \A v \in Workers \ {w} : pc'[v] \in {"take", "notEmpty"} => pc'[v] = pc[v]
    BY <1>3, <2>1 DEF TakeTask, PcMoved
  <2>4. pc[w] = "take" /\ pc'[w] = "busy" /\ UNCHANGED <<running_, owner>>
    BY <1>3, <2>1 DEF TakeTask, PcMoved
  <2>5. owner # "new"
    BY <2>4
  <2>6. OwnerInv' /\ NobodySleepsAfterStop'
    BY <2>1, <2>4 DEF PcMoved
  <2>7. LateInv'
    BY <2>2, <2>3, <2>4, <2>5
  <2> QED BY <2>6, <2>7
<1>4. ASSUME NEW w \in Workers, TakeNothing(w) PROVE StopInv'
  BY <1>4 DEF TakeNothing
<1>5. ASSUME NEW w \in Workers, FinishTask(w) PROVE StopInv'
  BY <1>5 DEF FinishTask
<1>6. ASSUME NEW t \in Threads, NEW x \in Task, CallRun(t, x) PROVE StopInv'
  BY <1>6 DEF CallRun
<1>7. ASSUME NEW t \in Threads, RunWait(t) PROVE StopInv'
  BY <1>7 DEF RunWait
<1>8. ASSUME NEW t \in Threads, RunPush(t) PROVE StopInv'
  <2>1. PcMoved("notEmpty", "take", t, Returned(t))
    <3> HIDE DEF TypeOK
    <3> QED BY <1>8, PushMoves
  <2>2. Returned(t) \notin {"take", "notEmpty", "notFull"}
    BY DEF Returned
  <2> QED BY <1>8, <2>1, <2>2 DEF RunPush, PcMoved
<1>9. ASSUME NEW t \in Threads, RunStopped(t) PROVE StopInv'
  BY <1>9 DEF RunStopped, Returned
<1>10. CASE Start BY <1>10 DEF Start
<1>11. CASE Stop BY <1>11 DEF Stop
<1>12. CASE StopJoined BY <1>12 DEF StopJoined
<1>13. ASSUME NEW t \in Threads, SpuriousWakeup(t) PROVE StopInv'
  BY <1>13 DEF SpuriousWakeup
<1>14. CASE UNCHANGED vars BY <1>14 DEF vars
<1> HIDE DEF StopInv, TypeOK, Threads
<1> QED BY <1>1, <1>2, <1>3, <1>4, <1>5, <1>6, <1>7, <1>8, <1>9, <1>10,
           <1>11, <1>12, <1>13, <1>14 DEF Next, WorkerStep, RunStep

\* The invariant behind the two theorems about stop().
LEMMA StopInvariant == Spec => []StopInv
<1>1. Init => StopInv
  BY PoolAssumption DEF Init, StopInv, OwnerInv, NobodySleepsAfterStop, LateInv,
     At, Threads
<1> QED BY <1>1, StopStep, ThreadPoolTypeOK, PTL DEF Spec

\* stop() wakes everybody up, and nobody goes to sleep after it.
THEOREM ThreadPoolNobodySleepsAfterStop == Spec => []NobodySleepsAfterStop
BY StopInvariant, PTL DEF StopInv

\* A worker starts at most one more task after stop() began.
THEOREM ThreadPoolAtMostOneLateTask == Spec => []AtMostOneLateTask
<1>1. TypeOK /\ StopInv => AtMostOneLateTask
  BY DEF TypeOK, StopInv, LateInv, AtMostOneLateTask
<1> QED BY <1>1, StopInvariant, ThreadPoolTypeOK, PTL

-----------------------------------------------------------------------------
(* No lost wakeup on notEmpty_ and notFull_: the counting invariants are   *)
(* inductive once NobodySleepsAfterStop is known.                          *)

\* The threads at a program point are a finite set, before and after a step.
LEMMA FiniteAt ==
  ASSUME NEW state
  PROVE  /\ IsFiniteSet(At(state)) /\ Cardinality(At(state)) \in Nat
         /\ IsFiniteSet(At(state)') /\ Cardinality(At(state)') \in Nat
<1>1. IsFiniteSet(Threads)
  BY PoolAssumption, FS_Union DEF Threads
<1>2. At(state) \in SUBSET Threads /\ At(state)' \in SUBSET Threads
  BY DEF At
<1>3. IsFiniteSet(At(state)) /\ IsFiniteSet(At(state)')
  BY <1>1, <1>2, FS_Subset
<1> QED BY <1>3, FS_CardinalityType

\* Cardinality is monotonic on program points.
LEMMA MoreAt ==
  ASSUME NEW state, At(state) \subseteq At(state)'
  PROVE  Cardinality(At(state)) <= Cardinality(At(state)')
<1>1. At(state) \in SUBSET (At(state)')
  OBVIOUS
<1> QED BY <1>1, FiniteAt, FS_Subset

\* Leaving the queue empty or not being able to sleep settles the worker side;
\* otherwise a pop removes one taker and a push adds one.
LEMMA SleepingWorkerStep ==
  TypeOK /\ StopInv /\ NoSleepingWorker /\ [Next]_vars => NoSleepingWorker'
<1> SUFFICES ASSUME TypeOK, StopInv, NoSleepingWorker, [Next]_vars,
                    At("notEmpty")' # {}
             PROVE  (Len(queue_) <= Cardinality(At("take")))'
  BY DEF NoSleepingWorker
<1>a. /\ Cardinality(At("take")) \in Nat
      /\ Cardinality(At("take")') \in Nat
      /\ IsFiniteSet(At("take"))
      /\ Len(queue_) \in Nat
  BY FiniteAt, LenProperties DEF TypeOK
<1>m. ASSUME At("notEmpty")' \subseteq At("notEmpty"),
             At("take") \subseteq At("take")',
             queue_' = queue_
      PROVE  (Len(queue_) <= Cardinality(At("take")))'
  BY <1>m, <1>a, MoreAt DEF NoSleepingWorker
<1>e. ASSUME queue_' = <<>> PROVE (Len(queue_) <= Cardinality(At("take")))'
  BY <1>e, <1>a, EmptySeq
<1> USE PoolAssumption DEF TypeOK, WorkerStates, CallerStates, Threads, At
<1>1. ASSUME NEW w \in Workers, CheckRunning(w)
      PROVE  At("notEmpty")' \subseteq At("notEmpty")
             /\ At("take") \subseteq At("take")' /\ queue_' = queue_
  BY <1>1 DEF CheckRunning
<1>2. ASSUME NEW w \in Workers, TakeWait(w) \/ TakeNothing(w)
      PROVE  queue_' = <<>>
  BY <1>2 DEF TakeWait, TakeNothing
<1>3. ASSUME NEW w \in Workers, TakeTask(w)
      PROVE  (Len(queue_) <= Cardinality(At("take")))'
  <2>1. PcMoved("notFull", "run", w, "busy")
    <3> HIDE DEF TypeOK
    <3> QED BY <1>3, TakeMoves
  <2>2. /\ At("take")' = At("take") \ {w}
        /\ At("notEmpty")' = At("notEmpty")
        /\ w \in At("take")
    BY <1>3, <2>1 DEF PcMoved, TakeTask
  <2>3. Len(queue_') = Len(queue_) - 1
    BY <1>3, HeadTailProperties DEF TakeTask
  <2> HIDE DEF At
  <2>4. Cardinality(At("take")') = Cardinality(At("take")) - 1
    BY <2>2, <1>a, FS_RemoveElement
  <2> QED BY <2>2, <2>3, <2>4, <1>a DEF NoSleepingWorker
<1>4. ASSUME NEW w \in Workers, FinishTask(w)
      PROVE  At("notEmpty")' \subseteq At("notEmpty")
             /\ At("take") \subseteq At("take")' /\ queue_' = queue_
  BY <1>4 DEF FinishTask
<1>5. ASSUME NEW t \in Threads, NEW x \in Task, CallRun(t, x)
      PROVE  At("notEmpty")' \subseteq At("notEmpty")
             /\ At("take") \subseteq At("take")' /\ queue_' = queue_
  BY <1>5 DEF CallRun, Returned
<1>6. ASSUME NEW t \in Threads, RunWait(t) \/ RunStopped(t)
      PROVE  At("notEmpty")' \subseteq At("notEmpty")
             /\ At("take") \subseteq At("take")' /\ queue_' = queue_
  BY <1>6 DEF RunWait, RunStopped, Returned
<1>7. ASSUME NEW t \in Threads, RunPush(t)
      PROVE  (Len(queue_) <= Cardinality(At("take")))'
  <2>1. Returned(t) \notin {"take", "notEmpty", "run"} /\ pc[t] = "run"
    BY <1>7 DEF Returned, RunPush
  <2>2. At("notEmpty") # {}
    BY <1>7, <2>1 DEF RunPush, Notify
  <2>3. PICK u \in At("notEmpty") :
          pc' = [pc EXCEPT ![t] = Returned(t), ![u] = "take"]
    BY <1>7, <2>2 DEF RunPush, Notify
  <2>4. At("take")' = At("take") \cup {u} /\ u \notin At("take")
    BY <2>1, <2>3
  <2>5. Len(queue_') = Len(queue_) + 1
    BY <1>7, <2>1, AppendProperties DEF RunPush
  <2> HIDE DEF At
  <2>6. Cardinality(At("take")') = Cardinality(At("take")) + 1
    BY <2>4, <1>a, FS_AddElement
  <2> QED BY <2>2, <2>5, <2>6, <1>a DEF NoSleepingWorker
<1>8. ASSUME Start \/ Stop PROVE FALSE
  BY <1>8 DEF Start, Stop
<1>9. CASE StopJoined \/ UNCHANGED vars
  <2>1. UNCHANGED <<pc, queue_>>
    BY <1>9 DEF StopJoined, vars
  <2> QED BY <2>1, <1>m
<1>10. ASSUME NEW t \in Threads, SpuriousWakeup(t)
       PROVE  At("notEmpty")' \subseteq At("notEmpty")
              /\ At("take") \subseteq At("take")' /\ queue_' = queue_
  BY <1>10 DEF SpuriousWakeup
<1> HIDE DEF TypeOK, Threads, At
<1> QED BY <1>m, <1>e, <1>1, <1>2, <1>3, <1>4, <1>5, <1>6, <1>7, <1>8, <1>9,
           <1>10 DEF Next, WorkerStep, RunStep

\* The caller side mirrors it: a push uses up one caller and one free slot,
\* a pop frees a slot and wakes one caller up.
LEMMA SleepingCallerStep ==
  TypeOK /\ StopInv /\ NoSleepingCaller /\ [Next]_vars => NoSleepingCaller'
<1> DEFINE Goal == (MaxQueueSz - Len(queue_) <= Cardinality(At("run")))'
           Quiet == /\ At("notFull")' \subseteq At("notFull")
                    /\ At("run") \subseteq At("run")'
                    /\ queue_' = queue_
<1> SUFFICES ASSUME TypeOK, StopInv, NoSleepingCaller, [Next]_vars,
                    At("notFull")' # {}
             PROVE  Goal
  BY DEF NoSleepingCaller
<1>a. /\ Cardinality(At("run")) \in Nat
      /\ Cardinality(At("run")') \in Nat
      /\ IsFiniteSet(At("run"))
      /\ Len(queue_) \in Nat
      /\ MaxQueueSz \in Nat
  BY FiniteAt, LenProperties, PoolAssumption DEF TypeOK
<1>m. ASSUME Quiet PROVE Goal
  BY <1>m, <1>a, MoreAt DEF NoSleepingCaller
<1> USE PoolAssumption DEF TypeOK, WorkerStates, CallerStates, Threads, At
<1>1. ASSUME NEW w \in Workers,
             CheckRunning(w) \/ TakeWait(w) \/ TakeNothing(w) \/ FinishTask(w)
      PROVE  Quiet
  BY <1>1 DEF CheckRunning, TakeWait, TakeNothing, FinishTask
<1>2. ASSUME NEW w \in Workers, TakeTask(w) PROVE Goal
  <2>1. Len(queue_') = Len(queue_) - 1 /\ Len(queue_) > 0
    BY <1>2, HeadTailProperties, EmptySeq DEF TakeTask
  <2>2. CASE MaxQueueSz = 0
    BY <2>1, <2>2, <1>a
  <2>3. CASE MaxQueueSz > 0
    <3>1. At("notFull") # {}
      BY <1>2, <2>3 DEF TakeTask, Notify
    <3>2. PICK u \in At("notFull") : pc' = [pc EXCEPT ![w] = "busy", ![u] = "run"]
      BY <1>2, <2>3, <3>1 DEF TakeTask, Notify
    <3>3. At("run")' = At("run") \cup {u} /\ u \notin At("run")
      BY <1>2, <3>2 DEF TakeTask
    <3> HIDE DEF At
    <3>4. Cardinality(At("run")') = Cardinality(At("run")) + 1
      BY <3>3, <1>a, FS_AddElement
    <3> QED BY <3>1, <3>4, <2>1, <1>a DEF NoSleepingCaller
  <2> QED BY <2>2, <2>3
<1>3. ASSUME NEW t \in Threads, NEW x \in Task, CallRun(t, x) PROVE Quiet
  BY <1>3 DEF CallRun, Returned
<1>4. ASSUME NEW t \in Threads, RunWait(t) PROVE Goal
  BY <1>4, <1>a DEF RunWait, IsFull
<1>5. ASSUME NEW t \in Threads, RunPush(t) PROVE Goal
  <2>1. PcMoved("notEmpty", "take", t, Returned(t))
    <3> HIDE DEF TypeOK
    <3> QED BY <1>5, PushMoves
  <2>2. Returned(t) \notin {"run", "notFull"} /\ pc[t] = "run"
    BY <1>5 DEF Returned, RunPush
  <2>3. /\ At("run")' = At("run") \ {t}
        /\ At("notFull")' = At("notFull")
        /\ t \in At("run")
    BY <2>1, <2>2 DEF PcMoved
  <2>4. Len(queue_') = Len(queue_) + 1
    BY <1>5, <2>2, AppendProperties DEF RunPush
  <2> HIDE DEF At
  <2>5. Cardinality(At("run")') = Cardinality(At("run")) - 1
    BY <2>3, <1>a, FS_RemoveElement
  <2> QED BY <2>3, <2>4, <2>5, <1>a DEF NoSleepingCaller
<1>6. ASSUME NEW t \in Threads, RunStopped(t) PROVE FALSE
  BY <1>6 DEF RunStopped, Returned, StopInv, NobodySleepsAfterStop
<1>7. ASSUME Start \/ Stop PROVE FALSE
  BY <1>7 DEF Start, Stop, StopInv, OwnerInv, NobodySleepsAfterStop
<1>8. CASE StopJoined \/ UNCHANGED vars
  <2>1. UNCHANGED <<pc, queue_>>
    BY <1>8 DEF StopJoined, vars
  <2> QED BY <2>1, <1>m
<1>9. ASSUME NEW t \in Threads, SpuriousWakeup(t) PROVE Quiet
  BY <1>9 DEF SpuriousWakeup
<1> HIDE DEF TypeOK, Threads, At, Goal, Quiet
<1> QED BY <1>m, <1>1, <1>2, <1>3, <1>4, <1>5, <1>6, <1>7, <1>8, <1>9
        DEF Next, WorkerStep, RunStep

\* While a worker sleeps, each queued task has an awake worker coming for it:
\* one notify per push_back is enough.
THEOREM ThreadPoolNoSleepingWorker == Spec => []NoSleepingWorker
<1>1. Init => NoSleepingWorker
  BY DEF Init, NoSleepingWorker, At, Threads
<1> QED BY <1>1, SleepingWorkerStep, StopInvariant, ThreadPoolTypeOK, PTL
        DEF Spec

\* While a caller of run() sleeps, each free slot has an awake caller coming
\* for it: one notify per pop_front is enough.
THEOREM ThreadPoolNoSleepingCaller == Spec => []NoSleepingCaller
<1>1. Init => NoSleepingCaller
  BY DEF Init, NoSleepingCaller, At, Threads
<1> QED BY <1>1, SleepingCallerStep, StopInvariant, ThreadPoolTypeOK, PTL
        DEF Spec

\* The queue never exceeds maxQueueSz_.
THEOREM ThreadPoolQueueBounded == Spec => []QueueBounded
<1>1. Init => QueueBounded
  BY PoolAssumption, EmptySeq DEF Init, QueueBounded
<1>2. TypeOK /\ QueueBounded /\ [Next]_vars => QueueBounded'
  <2> SUFFICES ASSUME TypeOK, QueueBounded, [Next]_vars PROVE QueueBounded'
    OBVIOUS
  <2>1. ASSUME NEW t \in Threads, RunPush(t) PROVE QueueBounded'
    <3>1. arg[t] \in Task
      BY <2>1 DEF TypeOK, RunPush, CallerStates
    <3>2. Len(queue_') = Len(queue_) + 1
      BY <2>1, <3>1, AppendProperties DEF RunPush, TypeOK
    <3> QED BY <2>1, <3>2, PoolAssumption, LenProperties
            DEF RunPush, IsFull, QueueBounded, TypeOK
  <2>2. ASSUME NEW w \in Workers, TakeTask(w) PROVE QueueBounded'
    <3>1. Len(queue_') = Len(queue_) - 1
      BY <2>2, HeadTailProperties DEF TakeTask, TypeOK
    <3> QED BY <3>1, PoolAssumption, LenProperties DEF QueueBounded, TypeOK
  <2>3. ASSUME queue_' = queue_ PROVE QueueBounded'
    BY <2>3 DEF QueueBounded
  <2> QED BY <2>1, <2>2, <2>3
          DEF Next, WorkerStep, RunStep, CheckRunning, TakeWait, TakeNothing,
              FinishTask, CallRun, RunWait, RunStopped, Start, Stop, StopJoined,
              SpuriousWakeup, vars
<1> QED BY <1>1, <1>2, ThreadPoolTypeOK, PTL DEF Spec

\* run() and take(): a bounded queue on which no notification is lost, for any
\* number of workers and callers.
THEOREM ThreadPoolNoSleeper == Spec => []NoSleeper
<1>1. TypeOK /\ QueueBounded /\ NoSleepingWorker /\ NoSleepingCaller => NoSleeper
  BY DEF NoSleeper
<1> QED BY <1>1, ThreadPoolTypeOK, ThreadPoolQueueBounded,
           ThreadPoolNoSleepingWorker, ThreadPoolNoSleepingCaller, PTL

\* stop(): nobody sleeps afterwards, and a worker takes at most one more task.
THEOREM ThreadPoolStoppedCleanly == Spec => []StoppedCleanly
<1>1. NobodySleepsAfterStop /\ AtMostOneLateTask => StoppedCleanly
  BY DEF StoppedCleanly
<1> QED BY <1>1, ThreadPoolNobodySleepsAfterStop, ThreadPoolAtMostOneLateTask, PTL

=============================================================================
