----------------------------- MODULE ThreadPool -----------------------------
(***************************************************************************)
(* threads/ThreadPool: worker threads that take tasks from a bounded       *)
(* queue, threads that call run(), and the owner that calls start() and    *)
(* stop().  A critical section of mutex_ is one action; a thread in a      *)
(* condition's wait set has released mutex_, and a notified thread is back *)
(* where it (re)acquires mutex_ and tests its condition again.             *)
(***************************************************************************)
EXTENDS Integers, Sequences, FiniteSets, Functions

CONSTANTS Workers,     \* the threads of threads_, numThreads of them
          Producers,   \* threads outside the pool that call run()
          Task,        \* task objects; one is reused once it has been taken
          NoTask,      \* an empty function
          MaxQueueSz,  \* maxQueueSz_, 0 for no limit
          Nested       \* tasks may call run() themselves

ASSUME PoolAssumption ==
  /\ IsFiniteSet(Workers) /\ IsFiniteSet(Producers)
  /\ Workers \cap Producers = {}
  /\ NoTask \notin Task
  /\ MaxQueueSz \in Nat
  /\ Nested \in BOOLEAN

Threads == Workers \cup Producers

VARIABLES
  pc,        \* per thread: see TypeOK
  arg,       \* per thread: the task run() was called with, while in run()
  queue_,    \* tasks pushed and not yet taken
  running_,
  owner,     \* the owner: "new", "started", "joining" in stop(), "stopped"
  late       \* history, per worker: tasks taken after stop() began

vars == <<pc, arg, queue_, running_, owner, late>>

WorkerStates == {"unborn", "check", "take", "notEmpty", "busy", "done"}
CallerStates == {"run", "notFull"}

TypeOK ==
  /\ pc \in [Threads -> WorkerStates \cup CallerStates \cup {"idle"}]
  /\ \A w \in Workers : pc[w] # "idle"
  /\ \A p \in Producers : pc[p] \notin WorkerStates
  /\ arg \in [Threads -> Task \cup {NoTask}]
  /\ \A t \in Threads : pc[t] \in CallerStates => arg[t] \in Task
  /\ queue_ \in Seq(Task)
  /\ running_ \in BOOLEAN
  /\ owner \in {"new", "started", "joining", "stopped"}
  /\ late \in [Workers -> Nat]

Init ==
  /\ pc = [t \in Threads |-> IF t \in Workers THEN "unborn" ELSE "idle"]
  /\ arg = [t \in Threads |-> NoTask]
  /\ queue_ = <<>>
  /\ running_ = FALSE
  /\ owner = "new"
  /\ late = [w \in Workers |-> 0]

At(state) == {t \in Threads : pc[t] = state}

\* Condition::notify() on a wait set: one waiter, if there is one, goes back
\* to acquire mutex_.  The caller t moves to its own next state.
Notify(waiting, retry, t, next) ==
  \/ At(waiting) = {} /\ pc' = [pc EXCEPT ![t] = next]
  \/ \E u \in At(waiting) : pc' = [pc EXCEPT ![t] = next, ![u] = retry]

\* Mutant: off by one.
IsFull_OffByOne == MaxQueueSz > 0 /\ Len(queue_) > MaxQueueSz

IsFull == MaxQueueSz > 0 /\ Len(queue_) >= MaxQueueSz

-----------------------------------------------------------------------------
(* runInThread() and take() on a worker.                                   *)

\* Mutant: a worker drains the queue before it exits.
CheckRunning_Drain(w) ==
  /\ pc[w] = "check"
  /\ pc' = [pc EXCEPT ![w] = IF running_ \/ queue_ # <<>> THEN "take" ELSE "done"]
  /\ UNCHANGED <<arg, queue_, running_, owner, late>>

\* while(running_), read without mutex_.
CheckRunning(w) ==
  /\ pc[w] = "check"
  /\ pc' = [pc EXCEPT ![w] = IF running_ THEN "take" ELSE "done"]
  /\ UNCHANGED <<arg, queue_, running_, owner, late>>

\* Mutant: take() waits on an empty queue whether running_ or not.
TakeWait_IgnoresStop(w) ==
  /\ pc[w] = "take"
  /\ queue_ = <<>>
  /\ pc' = [pc EXCEPT ![w] = "notEmpty"]
  /\ UNCHANGED <<arg, queue_, running_, owner, late>>

TakeWait(w) ==
  /\ pc[w] = "take"
  /\ queue_ = <<>>
  /\ running_
  /\ pc' = [pc EXCEPT ![w] = "notEmpty"]
  /\ UNCHANGED <<arg, queue_, running_, owner, late>>

\* Mutant: notFull_ is notified only when the queue was full.
TakeTask_NotifyWhenFull(w) ==
  /\ pc[w] = "take"
  /\ queue_ # <<>>
  /\ queue_' = Tail(queue_)
  /\ IF IsFull THEN Notify("notFull", "run", w, "busy")
               ELSE pc' = [pc EXCEPT ![w] = "busy"]
  /\ UNCHANGED <<arg, running_, owner, late>>

TakeTask(w) ==
  /\ pc[w] = "take"
  /\ queue_ # <<>>
  /\ queue_' = Tail(queue_)
  /\ IF MaxQueueSz > 0 THEN Notify("notFull", "run", w, "busy")
                       ELSE pc' = [pc EXCEPT ![w] = "busy"]
  /\ late' = IF running_ THEN late ELSE [late EXCEPT ![w] = @ + 1]
  /\ UNCHANGED <<arg, running_, owner>>

\* Stopped with an empty queue: take() returns an empty function.
TakeNothing(w) ==
  /\ pc[w] = "take"
  /\ queue_ = <<>>
  /\ ~running_
  /\ pc' = [pc EXCEPT ![w] = "check"]
  /\ UNCHANGED <<arg, queue_, running_, owner, late>>

FinishTask(w) ==
  /\ pc[w] = "busy"
  /\ pc' = [pc EXCEPT ![w] = "check"]
  /\ UNCHANGED <<arg, queue_, running_, owner, late>>

-----------------------------------------------------------------------------
(* run(), on a thread outside the pool or inside a task.                   *)

Returned(t) == IF t \in Workers THEN "busy" ELSE "idle"

NewTask(x) == x \notin Range(queue_) \cup Range(arg)

\* While threads_ is empty run() calls the task itself: no step here.
CallRun(t, x) ==
  /\ owner # "new" /\ Workers # {}
  /\ t \in Workers => Nested
  /\ pc[t] = Returned(t)
  /\ NewTask(x)
  /\ pc' = [pc EXCEPT ![t] = "run"]
  /\ arg' = [arg EXCEPT ![t] = x]
  /\ UNCHANGED <<queue_, running_, owner, late>>

RunWait(t) ==
  /\ pc[t] = "run"
  /\ IsFull
  /\ running_
  /\ pc' = [pc EXCEPT ![t] = "notFull"]
  /\ UNCHANGED <<arg, queue_, running_, owner, late>>

\* Mutant: notEmpty_ is notified only when the queue was empty.
RunPush_NotifyWhenEmpty(t) ==
  /\ pc[t] = "run"
  /\ ~IsFull
  /\ running_
  /\ queue_' = Append(queue_, arg[t])
  /\ arg' = [arg EXCEPT ![t] = NoTask]
  /\ IF queue_ = <<>> THEN Notify("notEmpty", "take", t, Returned(t))
                      ELSE pc' = [pc EXCEPT ![t] = Returned(t)]
  /\ UNCHANGED <<running_, owner, late>>

\* Mutant: run() never notifies notEmpty_.
RunPush_NoNotify(t) ==
  /\ pc[t] = "run"
  /\ ~IsFull
  /\ running_
  /\ queue_' = Append(queue_, arg[t])
  /\ arg' = [arg EXCEPT ![t] = NoTask]
  /\ pc' = [pc EXCEPT ![t] = Returned(t)]
  /\ UNCHANGED <<running_, owner, late>>

RunPush(t) ==
  /\ pc[t] = "run"
  /\ ~IsFull
  /\ running_
  /\ queue_' = Append(queue_, arg[t])
  /\ arg' = [arg EXCEPT ![t] = NoTask]
  /\ Notify("notEmpty", "take", t, Returned(t))
  /\ UNCHANGED <<running_, owner, late>>

\* stop() was called: the task is dropped.
RunStopped(t) ==
  /\ pc[t] = "run"
  /\ ~running_
  /\ arg' = [arg EXCEPT ![t] = NoTask]
  /\ pc' = [pc EXCEPT ![t] = Returned(t)]
  /\ UNCHANGED <<queue_, running_, owner, late>>

-----------------------------------------------------------------------------
(* start() and stop() on the owner.                                        *)

Start ==
  /\ owner = "new"
  /\ owner' = "started"
  /\ running_' = TRUE
  /\ pc' = [t \in Threads |-> IF t \in Workers THEN "check" ELSE pc[t]]
  /\ UNCHANGED <<arg, queue_, late>>

\* Mutant: stop() forgets the callers waiting on notFull_.
Stop_OnlyNotEmpty ==
  /\ owner = "started"
  /\ owner' = "joining"
  /\ running_' = FALSE
  /\ pc' = [t \in Threads |-> IF pc[t] = "notEmpty" THEN "take" ELSE pc[t]]
  /\ UNCHANGED <<arg, queue_, late>>

Stop ==
  /\ owner = "started"
  /\ owner' = "joining"
  /\ running_' = FALSE
  /\ pc' = [t \in Threads |-> CASE pc[t] = "notEmpty" -> "take"
                                [] pc[t] = "notFull" -> "run"
                                [] OTHER -> pc[t]]
  /\ UNCHANGED <<arg, queue_, late>>

StopJoined ==
  /\ owner = "joining"
  /\ \A w \in Workers : pc[w] = "done"
  /\ owner' = "stopped"
  /\ UNCHANGED <<pc, arg, queue_, running_, late>>

\* pthread_cond_wait may return without a notification.
SpuriousWakeup(t) ==
  /\ \/ pc[t] = "notEmpty" /\ pc' = [pc EXCEPT ![t] = "take"]
     \/ pc[t] = "notFull" /\ pc' = [pc EXCEPT ![t] = "run"]
  /\ UNCHANGED <<arg, queue_, running_, owner, late>>

-----------------------------------------------------------------------------
WorkerStep(w) == \/ CheckRunning(w) \/ TakeWait(w) \/ TakeTask(w)
                 \/ TakeNothing(w) \/ FinishTask(w)
RunStep(t) == RunWait(t) \/ RunPush(t) \/ RunStopped(t)

Next ==
  \/ \E w \in Workers : WorkerStep(w)
  \/ \E t \in Threads : RunStep(t) \/ SpuriousWakeup(t)
  \/ \E t \in Threads, x \in Task : CallRun(t, x)
  \/ Start \/ Stop \/ StopJoined

Spec == Init /\ [][Next]_vars

\* Threads that can run do, and stop()'s join completes when the workers are
\* done.  A task returns, after a finite number of calls of run() that return
\* (strong fairness).  Nobody is obliged to call run(), start() or stop().
FairSpec ==
  /\ Spec
  /\ \A w \in Workers : WF_vars(WorkerStep(w)) /\ SF_vars(FinishTask(w))
  /\ \A t \in Threads : WF_vars(RunStep(t))
  /\ WF_vars(StopJoined)

-----------------------------------------------------------------------------
\* run()'s notify of notEmpty_: while a worker sleeps, every queued task has
\* a worker of its own that is awake and about to take.
NoSleepingWorker ==
  At("notEmpty") # {} => Len(queue_) <= Cardinality(At("take"))

\* take()'s notify of notFull_: while a caller of run() sleeps, every free
\* slot has a caller of its own that is awake and about to test isFull().
NoSleepingCaller ==
  At("notFull") # {} => MaxQueueSz - Len(queue_) <= Cardinality(At("run"))

\* run(): the queue never exceeds its limit, the assertion before push_back.
QueueBounded == MaxQueueSz > 0 => Len(queue_) <= MaxQueueSz

\* run() and take(): one notification for each push and each pop is enough,
\* however many of them come before the woken thread runs.
NoSleeper == TypeOK /\ QueueBounded /\ NoSleepingWorker /\ NoSleepingCaller

\* stop() sets running_ and notifies both conditions under mutex_: nobody
\* is waiting afterwards, or starts to.
NobodySleepsAfterStop ==
  ~running_ => At("notEmpty") = {} /\ At("notFull") = {}

\* A worker takes at most one more task once stop() has begun; the others
\* stay in queue_ and never run.
AtMostOneLateTask == \A w \in Workers : late[w] <= 1

\* stop(), from the moment it has set running_.
StoppedCleanly == NobodySleepsAfterStop /\ AtMostOneLateTask

\* stop() returns, whatever the workers and the callers of run() wait for,
\* tasks blocked in their own call of run() included.
StopReturns == owner = "joining" ~> owner = "stopped"

\* A caller blocked in run() is released by stop().
StopReleasesCallers ==
  \A p \in Producers : owner = "joining" /\ pc[p] \in CallerStates
                         ~> pc[p] = "idle"

\* stop(): neither the owner nor a caller of run() is left waiting.
StopReleasesAll == StopReturns /\ StopReleasesCallers

\* A task that was queued is taken by a worker, unless the pool is stopped or
\* the task of every worker is blocked in a call of run() on a full queue.
QueuedTaskIsTaken ==
  \A x \in Task :
    x \in Range(queue_) ~> \/ x \notin Range(queue_)
                           \/ ~running_
                           \/ \A w \in Workers : pc[w] \in CallerStates
=============================================================================
