-------------------------- MODULE TcpServerProofs ---------------------------
(***************************************************************************)
(* EventLoopThread and TcpServer for any set of connections and any number *)
(* of descriptors: the thread that is started, the mutexes and the loop it *)
(* publishes are used only while they are there, no descriptor is lost and *)
(* every connection is destroyed.                                          *)
(***************************************************************************)
EXTENDS TcpServer, SequenceTheorems, FiniteSetTheorems, TLAPS

\* What is proved of an EventLoop holds of the one func() has on its stack.
ELP == INSTANCE EventLoopProofs WITH Clients <- {Owner}

-----------------------------------------------------------------------------
(* The invariant of EventLoopThread.                                       *)

MutexInv == M!MonitorTypeOK /\ M!HolderIsExact
LatchInv == T!Latch!MonitorTypeOK /\ T!Latch!HolderIsExact

\* Thread::start() and the latch: the count is 0 only once the child has its
\* id, and the parent leaves the latch only after the child has left it.
StartInv ==
  /\ started_ \in BOOLEAN /\ joined_ \in BOOLEAN /\ tid_ \in {LoopThread, None}
  /\ ppc \in {"out", "start"}
  /\ cpc \in {"none", "born", "count", "func", "done"}
  /\ started_ <=> cpc # "none"
  /\ count_ = IF cpc \in {"func", "done"} THEN 0 ELSE 1
  /\ cpc \in {"count", "func", "done"} => tid_ = LoopThread
  /\ cpc \in {"none", "born", "done"} => lat[LoopThread] = "out"
  /\ cpc = "count" => lat[LoopThread] \in {"out", "locked", "in"}
  /\ cpc = "func" => lat[LoopThread] \in {"unlock", "out"}
  /\ ppc = "start" => started_ /\ lat[Owner] # "unlock"
  /\ ppc = "out" => lat[Owner] \in {"out", "unlock"}
  /\ ~started_ => ppc = "out" /\ lat[Owner] = "out"
  /\ ppc = "out" /\ started_ => cpc \in {"func", "done"} /\ lat[LoopThread] = "out"

\* Where the owner and func() are with mutex_.
GuardInv ==
  /\ opc \in {"new", "start", "lock", "use", "quit", "join", "members", "gone"}
  /\ fpc \in {"ctor", "publish", "enter", "loop", "clear", "unlock", "dtor", "done"}
  /\ opc = "lock" => mat[Owner] \in {"locked", "in", "sleep", "asleep", "woken"}
  /\ opc = "use" => mat[Owner] \in {"unlock", "out"}
  /\ opc \notin {"lock", "use"} => mat[Owner] = "out"
  /\ fpc \in {"publish", "clear"} => mat[LoopThread] \in {"out", "locked", "in"}
  /\ fpc \in {"enter", "dtor"} => mat[LoopThread] \in {"unlock", "out"}
  /\ fpc = "unlock" => mat[LoopThread] = "in"
  /\ fpc \in {"ctor", "loop", "done"} => mat[LoopThread] = "out"

\* The life of the loop follows func().
LifeInv ==
  /\ alive = IF fpc = "ctor" THEN "none" ELSE IF fpc = "done" THEN "dead" ELSE "live"
  /\ fpc = "done" <=> cpc = "done"
  /\ fpc # "ctor" => cpc \in {"func", "done"} /\ lat[LoopThread] = "out"
  /\ fpc = "loop" <=> lpc # "out"
  /\ loop_ \in BOOLEAN /\ (loop_ <=> fpc \in {"enter", "loop", "clear"})
  /\ opc \in {"use", "quit", "join"} => fpc \notin {"ctor", "publish"}
  /\ opc = "new" => ~started_

\* loop() is left only after quit(), and only the destructor or a functor
\* calls it: the destructor that finds loop_ null finds no thread, or one that
\* a functor told to quit.
QuitInv ==
  /\ selfQuit \in BOOLEAN
  /\ fpc \in {"clear", "unlock", "dtor", "done"} => quit_
  /\ quit_ /\ ~selfQuit => opc \in {"join", "members", "gone"}
  /\ opc \in {"members", "gone"} /\ ~selfQuit => cpc \in {"none", "done"}

LoopInv == EL!TypeOK /\ (alive # "dead" => ELP!WakeInv)

ThreadInv == /\ LoopInv /\ MutexInv /\ LatchInv /\ StartInv /\ GuardInv /\ LifeInv
             /\ QuitInv
-----------------------------------------------------------------------------
(* The invariant of TcpServer.                                             *)

Queue == funcs \o pendingCBs_
In(f, q) == \E i \in 1 .. Len(q) : q[i] = f
Est(c) == <<"est", c>>
Des(c) == <<"des", c>>

ConnStates == {"away", "waiting", "made", "up", "down", "dead", "refused", "lost"}
Outside == {"away", "waiting", "refused"}

\* No functor is twice in q, nor in q and in r.
Once(q, r) == /\ \A i, j \in 1 .. Len(q) : q[i] = q[j] => i = j
              /\ \A i \in 1 .. Len(q), j \in 1 .. Len(r) : q[i] # r[j]

\* connEstablished() is before connDestroyed().
Ordered(q) ==
  \A c \in Conn : \A i, j \in 1 .. Len(q) : q[i] = Des(c) /\ q[j] = Est(c) => j < i

\* The queue of a loop that is not destroyed keeps its connections open, and
\* a connection that is open is in the map or about to be destroyed.
ConnInv ==
  \A c \in Conn :
    /\ alive # "dead" /\ In(Est(c), Queue) => conn[c] = "made"
    /\ alive # "dead" /\ In(Des(c), Queue) => HasFd(c)
    /\ HasFd(c) => c \in conns_ \/ (alive # "dead" /\ In(Des(c), Queue))
    /\ conn[c] = "dead" => In(Des(c), ran)
    /\ conn[c] = "lost" => alive = "dead" /\ In(Des(c), pendingCBs_)
    /\ c \in conns_ \/ In(c, rmQ) => conn[c] \notin Outside

Stopping == {"quit", "join", "members", "gone"}

\* What a server, as against a bare EventLoopThread, does to its thread.
StageInv ==
  /\ ~selfQuit
  /\ alive = "none" => Queue = <<>>
  /\ spc \in {"pool", "gone"} => conns_ = {}
  /\ opc \in Stopping => spc \in {"pool", "gone"}
  /\ spc = "gone" => opc = "gone"

LinkInv == Once(Queue, ran) /\ Ordered(Queue) /\ ConnInv

ServerState ==
  /\ spc \in {"none", "new", "starting", "up", "dtor", "pool", "gone"} \cup Emfile
  /\ conn \in [Conn -> ConnStates]
  /\ conns_ \subseteq Conn /\ rmQ \in Seq(Conn)
  /\ spc \in {"none", "new", "starting"} => loops_ = <<>>
  /\ loops_ \in {<<>>, <<LoopThread>>} /\ nxt_ = 0
  /\ idleFd_ \in BOOLEAN /\ robbed \in BOOLEAN
  /\ free \in Nat /\ others \in Nat
  /\ spc = "none" => \A c \in Conn : conn[c] = "away"

\* The spare descriptor, and the hole it leaves while it is closed.
SpareInv ==
  /\ spc \in {"none", "new", "starting", "up", "closeIdle"} => idleFd_ \/ robbed
  /\ spc \in {"acceptIdle", "openIdle"} => ~idleFd_ /\ (free > 0 \/ robbed)

Open == {c \in Conn : HasFd(c)}

SpareFds == IF idleFd_ THEN 1 ELSE 0

CountInv ==
  IsFiniteSet(Open) /\ Cardinality(Open) + free + others + SpareFds = MaxFds

ServerInv == /\ ThreadInv /\ ServerState /\ SpareInv /\ CountInv
             /\ (spc # "none" => StageInv /\ LinkInv)
-----------------------------------------------------------------------------
(* The loop.                                                               *)

\* What the owner and func() do to the loop.
LoopCall ==
  \/ \E f \in Func : EL!QueueInLoop(Owner, f)
  \/ EL!Wakeup(Owner) \/ EL!Quit(Owner) \/ EL!Quit(LoopThread)
  \/ EL!LoopEnter \/ EL!LoopStep \/ EL!PollTimeout

\* The instance EventLoopThread uses and the one that is proved about are the
\* same loop.
LEMMA SameLoop ==
  /\ ELP!TypeOK <=> EL!TypeOK
  /\ ELP!Init <=> EL!Init
  /\ LoopCall => ELP!Next
<1>1. ELP!TypeOK <=> EL!TypeOK
  BY DEF ELP!TypeOK, EL!TypeOK, ELP!LoopStates, EL!LoopStates, ELP!Channels,
         EL!Channels, ELP!Threads, EL!Threads
<1>2. ELP!Init <=> EL!Init
  BY DEF ELP!Init, EL!Init, ELP!Threads, EL!Threads
<1>4. LoopCall => ELP!Next
  <2> USE DEF ELP!fdVars, EL!fdVars, ELP!queueVars, EL!queueVars, ELP!history,
              EL!history, ELP!Goto, EL!Goto, ELP!CanCall, EL!CanCall
  <2>t. Owner \in ELP!Threads /\ LoopThread \in ELP!Threads
    BY DEF ELP!Threads
  <2>1. ASSUME NEW f \in Func, EL!QueueInLoop(Owner, f) PROVE ELP!Next
    <3>1. ELP!QueueInLoop(Owner, f)
      BY <2>1 DEF EL!QueueInLoop, ELP!QueueInLoop, EL!NewFunc, ELP!NewFunc,
                  EL!NeedsWakeup, ELP!NeedsWakeup, EL!Range, ELP!Range
    <3> QED BY <2>t, <3>1 DEF ELP!Next, ELP!Call
  <2>2. CASE EL!Wakeup(Owner)
    BY <2>2, <2>t DEF EL!Wakeup, ELP!Wakeup, ELP!Next
  <2>3. ASSUME NEW t \in {Owner, LoopThread}, EL!Quit(t) PROVE ELP!Next
    BY <2>3, <2>t DEF EL!Quit, ELP!Quit, ELP!Next, ELP!Call
  <2>4. CASE EL!LoopEnter
    BY <2>4 DEF EL!LoopEnter, ELP!LoopEnter, ELP!Next
  <2>5. CASE EL!PollTimeout
    BY <2>5 DEF EL!PollTimeout, ELP!PollTimeout, EL!Readable, ELP!Readable, ELP!Next
  <2>6. CASE EL!LoopStep
    <3>1. EL!LoopContinue \/ EL!LoopExit => ELP!LoopStep
      BY DEF EL!LoopContinue, ELP!LoopContinue, EL!LoopExit, ELP!LoopExit,
             ELP!LoopStep
    <3>2. EL!Poll \/ EL!HandleRead => ELP!LoopStep
      BY DEF EL!Poll, ELP!Poll, EL!Readable, ELP!Readable, EL!HandleRead,
             ELP!HandleRead, ELP!LoopStep
    <3>3. ASSUME NEW c \in IoChannels, EL!HandleEvent(c) PROVE ELP!LoopStep
      BY <3>3 DEF EL!HandleEvent, ELP!HandleEvent, ELP!LoopStep
    <3>4. EL!HandlerReturn \/ EL!FuncReturn \/ EL!DoPendingDone => ELP!LoopStep
      BY DEF EL!HandlerReturn, ELP!HandlerReturn, EL!FuncReturn, ELP!FuncReturn,
             EL!DoPendingDone, ELP!DoPendingDone, ELP!LoopStep
    <3>5. EL!DoPendingFuncs \/ EL!RunFunc => ELP!LoopStep
      BY DEF EL!DoPendingFuncs, ELP!DoPendingFuncs, EL!RunFunc, ELP!RunFunc,
             ELP!LoopStep
    <3>6. ELP!LoopStep
      BY <2>6, <3>1, <3>2, <3>3, <3>4, <3>5 DEF EL!LoopStep
    <3> QED BY <3>6 DEF ELP!Next
  <2> QED BY <2>1, <2>2, <2>3, <2>4, <2>5, <2>6 DEF LoopCall
<1> QED BY <1>1, <1>2, <1>4

\* The assumptions EventLoop makes about its threads and channels hold.
LEMMA LoopAssumptions == ELP!ThreadsAssumption /\ ELP!ChannelsAssumption
BY OwnerAssumption DEF ELP!ThreadsAssumption, ELP!ChannelsAssumption

\* A call on the loop keeps what is proved of EventLoop.
LEMMA LoopCallStep ==
  ASSUME EL!TypeOK, LoopCall \/ UNCHANGED loopVars
  PROVE  EL!TypeOK' /\ (ELP!WakeInv => ELP!WakeInv')
<1>1. [ELP!Next]_(ELP!vars)
  BY SameLoop DEF ELP!vars, loopVars
<1>2. ELP!TypeOK
  BY SameLoop
<1>3. ELP!TypeOK'
  BY <1>1, <1>2, LoopAssumptions, ELP!TypeStep
<1>4. ELP!WakeInv => ELP!WakeInv'
  BY <1>1, <1>2, LoopAssumptions, ELP!WakeStep
<1>5. ELP!TypeOK' <=> EL!TypeOK'
  BY DEF ELP!TypeOK, EL!TypeOK, ELP!LoopStates, EL!LoopStates, ELP!Channels,
         EL!Channels, ELP!Threads, EL!Threads
<1> QED BY <1>3, <1>4, <1>5

-----------------------------------------------------------------------------
(* mutex_ and the latch: the recorded holder is exact.                     *)

MutexStep ==
  \/ \E t \in {Owner, LoopThread} :
       \/ M!Lock(t) \/ M!Wait(t) \/ M!SpuriousWakeup(t) \/ M!Step(t)
       \/ \E b \in BOOLEAN : M!Unlock(t, b)
  \/ UNCHANGED mutex_

\* No operation of MutexLock or Condition makes the recorded holder wrong.
LEMMA MutexStepInv == ASSUME MutexInv, MutexStep PROVE MutexInv'
<1> USE OwnerAssumption DEF MutexInv, M!MonitorTypeOK, M!HolderIsExact, M!Move, M!State
<1>1. ASSUME NEW t \in {Owner, LoopThread}, M!Lock(t) PROVE MutexInv'
  BY <1>1 DEF M!Lock
<1>2. ASSUME NEW t \in {Owner, LoopThread}, M!AssignHolder(t) PROVE MutexInv'
  BY <1>2 DEF M!AssignHolder
<1>3. ASSUME NEW t \in {Owner, LoopThread}, M!Wait(t) PROVE MutexInv'
  BY <1>3 DEF M!Wait
<1>4. ASSUME NEW t \in {Owner, LoopThread}, M!Sleep(t) PROVE MutexInv'
  BY <1>4 DEF M!Sleep
<1>5. ASSUME NEW t \in {Owner, LoopThread}, M!SpuriousWakeup(t) PROVE MutexInv'
  BY <1>5 DEF M!SpuriousWakeup
<1>6. ASSUME NEW t \in {Owner, LoopThread}, NEW b \in BOOLEAN, M!Unlock(t, b)
      PROVE  MutexInv'
  BY <1>6 DEF M!Unlock, M!Woken
<1>7. ASSUME NEW t \in {Owner, LoopThread}, M!Release(t) PROVE MutexInv'
  BY <1>7 DEF M!Release
<1>8. CASE UNCHANGED mutex_
  BY <1>8 DEF mutex_
<1> HIDE DEF MutexInv
<1> QED BY <1>1, <1>2, <1>3, <1>4, <1>5, <1>6, <1>7, <1>8 DEF MutexStep, M!Step

LatchStep ==
  \/ \E t \in {Owner, LoopThread} :
       \/ T!Latch!Lock(t) \/ T!Latch!Wait(t) \/ T!Latch!SpuriousWakeup(t)
       \/ T!Latch!Step(t)
       \/ \E b \in BOOLEAN : T!Latch!Unlock(t, b)
  \/ UNCHANGED <<lowner, lholder_, lat>>

\* The same of the latch's mutex.
LEMMA LatchStepInv == ASSUME LatchInv, LatchStep PROVE LatchInv'
<1> USE OwnerAssumption
    DEF LatchInv, T!Latch!MonitorTypeOK, T!Latch!HolderIsExact, T!Latch!Move,
        T!Latch!State
<1>1. ASSUME NEW t \in {Owner, LoopThread}, T!Latch!Lock(t) PROVE LatchInv'
  BY <1>1 DEF T!Latch!Lock
<1>2. ASSUME NEW t \in {Owner, LoopThread}, T!Latch!AssignHolder(t) PROVE LatchInv'
  BY <1>2 DEF T!Latch!AssignHolder
<1>3. ASSUME NEW t \in {Owner, LoopThread}, T!Latch!Wait(t) PROVE LatchInv'
  BY <1>3 DEF T!Latch!Wait
<1>4. ASSUME NEW t \in {Owner, LoopThread}, T!Latch!Sleep(t) PROVE LatchInv'
  BY <1>4 DEF T!Latch!Sleep
<1>5. ASSUME NEW t \in {Owner, LoopThread}, T!Latch!SpuriousWakeup(t) PROVE LatchInv'
  BY <1>5 DEF T!Latch!SpuriousWakeup
<1>6. ASSUME NEW t \in {Owner, LoopThread}, NEW b \in BOOLEAN, T!Latch!Unlock(t, b)
      PROVE  LatchInv'
  BY <1>6 DEF T!Latch!Unlock, T!Latch!Woken
<1>7. ASSUME NEW t \in {Owner, LoopThread}, T!Latch!Release(t) PROVE LatchInv'
  BY <1>7 DEF T!Latch!Release
<1>8. CASE UNCHANGED <<lowner, lholder_, lat>>
  BY <1>8
<1> HIDE DEF LatchInv
<1> QED BY <1>1, <1>2, <1>3, <1>4, <1>5, <1>6, <1>7, <1>8
        DEF LatchStep, T!Latch!Step

-----------------------------------------------------------------------------
(* Thread::start(), the latch and join().                                  *)

\* What the owner and the new thread do to thread_.
ThreadCall ==
  \/ T!start \/ T!ParentStep \/ T!ChildStep \/ T!ThreadSpurious \/ T!join
  \/ T!InFunc /\ T!FuncReturns
  \/ UNCHANGED thread_

\* Each of them uses the latch only through its mutex.
LEMMA ThreadCallLatch == ThreadCall => LatchStep
<1> USE DEF LatchStep, T!latchVars, T!threadVars
<1>1. T!start \/ T!join \/ T!FuncReturns \/ T!SetTid \/ UNCHANGED thread_ => LatchStep
  BY DEF T!start, T!join, T!FuncReturns, T!SetTid, thread_
<1>2. T!LatchWait => LatchStep
  BY DEF T!LatchWait
<1>3. T!countDown => LatchStep
  BY DEF T!countDown
<1>4. T!Latch!Step(Owner) \/ T!Latch!Step(LoopThread) \/ T!Latch!SpuriousWakeup(Owner)
        => LatchStep
  OBVIOUS
<1> HIDE DEF LatchStep
<1> QED BY <1>1, <1>2, <1>3, <1>4
        DEF ThreadCall, T!ParentStep, T!ChildStep, T!ThreadSpurious

\* The count is 0 only once the id is stored, and the parent that sees it has
\* the mutex, which the child has left for good.
LEMMA StartStep == ASSUME LatchInv, StartInv, ThreadCall PROVE StartInv'
<1> USE OwnerAssumption DEF StartInv, T!latchVars, T!threadVars, T!Latch!Move
<1>t. lat \in [{Owner, LoopThread} -> T!Latch!State]
  BY DEF LatchInv, T!Latch!MonitorTypeOK
<1>1. CASE T!start BY <1>1 DEF T!start
<1>2. CASE T!join BY <1>2 DEF T!join
<1>3. CASE T!InFunc /\ T!FuncReturns BY <1>3 DEF T!InFunc, T!FuncReturns
<1>4. CASE T!SetTid BY <1>4 DEF T!SetTid
<1>5. CASE UNCHANGED thread_ BY <1>5 DEF thread_
<1>6. CASE T!LatchWait
  <2>1. CASE T!Latch!Lock(Owner) /\ ppc' = ppc
    BY <1>6, <2>1, <1>t DEF T!LatchWait, T!Latch!Lock
  <2>2. CASE T!Latch!Wait(Owner) /\ ppc' = ppc
    BY <1>6, <2>2, <1>t DEF T!LatchWait, T!Latch!Wait
  <2>3. CASE count_ = 0 /\ T!Latch!Unlock(Owner, FALSE) /\ ppc' = "out"
    <3>1. lat[Owner] = "in" /\ cpc \in {"func", "done"}
      BY <2>3 DEF T!Latch!Unlock
    <3>2. lat[LoopThread] # "unlock"
      BY <3>1 DEF LatchInv, T!Latch!HolderIsExact
    <3> QED BY <1>6, <1>t, <2>3, <3>1, <3>2 DEF T!LatchWait, T!Latch!Unlock
  <2> QED BY <1>6, <2>1, <2>2, <2>3 DEF T!LatchWait
<1>7. CASE T!countDown
  <2>1. CASE lat[LoopThread] = "out" /\ T!Latch!Lock(LoopThread) /\ UNCHANGED <<count_, cpc>>
    BY <1>7, <2>1, <1>t DEF T!countDown, T!Latch!Lock
  <2>2. CASE /\ T!Latch!Unlock(LoopThread, count_ = 1)
             /\ count_' = count_ - 1 /\ cpc' = "func"
    BY <1>7, <2>2, <1>t DEF T!countDown, T!Latch!Unlock, T!Latch!Woken
  <2> QED BY <1>7, <2>1, <2>2 DEF T!countDown
<1>8. CASE T!Latch!Step(Owner) /\ UNCHANGED T!threadVars
  BY <1>8, <1>t DEF T!Latch!Step, T!Latch!Lock, T!Latch!AssignHolder, T!Latch!Sleep,
                    T!Latch!Release
<1>9. CASE T!Latch!Step(LoopThread) /\ UNCHANGED T!threadVars
  BY <1>9, <1>t DEF T!Latch!Step, T!Latch!Lock, T!Latch!AssignHolder, T!Latch!Sleep,
                    T!Latch!Release
<1>10. CASE T!ThreadSpurious
  BY <1>10, <1>t DEF T!ThreadSpurious, T!Latch!SpuriousWakeup
<1> HIDE DEF StartInv, T!threadVars
<1> QED BY <1>1, <1>2, <1>3, <1>4, <1>5, <1>6, <1>7, <1>8, <1>9, <1>10
        DEF ThreadCall, T!ParentStep, T!ChildStep

-----------------------------------------------------------------------------
(* The steps of EventLoopThread, one by one.                               *)

\* Each uses the loop, the thread and the mutex only through their operations,
\* and func()'s thread ends only from func().
LEMMA Operations ==
  ASSUME LifeInv, [Next]_vars
  PROVE  /\ LoopCall \/ UNCHANGED loopVars \/ LateWakeup
         /\ ThreadCall
         /\ MutexStep
<1> USE DEF LoopCall, ThreadCall, MutexStep
<1>1. CASE StartLoop BY <1>1 DEF StartLoop
<1>2. CASE SpuriousWakeup BY <1>2 DEF SpuriousWakeup
<1>3. CASE Dtor BY <1>3 DEF Dtor
<1>4. ASSUME NEW f \in Func, OwnerQueues(f)
      PROVE  LoopCall /\ UNCHANGED <<thread_, mutex_>>
  BY <1>4 DEF OwnerQueues
<1>5. CASE StartLoopLock BY <1>5 DEF StartLoopLock
<1>6. CASE StartLoopCheck BY <1>6 DEF StartLoopCheck
<1>7. CASE OwnerSync BY <1>7 DEF OwnerSync
<1>8. CASE OwnerWakeup BY <1>8 DEF OwnerWakeup
<1>9. CASE LateWakeup BY <1>9 DEF LateWakeup
<1>10. CASE DtorQuit BY <1>10 DEF DtorQuit
<1>11. CASE DtorJoin BY <1>11 DEF DtorJoin
<1>12. CASE DtorMembers BY <1>12 DEF DtorMembers
<1>13. CASE FuncSync BY <1>13 DEF FuncSync
<1>14. CASE Construct BY <1>14 DEF Construct
<1>15. CASE FuncLock BY <1>15 DEF FuncLock
<1>16. CASE Publish BY <1>16 DEF Publish
<1>17. CASE EnterLoop BY <1>17 DEF EnterLoop
<1>18. CASE InLoop BY <1>18 DEF InLoop
<1>19. CASE Clear BY <1>19 DEF Clear
<1>20. CASE Unlock BY <1>20 DEF Unlock
<1>21. CASE DestroyLoop
  <2>1. T!InFunc
    BY <1>21 DEF DestroyLoop, Func_, LifeInv, T!InFunc
  <2> QED BY <1>21, <2>1 DEF DestroyLoop
<1>22. CASE InLoopTimeout BY <1>22 DEF InLoopTimeout
<1>23. CASE Terminated \/ UNCHANGED vars BY <1>23 DEF Terminated, vars
<1> HIDE DEF LoopCall, ThreadCall, MutexStep
<1>24. UNCHANGED <<thread_, mutex_>> => ThreadCall /\ MutexStep
  BY DEF ThreadCall, MutexStep
<1> QED BY <1>1, <1>2, <1>3, <1>4, <1>5, <1>6, <1>7, <1>8, <1>9, <1>10, <1>11, <1>12,
           <1>13, <1>14, <1>15, <1>16, <1>17, <1>18, <1>19, <1>20, <1>21, <1>22, <1>23,
           <1>24
        DEF Next, OwnerStep, FuncStep

\* The states of mutex_ and the latch.
LEMMA Positions ==
  ASSUME MutexInv, LatchInv
  PROVE  /\ mat \in [{Owner, LoopThread} -> M!State]
         /\ lat \in [{Owner, LoopThread} -> T!Latch!State]
BY DEF MutexInv, LatchInv, M!MonitorTypeOK, T!Latch!MonitorTypeOK

\* The owner and func() are where mutex_ says they are.
LEMMA GuardStep ==
  ASSUME ThreadInv, [Next]_vars
  PROVE  GuardInv'
<1> USE OwnerAssumption DEF GuardInv, M!Move
<1>t. mat \in [{Owner, LoopThread} -> M!State] /\ GuardInv
  BY Positions DEF ThreadInv
<1> USE <1>t
<1>1. CASE StartLoop BY <1>1 DEF StartLoop, mutex_
<1>2. CASE SpuriousWakeup BY <1>2 DEF SpuriousWakeup, mutex_, M!SpuriousWakeup
<1>3. CASE Dtor BY <1>3 DEF Dtor, mutex_
<1>4. ASSUME NEW f \in Func, OwnerQueues(f) PROVE GuardInv'
  BY <1>4 DEF OwnerQueues, mutex_
<1>5. CASE StartLoopLock BY <1>5 DEF StartLoopLock, M!Lock
<1>6. CASE StartLoopCheck BY <1>6 DEF StartLoopCheck, M!Unlock, M!Wait
<1>7. CASE OwnerSync
  BY <1>7 DEF OwnerSync, mutex_, M!Step, M!Lock, M!AssignHolder, M!Sleep, M!Release
<1>8. CASE OwnerWakeup \/ LateWakeup BY <1>8 DEF OwnerWakeup, LateWakeup, mutex_
<1>10. CASE DtorQuit BY <1>10 DEF DtorQuit, mutex_
<1>11. CASE DtorJoin BY <1>11 DEF DtorJoin, mutex_
<1>12. CASE DtorMembers BY <1>12 DEF DtorMembers, mutex_
<1>13. CASE FuncSync
  BY <1>13 DEF FuncSync, mutex_, M!Step, M!Lock, M!AssignHolder, M!Sleep, M!Release
<1>14. CASE Construct BY <1>14 DEF Construct, Func_, mutex_
<1>15. CASE FuncLock BY <1>15 DEF FuncLock, M!Lock
<1>16. CASE Publish BY <1>16 DEF Publish, FuncIn, M!Unlock, M!Woken
<1>17. CASE EnterLoop BY <1>17 DEF EnterLoop, Func_, mutex_
<1>18. CASE InLoop BY <1>18 DEF InLoop, mutex_
<1>19. CASE Clear BY <1>19 DEF Clear, FuncIn, mutex_
<1>20. CASE Unlock BY <1>20 DEF Unlock, FuncIn, M!Unlock
<1>21. CASE DestroyLoop BY <1>21 DEF DestroyLoop, Func_, mutex_
<1>22. CASE InLoopTimeout BY <1>22 DEF InLoopTimeout, mutex_
<1>23. CASE Terminated \/ UNCHANGED vars BY <1>23 DEF Terminated, vars, mutex_
<1> HIDE DEF GuardInv
<1> QED BY <1>1, <1>2, <1>3, <1>4, <1>5, <1>6, <1>7, <1>8, <1>10, <1>11, <1>12,
           <1>13, <1>14, <1>15, <1>16, <1>17, <1>18, <1>19, <1>20, <1>21, <1>22, <1>23
        DEF Next, OwnerStep, FuncStep

\* What loop(), the functors in it and quit() do to quit_ and lpc.
LEMMA LoopControl ==
  /\ EL!LoopStep => quit_' = quit_ /\ lpc # "out" /\ (lpc' = "out" => quit_)
  /\ EL!LoopEnter => lpc' = "test" /\ lpc = "out" /\ ~quit_'
  /\ EL!PollTimeout => lpc' = "events" /\ lpc = "poll" /\ quit_' = quit_
  /\ \A t : EL!Quit(t) => lpc' = lpc /\ quit_'
  /\ \A t : EL!Wakeup(t) => lpc' = lpc /\ quit_' = quit_
  /\ \A t, f : EL!QueueInLoop(t, f) => lpc' = lpc /\ quit_' = quit_
<1> USE DEF EL!Goto
<1>1. EL!LoopStep => quit_' = quit_ /\ lpc # "out" /\ (lpc' = "out" => quit_)
  BY DEF EL!LoopStep, EL!LoopContinue, EL!LoopExit, EL!Poll, EL!HandleRead,
         EL!HandleEvent, EL!HandlerReturn, EL!DoPendingFuncs, EL!RunFunc, EL!FuncReturn,
         EL!DoPendingDone
<1> QED BY <1>1 DEF EL!LoopEnter, EL!PollTimeout, EL!Quit, EL!Wakeup, EL!QueueInLoop

\* Once the new thread is in func() nothing but its end moves it, and before
\* that it does not end.
LEMMA Settled ==
  ASSUME LatchInv, StartInv, T!ParentStep \/ T!ChildStep \/ T!ThreadSpurious
  PROVE  /\ cpc \in {"func", "done"} /\ lat[LoopThread] = "out"
              => cpc' = cpc /\ lat'[LoopThread] = "out"
         /\ cpc' = "done" <=> cpc = "done"
         /\ started_' = started_
         /\ cpc' = "none" <=> cpc = "none"
<1> USE OwnerAssumption DEF StartInv, T!latchVars, T!threadVars, T!Latch!Move
<1>t. lat \in [{Owner, LoopThread} -> T!Latch!State]
  BY DEF LatchInv, T!Latch!MonitorTypeOK
<1>1. CASE T!LatchWait
  BY <1>1, <1>t DEF T!LatchWait, T!Latch!Lock, T!Latch!Wait, T!Latch!Unlock
<1>2. CASE T!SetTid
  BY <1>2 DEF T!SetTid
<1>3. CASE T!countDown
  BY <1>3 DEF T!countDown
<1>4. ASSUME NEW t \in {Owner, LoopThread}, T!Latch!Step(t), UNCHANGED T!threadVars
      PROVE  /\ lat[LoopThread] = "out" => lat'[LoopThread] = "out"
             /\ cpc' = cpc /\ started_' = started_
  BY <1>4, <1>t DEF T!Latch!Step, T!Latch!Lock, T!Latch!AssignHolder, T!Latch!Sleep,
                    T!Latch!Release
<1>5. CASE T!ThreadSpurious
  BY <1>5, <1>t DEF T!ThreadSpurious, T!Latch!SpuriousWakeup
<1> QED BY <1>1, <1>2, <1>3, <1>4, <1>5 DEF T!ParentStep, T!ChildStep

\* The life of the loop follows func().
LEMMA LifeStep ==
  ASSUME ThreadInv, [Next]_vars
  PROVE  LifeInv' /\ QuitInv'
<1> USE OwnerAssumption DEF LifeInv, QuitInv
<1>t. LifeInv /\ QuitInv /\ StartInv /\ GuardInv /\ LatchInv
      /\ quit_ \in BOOLEAN /\ lpc \in EL!LoopStates
  BY DEF ThreadInv, LoopInv, EL!TypeOK
<1> USE <1>t
<1>1. CASE StartLoop
  BY <1>1 DEF StartLoop, StartInv, T!start, T!latchVars, loopVars
<1>2. CASE T!ParentStep /\ UNCHANGED <<loopVars, opc, fpc, loop_, alive, selfQuit>>
  BY <1>2, Settled DEF loopVars
<1>3. CASE T!ThreadSpurious /\ UNCHANGED <<loopVars, opc, fpc, loop_, alive, selfQuit>>
  BY <1>3, Settled DEF loopVars
<1>4. CASE T!ChildStep /\ UNCHANGED <<loopVars, opc, fpc, loop_, alive, selfQuit>>
  BY <1>4, Settled DEF loopVars
<1>5. CASE UNCHANGED <<loopVars, thread_, opc, fpc, loop_, alive, selfQuit>>
  BY <1>5 DEF loopVars, thread_
<1>6. CASE Dtor
  BY <1>6 DEF Dtor, loopVars, thread_, GuardInv, StartInv
<1>7. ASSUME NEW f \in Func, OwnerQueues(f) PROVE LifeInv' /\ QuitInv'
  BY <1>7, LoopControl DEF OwnerQueues, thread_
<1>8. CASE StartLoopLock
  BY <1>8 DEF StartLoopLock, loopVars, thread_
<1>9. CASE StartLoopCheck
  BY <1>9 DEF StartLoopCheck, loopVars, thread_
<1>10. CASE OwnerWakeup
  BY <1>10, LoopControl DEF OwnerWakeup, thread_
<1>11. CASE LateWakeup
  BY <1>11 DEF LateWakeup, thread_
<1>12. CASE DtorQuit
  <2>1. lpc' = lpc /\ (quit_ => quit_')
    BY <1>12, LoopControl DEF DtorQuit, loopVars
  <2> QED BY <1>12, <2>1 DEF DtorQuit, T!join, T!latchVars
<1>13. CASE DtorJoin
  BY <1>13 DEF DtorJoin, loopVars, thread_
<1>14. CASE DtorMembers
  BY <1>14 DEF DtorMembers, loopVars, thread_
<1>15. CASE Construct
  BY <1>15 DEF Construct, Func_, T!InFunc, loopVars, thread_
<1>16. CASE Publish
  BY <1>16 DEF Publish, FuncIn, loopVars, thread_
<1>17. CASE EnterLoop
  BY <1>17, LoopControl DEF EnterLoop, Func_, thread_
<1>18. CASE InLoop
  <2>1. /\ lpc # "out" /\ (quit_ => quit_')
        /\ lpc' = "out" => quit_'
        /\ selfQuit' \in BOOLEAN
        /\ quit_' /\ ~selfQuit' => quit_ /\ ~selfQuit
    <3>1. CASE EL!LoopStep /\ selfQuit' = selfQuit
      BY <3>1, LoopControl
    <3>2. CASE lpc = "func" /\ EL!Quit(LoopThread) /\ selfQuit' = TRUE
      BY <3>2, LoopControl
    <3> QED BY <1>18, <3>1, <3>2 DEF InLoop
  <2>2. fpc = "loop" /\ fpc' = IF lpc' = "out" THEN "clear" ELSE "loop"
    BY <1>18 DEF InLoop
  <2>3. UNCHANGED <<thread_, opc, loop_, alive>>
    BY <1>18 DEF InLoop
  <2>4. ~selfQuit' => ~selfQuit
    BY <1>18 DEF InLoop
  <2> QED BY <2>1, <2>2, <2>3, <2>4 DEF thread_
<1>19. CASE Clear
  BY <1>19 DEF Clear, FuncIn, loopVars, thread_
<1>20. CASE Unlock
  BY <1>20 DEF Unlock, FuncIn, loopVars, thread_
<1>21. CASE DestroyLoop
  BY <1>21 DEF DestroyLoop, Func_, loopVars, T!FuncReturns, T!latchVars
<1>22. CASE InLoopTimeout
  BY <1>22, LoopControl DEF InLoopTimeout, thread_
<1> HIDE DEF LifeInv, QuitInv
<1> QED BY <1>1, <1>2, <1>3, <1>4, <1>5, <1>6, <1>7, <1>8, <1>9, <1>10, <1>11, <1>12,
           <1>13, <1>14, <1>15, <1>16, <1>17, <1>18, <1>19, <1>20, <1>21, <1>22
        DEF Next, OwnerStep, FuncStep, SpuriousWakeup, OwnerSync, FuncSync, FuncLock,
            Terminated, vars

\* Only DestroyLoop ends the loop's life, and nothing brings it back.
LEMMA AliveStep ==
  ASSUME [Next]_vars
  PROVE  alive' # "dead" => alive' = alive \/ Construct
BY DEF Next, OwnerStep, FuncStep, StartLoop, SpuriousWakeup, Dtor, OwnerQueues,
       StartLoopLock, StartLoopCheck, OwnerSync, OwnerWakeup, LateWakeup, DtorQuit,
       DtorJoin, DtorMembers, FuncSync, FuncLock, Publish, EnterLoop, InLoop, Clear,
       Unlock, DestroyLoop, InLoopTimeout, Terminated, vars

\* Every step of EventLoopThread preserves its invariant.
LEMMA ThreadStep == ThreadInv /\ [Next]_vars => ThreadInv'
<1> SUFFICES ASSUME ThreadInv, [Next]_vars PROVE ThreadInv'
  OBVIOUS
<1>1. /\ LoopInv /\ MutexInv /\ LatchInv /\ StartInv /\ GuardInv /\ LifeInv
      /\ QuitInv
  BY DEF ThreadInv
<1>2. LoopInv'
  <2>1. CASE LateWakeup
    <3>1. EL!TypeOK'
      BY <1>1, <2>1 DEF LateWakeup, LoopInv, EL!TypeOK
    <3> QED BY <2>1, <3>1 DEF LateWakeup, LoopInv
  <2>2. CASE ~LateWakeup
    <3>1. LoopCall \/ UNCHANGED loopVars
      BY <1>1, <2>2, Operations
    <3>2. EL!TypeOK' /\ (ELP!WakeInv => ELP!WakeInv')
      BY <1>1, <3>1, LoopCallStep DEF LoopInv
    <3>3. alive' # "dead" => alive # "dead"
      BY <1>1, AliveStep DEF Construct, Func_, LifeInv
    <3> QED BY <1>1, <3>2, <3>3 DEF LoopInv
  <2> QED BY <2>1, <2>2
<1>3. MutexInv' /\ LatchInv' /\ StartInv'
  BY <1>1, Operations, ThreadCallLatch, MutexStepInv, LatchStepInv, StartStep
<1> QED BY <1>2, <1>3, GuardStep, LifeStep DEF ThreadInv

\* It holds when the EventLoopThread is constructed.
LEMMA ThreadStart == Init => ThreadInv
<1> SUFFICES ASSUME Init PROVE ThreadInv
  OBVIOUS
<1> USE OwnerAssumption DEF Init
<1>1. LoopInv
  <2>1. ELP!Init
    BY SameLoop
  <2>2. EL!TypeOK
    BY EmptySeq DEF EL!Init, EL!TypeOK, EL!LoopStates
  <2>3. ELP!WakeInv
    BY <2>1, EmptySeq
    DEF ELP!Init, ELP!WakeInv, ELP!FlagInv, ELP!BatchInv, ELP!PendingInv, ELP!NoLostQuit,
        ELP!BatchStates, ELP!Range
  <2> QED BY <2>2, <2>3 DEF LoopInv
<1>2. MutexInv
  BY DEF MutexInv, M!MonitorInit, M!MonitorTypeOK, M!HolderIsExact, M!State
<1>3. LatchInv
  BY DEF LatchInv, T!ThreadInit, T!Latch!MonitorInit, T!Latch!MonitorTypeOK,
         T!Latch!HolderIsExact, T!Latch!State
<1>4. StartInv
  BY DEF StartInv, T!ThreadInit, T!Latch!MonitorInit
<1>6. LifeInv
  BY DEF LifeInv, T!ThreadInit, T!Latch!MonitorInit, EL!Init
<1>5. GuardInv /\ QuitInv
  BY DEF GuardInv, QuitInv, M!MonitorInit, EL!Init
<1> QED BY <1>1, <1>2, <1>3, <1>4, <1>5, <1>6 DEF ThreadInv

\* From the invariant: members and latch in use by nobody when it matters.
LEMMA ThreadInvSafe == ThreadInv => MembersSafe /\ LoopValidUntilQuit
<1> SUFFICES ASSUME ThreadInv PROVE MembersSafe /\ LoopValidUntilQuit
  OBVIOUS
<1>1. /\ LoopInv /\ MutexInv /\ LatchInv /\ StartInv /\ GuardInv /\ LifeInv
      /\ QuitInv
  BY DEF ThreadInv
<1>2. LoopValidUntilQuit
  BY <1>1 DEF LoopValidUntilQuit, LifeInv, QuitInv, GuardInv
<1>3. TypeOK
  <2>1. T!ThreadTypeOK
    <3>1. count_ \in 0 .. 1
      BY <1>1 DEF StartInv
    <3> QED BY <1>1, <3>1 DEF T!ThreadTypeOK, LatchInv, StartInv
  <2>2. loop_ \in BOOLEAN /\ alive \in {"none", "live", "dead"}
    BY <1>1 DEF LifeInv
  <2> QED BY <1>1, <2>1, <2>2 DEF TypeOK, LoopInv, MutexInv, GuardInv, QuitInv
<1>4. HoldersExact
  BY <1>1 DEF HoldersExact, MutexInv, LatchInv
<1>5. StartedWithTid
  <2> SUFFICES ASSUME T!Ready
               PROVE  /\ tid_ = LoopThread /\ lowner = None
                      /\ lat[Owner] = "out" /\ lat[LoopThread] = "out"
    BY DEF StartedWithTid, T!StartedWithTid
  <2>1. tid_ = LoopThread /\ lat[Owner] = "out" /\ lat[LoopThread] = "out"
    BY <1>1 DEF T!Ready, StartInv
  <2>2. lowner \in {Owner, LoopThread, None}
    BY <1>1 DEF LatchInv, T!Latch!MonitorTypeOK
  <2>3. lowner # Owner /\ lowner # LoopThread
    BY <1>1, <2>1 DEF LatchInv, T!Latch!HolderIsExact
  <2> QED BY <2>1, <2>2, <2>3
<1>6. MembersUnused
  <2> SUFFICES ASSUME opc \in {"members", "gone"}, ~selfQuit
               PROVE  cpc \in {"none", "done"} /\ mholder_ = None /\ mowner = None
    BY DEF MembersUnused
  <2>1. cpc \in {"none", "done"}
    BY <1>1 DEF QuitInv
  <2>2. mat[Owner] = "out" /\ mat[LoopThread] = "out"
    BY <1>1, <2>1 DEF GuardInv, LifeInv
  <2>3. mowner \in {Owner, LoopThread, None} /\ mholder_ \in {Owner, LoopThread, None}
    BY <1>1 DEF MutexInv, M!MonitorTypeOK
  <2> QED BY <1>1, <2>1, <2>2, <2>3 DEF MutexInv, M!HolderIsExact
<1> QED BY <1>2, <1>3, <1>4, <1>5, <1>6 DEF MembersSafe

\* The invariant of every behaviour of an EventLoopThread.
LEMMA ThreadInvariant == Spec => []ThreadInv
BY ThreadStart, ThreadStep, PTL DEF Spec

\* MutexLock, Condition, CountDownLatch and Thread as EventLoopThread uses
\* them: the holder recorded is exact, start() returns with the id, and what
\* the destructor destroys is not in use, unless a functor quit the loop.
THEOREM EventLoopThreadMembersSafe == Spec => []MembersSafe
BY ThreadInvariant, ThreadInvSafe, PTL

\* The loop startLoop() hands out is alive until somebody quits it.
THEOREM EventLoopThreadLoopValid == Spec => []LoopValidUntilQuit
BY ThreadInvariant, ThreadInvSafe, PTL

\* While the loop lives it never sleeps on a functor or on quit(): what is
\* proved of EventLoop holds of the one on func()'s stack.
THEOREM EventLoopThreadNoLostWakeup ==
  Spec => [](alive # "dead" => EL!NoLostWakeup /\ EL!NoLostQuit)
<1>1. ThreadInv => (alive # "dead" => EL!NoLostWakeup /\ EL!NoLostQuit)
  <2>1. ELP!WakeInv => EL!NoLostWakeup /\ EL!NoLostQuit
    BY DEF ELP!WakeInv, ELP!PendingInv, ELP!BeforePoll, ELP!NoLostQuit, EL!NoLostQuit,
           EL!NoLostWakeup, EL!WakeupOnItsWay, ELP!WakeupOnItsWay, ELP!Threads,
           EL!Threads, ELP!Range, EL!Range
  <2> QED BY <2>1 DEF ThreadInv, LoopInv
<1> QED BY <1>1, ThreadInvariant, PTL

-----------------------------------------------------------------------------
(* The loop's queue: funcs, then pendingCBs_.                              *)

\* What appending and taking the head do to membership.
LEMMA InAppend ==
  ASSUME NEW S, NEW q \in Seq(S), NEW e \in S, NEW f
  PROVE  In(f, Append(q, e)) <=> In(f, q) \/ f = e
<1>1. /\ Len(q) \in Nat /\ Len(Append(q, e)) = Len(q) + 1
      /\ \A i \in 1 .. Len(q) : Append(q, e)[i] = q[i]
      /\ Append(q, e)[Len(q) + 1] = e
  BY AppendProperties, LenProperties
<1> QED BY <1>1 DEF In

\* The tail of a sequence, index by index.
LEMMA TailIndex ==
  ASSUME NEW S, NEW q \in Seq(S), q # <<>>
  PROVE  /\ Tail(q) \in Seq(S) /\ Len(Tail(q)) = Len(q) - 1 /\ Len(q) \in Nat
         /\ Len(q) > 0
         /\ \A i \in 1 .. Len(Tail(q)) : Tail(q)[i] = q[i + 1]
         /\ Head(q) = q[1] /\ Head(q) \in S
BY HeadTailProperties, EmptySeq, LenProperties

LEMMA InTail ==
  ASSUME NEW S, NEW q \in Seq(S), q # <<>>, NEW f
  PROVE  In(f, q) <=> f = Head(q) \/ In(f, Tail(q))
<1>1. ASSUME In(f, q), f # Head(q) PROVE In(f, Tail(q))
  <2>1. PICK i \in 1 .. Len(q) : q[i] = f
    BY <1>1 DEF In
  <2>2. i - 1 \in 1 .. Len(Tail(q)) /\ Tail(q)[i - 1] = f
    BY <1>1, <2>1, TailIndex
  <2> QED BY <2>2 DEF In
<1>2. ASSUME In(f, Tail(q)) PROVE In(f, q)
  <2>1. PICK i \in 1 .. Len(Tail(q)) : Tail(q)[i] = f
    BY <1>2 DEF In
  <2>2. i + 1 \in 1 .. Len(q) /\ q[i + 1] = f
    BY <2>1, TailIndex
  <2> QED BY <2>2 DEF In
<1>3. In(Head(q), q)
  <2>1. 1 \in 1 .. Len(q)
    BY TailIndex
  <2> QED BY <2>1, TailIndex DEF In
<1> QED BY <1>1, <1>2, <1>3

\* A functor that is new is queued once.
LEMMA OnceAppend ==
  ASSUME NEW S, NEW q \in Seq(S), NEW r \in Seq(S), NEW f \in S,
         Once(q, r), ~In(f, q), ~In(f, r)
  PROVE  Once(Append(q, f), r)
<1>1. /\ Len(q) \in Nat /\ Len(Append(q, f)) = Len(q) + 1
      /\ \A i \in 1 .. Len(q) : Append(q, f)[i] = q[i]
      /\ Append(q, f)[Len(q) + 1] = f
  BY AppendProperties, LenProperties
<1>2. ASSUME NEW i \in 1 .. Len(Append(q, f)), NEW j \in 1 .. Len(Append(q, f)),
             Append(q, f)[i] = Append(q, f)[j]
      PROVE  i = j
  <2>1. CASE i \in 1 .. Len(q) /\ j \in 1 .. Len(q)
    BY <1>1, <1>2, <2>1 DEF Once
  <2>2. CASE i = Len(q) + 1 \/ j = Len(q) + 1
    BY <1>1, <1>2, <2>2 DEF In
  <2> QED BY <1>1, <2>1, <2>2
<1>3. ASSUME NEW i \in 1 .. Len(Append(q, f)), NEW j \in 1 .. Len(r)
      PROVE  Append(q, f)[i] # r[j]
  BY <1>1 DEF Once, In
<1> QED BY <1>2, <1>3 DEF Once

\* A functor that is run leaves the queue.
LEMMA OnceTail ==
  ASSUME NEW S, NEW q \in Seq(S), NEW r \in Seq(S), q # <<>>, Once(q, r)
  PROVE  Once(Tail(q), Append(r, Head(q))) /\ ~In(Head(q), Tail(q))
<1>1. /\ Len(r) \in Nat /\ Len(Append(r, Head(q))) = Len(r) + 1
      /\ \A i \in 1 .. Len(r) : Append(r, Head(q))[i] = r[i]
      /\ Append(r, Head(q))[Len(r) + 1] = Head(q)
  BY AppendProperties, LenProperties, TailIndex
<1>2. \A i, j \in 1 .. Len(Tail(q)) : Tail(q)[i] = Tail(q)[j] => i = j
  BY TailIndex DEF Once
<1>3. \A i \in 1 .. Len(Tail(q)) : Tail(q)[i] # Head(q)
  BY TailIndex DEF Once
<1>4. \A i \in 1 .. Len(Tail(q)), j \in 1 .. Len(r) : Tail(q)[i] # r[j]
  BY TailIndex DEF Once
<1>5. ASSUME NEW i \in 1 .. Len(Tail(q)), NEW j \in 1 .. Len(Append(r, Head(q)))
      PROVE  Tail(q)[i] # Append(r, Head(q))[j]
  <2>1. CASE j \in 1 .. Len(r)
    BY <1>1, <1>4, <2>1
  <2>2. CASE j = Len(r) + 1
    BY <1>1, <1>3, <2>2
  <2> QED BY <1>1, <2>1, <2>2
<1> QED BY <1>2, <1>3, <1>5 DEF Once, In

\* Order is kept by taking the head, which is not connDestroyed() of a
\* connection whose connEstablished() is still to come, and by appending
\* anything but connEstablished() after connDestroyed().
LEMMA OrderedTail ==
  ASSUME NEW S, NEW q \in Seq(S), q # <<>>, Ordered(q)
  PROVE  /\ Ordered(Tail(q))
         /\ \A c \in Conn : Head(q) = Des(c) => ~In(Est(c), q)
<1>1. ASSUME NEW c \in Conn, NEW i \in 1 .. Len(Tail(q)), NEW j \in 1 .. Len(Tail(q)),
             Tail(q)[i] = Des(c), Tail(q)[j] = Est(c)
      PROVE  j < i
  <2>1. i + 1 \in 1 .. Len(q) /\ j + 1 \in 1 .. Len(q)
        /\ q[i + 1] = Des(c) /\ q[j + 1] = Est(c)
    BY <1>1, TailIndex
  <2>2. j + 1 < i + 1
    BY <2>1 DEF Ordered
  <2> QED BY <2>2
<1>2. ASSUME NEW c \in Conn, Head(q) = Des(c), NEW j \in 1 .. Len(q), q[j] = Est(c)
      PROVE  FALSE
  <2>1. 1 \in 1 .. Len(q) /\ q[1] = Des(c)
    BY <1>2, TailIndex
  <2>2. j < 1
    BY <1>2, <2>1 DEF Ordered
  <2> QED BY <2>2
<1>3. Ordered(Tail(q))
  BY <1>1 DEF Ordered
<1>4. \A c \in Conn : Head(q) = Des(c) => ~In(Est(c), q)
  BY <1>2 DEF In
<1> QED BY <1>3, <1>4

LEMMA OrderedAppend ==
  ASSUME NEW S, NEW q \in Seq(S), NEW f \in S, Ordered(q),
         \A c \in Conn : f = Est(c) => ~In(Des(c), q)
  PROVE  Ordered(Append(q, f))
<1>1. /\ Len(q) \in Nat /\ Len(Append(q, f)) = Len(q) + 1
      /\ \A i \in 1 .. Len(q) : Append(q, f)[i] = q[i]
      /\ Append(q, f)[Len(q) + 1] = f
  BY AppendProperties, LenProperties
<1>2. ASSUME NEW c \in Conn, NEW i \in 1 .. Len(Append(q, f)),
             NEW j \in 1 .. Len(Append(q, f)),
             Append(q, f)[i] = Des(c), Append(q, f)[j] = Est(c)
      PROVE  j < i
  <2>1. Des(c) # Est(c)
    BY DEF Des, Est
  <2>2. CASE j = Len(q) + 1
    <3>1. f = Est(c)
      BY <1>1, <1>2, <2>2
    <3>2. i \in 1 .. Len(q)
      BY <1>1, <1>2, <2>1, <2>2
    <3>3. In(Des(c), q)
      BY <1>1, <1>2, <3>2 DEF In
    <3> QED BY <3>1, <3>3
  <2>3. CASE j \in 1 .. Len(q) /\ i \in 1 .. Len(q)
    BY <1>1, <1>2, <2>3 DEF Ordered
  <2>4. CASE j \in 1 .. Len(q) /\ i = Len(q) + 1
    BY <1>1, <2>4
  <2> QED BY <1>1, <2>2, <2>3, <2>4
<1> QED BY <1>2 DEF Ordered

-----------------------------------------------------------------------------
(* What the steps of EventLoopThread do to the queue.                      *)

SameQueue == Queue' = Queue /\ ran' = ran

\* The queue and what has run are sequences of functors.
LEMMA QueueType ==
  ASSUME ThreadInv
  PROVE  /\ Queue \in Seq(Func) /\ ran \in Seq(Func)
         /\ pendingCBs_ \in Seq(Func) /\ funcs \in Seq(Func)
BY ConcatProperties DEF ThreadInv, LoopInv, EL!TypeOK, Queue

\* queueInLoop() on the owner appends a functor that is new.
LEMMA QueuesOne ==
  ASSUME ThreadInv, NEW f \in Func, OwnerQueues(f)
  PROVE  /\ Queue' = Append(Queue, f) /\ ran' = ran
         /\ ~In(f, Queue) /\ ~In(f, ran)
         /\ alive = "live" /\ UNCHANGED <<thread_, mutex_, opc, fpc, loop_, alive, selfQuit>>
<1>1. /\ pendingCBs_' = Append(pendingCBs_, f) /\ funcs' = funcs /\ ran' = ran
      /\ EL!NewFunc(f)
      /\ alive = "live" /\ UNCHANGED <<thread_, mutex_, opc, fpc, loop_, alive, selfQuit>>
  BY DEF OwnerQueues, EL!QueueInLoop
<1>2. Queue' = Append(Queue, f)
  BY <1>1, QueueType, AppendIsConcat, ConcatAssociative DEF Queue
<1>3. ~In(f, ran)
  BY <1>1, QueueType DEF EL!NewFunc, EL!Range, In
<1>4. ASSUME NEW i \in 1 .. Len(Queue), Queue[i] = f PROVE FALSE
  <2>1. /\ Len(Queue) = Len(funcs) + Len(pendingCBs_)
        /\ Len(funcs) \in Nat /\ Len(pendingCBs_) \in Nat
        /\ DOMAIN funcs = 1 .. Len(funcs) /\ DOMAIN pendingCBs_ = 1 .. Len(pendingCBs_)
    BY QueueType, ConcatProperties, LenProperties DEF Queue
  <2>2. CASE i \in 1 .. Len(funcs)
    <3>1. Queue[i] = funcs[i]
      BY <2>2, QueueType, ConcatProperties DEF Queue
    <3> QED BY <1>1, <1>4, <2>1, <2>2, <3>1 DEF EL!NewFunc, EL!Range
  <2>3. CASE i > Len(funcs)
    <3>1. i - Len(funcs) \in 1 .. Len(pendingCBs_)
      BY <2>1, <2>3
    <3>2. Queue[i] = pendingCBs_[i - Len(funcs)]
      BY <2>1, <2>3, QueueType, ConcatProperties DEF Queue
    <3> QED BY <1>1, <1>4, <2>1, <3>1, <3>2 DEF EL!NewFunc, EL!Range
  <2> QED BY <2>1, <2>2, <2>3
<1> QED BY <1>1, <1>2, <1>3, <1>4 DEF In

\* A step of loop() runs the head of the queue, or leaves the queue alone.
LEMMA LoopRuns ==
  ASSUME ThreadInv, InLoop
  PROVE  /\ \/ SameQueue
            \/ /\ Queue # <<>> /\ Queue' = Tail(Queue)
               /\ ran' = Append(ran, Head(Queue))
         /\ alive = "live" /\ UNCHANGED <<thread_, mutex_, opc, loop_, alive>>
<1>1. alive = "live" /\ UNCHANGED <<thread_, mutex_, opc, loop_, alive>>
  BY DEF InLoop, ThreadInv, LifeInv
<1>2. CASE EL!RunFunc
  <2>1. /\ funcs # <<>> /\ funcs' = Tail(funcs) /\ pendingCBs_' = pendingCBs_
        /\ ran' = Append(ran, Head(funcs))
    BY <1>2 DEF EL!RunFunc
  <2> QED BY <1>1, <2>1, QueueType, ELP!HeadTailConcat DEF Queue
<1>3. CASE EL!DoPendingFuncs
  <2>1. lpc = "events" /\ funcs' = pendingCBs_ /\ pendingCBs_' = <<>> /\ ran' = ran
    BY <1>3 DEF EL!DoPendingFuncs, EL!Goto, EL!history
  <2>2. funcs = <<>>
    BY <1>1, <2>1 DEF ThreadInv, LoopInv, ELP!WakeInv, ELP!BatchInv, ELP!BatchStates
  <2>3. Queue' = Queue
    BY <2>1, <2>2, QueueType, ConcatEmptySeq DEF Queue
  <2> QED BY <1>1, <2>1, <2>3 DEF SameQueue
<1>4. CASE EL!Quit(LoopThread) \/ EL!LoopContinue \/ EL!LoopExit \/ EL!Poll
           \/ EL!HandleRead \/ EL!HandlerReturn \/ EL!FuncReturn \/ EL!DoPendingDone
           \/ \E c \in IoChannels : EL!HandleEvent(c)
  BY <1>1, <1>4
  DEF EL!Quit, EL!LoopContinue, EL!LoopExit, EL!Poll, EL!HandleRead, EL!HandlerReturn,
      EL!FuncReturn, EL!DoPendingDone, EL!HandleEvent, EL!queueVars, EL!history, Queue,
      SameQueue
<1> QED BY <1>2, <1>3, <1>4 DEF InLoop, EL!LoopStep

\* What a step of the thread or of its owner that the server takes no part in
\* leaves alone.
Aside ==
  /\ SameQueue /\ pendingCBs_' = pendingCBs_ /\ selfQuit' = selfQuit
  /\ alive' = alive \/ (alive = "none" /\ alive' = "live")
  /\ opc' \in Stopping => opc \in Stopping
  /\ opc = "gone" => opc' = "gone"

LEMMA AsideSteps ==
  ASSUME ThreadInv,
         \/ OwnerStep \/ FuncSync \/ Construct \/ FuncLock \/ Publish \/ EnterLoop
         \/ Clear \/ Unlock \/ SpuriousWakeup \/ InLoopTimeout \/ UNCHANGED vars
         \/ StartLoop
  PROVE  Aside
<1> USE DEF Aside, SameQueue, Queue, Stopping
<1>0. LifeInv /\ GuardInv
  BY DEF ThreadInv
<1>1. CASE UNCHANGED <<loopVars, opc, alive, selfQuit>>
  BY <1>1 DEF loopVars
<1>2. CASE StartLoopLock \/ StartLoop
  BY <1>2 DEF StartLoopLock, StartLoop, loopVars
<1>3. CASE StartLoopCheck
  BY <1>3 DEF StartLoopCheck, loopVars
<1>4. CASE OwnerWakeup
  BY <1>4 DEF OwnerWakeup, EL!Wakeup, EL!queueVars, EL!history
<1>5. CASE LateWakeup
  BY <1>5 DEF LateWakeup
<1>6. CASE DtorQuit
  BY <1>6 DEF DtorQuit, EL!Quit, EL!queueVars, EL!history, loopVars
<1>7. CASE DtorJoin \/ DtorMembers
  BY <1>7 DEF DtorJoin, DtorMembers, loopVars
<1>8. CASE Construct
  BY <1>8, <1>0 DEF Construct, Func_, loopVars, LifeInv
<1>9. CASE EnterLoop
  BY <1>9 DEF EnterLoop, EL!LoopEnter, EL!queueVars, EL!history
<1>10. CASE InLoopTimeout
  BY <1>10 DEF InLoopTimeout, EL!PollTimeout, EL!queueVars, EL!history
<1> HIDE DEF Aside
<1> QED BY <1>1, <1>2, <1>3, <1>4, <1>5, <1>6, <1>7, <1>8, <1>9, <1>10
        DEF OwnerStep, OwnerSync, FuncSync, FuncLock, Publish, Clear, Unlock,
            SpuriousWakeup, vars

-----------------------------------------------------------------------------
(* The steps of the server.  First what they do to the connections.        *)

\* Nothing happens to the connections.
LEMMA LinkAside ==
  ASSUME LinkInv, SameQueue, pendingCBs_' = pendingCBs_,
         alive' = alive \/ (alive = "none" /\ alive' = "live"),
         UNCHANGED <<conn, conns_, rmQ>>
  PROVE  LinkInv' /\ Open' = Open
<1>1. Once(Queue, ran)' /\ Ordered(Queue)'
  BY DEF LinkInv, SameQueue, Once, Ordered, Est, Des
<1>2. ConnInv'
  BY DEF LinkInv, SameQueue, ConnInv, In, Est, Des, HasFd
<1>3. Open' = Open
  BY DEF Open, HasFd
<1> QED BY <1>1, <1>2, <1>3 DEF LinkInv

\* A connection in the backlog, or the arrival of one.
LEMMA LinkBacklog ==
  ASSUME LinkInv, UNCHANGED vars, conn \in [Conn -> ConnStates], NEW c \in Conn,
         conn[c] \in {"away", "waiting"}, NEW t \in {"waiting", "refused"}, Becomes(c, t),
         UNCHANGED <<conns_, rmQ>>
  PROVE  LinkInv' /\ Open' = Open
<1>1. UNCHANGED <<funcs, pendingCBs_, ran, alive>>
  BY DEF vars, loopVars
<1>2. Once(Queue, ran)' /\ Ordered(Queue)'
  BY <1>1 DEF LinkInv, Once, Ordered, Queue
<1>3. ConnInv'
  BY <1>1 DEF LinkInv, ConnInv, In, Queue, HasFd, Becomes, Outside
<1>4. Open' = Open
  BY DEF Open, HasFd, Becomes
<1> QED BY <1>2, <1>3, <1>4 DEF LinkInv

\* newConn(): the connection is in the map and to be established.
LEMMA LinkNew ==
  ASSUME ThreadInv, LinkInv, conn \in [Conn -> ConnStates], NEW c \in Conn,
         conn[c] = "waiting", Becomes(c, "made"), conns_' = conns_ \cup {c},
         rmQ' = rmQ, OwnerQueues(Est(c)), Est(c) \in Func
  PROVE  LinkInv' /\ Open' = Open \cup {c} /\ c \notin Open
<1>1. /\ Queue' = Append(Queue, Est(c)) /\ ran' = ran
      /\ ~In(Est(c), Queue) /\ ~In(Est(c), ran) /\ alive = "live" /\ alive' = alive
  BY QueuesOne
<1>2. ~In(Des(c), Queue)
  BY <1>1 DEF LinkInv, ConnInv, HasFd
<1>3. Once(Queue, ran)'
  BY <1>1, QueueType, OnceAppend DEF LinkInv
<1>4. Ordered(Queue)'
  <2>1. \A d \in Conn : Est(c) = Est(d) => ~In(Des(d), Queue)
    BY <1>2 DEF Est
  <2>2. Ordered(Append(Queue, Est(c)))
    BY <2>1, QueueType, OrderedAppend DEF LinkInv
  <2> QED BY <1>1, <2>2 DEF Ordered, Est, Des
<1>5. \A f : In(f, Queue') <=> In(f, Queue) \/ f = Est(c)
  BY <1>1, QueueType, InAppend
<1>6. \A d \in Conn : Des(d) # Est(c) /\ (Est(d) = Est(c) => d = c)
  BY DEF Est, Des
<1>7. \A d \in Conn : conn'[d] = IF d = c THEN "made" ELSE conn[d]
  BY DEF Becomes
<1>8. ConnInv'
  <2> SUFFICES ASSUME NEW d \in Conn
               PROVE  /\ In(Est(d), Queue') => conn'[d] = "made"
                      /\ In(Des(d), Queue') => HasFd(d)'
                      /\ HasFd(d)' => d \in conns_' \/ In(Des(d), Queue')
                      /\ conn'[d] = "dead" => In(Des(d), ran)
                      /\ conn'[d] # "lost"
                      /\ d \in conns_' \/ In(d, rmQ) => conn'[d] \notin Outside
    BY <1>1 DEF ConnInv, Est, Des, In
  <2>1. CASE d = c
    BY <1>2, <1>5, <1>6, <1>7, <2>1 DEF HasFd, Outside
  <2>2. CASE d # c
    BY <1>1, <1>5, <1>6, <1>7, <2>2 DEF HasFd, LinkInv, ConnInv
  <2> QED BY <2>1, <2>2
<1>9. Open' = Open \cup {c} /\ c \notin Open
  BY <1>7 DEF Open, HasFd
<1> QED BY <1>3, <1>4, <1>8, <1>9 DEF LinkInv

\* rmConnInLoop() and ~TcpServer(): a connection leaves the map and is to be
\* destroyed by its loop.
LEMMA LinkDes ==
  ASSUME ThreadInv, LinkInv, conn \in [Conn -> ConnStates], NEW c \in Conn,
         conn[c] \notin Outside, conn' = conn, conns_' = conns_ \ {c},
         \A d \in Conn : In(d, rmQ') => In(d, rmQ),
         OwnerQueues(Des(c)), Des(c) \in Func
  PROVE  LinkInv' /\ Open' = Open
<1>1. /\ Queue' = Append(Queue, Des(c)) /\ ran' = ran
      /\ ~In(Des(c), Queue) /\ ~In(Des(c), ran) /\ alive = "live" /\ alive' = alive
  BY QueuesOne
<1>2. HasFd(c)
  <2>1. conn[c] # "dead" /\ conn[c] # "lost"
    BY <1>1 DEF LinkInv, ConnInv
  <2> QED BY <2>1 DEF HasFd, ConnStates, Outside
<1>3. Once(Queue, ran)'
  BY <1>1, QueueType, OnceAppend DEF LinkInv
<1>4. Ordered(Queue)'
  <2>1. \A d \in Conn : Des(c) # Est(d)
    BY DEF Est, Des
  <2>2. Ordered(Append(Queue, Des(c)))
    BY <2>1, QueueType, OrderedAppend DEF LinkInv
  <2> QED BY <1>1, <2>2 DEF Ordered, Est, Des
<1>5. \A f : In(f, Queue') <=> In(f, Queue) \/ f = Des(c)
  BY <1>1, QueueType, InAppend
<1>6. \A d \in Conn : Est(d) # Des(c) /\ (Des(d) = Des(c) => d = c)
  BY DEF Est, Des
<1>8. ConnInv'
  <2> SUFFICES ASSUME NEW d \in Conn
               PROVE  /\ In(Est(d), Queue') => conn[d] = "made"
                      /\ In(Des(d), Queue') => HasFd(d)
                      /\ HasFd(d) => d \in conns_' \/ In(Des(d), Queue')
                      /\ conn[d] = "dead" => In(Des(d), ran)
                      /\ conn[d] # "lost"
                      /\ d \in conns_' \/ In(d, rmQ') => conn[d] \notin Outside
    BY <1>1 DEF ConnInv, Est, Des, In, HasFd
  <2>1. CASE d = c
    BY <1>1, <1>2, <1>5, <1>6, <2>1 DEF HasFd, LinkInv, ConnInv
  <2>2. CASE d # c
    BY <1>1, <1>5, <1>6, <2>2 DEF HasFd, LinkInv, ConnInv
  <2> QED BY <2>1, <2>2
<1>9. Open' = Open
  BY DEF Open, HasFd
<1> QED BY <1>3, <1>4, <1>8, <1>9 DEF LinkInv

\* connEstablished() or connDestroyed() runs in the connection's loop.
LEMMA LinkRun ==
  ASSUME ThreadInv, LinkInv, conn \in [Conn -> ConnStates],
         Queue # <<>>, Queue' = Tail(Queue), ran' = Append(ran, Head(Queue)),
         alive = "live", alive' = "live", UNCHANGED <<conns_, rmQ>>,
         NEW c \in Conn, NEW up \in BOOLEAN,
         Head(Queue) = IF up THEN Est(c) ELSE Des(c),
         Becomes(c, IF up THEN "up" ELSE "dead")
  PROVE  LinkInv' /\ c \in Open /\ Open' = IF up THEN Open ELSE Open \ {c}
<1>1. Once(Queue, ran)' /\ ~In(Head(Queue), Queue')
  BY QueueType, OnceTail DEF LinkInv
<1>2. Ordered(Tail(Queue)) /\ (\A d \in Conn : Head(Queue) = Des(d) => ~In(Est(d), Queue))
  BY QueueType, OrderedTail DEF LinkInv
<1>3. Ordered(Queue)'
  BY <1>2 DEF Ordered, Est, Des
<1>4. \A f : In(f, Queue) <=> f = Head(Queue) \/ In(f, Queue')
  BY QueueType, InTail
<1>5. Head(Queue) \in Func
  BY QueueType, TailIndex
<1>6. \A f : In(f, ran') <=> In(f, ran) \/ f = Head(Queue)
  BY <1>5, QueueType, InAppend
<1>7. \A d \in Conn : /\ Des(d) # Est(c) /\ Est(d) # Des(c) /\ Des(c) # Est(d)
                      /\ (Est(d) = Est(c) => d = c) /\ (Des(d) = Des(c) => d = c)
  BY DEF Est, Des
<1>8. \A d \in Conn :
        conn'[d] = IF d = c THEN (IF up THEN "up" ELSE "dead") ELSE conn[d]
  BY DEF Becomes
<1>9. ConnInv'
  <2> SUFFICES ASSUME NEW d \in Conn
               PROVE  /\ In(Est(d), Queue') => conn'[d] = "made"
                      /\ In(Des(d), Queue') => HasFd(d)'
                      /\ HasFd(d)' => d \in conns_ \/ In(Des(d), Queue')
                      /\ conn'[d] = "dead" => In(Des(d), ran')
                      /\ conn'[d] # "lost"
                      /\ d \in conns_ \/ In(d, rmQ) => conn'[d] \notin Outside
    BY DEF ConnInv, Est, Des, In
  <2>1. CASE d = c /\ up
    BY <1>1, <1>4, <1>7, <1>8, <2>1 DEF HasFd, LinkInv, ConnInv, Outside
  <2>2. CASE d = c /\ ~up
    BY <1>1, <1>2, <1>4, <1>6, <1>7, <1>8, <2>2 DEF HasFd, Outside
  <2>3. CASE d # c
    BY <1>4, <1>6, <1>7, <1>8, <2>3 DEF HasFd, LinkInv, ConnInv
  <2> QED BY <2>1, <2>2, <2>3
<1>10. c \in Open
  BY <1>4 DEF LinkInv, ConnInv, Open, HasFd
<1>11. Open' = IF up THEN Open ELSE Open \ {c}
  BY <1>8, <1>10 DEF Open, HasFd
<1> QED BY <1>1, <1>3, <1>9, <1>10, <1>11 DEF LinkInv

\* A peer closes its connection.
LEMMA LinkPeer ==
  ASSUME ThreadInv, LinkInv, UNCHANGED vars, conn \in [Conn -> ConnStates],
         rmQ \in Seq(Conn), NEW c \in Conn, conn[c] = "up", Becomes(c, "down"),
         rmQ' = Append(rmQ, c), conns_' = conns_
  PROVE  LinkInv' /\ Open' = Open
<1>1. UNCHANGED <<funcs, pendingCBs_, ran, alive>>
  BY DEF vars, loopVars
<1>2. Once(Queue, ran)' /\ Ordered(Queue)'
  BY <1>1 DEF LinkInv, Once, Ordered, Queue
<1>3. \A d : In(d, rmQ') <=> In(d, rmQ) \/ d = c
  BY InAppend
<1>4. \A d \in Conn : conn'[d] = IF d = c THEN "down" ELSE conn[d]
  BY DEF Becomes
<1>5. Queue' = Queue
  BY <1>1 DEF Queue
<1>6. ConnInv'
  <2> SUFFICES ASSUME NEW d \in Conn
               PROVE  /\ alive # "dead" /\ In(Est(d), Queue) => conn'[d] = "made"
                      /\ alive # "dead" /\ In(Des(d), Queue) => HasFd(d)'
                      /\ HasFd(d)' => \/ d \in conns_
                                      \/ alive # "dead" /\ In(Des(d), Queue)
                      /\ conn'[d] = "dead" => In(Des(d), ran)
                      /\ conn'[d] = "lost" => alive = "dead" /\ In(Des(d), pendingCBs_)
                      /\ d \in conns_ \/ In(d, rmQ') => conn'[d] \notin Outside
    BY <1>1, <1>5 DEF ConnInv, Est, Des, In
  <2> QED BY <1>3, <1>4 DEF LinkInv, ConnInv, HasFd, Outside
<1>7. Open' = Open
  BY <1>4 DEF Open, HasFd
<1> QED BY <1>2, <1>6, <1>7 DEF LinkInv

\* The loop is destroyed: the connections in its queue are deleted with it.
LEMMA LinkLost ==
  ASSUME ThreadInv, LinkInv, conn \in [Conn -> ConnStates], DestroyLoop, conns_ = {},
         UNCHANGED <<conns_, rmQ>>, NEW lost,
         lost = {c \in Conn : Est(c) \in Pending \/ Des(c) \in Pending},
         conn' = [c \in Conn |-> IF c \in lost THEN "lost" ELSE conn[c]]
  PROVE  LinkInv' /\ lost = Open /\ Open' = {}
<1>1. /\ alive = "live" /\ alive' = "dead" /\ fpc = "dtor"
      /\ UNCHANGED <<funcs, pendingCBs_, ran, lpc>>
  BY DEF DestroyLoop, Func_, loopVars, ThreadInv, LifeInv
<1>2. Once(Queue, ran)' /\ Ordered(Queue)'
  BY <1>1 DEF LinkInv, Once, Ordered, Queue
<1>3. Queue = pendingCBs_
  <2>1. lpc = "out"
    BY <1>1 DEF ThreadInv, LifeInv
  <2>2. funcs = <<>>
    BY <1>1, <2>1 DEF ThreadInv, LoopInv, ELP!WakeInv, ELP!BatchInv, ELP!BatchStates
  <2> QED BY <2>2, QueueType, ConcatEmptySeq DEF Queue
<1>4. \A f : f \in Pending <=> In(f, Queue)
  BY <1>3, QueueType DEF Pending, In
<1>5. lost = Open
  BY <1>1, <1>4 DEF LinkInv, ConnInv, Open, HasFd
<1>6. \A c \in Open : In(Des(c), pendingCBs_)
  BY <1>3 DEF LinkInv, ConnInv, Open
<1>7. \A d \in Conn : conn'[d] = IF d \in Open THEN "lost" ELSE conn[d]
  BY <1>5
<1>8. Open' = {}
  BY <1>7 DEF Open, HasFd
<1>9. ConnInv'
  <2> SUFFICES ASSUME NEW d \in Conn
               PROVE  /\ ~HasFd(d)'
                      /\ conn'[d] = "dead" => In(Des(d), ran)
                      /\ conn'[d] = "lost" => In(Des(d), pendingCBs_)
                      /\ d \in conns_ \/ In(d, rmQ) => conn'[d] \notin Outside
    BY <1>1 DEF ConnInv, Est, Des, In
  <2>1. CASE d \in Open
    BY <1>6, <1>7, <2>1 DEF HasFd, Outside
  <2>2. CASE d \notin Open
    BY <1>1, <1>7, <2>2 DEF HasFd, LinkInv, ConnInv, Open
  <2> QED BY <2>1, <2>2
<1> QED BY <1>2, <1>5, <1>8, <1>9 DEF LinkInv

-----------------------------------------------------------------------------
(* Then the rest of the server's state.                                    *)

ServedInv == /\ spc # "none" /\ ServerState /\ SpareInv /\ CountInv /\ StageInv
             /\ LinkInv

\* The functors of a connection are functors.
LEMMA ConnFunctors == ASSUME NEW c \in Conn PROVE Est(c) \in Func /\ Des(c) \in Func
BY ServerAssumption DEF Est, Des

\* Counting descriptors: what one holder gives up another has.
LEMMA SumAssociates ==
  ASSUME NEW k \in Nat, NEW f \in Nat, NEW o \in Nat, NEW i \in Nat
  PROVE  k + f + o + i = k + (f + o + i)
OBVIOUS

LEMMA CountSame ==
  ASSUME CountInv, Open' = Open, free' + others' + SpareFds' = free + others + SpareFds,
         free \in Nat, others \in Nat, free' \in Nat, others' \in Nat
  PROVE  CountInv'
<1>1. Cardinality(Open) \in Nat
  BY FS_CardinalityType DEF CountInv
<1>2. SpareFds \in Nat /\ SpareFds' \in Nat
  BY DEF SpareFds
<1>3. Cardinality(Open) + free' + others' + SpareFds'
        = Cardinality(Open) + (free' + others' + SpareFds')
  BY <1>1, <1>2, SumAssociates
<1>4. Cardinality(Open) + free + others + SpareFds
        = Cardinality(Open) + (free + others + SpareFds)
  BY <1>1, <1>2, SumAssociates
<1> QED BY <1>3, <1>4 DEF CountInv

\* A step that the server takes no part in.
LEMMA ServedAside ==
  ASSUME ServedInv, Aside, UNCHANGED server
  PROVE  ServedInv'
<1>1. UNCHANGED <<spc, conn, conns_, rmQ, loops_, nxt_, idleFd_, free, others, robbed>>
  BY DEF server, pool, fds
<1>2. LinkInv' /\ Open' = Open
  BY <1>1, LinkAside DEF ServedInv, Aside
<1>3. StageInv'
  BY <1>1 DEF ServedInv, StageInv, Aside, SameQueue
<1>4. ServerState' /\ SpareInv'
  BY <1>1 DEF ServedInv, ServerState, SpareInv
<1>5. CountInv'
  BY <1>1, <1>2 DEF ServedInv, CountInv, SpareFds
<1> QED BY <1>1, <1>2, <1>3, <1>4, <1>5 DEF ServedInv

\* start().
LEMMA StartSteps ==
  ASSUME ThreadInv, ServedInv, ServerStart \/ StartReturns
  PROVE  ServedInv'
<1>1. UNCHANGED <<conn, conns_, rmQ, nxt_, idleFd_, free, others, robbed>>
  BY DEF ServerStart, StartReturns, pool, fds
<1>2. Aside
  BY AsideSteps DEF ServerStart, StartReturns
<1>3. LinkInv' /\ Open' = Open
  BY <1>1, <1>2, LinkAside DEF ServedInv, Aside
<1>4. CountInv'
  BY <1>1, <1>3 DEF ServedInv, CountInv, SpareFds
<1>5. CASE ServerStart
  <2>1. spc = "new" /\ spc' = "starting" /\ loops_' = loops_ /\ opc' = "start"
    BY <1>5 DEF ServerStart, pool, StartLoop
  <2>2. StageInv'
    BY <1>1, <1>2, <2>1 DEF ServedInv, StageInv, Aside, SameQueue, Stopping
  <2>3. ServerState' /\ SpareInv'
    BY <1>1, <2>1 DEF ServedInv, ServerState, SpareInv, Emfile
  <2> QED BY <1>3, <1>4, <2>1, <2>2, <2>3 DEF ServedInv
<1>6. CASE StartReturns
  <2>1. spc = "starting" /\ spc' = "up" /\ loops_' = <<LoopThread>> /\ opc = "use"
        /\ opc' = opc
    BY <1>6 DEF StartReturns, PoolStarted, listen, ServedInv, ServerState, vars
  <2>2. StageInv'
    BY <1>1, <1>2, <2>1 DEF ServedInv, StageInv, Aside, SameQueue, Stopping
  <2>3. ServerState' /\ SpareInv'
    BY <1>1, <2>1 DEF ServedInv, ServerState, SpareInv, Emfile
  <2> QED BY <1>3, <1>4, <2>1, <2>2, <2>3 DEF ServedInv
<1> QED BY <1>5, <1>6

\* accept() and newConn().
LEMMA NewConnStep ==
  ASSUME ThreadInv, ServedInv, NEW c \in Conn, newConn(c)
  PROVE  ServedInv'
<1>1. /\ spc = "up" /\ conn[c] = "waiting" /\ free > 0 /\ free' = free - 1
      /\ Becomes(c, "made") /\ conns_' = conns_ \cup {c}
      /\ OwnerQueues(Est(c))
      /\ UNCHANGED <<spc, rmQ, loops_, idleFd_, others, robbed>>
  BY DEF newConn, Est
<1>2. LinkInv' /\ Open' = Open \cup {c} /\ c \notin Open
  BY <1>1, LinkNew, ConnFunctors DEF ServedInv, ServerState
<1>3. nxt_' = 0
  <2>1. nxt_ = 0 /\ loops_ \in {<<>>, <<LoopThread>>}
    BY DEF ServedInv, ServerState
  <2>2. Len(<<>>) = 0 /\ Len(<<LoopThread>>) = 1
    OBVIOUS
  <2>3. Len(loops_) \in {0, 1}
    BY <2>1, <2>2
  <2> QED BY <2>1, <2>3 DEF newConn, getNextLoop
<1>4. ServerState' /\ SpareInv'
  <2>1. conn' \in [Conn -> ConnStates]
    BY <1>1 DEF ServedInv, ServerState, Becomes, ConnStates
  <2>2. free' \in Nat
    BY <1>1 DEF ServedInv, ServerState
  <2> QED BY <1>1, <1>3, <2>1, <2>2 DEF ServedInv, ServerState, SpareInv, Emfile
<1>5. StageInv'
  BY <1>1, QueuesOne, ConnFunctors DEF ServedInv, StageInv
<1>6. CountInv'
  <2>1. IsFiniteSet(Open') /\ Cardinality(Open') = Cardinality(Open) + 1
    BY <1>2, FS_AddElement DEF ServedInv, CountInv, SpareFds
  <2>2. Cardinality(Open) \in Nat
    BY FS_CardinalityType DEF ServedInv, CountInv, SpareFds
  <2> QED BY <1>1, <2>1, <2>2 DEF ServedInv, CountInv, SpareFds, ServerState
<1> QED BY <1>1, <1>2, <1>4, <1>5, <1>6 DEF ServedInv

\* A step that leaves the loop and its thread alone.
LEMMA AloneStage ==
  ASSUME ServedInv, UNCHANGED vars, conns_' = conns_,
         spc \in {"pool", "gone"} => spc' \in {"pool", "gone"},
         spc' \in {"pool", "gone"} => spc \in {"pool", "gone"},
         spc' = "gone" => opc = "gone"
  PROVE  StageInv'
<1>1. UNCHANGED <<selfQuit, alive, opc, funcs, pendingCBs_>>
  BY DEF vars, loopVars
<1>2. Queue' = Queue
  BY <1>1 DEF Queue
<1> QED BY <1>1, <1>2 DEF ServedInv, StageInv

\* The rest of handleRead(), the rest of the program and the acceptor's end:
\* descriptors change hands, connections do not.
LEMMA DescriptorSteps ==
  ASSUME ThreadInv, ServedInv,
         NoDescriptor \/ CloseIdle \/ OpenIdle \/ OtherOpens \/ OtherCloses
         \/ ServerDtor \/ DtorAcceptor
  PROVE  ServedInv'
<1>1. UNCHANGED <<vars, conn, conns_, rmQ, loops_, nxt_>>
  BY DEF NoDescriptor, CloseIdle, OpenIdle, OtherOpens, OtherCloses, ServerDtor,
         DtorAcceptor, pool
<1>2. Aside
  BY <1>1, AsideSteps
<1>3. LinkInv' /\ Open' = Open
  BY <1>1, <1>2, LinkAside DEF ServedInv, Aside
<1>4. free \in Nat /\ others \in Nat /\ idleFd_ \in BOOLEAN /\ robbed \in BOOLEAN
  BY DEF ServedInv, ServerState
<1>5. /\ free' \in Nat /\ others' \in Nat
      /\ free' + others' + SpareFds' = free + others + SpareFds
  <2>1. CASE NoDescriptor \/ ServerDtor
    BY <1>4, <2>1 DEF NoDescriptor, ServerDtor, fds, SpareFds
  <2>2. CASE CloseIdle
    BY <1>4, <2>2 DEF CloseIdle, SpareFds
  <2>3. CASE OpenIdle
    <3>1. spc = "openIdle" /\ ~idleFd_
      BY <2>3 DEF OpenIdle, ServedInv, SpareInv
    <3>2. CASE free > 0
      <4>1. idleFd_' = TRUE /\ free' = free - 1 /\ others' = others
        BY <2>3, <3>2 DEF OpenIdle
      <4> QED BY <1>4, <3>1, <3>2, <4>1 DEF SpareFds
    <3>3. CASE ~(free > 0)
      <4>1. ~idleFd_' /\ free' = free /\ others' = others
        BY <2>3, <3>3 DEF OpenIdle
      <4> QED BY <1>4, <3>1, <4>1 DEF SpareFds
    <3> QED BY <3>2, <3>3
  <2>4. CASE OtherOpens
    BY <1>4, <2>4 DEF OtherOpens, SpareFds
  <2>5. CASE OtherCloses
    BY <1>4, <2>5 DEF OtherCloses, SpareFds
  <2>6. CASE DtorAcceptor
    BY <1>4, <2>6 DEF DtorAcceptor, SpareFds
  <2> QED BY <2>1, <2>2, <2>3, <2>4, <2>5, <2>6
<1>6. CountInv'
  BY <1>3, <1>4, <1>5, CountSame DEF ServedInv
<1>7. idleFd_' \in BOOLEAN /\ robbed' \in BOOLEAN
  <2>1. CASE NoDescriptor \/ ServerDtor \/ CloseIdle \/ OtherCloses \/ DtorAcceptor
    BY <1>4, <2>1 DEF NoDescriptor, CloseIdle, OtherCloses, ServerDtor, DtorAcceptor, fds
  <2>2. CASE OpenIdle
    BY <1>4, <2>2 DEF OpenIdle
  <2>3. CASE OtherOpens
    BY <1>4, <2>3 DEF OtherOpens, SpareFds
  <2> QED BY <2>1, <2>2, <2>3
<1>8. /\ spc' # "none"
      /\ spc' \in {"new", "starting", "up", "dtor", "pool", "gone"} \cup Emfile
      /\ spc' \in {"new", "starting"} => spc \in {"new", "starting"}
      /\ spc \in {"pool", "gone"} <=> spc' \in {"pool", "gone"}
      /\ spc' = "gone" => opc = "gone"
  BY DEF NoDescriptor, CloseIdle, OpenIdle, OtherOpens, OtherCloses, ServerDtor,
         DtorAcceptor, ServedInv, ServerState, StageInv, Emfile
<1>9. StageInv'
  BY <1>1, <1>8, AloneStage
<1>10. ServerState'
  BY <1>1, <1>5, <1>7, <1>8 DEF ServedInv, ServerState
<1>11. SpareInv'
  <2>s. SpareInv
    BY DEF ServedInv
  <2>1. CASE NoDescriptor \/ ServerDtor
    BY <2>1, <2>s DEF NoDescriptor, ServerDtor, fds, SpareInv
  <2>2. CASE CloseIdle
    BY <1>4, <2>2, <2>s DEF CloseIdle, SpareInv
  <2>3. CASE OpenIdle
    BY <1>4, <2>3, <2>s DEF OpenIdle, SpareInv
  <2>4. CASE OtherOpens
    BY <1>4, <2>4, <2>s DEF OtherOpens, SpareInv
  <2>5. CASE OtherCloses
    BY <1>4, <2>5, <2>s DEF OtherCloses, SpareInv
  <2>6. CASE DtorAcceptor
    BY <2>6 DEF DtorAcceptor, SpareInv
  <2> QED BY <2>1, <2>2, <2>3, <2>4, <2>5, <2>6
<1> QED BY <1>3, <1>6, <1>8, <1>9, <1>10, <1>11 DEF ServedInv

\* A connection arrives, or is accepted with the spare descriptor and closed.
LEMMA BacklogSteps ==
  ASSUME ThreadInv, ServedInv, AcceptIdle \/ \E c \in Conn : Arrives(c)
  PROVE  ServedInv'
<1>1. UNCHANGED <<vars, conns_, rmQ, loops_, nxt_, idleFd_, free, others, robbed>>
  BY DEF Arrives, AcceptIdle, pool, fds
<1>2. /\ spc' # "none"
      /\ spc' \in {"up", "openIdle"} /\ spc \in {"up", "acceptIdle"}
      /\ spc' = "openIdle" <=> spc = "acceptIdle"
  BY DEF Arrives, AcceptIdle
<1>3. \/ conn' = conn
      \/ \E d \in Conn : \E t \in {"waiting", "refused"} :
           conn[d] \in {"away", "waiting"} /\ Becomes(d, t)
  BY DEF Arrives, AcceptIdle
<1>4. conn \in [Conn -> ConnStates]
  BY DEF ServedInv, ServerState
<1>5. LinkInv' /\ Open' = Open /\ conn' \in [Conn -> ConnStates]
  <2>1. CASE conn' = conn
    <3>1. Aside
      BY <1>1, AsideSteps
    <3> QED BY <1>1, <1>4, <2>1, <3>1, LinkAside DEF ServedInv, Aside
  <2>2. ASSUME NEW d \in Conn, NEW t \in {"waiting", "refused"},
               conn[d] \in {"away", "waiting"}, Becomes(d, t)
        PROVE  LinkInv' /\ Open' = Open /\ conn' \in [Conn -> ConnStates]
    <3>1. conn' \in [Conn -> ConnStates]
      BY <1>4, <2>2 DEF Becomes, ConnStates
    <3> QED BY <1>1, <1>4, <2>2, <3>1, LinkBacklog DEF ServedInv
  <2> QED BY <1>3, <2>1, <2>2
<1>6. StageInv'
  BY <1>1, <1>2, AloneStage
<1>7. ServerState' /\ SpareInv'
  BY <1>1, <1>2, <1>5 DEF ServedInv, ServerState, SpareInv, Emfile
<1>8. CountInv'
  BY <1>1, <1>5 DEF ServedInv, CountInv, SpareFds
<1> QED BY <1>2, <1>5, <1>6, <1>7, <1>8 DEF ServedInv

\* A peer closes.
LEMMA PeerStep ==
  ASSUME ThreadInv, ServedInv, NEW c \in Conn, PeerCloses(c)
  PROVE  ServedInv'
<1>1. /\ UNCHANGED <<vars, spc, conns_, loops_, nxt_, idleFd_, free, others, robbed>>
      /\ conn[c] = "up" /\ Becomes(c, "down") /\ rmQ' = Append(rmQ, c)
  BY DEF PeerCloses, pool, fds
<1>2. conn \in [Conn -> ConnStates] /\ rmQ \in Seq(Conn)
  BY DEF ServedInv, ServerState
<1>3. LinkInv' /\ Open' = Open
  BY <1>1, <1>2, LinkPeer DEF ServedInv
<1>4. conn' \in [Conn -> ConnStates] /\ rmQ' \in Seq(Conn)
  BY <1>1, <1>2, AppendProperties DEF Becomes, ConnStates
<1>5. StageInv'
  BY <1>1, AloneStage DEF ServedInv, StageInv
<1>6. ServerState' /\ SpareInv'
  BY <1>1, <1>4 DEF ServedInv, ServerState, SpareInv
<1>7. CountInv'
  BY <1>1, <1>3 DEF ServedInv, CountInv, SpareFds
<1> QED BY <1>1, <1>3, <1>5, <1>6, <1>7 DEF ServedInv

\* A connection is taken out of the map and handed to its loop.
LEMMA RemoveSteps ==
  ASSUME ThreadInv, ServedInv, rmConnInLoop \/ \E c \in Conn : DtorConn(c)
  PROVE  ServedInv'
<1>0. conn \in [Conn -> ConnStates] /\ rmQ \in Seq(Conn) /\ conns_ \subseteq Conn
  BY DEF ServedInv, ServerState
<1>1. PICK c \in Conn :
        /\ OwnerQueues(Des(c)) /\ conns_' = conns_ \ {c} /\ conn[c] \notin Outside
        /\ \A d : In(d, rmQ') => In(d, rmQ)
        /\ rmQ' \in Seq(Conn)
        /\ UNCHANGED <<spc, conn, loops_, nxt_, idleFd_, free, others, robbed>>
  <2>1. CASE rmConnInLoop
    <3>1. /\ rmQ # <<>> /\ rmQ' = Tail(rmQ) /\ conns_' = conns_ \ {Head(rmQ)}
          /\ OwnerQueues(Des(Head(rmQ)))
          /\ UNCHANGED <<spc, conn, loops_, nxt_, idleFd_, free, others, robbed>>
      BY <2>1 DEF rmConnInLoop, pool, fds, Des
    <3>2. Head(rmQ) \in Conn /\ Tail(rmQ) \in Seq(Conn)
      BY <1>0, <3>1, TailIndex
    <3>3. \A d : In(d, rmQ) <=> d = Head(rmQ) \/ In(d, Tail(rmQ))
      BY <1>0, <3>1, InTail
    <3>4. conn[Head(rmQ)] \notin Outside
      BY <3>2, <3>3 DEF ServedInv, LinkInv, ConnInv
    <3> QED BY <3>1, <3>2, <3>3, <3>4
  <2>2. ASSUME NEW c \in Conn, DtorConn(c)
        PROVE  /\ OwnerQueues(Des(c)) /\ conns_' = conns_ \ {c} /\ conn[c] \notin Outside
               /\ rmQ' = rmQ
               /\ UNCHANGED <<spc, conn, loops_, nxt_, idleFd_, free, others, robbed>>
    BY <2>2 DEF DtorConn, pool, fds, Des, ServedInv, LinkInv, ConnInv
  <2> QED BY <1>0, <2>1, <2>2
<1>2. LinkInv' /\ Open' = Open
  BY <1>0, <1>1, LinkDes, ConnFunctors DEF ServedInv
<1>3. alive' = "live" /\ UNCHANGED <<opc, selfQuit>>
  BY <1>1, QueuesOne, ConnFunctors
<1>4. StageInv'
  BY <1>1, <1>3 DEF ServedInv, StageInv
<1>5. ServerState' /\ SpareInv'
  BY <1>1 DEF ServedInv, ServerState, SpareInv
<1>6. CountInv'
  BY <1>1, <1>2 DEF ServedInv, CountInv, SpareFds
<1> QED BY <1>1, <1>2, <1>4, <1>5, <1>6 DEF ServedInv

\* ~TcpServer() reaches the pool: its map is empty.
LEMMA DtorPoolStep ==
  ASSUME ThreadInv, ServedInv, DtorPool
  PROVE  ServedInv'
<1>1. /\ UNCHANGED <<conn, conns_, rmQ, loops_, nxt_, idleFd_, free, others, robbed>>
      /\ spc = "dtor" /\ conns_ = {} /\ spc' = "pool"
      /\ UNCHANGED <<loopVars, alive, selfQuit>>
  BY DEF DtorPool, Dtor, pool, fds
<1>2. UNCHANGED <<funcs, pendingCBs_, ran>> /\ Queue' = Queue
  BY <1>1 DEF loopVars, Queue
<1>3. LinkInv' /\ Open' = Open
  BY <1>1, <1>2, LinkAside DEF ServedInv, SameQueue
<1>4. StageInv'
  BY <1>1, <1>2 DEF ServedInv, StageInv
<1>5. ServerState' /\ SpareInv'
  BY <1>1 DEF ServedInv, ServerState, SpareInv, Emfile
<1>6. CountInv'
  BY <1>1, <1>3 DEF ServedInv, CountInv, SpareFds
<1> QED BY <1>1, <1>3, <1>4, <1>5, <1>6 DEF ServedInv

\* The pool's loop runs.
LEMMA RunStep ==
  ASSUME ThreadInv, ServedInv, ServerInLoop
  PROVE  ServedInv'
<1>1. /\ InLoop /\ selfQuit' = selfQuit
      /\ UNCHANGED <<spc, conns_, rmQ, loops_, nxt_, idleFd_, others, robbed>>
      /\ alive = "live" /\ alive' = alive /\ opc' = opc
  BY LoopRuns DEF ServerInLoop, pool
<1>2. conn \in [Conn -> ConnStates] /\ free \in Nat /\ others \in Nat
  BY DEF ServedInv, ServerState
<1>3. StageInv'
  BY <1>1 DEF ServedInv, StageInv
<1>4. Queue \in Seq(Func) /\ ran \in Seq(Func)
  BY QueueType
<1>5. CASE SameQueue
  <2>1. conn' = conn /\ free' = free
    BY <1>5 DEF ServerInLoop, SameQueue
  <2>2. LinkInv' /\ Open' = Open
    <3>1. Once(Queue, ran)' /\ Ordered(Queue)'
      BY <1>5 DEF ServedInv, LinkInv, SameQueue, Once, Ordered, Est, Des
    <3>2. ConnInv'
      BY <1>1, <1>5, <2>1 DEF ServedInv, LinkInv, SameQueue, ConnInv, In, Est, Des, HasFd
    <3> QED BY <2>1, <3>1, <3>2 DEF LinkInv, Open, HasFd
  <2>3. ServerState' /\ SpareInv'
    BY <1>1, <2>1 DEF ServedInv, ServerState, SpareInv
  <2>4. CountInv'
    BY <1>1, <2>1, <2>2 DEF ServedInv, CountInv, SpareFds
  <2> QED BY <1>1, <1>3, <2>2, <2>3, <2>4 DEF ServedInv
<1>6. CASE Queue # <<>> /\ Queue' = Tail(Queue) /\ ran' = Append(ran, Head(Queue))
  <2>1. Head(Queue) \in Func
    BY <1>4, <1>6, TailIndex
  <2>2. /\ Len(ran') = Len(ran) + 1 /\ Len(ran) \in Nat
        /\ ran'[Len(ran')] = Head(Queue) /\ ran' # ran
    BY <1>4, <1>6, <2>1, AppendProperties, LenProperties
  <2>3. RunsFunc(Head(Queue))
    BY <2>2 DEF ServerInLoop
  <2>4. PICK c \in Conn, up \in BOOLEAN :
          /\ Head(Queue) = IF up THEN Est(c) ELSE Des(c)
          /\ Becomes(c, IF up THEN "up" ELSE "dead")
          /\ free' = IF up THEN free ELSE free + 1
    <3>1. PICK k \in {"est", "des"}, c \in Conn : Head(Queue) = <<k, c>>
      BY <2>1, ServerAssumption
    <3>2. CASE k = "est"
      <4>1. Head(Queue) = Est(c) /\ Becomes(c, "up") /\ free' = free
        BY <2>3, <3>1, <3>2 DEF RunsFunc, Est
      <4> WITNESS c \in Conn, TRUE \in BOOLEAN
      <4> QED BY <4>1
    <3>3. CASE k = "des"
      <4>1. Head(Queue) = Des(c) /\ Becomes(c, "dead") /\ free' = free + 1
        BY <2>3, <3>1, <3>3 DEF RunsFunc, Des
      <4> WITNESS c \in Conn, FALSE \in BOOLEAN
      <4> QED BY <4>1
    <3> QED BY <3>2, <3>3
  <2>5. LinkInv' /\ c \in Open /\ Open' = IF up THEN Open ELSE Open \ {c}
    BY <1>1, <1>2, <1>6, <2>4, LinkRun DEF ServedInv
  <2>6. conn' \in [Conn -> ConnStates] /\ free' \in Nat /\ free' >= free
    BY <1>2, <2>4 DEF Becomes, ConnStates
  <2>7. ServerState' /\ SpareInv'
    BY <1>1, <1>2, <2>6 DEF ServedInv, ServerState, SpareInv
  <2>8. CountInv'
    <3>1. CASE up
      BY <1>1, <2>4, <2>5, <3>1 DEF ServedInv, CountInv, SpareFds
    <3>2. CASE ~up
      <4>1. IsFiniteSet(Open') /\ Cardinality(Open') = Cardinality(Open) - 1
        BY <2>5, <3>2, FS_RemoveElement DEF ServedInv, CountInv, SpareFds
      <4>2. Cardinality(Open) \in Nat
        BY FS_CardinalityType DEF ServedInv, CountInv, SpareFds
      <4> QED BY <1>1, <1>2, <2>4, <3>2, <4>1, <4>2 DEF ServedInv, CountInv, SpareFds
    <3> QED BY <3>1, <3>2
  <2> QED BY <1>1, <1>3, <2>5, <2>7, <2>8 DEF ServedInv
<1> QED BY <1>1, <1>5, <1>6, LoopRuns

\* The pool's loop is destroyed, with the functors it did not run.
LEMMA LostStep ==
  ASSUME ThreadInv, ServedInv, ServerDestroyLoop
  PROVE  ServedInv'
<1> DEFINE lost == {c \in Conn : <<"est", c>> \in Pending \/ <<"des", c>> \in Pending}
<1>1. /\ DestroyLoop
      /\ conn' = [c \in Conn |-> IF c \in lost THEN "lost" ELSE conn[c]]
      /\ free' = free + Cardinality(lost)
      /\ UNCHANGED <<spc, conns_, rmQ, loops_, nxt_, idleFd_, others, robbed>>
  BY DEF ServerDestroyLoop, pool
<1>2. conn \in [Conn -> ConnStates] /\ free \in Nat /\ others \in Nat
  BY DEF ServedInv, ServerState
<1>3. /\ fpc = "dtor" /\ alive' = "dead"
      /\ UNCHANGED <<opc, selfQuit>>
  BY <1>1 DEF DestroyLoop, Func_
<1>4. conns_ = {}
  <2>1. opc \in {"join", "members", "gone"}
    BY <1>3 DEF ThreadInv, QuitInv, ServedInv, StageInv
  <2> QED BY <2>1 DEF ServedInv, StageInv, Stopping
<1>5. LinkInv' /\ lost = Open /\ Open' = {}
  <2>1. lost = {c \in Conn : Est(c) \in Pending \/ Des(c) \in Pending}
    BY DEF Est, Des
  <2> HIDE DEF lost
  <2> QED BY <1>1, <1>2, <1>4, <2>1, LinkLost DEF ServedInv
<1> HIDE DEF lost
<1>6. StageInv'
  BY <1>1, <1>3, <1>4 DEF ServedInv, StageInv
<1>7. Cardinality(Open) \in Nat
  BY FS_CardinalityType DEF ServedInv, CountInv, SpareFds
<1>8. ServerState' /\ SpareInv'
  <2>1. conn' \in [Conn -> ConnStates]
    BY <1>1, <1>2 DEF ConnStates
  <2>2. free' \in Nat /\ free' >= free
    BY <1>1, <1>2, <1>5, <1>7
  <2> QED BY <1>1, <1>2, <2>1, <2>2 DEF ServedInv, ServerState, SpareInv
<1>9. CountInv'
  <2>1. Cardinality({}) = 0 /\ IsFiniteSet({})
    BY FS_EmptySet
  <2> QED BY <1>1, <1>2, <1>5, <1>7, <2>1 DEF ServedInv, CountInv, SpareFds
<1> QED BY <1>1, <1>5, <1>6, <1>8, <1>9 DEF ServedInv

\* A step of the server is a step of its EventLoopThread, or leaves it alone.
LEMMA ServerUsesThread ==
  ASSUME ServerState, [ServerNext]_allVars
  PROVE  [Next]_vars
<1>1. CASE rmConnInLoop
  <2>1. Head(rmQ) \in Conn
    BY <1>1, TailIndex DEF rmConnInLoop, ServerState
  <2> QED BY <1>1, <2>1, ConnFunctors DEF rmConnInLoop, Des, Next
<1>2. ASSUME NEW c \in Conn, newConn(c) \/ DtorConn(c) PROVE [Next]_vars
  BY <1>2, ConnFunctors DEF newConn, DtorConn, Est, Des, Next
<1>3. ASSUME NEW c \in Conn, Arrives(c) \/ PeerCloses(c) PROVE [Next]_vars
  BY <1>3 DEF Arrives, PeerCloses
<1>4. CASE ServerStart \/ StartReturns \/ DtorPool \/ ServerInLoop \/ ServerDestroyLoop
  BY <1>4 DEF ServerStart, StartReturns, DtorPool, ServerInLoop, ServerDestroyLoop, Next,
              FuncStep
<1>5. CASE NoDescriptor \/ CloseIdle \/ AcceptIdle \/ OpenIdle \/ OtherOpens
           \/ OtherCloses \/ ServerDtor \/ DtorAcceptor
  BY <1>5 DEF NoDescriptor, CloseIdle, AcceptIdle, OpenIdle, OtherOpens, OtherCloses,
              ServerDtor, DtorAcceptor
<1> QED BY <1>1, <1>2, <1>3, <1>4, <1>5
        DEF ServerNext, HandleRead, DtorStep, ServerOwnerStep, ServerFuncStep, allVars,
            Next, FuncStep

\* Every step of the server preserves its invariant.
LEMMA ServerStep == ServerInv /\ [ServerNext]_allVars => ServerInv'
<1> SUFFICES ASSUME ServerInv, [ServerNext]_allVars PROVE ServerInv'
  OBVIOUS
<1>1. ThreadInv /\ ServerState /\ ThreadInv'
  BY ServerUsesThread, ThreadStep DEF ServerInv
<1>2. CASE spc = "none" /\ UNCHANGED server
  <2>1. UNCHANGED <<spc, conn, conns_, rmQ, loops_, nxt_, idleFd_, free, others, robbed>>
    BY <1>2 DEF server, pool, fds
  <2>2. Open' = Open
    BY <2>1 DEF Open, HasFd
  <2>3. ServerState' /\ SpareInv' /\ CountInv'
    BY <2>1, <2>2 DEF ServerInv, ServerState, SpareInv, CountInv, SpareFds
  <2> QED BY <1>1, <1>2, <2>1, <2>3 DEF ServerInv
<1>3. CASE spc # "none"
  <2>1. ServedInv
    BY <1>3 DEF ServerInv, ServedInv
  <2>2. ServedInv'
    <3>1. CASE UNCHANGED allVars
      BY <1>1, <2>1, <3>1, AsideSteps, ServedAside DEF allVars
    <3>2. CASE HandleRead
      BY <1>1, <2>1, <3>2, NewConnStep, DescriptorSteps, BacklogSteps DEF HandleRead
    <3>3. CASE DtorStep
      BY <1>1, <2>1, <3>3, RemoveSteps, DescriptorSteps, DtorPoolStep DEF DtorStep
    <3>4. CASE ServerOwnerStep
      BY <1>1, <2>1, <3>4, AsideSteps, ServedAside DEF ServerOwnerStep
    <3>5. CASE ServerFuncStep
      BY <1>1, <2>1, <3>5, RunStep, LostStep, AsideSteps, ServedAside DEF ServerFuncStep
    <3>6. CASE (SpuriousWakeup \/ InLoopTimeout \/ Terminated) /\ UNCHANGED server
      BY <1>1, <2>1, <3>6, AsideSteps, ServedAside DEF Terminated
    <3>7. ASSUME NEW c \in Conn, Arrives(c) \/ PeerCloses(c) PROVE ServedInv'
      BY <1>1, <2>1, <3>7, BacklogSteps, PeerStep
    <3>8. CASE ServerStart \/ StartReturns \/ rmConnInLoop \/ ServerDtor \/ OtherOpens
               \/ OtherCloses
      BY <1>1, <2>1, <3>8, StartSteps, RemoveSteps, DescriptorSteps
    <3> QED BY <1>3, <3>1, <3>2, <3>3, <3>4, <3>5, <3>6, <3>7, <3>8 DEF ServerNext
  <2> QED BY <1>1, <2>2 DEF ServedInv, ServerInv
<1> QED BY <1>2, <1>3 DEF ServerNext, allVars

\* It holds before the server is started.
LEMMA ServerStarts == ServerInit => ServerInv
<1> SUFFICES ASSUME ServerInit PROVE ServerInv
  OBVIOUS
<1>1. ThreadInv
  BY ThreadStart DEF ServerInit
<1>2. ServerState /\ SpareInv
  <2>1. free \in Nat /\ others \in Nat
    BY ServerAssumption DEF ServerInit
  <2>2. conn \in [Conn -> ConnStates] /\ rmQ \in Seq(Conn)
    BY EmptySeq DEF ServerInit, ConnStates
  <2> QED BY <2>1, <2>2 DEF ServerInit, ServerState, SpareInv, Emfile
<1>3. Open = {}
  BY DEF ServerInit, Open, HasFd
<1>4. CountInv
  BY <1>3, FS_EmptySet, ServerAssumption DEF ServerInit, CountInv, SpareFds
<1>5. Queue = <<>> /\ ran = <<>>
  BY ConcatEmptySeq, EmptySeq DEF ServerInit, Init, EL!Init, Queue
<1>6. StageInv
  BY <1>5 DEF ServerInit, Init, StageInv, Stopping
<1>7. LinkInv
  <2>1. \A f : ~In(f, <<>>)
    BY EmptySeq DEF In
  <2>2. Once(Queue, ran) /\ Ordered(Queue)
    BY <1>5 DEF Once, Ordered
  <2>3. ConnInv
    BY <1>5, <2>1 DEF ConnInv, ServerInit, HasFd
  <2> QED BY <2>2, <2>3 DEF LinkInv
<1> QED BY <1>1, <1>2, <1>4, <1>6, <1>7 DEF ServerInv

LEMMA ServerInvariant == ServerSpec => []ServerInv
BY ServerStarts, ServerStep, PTL DEF ServerSpec

\* No descriptor leaks in accepting, refusing, removing or losing connections,
\* and handleRead() gets its spare descriptor back unless it is robbed of it.
THEOREM TcpServerDescriptorsKept == ServerSpec => []DescriptorsKept
<1>1. ServerInv => DescriptorsKept
  <2> SUFFICES ASSUME ServerInv PROVE DescriptorsKept
    OBVIOUS
  <2>1. NoFdLeak /\ SpareKept
    BY DEF ServerInv, CountInv, SpareFds, NoFdLeak, Open, SpareInv, SpareKept
  <2>2. free \in 0 .. MaxFds /\ others \in 0 .. MaxFds
    <3>1. Cardinality(Open) \in Nat
      BY FS_CardinalityType DEF ServerInv, CountInv, SpareFds
    <3> QED BY <3>1, ServerAssumption DEF ServerInv, CountInv, SpareFds, ServerState
  <2>3. ServerTypeOK
    BY <2>2 DEF ServerInv, ServerState, ServerTypeOK, ConnStates
  <2> QED BY <2>1, <2>3 DEF DescriptorsKept
<1> QED BY <1>1, ServerInvariant, PTL

\* Once the server is gone every connection has been destroyed by its loop, or
\* was deleted with the queue that held its connDestroyed().
THEOREM TcpServerConnsDestroyed == ServerSpec => []ConnsDestroyed
<1>1. ServerInv => ConnsDestroyed
  <2> SUFFICES ASSUME ServerInv, spc = "gone", NEW c \in Conn
               PROVE  ~HasFd(c) /\ (conn[c] = "lost" => <<"des", c>> \in Pending)
    BY DEF ConnsDestroyed
  <2>1. ThreadInv /\ StageInv /\ LinkInv
    BY DEF ServerInv
  <2>2. conns_ = {} /\ opc = "gone" /\ ~selfQuit
    BY <2>1 DEF StageInv
  <2>3. cpc \in {"none", "done"}
    BY <2>1, <2>2 DEF ThreadInv, QuitInv
  <2>4. alive = "dead" \/ Queue = <<>>
    BY <2>1, <2>3 DEF ThreadInv, LifeInv, StageInv
  <2>5. ~HasFd(c)
    BY <2>1, <2>2, <2>4, EmptySeq DEF LinkInv, ConnInv, In
  <2>6. conn[c] = "lost" => Des(c) \in Pending
    BY <2>1, QueueType DEF LinkInv, ConnInv, In, Pending
  <2> QED BY <2>5, <2>6 DEF Des
<1> QED BY <1>1, ServerInvariant, PTL

\* The EventLoopThread of a server's pool is as safe as one used alone.
THEOREM TcpServerThreadSafe == ServerSpec => [](MembersSafe /\ LoopValidUntilQuit)
<1>1. ServerInv => MembersSafe /\ LoopValidUntilQuit
  BY ThreadInvSafe DEF ServerInv
<1> QED BY <1>1, ServerInvariant, PTL

=============================================================================
