--------------------------- MODULE EventLoopThread ---------------------------
(***************************************************************************)
(* net/EventLoopThread: an owner thread that starts a loop thread, uses    *)
(* its EventLoop and destroys the wrapper, composed with the EventLoop the *)
(* thread function keeps on its stack.  The owner is the loop's client.    *)
(*                                                                         *)
(* The owner: "new" -startLoop-> "start" -> "lock" -> "use" -dtor->        *)
(* "quit" -> "join" -> "members" -> "gone".  The thread function: "ctor",  *)
(* "publish", "enter", "loop", "clear", "unlock", "dtor", "done".          *)
(***************************************************************************)
EXTENDS Sequences

CONSTANTS Owner, LoopThread, None, Func, IoChannels, WakeupChannel

ASSUME OwnerAssumption ==
  /\ Owner # LoopThread /\ None \notin {Owner, LoopThread}
  /\ WakeupChannel \notin IoChannels

VARIABLES
  lpc, quit_, callingPendingCBs_, pendingCBs_, funcs, wakeupFd_, ready,
  activeChannels_, tpc, ran, early,   \* the EventLoop, see there
  started_, joined_, tid_, count_, ppc, cpc,
  lowner, lholder_, lat,              \* thread_, see Thread
  mowner, mholder_, mat,              \* mutex_ and cond_, see Monitor
  opc,        \* where the owner is
  fpc,        \* where EventLoopThread::func() is
  loop_,      \* the member loop_ is not null
  alive,      \* the stack EventLoop: "none" before, "live", "dead" after
  selfQuit    \* history: a functor quit the loop

loopVars == <<lpc, quit_, callingPendingCBs_, pendingCBs_, funcs, wakeupFd_,
              ready, activeChannels_, tpc, ran, early>>
thread_ == <<started_, joined_, tid_, count_, ppc, cpc, lowner, lholder_, lat>>
mutex_ == <<mowner, mholder_, mat>>
vars == <<loopVars, thread_, mutex_, opc, fpc, loop_, alive, selfQuit>>

EL == INSTANCE EventLoop WITH Clients <- {Owner}
T == INSTANCE Thread WITH Parent <- Owner, Child <- LoopThread
M == INSTANCE Monitor WITH Threads <- {Owner, LoopThread}, owner <- mowner,
                           holder_ <- mholder_, at <- mat

TypeOK ==
  /\ EL!TypeOK /\ T!ThreadTypeOK /\ M!MonitorTypeOK
  /\ opc \in {"new", "start", "lock", "use", "quit", "join", "members", "gone"}
  /\ fpc \in {"ctor", "publish", "enter", "loop", "clear", "unlock", "dtor", "done"}
  /\ {loop_, selfQuit} \subseteq BOOLEAN
  /\ alive \in {"none", "live", "dead"}

Init ==
  /\ EL!Init /\ T!ThreadInit /\ M!MonitorInit
  /\ opc = "new" /\ fpc = "ctor"
  /\ loop_ = FALSE /\ alive = "none"
  /\ selfQuit = FALSE

-----------------------------------------------------------------------------
(* The owner.                                                              *)

\* startLoop(): thread_.start(), then wait on cond_ until loop_ is set.
StartLoop ==
  /\ opc = "new" /\ ~started_
  /\ opc' = "start"
  /\ T!start
  /\ UNCHANGED <<loopVars, mutex_, fpc, loop_, alive, selfQuit>>

StartLoopLock ==
  /\ opc = "start" /\ T!Ready
  /\ M!Lock(Owner)
  /\ opc' = "lock"
  /\ UNCHANGED <<loopVars, thread_, fpc, loop_, alive, selfQuit>>

\* Mutant: startLoop() does not wait for loop_.
StartLoopCheck_NoWait ==
  /\ opc = "lock"
  /\ M!Unlock(Owner, FALSE)
  /\ opc' = "use"
  /\ UNCHANGED <<loopVars, thread_, fpc, loop_, alive, selfQuit>>

StartLoopCheck ==
  /\ opc = "lock"
  /\ \/ loop_ /\ M!Unlock(Owner, FALSE) /\ opc' = "use"
     \/ ~loop_ /\ M!Wait(Owner) /\ opc' = opc
  /\ UNCHANGED <<loopVars, thread_, fpc, loop_, alive, selfQuit>>

\* Steps inside thread_.start(), lock(), unlock() and cond_.wait().
OwnerSync ==
  /\ \/ T!ParentStep /\ UNCHANGED mutex_
     \/ M!Step(Owner) /\ UNCHANGED thread_
  /\ UNCHANGED <<loopVars, opc, fpc, loop_, alive, selfQuit>>

SpuriousWakeup ==
  /\ \/ T!ThreadSpurious /\ UNCHANGED mutex_
     \/ M!SpuriousWakeup(Owner) /\ UNCHANGED thread_
  /\ UNCHANGED <<loopVars, opc, fpc, loop_, alive, selfQuit>>

\* The owner uses the pointer startLoop() returned while the loop is alive.
OwnerQueues(f) ==
  /\ opc = "use" /\ mat[Owner] = "out"
  /\ alive = "live"
  /\ EL!QueueInLoop(Owner, f)
  /\ UNCHANGED <<thread_, mutex_, opc, fpc, loop_, alive, selfQuit>>

OwnerWakeup ==
  /\ alive = "live"
  /\ EL!Wakeup(Owner)
  /\ UNCHANGED <<thread_, mutex_, opc, fpc, loop_, alive, selfQuit>>

\* quit()'s or queueInLoop()'s write after the loop is destroyed: undefined,
\* modelled as having no effect.
LateWakeup ==
  /\ alive = "dead"
  /\ tpc[Owner] = "wake"
  /\ tpc' = [tpc EXCEPT ![Owner] = "idle"]
  /\ UNCHANGED <<lpc, quit_, callingPendingCBs_, pendingCBs_, funcs, wakeupFd_,
                 ready, activeChannels_, ran, early, thread_, mutex_, opc, fpc,
                 loop_, alive, selfQuit>>

\* ~EventLoopThread reads loop_ without mutex_; a thread that never started
\* or has cleared loop_ is not joined.
Dtor ==
  /\ \/ opc = "new"
     \/ opc = "use" /\ mat[Owner] = "out"
  /\ tpc[Owner] = "idle"
  /\ opc' = IF loop_ THEN "quit" ELSE "members"
  /\ UNCHANGED <<loopVars, thread_, mutex_, fpc, loop_, alive, selfQuit>>

\* Mutant: the destructor sets the flag and does not wake the loop up.
DtorQuit_NoWakeup ==
  /\ opc = "quit"
  /\ opc' = "join"
  /\ quit_' = TRUE
  /\ T!join
  /\ UNCHANGED <<lpc, callingPendingCBs_, pendingCBs_, funcs, wakeupFd_, ready,
                 activeChannels_, tpc, ran, early, mutex_, fpc, loop_, alive, selfQuit>>

DtorQuit ==
  /\ opc = "quit"
  /\ opc' = "join"
  /\ IF alive = "live" THEN EL!Quit(Owner) ELSE UNCHANGED loopVars
  /\ T!join
  /\ UNCHANGED <<mutex_, fpc, loop_, alive, selfQuit>>

\* Mutant: the destructor goes on when loop_ is cleared.
DtorJoin_LoopCleared ==
  /\ opc = "join" /\ tpc[Owner] = "idle"
  /\ ~loop_
  /\ opc' = "members"
  /\ UNCHANGED <<loopVars, thread_, mutex_, fpc, loop_, alive, selfQuit>>

DtorJoin ==
  /\ opc = "join" /\ tpc[Owner] = "idle"
  /\ cpc = "done"
  /\ opc' = "members"
  /\ UNCHANGED <<loopVars, thread_, mutex_, fpc, loop_, alive, selfQuit>>

\* cond_, mutex_ and thread_ are destroyed; ~Thread detaches a thread that was
\* not joined.  What such a thread still does is undefined: it goes on here.
DtorMembers ==
  /\ opc = "members"
  /\ opc' = "gone"
  /\ UNCHANGED <<loopVars, thread_, mutex_, fpc, loop_, alive, selfQuit>>

-----------------------------------------------------------------------------
(* EventLoopThread::func() on the loop thread.                             *)

Func_(from, to) == fpc = from /\ fpc' = to /\ mat[LoopThread] = "out"
FuncIn(from, to) == fpc = from /\ fpc' = to

\* EventLoop loop; and the initialisation callback cb_.
Construct ==
  /\ Func_("ctor", "publish") /\ T!InFunc
  /\ alive' = "live"
  /\ UNCHANGED <<loopVars, thread_, mutex_, opc, loop_, selfQuit>>

\* The guards of func().
FuncLock ==
  /\ fpc \in {"publish", "clear"} /\ mat[LoopThread] = "out"
  /\ M!Lock(LoopThread)
  /\ UNCHANGED <<loopVars, thread_, opc, fpc, loop_, alive, selfQuit>>

FuncSync ==
  /\ \/ T!ChildStep /\ UNCHANGED mutex_
     \/ M!Step(LoopThread) /\ UNCHANGED thread_
  /\ UNCHANGED <<loopVars, opc, fpc, loop_, alive, selfQuit>>

\* Mutant: loop_ is set without a notification.
Publish_NoNotify ==
  /\ FuncIn("publish", "enter")
  /\ loop_' = TRUE
  /\ M!Unlock(LoopThread, FALSE)
  /\ UNCHANGED <<loopVars, thread_, opc, alive, selfQuit>>

Publish ==
  /\ FuncIn("publish", "enter")
  /\ loop_' = TRUE
  /\ M!Unlock(LoopThread, TRUE)
  /\ UNCHANGED <<loopVars, thread_, opc, alive, selfQuit>>

EnterLoop ==
  /\ Func_("enter", "loop")
  /\ EL!LoopEnter
  /\ UNCHANGED <<thread_, mutex_, opc, loop_, alive, selfQuit>>

\* loop() and the callbacks it runs, until it returns.
InLoop ==
  /\ fpc = "loop"
  /\ \/ EL!LoopStep /\ selfQuit' = selfQuit
     \/ lpc = "func" /\ EL!Quit(LoopThread) /\ selfQuit' = TRUE
  /\ fpc' = IF lpc' = "out" THEN "clear" ELSE "loop"
  /\ UNCHANGED <<thread_, mutex_, opc, loop_, alive>>

InLoopTimeout ==
  /\ fpc = "loop"
  /\ EL!PollTimeout
  /\ UNCHANGED <<thread_, mutex_, opc, fpc, loop_, alive, selfQuit>>

Clear ==
  /\ FuncIn("clear", "unlock") /\ mat[LoopThread] = "in"
  /\ loop_' = FALSE
  /\ UNCHANGED <<loopVars, thread_, mutex_, opc, alive, selfQuit>>

\* The guard is declared after the loop, so it is released first.
Unlock ==
  /\ FuncIn("unlock", "dtor")
  /\ M!Unlock(LoopThread, FALSE)
  /\ UNCHANGED <<loopVars, thread_, opc, loop_, alive, selfQuit>>

DestroyLoop ==
  /\ Func_("dtor", "done")
  /\ alive' = "dead"
  /\ T!FuncReturns
  /\ UNCHANGED <<loopVars, mutex_, opc, loop_, selfQuit>>

-----------------------------------------------------------------------------
OwnerStep == StartLoopLock \/ StartLoopCheck \/ OwnerSync \/ OwnerWakeup
             \/ LateWakeup \/ DtorQuit \/ DtorJoin \/ DtorMembers

FuncStep == FuncSync \/ Construct \/ FuncLock \/ Publish \/ EnterLoop \/ InLoop
            \/ Clear \/ Unlock \/ DestroyLoop

\* The owner may stop calling, and the whole run may end: "gone".
Terminated == opc = "gone" /\ cpc \in {"none", "done"} /\ UNCHANGED vars

Next ==
  \/ StartLoop \/ SpuriousWakeup \/ Dtor
  \/ \E f \in Func : OwnerQueues(f)
  \/ OwnerStep \/ FuncStep \/ InLoopTimeout
  \/ Terminated

Spec == Init /\ [][Next]_vars

\* Both threads are scheduled: whichever can run eventually does.  The new
\* thread also gets a mutex that is free again and again, as it is while the
\* owner wakes up spuriously and goes back to sleep.
FairSpec == Spec /\ WF_vars(OwnerStep) /\ WF_vars(FuncStep)
                 /\ SF_vars(FuncSync) /\ SF_vars(FuncLock)
\* poll times out as well.
TimedSpec == FairSpec /\ WF_vars(InLoopTimeout)

-----------------------------------------------------------------------------
\* MutexLock and Condition: in startLoop() and func(), and in the latch they
\* start with, the recorded holder is the thread in the critical section.
HoldersExact == M!HolderIsExact /\ T!Latch!HolderIsExact

\* Thread::start() returns with the id of the new thread, and nobody in the latch.
StartedWithTid == T!StartedWithTid

\* startLoop() hands out a loop that stays alive for the owner, up to the
\* call of quit() in the destructor, unless a functor quits the loop.
LoopValidUntilQuit == opc \in {"use", "quit"} /\ ~quit_ => alive = "live"

\* ~MutexLock asserts that holder_ is 0: when the members are destroyed, and
\* ever after, the thread function has ended and mutex_ is free, unless a
\* functor quit the loop, after which the destructor may find loop_ null with
\* func() still in its last critical section.
MembersUnused ==
  opc \in {"members", "gone"} /\ ~selfQuit =>
    cpc \in {"none", "done"} /\ mholder_ = None /\ mowner = None

\* MutexLock, Condition, CountDownLatch and their users: exclusion as recorded
\* is exclusion as it is, and what is destroyed is not in use.
MembersSafe == TypeOK /\ HoldersExact /\ StartedWithTid /\ MembersUnused

\* The owner never returns from startLoop() to a loop it cannot see, and
\* does return: the notification cannot fall between its test and its wait.
StartLoopReturns == opc \in {"start", "lock"} ~> opc = "use"

\* A destructor whose quit() reaches a loop that is inside loop() joins the
\* thread and finishes.
JoinsOnceLooping ==
  opc = "join" /\ quit_ /\ lpc # "out" ~> opc = "gone"

\* startLoop() and, with a running loop, the destructor return.
StartsAndJoins == StartLoopReturns /\ JoinsOnceLooping

\* EventLoopThread_test.cpp: the destructor "will call quit()", and the
\* loop quits: a destructor that has started finishes.
DtorFinishes == opc = "join" ~> opc = "gone"
=============================================================================
