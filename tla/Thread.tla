------------------------------- MODULE Thread -------------------------------
(***************************************************************************)
(* threads/Thread, ThreadData and CountDownLatch: start() creates a thread *)
(* and waits on the latch until the new thread has stored its id; join()   *)
(* waits for its end.  A failing pthread_create() ends the program and is  *)
(* left out.                                                               *)
(***************************************************************************)
EXTENDS Integers

CONSTANTS Parent, Child, None

VARIABLES started_, joined_,
          tid_,          \* None for 0
          count_,        \* of the latch
          ppc,           \* the parent: "out" or in "start"
          cpc,           \* the child: "none", "born", "count", "func", "done"
          lowner, lholder_, lat    \* the latch's mutex_ and cond_

threadVars == <<started_, joined_, tid_, count_, ppc, cpc>>
latchVars == <<lowner, lholder_, lat>>

Latch == INSTANCE Monitor
  WITH Threads <- {Parent, Child}, owner <- lowner, holder_ <- lholder_, at <- lat

ThreadTypeOK ==
  /\ Latch!MonitorTypeOK
  /\ {started_, joined_} \subseteq BOOLEAN
  /\ tid_ \in {Child, None}
  /\ count_ \in 0 .. 1
  /\ ppc \in {"out", "start"}
  /\ cpc \in {"none", "born", "count", "func", "done"}

ThreadInit ==
  /\ started_ = FALSE /\ joined_ = FALSE /\ tid_ = None
  /\ count_ = 1
  /\ ppc = "out" /\ cpc = "none"
  /\ Latch!MonitorInit

-----------------------------------------------------------------------------
(* The parent.                                                             *)

start ==
  /\ ppc = "out" /\ cpc = "none"
  /\ started_' = TRUE
  /\ ppc' = "start" /\ cpc' = "born"
  /\ UNCHANGED <<joined_, tid_, count_, latchVars>>

\* Mutant: count_ is not looked at.
LatchWait_NoTest ==
  /\ ppc = "start"
  /\ \/ Latch!Lock(Parent) /\ ppc' = ppc
     \/ Latch!Unlock(Parent, FALSE) /\ ppc' = "out"
  /\ UNCHANGED <<started_, joined_, tid_, count_, cpc>>

\* CountDownLatch::wait(), under its mutex.
LatchWait ==
  /\ ppc = "start"
  /\ \/ Latch!Lock(Parent) /\ ppc' = ppc
     \/ count_ > 0 /\ Latch!Wait(Parent) /\ ppc' = ppc
     \/ count_ = 0 /\ Latch!Unlock(Parent, FALSE) /\ ppc' = "out"
  /\ UNCHANGED <<started_, joined_, tid_, count_, cpc>>

\* start() has returned.
Ready == started_ /\ ppc = "out" /\ lat[Parent] = "out"

-----------------------------------------------------------------------------
(* The child: startThread() and ThreadData::runInThread().                 *)

SetTid ==
  /\ cpc = "born"
  /\ cpc' = "count"
  /\ tid_' = Child
  /\ UNCHANGED <<started_, joined_, count_, ppc, latchVars>>

countDown ==
  /\ cpc = "count"
  /\ \/ lat[Child] = "out" /\ Latch!Lock(Child) /\ UNCHANGED <<count_, cpc>>
     \/ /\ Latch!Unlock(Child, count_ = 1)
        /\ count_' = count_ - 1 /\ cpc' = "func"
  /\ UNCHANGED <<started_, joined_, tid_, ppc>>

\* func_() is running, or has returned.
InFunc == cpc = "func" /\ lat[Child] = "out"

FuncReturns == cpc' = "done" /\ UNCHANGED <<started_, joined_, tid_, count_, ppc, latchVars>>

\* join() is called, and returns when the child is "done".
join == joined_' = TRUE /\ UNCHANGED <<started_, tid_, count_, ppc, cpc, latchVars>>

ParentStep == LatchWait \/ (Latch!Step(Parent) /\ UNCHANGED threadVars)
ChildStep == SetTid \/ countDown \/ (Latch!Step(Child) /\ UNCHANGED threadVars)
ThreadSpurious == Latch!SpuriousWakeup(Parent) /\ UNCHANGED threadVars

-----------------------------------------------------------------------------
\* Thread::start(): "wait until tid is updated", assert(tid_ > 0), and when it
\* returns the latch, which may be destroyed with the Thread, is no more in use.
StartedWithTid ==
  Ready => tid_ = Child /\ lowner = None /\ \A t \in {Parent, Child} : lat[t] = "out"
=============================================================================
