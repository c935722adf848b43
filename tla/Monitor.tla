------------------------------ MODULE Monitor -------------------------------
(***************************************************************************)
(* threads/MutexLock with its guards, and one threads/Condition on it.     *)
(*                                                                         *)
(* MutexLock keeps, beside the pthread mutex, the thread that holds it:    *)
(* the two are written one after the other.  A thread is "out", has        *)
(* "locked" the pthread mutex, is "in" the critical section, is about to   *)
(* "sleep" or to "unlock" with holder_ revoked, is "asleep" on the         *)
(* condition, or is "woken" and must take the mutex again.                 *)
(***************************************************************************)
CONSTANTS Threads,
          None           \* no thread: 0 in holder_

VARIABLES owner,         \* who has the pthread mutex
          holder_,
          at             \* where each thread is

State == {"out", "locked", "in", "sleep", "asleep", "woken", "unlock"}

MonitorTypeOK ==
  /\ {owner, holder_} \subseteq Threads \cup {None}
  /\ at \in [Threads -> State]

MonitorInit == owner = None /\ holder_ = None /\ at = [t \in Threads |-> "out"]

Move(t, from, to) == at[t] = from /\ at' = [at EXCEPT ![t] = to]

\* MutexLock::lock(), by a guard; or the end of pthread_cond_wait().
Lock(t) ==
  /\ Move(t, "out", "locked") \/ Move(t, "woken", "locked")
  /\ owner = None
  /\ owner' = t
  /\ holder_' = holder_

AssignHolder(t) ==
  /\ Move(t, "locked", "in")
  /\ holder_' = t
  /\ owner' = owner

\* Mutant: a wait without the RevokeGuard.
Wait_NoRevoke(t) == Move(t, "in", "sleep") /\ UNCHANGED <<owner, holder_>>

\* Condition::wait(): the RevokeGuard, then pthread_cond_wait().
Wait(t) ==
  /\ Move(t, "in", "sleep")
  /\ holder_' = None
  /\ owner' = owner

Sleep(t) ==
  /\ Move(t, "sleep", "asleep")
  /\ owner' = None
  /\ holder_' = holder_

SpuriousWakeup(t) == Move(t, "asleep", "woken") /\ UNCHANGED <<owner, holder_>>

Woken(s) == IF s = "asleep" THEN "woken" ELSE s

\* The guard is destroyed: unlock(), before which t may have notified.
Unlock(t, notified) ==
  /\ at[t] = "in"
  /\ at' = [u \in Threads |-> IF u = t THEN "unlock"
                              ELSE IF notified THEN Woken(at[u]) ELSE at[u]]
  /\ holder_' = None
  /\ owner' = owner

Release(t) ==
  /\ Move(t, "unlock", "out")
  /\ owner' = None
  /\ holder_' = holder_

\* The steps a thread takes on its own once it has begun to lock or unlock.
Step(t) == (at[t] # "out" /\ Lock(t)) \/ AssignHolder(t) \/ Sleep(t) \/ Release(t)

-----------------------------------------------------------------------------
\* MutexLock::isLockedByThisThread() and assertLocked(): the holder recorded is
\* the thread in the critical section, also across waits on the condition and
\* with other threads locking and unlocking in between, and there is only one.
HolderIsExact ==
  \A t \in Threads : /\ holder_ = t <=> at[t] = "in"
                     /\ owner = t <=> at[t] \in {"locked", "in", "sleep", "unlock"}
=============================================================================
