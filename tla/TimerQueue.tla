----------------------------- MODULE TimerQueue -----------------------------
(***************************************************************************)
(* net/TimerQueue: the timers of one loop, their timerfd, and the threads  *)
(* that add and cancel timers.                                             *)
(*                                                                         *)
(* A Timer object is an address, which the allocator hands out again once  *)
(* it has been deleted, and a sequence number that is never used again; a  *)
(* TimerID is the pair.  A time is what is left until it, in units of the  *)
(* 100 us that resetTimerfd() waits at least, and 0 once it has come: how  *)
(* long ago a timer expired is not kept, so the timers of one batch run in *)
(* any order.                                                              *)
(*                                                                         *)
(* Calls made on another thread go through EventLoop's queue of functors.  *)
(* On the loop thread, user code runs outside the TimerQueue ("idle": some *)
(* channel's callback or functor) or in a timer's callback ("callback").   *)
(***************************************************************************)
EXTENDS Integers, Sequences, FiniteSets

CONSTANTS Ptr,         \* addresses of Timer objects
          MaxSeq,      \* bound: timers ever created
          MaxDelay,    \* bound: longest delay and interval
          NoTime       \* a timerfd that is not armed

ASSUME TimerAssumption ==
  /\ IsFiniteSet(Ptr)
  /\ MaxSeq \in Nat
  /\ MaxDelay \in Nat \ {0}
  /\ NoTime \notin Nat

VARIABLES
  numCreated_,
  heap,                    \* addresses of Timer objects that are not deleted
  expir, interval, seq,    \* their members; interval 0: not repeatable
  timers_,                 \* set of Entry: <<time, address>>
  activeTimers_,           \* set of <<address, sequence number>>
  cancelTimers_,
  callingExpiredTimers_,
  timerfd,                 \* time left until it expires, 0: readable
  active,                  \* poll returned the timerfd's channel
  lpc,                     \* where the loop thread is
  expired,                 \* handleRead()'s vector: all of it,
  toRun,                   \*   and what is still to be run
  age,                     \* time since handleRead() took "now"
  pending,                 \* functors queued by the other threads
  ids,                     \* TimerIDs the callers hold
  cancelled                \* history: cancelled while active or expired

objects == <<heap, expir, interval, seq>>
sets == <<timers_, activeTimers_, cancelTimers_>>
batch == <<expired, toRun, age>>
vars == <<numCreated_, objects, sets, callingExpiredTimers_, timerfd, active,
          lpc, batch, pending, ids, cancelled>>

Time == 0 .. MaxDelay
TimerID == Ptr \X (1 .. MaxSeq)

TypeOK ==
  /\ numCreated_ \in 0 .. MaxSeq
  /\ heap \subseteq Ptr
  /\ expir \in [Ptr -> Time]
  /\ interval \in [Ptr -> Time]
  /\ seq \in [Ptr -> 0 .. MaxSeq]
  /\ timers_ \subseteq Time \X Ptr
  /\ activeTimers_ \subseteq TimerID
  /\ cancelTimers_ \subseteq TimerID
  /\ callingExpiredTimers_ \in BOOLEAN
  /\ timerfd \in Time \cup {NoTime}
  /\ active \in BOOLEAN
  /\ lpc \in {"idle", "calling", "callback"}
  /\ expired \subseteq Ptr
  /\ toRun \subseteq expired
  /\ age \in Time
  /\ pending \in Seq({"add", "rm"} \X TimerID)
  /\ ids \subseteq TimerID
  /\ cancelled \subseteq TimerID

\* callingExpiredTimers_ is not initialised by the constructor.
Init ==
  /\ numCreated_ = 0
  /\ heap = {}
  /\ expir = [p \in Ptr |-> 0]
  /\ interval = [p \in Ptr |-> 0]
  /\ seq = [p \in Ptr |-> 0]
  /\ timers_ = {} /\ activeTimers_ = {} /\ cancelTimers_ = {}
  /\ callingExpiredTimers_ \in BOOLEAN
  /\ timerfd = NoTime
  /\ active = FALSE
  /\ lpc = "idle"
  /\ expired = {} /\ toRun = {} /\ age = 0
  /\ pending = <<>>
  /\ ids = {}
  /\ cancelled = {}

-----------------------------------------------------------------------------
Larger(a, b) == IF a >= b THEN a ELSE b

\* Timestamp's operator-: at least 100 us, one unit.
resetTimerfd(exp) == Larger(exp, 1)

IsFirst(exp) == \A e \in timers_ : exp < e[1]

\* insert() and, when the timer is the first to expire, resetTimerfd().
AddTimerInLoop(id, exp) ==
  /\ timers_' = timers_ \cup {<<exp, id[1]>>}
  /\ activeTimers_' = activeTimers_ \cup {id}
  /\ timerfd' = IF IsFirst(exp) THEN resetTimerfd(exp) ELSE timerfd

\* Mutant: only activeTimers_ is updated.
RmTimerInLoop_KeepEntry(id) ==
  /\ IF id \in activeTimers_
     THEN /\ activeTimers_' = activeTimers_ \ {id}
          /\ heap' = heap \ {id[1]}
          /\ UNCHANGED <<timers_, cancelTimers_>>
     ELSE /\ cancelTimers_' = IF callingExpiredTimers_
                              THEN cancelTimers_ \cup {id} ELSE cancelTimers_
          /\ UNCHANGED <<timers_, activeTimers_, heap>>
  /\ cancelled' = cancelled

\* Mutant: a cancelled timer is deleted while its batch runs.
RmTimerInLoop_DeleteExpired(id) ==
  /\ timers_' = timers_ \ {<<expir[id[1]], id[1]>>}
  /\ activeTimers_' = activeTimers_ \ {id}
  /\ heap' = heap \ {id[1]}
  /\ UNCHANGED <<cancelTimers_, cancelled>>

\* Mutant: the timer is looked up by its address alone.
RmTimerInLoop_ByAddress(id) ==
  /\ timers_' = {e \in timers_ : e[2] # id[1]}
  /\ activeTimers_' = {a \in activeTimers_ : a[1] # id[1]}
  /\ heap' = heap \ {e[2] : e \in timers_ \ timers_'}
  /\ cancelTimers_' = IF callingExpiredTimers_ /\ timers_' = timers_
                      THEN cancelTimers_ \cup {id} ELSE cancelTimers_
  /\ cancelled' = IF id \in activeTimers_ THEN cancelled \cup {id} ELSE cancelled

RmTimerInLoop(id) ==
  /\ IF id \in activeTimers_
     THEN /\ timers_' = timers_ \ {<<expir[id[1]], id[1]>>}
          /\ activeTimers_' = activeTimers_ \ {id}
          /\ heap' = heap \ {id[1]}
          /\ cancelTimers_' = cancelTimers_
     ELSE /\ cancelTimers_' = IF callingExpiredTimers_
                              THEN cancelTimers_ \cup {id} ELSE cancelTimers_
          /\ UNCHANGED <<timers_, activeTimers_, heap>>
  /\ cancelled' = IF \/ id \in activeTimers_
                     \/ id[1] \in expired /\ seq[id[1]] = id[2]
                  THEN cancelled \cup {id} ELSE cancelled

-----------------------------------------------------------------------------
(* Callers: addTimer() and rmTimer().                                      *)

\* ++numCreated_, the sequence number of the next Timer.
NextSeq == numCreated_ + 1

\* new Timer: an unused address and the next sequence number.
NewTimer(p, delay, inter) ==
  /\ p \notin heap
  /\ numCreated_ < MaxSeq
  /\ numCreated_' = numCreated_ + 1
  /\ heap' = heap \cup {p}
  /\ expir' = [expir EXCEPT ![p] = delay]
  /\ interval' = [interval EXCEPT ![p] = inter]
  /\ seq' = [seq EXCEPT ![p] = NextSeq]
  /\ ids' = ids \cup {<<p, NextSeq>>}

UserCode == lpc \in {"idle", "callback"}

AddTimer(p, delay, inter) ==
  /\ UserCode
  /\ NewTimer(p, delay, inter)
  /\ AddTimerInLoop(<<p, NextSeq>>, delay)
  /\ UNCHANGED <<cancelTimers_, callingExpiredTimers_, active, lpc, batch,
                 pending, cancelled>>

\* On another thread runInLoop() queues addTimerInLoop().
AddTimerRemote(p, delay, inter) ==
  /\ NewTimer(p, delay, inter)
  /\ pending' = Append(pending, <<"add", <<p, NextSeq>>>>)
  /\ UNCHANGED <<sets, callingExpiredTimers_, timerfd, active, lpc, batch,
                 cancelled>>

RmTimer(id) ==
  /\ UserCode
  /\ id \in ids
  /\ RmTimerInLoop(id)
  /\ ids' = ids \ {id}
  /\ UNCHANGED <<numCreated_, expir, interval, seq, callingExpiredTimers_,
                 timerfd, active, lpc, batch, pending>>

RmTimerRemote(id) ==
  /\ id \in ids
  /\ pending' = Append(pending, <<"rm", id>>)
  /\ ids' = ids \ {id}
  /\ UNCHANGED <<numCreated_, objects, sets, callingExpiredTimers_, timerfd,
                 active, lpc, batch, cancelled>>

-----------------------------------------------------------------------------
(* The loop thread.  Functors run once the active channels are handled.    *)

PendingAdd ==
  /\ lpc = "idle" /\ ~active
  /\ pending # <<>> /\ Head(pending)[1] = "add"
  /\ pending' = Tail(pending)
  /\ LET id == Head(pending)[2] IN AddTimerInLoop(id, expir[id[1]])
  /\ UNCHANGED <<numCreated_, objects, cancelTimers_, callingExpiredTimers_,
                 active, lpc, batch, ids, cancelled>>

PendingRm ==
  /\ lpc = "idle" /\ ~active
  /\ pending # <<>> /\ Head(pending)[1] = "rm"
  /\ pending' = Tail(pending)
  /\ RmTimerInLoop(Head(pending)[2])
  /\ UNCHANGED <<numCreated_, expir, interval, seq, callingExpiredTimers_,
                 timerfd, active, lpc, batch, ids>>

PollTimerfd ==
  /\ lpc = "idle" /\ ~active
  /\ timerfd = 0
  /\ active' = TRUE
  /\ UNCHANGED <<numCreated_, objects, sets, callingExpiredTimers_, timerfd,
                 lpc, batch, pending, ids, cancelled>>

getExpired == {e \in timers_ : e[1] <= 0}

\* handleRead() up to the first callback.  A callback that ran after poll may
\* have armed the timerfd again: then readTimerfd() reads nothing.
HandleRead ==
  /\ lpc = "idle" /\ active
  /\ active' = FALSE
  /\ timerfd' = IF timerfd = 0 THEN NoTime ELSE timerfd
  /\ expired' = {e[2] : e \in getExpired}
  /\ toRun' = expired'
  /\ age' = 0
  /\ timers_' = timers_ \ getExpired
  /\ activeTimers_' = activeTimers_ \ {<<e[2], seq[e[2]]>> : e \in getExpired}
  /\ cancelTimers_' = {}
  /\ callingExpiredTimers_' = TRUE
  /\ lpc' = "calling"
  /\ UNCHANGED <<numCreated_, objects, pending, ids, cancelled>>

Run(p) ==
  /\ lpc = "calling"
  /\ p \in toRun
  /\ toRun' = toRun \ {p}
  /\ lpc' = "callback"
  /\ UNCHANGED <<numCreated_, objects, sets, callingExpiredTimers_, timerfd,
                 active, expired, age, pending, ids, cancelled>>

CallbackReturn ==
  /\ lpc = "callback"
  /\ lpc' = "calling"
  /\ UNCHANGED <<numCreated_, objects, sets, callingExpiredTimers_, timerfd,
                 active, batch, pending, ids, cancelled>>

\* Mutant: cancelTimers_ is not looked at.
Restarted_IgnoresCancel == {p \in expired : interval[p] > 0}

\* The expired timers that reset() puts back.
Restarted == {p \in expired : interval[p] > 0 /\ <<p, seq[p]>> \notin cancelTimers_}

\* Timer::restart(): the next time counts from the "now" of handleRead().
restart(p) == Larger(interval[p] - age, 0)

\* Mutant: the timerfd is armed only for restarted timers.
Reset_RearmRestarted ==
  /\ lpc = "calling"
  /\ toRun = {}
  /\ lpc' = "idle"
  /\ callingExpiredTimers_' = FALSE
  /\ expir' = [p \in Ptr |-> IF p \in Restarted THEN restart(p) ELSE expir[p]]
  /\ timers_' = timers_ \cup {<<expir'[p], p>> : p \in Restarted}
  /\ activeTimers_' = activeTimers_ \cup {<<p, seq[p]>> : p \in Restarted}
  /\ heap' = heap \ (expired \ Restarted)
  /\ timerfd' = IF Restarted = {} THEN timerfd ELSE 1
  /\ expired' = {}
  /\ age' = 0
  /\ UNCHANGED <<numCreated_, interval, seq, cancelTimers_, active, toRun,
                 pending, ids, cancelled>>

\* reset(): the timers that are not restarted are deleted; the timerfd is armed for the first timer of all.
Reset ==
  /\ lpc = "calling"
  /\ toRun = {}
  /\ lpc' = "idle"
  /\ callingExpiredTimers_' = FALSE
  /\ expir' = [p \in Ptr |-> IF p \in Restarted THEN restart(p) ELSE expir[p]]
  /\ timers_' = timers_ \cup {<<expir'[p], p>> : p \in Restarted}
  /\ activeTimers_' = activeTimers_ \cup {<<p, seq[p]>> : p \in Restarted}
  /\ heap' = heap \ (expired \ Restarted)
  /\ timerfd' \in IF timers_' = {} THEN {timerfd}
                  ELSE {resetTimerfd(e[1]) : e \in
                          {f \in timers_' : \A g \in timers_' : f[1] <= g[1]}}
  /\ expired' = {}
  /\ age' = 0
  /\ UNCHANGED <<numCreated_, interval, seq, cancelTimers_, active, toRun,
                 pending, ids, cancelled>>

-----------------------------------------------------------------------------
Earlier(t) == IF t > 0 THEN t - 1 ELSE 0

\* 100 us pass.
Tick ==
  /\ expir' = [p \in Ptr |-> Earlier(expir[p])]
  /\ timers_' = {<<Earlier(e[1]), e[2]>> : e \in timers_}
  /\ timerfd' = IF timerfd = NoTime THEN NoTime ELSE Earlier(timerfd)
  /\ age' = IF lpc = "idle" \/ age = MaxDelay THEN age ELSE age + 1
  /\ UNCHANGED <<numCreated_, heap, interval, seq, activeTimers_, cancelTimers_,
                 callingExpiredTimers_, active, lpc, expired, toRun, pending,
                 ids, cancelled>>

LoopStep == \/ PendingAdd \/ PendingRm \/ PollTimerfd \/ HandleRead
            \/ (\E p \in Ptr : Run(p)) \/ CallbackReturn \/ Reset

Next ==
  \/ \E p \in Ptr, delay, inter \in Time :
       AddTimer(p, delay, inter) \/ AddTimerRemote(p, delay, inter)
  \/ \E id \in ids : RmTimer(id) \/ RmTimerRemote(id)
  \/ LoopStep \/ Tick

Spec == Init /\ [][Next]_vars

\* Time passes, callbacks return and the loop goes round.
FairSpec == Spec /\ WF_vars(Tick) /\ WF_vars(LoopStep)

-----------------------------------------------------------------------------
\* The assertions on timers_ and activeTimers_: the two sets hold the same
\* timers, whose objects exist and have the key they are filed under.
SetsAgree ==
  /\ activeTimers_ = {<<e[2], seq[e[2]]>> : e \in timers_}
  /\ Cardinality(timers_) = Cardinality(activeTimers_)
  /\ \A e \in timers_ : e[2] \in heap /\ e[1] = expir[e[2]]

\* handleRead() and the queued addTimerInLoop() never use a deleted Timer,
\* also when a callback cancels a timer of the batch it belongs to.
NoDanglingTimer ==
  /\ expired \subseteq heap
  /\ \A i \in 1 .. Len(pending) :
       pending[i][1] = "add" => /\ pending[i][2][1] \in heap
                                /\ seq[pending[i][2][1]] = pending[i][2][2]

\* TimerQueue: every Timer in use has one owner, and the sets know it.
TimersOwned == TypeOK /\ SetsAgree /\ NoDanglingTimer

\* Outside handleRead() the timerfd is armed for the first timer to expire,
\* whatever was added, cancelled or restarted.
TimerfdArmed ==
  lpc = "idle" /\ ~active =>
    \A e \in timers_ : timerfd # NoTime /\ timerfd <= Larger(e[1], 1)

\* rmTimer(): a timer that was cancelled after addTimerInLoop() ran, in its
\* own or another timer's callback included, is not started again.
CancelIsFinal == cancelled \cap activeTimers_ = {}

\* A timer in the queue is run, unless it is cancelled itself: cancelling
\* another one, or an old one that had the same address, does not hit it.
EveryTimerRuns ==
  \A id \in TimerID :
    id \in activeTimers_ ~> \/ id \in cancelled
                            \/ lpc = "callback" /\ seq[id[1]] = id[2]
                               /\ id[1] \in expired \ toRun
=============================================================================
