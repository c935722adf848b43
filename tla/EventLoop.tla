------------------------------ MODULE EventLoop ------------------------------
(***************************************************************************)
(* net/EventLoop: one loop thread that polls, dispatches channel events    *)
(* and runs the functors other threads queue, and the threads that call    *)
(* queueInLoop(), runInLoop() and quit() on it.                            *)
(*                                                                         *)
(* One action per step between two accesses to shared state: the critical  *)
(* sections of mutex_ hold one access each (push_back, swap) and are       *)
(* atomic; what follows them (the write to wakeupFd_) is a step of its     *)
(* own.  looping_ is lpc # "out" and handlingEvents_ is lpc \in {"events", *)
(* "handler"}; the eventfd counter is kept as "is not zero", all that poll *)
(* and the draining read tell apart.                                       *)
(***************************************************************************)
EXTENDS Sequences, Functions

CONSTANTS Clients,      \* threads other than the loop's that use it
          LoopThread,   \* the thread that created the EventLoop
          Func,         \* functors, one element per call that hands one over
          IoChannels,   \* channels other than wakeupChannel_
          WakeupChannel \* wakeupChannel_

ASSUME ThreadsAssumption == LoopThread \notin Clients
ASSUME ChannelsAssumption == WakeupChannel \notin IoChannels

Threads == Clients \cup {LoopThread}
Channels == IoChannels \cup {WakeupChannel}

VARIABLES
  lpc,                \* where the loop thread is
  quit_,              \* set by quit(), reset by loop()
  callingPendingCBs_, \* doPendingFuncs() is running
  pendingCBs_,        \* functors queued under mutex_
  funcs,              \* doPendingFuncs()'s local vector: what is left of it
  wakeupFd_,          \* the eventfd's counter is not zero
  ready,              \* I/O channels with an event of interest pending
  activeChannels_,    \* channels poll returned and not yet handled
  tpc,                \* per thread: "wake" before the call of wakeup()
  ran,                \* history: functors started, in order
  early               \* history: queued by the loop thread outside loop()

fdVars == <<wakeupFd_, ready, activeChannels_>>
queueVars == <<pendingCBs_, funcs, callingPendingCBs_>>
history == <<ran, early>>
vars == <<lpc, quit_, callingPendingCBs_, pendingCBs_, funcs, wakeupFd_, ready,
          activeChannels_, tpc, ran, early>>

LoopStates == {"out", "test", "poll", "events", "handler", "funcs", "func"}

TypeOK ==
  /\ lpc \in LoopStates
  /\ quit_ \in BOOLEAN
  /\ callingPendingCBs_ \in BOOLEAN
  /\ pendingCBs_ \in Seq(Func)
  /\ funcs \in Seq(Func)
  /\ wakeupFd_ \in BOOLEAN
  /\ ready \subseteq IoChannels
  /\ activeChannels_ \subseteq Channels
  /\ tpc \in [Threads -> {"idle", "wake"}]
  /\ ran \in Seq(Func)
  /\ early \subseteq Func

\* EventLoop::EventLoop: the loop is constructed and loop() not yet called.
Init ==
  /\ lpc = "out"
  /\ quit_ = FALSE
  /\ callingPendingCBs_ = FALSE
  /\ pendingCBs_ = <<>>
  /\ funcs = <<>>
  /\ wakeupFd_ = FALSE
  /\ ready = {}
  /\ activeChannels_ = {}
  /\ tpc = [t \in Threads |-> "idle"]
  /\ ran = <<>>
  /\ early = {}

-----------------------------------------------------------------------------
(* Calls on the loop.  The loop thread makes them from user code only:     *)
(* before or after loop(), in a channel's callback or in a functor.        *)

CanCall(t) == /\ tpc[t] = "idle"
              /\ t = LoopThread => lpc \in {"out", "handler", "func"}

NewFunc(f) == f \notin Range(pendingCBs_) \cup Range(funcs) \cup Range(ran)

\* Mutant: callingPendingCBs_ is not looked at.
NeedsWakeup_NotInBatch(t) == t # LoopThread

\* Mutant: only functors queued by a running batch wake the loop up.
NeedsWakeup_OnlyInBatch(t) == callingPendingCBs_

\* The wakeup is skipped only on the loop thread outside doPendingFuncs().
NeedsWakeup(t) == t # LoopThread \/ callingPendingCBs_

QueueInLoop(t, f) ==
  /\ CanCall(t)
  /\ NewFunc(f)
  /\ pendingCBs_' = Append(pendingCBs_, f)
  /\ tpc' = [tpc EXCEPT ![t] = IF NeedsWakeup(t) THEN "wake" ELSE "idle"]
  /\ early' = IF t = LoopThread /\ lpc = "out" THEN early \cup {f} ELSE early
  /\ UNCHANGED <<lpc, quit_, callingPendingCBs_, funcs, fdVars, ran>>

\* runInLoop() on the loop thread calls the functor directly; the functor's
\* own calls are those of the user code it interrupts.
RunInLoopDirect(f) ==
  /\ CanCall(LoopThread)
  /\ NewFunc(f)
  /\ ran' = Append(ran, f)
  /\ UNCHANGED <<lpc, quit_, queueVars, fdVars, tpc, early>>

\* On any other thread it is queueInLoop().
RunInLoop(t, f) ==
  IF t = LoopThread THEN RunInLoopDirect(f) ELSE QueueInLoop(t, f)

Wakeup(t) ==
  /\ tpc[t] = "wake"
  /\ wakeupFd_' = TRUE
  /\ tpc' = [tpc EXCEPT ![t] = "idle"]
  /\ UNCHANGED <<lpc, quit_, queueVars, ready, activeChannels_, history>>

\* Mutant: quit() only sets the flag.
Quit_NoWakeup(t) ==
  /\ CanCall(t)
  /\ quit_' = TRUE
  /\ UNCHANGED <<lpc, queueVars, fdVars, tpc, history>>

Quit(t) ==
  /\ CanCall(t)
  /\ quit_' = TRUE
  /\ tpc' = [tpc EXCEPT ![t] = IF t = LoopThread THEN "idle" ELSE "wake"]
  /\ UNCHANGED <<lpc, queueVars, fdVars, history>>

-----------------------------------------------------------------------------
(* loop(), doPendingFuncs() and handleRead() on the loop thread.           *)

Goto(from, to) == lpc = from /\ tpc[LoopThread] = "idle" /\ lpc' = to

LoopEnter ==
  /\ Goto("out", "test")
  /\ quit_' = FALSE
  /\ UNCHANGED <<queueVars, fdVars, tpc, history>>

LoopContinue ==
  /\ Goto("test", "poll")
  /\ ~quit_
  /\ activeChannels_' = {}
  /\ UNCHANGED <<quit_, queueVars, wakeupFd_, ready, tpc, history>>

LoopExit ==
  /\ Goto("test", "out")
  /\ quit_
  /\ UNCHANGED <<quit_, queueVars, fdVars, tpc, history>>

Readable == ready \cup (IF wakeupFd_ THEN {WakeupChannel} ELSE {})

Poll ==
  /\ Goto("poll", "events")
  /\ Readable # {}
  /\ activeChannels_' = Readable
  /\ UNCHANGED <<quit_, queueVars, wakeupFd_, ready, tpc, history>>

\* kPollTimeMs passes, or a signal interrupts the wait: no active channel.
PollTimeout ==
  /\ Goto("poll", "events")
  /\ Readable = {}
  /\ UNCHANGED <<quit_, queueVars, fdVars, tpc, history>>

\* The wakeup channel's callback drains the eventfd.
HandleRead ==
  /\ lpc = "events"
  /\ WakeupChannel \in activeChannels_
  /\ activeChannels_' = activeChannels_ \ {WakeupChannel}
  /\ wakeupFd_' = FALSE
  /\ UNCHANGED <<lpc, quit_, queueVars, ready, tpc, history>>

\* Any other channel's callback: user code, which may drain its descriptor
\* or leave it readable.
HandleEvent(c) ==
  /\ Goto("events", "handler")
  /\ c \in activeChannels_
  /\ activeChannels_' = activeChannels_ \ {c}
  /\ ready' \in {ready, ready \ {c}}
  /\ UNCHANGED <<quit_, queueVars, wakeupFd_, tpc, history>>

HandlerReturn ==
  /\ Goto("handler", "events")
  /\ UNCHANGED <<quit_, queueVars, fdVars, tpc, history>>

\* Mutant: the vector is copied instead of swapped.
DoPendingFuncs_Copy ==
  /\ Goto("events", "funcs")
  /\ activeChannels_ = {}
  /\ callingPendingCBs_' = TRUE
  /\ funcs' = pendingCBs_
  /\ UNCHANGED <<quit_, pendingCBs_, fdVars, tpc, history>>

DoPendingFuncs ==
  /\ Goto("events", "funcs")
  /\ activeChannels_ = {}
  /\ callingPendingCBs_' = TRUE
  /\ funcs' = pendingCBs_
  /\ pendingCBs_' = <<>>
  /\ UNCHANGED <<quit_, fdVars, tpc, history>>

RunFunc ==
  /\ Goto("funcs", "func")
  /\ funcs # <<>>
  /\ funcs' = Tail(funcs)
  /\ ran' = Append(ran, Head(funcs))
  /\ UNCHANGED <<quit_, callingPendingCBs_, pendingCBs_, fdVars, tpc, early>>

FuncReturn ==
  /\ Goto("func", "funcs")
  /\ UNCHANGED <<quit_, queueVars, fdVars, tpc, history>>

DoPendingDone ==
  /\ Goto("funcs", "test")
  /\ funcs = <<>>
  /\ callingPendingCBs_' = FALSE
  /\ UNCHANGED <<quit_, pendingCBs_, funcs, fdVars, tpc, history>>

\* The kernel: an event of interest arrives on an I/O channel.
IoArrives(c) ==
  /\ c \notin ready
  /\ ready' = ready \cup {c}
  /\ UNCHANGED <<lpc, quit_, queueVars, wakeupFd_, activeChannels_, tpc, history>>

-----------------------------------------------------------------------------
LoopStep ==
  \/ LoopContinue \/ LoopExit \/ Poll \/ HandleRead
  \/ \E c \in IoChannels : HandleEvent(c)
  \/ HandlerReturn \/ DoPendingFuncs \/ RunFunc \/ FuncReturn \/ DoPendingDone

Call(t) == \/ \E f \in Func : QueueInLoop(t, f) \/ RunInLoop(t, f)
           \/ Quit(t)

Next ==
  \/ LoopEnter \/ LoopStep \/ PollTimeout
  \/ \E t \in Threads : Call(t) \/ Wakeup(t)
  \/ \E c \in IoChannels : IoArrives(c)

\* The loop thread keeps taking the steps it can (callbacks return), and a
\* thread that is about to write the eventfd does so.  Nothing makes poll
\* time out: progress must come from the eventfd.
Fairness == WF_vars(LoopStep) /\ \A t \in Threads : WF_vars(Wakeup(t))

Spec == Init /\ [][Next]_vars
FairSpec == Spec /\ Fairness

-----------------------------------------------------------------------------
WakeupOnItsWay == wakeupFd_ \/ \E t \in Threads : tpc[t] = "wake"

\* queueInLoop() and the loop: whenever the loop thread is blocked in poll
\* with a functor waiting that was queued while the loop ran or by another
\* thread, the eventfd is readable or a thread is about to make it so.
NoLostWakeup ==
  lpc = "poll" /\ Range(pendingCBs_) \ early # {} => WakeupOnItsWay

\* quit(): a loop blocked in poll with quit_ set is about to be woken up.
NoLostQuit == lpc = "poll" /\ quit_ => WakeupOnItsWay

\* EventLoop::loop(): a functor or a quit() it was asked for is never slept on.
NothingSleptOn == TypeOK /\ NoLostWakeup /\ NoLostQuit

\* doPendingFuncs(): functors run once each, in queueing order, except those
\* runInLoop() runs directly on the loop thread.
CQ == INSTANCE CallbackQueue WITH queue <- funcs \o pendingCBs_, done <- ran
RunsInOrder == CQ!Spec

\* A queued functor is run, without the help of the poll timeout, unless
\* the loop is left.
QueuedFuncRuns ==
  \A f \in Func : f \in Range(pendingCBs_) \ early
                    ~> f \in Range(ran) \/ lpc = "out"

\* quit(), once loop() has begun, makes loop() return.
QuitStopsLoop == lpc # "out" /\ quit_ ~> lpc = "out"
=============================================================================
