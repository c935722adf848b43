--------------------------- MODULE EventLoopProofs ---------------------------
(***************************************************************************)
(* EventLoop for any number of threads, functors and channels: it is well  *)
(* typed, it never sleeps in poll on a functor or on a quit request that   *)
(* nobody will wake it up for, and it implements CallbackQueue.            *)
(***************************************************************************)
EXTENDS EventLoop, SequenceTheorems, TLAPS

-----------------------------------------------------------------------------
(* Sequences.                                                              *)

\* What Append and Tail do to the set of elements.
LEMMA AppendRange ==
  ASSUME NEW S, NEW s \in Seq(S), NEW e \in S
  PROVE  Range(Append(s, e)) = Range(s) \cup {e}
<1>1. /\ DOMAIN s = 1 .. Len(s)
      /\ DOMAIN Append(s, e) = 1 .. Len(s) + 1
      /\ Len(s) \in Nat
  OBVIOUS
<1>2. \A i \in 1 .. Len(s) : Append(s, e)[i] = s[i]
  OBVIOUS
<1>3. Append(s, e)[Len(s) + 1] = e
  OBVIOUS
<1> QED BY <1>1, <1>2, <1>3 DEF Range

\* Moving the head of the left operand out of a concatenation.
LEMMA HeadTailConcat ==
  ASSUME NEW S, NEW s \in Seq(S), NEW r \in Seq(S), s # <<>>
  PROVE  /\ s \o r # <<>>
         /\ Head(s \o r) = Head(s)
         /\ Tail(s \o r) = Tail(s) \o r
<1>1. Len(s) > 0
  BY EmptySeq
<1>2. s \o r \in Seq(S) /\ Len(s \o r) = Len(s) + Len(r)
  BY ConcatProperties
<1>3. s \o r # <<>>
  BY <1>1, <1>2
<1>4. Head(s \o r) = Head(s)
  BY <1>1, <1>2
<1>5. Tail(s) \in Seq(S) /\ Tail(s \o r) \in Seq(S)
  BY <1>3, <1>2, HeadTailProperties
<1>6. Tail(s \o r) = Tail(s) \o r
  <2>1. Len(Tail(s \o r)) = Len(Tail(s) \o r)
    BY <1>1, <1>2, <1>3, <1>5, HeadTailProperties, ConcatProperties
  <2>2. ASSUME NEW i \in 1 .. Len(Tail(s \o r))
        PROVE  Tail(s \o r)[i] = (Tail(s) \o r)[i]
    BY <1>1, <1>2, <1>3, <1>5
  <2> QED BY <2>1, <2>2, <1>5, SeqEqual, ConcatProperties
<1> QED BY <1>3, <1>4, <1>6

-----------------------------------------------------------------------------
(* Type correctness.                                                       *)

\* Every step of the loop and of its clients keeps the variables in range.
LEMMA TypeStep == TypeOK /\ [Next]_vars => TypeOK'
<1> SUFFICES ASSUME TypeOK, [Next]_vars PROVE TypeOK'
  OBVIOUS
<1> USE DEF TypeOK, LoopStates, fdVars, queueVars, history
<1>q. ASSUME NEW t \in Threads, NEW f \in Func, QueueInLoop(t, f)
      PROVE  TypeOK'
  BY <1>q, AppendProperties DEF QueueInLoop
<1>1. CASE LoopEnter BY <1>1 DEF LoopEnter, Goto
<1>2. CASE LoopContinue BY <1>2 DEF LoopContinue, Goto
<1>3. CASE LoopExit BY <1>3 DEF LoopExit, Goto
<1>4. CASE Poll BY <1>4 DEF Poll, Goto, Readable, Channels
<1>5. CASE PollTimeout BY <1>5 DEF PollTimeout, Goto
<1>6. CASE HandleRead BY <1>6 DEF HandleRead
<1>7. ASSUME NEW c \in IoChannels, HandleEvent(c) PROVE TypeOK'
  BY <1>7 DEF HandleEvent, Goto
<1>8. CASE HandlerReturn BY <1>8 DEF HandlerReturn, Goto
<1>9. CASE DoPendingFuncs BY <1>9 DEF DoPendingFuncs, Goto
<1>10. CASE RunFunc
  BY <1>10, HeadTailProperties, AppendProperties DEF RunFunc, Goto
<1>11. CASE FuncReturn BY <1>11 DEF FuncReturn, Goto
<1>12. CASE DoPendingDone BY <1>12 DEF DoPendingDone, Goto
<1>13. ASSUME NEW t \in Threads, Quit(t) PROVE TypeOK'
  BY <1>13 DEF Quit
<1>14. ASSUME NEW f \in Func, RunInLoopDirect(f) PROVE TypeOK'
  BY <1>14, AppendProperties DEF RunInLoopDirect
<1>15. ASSUME NEW t \in Threads, Wakeup(t) PROVE TypeOK'
  BY <1>15 DEF Wakeup
<1>16. ASSUME NEW c \in IoChannels, IoArrives(c) PROVE TypeOK'
  BY <1>16 DEF IoArrives
<1>17. CASE UNCHANGED vars BY <1>17 DEF vars
<1> HIDE DEF TypeOK
<1> QED BY <1>q, <1>1, <1>2, <1>3, <1>4, <1>5, <1>6, <1>7, <1>8, <1>9, <1>10,
           <1>11, <1>12, <1>13, <1>14, <1>15, <1>16, <1>17
        DEF Next, LoopStep, Call, RunInLoop

\* The variables of EventLoop always have the types of the code's members.
THEOREM EventLoopTypeOK == Spec => []TypeOK
<1>1. Init => TypeOK
  BY EmptySeq DEF Init, TypeOK, LoopStates
<1> QED BY <1>1, TypeStep, PTL DEF Spec

-----------------------------------------------------------------------------
(* No lost wakeup.  NoLostWakeup is not inductive: the argument has to     *)
(* follow the functor from the moment it is queued, through every state    *)
(* from which the loop can get to poll without swapping pendingCBs_ first, *)
(* and needs callingPendingCBs_ to tell exactly whether a batch is running.*)

BatchStates == {"funcs", "func"}
BeforePoll == {"out", "test", "poll"} \cup BatchStates

FlagInv == callingPendingCBs_ <=> lpc \in BatchStates
BatchInv == lpc \notin BatchStates => funcs = <<>>
PendingInv ==
  lpc \in BeforePoll /\ Range(pendingCBs_) \ early # {} => WakeupOnItsWay

WakeInv == FlagInv /\ BatchInv /\ PendingInv /\ NoLostQuit

\* A call of queueInLoop() either arranges a wakeup or is made where the
\* loop will swap before it polls again.
LEMMA QueueStep ==
  ASSUME TypeOK, WakeInv, NEW t \in Threads, NEW f \in Func, QueueInLoop(t, f)
  PROVE  WakeInv'
<1> USE DEF QueueInLoop, fdVars
<1>1. FlagInv' /\ BatchInv'
  BY DEF WakeInv, FlagInv, BatchInv
<1>2. NoLostQuit'
  <2>1. WakeupOnItsWay => WakeupOnItsWay'
    BY DEF TypeOK, WakeupOnItsWay, CanCall
  <2> QED BY <2>1 DEF WakeInv, NoLostQuit
<1>3. PendingInv'
  <2>1. Range(pendingCBs_') = Range(pendingCBs_) \cup {f}
    BY AppendRange DEF TypeOK
  <2>2. CASE NeedsWakeup(t)
    <3>1. WakeupOnItsWay'
      BY <2>2 DEF TypeOK, WakeupOnItsWay
    <3> QED BY <3>1 DEF PendingInv
  <2>3. CASE ~NeedsWakeup(t)
    <3>1. t = LoopThread /\ lpc \notin BatchStates
      BY <2>3 DEF NeedsWakeup, WakeInv, FlagInv
    <3>2. CASE lpc = "handler"
      BY <3>2 DEF PendingInv, BeforePoll, BatchStates
    <3>3. CASE lpc = "out"
      <4>1. Range(pendingCBs_') \ early' \subseteq Range(pendingCBs_) \ early
        BY <3>1, <3>3, <2>1
      <4>2. WakeupOnItsWay => WakeupOnItsWay'
        BY DEF TypeOK, WakeupOnItsWay, CanCall
      <4> QED BY <4>1, <4>2 DEF WakeInv, PendingInv
    <3> QED BY <3>1, <3>2, <3>3 DEF CanCall, BatchStates
  <2> QED BY <2>2, <2>3
<1> QED BY <1>1, <1>2, <1>3 DEF WakeInv

\* Every step preserves the wakeup invariant.
LEMMA WakeStep == TypeOK /\ WakeInv /\ [Next]_vars => WakeInv'
<1> SUFFICES ASSUME TypeOK, WakeInv, [Next]_vars PROVE WakeInv'
  OBVIOUS
<1> USE DEF WakeInv, FlagInv, BatchInv, PendingInv, NoLostQuit, BatchStates,
            BeforePoll, WakeupOnItsWay, fdVars, queueVars, history
<1>1. CASE LoopEnter BY <1>1 DEF LoopEnter, Goto
<1>2. CASE LoopContinue BY <1>2 DEF LoopContinue, Goto
<1>3. CASE LoopExit BY <1>3 DEF LoopExit, Goto
<1>4. CASE Poll BY <1>4 DEF Poll, Goto
<1>5. CASE PollTimeout BY <1>5 DEF PollTimeout, Goto
<1>6. CASE HandleRead BY <1>6 DEF HandleRead
<1>7. ASSUME NEW c \in IoChannels, HandleEvent(c) PROVE WakeInv'
  BY <1>7 DEF HandleEvent, Goto
<1>8. CASE HandlerReturn BY <1>8 DEF HandlerReturn, Goto
<1>9. CASE DoPendingFuncs
  <2>1. Range(<<>>) = {}
    BY DEF Range
  <2> QED BY <1>9, <2>1 DEF DoPendingFuncs, Goto
<1>10. CASE RunFunc BY <1>10 DEF RunFunc, Goto
<1>11. CASE FuncReturn BY <1>11 DEF FuncReturn, Goto
<1>12. CASE DoPendingDone BY <1>12 DEF DoPendingDone, Goto
<1>13. ASSUME NEW t \in Threads, Quit(t) PROVE WakeInv'
  BY <1>13 DEF Quit, CanCall, TypeOK
<1>14. ASSUME NEW f \in Func, RunInLoopDirect(f) PROVE WakeInv'
  BY <1>14 DEF RunInLoopDirect
<1>15. ASSUME NEW t \in Threads, Wakeup(t) PROVE WakeInv'
  BY <1>15 DEF Wakeup, TypeOK
<1>16. ASSUME NEW c \in IoChannels, IoArrives(c) PROVE WakeInv'
  BY <1>16 DEF IoArrives
<1>17. CASE UNCHANGED vars BY <1>17 DEF vars
<1> HIDE DEF WakeInv
<1> QED BY <1>1, <1>2, <1>3, <1>4, <1>5, <1>6, <1>7, <1>8, <1>9, <1>10, <1>11,
           <1>12, <1>13, <1>14, <1>15, <1>16, <1>17, QueueStep
        DEF Next, LoopStep, Call, RunInLoop

\* The wakeup invariant holds throughout.
LEMMA WakeInvariant == Spec => []WakeInv
<1>1. Init => WakeInv
  BY DEF Init, WakeInv, FlagInv, BatchInv, PendingInv, NoLostQuit,
         BatchStates, Range
<1> QED BY <1>1, WakeStep, EventLoopTypeOK, PTL DEF Spec

\* However many threads queue functors, the loop never sleeps in poll on a
\* functor queued while it ran, or by another thread, without a wakeup
\* pending: queueInLoop()'s test of callingPendingCBs_ is enough.
THEOREM EventLoopNoLostWakeup == Spec => []NoLostWakeup
<1>1. WakeInv => NoLostWakeup
  BY DEF WakeInv, PendingInv, NoLostWakeup, BeforePoll
<1> QED BY <1>1, WakeInvariant, PTL

\* Nor does it sleep in poll on a quit() that was called after loop() began.
THEOREM EventLoopNoLostQuit == Spec => []NoLostQuit
<1>1. WakeInv => NoLostQuit
  BY DEF WakeInv
<1> QED BY <1>1, WakeInvariant, PTL

-----------------------------------------------------------------------------
(* EventLoop implements CallbackQueue: the abstract queue is what is left  *)
(* of the running batch followed by pendingCBs_.                           *)

\* A functor that is new to the loop is new to the abstract queue.
LEMMA NewFuncIsNew == ASSUME TypeOK, NEW f, NewFunc(f) PROVE CQ!New(f)
<1>1. Range(funcs \o pendingCBs_) \subseteq Range(funcs) \cup Range(pendingCBs_)
  BY DEF TypeOK, Range
<1> QED BY <1>1 DEF NewFunc, CQ!New, CQ!Range, Range

\* queueInLoop() appends to the abstract queue.
LEMMA QueueIsSubmit ==
  ASSUME TypeOK, NEW t, NEW f \in Func, QueueInLoop(t, f)
  PROVE  CQ!Submit(f)
<1>1. funcs \o Append(pendingCBs_, f) = Append(funcs \o pendingCBs_, f)
  BY ConcatAssociative, AppendIsConcat, ConcatProperties DEF TypeOK
<1> QED BY <1>1, NewFuncIsNew DEF QueueInLoop, CQ!Submit

\* Every step is a step of CallbackQueue or leaves the abstract state alone.
LEMMA RefinementStep ==
  TypeOK /\ WakeInv /\ [Next]_vars => [CQ!Next]_(CQ!vars)
<1> SUFFICES ASSUME TypeOK, WakeInv, [Next]_vars PROVE [CQ!Next]_(CQ!vars)
  OBVIOUS
<1> USE DEF fdVars, queueVars, history, CQ!vars
<1>1. CASE LoopEnter BY <1>1 DEF LoopEnter
<1>2. CASE LoopContinue BY <1>2 DEF LoopContinue
<1>3. CASE LoopExit BY <1>3 DEF LoopExit
<1>4. CASE Poll BY <1>4 DEF Poll
<1>5. CASE PollTimeout BY <1>5 DEF PollTimeout
<1>6. CASE HandleRead BY <1>6 DEF HandleRead
<1>7. ASSUME NEW c \in IoChannels, HandleEvent(c) PROVE UNCHANGED CQ!vars
  BY <1>7 DEF HandleEvent
<1>8. CASE HandlerReturn BY <1>8 DEF HandlerReturn
<1>9. CASE DoPendingFuncs
  <2>1. funcs = <<>>
    BY <1>9 DEF DoPendingFuncs, Goto, WakeInv, BatchInv, BatchStates
  <2>2. funcs \o pendingCBs_ = pendingCBs_ \o <<>>
    BY <2>1, ConcatEmptySeq DEF TypeOK
  <2> QED BY <1>9, <2>2 DEF DoPendingFuncs
<1>10. CASE RunFunc
  <2>1. CQ!RunHead
    BY <1>10, HeadTailConcat DEF RunFunc, TypeOK, CQ!RunHead
  <2> QED BY <2>1 DEF CQ!Next
<1>11. CASE FuncReturn BY <1>11 DEF FuncReturn
<1>12. CASE DoPendingDone BY <1>12 DEF DoPendingDone
<1>13. ASSUME NEW t \in Threads, Quit(t) PROVE UNCHANGED CQ!vars
  BY <1>13 DEF Quit
<1>14. ASSUME NEW f \in Func, RunInLoopDirect(f) PROVE CQ!Next
  <2>1. CQ!RunNow(f)
    BY <1>14, NewFuncIsNew DEF RunInLoopDirect, CQ!RunNow
  <2> QED BY <2>1 DEF CQ!Next
<1>15. ASSUME NEW t \in Threads, Wakeup(t) PROVE UNCHANGED CQ!vars
  BY <1>15 DEF Wakeup
<1>16. ASSUME NEW c \in IoChannels, IoArrives(c) PROVE UNCHANGED CQ!vars
  BY <1>16 DEF IoArrives
<1>17. CASE UNCHANGED vars BY <1>17 DEF vars
<1>18. ASSUME NEW t \in Threads, NEW f \in Func, QueueInLoop(t, f)
       PROVE  CQ!Next
  BY <1>18, QueueIsSubmit DEF CQ!Next
<1> QED BY <1>1, <1>2, <1>3, <1>4, <1>5, <1>6, <1>7, <1>8, <1>9, <1>10, <1>11,
           <1>12, <1>13, <1>14, <1>15, <1>16, <1>17, <1>18
        DEF Next, LoopStep, Call, RunInLoop

\* The functors handed to the loop run once each and in queueing order,
\* except that runInLoop() on the loop thread runs its functor at once.
THEOREM EventLoopRunsInOrder == Spec => RunsInOrder
<1>1. Init => CQ!Init
  BY ConcatEmptySeq, EmptySeq DEF Init, CQ!Init
<1> QED BY <1>1, RefinementStep, WakeInvariant, EventLoopTypeOK, PTL
        DEF Spec, RunsInOrder, CQ!Spec

\* EventLoop::loop() never sleeps in poll on a functor or a quit(): any number
\* of threads and functors.
THEOREM EventLoopNothingSleptOn == Spec => []NothingSleptOn
<1>1. TypeOK /\ NoLostWakeup /\ NoLostQuit => NothingSleptOn
  BY DEF NothingSleptOn
<1> QED BY <1>1, EventLoopTypeOK, EventLoopNoLostWakeup, EventLoopNoLostQuit, PTL

=============================================================================
