--------------------------- MODULE TimerQueueProofs ---------------------------
(***************************************************************************)
(* TimerQueue, proved for any number of addresses, timers and delays: the  *)
(* two sets of timers agree, no deleted Timer is used, a cancelled timer   *)
(* does not come back, and the timerfd is armed for the first timer.       *)
(*                                                                         *)
(* The argument is ownership: a Timer object that is not deleted is in     *)
(* one place, a queued addTimerInLoop(), the two sets, or the batch of     *)
(* handleRead(), and its sequence number tells it from every timer that    *)
(* had the same address before.                                            *)
(***************************************************************************)
EXTENDS TimerQueue, FiniteSetTheorems, SequenceTheorems, TLAPS

\* activeTimers_ and timers_ file the same objects.
ActiveInv ==
  /\ \A a \in activeTimers_ : /\ a[1] \in heap
                              /\ seq[a[1]] = a[2]
                              /\ <<expir[a[1]], a[1]>> \in timers_
  /\ \A e \in timers_ : /\ e[1] = expir[e[2]]
                        /\ <<e[2], seq[e[2]]>> \in activeTimers_

\* The batch holds objects that are in neither set.
BatchInv ==
  /\ lpc = "idle" => expired = {}
  /\ lpc # "idle" => callingExpiredTimers_
  /\ \A p \in expired : p \in heap /\ <<p, seq[p]>> \notin activeTimers_

\* A queued addTimerInLoop() has an object of its own.
PendingInv ==
  \A i \in 1 .. Len(pending) : pending[i][1] = "add" =>
    /\ pending[i][2][1] \in heap \ expired
    /\ seq[pending[i][2][1]] = pending[i][2][2]
    /\ pending[i][2] \notin activeTimers_
    /\ \A j \in 1 .. Len(pending) :
         pending[j][1] = "add" /\ j # i => pending[j][2][1] # pending[i][2][1]

\* A cancelled timer is gone, or in the batch and not to be restarted.
CancelInv ==
  \A id \in cancelled :
    /\ id[2] <= numCreated_
    /\ id \notin activeTimers_
    /\ \A i \in 1 .. Len(pending) : pending[i][1] = "add" => pending[i][2] # id
    /\ id[1] \in expired /\ seq[id[1]] = id[2] => id \in cancelTimers_

\* Sequence numbers count the objects created.
SeqInv == /\ \A p \in Ptr : seq[p] <= numCreated_
          /\ \A p \in heap : seq[p] # 0

\* The inductive invariant.
OwnInv == TypeOK /\ ActiveInv /\ BatchInv /\ PendingInv /\ CancelInv
          /\ SeqInv

\* What insert() and rmTimerInLoop() leave as types.
LEMMA TimerTypes ==
  /\ \A t \in Time : Earlier(t) \in Time /\ resetTimerfd(t) \in Time
  /\ \A t, u \in Time : Larger(t - u, 0) \in Time
  /\ \A p \in Ptr, n \in 1 .. MaxSeq : <<p, n>> \in TimerID
BY TimerAssumption DEF Time, Earlier, resetTimerfd, Larger, TimerID

LEMMA TypeInit == Init => TypeOK
<1> SUFFICES ASSUME Init PROVE TypeOK
  OBVIOUS
<1>1. pending \in Seq({"add", "rm"} \X TimerID)
  BY EmptySeq DEF Init
<1>2. 0 \in Time /\ 0 \in 0 .. MaxSeq
  BY TimerAssumption DEF Time
<1> QED BY <1>1, <1>2 DEF Init, TypeOK

LEMMA TypeNext == TypeOK /\ BatchInv /\ SeqInv /\ [Next]_vars => TypeOK'
<1> SUFFICES ASSUME TypeOK, BatchInv, SeqInv, [Next]_vars PROVE TypeOK'
  OBVIOUS
<1> USE DEF TypeOK, objects, sets, batch
<1>1. ASSUME NEW p \in Ptr, NEW d \in Time, NEW i \in Time, NewTimer(p, d, i)
      PROVE  /\ <<p, NextSeq>> \in TimerID
             /\ numCreated_' \in 0 .. MaxSeq
             /\ heap' \subseteq Ptr
             /\ expir' \in [Ptr -> Time] /\ interval' \in [Ptr -> Time]
             /\ seq' \in [Ptr -> 0 .. MaxSeq]
             /\ ids' \subseteq TimerID
  <2>1. NextSeq \in 1 .. MaxSeq
    BY <1>1, TimerAssumption DEF NewTimer, NextSeq
  <2>2. <<p, NextSeq>> \in TimerID
    BY <2>1 DEF TimerID
  <2> QED BY <1>1, <2>1, <2>2, TimerAssumption DEF NewTimer, NextSeq
<1>2. ASSUME NEW id \in TimerID, NEW exp \in Time, AddTimerInLoop(id, exp)
      PROVE  /\ timers_' \subseteq Time \X Ptr
             /\ activeTimers_' \subseteq TimerID
             /\ timerfd' \in Time \cup {NoTime}
  <2>1. <<exp, id[1]>> \in Time \X Ptr
    BY <1>2 DEF TimerID
  <2>2. resetTimerfd(exp) \in Time
    BY TimerTypes
  <2> QED BY <1>2, <2>1, <2>2 DEF AddTimerInLoop
<1>3. ASSUME NEW id \in TimerID, RmTimerInLoop(id)
      PROVE  /\ timers_' \subseteq Time \X Ptr
             /\ activeTimers_' \subseteq TimerID
             /\ cancelTimers_' \subseteq TimerID
             /\ heap' \subseteq Ptr
             /\ cancelled' \subseteq TimerID
  BY <1>3 DEF RmTimerInLoop
<1>4. ASSUME NEW p \in Ptr, NEW d \in Time, NEW i \in Time, AddTimer(p, d, i)
      PROVE  TypeOK'
  BY <1>1, <1>2, <1>4 DEF AddTimer
<1>5. ASSUME NEW p \in Ptr, NEW d \in Time, NEW i \in Time, AddTimerRemote(p, d, i)
      PROVE  TypeOK'
  <2>1. <<"add", <<p, NextSeq>>>> \in {"add", "rm"} \X TimerID
    BY <1>1, <1>5 DEF AddTimerRemote
  <2> QED BY <1>1, <1>5, <2>1 DEF AddTimerRemote
<1>6. ASSUME NEW id \in ids, RmTimer(id)
      PROVE  TypeOK'
  BY <1>3, <1>6 DEF RmTimer
<1>7. ASSUME NEW id \in ids, RmTimerRemote(id)
      PROVE  TypeOK'
  <2>1. <<"rm", id>> \in {"add", "rm"} \X TimerID
    OBVIOUS
  <2> QED BY <1>7, <2>1 DEF RmTimerRemote
<1>8. CASE PendingAdd
  <2>1. Head(pending)[2] \in TimerID /\ Tail(pending) \in Seq({"add", "rm"} \X TimerID)
    BY <1>8 DEF PendingAdd
  <2>2. expir[Head(pending)[2][1]] \in Time
    BY <2>1 DEF TimerID
  <2> QED BY <1>2, <1>8, <2>1, <2>2 DEF PendingAdd
<1>9. CASE PendingRm
  <2>1. Head(pending)[2] \in TimerID /\ Tail(pending) \in Seq({"add", "rm"} \X TimerID)
    BY <1>9 DEF PendingRm
  <2> QED BY <1>3, <1>9, <2>1 DEF PendingRm
<1>10. CASE PollTimerfd
  BY <1>10 DEF PollTimerfd
<1>11. CASE HandleRead
  <2>1. getExpired \subseteq Time \X Ptr
    BY DEF getExpired
  <2>2. {e[2] : e \in getExpired} \subseteq Ptr
    BY <2>1
  <2>3. 0 \in Time
    BY TimerAssumption DEF Time
  <2> QED BY <1>11, <2>2, <2>3 DEF HandleRead
<1>12. ASSUME NEW p \in Ptr, Run(p) PROVE TypeOK'
  BY <1>12 DEF Run
<1>13. CASE CallbackReturn
  BY <1>13 DEF CallbackReturn
<1>14. CASE Reset
  <2>1. Restarted \subseteq Ptr
    BY DEF Restarted
  <2>2. \A p \in Ptr : restart(p) \in Time
    BY TimerTypes DEF restart
  <2>3. expir' \in [Ptr -> Time]
    BY <1>14, <2>2 DEF Reset
  <2>4. timers_' \subseteq Time \X Ptr
    BY <1>14, <2>1, <2>3 DEF Reset
  <2>5. \A p \in Restarted : <<p, seq[p]>> \in TimerID
    <3> SUFFICES ASSUME NEW p \in Restarted PROVE seq[p] # 0
      BY <2>1 DEF TimerID
    <3> QED BY DEF Restarted, BatchInv, SeqInv
  <2>6. activeTimers_' \subseteq TimerID
    BY <1>14, <2>5 DEF Reset
  <2>7. timerfd' \in Time \cup {NoTime}
    <3>1. \A e \in timers_' : resetTimerfd(e[1]) \in Time
      BY <2>4, TimerTypes
    <3> QED BY <1>14, <3>1 DEF Reset
  <2>8. 0 \in Time
    BY TimerAssumption DEF Time
  <2> QED BY <1>14, <2>3, <2>4, <2>6, <2>7, <2>8 DEF Reset
<1>15. CASE Tick
  <2>1. timers_' \subseteq Time \X Ptr
    BY <1>15, TimerTypes DEF Tick
  <2>2. expir' \in [Ptr -> Time]
    BY <1>15, TimerTypes DEF Tick
  <2>3. timerfd' \in Time \cup {NoTime}
    BY <1>15, TimerTypes DEF Tick
  <2>4. age' \in Time
    BY <1>15, TimerAssumption DEF Tick, Time
  <2> QED BY <1>15, <2>1, <2>2, <2>3, <2>4 DEF Tick
<1>16. CASE UNCHANGED vars
  BY <1>16 DEF vars
<1> HIDE DEF TypeOK
<1> QED BY <1>4, <1>5, <1>6, <1>7, <1>8, <1>9, <1>10, <1>11, <1>12, <1>13,
           <1>14, <1>15, <1>16 DEF Next, LoopStep

-----------------------------------------------------------------------------
(* How the two set operations and the steps of the loop keep ownership.    *)

LEMMA OwnInit == Init => OwnInv
<1> SUFFICES ASSUME Init PROVE OwnInv
  OBVIOUS
<1>1. TypeOK
  BY TypeInit
<1>2. ActiveInv /\ BatchInv /\ PendingInv /\ CancelInv /\ SeqInv
  BY DEF Init, ActiveInv, BatchInv, PendingInv, CancelInv, SeqInv
<1> QED BY <1>1, <1>2 DEF OwnInv

LEMMA TimerIDs ==
  /\ \A id \in TimerID : id[1] \in Ptr /\ id[2] \in 1 .. MaxSeq /\ id = <<id[1], id[2]>>
  /\ \A a, b \in TimerID : a[1] = b[1] /\ a[2] = b[2] => a = b
BY DEF TimerID

\* The sets file objects that exist.
LEMMA FiledInHeap ==
  ASSUME ActiveInv
  PROVE  /\ \A a \in activeTimers_ : a[1] \in heap
         /\ \A e \in timers_ : e[2] \in heap
<1>1. \A a \in activeTimers_ : a[1] \in heap
  BY DEF ActiveInv
<1>2. ASSUME NEW e \in timers_ PROVE e[2] \in heap
  <2>1. <<e[2], seq[e[2]]>> \in activeTimers_
    BY DEF ActiveInv
  <2> QED BY <1>1, <2>1
<1> QED BY <1>1, <1>2

\* new Timer takes an address nobody owns.
LEMMA AddTimerKeeps ==
  ASSUME OwnInv, NEW p \in Ptr, NEW d \in Time, NEW i \in Time,
         AddTimer(p, d, i), TypeOK'
  PROVE  OwnInv'
<1> USE DEF OwnInv, TypeOK, AddTimer, NewTimer, NextSeq, AddTimerInLoop, batch
<1>0. numCreated_ \in Nat /\ seq'[p] = numCreated_ + 1 /\ expir'[p] = d /\ p \in heap'
      /\ p \notin heap /\ \A q \in Ptr \ {p} : seq'[q] = seq[q] /\ expir'[q] = expir[q]
  OBVIOUS
<1>1. \A a \in activeTimers_ : a[1] # p
  BY <1>0, FiledInHeap
<1>2. \A e \in timers_ : e[2] # p
  BY <1>0, FiledInHeap
<1>3. ActiveInv'
  <2>1. ASSUME NEW a \in activeTimers_'
        PROVE  a[1] \in heap' /\ seq'[a[1]] = a[2] /\ <<expir'[a[1]], a[1]>> \in timers_'
    <3>1. CASE a = <<p, numCreated_ + 1>>
      BY <1>0, <3>1
    <3>2. CASE a \in activeTimers_
      <4>1. a[1] \in Ptr \ {p}
        BY <1>1, <3>2 DEF TimerID
      <4> QED BY <1>0, <3>2, <4>1 DEF ActiveInv
    <3> QED BY <3>1, <3>2
  <2>2. ASSUME NEW e \in timers_'
        PROVE  e[1] = expir'[e[2]] /\ <<e[2], seq'[e[2]]>> \in activeTimers_'
    <3>1. CASE e = <<d, p>>
      BY <1>0, <3>1
    <3>2. CASE e \in timers_
      <4>1. e[2] \in Ptr \ {p}
        BY <1>2, <3>2
      <4> QED BY <1>0, <3>2, <4>1 DEF ActiveInv
    <3> QED BY <3>1, <3>2
  <2> QED BY <2>1, <2>2 DEF ActiveInv
<1>4. BatchInv'
  <2>1. ASSUME NEW q \in expired' PROVE q \in heap' /\ <<q, seq'[q]>> \notin activeTimers_'
    <3>1. q \in Ptr \ {p}
      BY DEF BatchInv
    <3> QED BY <1>0, <3>1 DEF BatchInv
  <2> QED BY <2>1 DEF BatchInv
<1>5. PendingInv'
  <2>1. ASSUME NEW j \in 1 .. Len(pending), pending[j][1] = "add"
        PROVE  /\ pending[j][2] \in TimerID
               /\ pending[j][2][1] \in Ptr \ {p}
    BY <2>1 DEF PendingInv, TimerID
  <2> QED BY <1>0, <2>1 DEF PendingInv
<1>6. CancelInv'
  <2>1. ASSUME NEW id \in cancelled
        PROVE  /\ id[2] <= numCreated_' /\ id \notin activeTimers_'
               /\ id[1] \in expired' /\ seq'[id[1]] = id[2] => id \in cancelTimers_'
    <3>1. id[2] \in Nat /\ id[2] # numCreated_ + 1
      BY DEF CancelInv, TimerID
    <3>2. id # <<p, numCreated_ + 1>>
      BY <3>1
    <3>3. id[1] \in expired => id[1] \in Ptr \ {p}
      BY DEF BatchInv
    <3> QED BY <1>0, <3>1, <3>2, <3>3 DEF CancelInv
  <2> QED BY <2>1 DEF CancelInv
<1>7. SeqInv'
  BY <1>0 DEF SeqInv
<1> QED BY <1>3, <1>4, <1>5, <1>6, <1>7

LEMMA AddTimerRemoteKeeps ==
  ASSUME OwnInv, NEW p \in Ptr, NEW d \in Time, NEW i \in Time,
         AddTimerRemote(p, d, i), TypeOK'
  PROVE  OwnInv'
<1> USE DEF OwnInv, TypeOK, AddTimerRemote, NewTimer, NextSeq, batch, sets
<1> DEFINE n == numCreated_ + 1
<1>0. numCreated_ \in Nat /\ seq'[p] = n /\ expir'[p] = d /\ p \in heap'
      /\ p \notin heap /\ \A q \in Ptr \ {p} : seq'[q] = seq[q] /\ expir'[q] = expir[q]
  OBVIOUS
<1>1. \A a \in activeTimers_ : a[1] \in Ptr \ {p}
  BY <1>0, FiledInHeap
<1>2. \A e \in timers_ : e[2] \in Ptr \ {p}
  BY <1>0, FiledInHeap
<1>3. ActiveInv'
  BY <1>0, <1>1, <1>2 DEF ActiveInv
<1>4. \A q \in expired : q \in Ptr \ {p}
  BY <1>0 DEF BatchInv
<1>5. BatchInv'
  BY <1>0, <1>4 DEF BatchInv
<1>6. /\ Len(pending') = Len(pending) + 1
      /\ pending'[Len(pending) + 1] = <<"add", <<p, n>>>>
      /\ \A j \in 1 .. Len(pending) : pending'[j] = pending[j]
      /\ Len(pending) \in Nat
  OBVIOUS
<1>7. \A j \in 1 .. Len(pending) : pending[j][1] = "add" =>
        pending[j][2] \in TimerID /\ pending[j][2][1] \in Ptr \ {p}
  BY <1>0 DEF PendingInv, TimerID
<1>8. PendingInv'
  <2> SUFFICES ASSUME NEW j \in 1 .. Len(pending'), pending'[j][1] = "add"
      PROVE  /\ pending'[j][2][1] \in heap' \ expired'
             /\ seq'[pending'[j][2][1]] = pending'[j][2][2]
             /\ pending'[j][2] \notin activeTimers_'
             /\ \A k \in 1 .. Len(pending') :
                  pending'[k][1] = "add" /\ k # j
                    => pending'[k][2][1] # pending'[j][2][1]
    BY DEF PendingInv
  <2>1. CASE j = Len(pending) + 1
    BY <1>0, <1>1, <1>4, <1>6, <1>7, <2>1
  <2>2. CASE j \in 1 .. Len(pending)
    <3>1. pending'[j] = pending[j] /\ pending[j][2][1] \in Ptr \ {p}
      BY <1>6, <1>7, <2>2
    <3>2. /\ pending[j][2][1] \in heap' \ expired'
          /\ seq'[pending[j][2][1]] = pending[j][2][2]
          /\ pending[j][2] \notin activeTimers_'
      BY <1>0, <2>2, <3>1 DEF PendingInv
    <3>3. ASSUME NEW k \in 1 .. Len(pending'), pending'[k][1] = "add", k # j
          PROVE  pending'[k][2][1] # pending[j][2][1]
      <4>1. CASE k = Len(pending) + 1
        BY <1>6, <3>1, <4>1
      <4>2. CASE k \in 1 .. Len(pending)
        BY <1>6, <2>2, <3>1, <3>3, <4>2 DEF PendingInv
      <4> QED BY <1>6, <4>1, <4>2
    <3> QED BY <3>1, <3>2, <3>3
  <2> QED BY <1>6, <2>1, <2>2
<1>9. CancelInv'
  <2>1. ASSUME NEW id \in cancelled
        PROVE  /\ id[2] <= numCreated_' /\ id \notin activeTimers_'
               /\ id[1] \in expired' /\ seq'[id[1]] = id[2] => id \in cancelTimers_'
               /\ \A j \in 1 .. Len(pending') : pending'[j][1] = "add" => pending'[j][2] # id
    <3>1. id[2] \in Nat /\ id[2] # n /\ id[2] <= numCreated_
      BY DEF CancelInv, TimerID
    <3>2. id # <<p, n>>
      BY <3>1
    <3>3. \A j \in 1 .. Len(pending') : pending'[j][1] = "add" => pending'[j][2] # id
      BY <1>6, <3>2 DEF CancelInv
    <3>4. id[1] \in expired => id[1] \in Ptr \ {p}
      BY <1>4
    <3> QED BY <1>0, <3>1, <3>3, <3>4 DEF CancelInv
  <2> QED BY <2>1 DEF CancelInv
<1>10. SeqInv'
  BY <1>0 DEF SeqInv
<1> QED BY <1>3, <1>5, <1>8, <1>9, <1>10

\* A queue that is as before or has lost its head: what is left of it needs
\* objects that neither the sets nor the batch own.
LEMMA PendingShift ==
  ASSUME PendingInv, NEW s \in {0, 1},
         Len(pending') \in Nat, Len(pending) \in Nat,
         \A i \in 1 .. Len(pending') :
           i + s \in 1 .. Len(pending) /\ pending'[i] = pending[i + s],
         UNCHANGED seq,
         \A i \in 1 .. Len(pending') : pending'[i][1] = "add" =>
           pending'[i][2][1] \in heap' \ expired' /\ pending'[i][2] \notin activeTimers_'
  PROVE  PendingInv'
<1> SUFFICES ASSUME NEW i \in 1 .. Len(pending'), pending'[i][1] = "add"
    PROVE  /\ pending'[i][2][1] \in heap' \ expired'
           /\ seq'[pending'[i][2][1]] = pending'[i][2][2]
           /\ pending'[i][2] \notin activeTimers_'
           /\ \A j \in 1 .. Len(pending') :
                pending'[j][1] = "add" /\ j # i
                  => pending'[j][2][1] # pending'[i][2][1]
  BY DEF PendingInv
<1>1. i + s \in 1 .. Len(pending) /\ pending'[i] = pending[i + s]
  OBVIOUS
<1>2. /\ seq[pending[i + s][2][1]] = pending[i + s][2][2]
      /\ \A k \in 1 .. Len(pending) :
           pending[k][1] = "add" /\ k # i + s => pending[k][2][1] # pending[i + s][2][1]
  BY <1>1 DEF PendingInv
<1>3. ASSUME NEW j \in 1 .. Len(pending'), pending'[j][1] = "add", j # i
      PROVE  pending'[j][2][1] # pending'[i][2][1]
  <2>1. j + s \in 1 .. Len(pending) /\ pending'[j] = pending[j + s]
    OBVIOUS
  <2>2. j + s # i + s
    BY <1>3
  <2> QED BY <1>1, <1>2, <1>3, <2>1, <2>2
<1> QED BY <1>1, <1>2, <1>3

\* rmTimerInLoop() deletes what the sets own and marks what the batch owns.
LEMMA RmKeeps ==
  ASSUME OwnInv, NEW id \in TimerID, RmTimerInLoop(id),
         UNCHANGED <<numCreated_, expir, interval, seq, callingExpiredTimers_,
                     lpc, expired>>,
         pending' = pending \/ (pending # <<>> /\ pending' = Tail(pending))
  PROVE  ActiveInv' /\ BatchInv' /\ PendingInv' /\ CancelInv' /\ SeqInv'
<1> USE DEF OwnInv, TypeOK
<1>0. /\ Len(pending) \in Nat /\ Len(pending') \in Nat
      /\ \E s \in {0, 1} : \A i \in 1 .. Len(pending') :
           i + s \in 1 .. Len(pending) /\ pending'[i] = pending[i + s]
  <2>1. CASE pending' = pending
    <3>1. \A i \in 1 .. Len(pending') : i + 0 \in 1 .. Len(pending) /\ pending'[i] = pending[i + 0]
      BY <2>1
    <3> QED BY <2>1, <3>1
  <2>2. CASE pending # <<>> /\ pending' = Tail(pending)
    <3>1. \A i \in 1 .. Len(pending') : i + 1 \in 1 .. Len(pending) /\ pending'[i] = pending[i + 1]
      BY <2>2
    <3> QED BY <2>2, <3>1
  <2> QED BY <2>1, <2>2
<1>s. PICK s \in {0, 1} : \A i \in 1 .. Len(pending') :
           i + s \in 1 .. Len(pending) /\ pending'[i] = pending[i + s]
  BY <1>0
<1>1. CASE id \in activeTimers_
  <2>1. /\ timers_' = timers_ \ {<<expir[id[1]], id[1]>>}
        /\ activeTimers_' = activeTimers_ \ {id}
        /\ heap' = heap \ {id[1]}
        /\ cancelTimers_' = cancelTimers_
        /\ cancelled' = cancelled \cup {id}
    BY <1>1 DEF RmTimerInLoop
  <2>a. seq[id[1]] = id[2]
    BY <1>1 DEF ActiveInv
  <2>2. id[1] \in Ptr /\ seq[id[1]] = id[2] /\ id = <<id[1], id[2]>>
    BY <2>a, TimerIDs
  <2>3. ASSUME NEW a \in activeTimers_', a[1] = id[1] PROVE FALSE
    <3>1. a \in activeTimers_ /\ a # id /\ a \in TimerID
      BY <2>1
    <3>2. a[2] = id[2]
      BY <2>2, <2>3, <3>1 DEF ActiveInv
    <3> QED BY <2>3, <3>1, <3>2, TimerIDs
  <2>4. ASSUME NEW e \in timers_', e[2] = id[1] PROVE FALSE
    <3>1. e \in timers_ /\ e # <<expir[id[1]], id[1]>>
      BY <2>1
    <3>2. e[1] = expir[id[1]]
      BY <2>4, <3>1 DEF ActiveInv
    <3>3. e \in Time \X Ptr
      BY <3>1
    <3>4. e = <<e[1], e[2]>>
      BY <3>3
    <3> QED BY <2>4, <3>1, <3>2, <3>4
  <2>5. ActiveInv'
    <3>1. ASSUME NEW a \in activeTimers_'
          PROVE  /\ a[1] \in heap' /\ seq'[a[1]] = a[2]
                 /\ <<expir'[a[1]], a[1]>> \in timers_'
      BY <2>1, <2>3 DEF ActiveInv
    <3>2. ASSUME NEW e \in timers_'
          PROVE  e[1] = expir'[e[2]] /\ <<e[2], seq'[e[2]]>> \in activeTimers_'
      BY <2>1, <2>2, <2>4 DEF ActiveInv
    <3> QED BY <3>1, <3>2 DEF ActiveInv
  <2>6. BatchInv'
    BY <1>1, <2>1, <2>2 DEF BatchInv
  <2>7. ASSUME NEW i \in 1 .. Len(pending), pending[i][1] = "add"
        PROVE  pending[i][2][1] # id[1] /\ pending[i][2] # id
    <3>1. pending[i][2] \in TimerID
      OBVIOUS
    <3>2. pending[i][2] \notin activeTimers_ /\ seq[pending[i][2][1]] = pending[i][2][2]
      BY <2>7 DEF PendingInv
    <3>3. pending[i][2] # id
      BY <1>1, <3>2
    <3> QED BY <2>2, <3>1, <3>2, <3>3, TimerIDs
  <2>8. PendingInv'
    <3>1. \A i \in 1 .. Len(pending') : pending'[i][1] = "add" =>
            pending'[i][2][1] \in heap' \ expired' /\ pending'[i][2] \notin activeTimers_'
      BY <1>s, <2>1, <2>7 DEF PendingInv
    <3> QED BY <1>0, <1>s, <3>1, PendingShift
  <2>9. CancelInv'
    <3>1. id[2] <= numCreated_
      BY <2>2 DEF SeqInv
    <3>2. id[1] \notin expired
      BY <1>1, <2>2 DEF BatchInv
    <3> QED BY <1>s, <2>1, <2>7, <3>1, <3>2 DEF CancelInv
  <2>10. SeqInv'
    BY <2>1 DEF SeqInv
  <2> QED BY <2>5, <2>6, <2>8, <2>9, <2>10
<1>2. CASE id \notin activeTimers_
  <2>1. /\ UNCHANGED <<timers_, activeTimers_, heap>>
        /\ cancelTimers_ \subseteq cancelTimers_'
    BY <1>2 DEF RmTimerInLoop
  <2>a. ActiveInv' /\ BatchInv' /\ SeqInv'
    BY <2>1 DEF ActiveInv, BatchInv, SeqInv
  <2>b. \A i \in 1 .. Len(pending') : pending'[i][1] = "add" =>
          pending'[i][2][1] \in heap' \ expired' /\ pending'[i][2] \notin activeTimers_'
    BY <1>s, <2>1 DEF PendingInv
  <2>2. ActiveInv' /\ BatchInv' /\ PendingInv' /\ SeqInv'
    BY <1>0, <1>s, <2>a, <2>b, PendingShift
  <2>3. CASE id[1] \in expired /\ seq[id[1]] = id[2]
    <3>1. cancelled' = cancelled \cup {id} /\ cancelTimers_' = cancelTimers_ \cup {id}
      BY <1>2, <2>3 DEF RmTimerInLoop, BatchInv
    <3>2. id[2] <= numCreated_
      BY <2>3 DEF SeqInv, TimerID
    <3>3. \A i \in 1 .. Len(pending) : pending[i][1] = "add" => pending[i][2] # id
      BY <2>3 DEF PendingInv
    <3>4. CancelInv'
      BY <1>2, <1>s, <2>1, <3>1, <3>2, <3>3 DEF CancelInv
    <3> QED BY <2>2, <3>4
  <2>4. CASE ~(id[1] \in expired /\ seq[id[1]] = id[2])
    <3>1. cancelled' = cancelled
      BY <1>2, <2>4 DEF RmTimerInLoop
    <3>2. CancelInv'
      BY <1>s, <2>1, <3>1 DEF CancelInv
    <3> QED BY <2>2, <3>2
  <2> QED BY <2>3, <2>4
<1> QED BY <1>1, <1>2

\* The queued addTimerInLoop() hands its object to the sets.
LEMMA PendingAddKeeps ==
  ASSUME OwnInv, PendingAdd
  PROVE  ActiveInv' /\ BatchInv' /\ PendingInv' /\ CancelInv' /\ SeqInv'
<1> USE DEF OwnInv, TypeOK
<1> DEFINE id == pending[1][2]
<1>1. /\ lpc = "idle" /\ pending # <<>> /\ pending[1][1] = "add"
      /\ timers_' = timers_ \cup {<<expir[id[1]], id[1]>>}
      /\ activeTimers_' = activeTimers_ \cup {id}
      /\ UNCHANGED <<numCreated_, heap, expir, interval, seq, cancelTimers_,
                     callingExpiredTimers_, lpc, expired, cancelled>>
  BY DEF PendingAdd, AddTimerInLoop, objects, batch
<1>2. /\ Len(pending) \in Nat \ {0} /\ Len(pending') = Len(pending) - 1
      /\ \A i \in 1 .. Len(pending') : pending'[i] = pending[i + 1]
  BY DEF PendingAdd
<1>3. id \in TimerID /\ id[1] \in heap /\ seq[id[1]] = id[2] /\ id \notin activeTimers_
  BY <1>1, <1>2 DEF PendingInv
<1>4. id = <<id[1], id[2]>> /\ id[1] \in Ptr
  BY <1>3, TimerIDs
<1>5. ActiveInv'
  <2>1. ASSUME NEW a \in activeTimers_'
        PROVE  a[1] \in heap' /\ seq'[a[1]] = a[2] /\ <<expir'[a[1]], a[1]>> \in timers_'
    BY <1>1, <1>3 DEF ActiveInv
  <2>2. ASSUME NEW e \in timers_'
        PROVE  e[1] = expir'[e[2]] /\ <<e[2], seq'[e[2]]>> \in activeTimers_'
    <3>1. CASE e = <<expir[id[1]], id[1]>>
      BY <1>1, <1>3, <1>4, <3>1
    <3>2. CASE e \in timers_
      BY <1>1, <3>2 DEF ActiveInv
    <3> QED BY <1>1, <3>1, <3>2
  <2> QED BY <2>1, <2>2 DEF ActiveInv
<1>6. BatchInv'
  BY <1>1 DEF BatchInv
<1>7. PendingInv'
  <2>1. ASSUME NEW i \in 1 .. Len(pending'), pending'[i][1] = "add"
        PROVE  /\ pending'[i][2][1] \in heap' \ expired'
               /\ pending'[i][2] \notin activeTimers_'
    <3>1. i + 1 \in 1 .. Len(pending) /\ i + 1 # 1 /\ pending'[i] = pending[i + 1]
      BY <1>2
    <3>2. /\ pending[i + 1][2][1] \in heap \ expired
          /\ pending[i + 1][2] \notin activeTimers_
      BY <2>1, <3>1 DEF PendingInv
    <3>3. pending[i + 1][2] # id
      BY <1>1, <1>2, <2>1, <3>1 DEF PendingInv
    <3> QED BY <1>1, <3>1, <3>2, <3>3
  <2>2. \A i \in 1 .. Len(pending') :
          i + 1 \in 1 .. Len(pending) /\ pending'[i] = pending[i + 1]
    BY <1>2
  <2>3. Len(pending) \in Nat /\ Len(pending') \in Nat
    BY <1>2
  <2> QED BY <1>1, <2>1, <2>2, <2>3, PendingShift
<1>8. CancelInv'
  <2>1. ASSUME NEW c \in cancelled
        PROVE  /\ c[2] <= numCreated_' /\ c \notin activeTimers_'
               /\ \A i \in 1 .. Len(pending') : pending'[i][1] = "add" => pending'[i][2] # c
               /\ c[1] \in expired' /\ seq'[c[1]] = c[2] => c \in cancelTimers_'
    <3>1. c # id
      BY <1>1, <1>2 DEF CancelInv
    <3>2. \A i \in 1 .. Len(pending') : pending'[i][1] = "add" => pending'[i][2] # c
      <4> SUFFICES ASSUME NEW i \in 1 .. Len(pending'), pending'[i][1] = "add"
                   PROVE  pending'[i][2] # c
        OBVIOUS
      <4>1. i + 1 \in 1 .. Len(pending) /\ pending'[i] = pending[i + 1]
        BY <1>2
      <4> QED BY <4>1 DEF CancelInv
    <3> QED BY <1>1, <3>1, <3>2 DEF CancelInv
  <2> QED BY <1>1, <2>1 DEF CancelInv
<1>9. SeqInv'
  BY <1>1 DEF SeqInv
<1> QED BY <1>5, <1>6, <1>7, <1>8, <1>9

\* A queued rmTimerInLoop() owns nothing.
LEMMA QueueRmKeeps ==
  ASSUME OwnInv, NEW id \in TimerID, pending' = Append(pending, <<"rm", id>>),
         UNCHANGED <<numCreated_, heap, seq, activeTimers_, cancelTimers_, expired,
                     cancelled>>
  PROVE  PendingInv' /\ CancelInv'
<1>1. /\ Len(pending) \in Nat /\ Len(pending') = Len(pending) + 1
      /\ pending'[Len(pending) + 1] = <<"rm", id>>
      /\ \A i \in 1 .. Len(pending) : pending'[i] = pending[i]
  BY DEF OwnInv, TypeOK
<1>2. \A i \in 1 .. Len(pending') : pending'[i][1] = "add" =>
        i \in 1 .. Len(pending) /\ pending'[i] = pending[i]
  BY <1>1
<1>3. CancelInv'
  BY <1>2 DEF OwnInv, CancelInv
<1>4. PendingInv'
  <2> SUFFICES ASSUME NEW i \in 1 .. Len(pending'), pending'[i][1] = "add"
      PROVE  /\ pending'[i][2][1] \in heap' \ expired'
             /\ seq'[pending'[i][2][1]] = pending'[i][2][2]
             /\ pending'[i][2] \notin activeTimers_'
             /\ \A j \in 1 .. Len(pending') :
                  pending'[j][1] = "add" /\ j # i
                    => pending'[j][2][1] # pending'[i][2][1]
    BY DEF PendingInv
  <2>1. i \in 1 .. Len(pending) /\ pending'[i] = pending[i]
    BY <1>2
  <2> QED BY <1>2, <2>1 DEF OwnInv, PendingInv
<1> QED BY <1>3, <1>4

\* handleRead() moves the expired timers from the sets to the batch.
LEMMA HandleReadKeeps ==
  ASSUME OwnInv, HandleRead
  PROVE  ActiveInv' /\ BatchInv' /\ PendingInv' /\ CancelInv' /\ SeqInv'
<1> USE DEF OwnInv, TypeOK
<1>1. /\ expired' = {e[2] : e \in getExpired}
      /\ timers_' = timers_ \ getExpired
      /\ activeTimers_' = activeTimers_ \ {<<e[2], seq[e[2]]>> : e \in getExpired}
      /\ callingExpiredTimers_' = TRUE /\ lpc' = "calling"
      /\ lpc = "idle" /\ expired = {}
      /\ UNCHANGED <<numCreated_, heap, expir, interval, seq, pending, cancelled>>
  BY DEF HandleRead, objects, BatchInv
<1>2. getExpired \subseteq timers_
  BY DEF getExpired
<1>3. \A p \in expired' : p \in heap /\ <<p, seq[p]>> \in activeTimers_
                          /\ <<p, seq[p]>> \notin activeTimers_'
  <2> SUFFICES ASSUME NEW e \in getExpired
               PROVE  /\ e[2] \in heap /\ <<e[2], seq[e[2]]>> \in activeTimers_
                      /\ <<e[2], seq[e[2]]>> \notin activeTimers_'
    BY <1>1
  <2>1. e[2] \in heap
    BY <1>2, FiledInHeap
  <2>2. <<e[2], seq[e[2]]>> \in activeTimers_
    BY <1>2 DEF ActiveInv
  <2> QED BY <1>1, <2>1, <2>2
<1>4. \A e \in timers_, f \in timers_ : e[2] = f[2] => e = f
  <2> SUFFICES ASSUME NEW e \in timers_, NEW f \in timers_, e[2] = f[2] PROVE e = f
    OBVIOUS
  <2>a. e[1] = expir[e[2]] /\ f[1] = expir[f[2]]
    BY DEF ActiveInv
  <2>1. e[1] = f[1]
    BY <2>a
  <2>2. e \in Time \X Ptr /\ f \in Time \X Ptr
    OBVIOUS
  <2> QED BY <2>1, <2>2
<1>5. ActiveInv'
  <2>1. ASSUME NEW a \in activeTimers_'
        PROVE  a[1] \in heap' /\ seq'[a[1]] = a[2] /\ <<expir'[a[1]], a[1]>> \in timers_'
    <3>1. a \in activeTimers_ /\ a \in TimerID
      BY <1>1
    <3>2. a[1] \in heap /\ seq[a[1]] = a[2] /\ <<expir[a[1]], a[1]>> \in timers_
      BY <3>1 DEF ActiveInv
    <3>3. <<expir[a[1]], a[1]>> \notin getExpired
      <4> SUFFICES ASSUME <<expir[a[1]], a[1]>> \in getExpired PROVE FALSE
        OBVIOUS
      <4>1. <<a[1], seq[a[1]]>> \notin activeTimers_'
        BY <1>1
      <4> QED BY <3>1, <3>2, <4>1, TimerIDs
    <3> QED BY <1>1, <3>2, <3>3
  <2>2. ASSUME NEW e \in timers_'
        PROVE  e[1] = expir'[e[2]] /\ <<e[2], seq'[e[2]]>> \in activeTimers_'
    <3>1. e \in timers_ /\ e \notin getExpired
      BY <1>1
    <3>2. e[1] = expir[e[2]] /\ <<e[2], seq[e[2]]>> \in activeTimers_
      BY <3>1 DEF ActiveInv
    <3>3. \A f \in getExpired : f[2] # e[2]
      BY <1>2, <1>4, <3>1
    <3>4. \A f \in getExpired : <<f[2], seq[f[2]]>> # <<e[2], seq[e[2]]>>
      BY <3>3
    <3> QED BY <1>1, <3>2, <3>4
  <2> QED BY <2>1, <2>2 DEF ActiveInv
<1>6. BatchInv'
  BY <1>1, <1>3 DEF BatchInv
<1>7. PendingInv'
  <2>1. ASSUME NEW i \in 1 .. Len(pending), pending[i][1] = "add"
        PROVE  pending[i][2][1] \notin expired'
    <3>1. /\ pending[i][2] \in TimerID /\ pending[i][2] \notin activeTimers_
          /\ seq[pending[i][2][1]] = pending[i][2][2]
      BY <2>1 DEF PendingInv
    <3> QED BY <1>3, <3>1, TimerIDs
  <2> QED BY <1>1, <2>1 DEF PendingInv
<1>8. CancelInv'
  <2>1. ASSUME NEW c \in cancelled, c[1] \in expired', seq[c[1]] = c[2] PROVE FALSE
    <3>1. <<c[1], c[2]>> \in activeTimers_ /\ c = <<c[1], c[2]>>
      BY <1>3, <2>1, TimerIDs
    <3> QED BY <3>1 DEF CancelInv
  <2> QED BY <1>1, <2>1 DEF CancelInv
<1>9. SeqInv'
  BY <1>1 DEF SeqInv
<1> QED BY <1>5, <1>6, <1>7, <1>8, <1>9

\* reset() moves the restarted timers back and deletes the others.
LEMMA ResetKeeps ==
  ASSUME OwnInv, Reset
  PROVE  ActiveInv' /\ BatchInv' /\ PendingInv' /\ CancelInv' /\ SeqInv'
<1> USE DEF OwnInv, TypeOK
<1>1. /\ expir' = [p \in Ptr |-> IF p \in Restarted THEN restart(p) ELSE expir[p]]
      /\ timers_' = timers_ \cup {<<expir'[p], p>> : p \in Restarted}
      /\ activeTimers_' = activeTimers_ \cup {<<p, seq[p]>> : p \in Restarted}
      /\ heap' = heap \ (expired \ Restarted)
      /\ lpc' = "idle" /\ expired' = {}
      /\ UNCHANGED <<numCreated_, seq, cancelTimers_, pending, cancelled>>
  BY DEF Reset
<1>2. Restarted \subseteq expired /\ Restarted \subseteq Ptr
  BY DEF Restarted
<1>3. \A a \in activeTimers_ : a[1] \in Ptr \ expired
  <2> SUFFICES ASSUME NEW a \in activeTimers_, a[1] \in expired PROVE FALSE
    BY TimerIDs
  <2>1. seq[a[1]] = a[2] /\ a = <<a[1], a[2]>>
    BY TimerIDs DEF ActiveInv
  <2> QED BY <2>1 DEF BatchInv
<1>4. \A e \in timers_ : e[2] \in Ptr \ expired
  <2> SUFFICES ASSUME NEW e \in timers_ PROVE e[2] \in Ptr \ expired
    OBVIOUS
  <2>1. <<e[2], seq[e[2]]>> \in activeTimers_
    BY DEF ActiveInv
  <2> QED BY <1>3, <2>1
<1>5. \A q \in Ptr \ expired : expir'[q] = expir[q]
  BY <1>1, <1>2
<1>6. ActiveInv'
  <2>1. ASSUME NEW a \in activeTimers_'
        PROVE  a[1] \in heap' /\ seq'[a[1]] = a[2] /\ <<expir'[a[1]], a[1]>> \in timers_'
    <3>1. CASE a \in activeTimers_
      <4>1. a[1] \in heap /\ seq[a[1]] = a[2] /\ <<expir[a[1]], a[1]>> \in timers_
        BY <3>1 DEF ActiveInv
      <4>2. a[1] \in Ptr \ expired
        BY <1>3, <3>1
      <4> QED BY <1>1, <1>5, <4>1, <4>2
    <3>2. ASSUME NEW p \in Restarted, a = <<p, seq[p]>>
          PROVE  a[1] \in heap' /\ seq'[a[1]] = a[2] /\ <<expir'[a[1]], a[1]>> \in timers_'
      <4>1. p \in heap
        BY <1>2 DEF BatchInv
      <4> QED BY <1>1, <3>2, <4>1
    <3> QED BY <1>1, <3>1, <3>2
  <2>2. ASSUME NEW e \in timers_'
        PROVE  e[1] = expir'[e[2]] /\ <<e[2], seq'[e[2]]>> \in activeTimers_'
    <3>1. CASE e \in timers_
      <4>1. e[1] = expir[e[2]] /\ <<e[2], seq[e[2]]>> \in activeTimers_
        BY <3>1 DEF ActiveInv
      <4>2. e[2] \in Ptr \ expired
        BY <1>4, <3>1
      <4> QED BY <1>1, <1>5, <4>1, <4>2
    <3>2. ASSUME NEW p \in Restarted, e = <<expir'[p], p>>
          PROVE  e[1] = expir'[e[2]] /\ <<e[2], seq'[e[2]]>> \in activeTimers_'
      BY <1>1, <3>2
    <3> QED BY <1>1, <3>1, <3>2
  <2> QED BY <2>1, <2>2 DEF ActiveInv
<1>7. BatchInv'
  BY <1>1 DEF BatchInv
<1>8. PendingInv'
  <2>1. ASSUME NEW i \in 1 .. Len(pending), pending[i][1] = "add"
        PROVE  pending[i][2][1] \in heap' /\ pending[i][2] \notin activeTimers_'
    <3>1. pending[i][2][1] \in heap \ expired /\ pending[i][2] \notin activeTimers_
      BY <2>1 DEF PendingInv
    <3>2. \A p \in Restarted : pending[i][2] # <<p, seq[p]>>
      BY <1>2, <3>1
    <3> QED BY <1>1, <3>1, <3>2
  <2> QED BY <1>1, <2>1 DEF PendingInv
<1>9. CancelInv'
  <2>1. ASSUME NEW c \in cancelled PROVE c \notin activeTimers_'
    <3>1. ASSUME NEW p \in Restarted, c = <<p, seq[p]>> PROVE FALSE
      BY <1>2, <3>1 DEF CancelInv, Restarted
    <3> QED BY <1>1, <3>1 DEF CancelInv
  <2> QED BY <1>1, <2>1 DEF CancelInv
<1>10. SeqInv'
  BY <1>1 DEF SeqInv
<1> QED BY <1>6, <1>7, <1>8, <1>9, <1>10

\* Time shifts a timer and its entry together.
LEMMA TickKeeps ==
  ASSUME OwnInv, Tick
  PROVE  ActiveInv' /\ BatchInv' /\ PendingInv' /\ CancelInv' /\ SeqInv'
<1> USE DEF OwnInv, TypeOK
<1>1. /\ expir' = [p \in Ptr |-> Earlier(expir[p])]
      /\ timers_' = {<<Earlier(e[1]), e[2]>> : e \in timers_}
      /\ UNCHANGED <<numCreated_, heap, seq, activeTimers_, cancelTimers_,
                     callingExpiredTimers_, lpc, expired, pending, cancelled>>
  BY DEF Tick
<1>2. ActiveInv'
  <2>1. ASSUME NEW a \in activeTimers_'
        PROVE  a[1] \in heap' /\ seq'[a[1]] = a[2] /\ <<expir'[a[1]], a[1]>> \in timers_'
    <3>1. a[1] \in heap /\ seq[a[1]] = a[2] /\ <<expir[a[1]], a[1]>> \in timers_
      BY <1>1 DEF ActiveInv
    <3>2. a[1] \in Ptr
      BY <3>1
    <3>3. expir'[a[1]] = Earlier(expir[a[1]])
      BY <1>1, <3>2
    <3>4. <<Earlier(expir[a[1]]), a[1]>> \in timers_'
      BY <1>1, <3>1
    <3> QED BY <1>1, <3>1, <3>3, <3>4
  <2>2. ASSUME NEW e \in timers_
        PROVE  /\ Earlier(e[1]) = expir'[e[2]]
               /\ <<e[2], seq[e[2]]>> \in activeTimers_
    <3>1. e[1] = expir[e[2]] /\ <<e[2], seq[e[2]]>> \in activeTimers_
      BY DEF ActiveInv
    <3>2. e[2] \in Ptr
      OBVIOUS
    <3> QED BY <1>1, <3>1, <3>2
  <2>3. ASSUME NEW f \in timers_'
        PROVE  f[1] = expir'[f[2]] /\ <<f[2], seq'[f[2]]>> \in activeTimers_'
    <3>1. PICK e \in timers_ : f = <<Earlier(e[1]), e[2]>>
      BY <1>1
    <3> QED BY <1>1, <2>2, <3>1
  <2> QED BY <2>1, <2>3 DEF ActiveInv
<1>3. BatchInv' /\ PendingInv' /\ CancelInv' /\ SeqInv'
  BY <1>1 DEF BatchInv, PendingInv, CancelInv, SeqInv
<1> QED BY <1>2, <1>3

-----------------------------------------------------------------------------
LEMMA OwnNext == OwnInv /\ [Next]_vars => OwnInv'
<1> SUFFICES ASSUME OwnInv, [Next]_vars PROVE OwnInv'
  OBVIOUS
<1>1. TypeOK'
  BY TypeNext DEF OwnInv
<1>2. ASSUME NEW p \in Ptr, NEW d \in Time, NEW i \in Time,
             AddTimer(p, d, i) \/ AddTimerRemote(p, d, i)
      PROVE  OwnInv'
  BY <1>1, <1>2, AddTimerKeeps, AddTimerRemoteKeeps
<1>3. ASSUME NEW id \in ids, RmTimer(id)
      PROVE  OwnInv'
  <2>1. id \in TimerID
    BY DEF OwnInv, TypeOK
  <2>2. ActiveInv' /\ BatchInv' /\ PendingInv' /\ CancelInv' /\ SeqInv'
    <3>1. /\ RmTimerInLoop(id)
          /\ UNCHANGED <<numCreated_, expir, interval, seq, callingExpiredTimers_,
                         lpc, expired>>
          /\ pending' = pending
      BY <1>3 DEF RmTimer, batch
    <3> QED BY <2>1, <3>1, RmKeeps
  <2> QED BY <1>1, <2>2 DEF OwnInv
<1>4. ASSUME NEW id \in ids, RmTimerRemote(id)
      PROVE  OwnInv'
  <2>1. id \in TimerID
    BY DEF OwnInv, TypeOK
  <2>2. PendingInv' /\ CancelInv'
    BY <1>4, <2>1, QueueRmKeeps DEF RmTimerRemote, objects, sets, batch
  <2>3. ActiveInv' /\ BatchInv' /\ SeqInv'
    BY <1>4 DEF OwnInv, RmTimerRemote, objects, sets, batch, ActiveInv, BatchInv, SeqInv
  <2> QED BY <1>1, <2>2, <2>3 DEF OwnInv
<1>5. CASE PendingAdd
  BY <1>1, <1>5, PendingAddKeeps DEF OwnInv
<1>6. CASE PendingRm
  <2>1. Head(pending)[2] \in TimerID
    BY <1>6 DEF PendingRm, OwnInv, TypeOK
  <2>2. ActiveInv' /\ BatchInv' /\ PendingInv' /\ CancelInv' /\ SeqInv'
    BY <1>6, <2>1, RmKeeps DEF PendingRm, batch
  <2> QED BY <1>1, <2>2 DEF OwnInv
<1>7. CASE HandleRead
  BY <1>1, <1>7, HandleReadKeeps DEF OwnInv
<1>8. CASE Reset
  BY <1>1, <1>8, ResetKeeps DEF OwnInv
<1>9. CASE Tick
  BY <1>1, <1>9, TickKeeps DEF OwnInv
<1>10. ASSUME /\ UNCHANGED <<numCreated_, objects, sets, callingExpiredTimers_,
                             expired, pending, cancelled>>
              /\ lpc' = lpc \/ (lpc # "idle" /\ lpc' # "idle")
       PROVE  OwnInv'
  BY <1>1, <1>10 DEF OwnInv, ActiveInv, BatchInv, PendingInv, CancelInv, SeqInv,
                     objects, sets
<1>11. CASE PollTimerfd
  BY <1>10, <1>11 DEF PollTimerfd, objects, sets, batch
<1>12. ASSUME NEW p \in Ptr, Run(p) PROVE OwnInv'
  BY <1>10, <1>12 DEF Run
<1>13. CASE CallbackReturn
  BY <1>10, <1>13 DEF CallbackReturn, batch
<1>14. CASE UNCHANGED vars
  BY <1>10, <1>14 DEF vars, objects, sets, batch
<1> QED BY <1>2, <1>3, <1>4, <1>5, <1>6, <1>7, <1>8, <1>9, <1>11, <1>12, <1>13,
           <1>14 DEF Next, LoopStep

LEMMA OwnInvariant == Spec => []OwnInv
BY OwnInit, OwnNext, PTL DEF Spec

\* TimerQueue keeps its members in range, whatever is added and cancelled.
THEOREM TimerQueueTypeOK == Spec => []TypeOK
<1>1. OwnInv => TypeOK
  BY DEF OwnInv
<1> QED BY <1>1, OwnInvariant, PTL

\* The assertions of getExpired() and rmTimerInLoop(): timers_ and
\* activeTimers_ hold the same timers, under the right keys.
THEOREM TimerQueueSetsAgree == Spec => []SetsAgree
<1>1. OwnInv => SetsAgree
  <2> SUFFICES ASSUME OwnInv PROVE SetsAgree
    OBVIOUS
  <2> USE DEF OwnInv
  <2>1. activeTimers_ \subseteq {<<e[2], seq[e[2]]>> : e \in timers_}
    <3> SUFFICES ASSUME NEW a \in activeTimers_
                 PROVE  \E e \in timers_ : a = <<e[2], seq[e[2]]>>
      OBVIOUS
    <3>1. <<expir[a[1]], a[1]>> \in timers_ /\ seq[a[1]] = a[2]
      BY DEF ActiveInv
    <3>2. a = <<a[1], a[2]>>
      BY TimerIDs DEF TypeOK
    <3> QED BY <3>1, <3>2
  <2>2. {<<e[2], seq[e[2]]>> : e \in timers_} \subseteq activeTimers_
    BY DEF ActiveInv
  <2>3. \A e \in timers_ : e[2] \in heap /\ e[1] = expir[e[2]]
    BY FiledInHeap DEF ActiveInv
  <2>4. Cardinality(timers_) = Cardinality(activeTimers_)
    <3> DEFINE f == [e \in timers_ |-> <<e[2], seq[e[2]]>>]
    <3>1. IsFiniteSet(timers_)
      <4>1. IsFiniteSet(Time)
        BY FS_Interval, TimerAssumption DEF Time
      <4>2. IsFiniteSet(Time \X Ptr)
        BY <4>1, FS_Product, TimerAssumption
      <4>3. timers_ \in SUBSET (Time \X Ptr)
        BY DEF TypeOK
      <4> QED BY <4>2, <4>3, FS_Subset
    <3>2. f \in [timers_ -> activeTimers_]
      BY <2>2
    <3>3. \A e, g \in timers_ : f[e] = f[g] => e = g
      <4> SUFFICES ASSUME NEW e \in timers_, NEW g \in timers_, f[e] = f[g]
                   PROVE  e = g
        OBVIOUS
      <4>1. e[2] = g[2]
        OBVIOUS
      <4>2. e[1] = g[1]
        BY <2>3, <4>1
      <4>3. e \in Time \X Ptr /\ g \in Time \X Ptr
        BY DEF TypeOK
      <4> QED BY <4>1, <4>2, <4>3
    <3>4. \A a \in activeTimers_ : \E e \in timers_ : f[e] = a
      BY <2>1
    <3>5. ExistsBijection(timers_, activeTimers_)
      <4>1. f \in Bijection(timers_, activeTimers_)
        <5> HIDE DEF f
        <5> QED BY <3>2, <3>3, <3>4 DEF Bijection, Injection, Surjection, IsInjective
      <4> QED BY <4>1 DEF ExistsBijection
    <3> QED BY <3>1, <3>5, FS_Bijection
  <2> QED BY <2>1, <2>2, <2>3, <2>4 DEF SetsAgree
<1> QED BY <1>1, OwnInvariant, PTL

\* No Timer is used after it was deleted, by a batch or a queued functor.
THEOREM TimerQueueNoDanglingTimer == Spec => []NoDanglingTimer
<1>1. OwnInv => NoDanglingTimer
  BY DEF OwnInv, BatchInv, PendingInv, NoDanglingTimer
<1> QED BY <1>1, OwnInvariant, PTL

\* A timer that was cancelled after it was added never becomes active again.
THEOREM TimerQueueCancelIsFinal == Spec => []CancelIsFinal
<1>1. OwnInv => CancelIsFinal
  BY DEF OwnInv, CancelInv, CancelIsFinal
<1> QED BY <1>1, OwnInvariant, PTL

-----------------------------------------------------------------------------
(* The timerfd.  ArmedFor(t) says that it fires no later than a timer that *)
(* is due in t, and every operation keeps it so for every timer.           *)

ArmedFor(fd, t) == fd # NoTime /\ fd <= Larger(t, 1)

LEMMA Arming ==
  /\ \A t, u \in Time : t <= u => ArmedFor(resetTimerfd(t), u)
  /\ \A t, u \in Time, fd \in Time \cup {NoTime} :
       ArmedFor(fd, t) /\ t <= u => ArmedFor(fd, u)
  /\ \A t, fd \in Time : ArmedFor(fd, t) => ArmedFor(Earlier(fd), Earlier(t))
BY TimerAssumption DEF ArmedFor, resetTimerfd, Larger, Earlier, Time

LEMMA ArmedForAll ==
  TimerfdArmed <=> (lpc = "idle" /\ ~active => \A e \in timers_ : ArmedFor(timerfd, e[1]))
BY DEF TimerfdArmed, ArmedFor

LEMMA AddArmed ==
  ASSUME TypeOK, NEW id \in TimerID, NEW exp \in Time, AddTimerInLoop(id, exp),
         \A e \in timers_ : ArmedFor(timerfd, e[1])
  PROVE  \A e \in timers_' : ArmedFor(timerfd', e[1])
<1> USE DEF TypeOK
<1>1. /\ timers_' = timers_ \cup {<<exp, id[1]>>}
      /\ timerfd' = IF IsFirst(exp) THEN resetTimerfd(exp) ELSE timerfd
  BY DEF AddTimerInLoop
<1>2. \A e \in timers_ : e[1] \in Time
  OBVIOUS
<1>3. CASE IsFirst(exp)
  <2>1. \A e \in timers_ : exp <= e[1]
    BY <1>2, <1>3 DEF IsFirst, Time
  <2>2. exp <= exp
    BY DEF Time
  <2> QED BY <1>1, <1>2, <1>3, <2>1, <2>2, Arming
<1>4. CASE ~IsFirst(exp)
  <2>1. PICK e \in timers_ : e[1] <= exp
    BY <1>2, <1>4 DEF IsFirst, Time
  <2>2. ArmedFor(timerfd, exp)
    BY <1>2, <2>1, Arming
  <2> QED BY <1>1, <1>4, <2>2
<1> QED BY <1>3, <1>4

LEMMA ArmedNext == TypeOK /\ TypeOK' /\ TimerfdArmed /\ [Next]_vars => TimerfdArmed'
<1> SUFFICES ASSUME TypeOK, TypeOK', TimerfdArmed, [Next]_vars,
                    lpc' = "idle", ~active'
             PROVE  \A e \in timers_' : ArmedFor(timerfd', e[1])
  BY DEF TimerfdArmed, ArmedFor
<1> DEFINE Goal == \A e \in timers_' : ArmedFor(timerfd', e[1])
<1>0. lpc = "idle" /\ ~active => \A e \in timers_ : ArmedFor(timerfd, e[1])
  BY ArmedForAll
<1>1. ASSUME NEW p \in Ptr, NEW d \in Time, NEW i \in Time, AddTimer(p, d, i)
      PROVE  Goal
  <2>1. lpc = "idle" /\ ~active /\ AddTimerInLoop(<<p, NextSeq>>, d)
    BY <1>1 DEF AddTimer
  <2>2. <<p, NextSeq>> \in TimerID
    BY <1>1 DEF AddTimer, NewTimer, TypeOK
  <2> QED BY <1>0, <2>1, <2>2, AddArmed
<1>2. CASE PendingAdd
  <2>1. /\ Head(pending)[2] \in TimerID
        /\ AddTimerInLoop(Head(pending)[2], expir[Head(pending)[2][1]])
    BY <1>2 DEF PendingAdd, TypeOK
  <2>2. expir[Head(pending)[2][1]] \in Time
    BY <2>1, TimerIDs DEF TypeOK
  <2>3. lpc = "idle" /\ ~active
    BY <1>2 DEF PendingAdd
  <2> QED BY <1>0, <2>1, <2>2, <2>3, AddArmed
<1>3. ASSUME timers_' \subseteq timers_, timerfd' = timerfd, lpc = "idle", ~active
      PROVE  Goal
  BY <1>0, <1>3
<1>4. ASSUME NEW p \in Ptr, NEW d \in Time, NEW i \in Time, AddTimerRemote(p, d, i)
      PROVE  Goal
  BY <1>3, <1>4 DEF AddTimerRemote, sets
<1>5. ASSUME NEW id \in ids, RmTimer(id) PROVE Goal
  BY <1>3, <1>5 DEF RmTimer, RmTimerInLoop
<1>6. ASSUME NEW id \in ids, RmTimerRemote(id) PROVE Goal
  BY <1>3, <1>6 DEF RmTimerRemote, sets
<1>7. CASE PendingRm
  BY <1>3, <1>7 DEF PendingRm, RmTimerInLoop
<1>8. CASE PollTimerfd \/ HandleRead \/ \E p \in Ptr : Run(p)
  BY <1>8 DEF PollTimerfd, HandleRead, Run
<1>9. CASE CallbackReturn
  BY <1>9 DEF CallbackReturn
<1>10. CASE Reset
  <2> SUFFICES ASSUME NEW e \in timers_' PROVE ArmedFor(timerfd', e[1])
    OBVIOUS
  <2>1. \E f \in timers_' : /\ timerfd' = resetTimerfd(f[1])
                            /\ \A g \in timers_' : f[1] <= g[1]
    BY <1>10 DEF Reset
  <2>2. \A g \in timers_' : g[1] \in Time
    BY DEF TypeOK
  <2> QED BY <2>1, <2>2, Arming
<1>11. CASE Tick
  <2>1. lpc = "idle" /\ ~active
    BY <1>11 DEF Tick
  <2>2. ASSUME NEW e \in timers_ PROVE ArmedFor(timerfd', Earlier(e[1]))
    <3>1. ArmedFor(timerfd, e[1]) /\ e[1] \in Time
      BY <1>0, <2>1 DEF TypeOK
    <3>2. timerfd \in Time
      BY <3>1 DEF TypeOK, ArmedFor
    <3>3. timerfd' = Earlier(timerfd)
      BY <1>11, <3>1 DEF Tick, ArmedFor
    <3> QED BY <3>1, <3>2, <3>3, Arming
  <2>3. timers_' = {<<Earlier(e[1]), e[2]>> : e \in timers_}
    BY <1>11 DEF Tick
  <2> QED BY <2>2, <2>3
<1>12. CASE UNCHANGED vars
  BY <1>3, <1>12 DEF vars, sets
<1> QED BY <1>1, <1>2, <1>4, <1>5, <1>6, <1>7, <1>8, <1>9, <1>10, <1>11, <1>12
        DEF Next, LoopStep

\* Whatever the callers and the callbacks do, the loop is never left with a
\* timer the timerfd will not fire for in time.
THEOREM TimerQueueTimerfdArmed == Spec => []TimerfdArmed
<1>1. Init => TimerfdArmed
  BY DEF Init, TimerfdArmed
<1> QED BY <1>1, ArmedNext, TimerQueueTypeOK, PTL DEF Spec

\* The two sets agree and no deleted Timer is in use, for any number of
\* addresses and timers.
THEOREM TimerQueueTimersOwned == Spec => []TimersOwned
<1>1. TypeOK /\ SetsAgree /\ NoDanglingTimer => TimersOwned
  BY DEF TimersOwned
<1> QED BY <1>1, TimerQueueTypeOK, TimerQueueSetsAgree, TimerQueueNoDanglingTimer, PTL

=============================================================================
