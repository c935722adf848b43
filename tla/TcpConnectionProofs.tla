------------------------ MODULE TcpConnectionProofs -------------------------
(***************************************************************************)
(* Theorems about TcpConnection, for every set of user threads, high water *)
(* mark and bound: type correctness, what becomes of the output, and the   *)
(* life cycle (the assertions, the destructor's included, and the functors *)
(* that capture only "this").                                              *)
(***************************************************************************)
EXTENDS TcpConnection, SequenceTheorems, TLAPS

-----------------------------------------------------------------------------
(* What the queue holds.                                                   *)

Without(f) == Seq(Functor \ {f})

Has(f, q) == \E i \in 1 .. Len(q) : q[i] = f

\* connEstablished(), and behind it only connDestroyed().
Early(q) == /\ q # <<>>
            /\ Head(q) = "established"
            /\ Tail(q) \in Seq({"destroyed"})

\* connDestroyed() is the last functor in the queue, and is there once.
DestroyedLast(q) ==
  /\ q # <<>>
  /\ \A i \in 1 .. Len(q) : q[i] = "destroyed" <=> i = Len(q)

\* What is left of the queue when the running functor is taken from it.
Rest(q) ==
  /\ q \in Seq(Functor)
  /\ q \in Without("established")
  /\ ioQ \in Without("destroyed") => q \in Without("destroyed")
  /\ DestroyedLast(ioQ) => DestroyedLast(q)
  /\ Has("destroyed", ioQ) => Has("destroyed", q)
  /\ ioQ = <<>> => q = <<>>

-----------------------------------------------------------------------------
(* The inductive invariant.                                                *)

\* Before connEstablished() has run it is queued, nobody has a TcpConnPtr and
\* nothing has happened to the connection.
EarlyInv ==
  /\ ~born => state_ = "Connecting" /\ ioQ = <<>> /\ ~conns_
  /\ state_ = "Connecting" =>
       /\ events = {} /\ idx = "new" /\ outputBuf = 0 /\ ~wrShut /\ ~closed
       /\ ~overlap /\ failed = "no" /\ baseQ = 0
       /\ \A u \in User : upc[u] = None
       /\ born => ownLoop /\ Early(ioQ)

\* connEstablished() is queued once.
OnceInv == state_ # "Connecting" => ioQ \in Without("established")

\* An established connection is open and reads until it is closed.
OpenInv ==
  ~closed /\ state_ # "Connecting" => Open /\ "read" \in events /\ idx = "added"

ShutInv == wrShut /\ ~closed => outputBuf = 0 /\ "write" \notin events

Removed == idx = "new" /\ ~addedToLoop_

\* The phases of a connection that no racing call has disturbed: in use,
\* closed and waiting for the base loop, waiting for connDestroyed(), removed.
InUse == /\ ~closed /\ serverAlive /\ conns_ /\ baseQ = 0
         /\ ioQ \in Without("destroyed")

ToErase == /\ closed /\ ownLoop /\ conns_ /\ baseQ = 1 /\ idx # "new"
           /\ ioQ \in Without("destroyed")

ToDestroy == closed /\ ~conns_ /\ baseQ = 0 /\ idx # "new" /\ DestroyedLast(ioQ)

Finished == /\ closed /\ ~conns_ /\ baseQ = 0 /\ Removed
            /\ ioQ \in Without("destroyed")
            /\ serverAlive => ioQ = <<>>

LifeInv ==
  born /\ ~overlap /\ failed = "no" =>
    /\ closed => state_ = "Disconnected" /\ events = {} /\ idx # "added"
    /\ serverAlive \/ ~ownLoop => InUse \/ ToErase \/ ToDestroy \/ Finished
    /\ ownLoop /\ ~serverAlive => Has("destroyed", ioQ) \/ (closed /\ Removed)

\* The first conjunct of AssertsHold.
FailInv ==
  failed # "no" =>
    \/ overlap
    \/ ownLoop /\ ~serverAlive
    \/ ~ownLoop /\ conns_ /\ state_ = "Disconnecting"

Inv == /\ TypeOK
       /\ EarlyInv /\ OnceInv /\ OpenInv
       /\ OutputRegistered /\ ShutInv
       /\ LifeInv /\ FailInv

-----------------------------------------------------------------------------
(* Taking a functor from the queue and adding one.                         *)

\* A sequence over a set is a sequence over any larger set.
LEMMA SeqMono ==
  ASSUME NEW S, NEW T, S \subseteq T, NEW s \in Seq(S)
  PROVE  s \in Seq(T)
  OBVIOUS

\* The empty queue lacks every functor.
LEMMA EmptyQueue == \A f : <<>> \in Without(f)
  BY EmptySeq DEF Without

\* Taking the first functor keeps what is known of the queue: its type, the
\* functors it lacks, and that connDestroyed() is last in it, once.
LEMMA Pop ==
  ASSUME NEW q \in Seq(Functor), q # <<>>
  PROVE  /\ Tail(q) \in Seq(Functor)
         /\ \A f : q \in Without(f) => Tail(q) \in Without(f) /\ Head(q) # f
         /\ Head(q) # "destroyed" =>
              /\ DestroyedLast(q) => DestroyedLast(Tail(q))
              /\ Has("destroyed", q) => Has("destroyed", Tail(q))
         /\ Head(q) = "destroyed" /\ DestroyedLast(q) => Tail(q) = <<>>
<1>1. /\ Tail(q) \in Seq(Functor)
      /\ Len(q) \in Nat \ {0}
      /\ Len(Tail(q)) = Len(q) - 1
      /\ Head(q) = q[1]
      /\ \A i \in 1 .. Len(q) - 1 : Tail(q)[i] = q[i + 1]
  OBVIOUS
<1>2. ASSUME NEW f, q \in Without(f)
      PROVE  Tail(q) \in Without(f) /\ Head(q) # f
  BY <1>2 DEF Without
<1>3. ASSUME Head(q) # "destroyed", DestroyedLast(q)
      PROVE  DestroyedLast(Tail(q))
  <2>1. 1 \in 1 .. Len(q)
    BY <1>1
  <2>2. Len(q) # 1
    BY <1>1, <1>3, <2>1 DEF DestroyedLast
  <2>t. Tail(q) # <<>>
    BY <1>1, <2>2
  <2>3. ASSUME NEW i \in 1 .. Len(Tail(q))
        PROVE  Tail(q)[i] = "destroyed" <=> i = Len(Tail(q))
    <3>1. i + 1 \in 1 .. Len(q) /\ Tail(q)[i] = q[i + 1]
      BY <1>1
    <3>2. q[i + 1] = "destroyed" <=> i + 1 = Len(q)
      BY <1>3, <3>1 DEF DestroyedLast
    <3>3. i + 1 = Len(q) <=> i = Len(Tail(q))
      BY <1>1
    <3> QED  BY <3>1, <3>2, <3>3
  <2> QED  BY <2>t, <2>3 DEF DestroyedLast
<1>4. ASSUME Head(q) # "destroyed", Has("destroyed", q)
      PROVE  Has("destroyed", Tail(q))
  <2>1. PICK i \in 1 .. Len(q) : q[i] = "destroyed"
    BY <1>4 DEF Has
  <2>2. i # 1
    BY <1>1, <1>4, <2>1
  <2>3. i - 1 \in 1 .. Len(Tail(q)) /\ Tail(q)[i - 1] = q[i]
    BY <1>1, <2>2
  <2> QED  BY <2>1, <2>3 DEF Has
<1>5. ASSUME Head(q) = "destroyed", DestroyedLast(q)
      PROVE  Tail(q) = <<>>
  <2>1. 1 \in 1 .. Len(q)
    BY <1>1
  <2>2. Len(q) = 1
    BY <1>1, <1>5, <2>1 DEF DestroyedLast
  <2>3. Len(Tail(q)) = 0
    BY <1>1, <2>2
  <2> QED  BY <1>1, <2>3, EmptySeq
<1> QED  BY <1>1, <1>2, <1>3, <1>4, <1>5

\* Appending a functor adds that functor and no other, and connDestroyed(),
\* appended to a queue without it, is last in it, once.
LEMMA Push ==
  ASSUME NEW q \in Seq(Functor), NEW f \in Functor
  PROVE  /\ Append(q, f) \in Seq(Functor)
         /\ \A g : g # f /\ q \in Without(g) => Append(q, f) \in Without(g)
         /\ Has("destroyed", q) => Has("destroyed", Append(q, f))
         /\ f = "destroyed" => Has("destroyed", Append(q, f))
         /\ f = "destroyed" /\ q \in Without(f) => DestroyedLast(Append(q, f))
<1>1. /\ Append(q, f) \in Seq(Functor)
      /\ Len(q) \in Nat
      /\ Len(Append(q, f)) = Len(q) + 1
      /\ \A i \in 1 .. Len(q) : Append(q, f)[i] = q[i]
      /\ Append(q, f)[Len(q) + 1] = f
  OBVIOUS
<1>2. ASSUME NEW g, g # f, q \in Without(g)
      PROVE  Append(q, f) \in Without(g)
  BY <1>2 DEF Without
<1>3. Has("destroyed", q) => Has("destroyed", Append(q, f))
  <2>1. ASSUME NEW i \in 1 .. Len(q)
        PROVE  i \in 1 .. Len(Append(q, f)) /\ Append(q, f)[i] = q[i]
    BY <1>1
  <2> QED  BY <2>1 DEF Has
<1>4. f = "destroyed" => Has("destroyed", Append(q, f))
  <2>1. Len(q) + 1 \in 1 .. Len(Append(q, f))
    BY <1>1
  <2> QED  BY <1>1, <2>1 DEF Has
<1>5. ASSUME f = "destroyed", q \in Without(f)
      PROVE  DestroyedLast(Append(q, f))
  <2>1. \A i \in 1 .. Len(q) : q[i] # f
    BY <1>5 DEF Without
  <2>2. Append(q, f) # <<>>
    BY <1>1, EmptySeq
  <2>3. ASSUME NEW i \in 1 .. Len(Append(q, f))
        PROVE  Append(q, f)[i] = "destroyed" <=> i = Len(Append(q, f))
    BY <1>1, <1>5, <2>1
  <2> QED  BY <2>2, <2>3 DEF DestroyedLast
<1> QED  BY <1>1, <1>2, <1>3, <1>4, <1>5

\* A queue whose last functor is connDestroyed() contains it.
LEMMA LastIsIn ==
  ASSUME NEW q \in Seq(Functor), DestroyedLast(q)
  PROVE  Has("destroyed", q)
<1>1. Len(q) \in 1 .. Len(q)
  BY DEF DestroyedLast
<1> QED  BY <1>1 DEF DestroyedLast, Has

\* What the queue holds before connEstablished() has run.
LEMMA EarlyQueue ==
  /\ Early(Append(<<>>, "established"))
  /\ \A q \in Seq(Functor) : Early(q) =>
       /\ Early(Append(q, "destroyed"))
       /\ Tail(q) \in Without("established")
<1>1. Early(Append(<<>>, "established"))
  BY EmptySeq DEF Early
<1>2. ASSUME NEW q \in Seq(Functor), Early(q)
      PROVE  Early(Append(q, "destroyed"))
  <2>1. /\ Append(q, "destroyed") # <<>>
        /\ Head(Append(q, "destroyed")) = Head(q)
        /\ Tail(Append(q, "destroyed")) = Append(Tail(q), "destroyed")
    BY <1>2 DEF Early
  <2> QED  BY <1>2, <2>1 DEF Early
<1>3. ASSUME NEW q \in Seq(Functor), Early(q)
      PROVE  Tail(q) \in Without("established")
  <2>1. {"destroyed"} \subseteq Functor \ {"established"}
    BY DEF Functor, Holding
  <2> QED  BY <1>3, <2>1, SeqMono DEF Early, Without
<1> QED  BY <1>1, <1>2, <1>3

-----------------------------------------------------------------------------
(* Every step keeps the invariant.                                         *)

\* A failed assertion, where one may fail, keeps the invariant.
LEMMA KeepsAbort ==
  ASSUME Inv, born, state_ # "Connecting",
         NEW name \in {"closed", "server", "erased", "isNoneEvent", "registered"},
         NEW q \in Without("established"), q \in Seq(Functor),
         \/ overlap
         \/ ownLoop /\ ~serverAlive
         \/ ~ownLoop /\ conns_ /\ state_ = "Disconnecting",
         Abort(name, q)
  PROVE  Inv'
<1>1. TypeOK'
  BY DEF Inv, TypeOK, Abort, channel, socket, server
<1>2. (EarlyInv /\ OnceInv /\ OpenInv)'
  BY DEF Inv, EarlyInv, OnceInv, OpenInv, Open, Abort, channel
<1>3. (OutputRegistered /\ ShutInv)'
  BY DEF Inv, OutputRegistered, ShutInv, Abort, channel, socket
<1>4. LifeInv'
  BY DEF Inv, LifeInv, InUse, ToDestroy, Abort
<1>5. FailInv'
  BY DEF Inv, FailInv, Abort, server
<1> QED  BY <1>1, <1>2, <1>3, <1>4, <1>5 DEF Inv

\* TcpServer::newConn() keeps the invariant.
LEMMA KeepsNewConn ==
  ASSUME Inv, NewConn
  PROVE  Inv'
<1>a. "established" \in Functor /\ ioQ = <<>>
  BY DEF Inv, EarlyInv, NewConn, Functor, Holding
<1>q. /\ Append(<<>>, "established") \in Seq(Functor)
      /\ Append(<<>>, "established") \in Without("destroyed")
  BY <1>a, Push, EmptyQueue, EmptySeq
<1>e. Early(Append(<<>>, "established")) /\ \A f : <<>> \in Without(f)
  BY EarlyQueue, EmptyQueue
<1>1. TypeOK'
  <2>1. ioQ' \in Seq(Functor)
    BY <1>a, <1>q DEF Inv, TypeOK, NewConn
  <2>2. /\ state_' \in {"Disconnected", "Connecting", "Connected", "Disconnecting"}
        /\ events' \subseteq {"read", "write"}
        /\ idx' \in {"new", "added", "deleted"}
        /\ addedToLoop_' \in BOOLEAN
    BY DEF Inv, TypeOK, NewConn, channel, update
  <2>3. born' \in BOOLEAN /\ conns_' \in BOOLEAN
    BY DEF NewConn
  <2>4. UNCHANGED <<ownLoop, socket, serverAlive, baseQ, upc, failed, closed,
                    overlap>>
    BY DEF NewConn
  <2> QED  BY <2>1, <2>2, <2>3, <2>4 DEF Inv, TypeOK, socket
<1>2. (EarlyInv /\ OnceInv /\ OpenInv)'
  BY <1>a, <1>q, <1>e DEF Inv, EarlyInv, OnceInv, OpenInv, Open, channel,
       socket, NewConn, update
<1>3. (OutputRegistered /\ ShutInv)'
  BY <1>a, <1>q, <1>e DEF Inv, EarlyInv, OutputRegistered, ShutInv, channel,
       socket, NewConn, update
<1>4. LifeInv'
  BY <1>a, <1>q, <1>e DEF Inv, EarlyInv, LifeInv, InUse, ToDestroy, NewConn
<1>5. FailInv'
  BY <1>a, <1>q, <1>e DEF Inv, EarlyInv, FailInv, NewConn
<1> QED  BY <1>1, <1>2, <1>3, <1>4, <1>5 DEF Inv

\* handleClose() keeps the invariant.
LEMMA KeepsHandleClose ==
  ASSUME Inv, Running, state_ # "Connecting", Open \/ idx = "added",
         NEW q, Rest(q), handleClose(q)
  PROVE  Inv'
<1>1. CASE Abort(CloseFailure, q)
  <2>1. CloseFailure \in {"closed", "server", "erased", "isNoneEvent", "registered"}
    BY <1>1 DEF Abort, CloseFailure
  <2>2. overlap \/ (ownLoop /\ ~serverAlive)
    BY <1>1 DEF Abort, CloseFailure, Inv, OpenInv, Open, LifeInv, InUse,
         ToErase, ToDestroy, Finished, Running
  <2> QED  BY <1>1, <2>1, <2>2, KeepsAbort DEF Running, Rest
<1>2. CASE CloseFailure = "no" /\ ~Abort(CloseFailure, q)
  <2>a. Rest(q) /\ "destroyed" \in Functor
    BY DEF Functor, Holding
  <2>q. /\ Append(q, "destroyed") \in Seq(Functor)
        /\ Append(q, "destroyed") \in Without("established")
        /\ ioQ \in Without("destroyed") => DestroyedLast(Append(q, "destroyed"))
    BY <2>a, Push DEF Rest
  <2>h. /\ Open /\ serverAlive /\ (ownLoop \/ conns_)
        /\ state_' = "Disconnected" /\ closed' = TRUE
        /\ update({}) /\ rmConn(q)
        /\ UNCHANGED <<ownLoop, born, socket, upc, failed, overlap>>
    BY <1>2 DEF handleClose, CloseFailure
  <2>1. TypeOK'
    <3>a. ioQ' \in Seq(Functor)
      BY <2>q, <2>h DEF rmConn, Rest
    <3>b. baseQ' \in Nat
      BY <2>h DEF Inv, TypeOK, rmConn
    <3>c. conns_' \in BOOLEAN
      BY <2>h DEF Inv, TypeOK, rmConn
    <3>1. ioQ' \in Seq(Functor) /\ baseQ' \in Nat /\ conns_' \in BOOLEAN
      BY <3>a, <3>b, <3>c
    <3>2. /\ events' = {} /\ idx' \in {"new", "added", "deleted"}
          /\ addedToLoop_' \in BOOLEAN
      BY <2>h DEF update
    <3> QED  BY <2>h, <3>1, <3>2 DEF Inv, TypeOK, rmConn, socket
  <2>2. (EarlyInv /\ OnceInv /\ OpenInv)'
    BY <2>q, <2>h DEF Inv, EarlyInv, OnceInv, OpenInv, rmConn, Rest
  <2>3. (OutputRegistered /\ ShutInv)'
    BY <2>q, <2>h DEF Inv, OutputRegistered, ShutInv, update
  <2>4. LifeInv'
    <3> SUFFICES ASSUME ~overlap
                 PROVE  LifeInv'
      BY <2>h DEF LifeInv
    <3>1. InUse /\ idx = "added"
      BY <2>h DEF Inv, OpenInv, Open, LifeInv, InUse, ToErase, ToDestroy,
           Finished, Running
    <3>2. state_' = "Disconnected" /\ closed' /\ events' = {} /\ idx' = "deleted" /\ serverAlive'
      BY <2>h, <3>1 DEF update, rmConn
    <3>3. CASE ownLoop
      <4>1. baseQ' = 1 /\ conns_' /\ ioQ' \in Without("destroyed")
        BY <2>h, <3>1, <3>3 DEF rmConn, InUse, Rest
      <4>2. ToErase'
        BY <2>h, <3>2, <3>3, <4>1 DEF ToErase
      <4> QED  BY <3>2, <4>2 DEF LifeInv
    <3>4. CASE ~ownLoop
      <4>1. baseQ' = 0 /\ ~conns_' /\ DestroyedLast(ioQ')
        BY <2>q, <2>h, <3>1, <3>4 DEF rmConn, InUse
      <4>2. ToDestroy'
        BY <2>h, <3>2, <4>1 DEF ToDestroy
      <4> QED  BY <3>2, <4>2 DEF LifeInv
    <3> QED  BY <3>3, <3>4
  <2>5. FailInv'
    BY <2>q, <2>h DEF Inv, FailInv, Running
  <2> QED  BY <2>1, <2>2, <2>3, <2>4, <2>5 DEF Inv
<1> QED  BY <1>1, <1>2 DEF handleClose, Abort

\* The event that calls handleClose() keeps the invariant.
LEMMA KeepsHandleCloseEvent ==
  ASSUME Inv, HandleCloseEvent
  PROVE  Inv'
<1>1. state_ # "Connecting"
  BY DEF Inv, EarlyInv, HandleCloseEvent
<1>2. Rest(ioQ)
  BY <1>1 DEF Inv, TypeOK, OnceInv, Rest
<1> QED  BY <1>1, <1>2, KeepsHandleClose DEF HandleCloseEvent

\* TcpServer::rmConnInLoop() keeps the invariant.
LEMMA KeepsRmConnInLoop ==
  ASSUME Inv, RmConnInLoop
  PROVE  Inv'
<1>s. state_ # "Connecting" /\ born
  BY DEF Inv, TypeOK, EarlyInv, RmConnInLoop
<1>1. CASE Abort(EraseFailure, ioQ)
  <2>1. EraseFailure \in {"closed", "server", "erased", "isNoneEvent", "registered"}
    BY <1>1 DEF Abort, EraseFailure
  <2>2. overlap \/ (ownLoop /\ ~serverAlive)
    BY <1>1, <1>s DEF Abort, EraseFailure, Inv, LifeInv, InUse, ToErase,
         ToDestroy, Finished, RmConnInLoop
  <2> QED  BY <1>s, <1>1, <2>1, <2>2, KeepsAbort DEF Inv, TypeOK, OnceInv
<1>2. CASE EraseFailure = "no"
  <2>a. ioQ \in Seq(Functor) /\ ioQ \in Without("established") /\ "destroyed" \in Functor
    BY <1>s DEF Inv, TypeOK, OnceInv, Functor, Holding
  <2>q. /\ Append(ioQ, "destroyed") \in Seq(Functor)
        /\ Append(ioQ, "destroyed") \in Without("established")
        /\ ioQ \in Without("destroyed") => DestroyedLast(Append(ioQ, "destroyed"))
    BY <2>a, Push
  <2>h. /\ serverAlive /\ conns_ /\ baseQ > 0 /\ failed = "no"
        /\ baseQ' = baseQ - 1 /\ conns_' = FALSE
        /\ ioQ' = Append(ioQ, "destroyed")
        /\ UNCHANGED <<ownLoop, born, state_, channel, socket, serverAlive,
                       upc, failed, closed, overlap>>
    BY <1>2 DEF RmConnInLoop, EraseFailure, Abort
  <2>1. TypeOK'
    <3>1. baseQ' \in Nat
      BY <2>h DEF Inv, TypeOK
    <3> QED  BY <2>q, <2>h, <3>1 DEF Inv, TypeOK, channel, socket
  <2>2. (EarlyInv /\ OnceInv /\ OpenInv)'
    BY <1>s, <2>q, <2>h DEF Inv, EarlyInv, OnceInv, OpenInv, Open, channel
  <2>3. (OutputRegistered /\ ShutInv)'
    BY <1>s, <2>q, <2>h DEF Inv, OutputRegistered, ShutInv, channel, socket
  <2>4. LifeInv'
    BY <1>s, <2>q, <2>h DEF Inv, LifeInv, InUse, ToErase, ToDestroy, Finished,
         channel
  <2>5. FailInv'
    BY <1>s, <2>q, <2>h DEF Inv, FailInv
  <2> QED  BY <2>1, <2>2, <2>3, <2>4, <2>5 DEF Inv
<1> QED  BY <1>1, <1>2 DEF RmConnInLoop

\* handleWrite() keeps the invariant.
LEMMA KeepsHandleWrite ==
  ASSUME Inv, HandleWrite
  PROVE  Inv'
<1>a. ioQ \in Seq(Functor) /\ "writeComplete" \in Functor
  BY DEF Inv, TypeOK, Functor, RawThis, Holding
<1>q. /\ Append(ioQ, "writeComplete") \in Seq(Functor)
      /\ ioQ \in Without("established") => Append(ioQ, "writeComplete") \in Without("established")
      /\ ioQ \in Without("destroyed") => Append(ioQ, "writeComplete") \in Without("destroyed")
      /\ Has("destroyed", ioQ) => Has("destroyed", Append(ioQ, "writeComplete"))
  BY <1>a, Push
<1>1. TypeOK'
  <2>1. PICK left \in Left :
          /\ outputBuf' = left
          /\ IF left = 0
             THEN /\ update(events \ {"write"})
                  /\ ioQ' = Append(ioQ, "writeComplete")
                  /\ Drained
             ELSE UNCHANGED <<channel, ioQ, wrShut>>
    BY DEF HandleWrite
  <2>2. outputBuf' \in Nat
    BY <2>1 DEF Left, Inv, TypeOK
  <2>3. /\ events' \subseteq {"read", "write"} /\ idx' \in {"new", "added", "deleted"}
        /\ addedToLoop_' \in BOOLEAN
    BY <2>1 DEF update, channel, Inv, TypeOK
  <2>4. ioQ' \in Seq(Functor) /\ wrShut' \in BOOLEAN
    BY <1>q, <2>1 DEF Drained, shutdownInLoop, Inv, TypeOK
  <2> QED  BY <2>2, <2>3, <2>4 DEF HandleWrite, Inv, TypeOK, server
<1>2. (EarlyInv /\ OnceInv /\ OpenInv)'
  <2>1. state_ # "Connecting" /\ state_' = state_ /\ closed' = closed
    BY DEF HandleWrite, Inv, EarlyInv
  <2>2. EarlyInv'
    BY <2>1 DEF HandleWrite, Inv, EarlyInv
  <2>3. OnceInv'
    BY <1>q, <2>1 DEF HandleWrite, Inv, OnceInv
  <2>4. OpenInv'
    BY <2>1 DEF HandleWrite, Inv, OpenInv, Open, update, channel
  <2> QED  BY <2>2, <2>3, <2>4
<1>3. (OutputRegistered /\ ShutInv)'
  BY <1>q DEF Inv, OutputRegistered, ShutInv, channel, HandleWrite, Left,
       update
<1>4. LifeInv'
  BY <1>q DEF Inv, LifeInv, InUse, ToErase, ToDestroy, Finished, server,
       HandleWrite
<1>5. FailInv'
  BY <1>q DEF Inv, FailInv, HandleWrite, Running
<1> QED  BY <1>1, <1>2, <1>3, <1>4, <1>5 DEF Inv

\* A peer that closes keeps the invariant.
LEMMA KeepsPeerCloses ==
  ASSUME Inv, PeerCloses
  PROVE  Inv'
<1>1. TypeOK'
  BY DEF Inv, TypeOK, channel, server, PeerCloses
<1>2. (EarlyInv /\ OnceInv /\ OpenInv)'
  BY DEF Inv, EarlyInv, OnceInv, OpenInv, Open, channel, server, PeerCloses
<1>3. (OutputRegistered /\ ShutInv)'
  BY DEF Inv, OutputRegistered, ShutInv, channel, PeerCloses
<1>4. LifeInv'
  BY DEF Inv, LifeInv, InUse, ToErase, ToDestroy, Finished, Removed, channel,
       server, PeerCloses
<1>5. FailInv'
  BY DEF Inv, FailInv, server, PeerCloses
<1> QED  BY <1>1, <1>2, <1>3, <1>4, <1>5 DEF Inv

\* sendInLoop(), with its three outcomes of write(), keeps the invariant.
LEMMA KeepsSendInLoop ==
  ASSUME Inv, Running, state_ # "Connecting", NEW q, Rest(q), sendInLoop(q)
  PROVE  Inv'
<1>a. "writeComplete" \in Functor /\ "highWater" \in Functor
  BY DEF Functor, RawThis, Holding
<1>q. \A f \in {"writeComplete", "highWater"} :
        /\ Append(q, f) \in Seq(Functor)
        /\ Append(q, f) \in Without("established")
        /\ q \in Without("destroyed") => Append(q, f) \in Without("destroyed")
        /\ Has("destroyed", q) => Has("destroyed", Append(q, f))
  BY <1>a, Push DEF Rest
<1>1. CASE ioQ' = q /\ UNCHANGED <<outputBuf, channel>>
  <2>1. TypeOK'
    BY <1>1 DEF Inv, TypeOK, channel, server, Rest, sendInLoop
  <2>2. (EarlyInv /\ OnceInv /\ OpenInv)'
    BY <1>1 DEF Inv, EarlyInv, OnceInv, OpenInv, Open, channel, Rest,
         sendInLoop
  <2>3. (OutputRegistered /\ ShutInv)'
    BY <1>1 DEF Inv, OutputRegistered, ShutInv, channel, sendInLoop
  <2>4. LifeInv'
    BY <1>1 DEF Inv, LifeInv, InUse, ToErase, ToDestroy, Finished, Removed,
         channel, server, Rest, sendInLoop
  <2>5. FailInv'
    BY <1>1 DEF Inv, FailInv, sendInLoop, Running
  <2> QED  BY <2>1, <2>2, <2>3, <2>4, <2>5 DEF Inv
<1>2. CASE state_ # "Disconnected" /\ ioQ' = Append(q, "writeComplete") /\ UNCHANGED <<outputBuf, channel>>
  <2>1. TypeOK'
    BY <1>2, <1>q DEF Inv, TypeOK, channel, server, sendInLoop
  <2>2. (EarlyInv /\ OnceInv /\ OpenInv)'
    BY <1>2, <1>q DEF Inv, EarlyInv, OnceInv, OpenInv, Open, channel,
         sendInLoop
  <2>3. (OutputRegistered /\ ShutInv)'
    BY <1>2, <1>q DEF Inv, OutputRegistered, ShutInv, channel, sendInLoop
  <2>4. LifeInv'
    BY <1>2, <1>q DEF Inv, LifeInv, InUse, ToErase, ToDestroy, Finished,
         server, Rest, sendInLoop
  <2>5. FailInv'
    BY <1>2, <1>q DEF Inv, FailInv, sendInLoop, Running
  <2> QED  BY <2>1, <2>2, <2>3, <2>4, <2>5 DEF Inv
<1>3. CASE state_ # "Disconnected" /\ (wrShut => outputBuf > 0 \/ "write" \in events) /\ Keep(q)
  <2>1. TypeOK'
    <3>1. outputBuf' \in Nat /\ ioQ' \in Seq(Functor)
      BY <1>3, <1>q DEF Keep, Rest, Inv, TypeOK
    <3>2. /\ events' \subseteq {"read", "write"} /\ idx' \in {"new", "added", "deleted"}
          /\ addedToLoop_' \in BOOLEAN
      BY <1>3 DEF Keep, update, channel, Inv, TypeOK
    <3> QED  BY <3>1, <3>2 DEF sendInLoop, Inv, TypeOK, server
  <2>2. (EarlyInv /\ OnceInv /\ OpenInv)'
    BY <1>3, <1>q DEF Inv, EarlyInv, OnceInv, OpenInv, Open, channel, Rest,
         sendInLoop, Keep, update
  <2>3. (OutputRegistered /\ ShutInv)'
    BY <1>3, <1>q DEF Inv, TypeOK, OutputRegistered, ShutInv, channel,
         sendInLoop, Keep, update
  <2>4. LifeInv'
    BY <1>3, <1>q DEF Inv, LifeInv, InUse, ToErase, ToDestroy, Finished,
         server, Rest, sendInLoop, Keep
  <2>5. FailInv'
    BY <1>3, <1>q DEF Inv, FailInv, sendInLoop, Keep, Running
  <2> QED  BY <2>1, <2>2, <2>3, <2>4, <2>5 DEF Inv
<1> QED  BY <1>1, <1>2, <1>3 DEF sendInLoop, Written

\* send() on the loop thread keeps the invariant.
LEMMA KeepsLoopSend ==
  ASSUME Inv, LoopSend
  PROVE  Inv'
<1>1. Running /\ state_ # "Connecting" /\ sendInLoop(ioQ)
  BY DEF LoopSend, MayCall
<1>2. Rest(ioQ)
  BY <1>1 DEF Inv, TypeOK, OnceInv, Rest
<1> QED  BY <1>1, <1>2, KeepsSendInLoop

\* shutdown() on the loop thread keeps the invariant.
LEMMA KeepsLoopShutdown ==
  ASSUME Inv, LoopShutdown
  PROVE  Inv'
<1>1. TypeOK'
  BY DEF Inv, TypeOK, channel, server, LoopShutdown, shutdownInLoop
<1>2. (EarlyInv /\ OnceInv /\ OpenInv)'
  BY DEF Inv, EarlyInv, OnceInv, OpenInv, Open, channel, LoopShutdown
<1>3. (OutputRegistered /\ ShutInv)'
  BY DEF Inv, TypeOK, OpenInv, OutputRegistered, ShutInv, channel,
       LoopShutdown, shutdownInLoop
<1>4. LifeInv'
  BY DEF Inv, LifeInv, InUse, ToErase, ToDestroy, Finished, server,
       LoopShutdown
<1>5. FailInv'
  BY DEF Inv, FailInv, LoopShutdown, MayCall, Running
<1> QED  BY <1>1, <1>2, <1>3, <1>4, <1>5 DEF Inv

\* forceClose() on the loop thread keeps the invariant.
LEMMA KeepsLoopForceClose ==
  ASSUME Inv, LoopForceClose
  PROVE  Inv'
<1>a. ioQ \in Seq(Functor) /\ "forceClose" \in Functor
  BY DEF Inv, TypeOK, Functor, RawThis, Holding
<1>q. /\ Append(ioQ, "forceClose") \in Seq(Functor)
      /\ ioQ \in Without("established") => Append(ioQ, "forceClose") \in Without("established")
      /\ ioQ \in Without("destroyed") => Append(ioQ, "forceClose") \in Without("destroyed")
      /\ Has("destroyed", ioQ) => Has("destroyed", Append(ioQ, "forceClose"))
  BY <1>a, Push
<1>1. TypeOK'
  BY <1>q DEF Inv, TypeOK, channel, socket, server, LoopForceClose
<1>2. (EarlyInv /\ OnceInv /\ OpenInv)'
  BY <1>q DEF Inv, EarlyInv, OnceInv, OpenInv, Open, channel, LoopForceClose
<1>3. (OutputRegistered /\ ShutInv)'
  BY <1>q DEF Inv, OutputRegistered, ShutInv, channel, socket, LoopForceClose
<1>4. LifeInv'
  BY <1>q DEF Inv, Open, LifeInv, InUse, ToErase, ToDestroy, Finished, server,
       LoopForceClose
<1>5. FailInv'
  BY <1>q DEF Inv, FailInv, LoopForceClose, MayCall, Running
<1> QED  BY <1>1, <1>2, <1>3, <1>4, <1>5 DEF Inv

\* A user thread that takes a TcpConnPtr keeps the invariant.
LEMMA KeepsAcquire ==
  ASSUME Inv, NEW u \in User, Acquire(u)
  PROVE  Inv'
<1>1. TypeOK'
  BY DEF Inv, TypeOK, channel, socket, server, Acquire
<1>2. (EarlyInv /\ OnceInv /\ OpenInv)'
  BY DEF Inv, EarlyInv, OnceInv, OpenInv, Open, channel, Acquire
<1>3. (OutputRegistered /\ ShutInv)'
  BY DEF Inv, OutputRegistered, ShutInv, channel, socket, Acquire
<1>4. LifeInv'
  BY DEF Inv, LifeInv, InUse, ToErase, ToDestroy, Finished, server, Acquire
<1>5. FailInv'
  BY DEF Inv, FailInv, Acquire, Running
<1> QED  BY <1>1, <1>2, <1>3, <1>4, <1>5 DEF Inv

\* A user thread that drops its TcpConnPtr keeps the invariant.
LEMMA KeepsRelease ==
  ASSUME Inv, NEW u \in User, Release(u)
  PROVE  Inv'
<1>1. TypeOK'
  BY DEF Inv, TypeOK, channel, socket, server, Release
<1>2. (EarlyInv /\ OnceInv /\ OpenInv)'
  BY DEF Inv, EarlyInv, OnceInv, OpenInv, Open, channel, Release, None, Hold
<1>3. (OutputRegistered /\ ShutInv)'
  BY DEF Inv, OutputRegistered, ShutInv, channel, socket, Release
<1>4. LifeInv'
  BY DEF Inv, LifeInv, InUse, ToErase, ToDestroy, Finished, Removed, channel,
       server, Release
<1>5. FailInv'
  BY DEF Inv, FailInv, Release, Running
<1> QED  BY <1>1, <1>2, <1>3, <1>4, <1>5 DEF Inv

\* The test of state_ by a call on a user thread keeps the invariant.
LEMMA KeepsCall ==
  ASSUME Inv, NEW u \in User, NEW op \in Op, Call(u, op)
  PROVE  Inv'
<1>1. TypeOK'
  BY DEF Inv, TypeOK, channel, socket, server, Call
<1>2. (EarlyInv /\ OnceInv /\ OpenInv)'
  BY DEF Inv, EarlyInv, OnceInv, OpenInv, Open, channel, Call
<1>3. (OutputRegistered /\ ShutInv)'
  BY DEF Inv, OutputRegistered, ShutInv, channel, socket, Call
<1>4. LifeInv'
  BY DEF Inv, LifeInv, InUse, ToErase, ToDestroy, Finished, Removed, channel,
       server, Call
<1>5. FailInv'
  BY DEF Inv, FailInv, Call, MayCall, Running
<1> QED  BY <1>1, <1>2, <1>3, <1>4, <1>5 DEF Inv

\* The assignment of state_ by a call on a user thread keeps the invariant.
LEMMA KeepsSetState ==
  ASSUME Inv, NEW u \in User, NEW op \in Op, SetState(u, op)
  PROVE  Inv'
<1>1. TypeOK'
  BY DEF Inv, TypeOK, channel, socket, server, SetState
<1>2. (EarlyInv /\ OnceInv /\ OpenInv)'
  BY DEF Inv, EarlyInv, OnceInv, OpenInv, Open, channel, SetState, None
<1>3. (OutputRegistered /\ ShutInv)'
  BY DEF Inv, OutputRegistered, ShutInv, channel, socket, SetState
<1>4. LifeInv'
  BY DEF Inv, LifeInv, InUse, ToErase, ToDestroy, Finished, server, SetState
<1>5. FailInv'
  BY DEF Inv, FailInv, SetState, Running
<1> QED  BY <1>1, <1>2, <1>3, <1>4, <1>5 DEF Inv

\* The functor a call on a user thread queues keeps the invariant.
LEMMA KeepsQueue ==
  ASSUME Inv, NEW u \in User, NEW op \in Op, Queue(u, op)
  PROVE  Inv'
<1>a. ioQ \in Seq(Functor) /\ op \in Functor /\ op \notin {"established", "destroyed"}
  BY DEF Inv, TypeOK, Op, Functor, RawThis, Holding
<1>q. /\ Append(ioQ, op) \in Seq(Functor)
      /\ \A g : g # op /\ ioQ \in Without(g) => Append(ioQ, op) \in Without(g)
      /\ Has("destroyed", ioQ) => Has("destroyed", Append(ioQ, op))
  BY <1>a, Push
<1>1. TypeOK'
  BY <1>a, <1>q DEF Inv, TypeOK, channel, socket, server, Queue
<1>2. (EarlyInv /\ OnceInv /\ OpenInv)'
  BY <1>a, <1>q DEF Inv, EarlyInv, OnceInv, OpenInv, Open, channel, Queue,
       None
<1>3. (OutputRegistered /\ ShutInv)'
  BY <1>a, <1>q DEF Inv, OutputRegistered, ShutInv, channel, socket, Queue
<1>4. LifeInv'
  BY <1>a, <1>q DEF Inv, LifeInv, InUse, ToErase, ToDestroy, Finished, server,
       Queue
<1>5. FailInv'
  BY <1>a, <1>q DEF Inv, FailInv, Queue, Running
<1> QED  BY <1>1, <1>2, <1>3, <1>4, <1>5 DEF Inv

\* ~TcpServer() keeps the invariant.
LEMMA KeepsServerDtor ==
  ASSUME Inv, ServerDtor
  PROVE  Inv'
<1>1. CASE conns_ /\ ~ownLoop /\ Abort(DestroyFailure, ioQ)
  <2>s. state_ # "Connecting" /\ born
    BY <1>1 DEF Inv, EarlyInv
  <2>1. DestroyFailure \in {"closed", "server", "erased", "isNoneEvent", "registered"}
    BY <1>1 DEF Abort, DestroyFailure
  <2>2. overlap \/ (~ownLoop /\ conns_ /\ state_ = "Disconnecting")
    BY <1>1, <2>s DEF Abort, DestroyFailure, Inv, OpenInv, Open, LifeInv,
         InUse, ToErase, ToDestroy, Finished, ServerDtor
  <2> QED  BY <1>1, <2>s, <2>1, <2>2, KeepsAbort DEF Inv, TypeOK, OnceInv
<1>2. CASE conns_ /\ ~ownLoop /\ connDestroyed /\ ioQ' = ioQ /\ ~Abort(DestroyFailure, ioQ)
  <2>s. state_ # "Connecting" /\ born
    BY <1>2 DEF Inv, EarlyInv
  <2>h. /\ failed = "no" /\ serverAlive /\ serverAlive' = FALSE /\ conns_' = FALSE
        /\ UNCHANGED <<ownLoop, born, socket, baseQ, upc, failed, overlap>>
    BY <1>2 DEF ServerDtor
  <2>1. TypeOK'
    BY <1>2, <2>s, <2>h DEF Inv, TypeOK, socket, connDestroyed
  <2>2. (EarlyInv /\ OnceInv /\ OpenInv)'
    BY <1>2, <2>s, <2>h DEF Inv, EarlyInv, OnceInv, OpenInv, connDestroyed
  <2>3. (OutputRegistered /\ ShutInv)'
    BY <1>2, <2>s, <2>h DEF Inv, OutputRegistered, ShutInv, connDestroyed
  <2>4. LifeInv'
    BY <1>2, <2>s, <2>h DEF Inv, OpenInv, LifeInv, InUse, ToErase, ToDestroy,
         Finished, Removed, connDestroyed, DestroyFailure
  <2>5. FailInv'
    BY <1>2, <2>s, <2>h DEF Inv, FailInv, connDestroyed
  <2> QED  BY <2>1, <2>2, <2>3, <2>4, <2>5 DEF Inv
<1>3. CASE ~conns_ \/ ownLoop
  <2>a. ioQ \in Seq(Functor) /\ "destroyed" \in Functor
    BY DEF Inv, TypeOK, Functor, Holding
  <2>q. /\ Append(ioQ, "destroyed") \in Seq(Functor)
        /\ ioQ \in Without("established") => Append(ioQ, "destroyed") \in Without("established")
        /\ Has("destroyed", Append(ioQ, "destroyed"))
        /\ Early(ioQ) => Early(Append(ioQ, "destroyed"))
    BY <2>a, Push, EarlyQueue
  <2>l. DestroyedLast(ioQ) => Has("destroyed", ioQ)
    BY <2>a, LastIsIn
  <2>h. /\ failed = "no" /\ serverAlive /\ serverAlive' = FALSE /\ conns_' = FALSE
        /\ ioQ' = IF conns_ THEN Append(ioQ, "destroyed") ELSE ioQ
        /\ UNCHANGED <<state_, channel, closed>>
        /\ UNCHANGED <<ownLoop, born, socket, baseQ, upc, failed, overlap>>
    BY <1>3 DEF ServerDtor
  <2>1. TypeOK'
    BY <1>3, <2>q, <2>l, <2>h DEF Inv, TypeOK, Functor, RawThis, Holding,
         channel, socket, server
  <2>2. (EarlyInv /\ OnceInv /\ OpenInv)'
    BY <1>3, <2>q, <2>l, <2>h DEF Inv, EarlyInv, OnceInv, OpenInv, Open,
         channel, socket
  <2>3. (OutputRegistered /\ ShutInv)'
    BY <1>3, <2>q, <2>l, <2>h DEF Inv, OutputRegistered, ShutInv, channel,
         socket
  <2>4. LifeInv'
    BY <1>3, <2>q, <2>l, <2>h DEF Inv, LifeInv, InUse, ToErase, ToDestroy,
         Finished, Removed, channel
  <2>5. FailInv'
    BY <1>3, <2>q, <2>l, <2>h DEF Inv, FailInv
  <2> QED  BY <2>1, <2>2, <2>3, <2>4, <2>5 DEF Inv
<1> QED  BY <1>1, <1>2, <1>3 DEF ServerDtor

\* What is left of the queue when doPendingFuncs() has taken its first functor.
LEMMA RestOfQueue ==
  ASSUME Inv, Running, ioQ # <<>>, Head(ioQ) \notin {"established", "destroyed"}
  PROVE  Rest(Tail(ioQ)) /\ state_ # "Connecting"
<1>1. state_ # "Connecting"
  BY DEF Inv, EarlyInv, Early, Running
<1>2. ioQ \in Seq(Functor) /\ ioQ \in Without("established")
  BY <1>1 DEF Inv, TypeOK, OnceInv
<1> QED  BY <1>1, <1>2, Pop DEF Rest

\* connEstablished() keeps the invariant.
LEMMA KeepsEstablished ==
  ASSUME Inv, Running, ioQ # <<>>, Head(ioQ) = "established",
         connEstablished(Tail(ioQ))
  PROVE  Inv'
<1>a. ioQ \in Seq(Functor)
  BY DEF Inv, TypeOK
<1>p. /\ Tail(ioQ) \in Seq(Functor)
      /\ \A f : ioQ \in Without(f) => Tail(ioQ) \in Without(f) /\ Head(ioQ) # f
      /\ Has("destroyed", ioQ) => Has("destroyed", Tail(ioQ))
  BY <1>a, Pop
<1>s. state_ = "Connecting" /\ born
  BY <1>p DEF Inv, OnceInv, Running
<1>e. Tail(ioQ) \in Without("established")
  BY <1>a, <1>s, EarlyQueue DEF Inv, EarlyInv
<1>1. TypeOK'
  BY <1>p, <1>s, <1>e DEF Inv, TypeOK, socket, server, connEstablished, update
<1>2. (EarlyInv /\ OnceInv /\ OpenInv)'
  BY <1>p, <1>s, <1>e DEF Inv, EarlyInv, OnceInv, OpenInv, Open,
       connEstablished, update
<1>3. (OutputRegistered /\ ShutInv)'
  BY <1>p, <1>s, <1>e DEF Inv, EarlyInv, OutputRegistered, ShutInv, socket,
       connEstablished, update
<1>4. LifeInv'
  BY <1>p, <1>s, <1>e DEF Inv, LifeInv, InUse, ToErase, ToDestroy, Finished,
       server, connEstablished
<1>5. FailInv'
  BY <1>p, <1>s, <1>e DEF Inv, FailInv, Running, connEstablished
<1> QED  BY <1>1, <1>2, <1>3, <1>4, <1>5 DEF Inv

\* connDestroyed() keeps the invariant.
LEMMA KeepsDestroyed ==
  ASSUME Inv, Running, ioQ # <<>>, Head(ioQ) = "destroyed",
         \/ Abort(DestroyFailure, Tail(ioQ))
         \/ /\ connDestroyed /\ ioQ' = Tail(ioQ)
            /\ UNCHANGED <<ownLoop, born, socket, server, upc, failed, overlap>>
  PROVE  Inv'
<1>s. state_ # "Connecting" /\ born
  BY DEF Inv, EarlyInv, Early, Running
<1>p. /\ Tail(ioQ) \in Seq(Functor)
      /\ \A f : ioQ \in Without(f) => Tail(ioQ) \in Without(f) /\ Head(ioQ) # f
      /\ DestroyedLast(ioQ) => Tail(ioQ) = <<>>
  BY Pop DEF Inv, TypeOK
<1>e. \A f : <<>> \in Without(f)
  BY EmptyQueue
<1>t. Tail(ioQ) \in Without("established")
  BY <1>s, <1>p DEF Inv, OnceInv
<1>1. CASE Abort(DestroyFailure, Tail(ioQ))
  <2>1. DestroyFailure \in {"closed", "server", "erased", "isNoneEvent", "registered"}
    BY <1>1 DEF Abort, DestroyFailure
  <2>2. overlap \/ (ownLoop /\ ~serverAlive)
    BY <1>1, <1>s, <1>p DEF Abort, DestroyFailure, Inv, LifeInv, InUse,
         ToErase, ToDestroy, Finished, Running
  <2> QED  BY <1>1, <1>s, <1>p, <1>t, <2>1, <2>2, KeepsAbort
<1>2. CASE /\ connDestroyed /\ ioQ' = Tail(ioQ)
           /\ UNCHANGED <<ownLoop, born, socket, server, upc, failed, overlap>>
  <2>1. TypeOK'
    BY <1>2, <1>s, <1>p, <1>e, <1>t DEF Inv, TypeOK, socket, server,
         connDestroyed
  <2>2. (EarlyInv /\ OnceInv /\ OpenInv)'
    BY <1>2, <1>s, <1>p, <1>e, <1>t DEF Inv, EarlyInv, OnceInv, OpenInv,
         connDestroyed
  <2>3. (OutputRegistered /\ ShutInv)'
    BY <1>2, <1>s, <1>p, <1>e, <1>t DEF Inv, OutputRegistered, ShutInv,
         connDestroyed
  <2>4. LifeInv'
    BY <1>2, <1>s, <1>p, <1>e, <1>t DEF Inv, OpenInv, LifeInv, InUse, ToErase,
         ToDestroy, Finished, Removed, server, connDestroyed, DestroyFailure
  <2>5. FailInv'
    BY <1>2, <1>s, <1>p, <1>e, <1>t DEF Inv, FailInv, Running, connDestroyed
  <2> QED  BY <2>1, <2>2, <2>3, <2>4, <2>5 DEF Inv
<1> QED  BY <1>1, <1>2

\* A functor that leaves the connection alone keeps the invariant.
LEMMA KeepsNothing ==
  ASSUME Inv, Running, state_ # "Connecting", ioQ # <<>>, NEW q, Rest(q), Nothing(q)
  PROVE  Inv'
<1>1. TypeOK'
  BY DEF Inv, TypeOK, channel, socket, server, Rest, Nothing
<1>2. (EarlyInv /\ OnceInv /\ OpenInv)'
  BY DEF Inv, EarlyInv, OnceInv, OpenInv, Open, channel, Rest, Nothing
<1>3. (OutputRegistered /\ ShutInv)'
  BY DEF Inv, OutputRegistered, ShutInv, channel, socket, Nothing
<1>4. LifeInv'
  BY DEF Inv, LifeInv, InUse, ToErase, ToDestroy, Finished, Removed, channel,
       server, Rest, Nothing
<1>5. FailInv'
  BY DEF Inv, FailInv, Running, Nothing
<1> QED  BY <1>1, <1>2, <1>3, <1>4, <1>5 DEF Inv

\* shutdownInLoop() keeps the invariant.
LEMMA KeepsShutdown ==
  ASSUME Inv, Running, state_ # "Connecting", ioQ # <<>>, Rest(Tail(ioQ)),
         ioQ' = Tail(ioQ), UNCHANGED channel, shutdownInLoop,
         UNCHANGED <<ownLoop, born, state_, outputBuf, peerClosed, server, upc,
                     failed, closed, overlap>>
  PROVE  Inv'
<1>1. TypeOK'
  BY DEF Inv, TypeOK, channel, server, shutdownInLoop
<1>2. (EarlyInv /\ OnceInv /\ OpenInv)'
  BY DEF Inv, EarlyInv, OnceInv, OpenInv, Open, channel, Rest
<1>3. (OutputRegistered /\ ShutInv)'
  BY DEF Inv, TypeOK, OpenInv, OutputRegistered, ShutInv, channel,
       shutdownInLoop
<1>4. LifeInv'
  BY DEF Inv, LifeInv, InUse, ToErase, ToDestroy, Finished, Removed, channel,
       server, Rest
<1>5. FailInv'
  BY DEF Inv, FailInv, Running
<1> QED  BY <1>1, <1>2, <1>3, <1>4, <1>5 DEF Inv

\* The functor doPendingFuncs() runs, whichever it is, keeps the invariant.
LEMMA KeepsIoFunctor ==
  ASSUME Inv, IoFunctor
  PROVE  Inv'
<1>1. Running /\ ioQ # <<>>
  BY DEF IoFunctor
<1>2. CASE Head(ioQ) = "established"
  BY <1>1, <1>2, KeepsEstablished DEF IoFunctor
<1>3. CASE Head(ioQ) = "destroyed"
  BY <1>1, <1>3, KeepsDestroyed DEF IoFunctor
<1>4. CASE Head(ioQ) \notin {"established", "destroyed"}
  <2>1. Rest(Tail(ioQ)) /\ state_ # "Connecting"
    BY <1>1, <1>4, RestOfQueue
  <2>2. CASE Head(ioQ) = "forceClose"
    <3>1. forceCloseInLoop(Tail(ioQ))
      BY <2>2 DEF IoFunctor
    <3> QED  BY <1>1, <2>1, <3>1, KeepsHandleClose, KeepsNothing DEF forceCloseInLoop
  <2>3. CASE Head(ioQ) = "send"
    BY <1>1, <2>1, <2>3, KeepsSendInLoop DEF IoFunctor
  <2>4. CASE Head(ioQ) \in {"writeComplete", "highWater"}
    BY <1>1, <2>1, <2>4, KeepsNothing DEF IoFunctor
  <2>5. CASE Head(ioQ) = "shutdown"
    BY <1>1, <2>1, <2>5, KeepsShutdown DEF IoFunctor
  <2>6. Head(ioQ) \in Functor
    BY <1>1 DEF Inv, TypeOK
  <2> QED  BY <1>4, <2>2, <2>3, <2>4, <2>5, <2>6 DEF Functor, RawThis, Holding
<1> QED  BY <1>2, <1>3, <1>4

-----------------------------------------------------------------------------
\* The state before newConn() satisfies the invariant.
LEMMA TcpInit == Init => Inv
<1> SUFFICES ASSUME Init PROVE Inv
  OBVIOUS
<1>1. TypeOK
  BY EmptySeq DEF Init, TypeOK
<1>2. EarlyInv /\ OnceInv /\ OpenInv
  BY DEF Init, EarlyInv, OnceInv, OpenInv
<1>3. OutputRegistered /\ ShutInv
  BY DEF Init, OutputRegistered, ShutInv
<1>4. LifeInv /\ FailInv
  BY DEF Init, LifeInv, FailInv
<1> QED  BY <1>1, <1>2, <1>3, <1>4 DEF Inv

\* A step that changes no variable keeps the invariant.
LEMMA TcpStutter ==
  ASSUME Inv, UNCHANGED vars
  PROVE  Inv'
<1>1. TypeOK'
  BY DEF Inv, TypeOK, channel, socket, server, vars
<1>2. (EarlyInv /\ OnceInv /\ OpenInv)'
  BY DEF Inv, EarlyInv, OnceInv, OpenInv, Open, channel, socket, server, vars
<1>3. (OutputRegistered /\ ShutInv)'
  BY DEF Inv, OutputRegistered, ShutInv, channel, socket, vars
<1>4. LifeInv'
  BY DEF Inv, LifeInv, InUse, ToErase, ToDestroy, Finished, Removed, channel,
       server, vars
<1>5. FailInv'
  BY DEF Inv, FailInv, server, vars
<1> QED  BY <1>1, <1>2, <1>3, <1>4, <1>5 DEF Inv

\* Every step, of the loops, the peer or the user threads, keeps the invariant.
LEMMA TcpNext == Inv /\ [Next]_vars => Inv'
<1> SUFFICES ASSUME Inv, [Next]_vars PROVE Inv'
  OBVIOUS
<1>1. CASE NewConn \/ RmConnInLoop \/ ServerDtor
  BY <1>1, KeepsNewConn, KeepsRmConnInLoop, KeepsServerDtor
<1>2. CASE IoLoop
  BY <1>2, KeepsIoFunctor, KeepsHandleCloseEvent, KeepsHandleWrite DEF IoLoop
<1>3. CASE LoopSend \/ LoopShutdown \/ LoopForceClose \/ PeerCloses
  BY <1>3, KeepsLoopSend, KeepsLoopShutdown, KeepsLoopForceClose, KeepsPeerCloses
<1>4. ASSUME NEW u \in User, Acquire(u) \/ Release(u)
      PROVE  Inv'
  BY <1>4, KeepsAcquire, KeepsRelease
<1>5. ASSUME NEW u \in User, NEW op \in Op,
             Call(u, op) \/ SetState(u, op) \/ Queue(u, op)
      PROVE  Inv'
  BY <1>5, KeepsCall, KeepsSetState, KeepsQueue
<1>6. CASE UNCHANGED vars
  BY <1>6, TcpStutter
<1> QED  BY <1>1, <1>2, <1>3, <1>4, <1>5, <1>6 DEF Next

\* The inductive invariant holds in every reachable state, for every set of
\* user threads, high-water mark and bound on the work queued.
THEOREM TcpInv == Spec => []Inv
  BY TcpInit, TcpNext, PTL DEF Spec

\* Type correctness of the connection, its channel and its queues.
THEOREM TcpConnectionTypeOK == Spec => []TypeOK
<1>1. Inv => TypeOK
  BY DEF Inv
<1> QED  BY <1>1, TcpInv, PTL

\* POLLOUT is enabled exactly while there is output, for any mix of senders.
THEOREM TcpConnectionOutputRegistered == Spec => []OutputRegistered
<1>1. Inv => OutputRegistered
  BY DEF Inv
<1> QED  BY <1>1, TcpInv, PTL

\* shutdown() takes effect after the output, not before.
THEOREM TcpConnectionShutdownAfterOutput == Spec => []ShutdownAfterOutput
<1>1. Inv => ShutdownAfterOutput
  BY DEF Inv, ShutInv, ShutdownAfterOutput
<1> QED  BY <1>1, TcpInv, PTL

\* The assertions on the way from newConn() to connDestroyed() hold, but for
\* the exceptions that AssertsHold names.
THEOREM TcpConnectionAssertsHold == Spec => []AssertsHold
<1>1. Inv => AssertsHold
  <2> SUFFICES ASSUME Inv PROVE AssertsHold
    OBVIOUS
  <2>1. Queued({"established"}) => state_ = "Connecting"
    BY DEF Inv, TypeOK, OnceInv, Without, Queued
  <2> QED  BY <2>1 DEF Inv, FailInv, AssertsHold
<1> QED  BY <1>1, TcpInv, PTL

\* ~TcpConnection() and ~Channel() find the connection closed and removed.
THEOREM TcpConnectionDtorAsserts == Spec => []DtorAsserts
<1>1. Inv => DtorAsserts
  <2> SUFFICES ASSUME Inv, born, failed = "no", ~Held, ~overlap
               PROVE  state_ = "Disconnected" /\ ~addedToLoop_ /\ idx = "new"
    BY DEF DtorAsserts
  <2>1. ~Has("destroyed", ioQ) /\ ~conns_ /\ baseQ = 0
    BY DEF Held, Has, Holding, Inv, TypeOK
  <2>2. ~DestroyedLast(ioQ)
    BY <2>1, LastIsIn DEF Inv, TypeOK
  <2> QED  BY <2>1, <2>2 DEF Inv, LifeInv, InUse, ToErase, ToDestroy, Finished, Removed
<1> QED  BY <1>1, TcpInv, PTL

\* The functors that capture only "this" run before the connection is deleted.
THEOREM TcpConnectionNoDanglingThis == Spec => []NoDanglingThis
<1>1. Inv => NoDanglingThis
  <2> SUFFICES ASSUME Inv, born, ~Held, serverAlive, ~overlap
               PROVE  ~Queued(RawThis)
    BY DEF NoDanglingThis
  <2>1. ~Has("destroyed", ioQ) /\ ~conns_ /\ baseQ = 0
    BY DEF Held, Has, Holding, Inv, TypeOK
  <2>2. ~DestroyedLast(ioQ)
    BY <2>1, LastIsIn DEF Inv, TypeOK
  <2>3. failed = "no"
    BY <2>1 DEF Inv, FailInv
  <2>4. ioQ = <<>>
    BY <2>1, <2>2, <2>3 DEF Inv, LifeInv, InUse, ToErase, ToDestroy, Finished
  <2> QED  BY <2>4 DEF Queued
<1> QED  BY <1>1, TcpInv, PTL

\* The assertions of a connection's whole life, for any number of user threads.
THEOREM TcpConnectionLifetimeAsserts == Spec => []LifetimeAsserts
<1>1. TypeOK /\ AssertsHold /\ DtorAsserts => LifetimeAsserts
  BY DEF LifetimeAsserts
<1> QED BY <1>1, TcpConnectionTypeOK, TcpConnectionAssertsHold,
           TcpConnectionDtorAsserts, PTL

\* Output is registered while there is some and written before the shutdown.
THEOREM TcpConnectionOutputFirst == Spec => []OutputFirst
<1>1. OutputRegistered /\ ShutdownAfterOutput => OutputFirst
  BY DEF OutputFirst
<1> QED BY <1>1, TcpConnectionOutputRegistered, TcpConnectionShutdownAfterOutput, PTL

=============================================================================
