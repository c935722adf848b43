--------------------------- MODULE TcpConnection ----------------------------
(***************************************************************************)
(* net/TcpConnection, with the part of TcpServer that creates and removes  *)
(* a connection and the part of Channel and EPoll that registers it.       *)
(*                                                                         *)
(* One connection.  Its callbacks and functors run on its io loop, the     *)
(* server's on the base loop (the same one when the pool has no threads),  *)
(* and user threads that hold a TcpConnPtr call send(), shutdown() and     *)
(* forceClose().  state_ is a plain member: a call made on another thread  *)
(* reads it, writes it and queues its functor in three steps.              *)
(*                                                                         *)
(* A shared_ptr keeps the object alive: it is deleted in the step after    *)
(* which nothing holds one.  The functors in RawThis capture only "this".  *)
(* Output is counted in messages.  An assertion that fails, or a call of a *)
(* deleted TcpServer, ends the behaviour and leaves its name in failed.    *)
(***************************************************************************)
EXTENDS Integers, Sequences

CONSTANTS User,            \* threads other than the two loops
          HighWaterMark,
          MaxWork          \* bound: a call is made with less work waiting

ASSUME TcpAssumption ==
  /\ HighWaterMark \in Nat \ {0}
  /\ MaxWork \in Nat \ {0}

VARIABLES
  ownLoop,          \* the io loop is not the base loop
  born,             \* newConn() has made the connection
  state_,
  events, idx, addedToLoop_,   \* the channel, and EPoll's record of it
  outputBuf,
  wrShut,           \* socket_->shutdownWrite() was called
  peerClosed,       \* the peer closed or reset the connection
  conns_,           \* TcpServer::conns_ holds the connection
  serverAlive,
  ioQ,              \* functors queued in the io loop
  baseQ,            \* number of rmConnInLoop() queued in the base loop
  upc,              \* where each user thread is
  failed,
  closed,           \* history: the connection has been Disconnected
  overlap           \* history: a user's call went on after that

channel == <<events, idx, addedToLoop_>>
socket == <<outputBuf, wrShut, peerClosed>>
server == <<conns_, serverAlive, baseQ>>
vars == <<ownLoop, born, state_, channel, socket, server, ioQ, upc, failed,
          closed, overlap>>

RawThis == {"shutdown", "send", "writeComplete"}
Holding == {"established", "forceClose", "destroyed", "highWater"}
Functor == RawThis \cup Holding
Op == {"send", "shutdown", "forceClose"}

\* A thread without a TcpConnPtr, and one that has it and is not in a call.
None == <<"-", "none">>
Hold == <<"-", "hold">>

TypeOK ==
  /\ ownLoop \in BOOLEAN /\ born \in BOOLEAN
  /\ state_ \in {"Disconnected", "Connecting", "Connected", "Disconnecting"}
  /\ events \subseteq {"read", "write"}
  /\ idx \in {"new", "added", "deleted"}
  /\ addedToLoop_ \in BOOLEAN
  /\ outputBuf \in Nat
  /\ wrShut \in BOOLEAN /\ peerClosed \in BOOLEAN
  /\ conns_ \in BOOLEAN /\ serverAlive \in BOOLEAN
  /\ ioQ \in Seq(Functor)
  /\ baseQ \in Nat
  /\ upc \in [User -> {None, Hold} \cup (Op \X {"checked", "set"})]
  /\ failed \in {"no", "closed", "server", "erased", "isNoneEvent",
                 "registered"}
  /\ closed \in BOOLEAN /\ overlap \in BOOLEAN

Init ==
  /\ ownLoop \in BOOLEAN
  /\ born = FALSE
  /\ state_ = "Connecting"
  /\ events = {} /\ idx = "new" /\ addedToLoop_ = FALSE
  /\ outputBuf = 0 /\ wrShut = FALSE /\ peerClosed = FALSE
  /\ conns_ = FALSE /\ serverAlive = TRUE /\ baseQ = 0
  /\ ioQ = <<>>
  /\ upc = [u \in User |-> None]
  /\ failed = "no"
  /\ closed = FALSE /\ overlap = FALSE

\* A shared_ptr to the connection exists.
Held ==
  \/ conns_
  \/ baseQ > 0
  \/ \E i \in 1 .. Len(ioQ) : ioQ[i] \in Holding
  \/ \E u \in User : upc[u] # None

Running == born /\ Held /\ failed = "no"

Abort(name, q) ==
  /\ name # "no"
  /\ failed' = name
  /\ ioQ' = q
  /\ UNCHANGED <<ownLoop, born, state_, channel, socket, server, upc, closed,
                 overlap>>

-----------------------------------------------------------------------------
(* Channel's enable and disable functions, with EPoll::updateChannel().    *)

update(ev) ==
  /\ events' = ev
  /\ addedToLoop_' = TRUE
  /\ idx' = IF idx = "added" /\ ev = {} THEN "deleted" ELSE "added"

-----------------------------------------------------------------------------
(* TcpServer::newConn(), rmConn() and rmConnInLoop().                      *)

\* runInLoop(connEstablished) runs it at once when there is one loop.
NewConn ==
  /\ ~born /\ serverAlive
  /\ born' = TRUE
  /\ conns_' = TRUE
  /\ IF ownLoop
     THEN /\ ioQ' = Append(ioQ, "established")
          /\ UNCHANGED <<state_, channel>>
     ELSE /\ state_' = "Connected"
          /\ update(events \cup {"read"})
          /\ ioQ' = ioQ
  /\ UNCHANGED <<ownLoop, socket, serverAlive, baseQ, upc, failed,
                 closed, overlap>>

\* Mutant: connDestroyed() goes through runInLoop(), ahead of the queue.
rmConn_RunInLoop(q) ==
  /\ IF ownLoop
     THEN baseQ' = baseQ + 1 /\ conns_' = conns_ /\ ioQ' = q
     ELSE baseQ' = baseQ /\ conns_' = FALSE /\ ioQ' = <<"destroyed">> \o q
  /\ serverAlive' = serverAlive

\* closeCB_: queued in the base loop, or run at once when there is one loop.
rmConn(q) ==
  /\ IF ownLoop
     THEN /\ baseQ' = baseQ + 1
          /\ conns_' = conns_
          /\ ioQ' = q
     ELSE /\ conns_' = FALSE
          /\ ioQ' = Append(q, "destroyed")
          /\ baseQ' = baseQ
  /\ serverAlive' = serverAlive

EraseFailure ==
  IF ~serverAlive THEN "server" ELSE IF ~conns_ THEN "erased" ELSE "no"

RmConnInLoop ==
  /\ failed = "no" /\ baseQ > 0
  /\ \/ Abort(EraseFailure, ioQ)
     \/ /\ EraseFailure = "no"
        /\ baseQ' = baseQ - 1
        /\ conns_' = FALSE
        /\ ioQ' = Append(ioQ, "destroyed")
        /\ UNCHANGED <<ownLoop, born, state_, channel, socket, serverAlive,
                       upc, failed, closed, overlap>>

-----------------------------------------------------------------------------
(* What the io loop runs; q is its queue without the running functor.      *)

Open == state_ \in {"Connected", "Disconnecting"}

CloseFailure ==
  IF ~Open THEN "closed"
  ELSE IF ~serverAlive THEN "server"
  ELSE IF ~ownLoop /\ ~conns_ THEN "erased" ELSE "no"

handleClose(q) ==
  \/ Abort(CloseFailure, q)
  \/ /\ CloseFailure = "no"
     /\ state_' = "Disconnected"
     /\ closed' = TRUE
     /\ update({})
     /\ rmConn(q)
     /\ UNCHANGED <<ownLoop, born, socket, upc, failed, overlap>>

connEstablished(q) ==
  /\ state_' = "Connected"
  /\ update(events \cup {"read"})
  /\ ioQ' = q
  /\ UNCHANGED <<ownLoop, born, socket, server, upc, failed, closed, overlap>>

\* connDestroyed(): disableAll() is reached in state Connected only; then
\* Channel::remove() asserts that no event is enabled, and
\* EPoll::removeChannel() that it has the channel.
DestroyFailure ==
  IF state_ = "Connected" THEN "no"
  ELSE IF events # {} THEN "isNoneEvent"
  ELSE IF idx = "new" THEN "registered" ELSE "no"

\* Mutant: the channel stays in the poller.
connDestroyed_NoRemove ==
  /\ DestroyFailure = "no"
  /\ state_' = IF state_ = "Connected" THEN "Disconnected" ELSE state_
  /\ closed' = TRUE
  /\ update({})

connDestroyed ==
  /\ DestroyFailure = "no"
  /\ state_' = IF state_ = "Connected" THEN "Disconnected" ELSE state_
  /\ closed' = TRUE
  /\ events' = {}
  /\ addedToLoop_' = FALSE
  /\ idx' = "new"

\* Mutant: the socket is shut down with output waiting.
shutdownInLoop_Always == wrShut' = TRUE

shutdownInLoop == wrShut' = (wrShut \/ "write" \notin events')

\* write(2) takes all of the message, not all of it, or fails with EPIPE or
\* ECONNRESET: after shutdownWrite() it always fails so.
Written ==
  IF wrShut THEN {"fault"}
  ELSE IF peerClosed THEN {"all", "some", "fault"} ELSE {"all", "some"}

\* Mutant: POLLOUT is not enabled for what is left.
Keep_NoEnable(q) ==
  /\ outputBuf' = outputBuf + 1
  /\ ioQ' = q
  /\ UNCHANGED channel

\* What is left of the message is appended to outputBuf_.
Keep(q) ==
  /\ outputBuf' = outputBuf + 1
  /\ ioQ' = IF outputBuf < HighWaterMark /\ outputBuf + 1 >= HighWaterMark
            THEN Append(q, "highWater") ELSE q
  /\ IF "write" \in events THEN UNCHANGED channel
     ELSE update(events \cup {"write"})

sendInLoop(q) ==
  /\ \/ /\ state_ = "Disconnected"
        /\ ioQ' = q
        /\ UNCHANGED <<outputBuf, channel>>
     \/ /\ state_ # "Disconnected"
        /\ "write" \notin events /\ outputBuf = 0
        /\ \E n \in Written :
             \/ n = "all" /\ ioQ' = Append(q, "writeComplete")
                          /\ UNCHANGED <<outputBuf, channel>>
             \/ n = "fault" /\ ioQ' = q /\ UNCHANGED <<outputBuf, channel>>
             \/ n = "some" /\ Keep(q)
     \/ /\ state_ # "Disconnected"
        /\ "write" \in events \/ outputBuf > 0
        /\ Keep(q)
  /\ UNCHANGED <<ownLoop, born, state_, wrShut, peerClosed, server, upc,
                 failed, closed, overlap>>

-----------------------------------------------------------------------------
(* Steps of the io loop.                                                   *)

\* writeCompleteCB_ and highWaterMarkCB_ run user code: see the calls below.
Nothing(q) ==
  /\ ioQ' = q
  /\ UNCHANGED <<ownLoop, born, state_, channel, socket, server, upc, failed,
                 closed, overlap>>

\* Mutant: a second forceClose() is not told from the first.
forceCloseInLoop_NoTest(q) == handleClose(q)

forceCloseInLoop(q) == (Open /\ handleClose(q)) \/ (~Open /\ Nothing(q))

\* doPendingFuncs(), one functor.
IoFunctor ==
  /\ Running /\ ioQ # <<>>
  /\ LET f == Head(ioQ)
         q == Tail(ioQ)
     IN  \/ f = "established" /\ connEstablished(q)
         \/ f = "destroyed" /\ Abort(DestroyFailure, q)
         \/ /\ f = "destroyed" /\ connDestroyed
            /\ ioQ' = q
            /\ UNCHANGED <<ownLoop, born, socket, server, upc, failed, overlap>>
         \/ f = "forceClose" /\ forceCloseInLoop(q)
         \/ f = "send" /\ sendInLoop(q)
         \/ f \in {"writeComplete", "highWater"} /\ Nothing(q)
         \/ /\ f = "shutdown"
            /\ ioQ' = q
            /\ UNCHANGED channel
            /\ shutdownInLoop
            /\ UNCHANGED <<ownLoop, born, state_, outputBuf, peerClosed,
                           server, upc, failed, closed, overlap>>

\* Mutant: read() returning 0 is ignored after shutdown().
HandleCloseEvent_ConnectedOnly ==
  /\ Running /\ idx = "added" /\ peerClosed /\ state_ = "Connected"
  /\ handleClose(ioQ)

\* The peer closed: POLLIN and read() returns 0, or POLLHUP, which epoll
\* reports whatever events are enabled.
HandleCloseEvent ==
  /\ Running /\ idx = "added" /\ peerClosed
  /\ handleClose(ioQ)

\* What may be left in outputBuf_ after a write() that wrote something.
Left == 0 .. outputBuf - 1

\* Mutant: a shutdown() that found output waiting is forgotten.
Drained_Forget == wrShut' = wrShut

Drained == IF state_ = "Disconnecting" THEN shutdownInLoop ELSE wrShut' = wrShut

\* POLLOUT: some or all of outputBuf_ is written.
HandleWrite ==
  /\ Running /\ idx = "added" /\ "write" \in events
  /\ \E left \in Left :
       /\ outputBuf' = left
       /\ IF left = 0
          THEN /\ update(events \ {"write"})
               /\ ioQ' = Append(ioQ, "writeComplete")
               /\ Drained
          ELSE UNCHANGED <<channel, ioQ, wrShut>>
  /\ UNCHANGED <<ownLoop, born, state_, peerClosed, server, upc, failed,
                 closed, overlap>>

PeerCloses ==
  /\ Running /\ ~peerClosed
  /\ peerClosed' = TRUE
  /\ UNCHANGED <<ownLoop, born, state_, channel, outputBuf, wrShut, server,
                 ioQ, upc, failed, closed, overlap>>

-----------------------------------------------------------------------------
(* Calls made on the io loop: connCB_, msgCB_, other callbacks, functors.  *)

MayCall == Running /\ outputBuf + Len(ioQ) + baseQ < MaxWork

LoopSend == MayCall /\ state_ = "Connected" /\ sendInLoop(ioQ)

LoopShutdown ==
  /\ MayCall /\ state_ = "Connected"
  /\ state_' = "Disconnecting"
  /\ UNCHANGED channel
  /\ shutdownInLoop
  /\ UNCHANGED <<ownLoop, born, outputBuf, peerClosed, server, ioQ, upc,
                 failed, closed, overlap>>

LoopForceClose ==
  /\ MayCall /\ Open
  /\ state_' = "Disconnecting"
  /\ ioQ' = Append(ioQ, "forceClose")
  /\ UNCHANGED <<ownLoop, born, channel, socket, server, upc, failed, closed,
                 overlap>>

-----------------------------------------------------------------------------
(* Calls made on another thread.                                           *)

\* connCB_ or msgCB_ hands the TcpConnPtr to the thread.
Acquire(u) ==
  /\ Running /\ state_ = "Connected" /\ upc[u] = None
  /\ upc' = [upc EXCEPT ![u] = Hold]
  /\ UNCHANGED <<ownLoop, born, state_, channel, socket, server, ioQ, failed,
                 closed, overlap>>

Release(u) ==
  /\ Running /\ upc[u] = Hold
  /\ upc' = [upc EXCEPT ![u] = None]
  /\ UNCHANGED <<ownLoop, born, state_, channel, socket, server, ioQ, failed,
                 closed, overlap>>

\* The test of state_ that each call begins with.
Call(u, op) ==
  /\ MayCall /\ upc[u] = Hold
  /\ IF op = "forceClose" THEN Open ELSE state_ = "Connected"
  /\ upc' = [upc EXCEPT ![u] = <<op, "checked">>]
  /\ UNCHANGED <<ownLoop, born, state_, channel, socket, server, ioQ, failed,
                 closed, overlap>>

SetState(u, op) ==
  /\ Running /\ op # "send" /\ upc[u] = <<op, "checked">>
  /\ state_' = "Disconnecting"
  /\ upc' = [upc EXCEPT ![u] = <<op, "set">>]
  /\ overlap' = (overlap \/ closed)
  /\ UNCHANGED <<ownLoop, born, channel, socket, server, ioQ, failed, closed>>

Queue(u, op) ==
  /\ Running
  /\ upc[u] = <<op, IF op = "send" THEN "checked" ELSE "set">>
  /\ ioQ' = Append(ioQ, op)
  /\ upc' = [upc EXCEPT ![u] = Hold]
  /\ overlap' = (overlap \/ closed)
  /\ UNCHANGED <<ownLoop, born, state_, channel, socket, server, failed,
                 closed>>

-----------------------------------------------------------------------------
\* ~TcpServer(), on the base loop: connDestroyed() is queued in the io loop,
\* or run at once when there is one loop.
ServerDtor ==
  /\ failed = "no" /\ serverAlive
  /\ \/ conns_ /\ ~ownLoop /\ Abort(DestroyFailure, ioQ)
     \/ /\ serverAlive' = FALSE
        /\ conns_' = FALSE
        /\ \/ /\ conns_ /\ ~ownLoop
              /\ connDestroyed
              /\ ioQ' = ioQ
           \/ /\ ~conns_ \/ ownLoop
              /\ ioQ' = IF conns_ THEN Append(ioQ, "destroyed") ELSE ioQ
              /\ UNCHANGED <<state_, channel, closed>>
        /\ UNCHANGED <<ownLoop, born, socket, baseQ, upc, failed, overlap>>

IoLoop == IoFunctor \/ HandleCloseEvent \/ HandleWrite

Next ==
  \/ NewConn \/ RmConnInLoop \/ ServerDtor
  \/ IoLoop
  \/ LoopSend \/ LoopShutdown \/ LoopForceClose
  \/ PeerCloses
  \/ \E u \in User :
       \/ Acquire(u) \/ Release(u)
       \/ \E op \in Op : Call(u, op) \/ SetState(u, op) \/ Queue(u, op)

Spec == Init /\ [][Next]_vars

\* The loops run: a ready event or a queued functor is handled in the end, and
\* an event is not kept off by functors nor a functor by events.  The peer
\* takes what is written, and a call on another thread finishes.
Fairness ==
  /\ WF_vars(IoFunctor) /\ WF_vars(HandleCloseEvent) /\ WF_vars(HandleWrite)
  /\ WF_vars(RmConnInLoop)
  /\ \A u \in User, op \in Op : WF_vars(SetState(u, op) \/ Queue(u, op))

FairSpec == Spec /\ Fairness

-----------------------------------------------------------------------------
(* Properties.                                                             *)

Queued(F) == \E i \in 1 .. Len(ioQ) : ioQ[i] \in F

\* The assertions of handleClose(), connEstablished(), rmConnInLoop(),
\* Channel::remove() and EPoll::removeChannel() hold, and closeCB_ never calls
\* a deleted server, except: a call on another thread went on after the
\* connection closed; the server is deleted before the connection, which
\* another loop serves; or it is deleted when the connection is Disconnecting.
AssertsHold ==
  /\ failed # "no" =>
       \/ overlap
       \/ ownLoop /\ ~serverAlive
       \/ ~ownLoop /\ conns_ /\ state_ = "Disconnecting"
  /\ Queued({"established"}) => state_ = "Connecting"

\* ~TcpConnection() and ~Channel() assert that the connection is Disconnected
\* and its channel removed: whoever lets go of the connection last, it is so,
\* unless a call on another thread went on after the connection closed.
DtorAsserts ==
  born /\ failed = "no" /\ ~Held /\ ~overlap =>
    state_ = "Disconnected" /\ ~addedToLoop_ /\ idx = "new"

\* Every assertion from newConn() to the destructor, and TypeOK.
LifetimeAsserts == TypeOK /\ AssertsHold /\ DtorAsserts

\* The assertion of ~TcpConnection() without that exception, for a server that
\* is not destroyed.
DisconnectedAtDtor ==
  born /\ serverAlive /\ failed = "no" /\ ~Held => state_ = "Disconnected"

\* The functors that capture only "this" (shutdown(), send(), the write
\* complete callback) run before the connection is deleted, as long as the
\* server lives and no call went on after the connection closed.
NoDanglingThis ==
  born /\ ~Held /\ serverAlive /\ ~overlap => ~Queued(RawThis)

\* While the connection reads, POLLOUT is enabled exactly when there is output:
\* no output waits for an event that will not come, and epoll does not report
\* a writable socket for nothing.
OutputRegistered ==
  "read" \in events => ("write" \in events <=> outputBuf > 0)

\* As long as the connection is not closed, the socket is shut down for writing
\* only when all output has been written, and no output is buffered after that.
ShutdownAfterOutput == wrShut /\ ~closed => outputBuf = 0

\* sendInLoop(), handleWrite() and shutdownInLoop(): output is waited for as
\* long as there is some, and goes out before the end of the stream.
OutputFirst == OutputRegistered /\ ShutdownAfterOutput

\* When the peer closes an established connection, the connection is removed
\* from the server and from the poller.
CloseIsCleanedUp ==
  (peerClosed /\ idx = "added") ~>
    (~conns_ /\ idx = "new") \/ failed # "no" \/ overlap

\* A connection that is Disconnecting is shut down for writing or closed.
ShutdownCompletes ==
  (born /\ state_ = "Disconnecting") ~> wrShut \/ closed \/ failed # "no"
=============================================================================
