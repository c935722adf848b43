----------------------------- MODULE TcpServer ------------------------------
(***************************************************************************)
(* net/TcpServer, Acceptor and EventLoopThreadPool on top of the pool's    *)
(* EventLoopThread: the base loop's thread (the owner) starts the server,  *)
(* accepts connections, hands them to the pool's loop, removes and in the  *)
(* end destroys them.  The connections' own life is in TcpConnection.      *)
(*                                                                         *)
(* The pool has one thread; user callbacks do not quit its loop.  The      *)
(* behaviours with spc = "none" are those of an EventLoopThread that is    *)
(* used without a server.                                                  *)
(*                                                                         *)
(* A connection is "away", "waiting" in the backlog, "made" and to be      *)
(* established, "up", "down" (closed by its peer), "dead" when             *)
(* connDestroyed() has run, "refused", or "lost": deleted with the queue   *)
(* of a loop that ended before it ran that.                                *)
(***************************************************************************)
EXTENDS EventLoopThread, FiniteSets, Integers

CONSTANTS Conn,
          MaxFds       \* descriptors the acceptor and its rivals compete for

ASSUME ServerAssumption == MaxFds \in Nat \ {0} /\ Func = {"est", "des"} \X Conn

VARIABLES
  spc,        \* where the base loop is with the server
  conn,
  conns_,
  rmQ,        \* rmConnInLoop() queued in the base loop
  loops_, nxt_,
  idleFd_,    \* the acceptor has its spare descriptor
  free,       \* descriptors nobody has
  others,     \* descriptors of the rest of the program
  robbed      \* history: another thread took the spare while it was closed

fds == <<idleFd_, free, others, robbed>>
pool == <<loops_, nxt_>>
server == <<spc, conn, conns_, rmQ, pool, fds>>

Emfile == {"closeIdle", "acceptIdle", "openIdle"}   \* inside handleRead()

ServerTypeOK ==
  /\ spc \in {"none", "new", "starting", "up", "dtor", "pool", "gone"} \cup Emfile
  /\ conn \in [Conn -> {"away", "waiting", "made", "up", "down", "dead",
                        "refused", "lost"}]
  /\ conns_ \subseteq Conn /\ rmQ \in Seq(Conn)
  /\ loops_ \in {<<>>, <<LoopThread>>}
  /\ nxt_ = 0 \/ nxt_ \in DOMAIN loops_ \ {Len(loops_)}
  /\ {idleFd_, robbed} \subseteq BOOLEAN
  /\ free \in 0 .. MaxFds /\ others \in 0 .. MaxFds

ServerInit ==
  /\ Init
  /\ spc \in {"none", "new"}
  /\ conn = [c \in Conn |-> "away"]
  /\ conns_ = {} /\ rmQ = <<>>
  /\ loops_ = <<>> /\ nxt_ = 0
  /\ idleFd_ = TRUE /\ free = MaxFds - 1 /\ others = 0
  /\ robbed = FALSE

Idle == tpc[Owner] = "idle" /\ mat[Owner] = "out"
Becomes(c, s) == conn' = [conn EXCEPT ![c] = s]

-----------------------------------------------------------------------------
(* TcpServer::start() with EventLoopThreadPool::start() and                *)
(* Acceptor::listen().                                                     *)

ServerStart ==
  /\ spc = "new" /\ spc' = "starting"
  /\ StartLoop
  /\ UNCHANGED <<conn, conns_, rmQ, pool, fds>>

\* startLoop() of the pool's only thread has returned.
PoolStarted == opc = "use" /\ Idle /\ loops_' = Append(loops_, LoopThread)

listen == spc' = "up"

StartReturns ==
  /\ spc = "starting"
  /\ PoolStarted /\ listen
  /\ UNCHANGED <<vars, conn, conns_, rmQ, nxt_, fds>>

-----------------------------------------------------------------------------
(* Acceptor::handleRead().                                                 *)

\* The loop is loops_[nxt_].
getNextLoop == nxt_' = IF nxt_ + 1 >= Len(loops_) THEN 0 ELSE nxt_ + 1

\* accept() and TcpServer::newConn(); the pool has only one loop.
newConn(c) ==
  /\ spc = "up" /\ Idle
  /\ conn[c] = "waiting" /\ free > 0
  /\ free' = free - 1
  /\ Becomes(c, "made")
  /\ conns_' = conns_ \cup {c}
  /\ getNextLoop
  /\ OwnerQueues(<<"est", c>>)
  /\ UNCHANGED <<spc, rmQ, loops_, idleFd_, others, robbed>>

\* EMFILE.  The message logged before the test may change errno: then nothing
\* is done, and the loop comes back, since the socket stays readable.
NoDescriptor ==
  /\ spc = "up" /\ Idle /\ free = 0
  /\ \E c \in Conn : conn[c] = "waiting"
  /\ spc' = "closeIdle"
  /\ UNCHANGED <<vars, conn, conns_, rmQ, pool, fds>>

\* Mutant: the spare is kept open.
CloseIdle_Kept ==
  /\ spc = "closeIdle" /\ spc' = "acceptIdle"
  /\ UNCHANGED <<vars, conn, conns_, rmQ, pool, fds>>

CloseIdle ==
  /\ spc = "closeIdle" /\ spc' = "acceptIdle"
  /\ idleFd_' = FALSE
  /\ free' = IF idleFd_ THEN free + 1 ELSE free
  /\ UNCHANGED <<vars, conn, conns_, rmQ, pool, others, robbed>>

\* Mutant: the connection is accepted and not closed.
AcceptIdle_KeepOpen ==
  /\ spc = "acceptIdle" /\ spc' = "openIdle"
  /\ \/ free = 0 /\ UNCHANGED <<conn, free>>
     \/ /\ free > 0 /\ free' = free - 1
        /\ \E c \in Conn : conn[c] = "waiting" /\ Becomes(c, "refused")
  /\ UNCHANGED <<vars, conns_, rmQ, pool, idleFd_, others, robbed>>

\* The connection is accepted with the spare descriptor and closed.
AcceptIdle ==
  /\ spc = "acceptIdle" /\ spc' = "openIdle"
  /\ \/ free = 0 /\ conn' = conn
     \/ free > 0 /\ \E c \in Conn : conn[c] = "waiting" /\ Becomes(c, "refused")
  /\ UNCHANGED <<vars, conns_, rmQ, pool, fds>>

\* Mutant: the spare is not opened again.
OpenIdle_Forgotten ==
  /\ spc = "openIdle" /\ spc' = "up"
  /\ UNCHANGED <<vars, conn, conns_, rmQ, pool, fds>>

OpenIdle ==
  /\ spc = "openIdle" /\ spc' = "up"
  /\ idleFd_' = (free > 0)
  /\ free' = IF free > 0 THEN free - 1 ELSE free
  /\ UNCHANGED <<vars, conn, conns_, rmQ, pool, others, robbed>>

\* The rest of the program opens and closes descriptors.
OtherOpens ==
  /\ spc \notin {"none", "pool", "gone"} /\ free > 0
  /\ free' = free - 1 /\ others' = others + 1
  /\ robbed' = (robbed \/ spc \in {"acceptIdle", "openIdle"})
  /\ UNCHANGED <<vars, spc, conn, conns_, rmQ, pool, idleFd_>>

OtherCloses ==
  /\ spc \notin {"none", "pool", "gone"} /\ others > 0
  /\ free' = free + 1 /\ others' = others - 1
  /\ UNCHANGED <<vars, spc, conn, conns_, rmQ, pool, idleFd_, robbed>>

\* A peer connects.
Arrives(c) ==
  /\ spc = "up" /\ conn[c] = "away"
  /\ Becomes(c, "waiting")
  /\ UNCHANGED <<vars, spc, conns_, rmQ, pool, fds>>

-----------------------------------------------------------------------------
(* The pool's loop.                                                        *)

\* What a functor does to its connection.  Its descriptor is closed with it.
RunsFunc(f) ==
  IF f[1] = "est" THEN Becomes(f[2], "up") /\ free' = free
  ELSE Becomes(f[2], "dead") /\ free' = free + 1

ServerInLoop ==
  /\ InLoop /\ selfQuit' = selfQuit
  /\ IF ran' # ran THEN RunsFunc(ran'[Len(ran')]) ELSE UNCHANGED <<conn, free>>
  /\ UNCHANGED <<spc, conns_, rmQ, pool, idleFd_, others, robbed>>

\* A connection's peer closes it: TcpConnection::handleClose() and rmConn().
PeerCloses(c) ==
  /\ fpc = "loop" /\ lpc = "events" /\ conn[c] = "up"
  /\ Becomes(c, "down")
  /\ rmQ' = Append(rmQ, c)
  /\ UNCHANGED <<vars, spc, conns_, pool, fds>>

Pending == {pendingCBs_[i] : i \in DOMAIN pendingCBs_}

\* The EventLoop is destroyed with the functors it did not run.
ServerDestroyLoop ==
  /\ DestroyLoop
  /\ LET lost == {c \in Conn : <<"est", c>> \in Pending \/ <<"des", c>> \in Pending}
     IN  /\ conn' = [c \in Conn |-> IF c \in lost THEN "lost" ELSE conn[c]]
         /\ free' = free + Cardinality(lost)
  /\ UNCHANGED <<spc, conns_, rmQ, pool, idleFd_, others, robbed>>

-----------------------------------------------------------------------------
(* Removal and destruction, on the base loop.                              *)

rmConnInLoop ==
  /\ spc = "up" /\ Idle /\ rmQ # <<>>
  /\ rmQ' = Tail(rmQ)
  /\ conns_' = conns_ \ {Head(rmQ)}
  /\ OwnerQueues(<<"des", Head(rmQ)>>)
  /\ UNCHANGED <<spc, conn, pool, fds>>

\* ~TcpServer(), also of a server that was not started: the connections one by
\* one,
ServerDtor ==
  /\ spc \in {"new", "up"} /\ Idle
  /\ spc' = "dtor"
  /\ UNCHANGED <<vars, conn, conns_, rmQ, pool, fds>>

\* Mutant: the map is cleared.
DtorConn_Clear(c) ==
  /\ spc = "dtor" /\ Idle /\ c \in conns_
  /\ conns_' = {}
  /\ UNCHANGED <<vars, spc, conn, rmQ, pool, fds>>

DtorConn(c) ==
  /\ spc = "dtor" /\ Idle /\ c \in conns_
  /\ conns_' = conns_ \ {c}
  /\ OwnerQueues(<<"des", c>>)
  /\ UNCHANGED <<spc, conn, rmQ, pool, fds>>

\* then its members: the pool's thread,
DtorPool ==
  /\ spc = "dtor" /\ conns_ = {}
  /\ Dtor
  /\ spc' = "pool"
  /\ UNCHANGED <<conn, conns_, rmQ, pool, fds>>

\* and the acceptor.
DtorAcceptor ==
  /\ spc = "pool" /\ opc = "gone"
  /\ spc' = "gone"
  /\ idleFd_' = FALSE
  /\ free' = IF idleFd_ THEN free + 1 ELSE free
  /\ UNCHANGED <<vars, conn, conns_, rmQ, pool, others, robbed>>

-----------------------------------------------------------------------------
HandleRead == NoDescriptor \/ CloseIdle \/ AcceptIdle \/ OpenIdle
              \/ \E c \in Conn : newConn(c)
DtorStep == DtorPool \/ DtorAcceptor \/ \E c \in Conn : DtorConn(c)
ServerOwnerStep == OwnerStep /\ UNCHANGED server
ServerFuncStep ==
  \/ ServerInLoop \/ ServerDestroyLoop
  \/ /\ FuncSync \/ Construct \/ FuncLock \/ Publish \/ EnterLoop \/ Clear \/ Unlock
     /\ UNCHANGED server

ServerNext ==
  \/ spc = "none" /\ Next /\ UNCHANGED server
  \/ /\ spc # "none"
     /\ \/ ServerStart \/ StartReturns \/ HandleRead \/ rmConnInLoop
        \/ ServerDtor \/ DtorStep
        \/ OtherOpens \/ OtherCloses
        \/ \E c \in Conn : Arrives(c) \/ PeerCloses(c)
        \/ ServerOwnerStep \/ ServerFuncStep
        \/ (SpuriousWakeup \/ InLoopTimeout \/ Terminated) /\ UNCHANGED server

allVars == <<vars, server>>

ServerSpec == ServerInit /\ [][ServerNext]_allVars

\* The assumptions of EventLoopThread; and the base loop handles what is ready,
\* a connection no less than a functor.
ServerFairSpec ==
  /\ ServerSpec
  /\ WF_allVars(ServerOwnerStep) /\ WF_allVars(spc # "none" /\ ServerFuncStep)
  /\ WF_allVars(spc = "none" /\ FuncStep /\ UNCHANGED server)
  /\ SF_allVars((FuncSync \/ FuncLock) /\ UNCHANGED server)
  /\ WF_allVars(StartReturns) /\ WF_allVars(rmConnInLoop) /\ WF_allVars(DtorStep)
  /\ SF_allVars(HandleRead)

-----------------------------------------------------------------------------
(* Properties.                                                             *)

\* A connection object, with its descriptor, that somebody still holds.
HasFd(c) == conn[c] \in {"made", "up", "down"}

\* Every descriptor is the spare, another's, a live connection's or free: none
\* leaks through a refused connection, a lost functor or a second close().
NoFdLeak ==
  Cardinality({c \in Conn : HasFd(c)}) + free + others + (IF idleFd_ THEN 1 ELSE 0)
    = MaxFds

\* Acceptor::handleRead() has its spare descriptor back when it returns, unless
\* another thread opened a file in between.
SpareKept == spc = "up" => idleFd_ \/ robbed

\* Acceptor and TcpServer: no descriptor is lost, the spare one included.
DescriptorsKept == ServerTypeOK /\ NoFdLeak /\ SpareKept

\* ~TcpServer() and rmConnInLoop(): once the pool's thread is joined, every
\* connection has been destroyed by its own loop, or is deleted undestroyed
\* because the quit() of ~EventLoopThread came before the loop ran its queue.
ConnsDestroyed ==
  spc = "gone" =>
    \A c \in Conn : ~HasFd(c) /\ (conn[c] = "lost" => <<"des", c>> \in Pending)

\* A connection in the backlog is accepted or refused, also when there is no
\* descriptor left, unless the spare was taken or the server is destroyed.
BacklogServed ==
  \A c \in Conn : conn[c] = "waiting" ~>
    conn[c] # "waiting" \/ robbed \/ spc \in {"dtor", "pool", "gone"}
=============================================================================
