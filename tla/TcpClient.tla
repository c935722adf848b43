------------------------------ MODULE TcpClient ------------------------------
(***************************************************************************)
(* net/TcpClient and its Connector: one attempt to connect after another,  *)
(* the retry timer with its growing delay, the connection that results and *)
(* the reconnection when it is lost.                                       *)
(*                                                                         *)
(* The loop polls a set of events (expired timers, the Connector's         *)
(* channel, a lost connection), handles them, and runs the functors queued *)
(* by then.  Users call from the loop thread or from another one, where    *)
(* connect_ may change between any two steps of the loop: each of its      *)
(* reads by the loop thread is in a step of its own, which lpc tells.      *)
(* Functors and channel callbacks hold a plain pointer to the Connector,   *)
(* the retry timer a shared_ptr.  An assertion that fails, or a use of an  *)
(* object that is gone, ends the behaviour and leaves its name in failed.  *)
(***************************************************************************)
EXTENDS Integers, Sequences, FiniteSetsExt

CONSTANTS initRetryDelayMs, maxRetryDelayMs,
          MaxConn,   \* bound: connections made
          MaxCalls   \* bound: calls made by users

ASSUME ClientAssumption ==
  /\ initRetryDelayMs \in Nat \ {0}
  /\ maxRetryDelayMs \in Nat /\ maxRetryDelayMs >= initRetryDelayMs
  /\ MaxConn \in Nat /\ MaxCalls \in Nat

VARIABLES
  connect_, state_, channel_, retryDelayMs_,  \* the Connector
  timers,          \* its retry timers in the TimerQueue
  openFds,         \* number of sockets that are open
  clientAlive, wanted, retry_, conn_,         \* TcpClient; wanted: connect_
  conns,           \* the TcpConnections made, conn_ is the index of one or 0
  polled, active,  \* poll() has returned; what of it is not handled yet
  pending, left,   \* functors; the first left ones are being run
  lpc,             \* the Connector method the loop thread is about to run
  held,            \* a timer being run holds the Connector
  failed,
  calls, starts,   \* history: users' calls, connect() among them
  stopped,         \* history: stop() came after the last connect()
  raced,           \* history: the method begun before it, or "no"
  gaveUp           \* history: an errno that is not retried

connector == <<connect_, state_, channel_, retryDelayMs_, timers, openFds>>
client == <<clientAlive, retry_, conn_, conns>>
loop == <<polled, active, pending, left, lpc, held>>
history == <<calls, starts, stopped, raced, gaveUp>>
vars == <<connector, client, wanted, loop, failed, history>>

Thread == {"loop", "user"}
TimerId == 1 .. MaxCalls + 1
Source == ({"timer"} \X TimerId) \cup {<<"channel", 0>>} \cup ({"conn"} \X (1 .. MaxConn))
Functor == ({"start", "stop", "reset"} \X {0})
             \cup ({"destroyed", "forceClose"} \X (1 .. MaxConn))

TypeOK ==
  /\ connect_ \in BOOLEAN
  /\ state_ \in {"Disconnected", "Connecting", "Connected"}
  /\ channel_ \in {"null", "added", "removed"}
  /\ retryDelayMs_ \in initRetryDelayMs .. maxRetryDelayMs
  /\ timers \subseteq TimerId
  /\ openFds \in Nat
  /\ clientAlive \in BOOLEAN /\ wanted \in BOOLEAN /\ retry_ \in BOOLEAN
  /\ conn_ \in 0 .. MaxConn
  /\ conns \in [1 .. MaxConn -> {"none", "open", "closing", "gone"}]
  /\ polled \in BOOLEAN /\ active \subseteq Source
  /\ pending \in Seq(Functor) /\ left \in 0 .. Len(pending)
  /\ lpc \in {"idle", "restart", "start", "connect"} /\ held \in BOOLEAN
  /\ failed \in {"no", "start", "channel", "write", "null", "stopNull", "dtor",
                 "connector", "client", "rmConn", "overwrite"}
  /\ calls \in 0 .. MaxCalls /\ starts \in 0 .. MaxCalls
  /\ stopped \in BOOLEAN /\ raced \in {"no", "restart", "connect"} /\ gaveUp \in BOOLEAN

Init ==
  /\ connect_ = FALSE /\ state_ = "Disconnected" /\ channel_ = "null"
  /\ retryDelayMs_ = initRetryDelayMs /\ timers = {} /\ openFds = 0
  /\ clientAlive = TRUE /\ wanted = TRUE /\ retry_ \in BOOLEAN /\ conn_ = 0
  /\ conns = [n \in 1 .. MaxConn |-> "none"]
  /\ polled = FALSE /\ active = {} /\ pending = <<>> /\ left = 0
  /\ lpc = "idle" /\ held = FALSE /\ failed = "no"
  /\ calls = 0 /\ starts = 0 /\ stopped = FALSE /\ raced = "no" /\ gaveUp = FALSE

\* The client and every retry timer hold the Connector.
ConnectorAlive == clientAlive \/ timers # {} \/ held

Fail(name) == failed' = name /\ UNCHANGED <<connector, client, gaveUp>>

-----------------------------------------------------------------------------
(* Connector on the loop thread.                                           *)

Nothing == UNCHANGED <<connector, client, failed, gaveUp>>

NextDelay(delay) == Min({2 * delay, maxRetryDelayMs})

\* Mutant: retry() leaves the state as it is.
retry_NoState ==
  /\ state_' = state_
  /\ timers' = IF connect_ THEN timers \cup {Min(TimerId \ timers)} ELSE timers
  /\ retryDelayMs_' = IF connect_ THEN NextDelay(retryDelayMs_) ELSE retryDelayMs_

\* retry(), after the close().
retry ==
  /\ state_' = "Disconnected"
  /\ timers' = IF connect_ THEN timers \cup {Min(TimerId \ timers)} ELSE timers
  /\ retryDelayMs_' = IF connect_ THEN NextDelay(retryDelayMs_) ELSE retryDelayMs_

connecting ==
  IF channel_ # "null" THEN Fail("channel")
  ELSE /\ state_' = "Connecting"
       /\ channel_' = "added"
       /\ openFds' = openFds + 1
       /\ UNCHANGED <<connect_, retryDelayMs_, timers, client, failed, gaveUp>>

RetryAtOnce == retry /\ UNCHANGED <<connect_, channel_, openFds, client, failed, gaveUp>>

\* An errno that is not expected: the socket is closed and that is all.
GiveUp == gaveUp' = TRUE /\ UNCHANGED <<connector, client, failed>>

\* A method of the Connector begun by a timer, a functor, a user or another
\* method; it leaves client, wanted, the batch and most of the history alone.
Method(name) ==
  /\ failed = "no" /\ lpc = name
  /\ UNCHANGED <<wanted, polled, active, pending, left, held, calls, starts, stopped>>

\* connect(): a new socket, and what errno makes of it.
Connect ==
  /\ Method("connect")
  /\ lpc' = "idle"
  /\ raced' = IF raced = "connect" THEN "no" ELSE raced
  /\ IF ConnectorAlive THEN connecting \/ RetryAtOnce \/ GiveUp ELSE Fail("connector")

\* Mutant: connect_ is not looked at.
startInLoop_Always ==
  /\ Method("start") /\ raced' = raced
  /\ CASE ~ConnectorAlive -> Fail("connector") /\ lpc' = lpc
       [] ConnectorAlive /\ state_ # "Disconnected" -> Fail("start") /\ lpc' = lpc
       [] OTHER -> lpc' = "connect" /\ Nothing

startInLoop ==
  /\ Method("start") /\ raced' = raced
  /\ CASE ~ConnectorAlive -> Fail("connector") /\ lpc' = lpc
       [] ConnectorAlive /\ state_ # "Disconnected" -> Fail("start") /\ lpc' = lpc
       [] OTHER -> lpc' = (IF connect_ THEN "connect" ELSE "idle") /\ Nothing

\* restart(): connect_ is set again.
Restart ==
  /\ Method("restart") /\ raced' = raced
  /\ lpc' = "start"
  /\ IF ~ConnectorAlive THEN Fail("connector")
     ELSE /\ state_' = "Disconnected"
          /\ retryDelayMs_' = initRetryDelayMs
          /\ connect_' = TRUE
          /\ UNCHANGED <<channel_, timers, openFds, client, failed, gaveUp>>

\* The timer that was run is deleted, and with it its hold on the Connector.
Release ==
  /\ failed = "no" /\ lpc = "idle" /\ held
  /\ held' = FALSE
  /\ IF ~clientAlive /\ timers = {} /\ channel_ # "null" THEN Fail("dtor") ELSE Nothing
  /\ UNCHANGED <<wanted, polled, active, pending, left, lpc,
                 calls, starts, stopped, raced>>

\* In the state Disconnected channel_ is null, or a channel whose socket is
\* closed: both ways removeAndResetChannel() ends the program.  (A closed
\* descriptor whose number another object of the process has got meanwhile
\* would be registered, and closed again; there is no such object here.)
stopInLoop == IF state_ = "Disconnected" THEN Fail("stopNull") ELSE Nothing

resetChannel ==
  /\ channel_' = "null"
  /\ UNCHANGED <<connect_, state_, retryDelayMs_, timers, openFds, client,
                 failed, gaveUp>>

NextConn == 1 + Cardinality({n \in DOMAIN conns : conns[n] # "none"})

\* newConnCB_, TcpClient::newConn().
newConn ==
  IF ~clientAlive THEN Fail("client")
  ELSE IF conn_ # 0 THEN Fail("overwrite")
  ELSE /\ state_' = "Connected"
       /\ channel_' = "removed"
       /\ conn_' = NextConn
       /\ conns' = [conns EXCEPT ![NextConn] = "open"]
       /\ UNCHANGED <<connect_, retryDelayMs_, timers, openFds, clientAlive,
                      retry_, failed, gaveUp>>

\* The socket has an error, or is connected to itself: close and retry.
LoseAttempt ==
  IF channel_ # "added" THEN Fail("null")
  ELSE /\ channel_' = "removed"
       /\ openFds' = openFds - 1
       /\ retry
       /\ UNCHANGED <<connect_, client, failed, gaveUp>>

\* Mutant: a socket nobody wants any more stays open.
CloseUnwanted_KeepOpen ==
  /\ state_' = "Connected" /\ channel_' = "removed"
  /\ UNCHANGED <<connect_, retryDelayMs_, timers, openFds, client, failed, gaveUp>>

\* Connected, but stop() came meanwhile.
CloseUnwanted ==
  /\ state_' = "Connected" /\ channel_' = "removed"
  /\ openFds' = openFds - 1
  /\ UNCHANGED <<connect_, retryDelayMs_, timers, client, failed, gaveUp>>

handleWrite(ok) ==
  CASE state_ = "Connecting" /\ ~ok -> LoseAttempt
    [] state_ = "Connecting" /\ ok /\ connect_ -> NextConn <= MaxConn /\ newConn
    [] state_ = "Connecting" /\ ok /\ ~connect_ -> CloseUnwanted
    [] state_ = "Disconnected" -> Nothing
    [] OTHER -> Fail("write")

\* The handleWrite() of the same event finds the state Disconnected.
handleError == IF state_ = "Connecting" THEN LoseAttempt ELSE Nothing

-----------------------------------------------------------------------------
(* TcpClient::rmConn(), the connection's closeCB_, up to the restart();    *)
(* q is what is left of the queue.                                         *)

\* Mutant: a lost connection is not made again.
rmConn_NoRestart(n, q) ==
  /\ conn_' = 0
  /\ conns' = [conns EXCEPT ![n] = "closing"]
  /\ pending' = Append(q, <<"destroyed", n>>)
  /\ lpc' = "idle"
  /\ UNCHANGED <<connector, clientAlive, retry_, failed, gaveUp>>

rmConn(n, q) ==
  /\ CASE ~clientAlive -> Fail("client") /\ lpc' = lpc /\ pending' = q
       [] clientAlive /\ conn_ # n -> Fail("rmConn") /\ lpc' = lpc /\ pending' = q
       [] OTHER ->
            /\ conn_' = 0
            /\ conns' = [conns EXCEPT ![n] = "closing"]
            /\ pending' = Append(q, <<"destroyed", n>>)
            /\ lpc' = IF retry_ /\ wanted THEN "restart" ELSE "idle"
            /\ UNCHANGED <<connector, clientAlive, retry_, failed, gaveUp>>

-----------------------------------------------------------------------------
(* EventLoop: one batch of events, one batch of functors.                  *)

CanStep == failed = "no" /\ lpc = "idle" /\ ~held

Possible ==
  {<<"timer", k>> : k \in timers}
    \cup (IF channel_ = "added" THEN {<<"channel", 0>>} ELSE {})
    \cup {<<"conn", n>> : n \in {m \in DOMAIN conns : conns[m] = "open"}}

\* A pending functor comes with a wakeup.
Poll(sources) ==
  /\ CanStep /\ ~polled /\ left = 0
  /\ sources # {} \/ pending # <<>>
  /\ polled' = TRUE
  /\ active' = sources
  /\ UNCHANGED <<connector, client, wanted, pending, left, lpc, held, failed, history>>

DoPendingFuncs ==
  /\ CanStep /\ polled /\ active = {}
  /\ polled' = FALSE
  /\ left' = Len(pending)
  /\ UNCHANGED <<connector, client, wanted, active, pending, lpc, held, failed, history>>

Handle(source) ==
  /\ CanStep /\ source \in active
  /\ active' = active \ {source}
  /\ UNCHANGED <<wanted, polled, left, calls, starts, stopped, raced>>

TimerFires(k) ==
  /\ Handle(<<"timer", k>>)
  /\ timers' = timers \ {k}
  /\ held' = TRUE /\ lpc' = "start"
  /\ UNCHANGED <<connect_, state_, channel_, retryDelayMs_, openFds, client, pending,
                 failed, gaveUp>>

\* handleWrite(ok) or handleError(), and what removeAndResetChannel() queues.
ChannelEvent(handler) ==
  /\ Handle(<<"channel", 0>>)
  /\ IF ConnectorAlive THEN handler ELSE Fail("connector")
  /\ pending' = IF channel_' # channel_ THEN Append(pending, <<"reset", 0>>) ELSE pending
  /\ UNCHANGED <<lpc, held>>

Connected == ChannelEvent(handleWrite(TRUE))
ConnectFails == ChannelEvent(handleWrite(FALSE)) \/ ChannelEvent(handleError)

\* The peer closes the connection.
ConnLost(n) == Handle(<<"conn", n>>) /\ rmConn(n, pending) /\ held' = held

Run(f) ==
  CASE f[1] \in {"start", "stop", "reset"} /\ ~ConnectorAlive -> Fail("connector")
    [] f[1] = "start" /\ ConnectorAlive -> Nothing
    [] f[1] = "stop" /\ ConnectorAlive -> stopInLoop
    [] f[1] = "reset" /\ ConnectorAlive -> resetChannel
    [] f[1] = "destroyed" ->
         /\ conns' = [conns EXCEPT ![f[2]] = "gone"]
         /\ openFds' = openFds - 1
         /\ UNCHANGED <<connect_, state_, channel_, retryDelayMs_, timers,
                        clientAlive, retry_, conn_, failed, gaveUp>>

RunFunc ==
  /\ CanStep /\ left > 0
  /\ left' = left - 1
  /\ LET f == Head(pending)
     IN  IF f[1] = "forceClose" /\ conns[f[2]] = "open"
         THEN rmConn(f[2], Tail(pending))
         ELSE /\ IF f[1] = "forceClose" THEN Nothing ELSE Run(f)
              /\ pending' = Tail(pending)
              /\ lpc' = IF f[1] = "start" THEN "start" ELSE lpc
  /\ UNCHANGED <<wanted, polled, active, held, calls, starts, stopped, raced>>

-----------------------------------------------------------------------------
(* The interface of TcpClient.                                             *)

Call(t) ==
  /\ failed = "no" /\ clientAlive
  /\ t = "loop" => CanStep
  /\ calls < MaxCalls
  /\ calls' = calls + 1
  /\ UNCHANGED <<polled, active, left, held>>

Queue(f) == pending' = Append(pending, <<f, 0>>)

\* On the loop thread startInLoop() is called at once.
ConnectCall(t) ==
  /\ Call(t)
  /\ starts' = starts + 1
  /\ stopped' = FALSE /\ raced' = "no"
  /\ wanted' = TRUE /\ connect_' = TRUE
  /\ IF t = "loop" THEN lpc' = "start" /\ pending' = pending
     ELSE lpc' = lpc /\ Queue("start")
  /\ UNCHANGED <<state_, channel_, retryDelayMs_, timers, openFds, client,
                 failed, gaveUp>>

\* disconnect(): the connection is shut down, and the peer will close it.
Disconnect(t) ==
  /\ Call(t)
  /\ wanted' = FALSE
  /\ UNCHANGED <<connector, client, pending, lpc, failed,
                 starts, stopped, raced, gaveUp>>

Stop(t) ==
  /\ Call(t)
  /\ wanted' = FALSE /\ connect_' = FALSE
  /\ Queue("stop")
  /\ stopped' = TRUE
  /\ raced' = IF lpc \in {"restart", "connect"} THEN lpc ELSE "no"
  /\ UNCHANGED <<state_, channel_, retryDelayMs_, timers, openFds, client,
                 lpc, failed, starts, gaveUp>>

\* conn()->forceClose().
ForceClose(t) ==
  /\ Call(t) /\ conn_ # 0
  /\ pending' = Append(pending, <<"forceClose", conn_>>)
  /\ UNCHANGED <<connector, client, wanted, lpc, failed,
                 starts, stopped, raced, gaveUp>>

\* ~TcpClient().  A connection nobody else holds is closed; without one the
\* Connector is stopped, and deleted unless a timer holds it.
Destroy(t) ==
  /\ Call(t)
  /\ IF timers = {} /\ ~held /\ channel_ # "null"
     THEN Fail("dtor") /\ pending' = pending
     ELSE /\ clientAlive' = FALSE
          /\ IF conn_ # 0
             THEN /\ \/ pending' = Append(pending, <<"forceClose", conn_>>)
                     \/ pending' = pending
                  /\ connect_' = connect_
             ELSE Queue("stop") /\ connect_' = FALSE
          /\ UNCHANGED <<state_, channel_, retryDelayMs_, timers, openFds,
                         retry_, conn_, conns, failed, gaveUp>>
  /\ UNCHANGED <<wanted, lpc, starts, stopped, raced>>

-----------------------------------------------------------------------------
LoopStep ==
  \/ DoPendingFuncs \/ RunFunc
  \/ Restart \/ startInLoop \/ Connect \/ Release
  \/ \E k \in TimerId : TimerFires(k)
  \/ Connected \/ ConnectFails
  \/ \E n \in 1 .. MaxConn : ConnLost(n)

UserStep(t) ==
  ConnectCall(t) \/ Disconnect(t) \/ Stop(t) \/ ForceClose(t) \/ Destroy(t)

Next ==
  \/ \E sources \in SUBSET Possible : Poll(sources)
  \/ LoopStep
  \/ \E t \in Thread : UserStep(t)

\* The loop runs what it has polled and what is queued, and polls again:
\* timers expire and the channel of an attempt becomes writable.  The network
\* does not refuse for ever: an attempt made again and again succeeds.  That
\* the peer closes the connection is never assumed.
Fairness ==
  /\ WF_vars(LoopStep)
  /\ WF_vars(\E sources \in SUBSET {s \in Possible : s[1] # "conn"} : Poll(sources))
  /\ SF_vars(Connected)
  /\ SF_vars(Connect /\ openFds' > openFds)

Spec == Init /\ [][Next]_vars
FairSpec == Spec /\ Fairness

-----------------------------------------------------------------------------
\* Connector and TcpClient: refusals, errors, self connections, lost
\* connections and reconnections never fail an assertion, in any order.  The
\* calls that do: a second connect(), stop() with no attempt in progress, and
\* the destructor while the loop still has work of the client.
ClientAsserts ==
  /\ failed \notin {"null", "write"}
  /\ failed \in {"start", "channel", "rmConn", "overwrite"} => starts > 1
  /\ failed \in {"connector", "client"} => ~clientAlive

\* Connector::connect() to handleWrite(): each socket that was opened is the
\* one of the attempt in progress, belongs to a connection, or was closed.
NoSocketLeak ==
  openFds = Cardinality({n \in DOMAIN conns : conns[n] \in {"open", "closing"}})
              + (IF channel_ = "added" THEN 1 ELSE 0)

\* Connector and TcpClient: sockets have one owner each, in a state of its type.
SocketsOwned == TypeOK /\ NoSocketLeak

\* TcpClient::stop(): no socket is opened after it, by a retry timer, by a
\* queued start or for a lost connection.  Two steps of the loop thread undo
\* it when it comes in the middle of them: between startInLoop()'s look at
\* connect_ and connect(), which opens one more socket and no other, and
\* between rmConn()'s look and restart(), after which stop() has no effect.
StopIsFinal == [][lpc = "connect" /\ lpc' # lpc => ~stopped \/ raced # "no"]_vars

\* Connector::retry() and TcpClient::rmConn(): a client that asked for a
\* connection, or lost one with retry enabled, gets one, unless it changes
\* its mind, connects twice, or errno is one that is not retried.
Interfered == failed # "no" \/ gaveUp \/ ~wanted \/ ~clientAlive \/ starts > 1
Reconnects ==
  (starts = 1 /\ conn_ = 0 /\ (retry_ \/ state_ # "Connected"))
    ~> (conn_ # 0 \/ Interfered \/ NextConn > MaxConn)
=============================================================================
