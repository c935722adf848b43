-------------------------- MODULE TcpClientProofs ---------------------------
(***************************************************************************)
(* TcpClient and Connector for any number of connections and of calls, and *)
(* any retry delays: sockets have one owner, no assertion fails but for a  *)
(* misuse, and no attempt begins after stop().                             *)
(***************************************************************************)
EXTENDS TcpClient, SequenceTheorems, FiniteSetTheorems, TLAPS

-----------------------------------------------------------------------------
(* How often a functor is queued.                                          *)

Places(s, f) == {i \in 1 .. Len(s) : s[i] = f}
Count(s, f) == Cardinality(Places(s, f))

\* A sequence has finitely many places for a functor.
LEMMA PlacesFinite ==
  ASSUME NEW s \in Seq(Functor), NEW f
  PROVE  IsFiniteSet(Places(s, f)) /\ Count(s, f) \in Nat
<1>1. Places(s, f) \in SUBSET (1 .. Len(s)) /\ Len(s) \in Int  BY LenProperties DEF Places
<1>2. IsFiniteSet(1 .. Len(s))  BY <1>1, FS_Interval
<1> QED  BY <1>1, <1>2, FS_Subset, FS_CardinalityType DEF Count

\* The empty queue has none.
LEMMA CountEmpty ==
  ASSUME NEW f
  PROVE  Count(<<>>, f) = 0
<1>1. Places(<<>>, f) = {}  BY DEF Places
<1> QED  BY <1>1, FS_EmptySet DEF Count

\* queueInLoop() adds one.
LEMMA CountAppend ==
  ASSUME NEW s \in Seq(Functor), NEW f, NEW g \in Functor
  PROVE  Count(Append(s, g), f) = Count(s, f) + (IF g = f THEN 1 ELSE 0)
<1>0. IsFiniteSet(Places(s, f)) /\ Count(s, f) \in Nat  BY PlacesFinite
<1>1. /\ Len(Append(s, g)) = Len(s) + 1 /\ Len(s) \in Nat
      /\ \A i \in 1 .. Len(s) : Append(s, g)[i] = s[i]
      /\ Append(s, g)[Len(s) + 1] = g
  BY AppendProperties, LenProperties
<1>2. CASE g = f
  <2>1. Places(Append(s, g), f) = Places(s, f) \cup {Len(s) + 1}
    BY <1>1, <1>2 DEF Places
  <2>2. Len(s) + 1 \notin Places(s, f)  BY <1>1 DEF Places
  <2> QED  BY <1>0, <1>2, <2>1, <2>2, FS_AddElement DEF Count
<1>3. CASE g # f
  <2>1. Places(Append(s, g), f) = Places(s, f)
    BY <1>1, <1>3 DEF Places
  <2> QED  BY <1>0, <1>3, <2>1 DEF Count
<1> QED  BY <1>2, <1>3

\* A functor that was taken off the queue is counted once less.
LEMMA CountTail ==
  ASSUME NEW s \in Seq(Functor), s # <<>>, NEW f
  PROVE  Count(s, f) = Count(Tail(s), f) + (IF Head(s) = f THEN 1 ELSE 0)
<1> DEFINE P == Places(s, f)
           Q == Places(Tail(s), f)
           shift == [i \in Q |-> i + 1]
<1>0. IsFiniteSet(P) /\ Count(s, f) \in Nat  BY PlacesFinite
<1>1. /\ Tail(s) \in Seq(Functor) /\ Len(Tail(s)) = Len(s) - 1 /\ Len(s) \in Nat
      /\ \A i \in 1 .. Len(Tail(s)) : Tail(s)[i] = s[i + 1]
      /\ Head(s) = s[1] /\ Len(s) > 0
  BY HeadTailProperties, LenProperties, EmptySeq
<1>2. IsFiniteSet(Q) /\ Count(Tail(s), f) \in Nat  BY <1>1, PlacesFinite
<1>3. Q \subseteq Int /\ P \subseteq Int  BY <1>1 DEF Places
<1>4. \A i \in Q : i + 1 \in P \ {1}  BY <1>1 DEF Places
<1>5. \A j \in P \ {1} : j - 1 \in Q /\ j = (j - 1) + 1
  <2> SUFFICES ASSUME NEW j \in P \ {1}  PROVE j - 1 \in Q /\ j = (j - 1) + 1
    OBVIOUS
  <2>1. j \in 2 .. Len(s) /\ s[j] = f  BY <1>1 DEF Places
  <2>2. j - 1 \in 1 .. Len(Tail(s)) /\ j = (j - 1) + 1  BY <2>1, <1>1
  <2>3. Tail(s)[j - 1] = s[(j - 1) + 1]  BY <2>2, <1>1
  <2> QED  BY <2>1, <2>2, <2>3 DEF Places
<1>6. shift \in [Q -> P \ {1}]  BY <1>4
<1>7. \A a, b \in Q : shift[a] = shift[b] => a = b  BY <1>3
<1>8. \A j \in P \ {1} : \E i \in Q : shift[i] = j  BY <1>5
<1>9. shift \in Bijection(Q, P \ {1})
  BY <1>6, <1>7, <1>8 DEF Bijection, Injection, Surjection, IsInjective
<1>10. Cardinality(P \ {1}) = Cardinality(Q)
  BY <1>9, <1>2, FS_Bijection DEF ExistsBijection
<1>11. 1 \in P <=> Head(s) = f  BY <1>1 DEF Places
<1>12. Cardinality(P \ {1}) = IF 1 \in P THEN Cardinality(P) - 1 ELSE Cardinality(P)
  BY <1>0, FS_RemoveElement
<1>13. Count(s, f) = Cardinality(P) /\ Count(Tail(s), f) = Cardinality(Q)  BY DEF Count
<1> HIDE DEF P, Q
<1> QED  BY <1>0, <1>2, <1>10, <1>11, <1>12, <1>13

\* None is queued exactly when the count is 0.
LEMMA CountZero ==
  ASSUME NEW s \in Seq(Functor), NEW f
  PROVE  Count(s, f) = 0 <=> \A i \in 1 .. Len(s) : s[i] # f
<1>1. Count(s, f) = 0 <=> Places(s, f) = {}  BY PlacesFinite, FS_EmptySet DEF Count
<1> QED  BY <1>1 DEF Places

-----------------------------------------------------------------------------
(* The smallest of a set of numbers.                                       *)

\* A set of natural numbers that is not empty has its minimum as a member.
LEMMA MinIsIn ==
  ASSUME NEW S \in SUBSET Nat, S # {}
  PROVE  Min(S) \in S
<1>1. PICK x \in S : \A y \in S : ~(<<y, x>> \in OpToRel(<, Nat))
  BY NatLessThanWellFounded, WFMin
<1>2. \A y \in S : ~(y < x)  BY <1>1 DEF OpToRel
<1>3. \A y \in S : x =< y  BY <1>2
<1> QED  BY <1>3 DEF Min

\* The next delay is twice the last one, and at most the largest.
LEMMA NextDelayType ==
  ASSUME NEW d \in initRetryDelayMs .. maxRetryDelayMs
  PROVE  NextDelay(d) \in initRetryDelayMs .. maxRetryDelayMs
<1>1. /\ initRetryDelayMs \in Nat /\ maxRetryDelayMs \in Nat
      /\ initRetryDelayMs <= maxRetryDelayMs
  BY ClientAssumption
<1>2. d \in Nat /\ 2 * d \in Nat /\ 2 * d >= initRetryDelayMs  BY <1>1
<1>3. Min({2 * d, maxRetryDelayMs}) \in {2 * d, maxRetryDelayMs}
  BY <1>1, <1>2, MinIsIn
<1>4. \E x \in {2 * d, maxRetryDelayMs} : \A y \in {2 * d, maxRetryDelayMs} : x =< y
  BY <1>1, <1>2
<1>5. Min({2 * d, maxRetryDelayMs}) =< maxRetryDelayMs  BY <1>4 DEF Min
<1> QED  BY <1>1, <1>2, <1>3, <1>5 DEF NextDelay

Start == <<"start", 0>>
Reset == <<"reset", 0>>
Destroyed(n) == <<"destroyed", n>>
ForceCloseOf(n) == <<"forceClose", n>>

-----------------------------------------------------------------------------
(* The invariant, of a program that has not failed.                        *)

\* Each connect() makes at most one of: a functor that will start, a retry
\* timer, a call of startInLoop() under way, an attempt or a connection.
Busy == IF state_ = "Disconnected" THEN 0 ELSE 1
Launching == IF lpc \in {"start", "connect"} THEN 1 ELSE 0
TokenInv ==
  /\ starts <= calls
  /\ Cardinality(timers) + Count(pending, Start) + Busy + Launching <= starts

\* The states of the Connector, and the connection it has made.
Used == {n \in 1 .. MaxConn : conns[n] # "none"}
StateInv ==
  /\ channel_ = "added" <=> state_ = "Connecting"
  /\ conn_ # 0 => state_ = "Connected"
  /\ \A n \in 1 .. MaxConn : conns[n] = "open" <=> n = conn_
  /\ Used = 1 .. Cardinality(Used)
  /\ lpc = "restart" => conn_ = 0 /\ state_ = "Connected" /\ channel_ = "null"
  /\ lpc = "connect" => state_ = "Disconnected"

\* resetChannel() is queued while the channel is removed, before the close of
\* the connection that came from it, and runs before the next poll();
\* connectDestroyed() is queued once for each connection that is closing.
ResetInv ==
  /\ Count(pending, Reset) = IF channel_ = "removed" THEN 1 ELSE 0
  /\ ~polled => \A i \in 1 .. Len(pending) : pending[i] = Reset => i <= left
  /\ \A i, j \in 1 .. Len(pending) :
        pending[i] = Reset /\ pending[j] = ForceCloseOf(conn_) => i < j
DestroyInv ==
  /\ \A n \in 1 .. MaxConn :
        Count(pending, Destroyed(n)) = IF conns[n] = "closing" THEN 1 ELSE 0
  /\ \A i \in 1 .. Len(pending) : \A n \in 1 .. MaxConn :
        pending[i] = ForceCloseOf(n) => conns[n] # "none"

\* What was polled is still there when it is handled.
BatchInv ==
  /\ left > 0 => ~polled
  /\ ~polled => active = {}
  /\ \A k \in TimerId : <<"timer", k>> \in active => k \in timers
  /\ <<"channel", 0>> \in active => channel_ = "added"
  /\ \A n \in 1 .. MaxConn : <<"conn", n>> \in active => conn_ = n /\ channel_ = "null"

\* After a single connect() the channel of an attempt is reset before the
\* next attempt.
OnceInv ==
  starts <= 1 =>
    /\ starts = 0 => channel_ = "null"
    /\ channel_ # "null" => Count(pending, Start) = 0
    /\ lpc \in {"start", "connect"} => channel_ = "null"
    /\ \A k \in TimerId : <<"timer", k>> \in active => channel_ = "null"

\* After stop() nobody wants a connection, unless it came too late for
\* restart(), or for the connect() under way.
StopInv ==
  stopped =>
    /\ ~wanted
    /\ \/ raced = "restart"
       \/ ~connect_ /\ lpc # "restart" /\ (lpc = "connect" => raced = "connect")

Running ==
  TokenInv /\ StateInv /\ ResetInv /\ DestroyInv /\ BatchInv /\ OnceInv /\ StopInv
ClientInv == SocketsOwned /\ ClientAsserts /\ (failed = "no" => Running)

-----------------------------------------------------------------------------
(* The parts of TypeOK, and the sockets of connections.                    *)

ConnectorOK ==
  /\ connect_ \in BOOLEAN
  /\ state_ \in {"Disconnected", "Connecting", "Connected"}
  /\ channel_ \in {"null", "added", "removed"}
  /\ retryDelayMs_ \in initRetryDelayMs .. maxRetryDelayMs
  /\ timers \subseteq TimerId
  /\ openFds \in Nat
ClientOK ==
  /\ clientAlive \in BOOLEAN /\ retry_ \in BOOLEAN
  /\ conn_ \in 0 .. MaxConn
  /\ conns \in [1 .. MaxConn -> {"none", "open", "closing", "gone"}]
LoopOK ==
  /\ polled \in BOOLEAN /\ active \subseteq Source
  /\ pending \in Seq(Functor) /\ left \in 0 .. Len(pending)
  /\ lpc \in {"idle", "restart", "start", "connect"} /\ held \in BOOLEAN
HistoryOK ==
  /\ wanted \in BOOLEAN
  /\ failed \in {"no", "start", "channel", "write", "null", "stopNull", "dtor",
                 "connector", "client", "rmConn", "overwrite"}
  /\ calls \in 0 .. MaxCalls /\ starts \in 0 .. MaxCalls
  /\ stopped \in BOOLEAN /\ raced \in {"no", "restart", "connect"} /\ gaveUp \in BOOLEAN

Sockets == {n \in 1 .. MaxConn : conns[n] \in {"open", "closing"}}
Attempts == IF channel_ = "added" THEN 1 ELSE 0
SocketsInv == openFds = Cardinality(Sockets) + Attempts

\* The type invariant is the conjunction of its parts.
LEMMA TypeParts ==
  /\ TypeOK <=> ConnectorOK /\ ClientOK /\ LoopOK /\ HistoryOK
  /\ TypeOK' <=> ConnectorOK' /\ ClientOK' /\ LoopOK' /\ HistoryOK'
<1>1. TypeOK <=> ConnectorOK /\ ClientOK /\ LoopOK /\ HistoryOK
  BY DEF TypeOK, ConnectorOK, ClientOK, LoopOK, HistoryOK
<1>2. TypeOK' <=> ConnectorOK' /\ ClientOK' /\ LoopOK' /\ HistoryOK'
  BY DEF TypeOK, ConnectorOK, ClientOK, LoopOK, HistoryOK
<1> QED  BY <1>1, <1>2

\* The sockets of NoSocketLeak are those of connections 1 to MaxConn.
LEMMA SocketsParts ==
  /\ ClientOK => (NoSocketLeak <=> SocketsInv)
  /\ ClientOK' => (NoSocketLeak' <=> SocketsInv')
<1>1. ClientOK => (NoSocketLeak <=> SocketsInv)
  <2> SUFFICES ASSUME ClientOK PROVE NoSocketLeak <=> SocketsInv  OBVIOUS
  <2>1. DOMAIN conns = 1 .. MaxConn  BY DEF ClientOK
  <2> QED  BY <2>1 DEF NoSocketLeak, SocketsInv, Sockets, Attempts
<1>2. ClientOK' => (NoSocketLeak' <=> SocketsInv')
  <2> SUFFICES ASSUME ClientOK' PROVE NoSocketLeak' <=> SocketsInv'  OBVIOUS
  <2>1. DOMAIN conns' = 1 .. MaxConn  BY DEF ClientOK
  <2> QED  BY <2>1 DEF NoSocketLeak, SocketsInv, Sockets, Attempts
<1> QED  BY <1>1, <1>2

\* Sets of connections and of timers are finite.
LEMMA FiniteParts ==
  /\ IsFiniteSet(Sockets) /\ Cardinality(Sockets) \in Nat
  /\ IsFiniteSet(Used) /\ Cardinality(Used) \in Nat
  /\ \A ts \in SUBSET TimerId : IsFiniteSet(ts) /\ Cardinality(ts) \in Nat
<1>1. IsFiniteSet(1 .. MaxConn) /\ IsFiniteSet(TimerId)
  BY ClientAssumption, FS_Interval DEF TimerId
<1>2. Sockets \in SUBSET (1 .. MaxConn) /\ Used \in SUBSET (1 .. MaxConn)
  BY DEF Sockets, Used
<1> QED  BY <1>1, <1>2, FS_Subset, FS_CardinalityType

\* A timer that is set takes an identifier that is free.
LEMMA NewTimer ==
  ASSUME NEW ts \in SUBSET TimerId, Cardinality(ts) <= MaxCalls
  PROVE  /\ Min(TimerId \ ts) \in TimerId \ ts
         /\ Cardinality(ts \cup {Min(TimerId \ ts)}) = Cardinality(ts) + 1
<1>1. IsFiniteSet(TimerId) /\ Cardinality(TimerId) = MaxCalls + 1
  BY ClientAssumption, FS_Interval DEF TimerId
<1>2. TimerId \ ts # {}
  <2> SUFFICES ASSUME TimerId \ ts = {} PROVE FALSE  OBVIOUS
  <2>1. ts = TimerId  OBVIOUS
  <2> QED  BY <1>1, <2>1, ClientAssumption
<1>3. TimerId \ ts \in SUBSET Nat  BY ClientAssumption DEF TimerId
<1>4. Min(TimerId \ ts) \in TimerId \ ts  BY <1>2, <1>3, MinIsIn
<1>5. IsFiniteSet(ts)  BY FiniteParts
<1> QED  BY <1>4, <1>5, FS_AddElement

-----------------------------------------------------------------------------
(* What the methods of Connector do when no assertion fails.               *)

\* Connector::connect(): an attempt, a retry timer or nothing follows, in
\* place of what led to it.
LEMMA ConnectEffect ==
  ASSUME ConnectorOK, ClientOK, SocketsInv, state_ = "Disconnected",
         channel_ # "added", failed' = "no", Cardinality(timers) <= MaxCalls, Connect
  PROVE  /\ ConnectorOK' /\ SocketsInv' /\ UNCHANGED <<connect_, client>>
         /\ channel_' = "added" <=> state_' = "Connecting"
         /\ state_' # "Connected"
         /\ channel_' # channel_ => channel_ = "null" /\ channel_' = "added"
         /\ timers \subseteq timers'
         /\ Cardinality(timers') + Busy' <= Cardinality(timers) + 1
<1>0. /\ Cardinality(timers) \in Nat /\ Cardinality(Sockets) \in Nat
      /\ timers \in SUBSET TimerId
      /\ retryDelayMs_ \in initRetryDelayMs .. maxRetryDelayMs
  BY FiniteParts DEF ConnectorOK
<1>1. CASE connecting
  <2>1. /\ channel_ = "null" /\ state_' = "Connecting" /\ channel_' = "added"
        /\ openFds' = openFds + 1 /\ UNCHANGED <<connect_, retryDelayMs_, timers, client>>
    BY <1>1 DEF connecting, Fail
  <2>2. ConnectorOK'  BY <2>1 DEF ConnectorOK
  <2>3. Sockets' = Sockets  BY <2>1 DEF Sockets, client
  <2>4. SocketsInv'  BY <1>0, <2>1, <2>3 DEF SocketsInv, Attempts
  <2>5. Cardinality(timers') + Busy' <= Cardinality(timers) + 1  BY <1>0, <2>1 DEF Busy
  <2> QED  BY <2>1, <2>2, <2>4, <2>5
<1>2. CASE RetryAtOnce
  <2>1. /\ state_' = "Disconnected" /\ UNCHANGED <<connect_, channel_, openFds, client>>
        /\ timers' = IF connect_ THEN timers \cup {Min(TimerId \ timers)} ELSE timers
        /\ retryDelayMs_' = IF connect_ THEN NextDelay(retryDelayMs_) ELSE retryDelayMs_
    BY <1>2 DEF RetryAtOnce, retry
  <2>2. /\ timers' \subseteq TimerId /\ timers \subseteq timers'
        /\ Cardinality(timers') <= Cardinality(timers) + 1
    <3>1. CASE connect_
      <4>1. timers' = timers \cup {Min(TimerId \ timers)}  BY <2>1, <3>1
      <4> QED  BY <1>0, <4>1, NewTimer
    <3>2. CASE ~connect_
      <4>1. timers' = timers  BY <2>1, <3>2
      <4> QED  BY <1>0, <4>1
    <3> QED  BY <3>1, <3>2
  <2>3. retryDelayMs_' \in initRetryDelayMs .. maxRetryDelayMs
    BY <1>0, <2>1, NextDelayType
  <2>4. ConnectorOK'  BY <2>1, <2>2, <2>3 DEF ConnectorOK
  <2>5. Sockets' = Sockets  BY <2>1 DEF Sockets, client
  <2>6. SocketsInv'  BY <2>1, <2>5 DEF SocketsInv, Attempts
  <2>7. Busy' = 0 /\ Cardinality(timers') \in Nat
    BY <2>1, <2>2, FiniteParts DEF Busy
  <2>8. Cardinality(timers') + Busy' <= Cardinality(timers) + 1  BY <1>0, <2>2, <2>7
  <2> QED  BY <2>1, <2>2, <2>4, <2>6, <2>8
<1>3. CASE GiveUp
  <2>1. UNCHANGED <<connect_, state_, channel_, retryDelayMs_, timers, openFds, client>>
    BY <1>3 DEF GiveUp, connector
  <2>2. ConnectorOK'  BY <2>1 DEF ConnectorOK
  <2>3. Sockets' = Sockets  BY <2>1 DEF Sockets, client
  <2>4. SocketsInv'  BY <2>1, <2>3 DEF SocketsInv, Attempts
  <2>5. Cardinality(timers') + Busy' <= Cardinality(timers) + 1  BY <1>0, <2>1 DEF Busy
  <2> QED  BY <2>1, <2>2, <2>4, <2>5
<1> QED  BY <1>1, <1>2, <1>3 DEF Connect, Fail

\* LoseAttempt: the socket of the attempt is closed, and a timer set if a
\* connection is still wanted.
LEMMA LoseEffect ==
  ASSUME ConnectorOK, ClientOK, SocketsInv, Cardinality(timers) <= MaxCalls,
         failed' = "no", LoseAttempt
  PROVE  /\ channel_ = "added" /\ channel_' = "removed" /\ state_' = "Disconnected"
         /\ ConnectorOK' /\ SocketsInv' /\ UNCHANGED <<connect_, client>>
         /\ openFds' < openFds
         /\ timers \subseteq timers'
         /\ Cardinality(timers') <= Cardinality(timers) + 1
<1>0. /\ timers \in SUBSET TimerId /\ Cardinality(timers) \in Nat
      /\ Cardinality(Sockets) \in Nat
  BY FiniteParts DEF ConnectorOK
<1>1. /\ channel_ = "added" /\ channel_' = "removed" /\ state_' = "Disconnected"
      /\ openFds' = openFds - 1 /\ UNCHANGED <<connect_, client>>
      /\ timers' = IF connect_ THEN timers \cup {Min(TimerId \ timers)} ELSE timers
      /\ retryDelayMs_' = IF connect_ THEN NextDelay(retryDelayMs_) ELSE retryDelayMs_
  BY DEF LoseAttempt, Fail, retry
<1>2. openFds = Cardinality(Sockets) + 1  BY <1>1 DEF SocketsInv, Attempts
<1>3. /\ timers' \subseteq TimerId /\ timers \subseteq timers'
      /\ Cardinality(timers') <= Cardinality(timers) + 1
  <2>1. CASE connect_
    <3>1. timers' = timers \cup {Min(TimerId \ timers)}  BY <1>1, <2>1
    <3> QED  BY <1>0, <3>1, NewTimer
  <2>2. CASE ~connect_
    <3>1. timers' = timers  BY <1>1, <2>2
    <3> QED  BY <1>0, <3>1
  <2> QED  BY <2>1, <2>2
<1>4. retryDelayMs_' \in initRetryDelayMs .. maxRetryDelayMs
  BY <1>1, NextDelayType DEF ConnectorOK
<1>5. ConnectorOK'
  <2>1. openFds' \in Nat  BY <1>0, <1>1, <1>2
  <2> QED  BY <1>1, <1>3, <1>4, <2>1 DEF ConnectorOK
<1>6. Sockets' = Sockets  BY <1>1 DEF Sockets, client
<1>7. SocketsInv'  BY <1>0, <1>1, <1>2, <1>6 DEF SocketsInv, Attempts
<1>8. openFds' < openFds  BY <1>0, <1>1, <1>2
<1> QED  BY <1>1, <1>3, <1>5, <1>7, <1>8

\* Connected, but nobody wants it: the socket is closed.
LEMMA UnwantedEffect ==
  ASSUME ConnectorOK, ClientOK, SocketsInv, channel_ = "added", CloseUnwanted
  PROVE  /\ channel_' = "removed" /\ state_' = "Connected"
         /\ ConnectorOK' /\ SocketsInv' /\ UNCHANGED <<connect_, timers, client>>
         /\ openFds' < openFds
<1>0. Cardinality(Sockets) \in Nat  BY FiniteParts
<1>1. /\ channel_' = "removed" /\ state_' = "Connected" /\ openFds' = openFds - 1
      /\ UNCHANGED <<connect_, retryDelayMs_, timers, client>>
  BY DEF CloseUnwanted
<1>2. openFds = Cardinality(Sockets) + 1  BY DEF SocketsInv, Attempts
<1>3. ConnectorOK'  BY <1>0, <1>1, <1>2 DEF ConnectorOK
<1>4. Sockets' = Sockets  BY <1>1 DEF Sockets, client
<1>5. SocketsInv'  BY <1>0, <1>1, <1>2, <1>4 DEF SocketsInv, Attempts
<1>6. openFds' < openFds  BY <1>0, <1>1, <1>2
<1> QED  BY <1>1, <1>3, <1>5, <1>6

\* TcpClient::newConn(): the socket of the attempt becomes that of a new
\* connection.
LEMMA NewConnEffect ==
  ASSUME ConnectorOK, ClientOK, SocketsInv, StateInv, channel_ = "added",
         failed' = "no", NextConn <= MaxConn, newConn
  PROVE  /\ channel_' = "removed" /\ state_' = "Connected"
         /\ conn_ = 0 /\ conn_' = NextConn
         /\ NextConn \in 1 .. MaxConn /\ conns[NextConn] = "none"
         /\ conns' = [conns EXCEPT ![NextConn] = "open"]
         /\ ConnectorOK' /\ ClientOK' /\ SocketsInv'
         /\ UNCHANGED <<connect_, timers, openFds>>
         /\ Used' = 1 .. Cardinality(Used')
<1>0. /\ Cardinality(Sockets) \in Nat /\ IsFiniteSet(Sockets)
      /\ Cardinality(Used) \in Nat /\ IsFiniteSet(Used)
  BY FiniteParts
<1>1. /\ channel_' = "removed" /\ state_' = "Connected" /\ conn_ = 0 /\ conn_' = NextConn
      /\ conns' = [conns EXCEPT ![NextConn] = "open"]
      /\ UNCHANGED <<connect_, retryDelayMs_, timers, openFds, clientAlive, retry_>>
  BY DEF newConn, Fail
<1>2. DOMAIN conns = 1 .. MaxConn  BY DEF ClientOK
<1>3. NextConn = 1 + Cardinality(Used)  BY <1>2 DEF NextConn, Used
<1>4. NextConn \in 1 .. MaxConn  BY <1>0, <1>3, ClientAssumption
<1>5. NextConn \notin Used  BY <1>0, <1>3 DEF StateInv
<1>6. conns[NextConn] = "none"  BY <1>4, <1>5 DEF Used
<1>7. ConnectorOK' /\ ClientOK'  BY <1>1, <1>4 DEF ConnectorOK, ClientOK
<1>8. Sockets' = Sockets \cup {NextConn} /\ NextConn \notin Sockets
  BY <1>1, <1>4, <1>6 DEF Sockets, ClientOK
<1>9. Cardinality(Sockets') = Cardinality(Sockets) + 1  BY <1>0, <1>8, FS_AddElement
<1>10. SocketsInv'  BY <1>0, <1>1, <1>9 DEF SocketsInv, Attempts
<1>11. Used' = Used \cup {NextConn}  BY <1>1, <1>4, <1>6 DEF Used, ClientOK
<1>12. Cardinality(Used') = Cardinality(Used) + 1  BY <1>0, <1>5, <1>11, FS_AddElement
<1>13. Used = 1 .. Cardinality(Used)  BY DEF StateInv
<1>14. Used' = 1 .. (Cardinality(Used) + 1)  BY <1>0, <1>3, <1>11, <1>13
<1> QED  BY <1>1, <1>4, <1>6, <1>7, <1>10, <1>12, <1>14

\* TcpClient::rmConn(): the connection is closing, its socket still open.
LEMMA LoseConnEffect ==
  ASSUME ConnectorOK, ClientOK, SocketsInv, StateInv, failed' = "no",
         NEW n \in 1 .. MaxConn, conns[n] = "open", NEW q, rmConn(n, q)
  PROVE  /\ conn_ = n /\ conn_' = 0
         /\ conns' = [conns EXCEPT ![n] = "closing"]
         /\ pending' = Append(q, Destroyed(n))
         /\ lpc' = IF retry_ /\ wanted THEN "restart" ELSE "idle"
         /\ ConnectorOK' /\ ClientOK' /\ SocketsInv' /\ UNCHANGED connector
         /\ Used' = Used
<1>1. conn_ = n  BY DEF StateInv
<1>2. clientAlive
  <2> SUFFICES ASSUME ~clientAlive PROVE FALSE  OBVIOUS
  <2> QED  BY DEF rmConn, Fail
<1>3. /\ conn_' = 0 /\ conns' = [conns EXCEPT ![n] = "closing"]
      /\ pending' = Append(q, Destroyed(n))
      /\ lpc' = IF retry_ /\ wanted THEN "restart" ELSE "idle"
      /\ UNCHANGED <<connector, clientAlive, retry_>>
  BY <1>1, <1>2 DEF rmConn, Destroyed
<1>4. ConnectorOK'  BY <1>3 DEF ConnectorOK, connector
<1>5. ClientOK'  BY <1>3, ClientAssumption DEF ClientOK
<1>6. Sockets' = Sockets  BY <1>3 DEF Sockets, ClientOK
<1>7. SocketsInv'  BY <1>3, <1>6 DEF SocketsInv, Attempts, connector
<1>8. Used' = Used  BY <1>3 DEF Used, ClientOK
<1> QED  BY <1>1, <1>3, <1>4, <1>5, <1>7, <1>8

\* connectDestroyed(): the socket of the connection is closed.
LEMMA DestroyEffect ==
  ASSUME ConnectorOK, ClientOK, SocketsInv,
         NEW n \in 1 .. MaxConn, conns[n] = "closing",
         conns' = [conns EXCEPT ![n] = "gone"], openFds' = openFds - 1,
         UNCHANGED <<connect_, state_, channel_, retryDelayMs_, timers,
                     clientAlive, retry_, conn_>>
  PROVE  ConnectorOK' /\ ClientOK' /\ SocketsInv' /\ Used' = Used /\ openFds' < openFds
<1>0. Cardinality(Sockets) \in Nat /\ IsFiniteSet(Sockets)  BY FiniteParts
<1>1. Sockets' = Sockets \ {n} /\ n \in Sockets  BY DEF Sockets, ClientOK
<1>2. Cardinality(Sockets') = Cardinality(Sockets) - 1  BY <1>0, <1>1, FS_RemoveElement
<1>3. Cardinality(Sockets) > 0  BY <1>0, <1>1, FS_EmptySet
<1>4. Attempts \in Nat /\ Attempts' = Attempts  BY DEF Attempts
<1>5. openFds = Cardinality(Sockets) + Attempts  BY DEF SocketsInv
<1>6. openFds' \in Nat /\ openFds' = Cardinality(Sockets') + Attempts' /\ openFds' < openFds
  BY <1>0, <1>2, <1>3, <1>4, <1>5
<1>7. ConnectorOK' /\ ClientOK'  BY <1>6 DEF ConnectorOK, ClientOK
<1>8. Used' = Used  BY DEF Used, ClientOK
<1> QED  BY <1>6, <1>7, <1>8 DEF SocketsInv

-----------------------------------------------------------------------------
(* The assertions.                                                         *)

\* Connector::connect() fails only on a channel_ that is still there.
LEMMA ConnectAborts ==
  ASSUME Connect, failed = "no", failed' # "no"
  PROVE  /\ UNCHANGED <<connector, client, gaveUp>>
         /\ \/ failed' = "channel" /\ channel_ # "null"
            \/ failed' = "connector" /\ ~ConnectorAlive
BY DEF Connect, connecting, RetryAtOnce, GiveUp, Fail

\* Connector::startInLoop() fails in any other state than Disconnected.
LEMMA StartAborts ==
  ASSUME startInLoop, failed = "no", failed' # "no"
  PROVE  /\ UNCHANGED <<connector, client, gaveUp>>
         /\ \/ failed' = "start" /\ state_ # "Disconnected"
            \/ failed' = "connector" /\ ~ConnectorAlive
<1>1. CASE ~ConnectorAlive  BY <1>1 DEF startInLoop, Fail
<1>2. CASE ConnectorAlive /\ state_ # "Disconnected"  BY <1>2 DEF startInLoop, Fail
<1>3. CASE ConnectorAlive /\ state_ = "Disconnected"  BY <1>3 DEF startInLoop, Nothing
<1> QED  BY <1>1, <1>2, <1>3

\* What a step that fails leaves.
Aborted ==
  /\ UNCHANGED <<connector, client, gaveUp>>
  /\ failed' \in {"start", "channel", "stopNull", "dtor", "connector", "client"}
  /\ ClientAsserts'

\* The first functor of the queue is one of its members.
LEMMA HeadFacts ==
  ASSUME LoopOK, left > 0
  PROVE  /\ pending \in Seq(Functor) /\ pending # <<>> /\ Head(pending) = pending[1]
         /\ Head(pending) \in Functor /\ 1 \in 1 .. Len(pending)
         /\ \A f : Head(pending) = f => Count(pending, f) >= 1
<1>1. pending \in Seq(Functor) /\ Len(pending) \in Nat /\ left \in Nat /\ left <= Len(pending)
  BY LenProperties DEF LoopOK
<1>2. pending # <<>> /\ 1 \in 1 .. Len(pending)  BY <1>1, EmptySeq
<1>3. Head(pending) = pending[1] /\ Head(pending) \in Functor
  BY <1>1, <1>2, HeadTailProperties
<1>4. ASSUME NEW f, Head(pending) = f  PROVE Count(pending, f) >= 1
  <2>1. Count(pending, f) \in Nat  BY <1>1, PlacesFinite
  <2>2. Count(pending, f) # 0  BY <1>1, <1>2, <1>3, <1>4, CountZero
  <2> QED  BY <2>1, <2>2
<1> QED  BY <1>1, <1>2, <1>3, <1>4

\* RunFunc: by the functor that is first.
LEMMA RunCases ==
  ASSUME LoopOK, RunFunc
  PROVE  /\ left > 0
         /\ \/ /\ Head(pending) = Start /\ pending' = Tail(pending) /\ lpc' = "start"
               /\ \/ ~ConnectorAlive /\ Fail("connector")
                  \/ Nothing
            \/ /\ Head(pending) = <<"stop", 0>> /\ pending' = Tail(pending) /\ lpc' = lpc
               /\ \/ ~ConnectorAlive /\ Fail("connector")
                  \/ stopInLoop
            \/ /\ Head(pending) = Reset /\ pending' = Tail(pending) /\ lpc' = lpc
               /\ \/ ~ConnectorAlive /\ Fail("connector")
                  \/ resetChannel
            \/ \E n \in 1 .. MaxConn :
                 /\ Head(pending) = Destroyed(n) /\ pending' = Tail(pending) /\ lpc' = lpc
                 /\ conns' = [conns EXCEPT ![n] = "gone"] /\ openFds' = openFds - 1
                 /\ UNCHANGED <<connect_, state_, channel_, retryDelayMs_, timers,
                                clientAlive, retry_, conn_, failed, gaveUp>>
            \/ \E n \in 1 .. MaxConn :
                 /\ Head(pending) = ForceCloseOf(n) /\ conns[n] = "open"
                 /\ rmConn(n, Tail(pending))
            \/ \E n \in 1 .. MaxConn :
                 /\ Head(pending) = ForceCloseOf(n) /\ conns[n] # "open"
                 /\ pending' = Tail(pending) /\ lpc' = lpc /\ Nothing
<1> DEFINE f == Head(pending)
<1>0. left > 0  BY DEF RunFunc
<1>1. f \in Functor  BY <1>0, HeadFacts
<1>2. \/ f = Start \/ f = <<"stop", 0>> \/ f = Reset
      \/ \E n \in 1 .. MaxConn : f = Destroyed(n) \/ f = ForceCloseOf(n)
  BY <1>1 DEF Functor, Start, Reset, Destroyed, ForceCloseOf
<1>3. CASE f = Start
  <2>1. f[1] = "start" /\ f[1] # "forceClose"  BY <1>3 DEF Start
  <2>2. Run(f) /\ pending' = Tail(pending) /\ lpc' = "start"  BY <2>1 DEF RunFunc
  <2>3. (~ConnectorAlive /\ Fail("connector")) \/ Nothing
    BY <2>1, <2>2 DEF Run
  <2> QED  BY <1>0, <1>3, <2>2, <2>3
<1>4. CASE f = <<"stop", 0>>
  <2>1. f[1] = "stop" /\ f[1] # "forceClose" /\ f[1] # "start"  BY <1>4
  <2>2. Run(f) /\ pending' = Tail(pending) /\ lpc' = lpc  BY <2>1 DEF RunFunc
  <2>3. (~ConnectorAlive /\ Fail("connector")) \/ stopInLoop  BY <2>1, <2>2 DEF Run
  <2> QED  BY <1>0, <1>4, <2>2, <2>3
<1>5. CASE f = Reset
  <2>1. f[1] = "reset" /\ f[1] # "forceClose" /\ f[1] # "start"  BY <1>5 DEF Reset
  <2>2. Run(f) /\ pending' = Tail(pending) /\ lpc' = lpc  BY <2>1 DEF RunFunc
  <2>3. (~ConnectorAlive /\ Fail("connector")) \/ resetChannel  BY <2>1, <2>2 DEF Run
  <2> QED  BY <1>0, <1>5, <2>2, <2>3
<1>6. ASSUME NEW n \in 1 .. MaxConn, f = Destroyed(n)
      PROVE  /\ pending' = Tail(pending) /\ lpc' = lpc
             /\ conns' = [conns EXCEPT ![n] = "gone"] /\ openFds' = openFds - 1
             /\ UNCHANGED <<connect_, state_, channel_, retryDelayMs_, timers,
                            clientAlive, retry_, conn_, failed, gaveUp>>
  <2>1. f[1] = "destroyed" /\ f[1] # "forceClose" /\ f[1] # "start" /\ f[2] = n
    BY <1>6 DEF Destroyed
  <2>2. Run(f) /\ pending' = Tail(pending) /\ lpc' = lpc  BY <2>1 DEF RunFunc
  <2> QED  BY <2>1, <2>2 DEF Run
<1>7. ASSUME NEW n \in 1 .. MaxConn, f = ForceCloseOf(n)
      PROVE  \/ conns[n] = "open" /\ rmConn(n, Tail(pending))
             \/ conns[n] # "open" /\ pending' = Tail(pending) /\ lpc' = lpc /\ Nothing
  <2>1. f[1] = "forceClose" /\ f[1] # "start" /\ f[2] = n  BY <1>7 DEF ForceCloseOf
  <2> QED  BY <2>1 DEF RunFunc
<1> HIDE DEF f
<1> QED  BY <1>0, <1>2, <1>3, <1>4, <1>5, <1>6, <1>7 DEF f

\* What the invariant says of a program that runs, in parts.
LEMMA InvParts ==
  ASSUME ClientInv, failed = "no"
  PROVE  /\ ConnectorOK /\ ClientOK /\ LoopOK /\ HistoryOK /\ SocketsInv
         /\ TokenInv /\ StateInv /\ ResetInv /\ DestroyInv /\ BatchInv /\ OnceInv /\ StopInv
         /\ Cardinality(timers) \in Nat /\ Count(pending, Start) \in Nat
         /\ Cardinality(timers) <= starts
         /\ timers \in SUBSET TimerId
<1>1. ConnectorOK /\ ClientOK /\ LoopOK /\ HistoryOK /\ Running
  BY TypeParts DEF ClientInv, SocketsOwned
<1>2. SocketsInv  BY <1>1, SocketsParts DEF ClientInv, SocketsOwned
<1>3. timers \in SUBSET TimerId  BY <1>1 DEF ConnectorOK
<1>4. Cardinality(timers) \in Nat /\ Count(pending, Start) \in Nat
  BY <1>1, <1>3, FiniteParts, PlacesFinite DEF LoopOK
<1>5. Busy \in Nat /\ Launching \in Nat /\ starts \in Nat
  BY <1>1 DEF Busy, Launching, HistoryOK
<1>6. Cardinality(timers) <= starts  BY <1>1, <1>4, <1>5 DEF Running, TokenInv
<1> QED  BY <1>1, <1>2, <1>3, <1>4, <1>6 DEF Running

\* A timer, or a call of startInLoop(), is one connect() more than the state
\* that is not Disconnected.
LEMMA TwoStarts ==
  ASSUME ClientInv, failed = "no", state_ # "Disconnected", timers # {} \/ lpc = "start"
  PROVE  starts > 1
<1>1. /\ Cardinality(timers) \in Nat /\ Count(pending, Start) \in Nat
      /\ starts \in Nat /\ IsFiniteSet(timers)
      /\ Launching \in Nat /\ (lpc = "start" => Launching = 1)
      /\ Cardinality(timers) + Count(pending, Start) + 1 + Launching <= starts
  BY InvParts, FiniteParts DEF HistoryOK, TokenInv, Busy, Launching
<1>2. timers # {} => Cardinality(timers) >= 1  BY <1>1, FS_EmptySet
<1> QED  BY <1>1, <1>2

\* A functor that fails.
LEMMA RunAborts ==
  ASSUME ClientInv, failed = "no", failed' # "no", RunFunc
  PROVE  Aborted
<1>0. LoopOK /\ StateInv  BY InvParts
<1>1. ASSUME ~ConnectorAlive, Fail("connector")  PROVE Aborted
  BY <1>1 DEF Aborted, Fail, ClientAsserts, ConnectorAlive, client
<1>2. ASSUME stopInLoop  PROVE Aborted
  BY <1>2 DEF stopInLoop, Fail, Nothing, Aborted, ClientAsserts
<1>3. ASSUME resetChannel  PROVE FALSE  BY <1>3 DEF resetChannel
<1>4. ASSUME NEW n \in 1 .. MaxConn, conns[n] = "open", rmConn(n, Tail(pending))
      PROVE  Aborted
  <2>1. conn_ = n  BY <1>0, <1>4 DEF StateInv
  <2>2. Fail("client") /\ ~clientAlive  BY <1>4, <2>1 DEF rmConn
  <2> QED  BY <2>2 DEF Aborted, Fail, ClientAsserts, client
<1> QED  BY <1>0, <1>1, <1>2, <1>3, <1>4, RunCases DEF Nothing

\* A method of the Connector that fails.
LEMMA MethodAborts ==
  ASSUME ClientInv, failed = "no", failed' # "no",
         Restart \/ startInLoop \/ Connect \/ Release
  PROVE  Aborted
<1>0. StateInv /\ OnceInv /\ HistoryOK  BY InvParts
<1>1. ASSUME ~ConnectorAlive, failed' = "connector",
             UNCHANGED <<connector, client, gaveUp>>
      PROVE  Aborted
  BY <1>1 DEF Aborted, ClientAsserts, ConnectorAlive, client
<1>2. CASE Restart
  <2>1. ~ConnectorAlive /\ Fail("connector")  BY <1>2 DEF Restart
  <2> QED  BY <1>1, <2>1 DEF Fail
<1>3. CASE startInLoop
  <2>1. lpc = "start" /\ starts' = starts  BY <1>3 DEF startInLoop, Method
  <2>2. ASSUME failed' = "start", state_ # "Disconnected"  PROVE Aborted
    <3>1. starts > 1  BY <2>1, <2>2, TwoStarts
    <3> QED  BY <1>3, <2>1, <2>2, <3>1, StartAborts DEF Aborted, ClientAsserts
  <2> QED  BY <1>1, <1>3, <2>2, StartAborts
<1>4. CASE Connect
  <2>1. lpc = "connect" /\ starts' = starts  BY <1>4 DEF Connect, Method
  <2>2. ASSUME failed' = "channel", channel_ # "null"  PROVE Aborted
    <3>1. starts > 1  BY <1>0, <2>1, <2>2 DEF OnceInv, HistoryOK
    <3> QED  BY <1>4, <2>1, <2>2, <3>1, ConnectAborts DEF Aborted, ClientAsserts
  <2> QED  BY <1>1, <1>4, <2>2, ConnectAborts
<1>5. CASE Release
  <2>1. Fail("dtor")  BY <1>5 DEF Release, Nothing
  <2> QED  BY <2>1 DEF Fail, Aborted, ClientAsserts
<1> QED  BY <1>2, <1>3, <1>4, <1>5

\* The Connector's channel: what it finds is the attempt that was polled.
LEMMA ChannelAborts ==
  ASSUME ClientInv, failed = "no", failed' # "no", Connected \/ ConnectFails
  PROVE  Aborted
<1>0. BatchInv /\ StateInv  BY InvParts
<1>1. <<"channel", 0>> \in active
  BY DEF Connected, ConnectFails, ChannelEvent, Handle
<1>2. channel_ = "added" /\ state_ = "Connecting" /\ conn_ = 0
  BY <1>0, <1>1 DEF BatchInv, StateInv
<1>3. CASE ~ConnectorAlive
  <2>1. Fail("connector")  BY <1>3 DEF Connected, ConnectFails, ChannelEvent
  <2> QED  BY <1>3, <2>1 DEF Aborted, Fail, ClientAsserts, ConnectorAlive, client
<1>4. CASE ConnectorAlive
  <2>1. LoseAttempt \/ newConn \/ CloseUnwanted
    BY <1>2, <1>4 DEF Connected, ConnectFails, ChannelEvent, handleWrite, handleError
  <2>2. ~LoseAttempt  BY <1>2 DEF LoseAttempt
  <2>3. ~CloseUnwanted  BY DEF CloseUnwanted
  <2>4. newConn  BY <2>1, <2>2, <2>3
  <2>5. Fail("client") /\ ~clientAlive  BY <1>2, <2>4 DEF newConn
  <2> QED  BY <2>5 DEF Aborted, Fail, ClientAsserts, client
<1> QED  BY <1>3, <1>4

\* Any other step that fails.
LEMMA NextAborts ==
  ASSUME ClientInv, failed = "no", failed' # "no", Next
  PROVE  Aborted
<1>0. BatchInv  BY InvParts
<1>1. ASSUME NEW k, TimerFires(k)  PROVE FALSE  BY <1>1 DEF TimerFires
<1>2. ASSUME NEW n \in 1 .. MaxConn, ConnLost(n)  PROVE Aborted
  <2>1. conn_ = n /\ rmConn(n, pending)
    BY <1>0, <1>2 DEF ConnLost, Handle, BatchInv
  <2>2. Fail("client") /\ ~clientAlive  BY <2>1 DEF rmConn
  <2> QED  BY <2>2 DEF Aborted, Fail, ClientAsserts, client
<1>3. ASSUME NEW t, Destroy(t)  PROVE Aborted
  BY <1>3 DEF Destroy, Fail, Aborted, ClientAsserts
<1>4. ASSUME NEW t, ConnectCall(t) \/ Disconnect(t) \/ Stop(t) \/ ForceClose(t)
      PROVE  FALSE
  BY <1>4 DEF ConnectCall, Disconnect, Stop, ForceClose
<1>5. ASSUME \E sources \in SUBSET Possible : Poll(sources)  PROVE FALSE
  BY <1>5 DEF Poll
<1>6. ASSUME DoPendingFuncs  PROVE FALSE  BY <1>6 DEF DoPendingFuncs
<1> QED
  BY <1>1, <1>2, <1>3, <1>4, <1>5, <1>6, RunAborts, MethodAborts, ChannelAborts
  DEF Next, LoopStep, UserStep

-----------------------------------------------------------------------------
(* Types of the queue, of the batch and of the history.                    *)

\* queueInLoop() and the removal of the first functor keep the queue's type.
LEMMA QueueType ==
  ASSUME NEW s \in Seq(Functor), NEW g \in Functor
  PROVE  /\ Append(s, g) \in Seq(Functor) /\ Len(Append(s, g)) = Len(s) + 1
         /\ Len(s) \in Nat
         /\ s # <<>> => Tail(s) \in Seq(Functor) /\ Len(Tail(s)) = Len(s) - 1
BY AppendProperties, HeadTailProperties, LenProperties

\* What the client and its connections queue are functors.
LEMMA FunctorMembers ==
  /\ Start \in Functor /\ Reset \in Functor /\ <<"stop", 0>> \in Functor
  /\ \A n \in 1 .. MaxConn : Destroyed(n) \in Functor /\ ForceCloseOf(n) \in Functor
BY DEF Functor, Start, Reset, Destroyed, ForceCloseOf

LoopPoint == {"idle", "restart", "start", "connect"}

\* rmConn() queues connectDestroyed(), or nothing.
LEMMA RmConnType ==
  ASSUME NEW n \in 1 .. MaxConn, NEW q \in Seq(Functor), rmConn(n, q),
         lpc \in LoopPoint
  PROVE  /\ pending' \in Seq(Functor) /\ Len(pending') >= Len(q) /\ Len(q) \in Nat
         /\ lpc' \in LoopPoint
<1>1. pending' = q \/ pending' = Append(q, Destroyed(n))  BY DEF rmConn, Destroyed
<1>2. lpc' \in LoopPoint  BY DEF rmConn, LoopPoint
<1> QED  BY <1>1, <1>2, QueueType, FunctorMembers

\* The queue and the batch keep their types, failure or not.
LEMMA LoopType ==
  ASSUME ConnectorOK, ClientOK, LoopOK, Next
  PROVE  LoopOK'
<1>0. /\ pending \in Seq(Functor) /\ Len(pending) \in Nat /\ left \in Nat
      /\ left <= Len(pending) /\ lpc \in LoopPoint /\ held \in BOOLEAN
  BY LenProperties DEF LoopOK, LoopPoint
<1> DEFINE Longer == /\ pending' \in Seq(Functor) /\ Len(pending') \in Nat
                     /\ Len(pending') >= Len(pending)
<1>1. ASSUME NEW g \in Functor, pending' = Append(pending, g)  PROVE Longer
  BY <1>0, <1>1, QueueType
<1>2. ASSUME pending' = pending  PROVE Longer  BY <1>0, <1>2
<1>3. ASSUME Longer, left' = left, lpc' \in LoopPoint, polled' = polled,
             active' \subseteq active, held' \in BOOLEAN
      PROVE  LoopOK'
  BY <1>0, <1>3 DEF LoopOK, LoopPoint
<1>4. ASSUME NEW sources \in SUBSET Possible, Poll(sources)  PROVE LoopOK'
  <2>1. Possible \subseteq Source
    BY DEF Possible, Source, ConnectorOK, ClientOK
  <2> QED  BY <1>0, <1>4, <2>1 DEF Poll, LoopOK
<1>5. ASSUME DoPendingFuncs  PROVE LoopOK'
  <2>1. /\ pending' = pending /\ active' = active /\ lpc' = lpc /\ polled' = FALSE
        /\ left' = Len(pending) /\ held' = held
    BY <1>5 DEF DoPendingFuncs
  <2>2. left' \in 0 .. Len(pending')  BY <1>0, <2>1
  <2> QED  BY <2>1, <2>2 DEF LoopOK
<1>6. ASSUME RunFunc  PROVE LoopOK'
  <2>1. /\ left > 0 /\ left' = left - 1 /\ polled' = polled /\ active' = active
        /\ held' = held
    BY <1>6 DEF RunFunc
  <2>2. /\ pending # <<>> /\ Tail(pending) \in Seq(Functor)
        /\ Len(Tail(pending)) = Len(pending) - 1 /\ Len(Tail(pending)) \in Nat
    BY <1>0, <2>1, HeadFacts, QueueType, FunctorMembers
  <2>3. ASSUME NEW n \in 1 .. MaxConn, rmConn(n, Tail(pending))  PROVE LoopOK'
    <3>1. /\ pending' \in Seq(Functor) /\ Len(pending') >= Len(Tail(pending))
          /\ Len(pending') \in Nat /\ lpc' \in LoopPoint
      BY <1>0, <2>2, <2>3, RmConnType, LenProperties
    <3> QED  BY <1>0, <2>1, <2>2, <3>1 DEF LoopOK, LoopPoint
  <2>4. ASSUME pending' = Tail(pending), lpc' \in LoopPoint  PROVE LoopOK'
    BY <1>0, <2>1, <2>2, <2>4 DEF LoopOK, LoopPoint
  <2>5. "start" \in LoopPoint  BY DEF LoopPoint
  <2> QED  BY <1>0, <1>6, <2>3, <2>4, <2>5, RunCases
<1>7. ASSUME Restart \/ startInLoop \/ Connect \/ Release  PROVE LoopOK'
  <2>1. /\ pending' = pending /\ left' = left /\ polled' = polled /\ active' = active
    BY <1>7 DEF Restart, startInLoop, Connect, Release, Method
  <2>2. lpc' = lpc \/ lpc' \in {"idle", "start", "connect"}
    BY <1>7 DEF Restart, startInLoop, Connect, Release
  <2>3. held' \in BOOLEAN
    BY <1>0, <1>7 DEF Restart, startInLoop, Connect, Release, Method
  <2>4. lpc' \in LoopPoint  BY <1>0, <2>2 DEF LoopPoint
  <2> QED  BY <1>2, <1>3, <2>1, <2>3, <2>4
<1>8. ASSUME NEW k, TimerFires(k)  PROVE LoopOK'
  <2>1. /\ pending' = pending /\ left' = left /\ lpc' = "start" /\ polled' = polled
        /\ active' \subseteq active /\ held' = TRUE
    BY <1>8 DEF TimerFires, Handle
  <2>2. lpc' \in LoopPoint /\ held' \in BOOLEAN  BY <2>1 DEF LoopPoint
  <2> QED  BY <1>2, <1>3, <2>1, <2>2
<1>9. ASSUME Connected \/ ConnectFails  PROVE LoopOK'
  <2>1. /\ left' = left /\ lpc' = lpc /\ polled' = polled /\ active' \subseteq active
        /\ held' = held
        /\ pending' = pending \/ pending' = Append(pending, Reset)
    BY <1>9 DEF Connected, ConnectFails, ChannelEvent, Handle, Reset
  <2> QED  BY <1>0, <1>1, <1>2, <1>3, <2>1, FunctorMembers
<1>10. ASSUME NEW n \in 1 .. MaxConn, ConnLost(n)  PROVE LoopOK'
  <2>1. /\ left' = left /\ polled' = polled /\ active' \subseteq active
        /\ held' = held /\ rmConn(n, pending)
    BY <1>10 DEF ConnLost, Handle
  <2>2. Longer /\ lpc' \in LoopPoint  BY <1>0, <2>1, RmConnType, LenProperties
  <2> QED  BY <1>0, <1>3, <2>1, <2>2
<1>11. ASSUME NEW t, UserStep(t)  PROVE LoopOK'
  <2>1. /\ left' = left /\ polled' = polled /\ active' = active /\ held' = held
        /\ lpc' = lpc \/ lpc' = "start"
    BY <1>11 DEF UserStep, ConnectCall, Disconnect, Stop, ForceClose, Destroy, Call
  <2>2. \/ pending' = pending \/ pending' = Append(pending, Start)
        \/ pending' = Append(pending, <<"stop", 0>>)
        \/ conn_ # 0 /\ pending' = Append(pending, ForceCloseOf(conn_))
    BY <1>11 DEF UserStep, ConnectCall, Disconnect, Stop, ForceClose, Destroy, Queue,
                 Start, ForceCloseOf
  <2>3. conn_ # 0 => conn_ \in 1 .. MaxConn  BY ClientAssumption DEF ClientOK
  <2>4. Longer  BY <1>1, <1>2, <2>2, <2>3, FunctorMembers
  <2>5. lpc' \in LoopPoint  BY <1>0, <2>1 DEF LoopPoint
  <2> QED  BY <1>0, <1>3, <2>1, <2>4, <2>5
<1> QED
  BY <1>4, <1>5, <1>6, <1>7, <1>8, <1>9, <1>10, <1>11 DEF Next, LoopStep

\* gaveUp stays a flag.
LEMMA GaveUpType ==
  ASSUME HistoryOK, LoopOK, Next
  PROVE  gaveUp' \in BOOLEAN
<1>0. gaveUp \in BOOLEAN  BY DEF HistoryOK
<1>1. ASSUME Connect  PROVE gaveUp' \in BOOLEAN
  BY <1>0, <1>1 DEF Connect, connecting, RetryAtOnce, GiveUp, Fail
<1>2. ASSUME startInLoop  PROVE gaveUp' \in BOOLEAN
  BY <1>0, <1>2 DEF startInLoop, Fail, Nothing
<1>3. ASSUME NEW n, NEW q, rmConn(n, q)  PROVE gaveUp' \in BOOLEAN
  BY <1>0, <1>3 DEF rmConn, Fail
<1>4. ASSUME Connected \/ ConnectFails  PROVE gaveUp' \in BOOLEAN
  <2>1. \/ Fail("connector") \/ Fail("write") \/ LoseAttempt \/ newConn \/ CloseUnwanted
        \/ Nothing
    BY <1>4 DEF Connected, ConnectFails, ChannelEvent, handleWrite, handleError
  <2> QED  BY <1>0, <2>1 DEF Fail, LoseAttempt, newConn, CloseUnwanted, Nothing
<1>5. ASSUME RunFunc  PROVE gaveUp' \in BOOLEAN
  <2>1. \/ Fail("connector") \/ stopInLoop
        \/ resetChannel \/ gaveUp' = gaveUp \/ \E n : rmConn(n, Tail(pending))
    BY <1>5, RunCases DEF Nothing
  <2>2. ASSUME stopInLoop \/ resetChannel \/ Fail("connector")  PROVE gaveUp' = gaveUp
    BY <2>2 DEF Fail, stopInLoop, Nothing, resetChannel
  <2> QED  BY <1>0, <1>3, <2>1, <2>2
<1>6. ASSUME Restart \/ Release  PROVE gaveUp' \in BOOLEAN
  BY <1>0, <1>6 DEF Restart, Release, Fail, Nothing
<1>7. ASSUME NEW k, TimerFires(k)  PROVE gaveUp' \in BOOLEAN
  BY <1>0, <1>7 DEF TimerFires
<1>8. ASSUME NEW n, ConnLost(n)  PROVE gaveUp' \in BOOLEAN
  BY <1>3, <1>8 DEF ConnLost
<1>9. ASSUME NEW t, UserStep(t)  PROVE gaveUp' \in BOOLEAN
  BY <1>0, <1>9 DEF UserStep, ConnectCall, Disconnect, Stop, ForceClose, Destroy, Fail
<1>10. ASSUME \E sources \in SUBSET Possible : Poll(sources)  PROVE gaveUp' \in BOOLEAN
  BY <1>0, <1>10 DEF Poll, history
<1>11. ASSUME DoPendingFuncs  PROVE gaveUp' \in BOOLEAN
  BY <1>0, <1>11 DEF DoPendingFuncs, history
<1> QED
  BY <1>1, <1>2, <1>4, <1>5, <1>6, <1>7, <1>8, <1>9, <1>10, <1>11 DEF Next, LoopStep

\* The history and the flags of TcpClient keep their types.
LEMMA HistoryType ==
  ASSUME ClientInv, failed = "no", Next
  PROVE  HistoryOK'
<1>0. HistoryOK /\ LoopOK /\ TokenInv  BY InvParts
<1>1. gaveUp' \in BOOLEAN  BY <1>0, GaveUpType
<1>2. failed' \in {"no", "start", "channel", "write", "null", "stopNull", "dtor",
                   "connector", "client", "rmConn", "overwrite"}
  BY NextAborts DEF Aborted
<1>3. starts \in Nat /\ calls \in Nat /\ starts <= calls /\ calls <= MaxCalls
  BY <1>0 DEF HistoryOK, TokenInv
<1>4. ASSUME UNCHANGED <<wanted, calls, starts, stopped>>,
             raced' = raced \/ raced' = "no"
      PROVE  HistoryOK'
  BY <1>0, <1>1, <1>2, <1>4 DEF HistoryOK
<1>5. ASSUME NEW t, UserStep(t)  PROVE HistoryOK'
  <2>1. Call(t)
    BY <1>5 DEF UserStep, ConnectCall, Disconnect, Stop, ForceClose, Destroy
  <2>2. calls < MaxCalls /\ calls' = calls + 1  BY <2>1 DEF Call
  <2>3. starts' = starts \/ starts' = starts + 1
    BY <1>5 DEF UserStep, ConnectCall, Disconnect, Stop, ForceClose, Destroy
  <2>4. calls' \in 0 .. MaxCalls /\ starts' \in 0 .. MaxCalls
    BY <1>3, <2>2, <2>3, ClientAssumption
  <2>5. CASE Stop(t)
    <3>1. /\ wanted' = FALSE /\ stopped' = TRUE
          /\ raced' = IF lpc \in {"restart", "connect"} THEN lpc ELSE "no"
      BY <2>5 DEF Stop
    <3>2. raced' \in {"no", "restart", "connect"}  BY <3>1
    <3> QED  BY <1>1, <1>2, <2>4, <3>1, <3>2 DEF HistoryOK
  <2>6. CASE ConnectCall(t) \/ Disconnect(t) \/ ForceClose(t) \/ Destroy(t)
    <3>1. /\ wanted' = wanted \/ wanted' = TRUE \/ wanted' = FALSE
          /\ stopped' = stopped \/ stopped' = FALSE
          /\ raced' = raced \/ raced' = "no"
      BY <2>6 DEF ConnectCall, Disconnect, ForceClose, Destroy
    <3> QED  BY <1>0, <1>1, <1>2, <2>4, <3>1 DEF HistoryOK
  <2> QED  BY <1>5, <2>5, <2>6 DEF UserStep
<1>6. ASSUME \E sources \in SUBSET Possible : Poll(sources)  PROVE HistoryOK'
  BY <1>4, <1>6 DEF Poll, history
<1>7. ASSUME LoopStep  PROVE HistoryOK'
  <2>1. UNCHANGED <<wanted, calls, starts, stopped>> /\ (raced' = raced \/ raced' = "no")
    BY <1>7 DEF LoopStep, DoPendingFuncs, RunFunc, Restart, startInLoop, Connect, Release,
                Method, TimerFires, Connected, ConnectFails, ChannelEvent, ConnLost,
                Handle, history
  <2> QED  BY <1>4, <2>1
<1> QED  BY <1>5, <1>6, <1>7 DEF Next

-----------------------------------------------------------------------------
(* The queue.                                                              *)

\* A functor that is neither Reset nor Destroyed(n) is queued.
LEMMA QueueAdd ==
  ASSUME LoopOK, ResetInv, DestroyInv, NEW g \in Functor,
         pending' = Append(pending, g), g # Reset,
         \A n \in 1 .. MaxConn : g # Destroyed(n),
         \A n \in 1 .. MaxConn : g = ForceCloseOf(n) => conns[n] # "none",
         UNCHANGED <<channel_, conns, conn_, polled, left>>
  PROVE  ResetInv' /\ DestroyInv'
<1>1. /\ pending \in Seq(Functor) /\ Len(pending) \in Nat
      /\ Len(pending') = Len(pending) + 1
      /\ \A i \in 1 .. Len(pending) : pending'[i] = pending[i]
      /\ pending'[Len(pending) + 1] = g
  BY AppendProperties, LenProperties DEF LoopOK
<1>2. Count(pending', Reset) = Count(pending, Reset)
  BY <1>1, CountAppend, PlacesFinite
<1>3. \A n \in 1 .. MaxConn : Count(pending', Destroyed(n)) = Count(pending, Destroyed(n))
  BY <1>1, CountAppend, PlacesFinite
<1>4. \A i \in 1 .. Len(pending') : i \in 1 .. Len(pending) \/ i = Len(pending) + 1
  BY <1>1
<1>5. \A i \in 1 .. Len(pending') :
        pending'[i] = Reset => i \in 1 .. Len(pending) /\ pending[i] = Reset
  BY <1>1, <1>4
<1>6. \A i, j \in 1 .. Len(pending') :
        pending'[i] = Reset /\ pending'[j] = ForceCloseOf(conn_) => i < j
  <2> SUFFICES ASSUME NEW i \in 1 .. Len(pending'), NEW j \in 1 .. Len(pending'),
                      pending'[i] = Reset, pending'[j] = ForceCloseOf(conn_)
               PROVE  i < j
    OBVIOUS
  <2>1. i \in 1 .. Len(pending) /\ pending[i] = Reset  BY <1>5
  <2>2. CASE j \in 1 .. Len(pending)  BY <1>1, <2>1, <2>2 DEF ResetInv
  <2>3. CASE j = Len(pending) + 1  BY <1>1, <2>1, <2>3
  <2> QED  BY <1>4, <2>2, <2>3
<1>7. ResetInv'  BY <1>2, <1>5, <1>6 DEF ResetInv
<1>8. DestroyInv'  BY <1>1, <1>3, <1>4 DEF DestroyInv
<1> QED  BY <1>7, <1>8

\* What is left when the first functor is taken.
LEMMA PopFacts ==
  ASSUME LoopOK, left > 0, NEW q, q = Tail(pending)
  PROVE  /\ q \in Seq(Functor) /\ Len(q) = Len(pending) - 1 /\ Len(q) \in Nat
         /\ Len(pending) \in Nat
         /\ \A i \in 1 .. Len(q) : q[i] = pending[i + 1] /\ i + 1 \in 1 .. Len(pending)
         /\ \A f : Count(pending, f) = Count(q, f) + (IF Head(pending) = f THEN 1 ELSE 0)
         /\ \A f : Count(q, f) \in Nat
<1>1. pending \in Seq(Functor) /\ pending # <<>>  BY HeadFacts
<1>2. /\ q \in Seq(Functor) /\ Len(q) = Len(pending) - 1 /\ Len(q) \in Nat
      /\ Len(pending) \in Nat
      /\ \A i \in 1 .. Len(q) : q[i] = pending[i + 1]
  BY <1>1, HeadTailProperties, LenProperties
<1>3. \A i \in 1 .. Len(q) : i + 1 \in 1 .. Len(pending)  BY <1>2
<1> QED  BY <1>1, <1>2, <1>3, CountTail, PlacesFinite

\* A functor other than f is taken off the queue: f is queued as often.
LEMMA CountPop ==
  ASSUME LoopOK, left > 0, pending' = Tail(pending), NEW f, Head(pending) # f
  PROVE  Count(pending', f) = Count(pending, f)
<1>1. Count(pending', f) \in Nat /\ Count(pending, f) = Count(pending', f) + 0
  BY PopFacts
<1> QED  BY <1>1

\* A functor that is not Reset is taken off the queue.
LEMMA ResetPop ==
  ASSUME LoopOK, ResetInv, left > 0, left' = left - 1,
         pending' = Tail(pending), Head(pending) # Reset,
         channel_' = "removed" <=> channel_ = "removed",
         UNCHANGED <<conn_, polled>>
  PROVE  ResetInv'
<1>1. /\ Len(pending') = Len(pending) - 1 /\ Len(pending') \in Nat
      /\ \A i \in 1 .. Len(pending') :
           pending'[i] = pending[i + 1] /\ i + 1 \in 1 .. Len(pending)
  BY PopFacts
<1>2. Count(pending', Reset) = Count(pending, Reset)  BY CountPop
<1>3. ~polled' => \A i \in 1 .. Len(pending') : pending'[i] = Reset => i <= left'
  <2> SUFFICES ASSUME ~polled, NEW i \in 1 .. Len(pending'), pending'[i] = Reset
               PROVE  i <= left'
    OBVIOUS
  <2>1. i + 1 <= left  BY <1>1 DEF ResetInv
  <2> QED  BY <2>1 DEF LoopOK
<1>4. \A i, j \in 1 .. Len(pending') :
        pending'[i] = Reset /\ pending'[j] = ForceCloseOf(conn_) => i < j
  <2> SUFFICES ASSUME NEW i \in 1 .. Len(pending'), NEW j \in 1 .. Len(pending'),
                      pending'[i] = Reset, pending'[j] = ForceCloseOf(conn_)
               PROVE  i < j
    OBVIOUS
  <2>1. i + 1 < j + 1  BY <1>1 DEF ResetInv
  <2> QED  BY <2>1, <1>1
<1> QED  BY <1>2, <1>3, <1>4 DEF ResetInv

\* A functor that is neither Reset nor Destroyed(n) is taken off the queue.
LEMMA QueuePop ==
  ASSUME LoopOK, ResetInv, DestroyInv, left > 0, left' = left - 1,
         pending' = Tail(pending), Head(pending) # Reset,
         \A n \in 1 .. MaxConn : Head(pending) # Destroyed(n),
         channel_' = "removed" <=> channel_ = "removed",
         UNCHANGED <<conns, conn_, polled>>
  PROVE  ResetInv' /\ DestroyInv'
<1>1. \A i \in 1 .. Len(pending') :
         pending'[i] = pending[i + 1] /\ i + 1 \in 1 .. Len(pending)
  BY PopFacts
<1>2. \A n \in 1 .. MaxConn : Count(pending', Destroyed(n)) = Count(pending, Destroyed(n))
  BY CountPop
<1>3. DestroyInv'  BY <1>1, <1>2 DEF DestroyInv
<1> QED  BY <1>3, ResetPop

-----------------------------------------------------------------------------
(* Steps that fail no assertion.                                           *)

Quiet == TokenInv /\ StateInv /\ ResetInv /\ DestroyInv /\ BatchInv /\ OnceInv
Owned == ConnectorOK /\ ClientOK /\ SocketsInv

\* A step that leaves connections and sockets alone.
LEMMA OwnedUnchanged ==
  ASSUME Owned, UNCHANGED <<state_, channel_, retryDelayMs_, timers, openFds, conn_,
                            conns, retry_>>,
         connect_' \in BOOLEAN, clientAlive' \in BOOLEAN
  PROVE  Owned'
<1>1. ConnectorOK' /\ ClientOK'  BY DEF Owned, ConnectorOK, ClientOK
<1>2. Sockets' = Sockets /\ Attempts' = Attempts  BY DEF Sockets, Attempts
<1>3. SocketsInv'  BY <1>2 DEF Owned, SocketsInv
<1> QED  BY <1>1, <1>3 DEF Owned

\* A call from a user: at most a functor is queued.
LEMMA UserEffect ==
  ASSUME ClientInv, failed = "no",
         UNCHANGED <<state_, channel_, timers, conn_, conns, polled, active, left, lpc>>,
         calls' = calls + 1,
         \/ pending' = pending /\ starts' = starts
         \/ pending' = Append(pending, <<"stop", 0>>) /\ starts' = starts
         \/ conn_ # 0 /\ pending' = Append(pending, ForceCloseOf(conn_)) /\ starts' = starts
         \/ pending' = Append(pending, Start) /\ starts' = starts + 1
  PROVE  Quiet'
<1>0. /\ ConnectorOK /\ ClientOK /\ LoopOK /\ HistoryOK /\ TokenInv /\ StateInv
      /\ ResetInv /\ DestroyInv /\ BatchInv /\ OnceInv
      /\ Cardinality(timers) \in Nat /\ Count(pending, Start) \in Nat
  BY InvParts
<1>1. /\ pending \in Seq(Functor) /\ starts \in Nat /\ calls \in Nat /\ Busy \in Nat
      /\ starts <= calls /\ Launching \in Nat
      /\ Cardinality(timers) + Count(pending, Start) + Busy + Launching <= starts
  BY <1>0 DEF LoopOK, HistoryOK, Busy, Launching, TokenInv
<1>2. /\ conn_ # 0 => conn_ \in 1 .. MaxConn /\ conns[conn_] = "open"
  BY <1>0, ClientAssumption DEF ClientOK, StateInv
<1>3. ResetInv' /\ DestroyInv'
  <2>1. CASE pending' = pending  BY <1>0, <2>1 DEF ResetInv, DestroyInv
  <2>2. CASE pending' = Append(pending, <<"stop", 0>>)
    <3>1. /\ <<"stop", 0>> # Reset
          /\ \A n \in 1 .. MaxConn : <<"stop", 0>> # Destroyed(n) /\ <<"stop", 0>> # ForceCloseOf(n)
      BY DEF Reset, Destroyed, ForceCloseOf
    <3> QED  BY <1>0, <2>2, <3>1, QueueAdd, FunctorMembers
  <2>3. CASE pending' = Append(pending, Start)
    <3>1. /\ Start # Reset
          /\ \A n \in 1 .. MaxConn : Start # Destroyed(n) /\ Start # ForceCloseOf(n)
      BY DEF Start, Reset, Destroyed, ForceCloseOf
    <3> QED  BY <1>0, <2>3, <3>1, QueueAdd, FunctorMembers
  <2>4. CASE conn_ # 0 /\ pending' = Append(pending, ForceCloseOf(conn_))
    <3>1. /\ ForceCloseOf(conn_) # Reset
          /\ \A n \in 1 .. MaxConn : ForceCloseOf(conn_) # Destroyed(n)
          /\ \A n \in 1 .. MaxConn : ForceCloseOf(conn_) = ForceCloseOf(n) => n = conn_
      BY DEF Reset, Destroyed, ForceCloseOf
    <3>2. \A n \in 1 .. MaxConn : ForceCloseOf(conn_) = ForceCloseOf(n) => conns[n] # "none"
      BY <1>2, <2>4, <3>1
    <3>3. ForceCloseOf(conn_) \in Functor  BY <1>2, <2>4, FunctorMembers
    <3> QED  BY <1>0, <2>4, <3>1, <3>2, <3>3, QueueAdd
  <2> QED  BY <2>1, <2>2, <2>3, <2>4
<1>4. \/ Count(pending', Start) = Count(pending, Start) /\ starts' = starts
      \/ Count(pending', Start) = Count(pending, Start) + 1 /\ starts' = starts + 1
  <2>0. ASSUME NEW g \in Functor
        PROVE  Count(Append(pending, g), Start)
                 = IF g = Start THEN Count(pending, Start) + 1 ELSE Count(pending, Start)
    <3>1. Count(Append(pending, g), Start) = Count(pending, Start) + (IF g = Start THEN 1 ELSE 0)
      BY <1>1, CountAppend
    <3>2. Count(pending, Start) \in Nat  BY <1>0
    <3> QED  BY <3>1, <3>2
  <2>1. CASE pending' = pending /\ starts' = starts  BY <2>1
  <2>2. CASE pending' = Append(pending, <<"stop", 0>>) /\ starts' = starts
    <3>1. <<"stop", 0>> # Start  BY DEF Start
    <3>2. <<"stop", 0>> \in Functor  BY FunctorMembers
    <3> QED  BY <2>0, <2>2, <3>1, <3>2
  <2>3. CASE pending' = Append(pending, Start) /\ starts' = starts + 1
    <3>1. Start \in Functor  BY FunctorMembers
    <3> QED  BY <2>0, <2>3, <3>1
  <2>4. CASE conn_ # 0 /\ pending' = Append(pending, ForceCloseOf(conn_)) /\ starts' = starts
    <3>1. ForceCloseOf(conn_) # Start  BY DEF Start, ForceCloseOf
    <3>2. ForceCloseOf(conn_) \in Functor  BY <1>2, <2>4, FunctorMembers
    <3> QED  BY <2>0, <2>4, <3>1, <3>2
  <2> QED  BY <2>1, <2>2, <2>3, <2>4
<1>5. Busy' = Busy /\ Launching' = Launching  BY DEF Busy, Launching
<1>6. TokenInv'
  <2>0. Cardinality(timers) \in Nat /\ Count(pending, Start) \in Nat  BY <1>0
  <2>1. /\ Cardinality(timers) + Count(pending', Start) + Busy + Launching <= starts'
        /\ starts' <= calls'
    BY <1>1, <1>4, <2>0, SMTT(30)
  <2> QED  BY <1>5, <2>1 DEF TokenInv
<1>7. StateInv'
  <2>1. Used' = Used  BY DEF Used
  <2> QED  BY <1>0, <2>1 DEF StateInv
<1>8. BatchInv'  BY <1>0 DEF BatchInv
<1>9. OnceInv'
  <2>1. CASE starts' = starts /\ Count(pending', Start) = Count(pending, Start)
    BY <1>0, <2>1 DEF OnceInv
  <2>2. CASE starts' = starts + 1
    <3>1. starts' <= 1 => starts = 0  BY <1>1, <2>2
    <3> QED  BY <1>0, <1>1, <2>2, <3>1 DEF OnceInv
  <2> QED  BY <1>4, <2>1, <2>2
<1> QED  BY <1>3, <1>6, <1>7, <1>8, <1>9 DEF Quiet

\* Every call of a user keeps the invariant, or fails an assertion.
LEMMA UserKeeps ==
  ASSUME ClientInv, failed = "no", failed' = "no", NEW t, UserStep(t),
         ~(ConnectCall(t) /\ t = "loop")
  PROVE  Owned' /\ Quiet' /\ StopInv'
<1>0. /\ Owned /\ StopInv /\ connect_ \in BOOLEAN /\ clientAlive \in BOOLEAN
  BY InvParts DEF Owned, ConnectorOK, ClientOK
<1>1. calls' = calls + 1 /\ UNCHANGED <<polled, active, left, lpc>>
  BY DEF UserStep, ConnectCall, Disconnect, Stop, ForceClose, Destroy, Call
<1>2. CASE ConnectCall(t)
  <2>1. /\ pending' = Append(pending, Start) /\ starts' = starts + 1 /\ connect_' = TRUE
        /\ stopped' = FALSE
        /\ UNCHANGED <<state_, channel_, retryDelayMs_, timers, openFds, client>>
    BY <1>2 DEF ConnectCall, Queue, Start
  <2>2. UNCHANGED <<clientAlive, conn_, conns, retry_>>  BY <2>1 DEF client
  <2>3. StopInv'  BY <2>1 DEF StopInv
  <2> QED  BY <1>0, <1>1, <2>1, <2>2, <2>3, UserEffect, OwnedUnchanged
<1>3. CASE Disconnect(t)
  <2>1. /\ pending' = pending /\ starts' = starts /\ wanted' = FALSE
        /\ UNCHANGED <<connector, client, stopped, raced>>
    BY <1>3 DEF Disconnect
  <2>2. UNCHANGED <<connect_, state_, channel_, retryDelayMs_, timers, openFds,
                    clientAlive, conn_, conns, retry_>>
    BY <2>1 DEF client, connector
  <2>3. StopInv'  BY <1>0, <1>1, <2>1, <2>2 DEF StopInv
  <2> QED  BY <1>0, <1>1, <2>1, <2>2, <2>3, UserEffect, OwnedUnchanged
<1>4. CASE Stop(t)
  <2>1. /\ pending' = Append(pending, <<"stop", 0>>) /\ starts' = starts
        /\ wanted' = FALSE /\ connect_' = FALSE /\ stopped' = TRUE
        /\ raced' = IF lpc \in {"restart", "connect"} THEN lpc ELSE "no"
        /\ UNCHANGED <<state_, channel_, retryDelayMs_, timers, openFds, client>>
    BY <1>4 DEF Stop, Queue
  <2>2. UNCHANGED <<clientAlive, conn_, conns, retry_>>  BY <2>1 DEF client
  <2>3. /\ lpc = "restart" => raced' = "restart"
        /\ lpc = "connect" => raced' = "connect"
    BY <2>1
  <2>4. StopInv'  BY <1>1, <2>1, <2>3 DEF StopInv
  <2> QED  BY <1>0, <1>1, <2>1, <2>2, <2>4, UserEffect, OwnedUnchanged
<1>5. CASE ForceClose(t)
  <2>1. /\ conn_ # 0 /\ pending' = Append(pending, ForceCloseOf(conn_)) /\ starts' = starts
        /\ UNCHANGED <<connector, client, wanted, stopped, raced>>
    BY <1>5 DEF ForceClose, ForceCloseOf
  <2>2. UNCHANGED <<connect_, state_, channel_, retryDelayMs_, timers, openFds,
                    clientAlive, conn_, conns, retry_>>
    BY <2>1 DEF client, connector
  <2>3. StopInv'  BY <1>0, <1>1, <2>1, <2>2 DEF StopInv
  <2> QED  BY <1>0, <1>1, <2>1, <2>2, <2>3, UserEffect, OwnedUnchanged
<1>6. CASE Destroy(t)
  <2>1. /\ \/ pending' = pending /\ connect_' = connect_
           \/ conn_ # 0 /\ pending' = Append(pending, ForceCloseOf(conn_))
                /\ connect_' = connect_
           \/ pending' = Append(pending, <<"stop", 0>>) /\ connect_' = FALSE
        /\ starts' = starts /\ clientAlive' = FALSE
        /\ UNCHANGED <<wanted, stopped, raced, state_, channel_, retryDelayMs_, timers,
                       openFds, retry_, conn_, conns>>
    BY <1>6 DEF Destroy, Fail, Queue, ForceCloseOf
  <2>2. StopInv'  BY <1>0, <1>1, <2>1 DEF StopInv
  <2> QED  BY <1>0, <1>1, <2>1, <2>2, UserEffect, OwnedUnchanged
<1> QED  BY <1>2, <1>3, <1>4, <1>5, <1>6 DEF UserStep

\* startInLoop() is called in place of the timer, the functor, the call or the
\* connection that led to it.
LEMMA LaunchKeeps ==
  ASSUME ClientInv, failed = "no", lpc \in {"idle", "restart"}, lpc' = "start",
         timers' \in SUBSET TimerId,
         channel_' = "added" <=> state_' = "Connecting",
         conn_ # 0 => state_' = "Connected",
         UNCHANGED <<channel_, conn_, conns, polled>>,
         left' > 0 => left > 0, active' \subseteq active,
         \A k \in TimerId : <<"timer", k>> \in active' => k \in timers',
         pending' \in Seq(Functor), starts' \in Nat, starts' <= calls',
         Cardinality(timers') + Count(pending', Start) + Busy' + 1 <= starts',
         starts' <= 1 => channel_ = "null",
         ResetInv', DestroyInv'
  PROVE  Quiet'
<1>0. StateInv /\ BatchInv  BY InvParts
<1>1. /\ Cardinality(timers') \in Nat /\ Count(pending', Start) \in Nat /\ Busy' \in Nat
      /\ Launching' = 1
  BY FiniteParts, PlacesFinite DEF Busy, Launching
<1>2. TokenInv'  BY <1>1 DEF TokenInv
<1>3. StateInv'
  <2>1. Used' = Used  BY DEF Used
  <2> QED  BY <1>0, <2>1 DEF StateInv
<1>4. BatchInv'  BY <1>0 DEF BatchInv
<1>5. starts' # 0  BY <1>1
<1>6. OnceInv'  BY <1>5 DEF OnceInv
<1> QED  BY <1>2, <1>3, <1>4, <1>6 DEF Quiet

\* A retry timer.
LEMMA TimerKeeps ==
  ASSUME ClientInv, failed = "no", NEW k \in TimerId, TimerFires(k)
  PROVE  Owned' /\ Quiet' /\ StopInv'
<1>0. /\ Owned /\ ConnectorOK /\ ClientOK /\ LoopOK /\ HistoryOK /\ TokenInv /\ StateInv
      /\ ResetInv /\ DestroyInv /\ BatchInv /\ OnceInv /\ StopInv
      /\ Cardinality(timers) \in Nat /\ Count(pending, Start) \in Nat
      /\ timers \in SUBSET TimerId
  BY InvParts DEF Owned
<1>1. /\ <<"timer", k>> \in active /\ active' = active \ {<<"timer", k>>}
      /\ lpc = "idle" /\ lpc' = "start" /\ timers' = timers \ {k}
      /\ UNCHANGED <<wanted, polled, left, calls, starts, stopped, raced, pending,
                     connect_, state_, channel_, retryDelayMs_, openFds,
                     clientAlive, retry_, conn_, conns>>
  BY DEF TimerFires, Handle, CanStep, client
<1>2. k \in timers  BY <1>0, <1>1 DEF BatchInv
<1>3. timers' \in SUBSET TimerId /\ Cardinality(timers') = Cardinality(timers) - 1
  BY <1>0, <1>1, <1>2, FiniteParts, FS_RemoveElement
<1>4. Owned'
  <2>1. ConnectorOK' /\ ClientOK'  BY <1>0, <1>1, <1>3 DEF ConnectorOK, ClientOK
  <2>2. Sockets' = Sockets /\ Attempts' = Attempts  BY <1>1 DEF Sockets, Attempts
  <2> QED  BY <1>0, <1>1, <2>1, <2>2 DEF Owned, SocketsInv
<1>5. ResetInv' /\ DestroyInv'  BY <1>0, <1>1 DEF ResetInv, DestroyInv
<1>6. Cardinality(timers') + Count(pending', Start) + Busy' + 1 <= starts'
  <2>1. Busy' = Busy /\ Busy \in Nat /\ Launching = 0  BY <1>1 DEF Busy, Launching
  <2> QED  BY <1>0, <1>1, <1>3, <2>1 DEF TokenInv
<1>7. starts' <= 1 => channel_ = "null"  BY <1>0, <1>1 DEF OnceInv
<1>8. \A j \in TimerId : <<"timer", j>> \in active' => j \in timers'
  BY <1>0, <1>1 DEF BatchInv
<1>9. /\ pending' \in Seq(Functor) /\ starts' \in Nat /\ starts' <= calls'
      /\ lpc \in {"idle", "restart"} /\ active' \subseteq active
      /\ left' > 0 => left > 0
  BY <1>0, <1>1 DEF LoopOK, HistoryOK, TokenInv
<1>10. /\ channel_' = "added" <=> state_' = "Connecting"
       /\ conn_ # 0 => state_' = "Connected"
  BY <1>0, <1>1 DEF StateInv
<1>11. Quiet'  BY <1>1, <1>3, <1>5, <1>6, <1>7, <1>8, <1>9, <1>10, LaunchKeeps
<1>12. StopInv'  BY <1>0, <1>1 DEF StopInv
<1> QED  BY <1>4, <1>11, <1>12

\* startInLoop() as a functor.
LEMMA StartKeeps ==
  ASSUME ClientInv, failed = "no", RunFunc, Head(pending) = Start,
         pending' = Tail(pending), lpc' = "start", Nothing
  PROVE  Owned' /\ Quiet' /\ StopInv'
<1>0. /\ Owned /\ ConnectorOK /\ ClientOK /\ LoopOK /\ HistoryOK /\ TokenInv /\ StateInv
      /\ ResetInv /\ DestroyInv /\ BatchInv /\ OnceInv /\ StopInv
      /\ Cardinality(timers) \in Nat /\ Count(pending, Start) \in Nat
      /\ timers \in SUBSET TimerId
  BY InvParts DEF Owned
<1>1. /\ left > 0 /\ left' = left - 1 /\ lpc = "idle"
      /\ UNCHANGED <<wanted, polled, active, calls, starts, stopped, raced,
                     connect_, state_, channel_, retryDelayMs_, timers, openFds,
                     clientAlive, retry_, conn_, conns>>
  BY DEF RunFunc, CanStep, Nothing, connector, client
<1>2. /\ Count(pending', Start) \in Nat /\ Count(pending, Start) = Count(pending', Start) + 1
      /\ pending' \in Seq(Functor)
  BY <1>0, <1>1, PopFacts
<1>3. Owned'  BY <1>0, <1>1, OwnedUnchanged DEF ConnectorOK, ClientOK
<1>4. ResetInv' /\ DestroyInv'
  <2>1. Start # Reset /\ \A n \in 1 .. MaxConn : Start # Destroyed(n)
    BY DEF Start, Reset, Destroyed
  <2> QED  BY <1>0, <1>1, <2>1, QueuePop
<1>5. Cardinality(timers') + Count(pending', Start) + Busy' + 1 <= starts'
  <2>1. Busy' = Busy /\ Busy \in Nat /\ Launching = 0  BY <1>1 DEF Busy, Launching
  <2> QED  BY <1>0, <1>1, <1>2, <2>1 DEF TokenInv
<1>6. starts' <= 1 => channel_ = "null"  BY <1>0, <1>1, <1>2 DEF OnceInv
<1>7. \A j \in TimerId : <<"timer", j>> \in active' => j \in timers'
  BY <1>0, <1>1 DEF BatchInv
<1>8. /\ timers' \in SUBSET TimerId /\ starts' \in Nat /\ starts' <= calls'
      /\ lpc \in {"idle", "restart"} /\ active' \subseteq active
      /\ left' > 0 => left > 0
  BY <1>0, <1>1 DEF HistoryOK, TokenInv
<1>9. /\ channel_' = "added" <=> state_' = "Connecting"
      /\ conn_ # 0 => state_' = "Connected"
  BY <1>0, <1>1 DEF StateInv
<1>10. Quiet'  BY <1>1, <1>2, <1>4, <1>5, <1>6, <1>7, <1>8, <1>9, LaunchKeeps
<1>11. StopInv'  BY <1>0, <1>1 DEF StopInv
<1> QED  BY <1>3, <1>10, <1>11

\* connect() on the loop thread.
LEMMA ConnectCallKeeps ==
  ASSUME ClientInv, failed = "no", ConnectCall("loop")
  PROVE  Owned' /\ Quiet' /\ StopInv'
<1>0. /\ Owned /\ ConnectorOK /\ ClientOK /\ LoopOK /\ HistoryOK /\ TokenInv /\ StateInv
      /\ ResetInv /\ DestroyInv /\ BatchInv /\ OnceInv
      /\ Cardinality(timers) \in Nat /\ Count(pending, Start) \in Nat
      /\ timers \in SUBSET TimerId
  BY InvParts DEF Owned
<1>1. /\ lpc = "idle" /\ lpc' = "start" /\ calls' = calls + 1 /\ starts' = starts + 1
      /\ stopped' = FALSE /\ connect_' = TRUE
      /\ UNCHANGED <<polled, active, left, pending, state_, channel_, retryDelayMs_,
                     timers, openFds, clientAlive, retry_, conn_, conns>>
  BY DEF ConnectCall, Call, CanStep, client
<1>2. starts \in Nat /\ calls \in Nat /\ starts <= calls /\ pending \in Seq(Functor)
  BY <1>0 DEF HistoryOK, TokenInv, LoopOK
<1>3. Owned'  BY <1>0, <1>1, OwnedUnchanged DEF ClientOK
<1>4. ResetInv' /\ DestroyInv'  BY <1>0, <1>1 DEF ResetInv, DestroyInv
<1>5. Cardinality(timers') + Count(pending', Start) + Busy' + 1 <= starts'
  <2>1. Busy' = Busy /\ Busy \in Nat /\ Launching = 0  BY <1>1 DEF Busy, Launching
  <2> QED  BY <1>0, <1>1, <1>2, <2>1 DEF TokenInv
<1>6. starts' <= 1 => channel_ = "null"  BY <1>0, <1>1, <1>2 DEF OnceInv
<1>7. \A j \in TimerId : <<"timer", j>> \in active' => j \in timers'
  BY <1>0, <1>1 DEF BatchInv
<1>8. /\ timers' \in SUBSET TimerId /\ starts' \in Nat /\ starts' <= calls'
      /\ lpc \in {"idle", "restart"} /\ active' \subseteq active
      /\ pending' \in Seq(Functor) /\ (left' > 0 => left > 0)
  BY <1>0, <1>1, <1>2
<1>9. /\ channel_' = "added" <=> state_' = "Connecting"
      /\ conn_ # 0 => state_' = "Connected"
  BY <1>0, <1>1 DEF StateInv
<1>10. Quiet'  BY <1>1, <1>4, <1>5, <1>6, <1>7, <1>8, <1>9, LaunchKeeps
<1>11. StopInv'  BY <1>1 DEF StopInv
<1> QED  BY <1>3, <1>10, <1>11

\* restart(), after a connection was lost.
LEMMA RestartKeeps ==
  ASSUME ClientInv, failed = "no", failed' = "no", Restart
  PROVE  Owned' /\ Quiet' /\ StopInv'
<1>0. /\ Owned /\ ConnectorOK /\ ClientOK /\ LoopOK /\ HistoryOK /\ TokenInv /\ StateInv
      /\ ResetInv /\ DestroyInv /\ BatchInv /\ OnceInv /\ StopInv
      /\ Cardinality(timers) \in Nat /\ Count(pending, Start) \in Nat
      /\ timers \in SUBSET TimerId
  BY InvParts DEF Owned
<1>1. /\ lpc = "restart" /\ lpc' = "start" /\ connect_' = TRUE
      /\ state_' = "Disconnected" /\ retryDelayMs_' = initRetryDelayMs
      /\ UNCHANGED <<wanted, polled, active, pending, left, calls, starts, stopped, raced,
                     channel_, timers, openFds, clientAlive, retry_, conn_, conns>>
  BY DEF Restart, Method, Fail, client
<1>2. conn_ = 0 /\ state_ = "Connected" /\ channel_ = "null"  BY <1>0, <1>1 DEF StateInv
<1>3. Owned'
  <2>1. initRetryDelayMs \in initRetryDelayMs .. maxRetryDelayMs  BY ClientAssumption
  <2>2. ConnectorOK' /\ ClientOK'  BY <1>0, <1>1, <2>1 DEF ConnectorOK, ClientOK
  <2>3. Sockets' = Sockets /\ Attempts' = Attempts  BY <1>1 DEF Sockets, Attempts
  <2> QED  BY <1>0, <1>1, <2>2, <2>3 DEF Owned, SocketsInv
<1>4. ResetInv' /\ DestroyInv'  BY <1>0, <1>1 DEF ResetInv, DestroyInv
<1>5. Cardinality(timers') + Count(pending', Start) + Busy' + 1 <= starts'
  <2>1. Busy' = 0 /\ Busy = 1 /\ Launching = 0  BY <1>1, <1>2 DEF Busy, Launching
  <2> QED  BY <1>0, <1>1, <2>1 DEF TokenInv
<1>6. \A j \in TimerId : <<"timer", j>> \in active' => j \in timers'
  BY <1>0, <1>1 DEF BatchInv
<1>7. /\ timers' \in SUBSET TimerId /\ starts' \in Nat /\ starts' <= calls'
      /\ lpc \in {"idle", "restart"} /\ active' \subseteq active
      /\ pending' \in Seq(Functor) /\ (left' > 0 => left > 0)
  BY <1>0, <1>1 DEF HistoryOK, TokenInv, LoopOK
<1>8. /\ channel_' = "added" <=> state_' = "Connecting"
      /\ conn_ # 0 => state_' = "Connected"
  BY <1>1, <1>2
<1>9. Quiet'  BY <1>1, <1>2, <1>4, <1>5, <1>6, <1>7, <1>8, LaunchKeeps
<1>10. StopInv'  BY <1>0, <1>1 DEF StopInv
<1> QED  BY <1>3, <1>9, <1>10

\* startInLoop() looks at connect_, and a timer is deleted: nothing else.
LEMMA LookKeeps ==
  ASSUME ClientInv, failed = "no", failed' = "no", startInLoop \/ Release
  PROVE  Owned' /\ Quiet' /\ StopInv'
<1>0. /\ Owned /\ ConnectorOK /\ ClientOK /\ LoopOK /\ HistoryOK /\ TokenInv /\ StateInv
      /\ ResetInv /\ DestroyInv /\ BatchInv /\ OnceInv /\ StopInv
      /\ Cardinality(timers) \in Nat /\ Count(pending, Start) \in Nat
  BY InvParts DEF Owned
<1>1. /\ UNCHANGED <<wanted, polled, active, pending, left, calls, starts, stopped, raced,
                     connect_, state_, channel_, retryDelayMs_, timers, openFds,
                     clientAlive, retry_, conn_, conns>>
      /\ \/ lpc = "start" /\ lpc' = "connect" /\ connect_ /\ state_ = "Disconnected"
         \/ lpc' = "idle"
  <2>1. CASE startInLoop
    <3>1. ConnectorAlive /\ state_ = "Disconnected"  BY <2>1 DEF startInLoop, Fail
    <3>2. Nothing /\ lpc = "start" /\ lpc' = IF connect_ THEN "connect" ELSE "idle"
      BY <2>1, <3>1 DEF startInLoop, Method
    <3> QED  BY <2>1, <3>1, <3>2 DEF startInLoop, Method, Nothing, connector, client
  <2>2. CASE Release
    BY <2>2 DEF Release, Fail, Nothing, connector, client
  <2> QED  BY <2>1, <2>2
<1>2. Owned'  BY <1>0, <1>1, OwnedUnchanged DEF ConnectorOK, ClientOK
<1>3. ResetInv' /\ DestroyInv' /\ BatchInv'
  BY <1>0, <1>1 DEF ResetInv, DestroyInv, BatchInv
<1>4. TokenInv'
  <2>1. Busy' = Busy /\ Busy \in Nat /\ Launching \in Nat /\ Launching' <= Launching
        /\ Launching' \in Nat
    BY <1>1 DEF Busy, Launching
  <2> QED  BY <1>0, <1>1, <2>1 DEF TokenInv, HistoryOK
<1>5. StateInv'
  <2>1. Used' = Used  BY <1>1 DEF Used
  <2> QED  BY <1>0, <1>1, <2>1 DEF StateInv
<1>6. OnceInv'  BY <1>0, <1>1 DEF OnceInv
<1>7. StopInv'  BY <1>0, <1>1 DEF StopInv
<1> QED  BY <1>2, <1>3, <1>4, <1>5, <1>6, <1>7 DEF Quiet

\* Connector::connect(): an attempt, a timer or nothing in place of the call.
LEMMA ConnectKeeps ==
  ASSUME ClientInv, failed = "no", failed' = "no", Connect
  PROVE  Owned' /\ Quiet' /\ StopInv'
<1>0. /\ Owned /\ ConnectorOK /\ ClientOK /\ SocketsInv /\ LoopOK /\ HistoryOK /\ TokenInv
      /\ StateInv /\ ResetInv /\ DestroyInv /\ BatchInv /\ OnceInv /\ StopInv
      /\ Cardinality(timers) \in Nat /\ Count(pending, Start) \in Nat
      /\ Cardinality(timers) <= starts /\ timers \in SUBSET TimerId
  BY InvParts DEF Owned
<1>1. /\ lpc = "connect" /\ lpc' = "idle"
      /\ raced' = IF raced = "connect" THEN "no" ELSE raced
      /\ UNCHANGED <<wanted, polled, active, pending, left, calls, starts, stopped>>
  BY DEF Connect, Method
<1>2. state_ = "Disconnected" /\ channel_ # "added" /\ conn_ = 0
  BY <1>0, <1>1 DEF StateInv
<1>3. starts \in Nat /\ Cardinality(timers) <= MaxCalls
  BY <1>0, ClientAssumption DEF HistoryOK
<1>4. /\ ConnectorOK' /\ SocketsInv' /\ UNCHANGED <<connect_, client>>
      /\ channel_' = "added" <=> state_' = "Connecting"
      /\ state_' # "Connected"
      /\ channel_' # channel_ => channel_ = "null" /\ channel_' = "added"
      /\ timers \subseteq timers'
      /\ Cardinality(timers') + Busy' <= Cardinality(timers) + 1
  BY <1>0, <1>2, <1>3, ConnectEffect
<1>5. UNCHANGED <<clientAlive, retry_, conn_, conns>>  BY <1>4 DEF client
<1>6. Owned'  BY <1>0, <1>4, <1>5 DEF Owned, ClientOK
<1>7. ResetInv' /\ DestroyInv'
  BY <1>0, <1>1, <1>4, <1>5 DEF ResetInv, DestroyInv
<1>8. Cardinality(timers) + Count(pending, Start) + 1 <= starts
  <2>1. Busy = 0 /\ Launching = 1  BY <1>1, <1>2 DEF Busy, Launching
  <2> QED  BY <1>0, <1>3, <2>1 DEF TokenInv
<1>9. TokenInv'
  <2>1. Busy' \in Nat /\ Launching' = 0 /\ Cardinality(timers') \in Nat
    BY <1>1, <1>4, FiniteParts DEF Busy, Launching, ConnectorOK
  <2>2. Cardinality(timers') + Count(pending, Start) + Busy' + 0 <= starts
    BY <1>0, <1>3, <1>4, <1>8, <2>1
  <2> QED  BY <1>0, <1>1, <2>1, <2>2 DEF TokenInv
<1>10. StateInv'
  <2>1. Used' = Used  BY <1>5 DEF Used
  <2> QED  BY <1>0, <1>1, <1>2, <1>4, <1>5, <2>1 DEF StateInv
<1>11. BatchInv'
  <2>1. /\ <<"channel", 0>> \notin active
        /\ \A n \in 1 .. MaxConn : <<"conn", n>> \notin active
    BY <1>0, <1>2 DEF BatchInv
  <2> QED  BY <1>0, <1>1, <1>4, <2>1 DEF BatchInv
<1>12. OnceInv'
  <2> SUFFICES ASSUME starts <= 1
               PROVE  /\ starts # 0 /\ Count(pending, Start) = 0
                      /\ \A k \in TimerId : <<"timer", k>> \notin active
    BY <1>1 DEF OnceInv
  <2>1. Cardinality(timers) = 0 /\ Count(pending, Start) = 0 /\ starts # 0
    BY <1>0, <1>3, <1>8
  <2>2. timers = {}  BY <1>0, <2>1, FiniteParts, FS_EmptySet
  <2> QED  BY <1>0, <2>1, <2>2 DEF BatchInv
<1>13. StopInv'  BY <1>0, <1>1, <1>4 DEF StopInv
<1> QED  BY <1>6, <1>7, <1>9, <1>10, <1>11, <1>12, <1>13 DEF Quiet

\* poll() returns: every Reset has run, so a lost connection finds no channel.
LEMMA PollKeeps ==
  ASSUME ClientInv, failed = "no", NEW sources \in SUBSET Possible, Poll(sources)
  PROVE  Owned' /\ Quiet' /\ StopInv'
<1>0. /\ Owned /\ ConnectorOK /\ ClientOK /\ LoopOK /\ HistoryOK /\ TokenInv /\ StateInv
      /\ ResetInv /\ DestroyInv /\ BatchInv /\ OnceInv /\ StopInv
  BY InvParts DEF Owned
<1>1. /\ left = 0 /\ ~polled /\ polled' = TRUE /\ active' = sources
      /\ UNCHANGED <<connect_, state_, channel_, retryDelayMs_, timers, openFds,
                     clientAlive, retry_, conn_, conns, wanted, pending, left, lpc,
                     calls, starts, stopped, raced>>
  BY DEF Poll, connector, client, history
<1>2. Owned'
  BY <1>0, <1>1, OwnedUnchanged DEF ConnectorOK, ClientOK
<1>3. channel_ # "removed"
  <2>1. \A i \in 1 .. Len(pending) : pending[i] # Reset  BY <1>0, <1>1 DEF ResetInv
  <2>2. Count(pending, Reset) = 0  BY <1>0, <2>1, CountZero DEF LoopOK
  <2> QED  BY <1>0, <2>2 DEF ResetInv
<1>4. \A k \in TimerId : <<"timer", k>> \in sources => k \in timers
  BY DEF Possible
<1>5. <<"channel", 0>> \in sources => channel_ = "added"  BY DEF Possible
<1>6. \A n \in 1 .. MaxConn : <<"conn", n>> \in sources => conns[n] = "open"
  BY DEF Possible
<1>7. \A n \in 1 .. MaxConn : <<"conn", n>> \in sources => conn_ = n /\ channel_ = "null"
  <2>1. conn_ # 0 => channel_ # "added"  BY <1>0 DEF StateInv
  <2> QED  BY <1>0, <1>3, <1>6, <2>1 DEF StateInv, ConnectorOK
<1>8. BatchInv'  BY <1>1, <1>4, <1>5, <1>7 DEF BatchInv
<1>9. StateInv'
  <2>1. Used' = Used  BY <1>1 DEF Used
  <2> QED  BY <1>0, <1>1, <2>1 DEF StateInv
<1>10. ASSUME starts <= 1, NEW k \in TimerId, <<"timer", k>> \in sources
       PROVE  channel_ = "null"
  <2>1. timers # {}  BY <1>4, <1>10
  <2>2. state_ = "Disconnected"  BY <1>0, <1>10, <2>1, TwoStarts DEF HistoryOK
  <2> QED  BY <1>0, <1>3, <2>2 DEF StateInv, ConnectorOK
<1>11. OnceInv'  BY <1>0, <1>1, <1>10 DEF OnceInv
<1>12. TokenInv' /\ DestroyInv' /\ StopInv'
  BY <1>0, <1>1 DEF TokenInv, Busy, Launching, DestroyInv, StopInv
<1>13. ResetInv'  BY <1>0, <1>1 DEF ResetInv
<1> QED  BY <1>2, <1>8, <1>9, <1>11, <1>12, <1>13 DEF Quiet

\* doPendingFuncs() takes the batch of functors.
LEMMA DoPendingKeeps ==
  ASSUME ClientInv, failed = "no", DoPendingFuncs
  PROVE  Owned' /\ Quiet' /\ StopInv'
<1>0. /\ Owned /\ ConnectorOK /\ ClientOK /\ LoopOK /\ TokenInv /\ StateInv
      /\ ResetInv /\ DestroyInv /\ BatchInv /\ OnceInv /\ StopInv
  BY InvParts DEF Owned
<1>1. /\ active = {} /\ polled' = FALSE /\ left' = Len(pending)
      /\ UNCHANGED <<connect_, state_, channel_, retryDelayMs_, timers, openFds, active,
                     clientAlive, retry_, conn_, conns, wanted, pending, lpc,
                     calls, starts, stopped, raced>>
  BY DEF DoPendingFuncs, connector, client, history
<1>2. Owned'
  BY <1>0, <1>1, OwnedUnchanged DEF ConnectorOK, ClientOK
<1>3. BatchInv'  BY <1>1 DEF BatchInv
<1>4. StateInv'
  <2>1. Used' = Used  BY <1>1 DEF Used
  <2> QED  BY <1>0, <1>1, <2>1 DEF StateInv
<1>5. OnceInv' /\ TokenInv' /\ DestroyInv' /\ StopInv'
  BY <1>0, <1>1 DEF OnceInv, TokenInv, Busy, Launching, DestroyInv, StopInv
<1>6. ResetInv'
  <2>1. \A i \in 1 .. Len(pending') : i <= left'
    BY <1>0, <1>1, LenProperties DEF LoopOK
  <2> QED  BY <1>0, <1>1, <2>1 DEF ResetInv
<1> QED  BY <1>2, <1>3, <1>4, <1>5, <1>6 DEF Quiet

\* The channel of the attempt goes, and its Reset is queued.
LEMMA RemovedKeeps ==
  ASSUME ClientInv, failed = "no", channel_ = "added", channel_' = "removed",
         pending' = Append(pending, Reset), ConnectorOK', StateInv',
         timers \subseteq timers', Cardinality(timers') + Busy' <= Cardinality(timers) + 1,
         <<"channel", 0>> \in active, active' = active \ {<<"channel", 0>>},
         \A j \in 1 .. Len(pending) : pending[j] # ForceCloseOf(conn_'),
         \A n \in 1 .. MaxConn : conns'[n] = "closing" <=> conns[n] = "closing",
         \A n \in 1 .. MaxConn : conns[n] # "none" => conns'[n] # "none",
         lpc = "idle", UNCHANGED <<starts, calls, polled, left, lpc>>
  PROVE  Quiet'
<1>0. /\ ConnectorOK /\ LoopOK /\ HistoryOK /\ TokenInv /\ StateInv
      /\ ResetInv /\ DestroyInv /\ BatchInv /\ OnceInv
      /\ Cardinality(timers) \in Nat /\ Count(pending, Start) \in Nat
  BY InvParts
<1>1. /\ pending \in Seq(Functor) /\ Len(pending) \in Nat /\ Reset \in Functor
      /\ Len(pending') = Len(pending) + 1
      /\ \A i \in 1 .. Len(pending) : pending'[i] = pending[i]
      /\ pending'[Len(pending) + 1] = Reset
  BY <1>0, AppendProperties, LenProperties, FunctorMembers DEF LoopOK
<1>2. \A i \in 1 .. Len(pending') : i \in 1 .. Len(pending) \/ i = Len(pending) + 1
  BY <1>1
<1>3. /\ Reset # Start
      /\ \A n : Reset # Destroyed(n) /\ Reset # ForceCloseOf(n)
  BY DEF Reset, Start, Destroyed, ForceCloseOf
<1>4. Count(pending', Start) = Count(pending, Start)
  BY <1>0, <1>1, <1>3, CountAppend
<1>5. ASSUME NEW n \in 1 .. MaxConn
      PROVE  Count(pending', Destroyed(n)) = Count(pending, Destroyed(n))
  <2>1. Count(pending, Destroyed(n)) \in Nat  BY <1>1, PlacesFinite
  <2> QED  BY <1>1, <1>3, <2>1, CountAppend
<1>6. Count(pending, Reset) = 0  BY <1>0 DEF ResetInv
<1>7. Count(pending', Reset) = 1  BY <1>1, <1>6, CountAppend
<1>8. polled  BY <1>0 DEF BatchInv
<1>9. ResetInv'
  <2>1. \A j \in 1 .. Len(pending') : pending'[j] # ForceCloseOf(conn_')
    BY <1>1, <1>2, <1>3
  <2> QED  BY <1>7, <1>8, <2>1 DEF ResetInv
<1>10. DestroyInv'
  <2>1. \A n \in 1 .. MaxConn :
          Count(pending', Destroyed(n)) = IF conns'[n] = "closing" THEN 1 ELSE 0
    BY <1>0, <1>5 DEF DestroyInv
  <2>2. \A i \in 1 .. Len(pending') : \A n \in 1 .. MaxConn :
          pending'[i] = ForceCloseOf(n) => conns'[n] # "none"
    BY <1>0, <1>1, <1>2, <1>3 DEF DestroyInv
  <2> QED  BY <2>1, <2>2 DEF DestroyInv
<1>11. TokenInv'
  <2>1. state_ = "Connecting" /\ Busy = 1  BY <1>0 DEF StateInv, Busy
  <2>2. Cardinality(timers') \in Nat /\ Busy' \in Nat /\ Launching = 0 /\ Launching' = 0
    BY FiniteParts DEF ConnectorOK, Busy, Launching
  <2>3. starts \in Nat /\ starts <= calls
        /\ Cardinality(timers) + Count(pending, Start) + 1 <= starts
    BY <1>0, <2>1, <2>2 DEF TokenInv, HistoryOK
  <2>4. Cardinality(timers') + Count(pending', Start) + Busy' + Launching' <= starts
    BY <1>0, <1>4, <2>2, <2>3
  <2> QED  BY <2>3, <2>4 DEF TokenInv
<1>12. \A n \in 1 .. MaxConn : <<"conn", n>> \notin active  BY <1>0 DEF BatchInv
<1>13. BatchInv'  BY <1>0, <1>8, <1>12 DEF BatchInv
<1>14. OnceInv'  BY <1>0, <1>4 DEF OnceInv
<1> QED  BY <1>9, <1>10, <1>11, <1>13, <1>14 DEF Quiet

\* handleWrite() and handleError().
LEMMA ChannelKeeps ==
  ASSUME ClientInv, failed = "no", failed' = "no", Connected \/ ConnectFails
  PROVE  Owned' /\ Quiet' /\ StopInv'
<1>0. /\ Owned /\ ConnectorOK /\ ClientOK /\ SocketsInv /\ LoopOK /\ HistoryOK /\ StateInv
      /\ DestroyInv /\ BatchInv /\ StopInv
      /\ Cardinality(timers) \in Nat /\ Cardinality(timers) <= starts
  BY InvParts DEF Owned
<1>1. /\ <<"channel", 0>> \in active /\ active' = active \ {<<"channel", 0>>}
      /\ lpc = "idle"
      /\ UNCHANGED <<wanted, polled, left, calls, starts, stopped, raced, lpc>>
      /\ pending' = IF channel_' # channel_ THEN Append(pending, Reset) ELSE pending
  BY DEF Connected, ConnectFails, ChannelEvent, Handle, CanStep, Reset
<1>2. channel_ = "added" /\ state_ = "Connecting" /\ conn_ = 0
  BY <1>0, <1>1 DEF BatchInv, StateInv
<1>3. LoseAttempt \/ (NextConn <= MaxConn /\ newConn) \/ CloseUnwanted
  <2>1. ConnectorAlive /\ (handleWrite(TRUE) \/ handleWrite(FALSE) \/ handleError)
    BY DEF Connected, ConnectFails, ChannelEvent, Fail
  <2>2. ASSUME handleWrite(TRUE), connect_
        PROVE  NextConn <= MaxConn /\ newConn
    BY <1>2, <2>2 DEF handleWrite
  <2>3. ASSUME handleWrite(TRUE), ~connect_  PROVE CloseUnwanted
    BY <1>2, <2>3 DEF handleWrite
  <2>4. ASSUME handleWrite(FALSE)  PROVE LoseAttempt  BY <1>2, <2>4 DEF handleWrite
  <2>5. ASSUME handleError  PROVE LoseAttempt  BY <1>2, <2>5 DEF handleError
  <2> QED  BY <2>1, <2>2, <2>3, <2>4, <2>5
<1>4. Cardinality(timers) <= MaxCalls  BY <1>0, ClientAssumption DEF HistoryOK
<1>5. \A j \in 1 .. Len(pending) : pending[j] # ForceCloseOf(0)
  <2>1. \A j \in 1 .. Len(pending) : pending[j] \in Functor
    BY <1>0, ElementOfSeq DEF LoopOK
  <2>2. ForceCloseOf(0) \notin Functor  BY DEF ForceCloseOf, Functor
  <2> QED  BY <2>1, <2>2
<1>6. openFds \in Nat  BY <1>0 DEF ConnectorOK
<1>7. CASE LoseAttempt
  <2>1. /\ channel_' = "removed" /\ state_' = "Disconnected"
        /\ ConnectorOK' /\ SocketsInv' /\ UNCHANGED <<connect_, client>>
        /\ openFds' < openFds /\ timers \subseteq timers'
        /\ Cardinality(timers') <= Cardinality(timers) + 1
    BY <1>0, <1>4, <1>7, LoseEffect
  <2>2. UNCHANGED <<clientAlive, retry_, conn_, conns>>  BY <2>1 DEF client
  <2>3. Owned'  BY <1>0, <2>1, <2>2 DEF Owned, ClientOK
  <2>4. StateInv'
    <3>1. Used' = Used  BY <2>2 DEF Used
    <3> QED  BY <1>0, <1>1, <1>2, <2>1, <2>2, <3>1 DEF StateInv
  <2>5. Cardinality(timers') + Busy' <= Cardinality(timers) + 1
    <3>1. Busy' = 0 /\ Cardinality(timers') \in Nat
      BY <2>1, FiniteParts DEF Busy, ConnectorOK
    <3> QED  BY <1>0, <2>1, <3>1
  <2>6. \A j \in 1 .. Len(pending) : pending[j] # ForceCloseOf(conn_')
    BY <1>2, <1>5, <2>2
  <2>7. pending' = Append(pending, Reset)  BY <1>1, <1>2, <2>1
  <2>8. Quiet'  BY <1>1, <1>2, <2>1, <2>2, <2>4, <2>5, <2>6, <2>7, RemovedKeeps
  <2>9. StopInv'  BY <1>0, <1>1, <2>1 DEF StopInv
  <2> QED  BY <2>3, <2>8, <2>9
<1>8. CASE CloseUnwanted
  <2>1. /\ channel_' = "removed" /\ state_' = "Connected"
        /\ ConnectorOK' /\ SocketsInv' /\ UNCHANGED <<connect_, timers, client>>
        /\ openFds' < openFds
    BY <1>0, <1>2, <1>8, UnwantedEffect
  <2>2. UNCHANGED <<clientAlive, retry_, conn_, conns>>  BY <2>1 DEF client
  <2>3. Owned'  BY <1>0, <2>1, <2>2 DEF Owned, ClientOK
  <2>4. StateInv'
    <3>1. Used' = Used  BY <2>2 DEF Used
    <3> QED  BY <1>0, <1>1, <1>2, <2>1, <2>2, <3>1 DEF StateInv
  <2>5. Cardinality(timers') + Busy' <= Cardinality(timers) + 1
    BY <1>0, <2>1 DEF Busy
  <2>6. \A j \in 1 .. Len(pending) : pending[j] # ForceCloseOf(conn_')
    BY <1>2, <1>5, <2>2
  <2>7. pending' = Append(pending, Reset)  BY <1>1, <1>2, <2>1
  <2>8. Quiet'  BY <1>1, <1>2, <2>1, <2>2, <2>4, <2>5, <2>6, <2>7, RemovedKeeps
  <2>9. StopInv'  BY <1>0, <1>1, <2>1 DEF StopInv
  <2> QED  BY <2>3, <2>8, <2>9
<1>9. CASE NextConn <= MaxConn /\ newConn
  <2>1. /\ channel_' = "removed" /\ state_' = "Connected"
        /\ conn_ = 0 /\ conn_' = NextConn
        /\ NextConn \in 1 .. MaxConn /\ conns[NextConn] = "none"
        /\ conns' = [conns EXCEPT ![NextConn] = "open"]
        /\ ConnectorOK' /\ ClientOK' /\ SocketsInv'
        /\ UNCHANGED <<connect_, timers, openFds>>
        /\ Used' = 1 .. Cardinality(Used')
    BY <1>0, <1>2, <1>9, NewConnEffect
  <2>2. \A n \in 1 .. MaxConn : conns'[n] = IF n = NextConn THEN "open" ELSE conns[n]
    BY <1>0, <2>1 DEF ClientOK
  <2>3. Owned'  BY <2>1 DEF Owned
  <2>4. StateInv'
    <3>1. \A n \in 1 .. MaxConn : conns'[n] = "open" <=> n = conn_'
      BY <1>0, <2>1, <2>2 DEF StateInv
    <3> QED  BY <1>1, <2>1, <3>1 DEF StateInv
  <2>5. Cardinality(timers') + Busy' <= Cardinality(timers) + 1
    BY <1>0, <2>1 DEF Busy
  <2>6. \A j \in 1 .. Len(pending) : pending[j] # ForceCloseOf(conn_')
    BY <1>0, <2>1 DEF DestroyInv
  <2>7. pending' = Append(pending, Reset)  BY <1>1, <1>2, <2>1
  <2>8. /\ \A n \in 1 .. MaxConn : conns'[n] = "closing" <=> conns[n] = "closing"
        /\ \A n \in 1 .. MaxConn : conns[n] # "none" => conns'[n] # "none"
    BY <2>1, <2>2
  <2>9. Quiet'  BY <1>1, <1>2, <2>1, <2>4, <2>5, <2>6, <2>7, <2>8, RemovedKeeps
  <2>10. StopInv'  BY <1>0, <1>1, <2>1 DEF StopInv
  <2> QED  BY <2>3, <2>9, <2>10
<1> QED  BY <1>3, <1>7, <1>8, <1>9

\* A connection is lost: q is the queue without the functor that closed it.
LEMMA LostKeeps ==
  ASSUME ClientInv, failed = "no", failed' = "no",
         NEW n \in 1 .. MaxConn, conns[n] = "open", channel_ = "null",
         NEW q \in Seq(Functor), rmConn(n, q),
         Count(q, Start) = Count(pending, Start),
         Count(q, Reset) = Count(pending, Reset),
         \A m \in 1 .. MaxConn : Count(q, Destroyed(m)) = Count(pending, Destroyed(m)),
         \A i \in 1 .. Len(q) : \E j \in 1 .. Len(pending) : q[i] = pending[j],
         active' \subseteq active, <<"conn", n>> \notin active',
         left' > 0 => left > 0,
         UNCHANGED <<wanted, polled, calls, starts, stopped, raced>>
  PROVE  Owned' /\ Quiet' /\ StopInv'
<1>0. /\ ConnectorOK /\ ClientOK /\ SocketsInv /\ HistoryOK /\ TokenInv /\ StateInv
      /\ LoopOK /\ ResetInv /\ DestroyInv /\ BatchInv /\ OnceInv /\ StopInv
      /\ Cardinality(timers) \in Nat /\ Count(pending, Start) \in Nat
  BY InvParts
<1>1. /\ conn_ = n /\ conn_' = 0
      /\ conns' = [conns EXCEPT ![n] = "closing"]
      /\ pending' = Append(q, Destroyed(n))
      /\ lpc' = IF retry_ /\ wanted THEN "restart" ELSE "idle"
      /\ ConnectorOK' /\ ClientOK' /\ SocketsInv' /\ UNCHANGED connector
      /\ Used' = Used
  BY <1>0, LoseConnEffect
<1>2. UNCHANGED <<connect_, state_, channel_, timers, openFds>>  BY <1>1 DEF connector
<1>3. Owned'  BY <1>0, <1>1, <1>2 DEF Owned
<1>4. \A m \in 1 .. MaxConn : conns'[m] = IF m = n THEN "closing" ELSE conns[m]
  BY <1>0, <1>1 DEF ClientOK
<1>5. /\ Len(q) \in Nat /\ Destroyed(n) \in Functor
      /\ pending' \in Seq(Functor) /\ Len(pending') = Len(q) + 1
      /\ \A i \in 1 .. Len(q) : pending'[i] = q[i]
      /\ pending'[Len(q) + 1] = Destroyed(n)
  BY <1>1, AppendProperties, LenProperties, FunctorMembers
<1>6. /\ Destroyed(n) # Start /\ Destroyed(n) # Reset
      /\ \A m : Destroyed(n) # ForceCloseOf(m)
      /\ \A m : Destroyed(n) = Destroyed(m) => m = n
  BY DEF Start, Reset, Destroyed, ForceCloseOf
<1>7. Count(pending', Start) = Count(pending, Start)
  BY <1>0, <1>1, <1>5, <1>6, CountAppend
<1>8. Count(pending', Reset) = 0
  <2>1. Count(pending, Reset) = 0  BY <1>0 DEF ResetInv
  <2> QED  BY <1>1, <1>5, <1>6, <2>1, CountAppend
<1>9. ResetInv'
  <2>1. \A i \in 1 .. Len(pending') : pending'[i] # Reset  BY <1>5, <1>8, CountZero
  <2>2. channel_' = "null"  BY <1>2
  <2> QED  BY <1>8, <2>1, <2>2 DEF ResetInv
<1>10. DestroyInv'
  <2>1. ASSUME NEW m \in 1 .. MaxConn
        PROVE  Count(pending', Destroyed(m)) = IF conns'[m] = "closing" THEN 1 ELSE 0
    <3>1. Count(pending, Destroyed(m)) = IF conns[m] = "closing" THEN 1 ELSE 0
      BY <1>0 DEF DestroyInv
    <3>2. Count(pending', Destroyed(m)) = Count(q, Destroyed(m)) + (IF m = n THEN 1 ELSE 0)
      BY <1>1, <1>5, <1>6, CountAppend
    <3> QED  BY <1>4, <3>1, <3>2
  <2>2. ASSUME NEW i \in 1 .. Len(pending'), NEW m \in 1 .. MaxConn,
               pending'[i] = ForceCloseOf(m)
        PROVE  conns'[m] # "none"
    <3>1. i \in 1 .. Len(q)  BY <1>5, <1>6, <2>2
    <3>2. \E j \in 1 .. Len(pending) : pending[j] = ForceCloseOf(m)  BY <1>5, <2>2, <3>1
    <3> QED  BY <1>0, <1>4, <3>2 DEF DestroyInv
  <2> QED  BY <2>1, <2>2 DEF DestroyInv
<1>11. TokenInv'
  <2>1. Busy' = Busy /\ Busy \in Nat /\ Launching' = 0 /\ Launching \in Nat
    BY <1>1, <1>2 DEF Busy, Launching
  <2> QED  BY <1>0, <1>2, <1>7, <2>1 DEF TokenInv, HistoryOK
<1>12. state_ = "Connected"  BY <1>0, <1>1 DEF StateInv
<1>13. StateInv'
  <2>1. \A m \in 1 .. MaxConn : conns'[m] = "open" <=> m = conn_'
    BY <1>0, <1>1, <1>4 DEF StateInv
  <2> QED  BY <1>0, <1>1, <1>2, <1>12, <2>1 DEF StateInv
<1>14. \A m \in 1 .. MaxConn : <<"conn", m>> \notin active'  BY <1>0, <1>1 DEF BatchInv
<1>15. BatchInv'  BY <1>0, <1>2, <1>14 DEF BatchInv
<1>16. OnceInv'  BY <1>0, <1>1, <1>2, <1>7 DEF OnceInv
<1>17. StopInv'
  <2>1. wanted \in BOOLEAN  BY <1>0 DEF HistoryOK
  <2>2. (lpc' = "restart" => wanted) /\ lpc' # "connect"  BY <1>1
  <2> QED  BY <1>0, <1>2, <2>1, <2>2 DEF StopInv
<1> QED  BY <1>3, <1>9, <1>10, <1>11, <1>13, <1>15, <1>16, <1>17 DEF Quiet

\* The peer closes the connection.
LEMMA ConnLostKeeps ==
  ASSUME ClientInv, failed = "no", failed' = "no", NEW n \in 1 .. MaxConn, ConnLost(n)
  PROVE  Owned' /\ Quiet' /\ StopInv'
<1>0. ClientOK /\ LoopOK /\ StateInv /\ BatchInv  BY InvParts
<1>1. /\ <<"conn", n>> \in active /\ active' = active \ {<<"conn", n>>}
      /\ UNCHANGED <<wanted, polled, left, calls, starts, stopped, raced>>
      /\ rmConn(n, pending)
  BY DEF ConnLost, Handle
<1>2. conn_ = n /\ channel_ = "null"  BY <1>0, <1>1 DEF BatchInv
<1>3. conns[n] = "open"  BY <1>0, <1>2 DEF StateInv
<1>4. pending \in Seq(Functor)  BY <1>0 DEF LoopOK
<1>5. \A i \in 1 .. Len(pending) : \E j \in 1 .. Len(pending) : pending[i] = pending[j]
  OBVIOUS
<1>6. active' \subseteq active /\ <<"conn", n>> \notin active'  BY <1>1
<1> QED  BY <1>1, <1>2, <1>3, <1>4, <1>5, <1>6, LostKeeps

\* forceCloseInLoop() as a functor.
LEMMA ForceCloseKeeps ==
  ASSUME ClientInv, failed = "no", failed' = "no", RunFunc, NEW n \in 1 .. MaxConn,
         Head(pending) = ForceCloseOf(n), conns[n] = "open", rmConn(n, Tail(pending))
  PROVE  Owned' /\ Quiet' /\ StopInv'
<1>0. ConnectorOK /\ ClientOK /\ LoopOK /\ StateInv /\ ResetInv /\ BatchInv  BY InvParts
<1>1. /\ left > 0 /\ left' = left - 1
      /\ UNCHANGED <<wanted, polled, active, calls, starts, stopped, raced>>
  BY DEF RunFunc
<1>2. active = {}  BY <1>0, <1>1 DEF BatchInv
<1>3. conn_ = n /\ state_ = "Connected"  BY <1>0, ClientAssumption DEF StateInv
<1>4. /\ pending \in Seq(Functor) /\ pending[1] = ForceCloseOf(conn_) /\ 1 \in 1 .. Len(pending)
  BY <1>0, <1>1, <1>3, HeadFacts
<1>5. \A i \in 1 .. Len(pending) : pending[i] # Reset
  <2> SUFFICES ASSUME NEW i \in 1 .. Len(pending), pending[i] = Reset  PROVE FALSE
    OBVIOUS
  <2>1. i < 1  BY <1>0, <1>4 DEF ResetInv
  <2> QED  BY <2>1
<1>6. channel_ = "null"
  <2>1. Count(pending, Reset) = 0  BY <1>4, <1>5, CountZero
  <2>2. channel_ # "removed"  BY <1>0, <2>1 DEF ResetInv
  <2>3. channel_ # "added"  BY <1>0, <1>3 DEF StateInv
  <2> QED  BY <1>0, <2>2, <2>3 DEF ConnectorOK
<1>7. ForceCloseOf(n) # Start /\ ForceCloseOf(n) # Reset /\ \A m : ForceCloseOf(n) # Destroyed(m)
  BY DEF ForceCloseOf, Start, Reset, Destroyed
<1>8. ASSUME NEW f, ForceCloseOf(n) # f  PROVE Count(Tail(pending), f) = Count(pending, f)
  <2>1. Count(Tail(pending), f) \in Nat /\ Count(pending, f) = Count(Tail(pending), f) + 0
    BY <1>0, <1>1, <1>8, PopFacts
  <2> QED  BY <2>1
<1>9. /\ Count(Tail(pending), Start) = Count(pending, Start)
      /\ Count(Tail(pending), Reset) = Count(pending, Reset)
      /\ \A m \in 1 .. MaxConn :
           Count(Tail(pending), Destroyed(m)) = Count(pending, Destroyed(m))
  BY <1>7, <1>8
<1>10. /\ Tail(pending) \in Seq(Functor)
       /\ \A i \in 1 .. Len(Tail(pending)) :
             \E j \in 1 .. Len(pending) : Tail(pending)[i] = pending[j]
  BY <1>0, <1>1, PopFacts
<1>11. active' \subseteq active /\ <<"conn", n>> \notin active' /\ (left' > 0 => left > 0)
  BY <1>1, <1>2
<1> QED  BY <1>1, <1>6, <1>9, <1>10, <1>11, LostKeeps

\* A functor that changes nothing: stopInLoop() during an attempt, or
\* forceCloseInLoop() of a connection that is closed.
LEMMA IdleKeeps ==
  ASSUME ClientInv, failed = "no", RunFunc, pending' = Tail(pending), lpc' = lpc, Nothing,
         Head(pending) # Start, Head(pending) # Reset,
         \A n \in 1 .. MaxConn : Head(pending) # Destroyed(n)
  PROVE  Owned' /\ Quiet' /\ StopInv'
<1>0. /\ Owned /\ ConnectorOK /\ ClientOK /\ LoopOK /\ TokenInv /\ StateInv
      /\ ResetInv /\ DestroyInv /\ BatchInv /\ OnceInv /\ StopInv
  BY InvParts DEF Owned
<1>1. /\ left > 0 /\ left' = left - 1
      /\ UNCHANGED <<connect_, state_, channel_, retryDelayMs_, timers, openFds, active,
                     polled, clientAlive, retry_, conn_, conns, wanted, lpc,
                     calls, starts, stopped, raced>>
  BY DEF RunFunc, Nothing, connector, client
<1>2. Owned'  BY <1>0, <1>1, OwnedUnchanged DEF ConnectorOK, ClientOK
<1>3. ResetInv' /\ DestroyInv'  BY <1>0, <1>1, QueuePop
<1>4. Count(pending', Start) = Count(pending, Start)  BY <1>0, <1>1, CountPop
<1>5. TokenInv' /\ OnceInv' /\ StopInv'
  BY <1>0, <1>1, <1>4 DEF TokenInv, Busy, Launching, OnceInv, StopInv
<1>6. BatchInv'  BY <1>0, <1>1 DEF BatchInv
<1>7. StateInv'
  <2>1. Used' = Used  BY <1>1 DEF Used
  <2> QED  BY <1>0, <1>1, <2>1 DEF StateInv
<1> QED  BY <1>2, <1>3, <1>5, <1>6, <1>7 DEF Quiet

\* resetChannel() as a functor.
LEMMA ResetKeeps ==
  ASSUME ClientInv, failed = "no", RunFunc, pending' = Tail(pending), lpc' = lpc,
         Head(pending) = Reset, resetChannel
  PROVE  Owned' /\ Quiet' /\ StopInv'
<1>0. /\ ConnectorOK /\ ClientOK /\ SocketsInv /\ LoopOK /\ TokenInv /\ StateInv
      /\ ResetInv /\ DestroyInv /\ BatchInv /\ OnceInv /\ StopInv
  BY InvParts
<1>1. /\ left > 0 /\ left' = left - 1 /\ channel_' = "null"
      /\ UNCHANGED <<connect_, state_, retryDelayMs_, timers, openFds, active,
                     polled, clientAlive, retry_, conn_, conns, wanted, lpc,
                     calls, starts, stopped, raced>>
  BY DEF RunFunc, resetChannel, client
<1>2. active = {}  BY <1>0, <1>1 DEF BatchInv
<1>3. Count(pending, Reset) >= 1  BY <1>0, <1>1, HeadFacts
<1>4. channel_ = "removed" /\ Count(pending, Reset) = 1  BY <1>0, <1>3 DEF ResetInv
<1>5. Count(pending', Reset) = 0
  <2>1. Count(pending', Reset) \in Nat /\ Count(pending, Reset) = Count(pending', Reset) + 1
    BY <1>0, <1>1, PopFacts
  <2> QED  BY <1>4, <2>1
<1>6. /\ pending' \in Seq(Functor)
      /\ \A i \in 1 .. Len(pending') :
           pending'[i] = pending[i + 1] /\ i + 1 \in 1 .. Len(pending)
  BY <1>0, <1>1, PopFacts
<1>7. ResetInv'
  <2>1. \A i \in 1 .. Len(pending') : pending'[i] # Reset  BY <1>5, <1>6, CountZero
  <2> QED  BY <1>1, <1>5, <2>1 DEF ResetInv
<1>8. Reset # Start /\ \A n : Reset # Destroyed(n)  BY DEF Reset, Start, Destroyed
<1>9. /\ Count(pending', Start) = Count(pending, Start)
      /\ \A n \in 1 .. MaxConn : Count(pending', Destroyed(n)) = Count(pending, Destroyed(n))
  BY <1>0, <1>1, <1>8, CountPop
<1>10. DestroyInv'  BY <1>0, <1>1, <1>6, <1>9 DEF DestroyInv
<1>11. TokenInv' /\ OnceInv' /\ StopInv'
  BY <1>0, <1>1, <1>9 DEF TokenInv, Busy, Launching, OnceInv, StopInv
<1>12. BatchInv'  BY <1>0, <1>1, <1>2 DEF BatchInv
<1>13. StateInv'
  <2>1. Used' = Used  BY <1>1 DEF Used
  <2> QED  BY <1>0, <1>1, <1>4, <2>1 DEF StateInv
<1>14. Owned'
  <2>1. ConnectorOK' /\ ClientOK'  BY <1>0, <1>1 DEF ConnectorOK, ClientOK
  <2>2. Sockets' = Sockets /\ Attempts' = Attempts  BY <1>1, <1>4 DEF Sockets, Attempts
  <2> QED  BY <1>0, <1>1, <2>1, <2>2 DEF Owned, SocketsInv
<1> QED  BY <1>7, <1>10, <1>11, <1>12, <1>13, <1>14 DEF Quiet

\* connectDestroyed() as a functor.
LEMMA DestroyedKeeps ==
  ASSUME ClientInv, failed = "no", RunFunc, pending' = Tail(pending), lpc' = lpc,
         NEW n \in 1 .. MaxConn, Head(pending) = Destroyed(n),
         conns' = [conns EXCEPT ![n] = "gone"], openFds' = openFds - 1,
         UNCHANGED <<connect_, state_, channel_, retryDelayMs_, timers,
                     clientAlive, retry_, conn_>>
  PROVE  Owned' /\ Quiet' /\ StopInv'
<1>0. /\ ConnectorOK /\ ClientOK /\ SocketsInv /\ LoopOK /\ TokenInv /\ StateInv
      /\ ResetInv /\ DestroyInv /\ BatchInv /\ OnceInv /\ StopInv
  BY InvParts
<1>1. /\ left > 0 /\ left' = left - 1
      /\ UNCHANGED <<active, polled, wanted, calls, starts, stopped, raced>>
  BY DEF RunFunc
<1>2. Count(pending, Destroyed(n)) >= 1  BY <1>0, <1>1, HeadFacts
<1>3. conns[n] = "closing" /\ Count(pending, Destroyed(n)) = 1  BY <1>0, <1>2 DEF DestroyInv
<1>4. ConnectorOK' /\ ClientOK' /\ SocketsInv' /\ Used' = Used /\ openFds' < openFds
  BY <1>0, <1>3, DestroyEffect
<1>5. Owned'  BY <1>0, <1>4 DEF Owned
<1>6. \A m \in 1 .. MaxConn : conns'[m] = IF m = n THEN "gone" ELSE conns[m]
  BY <1>0 DEF ClientOK
<1>7. /\ Destroyed(n) # Start /\ Destroyed(n) # Reset
      /\ \A m : Destroyed(n) = Destroyed(m) => m = n
  BY DEF Start, Reset, Destroyed
<1>8. ResetInv'  BY <1>0, <1>1, <1>7, ResetPop
<1>9. Count(pending', Start) = Count(pending, Start)  BY <1>0, <1>1, <1>7, CountPop
<1>10. DestroyInv'
  <2>1. ASSUME NEW m \in 1 .. MaxConn
        PROVE  Count(pending', Destroyed(m)) = IF conns'[m] = "closing" THEN 1 ELSE 0
    <3>1. CASE m = n
      <4>1. Count(pending', Destroyed(m)) \in Nat
            /\ Count(pending, Destroyed(m)) = Count(pending', Destroyed(m)) + 1
        BY <1>0, <1>1, <3>1, PopFacts
      <4> QED  BY <1>3, <1>6, <3>1, <4>1
    <3>2. CASE m # n
      <4>1. Count(pending', Destroyed(m)) = Count(pending, Destroyed(m))
        BY <1>0, <1>1, <1>7, <3>2, CountPop
      <4> QED  BY <1>0, <1>6, <3>2, <4>1 DEF DestroyInv
    <3> QED  BY <3>1, <3>2
  <2>2. \A i \in 1 .. Len(pending') :
           pending'[i] = pending[i + 1] /\ i + 1 \in 1 .. Len(pending)
    BY <1>0, <1>1, PopFacts
  <2>3. \A i \in 1 .. Len(pending') : \A m \in 1 .. MaxConn :
          pending'[i] = ForceCloseOf(m) => conns'[m] # "none"
    BY <1>0, <1>6, <2>2 DEF DestroyInv
  <2> QED  BY <2>1, <2>3 DEF DestroyInv
<1>11. TokenInv' /\ OnceInv' /\ StopInv'
  BY <1>0, <1>1, <1>9 DEF TokenInv, Busy, Launching, OnceInv, StopInv
<1>12. BatchInv'  BY <1>0, <1>1 DEF BatchInv
<1>13. StateInv'
  <2>1. \A m \in 1 .. MaxConn : conns'[m] = "open" <=> m = conn_'
    BY <1>0, <1>3, <1>6 DEF StateInv
  <2> QED  BY <1>0, <1>4, <2>1 DEF StateInv
<1> QED  BY <1>5, <1>8, <1>10, <1>11, <1>12, <1>13 DEF Quiet

\* Any functor.
LEMMA RunKeeps ==
  ASSUME ClientInv, failed = "no", failed' = "no", RunFunc
  PROVE  Owned' /\ Quiet' /\ StopInv'
<1>0. LoopOK  BY InvParts
<1>1. ~Fail("connector")  BY DEF Fail
<1>2. ASSUME stopInLoop  PROVE Nothing  BY <1>2 DEF stopInLoop, Fail
<1>3. /\ <<"stop", 0>> # Start /\ <<"stop", 0>> # Reset
      /\ \A n : <<"stop", 0>> # Destroyed(n)
      /\ \A m : ForceCloseOf(m) # Start /\ ForceCloseOf(m) # Reset
      /\ \A m, n : ForceCloseOf(m) # Destroyed(n)
  BY DEF Start, Reset, Destroyed, ForceCloseOf
<1>4. ASSUME Head(pending) = <<"stop", 0>>, pending' = Tail(pending), lpc' = lpc, stopInLoop
      PROVE  Owned' /\ Quiet' /\ StopInv'
  BY <1>2, <1>3, <1>4, IdleKeeps
<1>5. ASSUME NEW n \in 1 .. MaxConn, Head(pending) = ForceCloseOf(n),
             pending' = Tail(pending), lpc' = lpc, Nothing
      PROVE  Owned' /\ Quiet' /\ StopInv'
  BY <1>3, <1>5, IdleKeeps
<1> QED
  BY <1>0, <1>1, <1>4, <1>5, RunCases, StartKeeps, ResetKeeps, DestroyedKeeps,
     ForceCloseKeeps

-----------------------------------------------------------------------------
(* The theorems.                                                           *)

\* A step that fails no assertion.
LEMMA NextKeeps ==
  ASSUME ClientInv, failed = "no", failed' = "no", Next
  PROVE  Owned' /\ Quiet' /\ StopInv'
<1>1. ASSUME NEW t, UserStep(t)  PROVE Owned' /\ Quiet' /\ StopInv'
  BY <1>1, UserKeeps, ConnectCallKeeps
<1> QED
  BY <1>1, PollKeeps, DoPendingKeeps, RunKeeps, RestartKeeps, TimerKeeps, ChannelKeeps,
     ConnLostKeeps, LookKeeps, ConnectKeeps DEF Next, LoopStep

\* A program that has failed takes no step.
LEMMA FailedStops ==
  ASSUME failed # "no"
  PROVE  ~Next
BY DEF Next, LoopStep, UserStep, Poll, DoPendingFuncs, RunFunc, Restart, startInLoop,
       Connect, Release, Method, TimerFires, Connected, ConnectFails, ChannelEvent, ConnLost, Handle, CanStep, ConnectCall,
       Disconnect, Stop, ForceClose, Destroy, Call

\* The invariant holds initially.
LEMMA ClientInit == Init => ClientInv
<1> SUFFICES ASSUME Init PROVE ClientInv  OBVIOUS
<1>0. /\ connect_ \in BOOLEAN /\ clientAlive \in BOOLEAN /\ retry_ \in BOOLEAN
      /\ polled \in BOOLEAN /\ wanted \in BOOLEAN /\ stopped \in BOOLEAN
      /\ gaveUp \in BOOLEAN /\ held \in BOOLEAN
  BY Zenon DEF Init
<1>1. ConnectorOK /\ ClientOK
  <2>1. /\ initRetryDelayMs \in initRetryDelayMs .. maxRetryDelayMs
        /\ 0 \in 0 .. MaxConn /\ 0 \in Nat
    BY ClientAssumption
  <2>2. [n \in 1 .. MaxConn |-> "none"] \in [1 .. MaxConn -> {"none", "open", "closing", "gone"}]
    OBVIOUS
  <2> QED  BY <1>0, <2>1, <2>2, Zenon DEF Init, ConnectorOK, ClientOK
<1>2. LoopOK
  <2>1. <<>> \in Seq(Functor) /\ 0 \in 0 .. Len(<<>>)  BY EmptySeq
  <2> QED  BY <1>0, <2>1, Zenon DEF Init, LoopOK
<1>3. HistoryOK
  <2>1. 0 \in 0 .. MaxCalls  BY ClientAssumption
  <2> QED  BY <1>0, <2>1, Zenon DEF Init, HistoryOK
<1>4. Sockets = {} /\ Used = {}  BY DEF Init, Sockets, Used
<1>5. SocketsInv  BY <1>4, FS_EmptySet DEF Init, SocketsInv, Attempts
<1>6. SocketsOwned  BY <1>1, <1>2, <1>3, <1>5, TypeParts, SocketsParts DEF SocketsOwned
<1>7. ClientAsserts  BY DEF Init, ClientAsserts
<1>8. TokenInv  BY CountEmpty, FS_EmptySet DEF Init, TokenInv, Busy, Launching
<1>9. StateInv  BY <1>4, FS_EmptySet, ClientAssumption DEF Init, StateInv
<1>10. ResetInv /\ DestroyInv
  <2>1. 1 .. Len(<<>>) = {}  BY EmptySeq
  <2> QED  BY <2>1, CountEmpty DEF Init, ResetInv, DestroyInv
<1>11. BatchInv /\ OnceInv /\ StopInv  BY DEF Init, BatchInv, OnceInv, StopInv
<1> QED  BY <1>6, <1>7, <1>8, <1>9, <1>10, <1>11 DEF ClientInv, Running

\* Every step keeps it.
LEMMA ClientStep == ClientInv /\ [Next]_vars => ClientInv'
<1> SUFFICES ASSUME ClientInv, [Next]_vars PROVE ClientInv'  OBVIOUS
<1>1. CASE UNCHANGED vars
  <2>1. UNCHANGED <<connect_, state_, channel_, retryDelayMs_, timers, openFds, clientAlive,
                    retry_, conn_, conns, wanted, polled, active, pending, left, lpc, held,
                    failed, calls, starts, stopped, raced, gaveUp>>
    BY <1>1 DEF vars, connector, client, loop, history
  <2>2. SocketsOwned'
    <3>1. TypeOK'  BY <2>1 DEF ClientInv, SocketsOwned, TypeOK
    <3>2. NoSocketLeak'  BY <2>1 DEF ClientInv, SocketsOwned, NoSocketLeak
    <3> QED  BY <3>1, <3>2 DEF SocketsOwned
  <2>3. ClientAsserts'  BY <2>1 DEF ClientInv, ClientAsserts
  <2>4. ASSUME Running  PROVE Running'
    <3>1. Used' = Used /\ Busy' = Busy /\ Launching' = Launching
      BY <2>1 DEF Used, Busy, Launching
    <3>2. TokenInv' /\ StateInv'  BY <2>1, <2>4, <3>1 DEF Running, TokenInv, StateInv
    <3>3. ResetInv' /\ DestroyInv'  BY <2>1, <2>4 DEF Running, ResetInv, DestroyInv
    <3>4. BatchInv' /\ OnceInv' /\ StopInv'
      BY <2>1, <2>4 DEF Running, BatchInv, OnceInv, StopInv
    <3> QED  BY <3>2, <3>3, <3>4 DEF Running
  <2> QED  BY <2>1, <2>2, <2>3, <2>4 DEF ClientInv
<1>2. CASE Next
  <2>1. failed = "no"  BY <1>2, FailedStops
  <2>2. ConnectorOK /\ ClientOK /\ LoopOK /\ SocketsInv  BY <2>1, InvParts
  <2>3. LoopOK' /\ HistoryOK'  BY <1>2, <2>1, <2>2, LoopType, HistoryType
  <2>4. CASE failed' = "no"
    <3>1. Owned' /\ Quiet' /\ StopInv'  BY <1>2, <2>1, <2>4, NextKeeps
    <3>2. SocketsOwned'
      BY <2>3, <3>1, TypeParts, SocketsParts DEF Owned, SocketsOwned
    <3>3. ClientAsserts'  BY <2>4 DEF ClientAsserts
    <3> QED  BY <3>1, <3>2, <3>3 DEF ClientInv, Running, Quiet
  <2>5. CASE failed' # "no"
    <3>1. Aborted  BY <1>2, <2>1, <2>5, NextAborts
    <3>2. UNCHANGED <<connect_, state_, channel_, retryDelayMs_, timers, openFds,
                      clientAlive, retry_, conn_, conns>> /\ ClientAsserts'
      BY <3>1 DEF Aborted, connector, client
    <3>3. ConnectorOK' /\ ClientOK'  BY <2>2, <3>2 DEF ConnectorOK, ClientOK
    <3>4. SocketsInv'
      <4>1. Sockets' = Sockets /\ Attempts' = Attempts  BY <3>2 DEF Sockets, Attempts
      <4> QED  BY <2>2, <3>2, <4>1 DEF SocketsInv
    <3>5. SocketsOwned'
      BY <2>3, <3>3, <3>4, TypeParts, SocketsParts DEF SocketsOwned
    <3> QED  BY <2>5, <3>2, <3>5 DEF ClientInv
  <2> QED  BY <2>4, <2>5
<1> QED  BY <1>1, <1>2

\* The invariant of the client, in every reachable state.
THEOREM ClientSafe == Spec => []ClientInv
BY ClientInit, ClientStep, PTL DEF Spec

\* Connector and TcpClient: whatever fails, is lost or is called, every open
\* socket is the one of the attempt in progress or of one connection.
THEOREM TcpClientSocketsOwned == Spec => []SocketsOwned
<1>1. ClientInv => SocketsOwned  BY DEF ClientInv
<1> QED  BY <1>1, ClientSafe, PTL

\* Connector and TcpClient: only a second connect(), a stop() with no attempt
\* in progress or a destructor that comes too early fails an assertion.
THEOREM TcpClientAsserts == Spec => []ClientAsserts
<1>1. ClientInv => ClientAsserts  BY DEF ClientInv
<1> QED  BY <1>1, ClientSafe, PTL

\* TcpClient::stop(): no socket is opened after it, unless startInLoop() or
\* rmConn() had looked at connect_ before.
THEOREM TcpClientStopIsFinal == Spec => StopIsFinal
<1>1. ClientInv /\ [Next]_vars
        => [lpc = "connect" /\ lpc' # lpc => ~stopped \/ raced # "no"]_vars
  <2> SUFFICES ASSUME ClientInv, Next, lpc = "connect", stopped  PROVE raced # "no"
    OBVIOUS
  <2>1. failed = "no"  BY FailedStops
  <2> QED  BY <2>1, InvParts DEF StopInv
<1> QED  BY <1>1, ClientSafe, PTL DEF Spec, StopIsFinal
=============================================================================
