---------------------------- MODULE PollerProofs ----------------------------
(***************************************************************************)
(* Channel and the two pollers for any set of channels and any finite set  *)
(* of descriptors: the records of what is registered agree, assertions of  *)
(* the pollers fail only for two calls, and both pollers implement the     *)
(* table of watched descriptors.                                           *)
(***************************************************************************)
EXTENDS Poller, SequenceTheorems, FiniteSetTheorems, TLAPS

-----------------------------------------------------------------------------
(* The invariant.                                                          *)

\* The entry of pollfds_ that c indexes.
Entry(c) == pollfds_[idx_[c] + 1]

\* The map has the channels that are added to the loop, and no other.
MapInv ==
  /\ \A c \in Channel : addedToLoop_[c] => fd_[c] \in Fd /\ channels_[fd_[c]] = c
  /\ \A f \in Fd : channels_[f] # NoChannel =>
        fd_[channels_[f]] = f /\ addedToLoop_[channels_[f]]

\* Poll: a channel that is added and its entry know each other.
PollInv ==
  poller = "poll" =>
    /\ epollSet = [f \in Fd |-> Unwatched]
    /\ \A c \in Channel : addedToLoop_[c] =>
         /\ idx_[c] \in 0 .. Len(pollfds_) - 1
         /\ Entry(c).events = events_[c]
         /\ Entry(c).fd = fd_[c] \/ (Entry(c).fd = Ignored(fd_[c]) /\ events_[c] = {})
    /\ \A i \in 1 .. Len(pollfds_) :
         LET f == Decoded(pollfds_[i].fd)
         IN  f \in Fd /\ channels_[f] # NoChannel /\ idx_[channels_[f]] = i - 1

\* EPoll: idx_ says whether the kernel has the channel.
EPollInv ==
  poller = "epoll" =>
    /\ pollfds_ = <<>>
    /\ \A c \in Channel :
         IF addedToLoop_[c]
         THEN \/ idx_[c] = kAdded /\ epollSet[fd_[c]] = [ch |-> c, events |-> events_[c]]
              \/ idx_[c] = kDeleted /\ epollSet[fd_[c]] = Unwatched /\ events_[c] = {}
         ELSE idx_[c] = kNew
    /\ \A f \in Fd : epollSet[f] # Unwatched =>
         channels_[f] # NoChannel /\ epollSet[f].ch = channels_[f]

\* The batch: each channel once, and those to come are still added.
BatchInv ==
  /\ at = 0 => activeChannels_ = <<>>
  /\ at > 0 => fd_[activeChannels_[at]] # Dead
  /\ \A i \in 1 .. Len(activeChannels_) : i > at => addedToLoop_[activeChannels_[i]]
  /\ \A i, j \in 1 .. Len(activeChannels_) :
        activeChannels_[i] = activeChannels_[j] => i = j

PollerInv == TypeOK /\ MapInv /\ PollInv /\ EPollInv /\ BatchInv /\ PollerAsserts

-----------------------------------------------------------------------------
(* Descriptors, and the parts of TypeOK.                                   *)

EntrySet == [fd : Fd \cup {Ignored(f) : f \in Fd}, events : SUBSET Event]

ChannelOK ==
  /\ poller \in {"poll", "epoll"}
  /\ fd_ \in [Channel -> Fd \cup {Dead}]
  /\ events_ \in [Channel -> SUBSET Event]
  /\ addedToLoop_ \in [Channel -> BOOLEAN]
IdxOK ==
  /\ poller = "epoll" => idx_ \in [Channel -> {kNew, kAdded, kDeleted}]
  /\ poller = "poll" => idx_ \in [Channel -> -1 .. Cardinality(Fd) - 1]
RegistryOK ==
  /\ channels_ \in [Fd -> Channel \cup {NoChannel}]
  /\ pollfds_ \in Seq(EntrySet)
  /\ epollSet \in [Fd -> Watch]
BatchOK ==
  activeChannels_ \in Seq(Channel) /\ at \in 0 .. Len(activeChannels_)
FailedOK ==
  failed \in {"no", "known", "range", "ignored", "erased", "fatal", "fill",
              "isNoneEvent", "active", "handling", "added", "hasChannel"}

\* The type invariant is the conjunction of its parts.
LEMMA TypeParts ==
  /\ TypeOK <=> ChannelOK /\ IdxOK /\ RegistryOK /\ BatchOK /\ FailedOK
  /\ TypeOK' <=> ChannelOK' /\ IdxOK' /\ RegistryOK' /\ BatchOK' /\ FailedOK'
<1>1. TypeOK <=> ChannelOK /\ IdxOK /\ RegistryOK /\ BatchOK /\ FailedOK
  BY DEF TypeOK, ChannelOK, IdxOK, RegistryOK, BatchOK, FailedOK, EntrySet
<1>2. TypeOK' <=> ChannelOK' /\ IdxOK' /\ RegistryOK' /\ BatchOK' /\ FailedOK'
  BY DEF TypeOK, ChannelOK, IdxOK, RegistryOK, BatchOK, FailedOK, EntrySet
<1> QED  BY <1>1, <1>2

\* What the invariant says, in parts.
LEMMA InvParts ==
  ASSUME PollerInv
  PROVE  /\ ChannelOK /\ IdxOK /\ RegistryOK /\ BatchOK /\ FailedOK
         /\ MapInv /\ PollInv /\ EPollInv /\ BatchInv
BY TypeParts DEF PollerInv

\* A descriptor and its negative form are decoded to it, and differ.
LEMMA FdFacts ==
  /\ \A f \in Fd : /\ f \in Nat /\ f # Dead /\ Decoded(f) = f
                   /\ Ignored(f) \in Int /\ Ignored(f) \notin Fd
                   /\ Decoded(Ignored(f)) = f
  /\ \A n \in Fd \cup {Ignored(f) : f \in Fd} :
        Decoded(n) \in Fd /\ (n = Decoded(n) \/ n = Ignored(Decoded(n)))
<1>1. \A f \in Fd : f \in Nat  BY PollerAssumption
<1>2. ASSUME NEW f \in Fd
      PROVE  /\ f \in Nat /\ f # Dead /\ Decoded(f) = f
             /\ Ignored(f) \in Int /\ Ignored(f) \notin Fd /\ Decoded(Ignored(f)) = f
  <2>1. Ignored(f) \in Int /\ Ignored(f) < 0 /\ Decoded(Ignored(f)) = f
    BY <1>1 DEF Ignored, Decoded
  <2>2. Ignored(f) \notin Fd  BY <1>1, <2>1
  <2> QED  BY <1>1, <2>1, <2>2 DEF Dead, Decoded
<1> QED  BY <1>2

\* A descriptor that is not watched has no channel.
LEMMA WatchFacts ==
  ASSUME NEW c \in Channel, NEW ev
  PROVE  [ch |-> c, events |-> ev] # Unwatched /\ c # NoChannel
<1>1. c # NoChannel  BY PollerAssumption
<1>2. Unwatched.ch = NoChannel  BY DEF Unwatched
<1>3. [ch |-> c, events |-> ev].ch = c  OBVIOUS
<1> QED  BY <1>1, <1>2, <1>3

\* Poll: two channels that are added have two entries.
LEMMA IdxInjective ==
  ASSUME PollerInv, poller = "poll",
         NEW c \in Channel, NEW d \in Channel, addedToLoop_[c], addedToLoop_[d],
         idx_[c] = idx_[d]
  PROVE  c = d
<1>1. MapInv /\ PollInv  BY InvParts
<1>2. Decoded(Entry(c).fd) = fd_[c] /\ Decoded(Entry(d).fd) = fd_[d]
  BY <1>1, FdFacts DEF PollInv, MapInv
<1>3. Entry(c) = Entry(d)  BY DEF Entry
<1>4. fd_[c] = fd_[d]  BY <1>2, <1>3
<1> QED  BY <1>1, <1>4 DEF MapInv

\* Poll: an entry of the array and the channel it is of.
LEMMA EntryFacts ==
  ASSUME PollerInv, poller = "poll", NEW i \in 1 .. Len(pollfds_)
  PROVE  LET f == Decoded(pollfds_[i].fd)
         IN  /\ f \in Fd /\ channels_[f] \in Channel /\ idx_[channels_[f]] = i - 1
             /\ addedToLoop_[channels_[f]] /\ fd_[channels_[f]] = f
             /\ pollfds_[i].fd = f \/ pollfds_[i].fd = Ignored(f)
             /\ Entry(channels_[f]) = pollfds_[i]
<1> DEFINE f == Decoded(pollfds_[i].fd)
<1>1. MapInv /\ PollInv /\ RegistryOK  BY InvParts
<1>2. f \in Fd /\ channels_[f] # NoChannel /\ idx_[channels_[f]] = i - 1
  BY <1>1 DEF PollInv
<1>3. channels_[f] \in Channel  BY <1>1, <1>2 DEF RegistryOK
<1>4. addedToLoop_[channels_[f]] /\ fd_[channels_[f]] = f  BY <1>1, <1>2 DEF MapInv
<1>5. pollfds_[i] \in EntrySet  BY <1>1, ElementOfSeq DEF RegistryOK
<1>6. pollfds_[i].fd = f \/ pollfds_[i].fd = Ignored(f)
  BY <1>5, FdFacts DEF EntrySet
<1>7. (i - 1) + 1 = i  OBVIOUS
<1>8. Entry(channels_[f]) = pollfds_[i]  BY <1>2, <1>7 DEF Entry
<1> QED  BY <1>2, <1>3, <1>4, <1>6, <1>8

\* Poll: the array is no longer than the set of descriptors, and there is
\* room for one whose channel is new.
LEMMA ArrayBound ==
  ASSUME PollerInv, poller = "poll", NEW f \in Fd, channels_[f] = NoChannel
  PROVE  Len(pollfds_) \in 0 .. Cardinality(Fd) - 1
<1> DEFINE g == [i \in 1 .. Len(pollfds_) |-> Decoded(pollfds_[i].fd)]
           T == Fd \ {f}
<1>0. Len(pollfds_) \in Nat  BY InvParts, LenProperties DEF RegistryOK
<1>1. IsFiniteSet(Fd) /\ Cardinality(Fd) \in Nat  BY PollerAssumption, FS_CardinalityType
<1>2. IsFiniteSet(T) /\ Cardinality(T) = Cardinality(Fd) - 1  BY <1>1, FS_RemoveElement
<1>3. ASSUME NEW i \in 1 .. Len(pollfds_)
      PROVE  g[i] \in T /\ channels_[g[i]] \in Channel /\ idx_[channels_[g[i]]] = i - 1
  <2>1. /\ g[i] \in Fd /\ channels_[g[i]] \in Channel /\ idx_[channels_[g[i]]] = i - 1
    BY EntryFacts
  <2>2. g[i] # f  BY <2>1, PollerAssumption
  <2> QED  BY <2>1, <2>2
<1>4. ASSUME NEW i \in 1 .. Len(pollfds_), NEW j \in 1 .. Len(pollfds_), g[i] = g[j]
      PROVE  i = j
  <2>1. i - 1 = j - 1  BY <1>3, <1>4
  <2> QED  BY <2>1
<1>5. g \in [1 .. Len(pollfds_) -> T]  BY <1>3
<1>6. g \in Injection(1 .. Len(pollfds_), T)
  BY <1>4, <1>5 DEF Injection, IsInjective
<1>7. Cardinality(1 .. Len(pollfds_)) <= Cardinality(T)  BY <1>2, <1>6, FS_Injection
<1>8. Cardinality(1 .. Len(pollfds_)) = Len(pollfds_)  BY <1>0, FS_Interval
<1> QED  BY <1>0, <1>1, <1>2, <1>7, <1>8

-----------------------------------------------------------------------------
(* The assertions.                                                         *)

\* Poll::updateChannel(): only a channel that was removed is unknown.
LEMMA PollUpdateFails ==
  ASSUME PollerInv, poller = "poll", NEW c \in Channel, fd_[c] \in Fd,
         \A d \in Channel \ {c} : fd_[d] = fd_[c] => ~addedToLoop_[d],
         PollUpdateFailure(c) # "no"
  PROVE  PollUpdateFailure(c) = "known" /\ ~addedToLoop_[c] /\ idx_[c] >= 0
<1>0. ChannelOK /\ IdxOK /\ RegistryOK /\ MapInv /\ PollInv  BY InvParts
<1>1. idx_[c] \in Int
  <2>1. Cardinality(Fd) \in Nat  BY PollerAssumption, FS_CardinalityType
  <2> QED  BY <1>0, <2>1 DEF IdxOK
<1>2. CASE idx_[c] < 0
  <2>1. channels_[fd_[c]] # NoChannel  BY <1>2 DEF PollUpdateFailure
  <2>2. channels_[fd_[c]] \in Channel  BY <1>0, <2>1 DEF RegistryOK
  <2>3. fd_[channels_[fd_[c]]] = fd_[c] /\ addedToLoop_[channels_[fd_[c]]]
    BY <1>0, <2>1 DEF MapInv
  <2>4. addedToLoop_[c]  BY <2>2, <2>3
  <2> QED  BY <1>0, <1>1, <1>2, <2>4 DEF PollInv
<1>3. CASE ~(idx_[c] < 0) /\ ~hasChannel(c)
  <2>1. ~addedToLoop_[c]  BY <1>0, <1>3 DEF MapInv, hasChannel
  <2>2. PollUpdateFailure(c) = "known"  BY <1>3 DEF PollUpdateFailure
  <2> QED  BY <1>1, <1>3, <2>1, <2>2
<1>4. CASE ~(idx_[c] < 0) /\ hasChannel(c)
  <2>1. addedToLoop_[c]
    <3>1. channels_[fd_[c]] = c /\ c # NoChannel  BY <1>4, PollerAssumption DEF hasChannel
    <3> QED  BY <1>0, <3>1 DEF MapInv
  <2>2. InRange(c)  BY <1>0, <2>1 DEF PollInv, InRange
  <2>3. PollUpdateFailure(c) = "no"  BY <1>4, <2>2 DEF PollUpdateFailure
  <2> QED  BY <2>3
<1> QED  BY <1>2, <1>3, <1>4

\* EPoll::updateChannel(): never.
LEMMA EPollUpdateFails ==
  ASSUME PollerInv, poller = "epoll", NEW c \in Channel, fd_[c] \in Fd, NEW ev,
         \A d \in Channel \ {c} : fd_[d] = fd_[c] => ~addedToLoop_[d]
  PROVE  EPollUpdateFailure(c, ev) = "no"
<1>0. ChannelOK /\ IdxOK /\ RegistryOK /\ MapInv /\ EPollInv  BY InvParts
<1>1. CASE idx_[c] = kAdded
  <2>1. addedToLoop_[c] /\ epollSet[fd_[c]] = [ch |-> c, events |-> events_[c]]
    BY <1>0, <1>1 DEF EPollInv, kAdded, kNew, kDeleted
  <2>2. hasChannel(c)  BY <1>0, <2>1 DEF MapInv, hasChannel
  <2>3. epollSet[fd_[c]] # Unwatched  BY <2>1, WatchFacts
  <2> QED  BY <1>1, <2>2, <2>3 DEF EPollUpdateFailure, CtlFailure, Operation
<1>2. CASE idx_[c] # kAdded
  <2>1. epollSet[fd_[c]] = Unwatched
    <3> SUFFICES ASSUME epollSet[fd_[c]] # Unwatched PROVE FALSE  OBVIOUS
    <3>1. channels_[fd_[c]] # NoChannel /\ channels_[fd_[c]] \in Channel
      BY <1>0 DEF EPollInv, RegistryOK
    <3>2. fd_[channels_[fd_[c]]] = fd_[c] /\ addedToLoop_[channels_[fd_[c]]]
      BY <1>0, <3>1 DEF MapInv
    <3>3. addedToLoop_[c]  BY <3>1, <3>2
    <3> QED  BY <1>0, <1>2, <3>3 DEF EPollInv
  <2> QED  BY <1>2, <2>1 DEF EPollUpdateFailure, CtlFailure, Operation
<1> QED  BY <1>1, <1>2

\* EventLoop::removeChannel(): the poller itself only refuses, in Poll, an
\* entry that is not ignored.
LEMMA RemoveFails ==
  ASSUME PollerInv, NEW c \in Channel, addedToLoop_[c], RemoveFailure(c) # "no"
  PROVE  \/ RemoveFailure(c) \in {"isNoneEvent", "active"}
         \/ /\ RemoveFailure(c) = "ignored" /\ poller = "poll"
            /\ \E i \in 1 .. Len(pollfds_) : pollfds_[i].fd \in Fd /\ pollfds_[i].events = {}
<1>0. ChannelOK /\ RegistryOK /\ MapInv /\ PollInv  BY InvParts
<1>1. hasChannel(c) /\ fd_[c] \in Fd /\ channels_[fd_[c]] # NoChannel
  BY <1>0, PollerAssumption DEF MapInv, hasChannel
<1>2. CASE events_[c] # {}  BY <1>2 DEF RemoveFailure
<1>3. CASE at > 0 /\ ~isCurrent(c) /\ c \in Range(activeChannels_)
  BY <1>3 DEF RemoveFailure
<1>4. CASE /\ events_[c] = {} /\ ~(at > 0 /\ ~isCurrent(c) /\ c \in Range(activeChannels_))
           /\ poller = "epoll"
  <2>1. RemoveFailure(c) = EPollRemoveFailure(c)  BY <1>4 DEF RemoveFailure
  <2> QED  BY <1>1, <2>1 DEF EPollRemoveFailure
<1>5. CASE /\ events_[c] = {} /\ ~(at > 0 /\ ~isCurrent(c) /\ c \in Range(activeChannels_))
           /\ poller = "poll"
  <2>1. RemoveFailure(c) = PollRemoveFailure(c)  BY <1>5 DEF RemoveFailure
  <2>2. /\ InRange(c) /\ Entry(c).events = {}
        /\ Entry(c).fd = fd_[c] \/ Entry(c).fd = Ignored(fd_[c])
    BY <1>0, <1>5 DEF PollInv, InRange
  <2>3. /\ Entry(c) # [fd |-> Ignored(fd_[c]), events |-> {}]
        /\ PollRemoveFailure(c) = "ignored"
    BY <1>1, <2>1, <2>2 DEF PollRemoveFailure, Entry
  <2>4. idx_[c] + 1 \in 1 .. Len(pollfds_)
    BY <1>0, <2>2, LenProperties DEF InRange, RegistryOK
  <2>5. Entry(c) \in EntrySet  BY <1>0, <2>4, ElementOfSeq DEF Entry, RegistryOK
  <2>6. Entry(c) = [fd |-> Entry(c).fd, events |-> Entry(c).events]  BY <2>5 DEF EntrySet
  <2>7. Entry(c).fd = fd_[c]  BY <2>2, <2>3, <2>6
  <2> QED  BY <1>1, <1>5, <2>1, <2>2, <2>3, <2>4, <2>7 DEF Entry
<1> QED  BY <1>0, <1>2, <1>3, <1>4, <1>5 DEF ChannelOK

\* ~Channel(): a channel that is not added is not in the map.
LEMMA DeleteFails ==
  ASSUME PollerInv, NEW c \in Channel, fd_[c] \in Fd, DeleteFailure(c) # "no"
  PROVE  DeleteFailure(c) \in {"handling", "added"}
<1>0. MapInv  BY InvParts
<1>1. hasChannel(c) => addedToLoop_[c]
  BY <1>0, PollerAssumption DEF MapInv, hasChannel
<1> QED  BY <1>1 DEF DeleteFailure

\* fillActiveChannels(): what poll(2) returns is in the map.
LEMMA FillFails ==
  ASSUME PollerInv, poller = "poll", NEW f \in PollFds
  PROVE  f \in Fd /\ channels_[f] \in Channel /\ fd_[channels_[f]] = f
         /\ addedToLoop_[channels_[f]]
<1>1. PICK i \in DOMAIN pollfds_ : pollfds_[i].fd = f  BY DEF PollFds
<1>2. DOMAIN pollfds_ = 1 .. Len(pollfds_)  BY InvParts, LenProperties DEF RegistryOK
<1>3. f \in Fd /\ Decoded(f) = f  BY FdFacts DEF PollFds
<1> QED  BY <1>1, <1>2, <1>3, EntryFacts

\* A step that fails an assertion.
LEMMA NextAborts ==
  ASSUME PollerInv, failed = "no", failed' # "no", Next
  PROVE  UNCHANGED <<poller, channel, registry, batch>> /\ FailedOK' /\ PollerAsserts'
<1>0. ChannelOK /\ RegistryOK  BY InvParts
<1>1. ASSUME NEW c \in Channel, NEW ev, Update(c, ev)
      PROVE  UNCHANGED <<poller, channel, registry, batch>> /\ FailedOK' /\ PollerAsserts'
  <2>1. /\ fd_[c] \in Fd /\ UpdateFailure(c, ev) # "no" /\ Abort(UpdateFailure(c, ev))
        /\ \A d \in Channel \ {c} : fd_[d] = fd_[c] => ~addedToLoop_[d]
    BY <1>0, <1>1 DEF Update, ChannelOK
  <2>2. CASE poller = "poll"
    <3>1. failed' = "known" /\ ~addedToLoop_[c] /\ idx_[c] >= 0
      BY <2>1, <2>2, PollUpdateFails DEF UpdateFailure, Abort
    <3>2. UNCHANGED <<poller, channel, registry, batch>>  BY <2>1 DEF Abort
    <3>3. poller' = "poll" /\ ~addedToLoop_'[c] /\ idx_'[c] >= 0
      BY <2>2, <3>1, <3>2 DEF channel
    <3> QED  BY <3>1, <3>2, <3>3 DEF FailedOK, PollerAsserts
  <2>3. CASE poller = "epoll"
    BY <2>1, <2>3, EPollUpdateFails DEF UpdateFailure
  <2> QED  BY <1>0, <2>2, <2>3 DEF ChannelOK
<1>2. ASSUME NEW c \in Channel, RemoveChannel(c)
      PROVE  UNCHANGED <<poller, channel, registry, batch>> /\ FailedOK' /\ PollerAsserts'
  <2>1. addedToLoop_[c] /\ RemoveFailure(c) # "no" /\ Abort(RemoveFailure(c))
    BY <1>2 DEF RemoveChannel
  <2>2. failed' = RemoveFailure(c) /\ UNCHANGED <<poller, channel, registry, batch>>
    BY <2>1 DEF Abort
  <2>3. poller' = poller /\ pollfds_' = pollfds_ /\ DOMAIN pollfds_ = 1 .. Len(pollfds_)
    BY <1>0, <2>2, LenProperties DEF registry, RegistryOK
  <2> QED  BY <2>1, <2>2, <2>3, RemoveFails DEF FailedOK, PollerAsserts
<1>3. ASSUME NEW c \in Channel, Delete(c)
      PROVE  UNCHANGED <<poller, channel, registry, batch>> /\ FailedOK' /\ PollerAsserts'
  <2>1. fd_[c] \in Fd /\ DeleteFailure(c) # "no" /\ Abort(DeleteFailure(c))
    BY <1>0, <1>3 DEF Delete, ChannelOK
  <2>2. failed' \in {"handling", "added"} /\ UNCHANGED <<poller, channel, registry, batch>>
    BY <2>1, DeleteFails DEF Abort
  <2> QED  BY <2>2 DEF FailedOK, PollerAsserts
<1>4. ASSUME NEW fds \in SUBSET Fd, Wait(fds)  PROVE FALSE
  <2>1. PollReturns(fds)  BY <1>4 DEF Wait, EPollReturns
  <2>2. /\ poller = "poll" /\ fds \subseteq PollFds
        /\ \E f \in fds : channels_[f] = NoChannel \/ fd_[channels_[f]] # f
    BY <2>1 DEF PollReturns
  <2> QED  BY <2>2, FillFails, PollerAssumption
<1>5. ASSUME NEW c \in Channel, NEW f \in Fd, New(c, f)  PROVE FALSE  BY <1>5 DEF New
<1>6. ASSUME HandleEvent  PROVE FALSE  BY <1>6 DEF HandleEvent
<1> QED  BY <1>1, <1>2, <1>3, <1>4, <1>5, <1>6 DEF Next, Enable, Disable

-----------------------------------------------------------------------------
(* Steps that fail no assertion.                                           *)

Registered == ChannelOK /\ IdxOK /\ RegistryOK /\ MapInv /\ PollInv /\ EPollInv
Batched == BatchOK /\ BatchInv

\* The number of descriptors is a number.
LEMMA FdCount == IsFiniteSet(Fd) /\ Cardinality(Fd) \in Nat
BY PollerAssumption, FS_CardinalityType

\* Channel(): a new channel is not added.
LEMMA NewKeeps ==
  ASSUME PollerInv, NEW c \in Channel, NEW f \in Fd, New(c, f)
  PROVE  Registered' /\ Batched'
<1>0. /\ ChannelOK /\ IdxOK /\ RegistryOK /\ BatchOK
      /\ MapInv /\ PollInv /\ EPollInv /\ BatchInv
  BY InvParts
<1>1. /\ fd_[c] = Dead
      /\ fd_' = [fd_ EXCEPT ![c] = f] /\ events_' = [events_ EXCEPT ![c] = {}]
      /\ addedToLoop_' = [addedToLoop_ EXCEPT ![c] = FALSE]
      /\ idx_' = [idx_ EXCEPT ![c] = -1]
      /\ UNCHANGED <<poller, channels_, pollfds_, epollSet, activeChannels_, at>>
  BY DEF New, registry, batch
<1>2. ~addedToLoop_[c]  BY <1>0, <1>1, FdFacts DEF MapInv
<1>3. /\ \A d \in Channel : fd_'[d] = IF d = c THEN f ELSE fd_[d]
      /\ \A d \in Channel : events_'[d] = IF d = c THEN {} ELSE events_[d]
      /\ \A d \in Channel : idx_'[d] = IF d = c THEN -1 ELSE idx_[d]
  <2>1. DOMAIN idx_ = Channel  BY <1>0 DEF IdxOK, ChannelOK
  <2> QED  BY <1>0, <1>1, <2>1 DEF ChannelOK
<1>4. \A d \in Channel : addedToLoop_'[d] <=> addedToLoop_[d]
  BY <1>0, <1>1, <1>2 DEF ChannelOK
<1>5. \A d \in Channel : addedToLoop_[d] => d # c  BY <1>2
<1>6. ChannelOK'  BY <1>0, <1>1 DEF ChannelOK
<1>7. IdxOK'  BY <1>0, <1>1, FdCount DEF IdxOK, kNew
<1>8. RegistryOK'  BY <1>0, <1>1 DEF RegistryOK
<1>9. \A g \in Fd : channels_[g] # NoChannel =>
        channels_[g] \in Channel /\ channels_[g] # c
  BY <1>0, <1>5 DEF RegistryOK, MapInv
<1>10. MapInv'  BY <1>0, <1>1, <1>3, <1>4, <1>5, <1>9 DEF MapInv
<1>11. PollInv'  BY <1>0, <1>1, <1>3, <1>4, <1>5, <1>9 DEF PollInv, Entry
<1>12. EPollInv'  BY <1>0, <1>1, <1>2, <1>3, <1>4, <1>5, <1>9 DEF EPollInv, kNew
<1>13. Batched'
  <2>1. \A i \in 1 .. Len(activeChannels_) : activeChannels_[i] \in Channel
    BY <1>0, ElementOfSeq DEF BatchOK
  <2>2. at > 0 => at \in 1 .. Len(activeChannels_)  BY <1>0, LenProperties DEF BatchOK
  <2>3. f # Dead  BY FdFacts
  <2>4. at > 0 => fd_'[activeChannels_[at]] # Dead
    BY <1>0, <1>3, <2>1, <2>2, <2>3 DEF BatchInv
  <2> QED  BY <1>0, <1>1, <1>4, <2>1, <2>4 DEF Batched, BatchOK, BatchInv
<1> QED  BY <1>6, <1>7, <1>8, <1>10, <1>11, <1>12, <1>13 DEF Registered

\* Poll::updateChannel() of a channel without an index: a new entry.
LEMMA PushKeeps ==
  ASSUME PollerInv, poller = "poll", NEW c \in Channel, NEW ev \in SUBSET Event,
         fd_[c] \in Fd, idx_[c] < 0, channels_[fd_[c]] = NoChannel, PushEntry(c, ev),
         events_' = [events_ EXCEPT ![c] = ev],
         addedToLoop_' = [addedToLoop_ EXCEPT ![c] = TRUE],
         UNCHANGED <<poller, fd_, epollSet>>
  PROVE  /\ Registered' /\ Entry(c)'.fd = fd_[c]
         /\ \A d \in Channel : addedToLoop_[d] => Entry(d)' = Entry(d)
<1>0. /\ ChannelOK /\ IdxOK /\ RegistryOK /\ MapInv /\ PollInv
  BY InvParts
<1> DEFINE L == Len(pollfds_)
           e == [fd |-> fd_[c], events |-> ev]
<1>1. /\ pollfds_' = Append(pollfds_, e) /\ idx_' = [idx_ EXCEPT ![c] = L]
      /\ channels_' = [channels_ EXCEPT ![fd_[c]] = c]
  BY DEF PushEntry
<1>2. L \in 0 .. Cardinality(Fd) - 1 /\ L \in Nat  BY ArrayBound, FdCount
<1>3. e \in EntrySet  BY DEF EntrySet
<1>4. /\ pollfds_' \in Seq(EntrySet) /\ Len(pollfds_') = L + 1
      /\ \A i \in 1 .. L : pollfds_'[i] = pollfds_[i]
      /\ pollfds_'[L + 1] = e
  BY <1>0, <1>1, <1>3, AppendProperties DEF RegistryOK
<1> HIDE DEF L
<1>5. idx_ \in [Channel -> -1 .. Cardinality(Fd) - 1]  BY <1>0 DEF IdxOK
<1>6. ~addedToLoop_[c]  BY <1>0, <1>5, FdCount DEF PollInv
<1>7. /\ \A d \in Channel : events_'[d] = IF d = c THEN ev ELSE events_[d]
      /\ \A d \in Channel : idx_'[d] = IF d = c THEN L ELSE idx_[d]
      /\ \A g \in Fd : channels_'[g] = IF g = fd_[c] THEN c ELSE channels_[g]
  BY <1>0, <1>1, <1>5 DEF ChannelOK, RegistryOK
<1>8. \A d \in Channel : addedToLoop_'[d] <=> d = c \/ addedToLoop_[d]
  BY <1>0 DEF ChannelOK
<1>9. c # NoChannel  BY PollerAssumption
<1>10. ChannelOK'  BY <1>0 DEF ChannelOK
<1>11. IdxOK'  BY <1>1, <1>2, <1>5 DEF IdxOK
<1>12. RegistryOK'  BY <1>0, <1>1, <1>4 DEF RegistryOK
<1>13. \A d \in Channel : addedToLoop_[d] => fd_[d] # fd_[c] /\ fd_[d] \in Fd /\ d # c
  BY <1>0, <1>6, PollerAssumption DEF MapInv
<1>14. \A g \in Fd : channels_[g] # NoChannel =>
         channels_[g] \in Channel /\ channels_[g] # c /\ g # fd_[c]
  BY <1>0, <1>6 DEF RegistryOK, MapInv
<1>15. MapInv'  BY <1>0, <1>7, <1>8, <1>9, <1>13, <1>14 DEF MapInv
<1>16. idx_'[c] = L /\ Entry(c)' = e  BY <1>4, <1>7 DEF Entry
<1>17. ASSUME NEW d \in Channel, addedToLoop_[d]
       PROVE  /\ idx_'[d] = idx_[d] /\ events_'[d] = events_[d]
              /\ idx_[d] \in 0 .. L - 1 /\ Entry(d)' = Entry(d)
  <2>1. idx_'[d] = idx_[d] /\ events_'[d] = events_[d]  BY <1>7, <1>13, <1>17
  <2>2. idx_[d] \in 0 .. L - 1  BY <1>0, <1>17 DEF PollInv, L
  <2>3. idx_[d] + 1 \in 1 .. L  BY <1>2, <2>2
  <2>4. Entry(d)' = Entry(d)  BY <1>4, <2>1, <2>3 DEF Entry
  <2> QED  BY <2>1, <2>2, <2>4
<1>18. PollInv'
  <2>1. ASSUME NEW d \in Channel, addedToLoop_'[d]
        PROVE  /\ idx_'[d] \in 0 .. Len(pollfds_') - 1
               /\ Entry(d)'.events = events_'[d]
               /\ \/ Entry(d)'.fd = fd_'[d]
                  \/ Entry(d)'.fd = Ignored(fd_'[d]) /\ events_'[d] = {}
    <3>1. CASE d = c  BY <1>2, <1>4, <1>7, <1>16, <3>1
    <3>2. CASE d # c
      <4>1. addedToLoop_[d]  BY <1>8, <2>1, <3>2
      <4> QED  BY <1>0, <1>2, <1>4, <1>17, <4>1 DEF PollInv
    <3> QED  BY <3>1, <3>2
  <2>2. ASSUME NEW i \in 1 .. Len(pollfds_')
        PROVE  LET g == Decoded(pollfds_'[i].fd)
               IN  g \in Fd /\ channels_'[g] # NoChannel /\ idx_'[channels_'[g]] = i - 1
    <3>1. CASE i = L + 1
      <4>1. pollfds_'[i].fd = fd_[c] /\ Decoded(fd_[c]) = fd_[c]  BY <1>4, <3>1, FdFacts
      <4> QED  BY <1>2, <1>7, <1>9, <3>1, <4>1
    <3>2. CASE i \in 1 .. L
      <4> DEFINE g == Decoded(pollfds_[i].fd)
      <4>1. g \in Fd /\ channels_[g] # NoChannel /\ idx_[channels_[g]] = i - 1
        BY <1>0, <3>2 DEF PollInv, L
      <4>2. pollfds_'[i] = pollfds_[i]  BY <1>4, <3>2
      <4> HIDE DEF g
      <4>3. channels_'[g] = channels_[g] /\ idx_'[channels_[g]] = idx_[channels_[g]]
        BY <1>7, <1>14, <4>1
      <4> QED  BY <4>1, <4>2, <4>3 DEF g
    <3> QED  BY <1>2, <1>4, <3>1, <3>2
  <2> QED  BY <1>0, <2>1, <2>2 DEF PollInv
<1>19. EPollInv'  BY DEF EPollInv
<1> QED  BY <1>10, <1>11, <1>12, <1>15, <1>16, <1>17, <1>18, <1>19 DEF Registered

\* Poll::updateChannel() of a channel that has an entry.
LEMMA SetKeeps ==
  ASSUME PollerInv, poller = "poll", NEW c \in Channel, NEW ev \in SUBSET Event,
         fd_[c] \in Fd, hasChannel(c), SetEntry(c, ev),
         events_' = [events_ EXCEPT ![c] = ev],
         addedToLoop_' = [addedToLoop_ EXCEPT ![c] = TRUE],
         UNCHANGED <<poller, fd_, epollSet>>
  PROVE  /\ Registered'
         /\ Entry(c)'.fd = IF ev = {} THEN Ignored(fd_[c]) ELSE fd_[c]
         /\ \A d \in Channel \ {c} : addedToLoop_[d] => Entry(d)' = Entry(d)
<1>0. /\ ChannelOK /\ IdxOK /\ RegistryOK /\ MapInv /\ PollInv
  BY InvParts
<1> DEFINE L == Len(pollfds_)
           k == idx_[c] + 1
           e == [fd |-> IF ev = {} THEN Ignored(fd_[c]) ELSE fd_[c], events |-> ev]
<1>1. pollfds_' = [pollfds_ EXCEPT ![k] = e] /\ UNCHANGED <<idx_, channels_>>
  BY DEF SetEntry
<1>2. addedToLoop_[c]  BY <1>0, PollerAssumption DEF hasChannel, MapInv
<1>3. L \in Nat /\ pollfds_ \in Seq(EntrySet)  BY <1>0, LenProperties DEF RegistryOK
<1>4. idx_[c] \in 0 .. L - 1 /\ k \in 1 .. L  BY <1>0, <1>2, <1>3 DEF PollInv
<1>5. e \in EntrySet  BY DEF EntrySet
<1>6. /\ pollfds_' \in Seq(EntrySet) /\ Len(pollfds_') = L
      /\ \A i \in 1 .. L : pollfds_'[i] = IF i = k THEN e ELSE pollfds_[i]
  BY <1>1, <1>3, <1>4, <1>5, ExceptSeq
<1>7. Decoded(e.fd) = fd_[c]
  <2>1. CASE ev = {}  BY <2>1, FdFacts
  <2>2. CASE ev # {}  BY <2>2, FdFacts
  <2> QED  BY <2>1, <2>2
<1>8. /\ e.events = ev
      /\ e.fd = fd_[c] \/ (e.fd = Ignored(fd_[c]) /\ ev = {})
  OBVIOUS
<1> HIDE DEF e, k
<1>9. \A d \in Channel : events_'[d] = IF d = c THEN ev ELSE events_[d]
  BY <1>0 DEF ChannelOK
<1>10. \A d \in Channel : addedToLoop_'[d] <=> addedToLoop_[d]  BY <1>0, <1>2 DEF ChannelOK
<1>11. ChannelOK'  BY <1>0 DEF ChannelOK
<1>12. IdxOK' /\ RegistryOK'  BY <1>0, <1>1, <1>6 DEF IdxOK, RegistryOK
<1>13. MapInv'  BY <1>0, <1>1, <1>10 DEF MapInv, RegistryOK
<1>14. Entry(c)' = e  BY <1>1, <1>4, <1>6 DEF Entry, k
<1>15. ASSUME NEW d \in Channel, addedToLoop_[d]
       PROVE  /\ idx_'[d] = idx_[d] /\ idx_[d] \in 0 .. L - 1
              /\ d # c => Entry(d)' = Entry(d)
  <2>1. idx_[d] \in 0 .. L - 1 /\ idx_[d] + 1 \in 1 .. L
    BY <1>0, <1>3, <1>15 DEF PollInv
  <2>2. ASSUME d # c  PROVE Entry(d)' = Entry(d)
    <3>1. idx_[d] # idx_[c]  BY <1>2, <1>15, <2>2, IdxInjective
    <3>2. idx_[d] + 1 # k  BY <1>4, <2>1, <3>1 DEF k
    <3>3. pollfds_'[idx_[d] + 1] = pollfds_[idx_[d] + 1]  BY <1>6, <2>1, <3>2
    <3> QED  BY <1>1, <3>3 DEF Entry
  <2> QED  BY <1>1, <2>1, <2>2
<1>16. PollInv'
  <2>1. ASSUME NEW d \in Channel, addedToLoop_'[d]
        PROVE  /\ idx_'[d] \in 0 .. Len(pollfds_') - 1
               /\ Entry(d)'.events = events_'[d]
               /\ \/ Entry(d)'.fd = fd_'[d]
                  \/ Entry(d)'.fd = Ignored(fd_'[d]) /\ events_'[d] = {}
    <3>1. addedToLoop_[d]  BY <1>10, <2>1
    <3>2. idx_'[d] \in 0 .. Len(pollfds_') - 1  BY <1>6, <1>15, <3>1
    <3>3. CASE d = c  BY <1>8, <1>9, <1>14, <3>2, <3>3
    <3>4. CASE d # c
      <4>1. events_'[d] = events_[d]  BY <1>9, <3>4
      <4> QED  BY <1>0, <1>15, <3>1, <3>2, <3>4, <4>1 DEF PollInv
    <3> QED  BY <3>3, <3>4
  <2>2. ASSUME NEW i \in 1 .. Len(pollfds_')
        PROVE  LET g == Decoded(pollfds_'[i].fd)
               IN  g \in Fd /\ channels_'[g] # NoChannel /\ idx_'[channels_'[g]] = i - 1
    <3>1. CASE i = k
      <4>1. pollfds_'[i] = e  BY <1>4, <1>6, <3>1
      <4>2. Decoded(pollfds_'[i].fd) = fd_[c]  BY <1>7, <4>1
      <4>3. idx_[c] = k - 1  BY <1>4 DEF k
      <4> QED  BY <1>1, <3>1, <4>2, <4>3, PollerAssumption DEF hasChannel
    <3>2. CASE i # k
      <4>1. i \in 1 .. L /\ pollfds_'[i] = pollfds_[i]  BY <1>6, <3>2
      <4> QED  BY <1>0, <1>1, <4>1 DEF PollInv
    <3> QED  BY <3>1, <3>2
  <2> QED  BY <1>0, <2>1, <2>2 DEF PollInv
<1>17. EPollInv'  BY DEF EPollInv
<1>18. e.fd = IF ev = {} THEN Ignored(fd_[c]) ELSE fd_[c]  BY DEF e
<1> QED  BY <1>11, <1>12, <1>13, <1>14, <1>15, <1>16, <1>17, <1>18 DEF Registered

\* EPoll::updateChannel(): the kernel's set follows the channel.
LEMMA EPollUpdateKeeps ==
  ASSUME PollerInv, poller = "epoll", NEW c \in Channel, NEW ev \in SUBSET Event,
         fd_[c] \in Fd, \A d \in Channel \ {c} : fd_[d] = fd_[c] => ~addedToLoop_[d],
         EPollUpdate(c, ev),
         events_' = [events_ EXCEPT ![c] = ev],
         addedToLoop_' = [addedToLoop_ EXCEPT ![c] = TRUE],
         UNCHANGED <<poller, fd_>>
  PROVE  Registered'
<1>0. ChannelOK /\ IdxOK /\ RegistryOK /\ MapInv /\ EPollInv  BY InvParts
<1> DEFINE op == Operation(c, ev)
           w == IF op = "DEL" THEN Unwatched ELSE [ch |-> c, events |-> ev]
           x == IF op = "DEL" THEN kDeleted ELSE kAdded
<1>1. /\ channels_' = IF idx_[c] = kNew THEN [channels_ EXCEPT ![fd_[c]] = c] ELSE channels_
      /\ epollSet' = [epollSet EXCEPT ![fd_[c]] = w]
      /\ idx_' = [idx_ EXCEPT ![c] = x]
      /\ pollfds_' = pollfds_
  BY DEF EPollUpdate, update
<1>2. idx_ \in [Channel -> {kNew, kAdded, kDeleted}]  BY <1>0 DEF IdxOK
<1>3. op = "DEL" => ev = {}  BY DEF Operation
<1>4. \/ x = kAdded /\ w = [ch |-> c, events |-> ev]
      \/ x = kDeleted /\ w = Unwatched /\ ev = {}
  BY <1>3
<1>5. w \in Watch /\ (w # Unwatched => w.ch = c)
  BY <1>4 DEF Watch, Unwatched
<1> HIDE DEF op, w, x
<1>6. addedToLoop_[c] => channels_[fd_[c]] = c  BY <1>0 DEF MapInv
<1>7. idx_[c] # kNew => addedToLoop_[c]  BY <1>0 DEF EPollInv
<1>8. \A g \in Fd : channels_'[g] = IF g = fd_[c] THEN c ELSE channels_[g]
  <2>1. CASE idx_[c] = kNew  BY <1>0, <1>1, <2>1 DEF RegistryOK
  <2>2. CASE idx_[c] # kNew  BY <1>1, <1>6, <1>7, <2>2
  <2> QED  BY <2>1, <2>2
<1>9. /\ \A d \in Channel : events_'[d] = IF d = c THEN ev ELSE events_[d]
      /\ \A d \in Channel : idx_'[d] = IF d = c THEN x ELSE idx_[d]
      /\ \A g \in Fd : epollSet'[g] = IF g = fd_[c] THEN w ELSE epollSet[g]
  BY <1>0, <1>1, <1>2 DEF ChannelOK, RegistryOK
<1>10. \A d \in Channel : addedToLoop_'[d] <=> d = c \/ addedToLoop_[d]
  BY <1>0 DEF ChannelOK
<1>11. c # NoChannel  BY PollerAssumption
<1>12. ChannelOK'  BY <1>0 DEF ChannelOK
<1>13. IdxOK'  BY <1>1, <1>2, <1>4 DEF IdxOK
<1>14. RegistryOK'
  <2>1. channels_' \in [Fd -> Channel \cup {NoChannel}]  BY <1>0, <1>1 DEF RegistryOK
  <2> QED  BY <1>0, <1>1, <1>5, <2>1 DEF RegistryOK
<1>15. \A d \in Channel : addedToLoop_[d] /\ d # c => fd_[d] # fd_[c] /\ fd_[d] \in Fd
  BY <1>0 DEF MapInv
<1>16. MapInv'
  <2>1. ASSUME NEW d \in Channel, addedToLoop_'[d]
        PROVE  fd_[d] \in Fd /\ channels_'[fd_[d]] = d
    BY <1>0, <1>8, <1>10, <1>15, <2>1 DEF MapInv
  <2>2. ASSUME NEW g \in Fd, channels_'[g] # NoChannel
        PROVE  fd_[channels_'[g]] = g /\ addedToLoop_'[channels_'[g]]
    <3>1. CASE g = fd_[c]  BY <1>8, <1>10, <3>1
    <3>2. CASE g # fd_[c]
      <4>1. channels_'[g] = channels_[g] /\ channels_[g] \in Channel
        BY <1>0, <1>8, <2>2, <3>2 DEF RegistryOK
      <4> QED  BY <1>0, <1>10, <2>2, <4>1 DEF MapInv
    <3> QED  BY <3>1, <3>2
  <2> QED  BY <2>1, <2>2 DEF MapInv
<1>17. PollInv'  BY DEF PollInv
<1>18. EPollInv'
  <2>1. ASSUME NEW d \in Channel
        PROVE  IF addedToLoop_'[d]
               THEN \/ idx_'[d] = kAdded /\ epollSet'[fd_[d]] = [ch |-> d, events |-> events_'[d]]
                    \/ idx_'[d] = kDeleted /\ epollSet'[fd_[d]] = Unwatched /\ events_'[d] = {}
               ELSE idx_'[d] = kNew
    <3>1. CASE d = c  BY <1>4, <1>9, <1>10, <3>1
    <3>2. CASE d # c /\ addedToLoop_[d]
      <4>1. /\ addedToLoop_'[d] /\ idx_'[d] = idx_[d] /\ events_'[d] = events_[d]
            /\ epollSet'[fd_[d]] = epollSet[fd_[d]]
        BY <1>9, <1>10, <1>15, <3>2
      <4> QED  BY <1>0, <3>2, <4>1 DEF EPollInv
    <3>3. CASE d # c /\ ~addedToLoop_[d]
      <4>1. ~addedToLoop_'[d] /\ idx_'[d] = idx_[d]  BY <1>9, <1>10, <3>3
      <4> QED  BY <1>0, <3>3, <4>1 DEF EPollInv
    <3> QED  BY <3>1, <3>2, <3>3
  <2>2. ASSUME NEW g \in Fd, epollSet'[g] # Unwatched
        PROVE  channels_'[g] # NoChannel /\ epollSet'[g].ch = channels_'[g]
    <3>1. CASE g = fd_[c]  BY <1>5, <1>8, <1>9, <1>11, <2>2, <3>1
    <3>2. CASE g # fd_[c]  BY <1>0, <1>8, <1>9, <2>2, <3>2 DEF EPollInv
    <3> QED  BY <3>1, <3>2
  <2> QED  BY <1>0, <1>1, <2>1, <2>2 DEF EPollInv
<1> QED  BY <1>12, <1>13, <1>14, <1>16, <1>17, <1>18 DEF Registered

\* Channel::update(): enableRead() to disableAll().
LEMMA UpdateKeeps ==
  ASSUME PollerInv, NEW c \in Channel, NEW ev \in SUBSET Event, Update(c, ev),
         failed' = "no"
  PROVE  Registered' /\ Batched'
<1>0. ChannelOK /\ IdxOK /\ BatchOK /\ BatchInv  BY InvParts
<1>1. /\ fd_[c] \in Fd
      /\ \A d \in Channel \ {c} : fd_[d] = fd_[c] => ~addedToLoop_[d]
  BY <1>0 DEF Update, ChannelOK
<1>2. UpdateFailure(c, ev) = "no"  BY DEF Update, Abort
<1>3. /\ events_' = [events_ EXCEPT ![c] = ev]
      /\ addedToLoop_' = [addedToLoop_ EXCEPT ![c] = TRUE]
      /\ IF poller = "poll" THEN PollUpdate(c, ev) ELSE EPollUpdate(c, ev)
      /\ UNCHANGED <<poller, fd_, batch>>
  BY <1>2 DEF Update
<1>4. ASSUME poller = "poll"  PROVE Registered'
  <2>1. PollUpdateFailure(c) = "no" /\ PollUpdate(c, ev)  BY <1>2, <1>3, <1>4 DEF UpdateFailure
  <2>2. CASE idx_[c] < 0
    <3>1. channels_[fd_[c]] = NoChannel  BY <2>1, <2>2 DEF PollUpdateFailure
    <3>2. PushEntry(c, ev) /\ UNCHANGED epollSet  BY <2>1, <2>2 DEF PollUpdate
    <3> QED  BY <1>1, <1>3, <1>4, <2>2, <3>1, <3>2, PushKeeps
  <2>3. CASE ~(idx_[c] < 0)
    <3>1. hasChannel(c)  BY <2>1, <2>3 DEF PollUpdateFailure
    <3>2. SetEntry(c, ev) /\ UNCHANGED epollSet  BY <2>1, <2>3 DEF PollUpdate
    <3> QED  BY <1>1, <1>3, <1>4, <3>1, <3>2, SetKeeps
  <2> QED  BY <2>2, <2>3
<1>5. ASSUME poller = "epoll"  PROVE Registered'  BY <1>1, <1>3, <1>5, EPollUpdateKeeps
<1>6. Batched'
  <2>1. \A i \in 1 .. Len(activeChannels_) : activeChannels_[i] \in Channel
    BY <1>0, ElementOfSeq DEF BatchOK
  <2>2. \A d \in Channel : addedToLoop_[d] => addedToLoop_'[d]  BY <1>0, <1>3 DEF ChannelOK
  <2> QED  BY <1>0, <1>3, <2>1, <2>2 DEF Batched, BatchOK, BatchInv, batch
<1> QED  BY <1>0, <1>4, <1>5, <1>6 DEF ChannelOK

\* Poll::removeChannel(): the last entry takes the place of the one that goes,
\* and its channel the index.
LEMMA PollRemoveKeeps ==
  ASSUME PollerInv, poller = "poll", NEW c \in Channel, addedToLoop_[c], PollRemove(c),
         addedToLoop_' = [addedToLoop_ EXCEPT ![c] = FALSE],
         UNCHANGED <<poller, fd_, events_>>
  PROVE  /\ Registered'
         /\ \A d \in Channel \ {c} : addedToLoop_[d] => Entry(d)' = Entry(d)
<1>0. ChannelOK /\ IdxOK /\ RegistryOK /\ MapInv /\ PollInv  BY InvParts
<1> DEFINE L == Len(pollfds_)
           k == idx_[c] + 1
           last == pollfds_[L]
           m == channels_[Decoded(last.fd)]
<1>1. L \in Nat /\ pollfds_ \in Seq(EntrySet)  BY <1>0, LenProperties DEF RegistryOK
<1>2. idx_[c] \in 0 .. L - 1 /\ k \in 1 .. L /\ idx_[c] = k - 1 /\ L \in 1 .. L
  BY <1>0, <1>1 DEF PollInv
<1>3. fd_[c] \in Fd /\ channels_[fd_[c]] = c /\ c # NoChannel
  BY <1>0, PollerAssumption DEF MapInv
<1>4. /\ Decoded(last.fd) \in Fd /\ m \in Channel /\ idx_[m] = L - 1 /\ addedToLoop_[m]
      /\ fd_[m] = Decoded(last.fd) /\ Entry(m) = last
  BY <1>2, EntryFacts
<1>5. last \in EntrySet  BY <1>1, <1>2, ElementOfSeq
<1>6. /\ pollfds_' = Front([pollfds_ EXCEPT ![k] = last])
      /\ idx_' = IF k = L THEN idx_ ELSE [idx_ EXCEPT ![m] = idx_[c]]
      /\ channels_' = [channels_ EXCEPT ![fd_[c]] = NoChannel]
      /\ epollSet' = epollSet
  BY DEF PollRemove, MovedIdx, Last
<1> HIDE DEF L, k, last, m
<1>7. /\ pollfds_' \in Seq(EntrySet) /\ Len(pollfds_') = L - 1
      /\ \A i \in 1 .. L - 1 : pollfds_'[i] = IF i = k THEN last ELSE pollfds_[i]
  <2> DEFINE s == [pollfds_ EXCEPT ![k] = last]
  <2>1. /\ s \in Seq(EntrySet) /\ Len(s) = L
        /\ \A i \in 1 .. L : s[i] = IF i = k THEN last ELSE pollfds_[i]
    BY <1>1, <1>2, <1>5, ExceptSeq DEF L
  <2>2. pollfds_' = SubSeq(s, 1, L - 1)  BY <1>6, <2>1 DEF Front
  <2>3. \A i \in 1 .. L - 1 : s[i] \in EntrySet  BY <1>1, <2>1, ElementOfSeq
  <2> HIDE DEF s
  <2>4. /\ SubSeq(s, 1, L - 1) \in Seq(EntrySet)
        /\ Len(SubSeq(s, 1, L - 1)) = IF 1 <= L - 1 THEN (L - 1) - 1 + 1 ELSE 0
        /\ \A i \in 1 .. (L - 1) - 1 + 1 : SubSeq(s, 1, L - 1)[i] = s[1 + i - 1]
    <3>1. 1 \in Int /\ L - 1 \in Int  BY <1>1
    <3> QED  BY <2>3, <3>1, SubSeqProperties
  <2>5. Len(pollfds_') = L - 1  BY <1>1, <1>2, <2>2, <2>4
  <2>6. \A i \in 1 .. L - 1 : pollfds_'[i] = s[i]
    <3> TAKE i \in 1 .. L - 1
    <3>1. i \in 1 .. (L - 1) - 1 + 1 /\ 1 + i - 1 = i  BY <1>1
    <3> QED  BY <2>2, <2>4, <3>1
  <2>7. \A i \in 1 .. L - 1 : i \in 1 .. L  BY <1>1
  <2> QED  BY <2>1, <2>2, <2>4, <2>5, <2>6, <2>7
<1>8. /\ k = L => m = c
      /\ k # L => m # c
  BY <1>2, <1>4, IdxInjective
<1>9. idx_ \in [Channel -> -1 .. Cardinality(Fd) - 1]  BY <1>0 DEF IdxOK
<1>10. /\ \A d \in Channel : idx_'[d] = IF k # L /\ d = m THEN k - 1 ELSE idx_[d]
       /\ \A g \in Fd : channels_'[g] = IF g = fd_[c] THEN NoChannel ELSE channels_[g]
  BY <1>0, <1>2, <1>4, <1>6, <1>9 DEF RegistryOK
<1>11. \A d \in Channel : addedToLoop_'[d] <=> d # c /\ addedToLoop_[d]
  BY <1>0 DEF ChannelOK
<1>12. \A d \in Channel : addedToLoop_[d] /\ d # c =>
          fd_[d] \in Fd /\ fd_[d] # fd_[c] /\ channels_[fd_[d]] = d
  BY <1>0, <1>3 DEF MapInv
<1>13. ChannelOK'  BY <1>0 DEF ChannelOK
<1>14. IdxOK'  BY <1>6, <1>9 DEF IdxOK
<1>15. RegistryOK'  BY <1>0, <1>6, <1>7 DEF RegistryOK
<1>16. MapInv'
  <2>1. ASSUME NEW d \in Channel, addedToLoop_'[d]
        PROVE  fd_[d] \in Fd /\ channels_'[fd_[d]] = d
    BY <1>10, <1>11, <1>12, <2>1
  <2>2. ASSUME NEW g \in Fd, channels_'[g] # NoChannel
        PROVE  fd_[channels_'[g]] = g /\ addedToLoop_'[channels_'[g]]
    <3>1. g # fd_[c] /\ channels_'[g] = channels_[g] /\ channels_[g] \in Channel
      BY <1>0, <1>10, <2>2 DEF RegistryOK
    <3>2. fd_[channels_[g]] = g /\ addedToLoop_[channels_[g]]
      BY <1>0, <2>2, <3>1 DEF MapInv
    <3> QED  BY <1>11, <3>1, <3>2
  <2> QED  BY <2>1, <2>2 DEF MapInv
<1>17. ASSUME NEW d \in Channel, addedToLoop_[d], d # c
       PROVE  idx_'[d] \in 0 .. L - 2 /\ Entry(d)' = Entry(d)
  <2>1. idx_[d] \in 0 .. L - 1  BY <1>0, <1>17 DEF PollInv, L
  <2>2. CASE d = m
    <3>1. k # L  BY <1>8, <1>17, <2>2
    <3>2. idx_'[d] = k - 1  BY <1>10, <2>2, <3>1
    <3>3. idx_'[d] \in 0 .. L - 2 /\ idx_'[d] + 1 = k /\ k \in 1 .. L - 1
      BY <1>1, <1>2, <3>1, <3>2
    <3>4. pollfds_'[k] = last  BY <1>7, <3>3
    <3> QED  BY <1>4, <2>2, <3>3, <3>4 DEF Entry
  <2>3. CASE d # m
    <3>1. idx_[d] # k - 1  BY <1>2, <1>17, IdxInjective
    <3>2. idx_[d] # L - 1  BY <1>4, <1>17, <2>3, IdxInjective
    <3>3. idx_[d] \in 0 .. L - 2 /\ idx_[d] + 1 \in 1 .. L - 1 /\ idx_[d] + 1 # k
      BY <1>1, <1>2, <2>1, <3>1, <3>2
    <3>4. idx_'[d] = idx_[d]  BY <1>10, <2>3
    <3>5. pollfds_'[idx_[d] + 1] = pollfds_[idx_[d] + 1]  BY <1>7, <3>3
    <3> QED  BY <3>3, <3>4, <3>5 DEF Entry
  <2> QED  BY <2>2, <2>3
<1>18. PollInv'
  <2>1. ASSUME NEW d \in Channel, addedToLoop_'[d]
        PROVE  /\ idx_'[d] \in 0 .. Len(pollfds_') - 1
               /\ Entry(d)'.events = events_[d]
               /\ \/ Entry(d)'.fd = fd_[d]
                  \/ Entry(d)'.fd = Ignored(fd_[d]) /\ events_[d] = {}
    <3>1. addedToLoop_[d] /\ d # c  BY <1>11, <2>1
    <3>2. idx_'[d] \in 0 .. Len(pollfds_') - 1  BY <1>1, <1>7, <1>17, <3>1
    <3>3. /\ Entry(d).events = events_[d]
          /\ Entry(d).fd = fd_[d] \/ (Entry(d).fd = Ignored(fd_[d]) /\ events_[d] = {})
      BY <1>0, <3>1 DEF PollInv
    <3> QED  BY <1>17, <3>1, <3>2, <3>3
  <2>2. ASSUME NEW i \in 1 .. Len(pollfds_')
        PROVE  LET g == Decoded(pollfds_'[i].fd)
               IN  g \in Fd /\ channels_'[g] # NoChannel /\ idx_'[channels_'[g]] = i - 1
    <3>0. i \in 1 .. L - 1 /\ i \in 1 .. L /\ i # L /\ i \in Int  BY <1>1, <1>7
    <3>1. CASE i = k
      <4>1. pollfds_'[i] = last /\ m # c  BY <1>7, <1>8, <3>0, <3>1
      <4>2. fd_[m] # fd_[c] /\ channels_[fd_[m]] = m  BY <1>4, <1>12, <4>1
      <4>3. channels_'[fd_[m]] = m /\ idx_'[m] = i - 1
        BY <1>4, <1>10, <3>0, <3>1, <4>2
      <4> QED  BY <1>4, <4>1, <4>3, PollerAssumption
    <3>2. CASE i # k
      <4> DEFINE g == Decoded(pollfds_[i].fd)
                 d == channels_[g]
      <4>1. g \in Fd /\ d \in Channel /\ idx_[d] = i - 1 /\ addedToLoop_[d] /\ fd_[d] = g
        BY <3>0, EntryFacts DEF L
      <4>2. pollfds_'[i] = pollfds_[i]  BY <1>7, <3>0, <3>2
      <4> HIDE DEF g, d
      <4>3. d # c /\ d # m  BY <1>1, <1>2, <1>4, <3>0, <3>2, <4>1
      <4>4. fd_[d] # fd_[c] /\ channels_[fd_[d]] = d  BY <1>12, <4>1, <4>3
      <4>5. channels_'[g] = d /\ idx_'[d] = i - 1  BY <1>10, <4>1, <4>3, <4>4
      <4> QED  BY <4>1, <4>2, <4>5, PollerAssumption DEF g
    <3> QED  BY <3>1, <3>2
  <2> QED  BY <1>0, <1>6, <2>1, <2>2 DEF PollInv
<1>19. EPollInv'  BY DEF EPollInv
<1> QED  BY <1>13, <1>14, <1>15, <1>16, <1>17, <1>18, <1>19 DEF Registered

\* EPoll::removeChannel(): the map and the kernel forget the channel.
LEMMA EPollRemoveKeeps ==
  ASSUME PollerInv, poller = "epoll", NEW c \in Channel, addedToLoop_[c], EPollRemove(c),
         addedToLoop_' = [addedToLoop_ EXCEPT ![c] = FALSE],
         UNCHANGED <<poller, fd_, events_>>
  PROVE  Registered' /\ epollSet' = [epollSet EXCEPT ![fd_[c]] = Unwatched]
<1>0. ChannelOK /\ IdxOK /\ RegistryOK /\ MapInv /\ EPollInv  BY InvParts
<1>1. fd_[c] \in Fd /\ channels_[fd_[c]] = c  BY <1>0 DEF MapInv
<1>2. /\ channels_' = [channels_ EXCEPT ![fd_[c]] = NoChannel]
      /\ idx_' = [idx_ EXCEPT ![c] = kNew] /\ pollfds_' = pollfds_
  BY DEF EPollRemove
<1>3. epollSet' = [epollSet EXCEPT ![fd_[c]] = Unwatched]
  <2>1. CASE idx_[c] = kAdded  BY <2>1 DEF EPollRemove, update
  <2>2. CASE idx_[c] # kAdded
    <3>1. epollSet[fd_[c]] = Unwatched  BY <1>0, <2>2 DEF EPollInv
    <3>2. epollSet' = epollSet  BY <2>2 DEF EPollRemove
    <3> QED  BY <1>0, <1>1, <3>1, <3>2 DEF RegistryOK
  <2> QED  BY <2>1, <2>2
<1>4. idx_ \in [Channel -> {kNew, kAdded, kDeleted}]  BY <1>0 DEF IdxOK
<1>5. /\ \A d \in Channel : idx_'[d] = IF d = c THEN kNew ELSE idx_[d]
      /\ \A g \in Fd : channels_'[g] = IF g = fd_[c] THEN NoChannel ELSE channels_[g]
      /\ \A g \in Fd : epollSet'[g] = IF g = fd_[c] THEN Unwatched ELSE epollSet[g]
  BY <1>0, <1>2, <1>3, <1>4 DEF RegistryOK
<1>6. \A d \in Channel : addedToLoop_'[d] <=> d # c /\ addedToLoop_[d]
  BY <1>0 DEF ChannelOK
<1>7. \A d \in Channel : addedToLoop_[d] /\ d # c =>
         fd_[d] \in Fd /\ fd_[d] # fd_[c] /\ channels_[fd_[d]] = d
  BY <1>0, <1>1 DEF MapInv
<1>8. ChannelOK'  BY <1>0 DEF ChannelOK
<1>9. IdxOK'  BY <1>2, <1>4 DEF IdxOK
<1>10. RegistryOK'
  <2>1. Unwatched \in Watch  BY DEF Watch
  <2> QED  BY <1>0, <1>2, <1>3, <2>1 DEF RegistryOK
<1>11. MapInv'
  <2>1. ASSUME NEW d \in Channel, addedToLoop_'[d]
        PROVE  fd_[d] \in Fd /\ channels_'[fd_[d]] = d
    BY <1>5, <1>6, <1>7, <2>1
  <2>2. ASSUME NEW g \in Fd, channels_'[g] # NoChannel
        PROVE  fd_[channels_'[g]] = g /\ addedToLoop_'[channels_'[g]]
    <3>1. g # fd_[c] /\ channels_'[g] = channels_[g] /\ channels_[g] \in Channel
      BY <1>0, <1>5, <2>2 DEF RegistryOK
    <3>2. fd_[channels_[g]] = g /\ addedToLoop_[channels_[g]]
      BY <1>0, <2>2, <3>1 DEF MapInv
    <3> QED  BY <1>6, <3>1, <3>2
  <2> QED  BY <2>1, <2>2 DEF MapInv
<1>12. PollInv'  BY DEF PollInv
<1>13. EPollInv'
  <2>1. ASSUME NEW d \in Channel
        PROVE  IF addedToLoop_'[d]
               THEN \/ idx_'[d] = kAdded /\ epollSet'[fd_[d]] = [ch |-> d, events |-> events_[d]]
                    \/ idx_'[d] = kDeleted /\ epollSet'[fd_[d]] = Unwatched /\ events_[d] = {}
               ELSE idx_'[d] = kNew
    <3>1. CASE d = c  BY <1>5, <1>6, <3>1
    <3>2. CASE d # c /\ addedToLoop_[d]
      <4>1. addedToLoop_'[d] /\ idx_'[d] = idx_[d] /\ epollSet'[fd_[d]] = epollSet[fd_[d]]
        BY <1>5, <1>6, <1>7, <3>2
      <4> QED  BY <1>0, <3>2, <4>1 DEF EPollInv
    <3>3. CASE d # c /\ ~addedToLoop_[d]
      <4>1. ~addedToLoop_'[d] /\ idx_'[d] = idx_[d]  BY <1>5, <1>6, <3>3
      <4> QED  BY <1>0, <3>3, <4>1 DEF EPollInv
    <3> QED  BY <3>1, <3>2, <3>3
  <2>2. ASSUME NEW g \in Fd, epollSet'[g] # Unwatched
        PROVE  channels_'[g] # NoChannel /\ epollSet'[g].ch = channels_'[g]
    <3>1. g # fd_[c] /\ epollSet'[g] = epollSet[g] /\ channels_'[g] = channels_[g]
      BY <1>5, <2>2
    <3> QED  BY <1>0, <2>2, <3>1 DEF EPollInv
  <2> QED  BY <1>0, <1>2, <2>1, <2>2 DEF EPollInv
<1> QED  BY <1>3, <1>8, <1>9, <1>10, <1>11, <1>12, <1>13 DEF Registered

\* EventLoop::removeChannel(): a channel that waits for its turn in the batch
\* stays.
LEMMA RemoveKeeps ==
  ASSUME PollerInv, NEW c \in Channel, RemoveChannel(c), failed' = "no"
  PROVE  Registered' /\ Batched'
<1>0. ChannelOK /\ BatchOK /\ BatchInv  BY InvParts
<1>1. addedToLoop_[c] /\ RemoveFailure(c) = "no"  BY DEF RemoveChannel, Abort
<1>2. /\ addedToLoop_' = [addedToLoop_ EXCEPT ![c] = FALSE]
      /\ IF poller = "poll" THEN PollRemove(c) ELSE EPollRemove(c)
      /\ UNCHANGED <<poller, fd_, events_, activeChannels_, at>>
  BY <1>1 DEF RemoveChannel, batch
<1>3. Registered'
  <2>1. CASE poller = "poll"  BY <1>1, <1>2, <2>1, PollRemoveKeeps
  <2>2. CASE poller = "epoll"  BY <1>1, <1>2, <2>2, EPollRemoveKeeps
  <2> QED  BY <1>0, <2>1, <2>2 DEF ChannelOK
<1>4. Batched'
  <2>1. ~(at > 0 /\ ~isCurrent(c) /\ c \in Range(activeChannels_))
    BY <1>1 DEF RemoveFailure
  <2>2. at \in Nat /\ DOMAIN activeChannels_ = 1 .. Len(activeChannels_)
    BY <1>0, LenProperties DEF BatchOK
  <2>3. ASSUME NEW i \in 1 .. Len(activeChannels_), i > at
        PROVE  activeChannels_[i] # c
    <3>1. at > 0  BY <1>0, <2>2, <2>3, EmptySeq DEF BatchInv
    <3>2. SUFFICES ASSUME activeChannels_[i] = c  PROVE FALSE  OBVIOUS
    <3>3. c \in Range(activeChannels_)  BY <2>2, <3>2 DEF Range
    <3>4. activeChannels_[at] = c  BY <2>1, <3>1, <3>3 DEF isCurrent
    <3>5. at \in 1 .. Len(activeChannels_)  BY <1>0, <3>1, LenProperties DEF BatchOK
    <3>6. i = at  BY <1>0, <3>2, <3>4, <3>5 DEF BatchInv
    <3> QED  BY <2>2, <2>3, <3>6
  <2>4. \A i \in 1 .. Len(activeChannels_) : activeChannels_[i] \in Channel
    BY <1>0, ElementOfSeq DEF BatchOK
  <2>5. \A d \in Channel \ {c} : addedToLoop_[d] => addedToLoop_'[d]
    BY <1>0, <1>2 DEF ChannelOK
  <2> QED  BY <1>0, <1>2, <2>3, <2>4, <2>5 DEF Batched, BatchOK, BatchInv
<1> QED  BY <1>3, <1>4

\* ~Channel(): nothing refers to the channel any more.
LEMMA DeleteKeeps ==
  ASSUME PollerInv, NEW c \in Channel, Delete(c), failed' = "no"
  PROVE  Registered' /\ Batched'
<1>0. /\ ChannelOK /\ IdxOK /\ RegistryOK /\ BatchOK
      /\ MapInv /\ PollInv /\ EPollInv /\ BatchInv
  BY InvParts
<1>1. DeleteFailure(c) = "no"  BY DEF Delete, Abort
<1>2. ~isCurrent(c) /\ ~addedToLoop_[c]  BY <1>1 DEF DeleteFailure
<1>3. /\ fd_' = [fd_ EXCEPT ![c] = Dead] /\ events_' = [events_ EXCEPT ![c] = {}]
      /\ idx_' = [idx_ EXCEPT ![c] = -1]
      /\ UNCHANGED <<poller, addedToLoop_, channels_, pollfds_, epollSet,
                     activeChannels_, at>>
  BY <1>1 DEF Delete, registry, batch
<1>4. /\ \A d \in Channel : fd_'[d] = IF d = c THEN Dead ELSE fd_[d]
      /\ \A d \in Channel : events_'[d] = IF d = c THEN {} ELSE events_[d]
      /\ \A d \in Channel : idx_'[d] = IF d = c THEN -1 ELSE idx_[d]
  <2>1. DOMAIN idx_ = Channel  BY <1>0 DEF IdxOK, ChannelOK
  <2> QED  BY <1>0, <1>3, <2>1 DEF ChannelOK
<1>5. \A d \in Channel : addedToLoop_[d] => d # c  BY <1>2
<1>6. ChannelOK'  BY <1>0, <1>3 DEF ChannelOK
<1>7. IdxOK'  BY <1>0, <1>3, FdCount DEF IdxOK, kNew
<1>8. RegistryOK'  BY <1>0, <1>3 DEF RegistryOK
<1>9. \A g \in Fd : channels_[g] # NoChannel =>
        channels_[g] \in Channel /\ channels_[g] # c
  BY <1>0, <1>5 DEF RegistryOK, MapInv
<1>10. MapInv'  BY <1>0, <1>3, <1>4, <1>5, <1>9 DEF MapInv
<1>11. PollInv'  BY <1>0, <1>3, <1>4, <1>5, <1>9 DEF PollInv, Entry
<1>12. EPollInv'  BY <1>0, <1>2, <1>3, <1>4, <1>5, <1>9 DEF EPollInv, kNew
<1>13. Batched'
  <2>1. \A i \in 1 .. Len(activeChannels_) : activeChannels_[i] \in Channel
    BY <1>0, ElementOfSeq DEF BatchOK
  <2>2. at > 0 => at \in 1 .. Len(activeChannels_)  BY <1>0, LenProperties DEF BatchOK
  <2>3. at > 0 => activeChannels_[at] # c  BY <1>2 DEF isCurrent
  <2>4. at > 0 => fd_'[activeChannels_[at]] # Dead
    BY <1>0, <1>4, <2>1, <2>2, <2>3 DEF BatchInv
  <2> QED  BY <1>0, <1>3, <2>4 DEF Batched, BatchOK, BatchInv
<1> QED  BY <1>6, <1>7, <1>8, <1>10, <1>11, <1>12, <1>13 DEF Registered

\* A step that leaves channels and the registry alone.
LEMMA RegistryKeeps ==
  ASSUME PollerInv, UNCHANGED <<poller, channel, registry>>
  PROVE  Registered'
<1>1. ChannelOK /\ IdxOK /\ RegistryOK /\ MapInv /\ PollInv /\ EPollInv  BY InvParts
<1>2. UNCHANGED <<poller, fd_, events_, addedToLoop_, idx_, channels_, pollfds_, epollSet>>
  BY DEF channel, registry
<1>3. ChannelOK' /\ IdxOK' /\ RegistryOK'
  BY <1>1, <1>2 DEF ChannelOK, IdxOK, RegistryOK
<1>4. MapInv' /\ PollInv' /\ EPollInv'
  BY <1>1, <1>2 DEF MapInv, PollInv, EPollInv, Entry
<1> QED  BY <1>3, <1>4 DEF Registered

\* EventLoop::loop() goes on to the next channel of the batch.
LEMMA HandleKeeps ==
  ASSUME PollerInv, HandleEvent
  PROVE  Registered' /\ Batched'
<1>0. ChannelOK /\ BatchOK /\ MapInv /\ BatchInv  BY InvParts
<1>1. UNCHANGED <<poller, fd_, addedToLoop_>>  BY DEF HandleEvent, channel
<1>2. CASE at < Len(activeChannels_)
  <2>1. at' = at + 1 /\ activeChannels_' = activeChannels_  BY <1>2 DEF HandleEvent
  <2>2. at \in Nat /\ Len(activeChannels_) \in Nat  BY <1>0, LenProperties DEF BatchOK
  <2>3. at + 1 \in 1 .. Len(activeChannels_) /\ at + 1 > at  BY <1>2, <2>2
  <2>4. activeChannels_[at + 1] \in Channel  BY <1>0, <2>3, ElementOfSeq DEF BatchOK
  <2>5. fd_[activeChannels_[at + 1]] # Dead
    <3>1. addedToLoop_[activeChannels_[at + 1]]  BY <1>0, <2>3 DEF BatchInv
    <3> QED  BY <1>0, <2>4, <3>1, FdFacts DEF MapInv
  <2>6. BatchOK'  BY <1>0, <2>1, <2>2, <2>3 DEF BatchOK
  <2>7. \A i \in 1 .. Len(activeChannels_) : i > at + 1 => i > at  BY <2>2
  <2>8. BatchInv'  BY <1>0, <1>1, <2>1, <2>2, <2>3, <2>5, <2>7 DEF BatchInv
  <2> QED  BY <2>6, <2>8, RegistryKeeps DEF HandleEvent, Batched
<1>3. CASE ~(at < Len(activeChannels_))
  <2>1. at' = 0 /\ activeChannels_' = <<>>  BY <1>3 DEF HandleEvent
  <2>2. Len(activeChannels_') = 0 /\ activeChannels_' \in Seq(Channel)
    BY <2>1, EmptySeq
  <2>3. BatchOK' /\ BatchInv'  BY <2>1, <2>2 DEF BatchOK, BatchInv
  <2> QED  BY <2>3, RegistryKeeps DEF HandleEvent, Batched
<1> QED  BY <1>2, <1>3

\* A batch with each channel once, all of them added.
LEMMA FillKeeps ==
  ASSUME PollerInv, NEW n \in Nat \ {0}, NEW s \in [1 .. n -> Channel],
         \A i \in 1 .. n : addedToLoop_[s[i]],
         \A i, j \in 1 .. n : s[i] = s[j] => i = j,
         activeChannels_' = s, at' = 1, UNCHANGED <<poller, channel, registry>>
  PROVE  Registered' /\ Batched'
<1>1. s \in Seq(Channel) /\ Len(s) = n  OBVIOUS
<1>2. MapInv  BY InvParts
<1>3. UNCHANGED <<fd_, addedToLoop_>>  BY DEF channel
<1>4. s[1] \in Channel /\ addedToLoop_[s[1]]  OBVIOUS
<1>5. fd_[s[1]] # Dead  BY <1>2, <1>4, FdFacts DEF MapInv
<1>6. BatchOK'  BY <1>1 DEF BatchOK
<1>7. BatchInv'  BY <1>1, <1>3, <1>5 DEF BatchInv
<1> QED  BY <1>6, <1>7, RegistryKeeps DEF Batched

\* An order of a finite set that is not empty has each member once.
LEMMA OrderFacts ==
  ASSUME NEW S, IsFiniteSet(S), S # {}, NEW order \in SetToSeqs(S)
  PROVE  /\ Cardinality(S) \in Nat \ {0} /\ DOMAIN order = 1 .. Cardinality(S)
         /\ order \in [1 .. Cardinality(S) -> S]
         /\ \A i, j \in 1 .. Cardinality(S) : order[i] = order[j] => i = j
         /\ \A x \in S : \E i \in 1 .. Cardinality(S) : order[i] = x
<1> DEFINE D == 1 .. Cardinality(S)
<1>1. Cardinality(S) \in Nat \ {0}  BY FS_CardinalityType, FS_EmptySet
<1>2. order \in [D -> S] /\ \A i, j \in D : order[i] = order[j] => i = j
  BY DEF SetToSeqs
<1>3. order \in Injection(D, S)  BY <1>2 DEF Injection, IsInjective
<1>4. Cardinality(D) = Cardinality(S)  BY <1>1, FS_Interval
<1>5. order \in Surjection(D, S)  BY <1>3, <1>4, FS_Injection
<1>6. \A x \in S : \E i \in D : order[i] = x  BY <1>5 DEF Surjection
<1> QED  BY <1>1, <1>2, <1>6

\* Poll::fillActiveChannels().
LEMMA PollReturnsKeeps ==
  ASSUME PollerInv, NEW fds \in SUBSET Fd, fds # {}, PollReturns(fds), failed' = "no",
         failed = "no"
  PROVE  Registered' /\ Batched'
<1>0. ChannelOK /\ RegistryOK /\ MapInv  BY InvParts
<1>1. /\ poller = "poll" /\ fds \subseteq PollFds /\ PollFill(fds) /\ at' = 1
      /\ UNCHANGED <<poller, channel, registry>>
  BY DEF PollReturns, Abort
<1> DEFINE S == {i \in DOMAIN pollfds_ : pollfds_[i].fd \in fds}
           n == Cardinality(S)
<1>2. PICK order \in SetToSeqs(S) :
         activeChannels_' = [i \in DOMAIN order |-> channels_[pollfds_[order[i]].fd]]
  BY <1>1 DEF PollFill
<1>3. DOMAIN pollfds_ = 1 .. Len(pollfds_) /\ Len(pollfds_) \in Nat
  BY <1>0, LenProperties DEF RegistryOK
<1>4. IsFiniteSet(S)
  <2>1. IsFiniteSet(1 .. Len(pollfds_))  BY <1>3, FS_Interval
  <2> QED  BY <1>3, <2>1, FS_Subset
<1>5. S # {}  BY <1>1 DEF PollFds
<1>6. /\ n \in Nat \ {0} /\ DOMAIN order = 1 .. n /\ order \in [1 .. n -> S]
      /\ \A i, j \in 1 .. n : order[i] = order[j] => i = j
  BY <1>2, <1>4, <1>5, OrderFacts
<1>7. ASSUME NEW i \in S
      PROVE  LET f == pollfds_[i].fd
             IN  /\ f \in Fd /\ channels_[f] \in Channel /\ addedToLoop_[channels_[f]]
                 /\ fd_[channels_[f]] = f /\ idx_[channels_[f]] = i - 1
  <2>1. i \in 1 .. Len(pollfds_) /\ pollfds_[i].fd \in Fd  BY <1>3
  <2>2. Decoded(pollfds_[i].fd) = pollfds_[i].fd  BY <2>1, FdFacts
  <2> QED  BY <1>1, <2>1, <2>2, EntryFacts
<1>8. \A i \in S : i \in Int  BY <1>3
<1> DEFINE s == [i \in 1 .. n |-> channels_[pollfds_[order[i]].fd]]
<1> HIDE DEF n, S
<1>9. s \in [1 .. n -> Channel] /\ \A i \in 1 .. n : addedToLoop_[s[i]]
  BY <1>6, <1>7
<1>10. ASSUME NEW i \in 1 .. n, NEW j \in 1 .. n, s[i] = s[j]  PROVE i = j
  <2>1. order[i] \in S /\ order[j] \in S  BY <1>6
  <2>2. idx_[s[i]] = order[i] - 1 /\ idx_[s[j]] = order[j] - 1  BY <1>7, <2>1
  <2>3. order[i] - 1 = order[j] - 1  BY <1>10, <2>2
  <2>4. order[i] = order[j]  BY <1>8, <2>1, <2>3
  <2> QED  BY <1>6, <2>4
<1>11. activeChannels_' = s  BY <1>2, <1>6
<1> HIDE DEF s
<1> QED  BY <1>1, <1>6, <1>9, <1>10, <1>11, FillKeeps

\* EPoll::fillActiveChannels().
LEMMA EPollReturnsKeeps ==
  ASSUME PollerInv, NEW fds \in SUBSET Fd, fds # {}, EPollReturns(fds)
  PROVE  Registered' /\ Batched'
<1>0. RegistryOK /\ MapInv /\ EPollInv  BY InvParts
<1> DEFINE n == Cardinality(fds)
<1>1. /\ poller = "epoll" /\ fds \subseteq EPollFds /\ at' = 1
      /\ UNCHANGED <<poller, channel, registry>>
  BY DEF EPollReturns
<1>2. PICK order \in SetToSeqs(fds) :
         activeChannels_' = [i \in DOMAIN order |-> epollSet[order[i]].ch]
  BY DEF EPollReturns
<1>3. IsFiniteSet(fds)  BY FdCount, FS_Subset
<1>4. /\ n \in Nat \ {0} /\ DOMAIN order = 1 .. n /\ order \in [1 .. n -> fds]
      /\ \A i, j \in 1 .. n : order[i] = order[j] => i = j
  BY <1>2, <1>3, OrderFacts
<1>5. ASSUME NEW f \in fds
      PROVE  /\ epollSet[f].ch \in Channel /\ addedToLoop_[epollSet[f].ch]
             /\ fd_[epollSet[f].ch] = f
  <2>1. f \in Fd /\ epollSet[f] # Unwatched  BY <1>1 DEF EPollFds
  <2>2. epollSet[f].ch = channels_[f] /\ channels_[f] # NoChannel
    BY <1>0, <1>1, <2>1 DEF EPollInv
  <2> QED  BY <1>0, <2>1, <2>2 DEF RegistryOK, MapInv
<1> DEFINE s == [i \in 1 .. n |-> epollSet[order[i]].ch]
<1> HIDE DEF n
<1>6. s \in [1 .. n -> Channel] /\ \A i \in 1 .. n : addedToLoop_[s[i]]
  BY <1>4, <1>5
<1>7. ASSUME NEW i \in 1 .. n, NEW j \in 1 .. n, s[i] = s[j]  PROVE i = j
  <2>1. order[i] \in fds /\ order[j] \in fds  BY <1>4
  <2>2. fd_[s[i]] = order[i] /\ fd_[s[j]] = order[j]  BY <1>5, <2>1
  <2> QED  BY <1>4, <1>7, <2>2
<1>8. activeChannels_' = s  BY <1>2, <1>4
<1> HIDE DEF s
<1> QED  BY <1>1, <1>4, <1>6, <1>7, <1>8, FillKeeps

-----------------------------------------------------------------------------
(* The theorems.                                                           *)

\* Every step keeps the invariant.
LEMMA PollerStep == PollerInv /\ [Next]_vars => PollerInv'
<1> SUFFICES ASSUME PollerInv, [Next]_vars  PROVE PollerInv'  OBVIOUS
<1>0. ChannelOK /\ BatchOK /\ FailedOK /\ BatchInv /\ PollerAsserts
  BY InvParts DEF PollerInv
<1>1. CASE UNCHANGED <<poller, channel, registry, batch>> /\ FailedOK' /\ PollerAsserts'
  <2>1. Registered'  BY <1>1, RegistryKeeps
  <2>2. Batched'
    <3>1. UNCHANGED <<fd_, addedToLoop_, activeChannels_, at>>  BY <1>1 DEF channel, batch
    <3> QED  BY <1>0, <3>1 DEF Batched, BatchOK, BatchInv
  <2> QED  BY <1>1, <2>1, <2>2, TypeParts DEF Registered, Batched, PollerInv
<1>2. CASE vars' = vars
  <2>1. UNCHANGED <<poller, channel, registry, batch, failed>>  BY <1>2 DEF vars
  <2>2. FailedOK'  BY <1>0, <2>1 DEF FailedOK
  <2>3. PollerAsserts'  BY <1>0, <2>1 DEF PollerAsserts, channel, registry
  <2> QED  BY <1>1, <2>1, <2>2, <2>3
<1>3. CASE Next /\ failed' # "no"
  <2>1. failed = "no"
    BY <1>3 DEF Next, Enable, Disable, New, Update, RemoveChannel, Delete, Wait, HandleEvent
  <2> QED  BY <1>1, <1>3, <2>1, NextAborts
<1>4. CASE Next /\ failed' = "no"
  <2>1. Registered' /\ Batched'
    <3>1. ASSUME NEW c \in Channel, NEW f \in Fd, New(c, f)  PROVE Registered' /\ Batched'
      BY <3>1, NewKeeps
    <3>2. ASSUME NEW c \in Channel, Enable(c) \/ Disable(c)  PROVE Registered' /\ Batched'
      <4>1. PICK ev \in SUBSET Event : Update(c, ev)
        BY <1>0, <3>2 DEF Enable, Disable, ChannelOK
      <4> QED  BY <1>4, <4>1, UpdateKeeps
    <3>3. ASSUME NEW c \in Channel, RemoveChannel(c)  PROVE Registered' /\ Batched'
      BY <1>4, <3>3, RemoveKeeps
    <3>4. ASSUME NEW c \in Channel, Delete(c)  PROVE Registered' /\ Batched'
      BY <1>4, <3>4, DeleteKeeps
    <3>5. ASSUME NEW fds \in SUBSET Fd, Wait(fds)  PROVE Registered' /\ Batched'
      BY <1>4, <3>5, PollReturnsKeeps, EPollReturnsKeeps DEF Wait
    <3>6. ASSUME HandleEvent  PROVE Registered' /\ Batched'  BY <3>6, HandleKeeps
    <3> QED  BY <1>4, <3>1, <3>2, <3>3, <3>4, <3>5, <3>6 DEF Next
  <2>2. FailedOK' /\ PollerAsserts'  BY <1>4 DEF FailedOK, PollerAsserts
  <2> QED  BY <2>1, <2>2, TypeParts DEF Registered, Batched, PollerInv
<1> QED  BY <1>2, <1>3, <1>4

\* No channel exists at first.
LEMMA PollerStart == Init => PollerInv
<1> SUFFICES ASSUME Init  PROVE PollerInv  OBVIOUS
<1>1. pollfds_ \in Seq(EntrySet) /\ Len(pollfds_) = 0
      /\ activeChannels_ \in Seq(Channel) /\ Len(activeChannels_) = 0
  BY EmptySeq DEF Init
<1>2. Unwatched \in Watch  BY DEF Watch
<1>3. ChannelOK /\ RegistryOK /\ BatchOK /\ FailedOK
  BY <1>1, <1>2 DEF Init, ChannelOK, RegistryOK, BatchOK, FailedOK
<1>4. IdxOK  BY FdCount DEF Init, IdxOK, kNew
<1>5. MapInv  BY DEF Init, MapInv
<1>6. PollInv  BY <1>1 DEF Init, PollInv
<1>7. EPollInv  BY DEF Init, EPollInv, kNew
<1>8. BatchInv /\ PollerAsserts  BY <1>1 DEF Init, BatchInv, PollerAsserts
<1> QED  BY <1>3, <1>4, <1>5, <1>6, <1>7, <1>8, TypeParts DEF PollerInv

\* Channel, Poll and EPoll: the inductive invariant holds.
THEOREM PollerSafe == Spec => []PollerInv
BY PollerStart, PollerStep, PTL DEF Spec

-----------------------------------------------------------------------------
(* What the kernel watches.                                                *)

\* Watched(f), found through the map of channels instead of a search in the
\* array.
WatchedChannel(f) ==
  IF poller = "epoll" THEN epollSet[f]
  ELSE IF channels_[f] # NoChannel /\ Entry(channels_[f]).fd = f
  THEN [ch |-> channels_[f], events |-> events_[channels_[f]]]
  ELSE Unwatched

WatchedByChannel == \A f \in Fd : Watched(f) = WatchedChannel(f)

\* The array has at most one entry of a descriptor, its channel's.
LEMMA WatchedFacts == PollerInv => WatchedByChannel
<1> SUFFICES ASSUME PollerInv, NEW f \in Fd  PROVE Watched(f) = WatchedChannel(f)
  BY DEF WatchedByChannel
<1>0. ChannelOK /\ RegistryOK /\ MapInv /\ PollInv  BY InvParts
<1>1. CASE poller = "epoll"  BY <1>1 DEF Watched, WatchedChannel
<1>2. CASE poller = "poll"
  <2>0. DOMAIN pollfds_ = 1 .. Len(pollfds_) /\ Len(pollfds_) \in Nat
    BY <1>0, LenProperties DEF RegistryOK
  <2>1. ASSUME NEW i \in DOMAIN pollfds_, pollfds_[i].fd = f
        PROVE  /\ channels_[f] \in Channel /\ idx_[channels_[f]] = i - 1
               /\ addedToLoop_[channels_[f]] /\ Entry(channels_[f]) = pollfds_[i]
    <3>1. Decoded(pollfds_[i].fd) = f  BY <2>1, FdFacts
    <3> QED  BY <1>2, <2>0, <3>1, EntryFacts
  <2>2. CASE f \in PollFds
    <3> DEFINE k == CHOOSE i \in DOMAIN pollfds_ : pollfds_[i].fd = f
    <3>1. k \in DOMAIN pollfds_ /\ pollfds_[k].fd = f  BY <2>2 DEF PollFds
    <3> HIDE DEF k
    <3>2. /\ channels_[f] \in Channel /\ addedToLoop_[channels_[f]]
          /\ Entry(channels_[f]) = pollfds_[k]
      BY <2>1, <3>1
    <3>3. pollfds_[k].events = events_[channels_[f]]  BY <1>0, <1>2, <3>2 DEF PollInv
    <3>4. Watched(f) = [ch |-> channels_[f], events |-> pollfds_[k].events]
      BY <1>2, <2>2 DEF Watched, k
    <3>5. channels_[f] # NoChannel /\ Entry(channels_[f]).fd = f
      BY <3>1, <3>2, PollerAssumption
    <3> QED  BY <1>2, <3>3, <3>4, <3>5 DEF WatchedChannel
  <2>3. CASE f \notin PollFds
    <3>1. Watched(f) = Unwatched  BY <1>2, <2>3 DEF Watched
    <3>2. ~(channels_[f] # NoChannel /\ Entry(channels_[f]).fd = f)
      <4> SUFFICES ASSUME channels_[f] # NoChannel, Entry(channels_[f]).fd = f
                   PROVE  FALSE
        OBVIOUS
      <4>1. channels_[f] \in Channel /\ addedToLoop_[channels_[f]]
        BY <1>0 DEF RegistryOK, MapInv
      <4>2. idx_[channels_[f]] \in 0 .. Len(pollfds_) - 1  BY <1>0, <1>2, <4>1 DEF PollInv
      <4>3. idx_[channels_[f]] + 1 \in DOMAIN pollfds_  BY <2>0, <4>2
      <4> QED  BY <2>3, <4>3 DEF Entry, PollFds
    <3> QED  BY <1>2, <3>1, <3>2 DEF WatchedChannel
  <2> QED  BY <2>2, <2>3
<1> QED  BY <1>0, <1>1, <1>2 DEF ChannelOK

\* What the invariant says of a descriptor that is watched.
LEMMA WatchedInv ==
  ASSUME PollerInv, NEW f \in Fd, Watched(f) # Unwatched
  PROVE  LET c == channels_[f]
         IN  /\ c \in Channel /\ fd_[c] = f /\ addedToLoop_[c]
             /\ Watched(f) = [ch |-> c, events |-> events_[c]]
<1>0. ChannelOK /\ RegistryOK /\ MapInv /\ PollInv /\ EPollInv  BY InvParts
<1>1. Watched(f) = WatchedChannel(f)  BY WatchedFacts DEF WatchedByChannel
<1>2. channels_[f] # NoChannel
  <2>1. CASE poller = "epoll"  BY <1>0, <1>1, <2>1 DEF WatchedChannel, EPollInv
  <2>2. CASE poller # "epoll"  BY <1>1, <2>2 DEF WatchedChannel
  <2> QED  BY <2>1, <2>2
<1>3. /\ channels_[f] \in Channel /\ fd_[channels_[f]] = f /\ addedToLoop_[channels_[f]]
  BY <1>0, <1>2 DEF RegistryOK, MapInv
<1>4. Watched(f) = [ch |-> channels_[f], events |-> events_[channels_[f]]]
  <2>1. CASE poller = "epoll"
    <3>1. epollSet[f] # Unwatched  BY <1>1, <2>1 DEF WatchedChannel
    <3> QED  BY <1>0, <1>1, <1>3, <2>1, <3>1 DEF WatchedChannel, EPollInv
  <2>2. CASE poller # "epoll"  BY <1>1, <2>2 DEF WatchedChannel
  <2> QED  BY <2>1, <2>2
<1> QED  BY <1>3, <1>4

\* The invariant is strong enough: the kernel watches what is registered.
LEMMA InvWatches == PollerInv => KernelWatches
<1> SUFFICES ASSUME PollerInv  PROVE KernelWatches  OBVIOUS
<1>0. ChannelOK /\ MapInv /\ PollInv /\ EPollInv  BY InvParts
<1>1. ASSUME NEW c \in Channel, addedToLoop_[c]
      PROVE  /\ hasChannel(c)
             /\ events_[c] # {} => Watched(fd_[c]) = [ch |-> c, events |-> events_[c]]
             /\ poller = "poll" => Decoded(pollfds_[idx_[c] + 1].fd) = fd_[c]
  <2>1. fd_[c] \in Fd /\ channels_[fd_[c]] = c /\ c # NoChannel
    BY <1>0, <1>1, PollerAssumption DEF MapInv
  <2>2. Watched(fd_[c]) = WatchedChannel(fd_[c])  BY <2>1, WatchedFacts DEF WatchedByChannel
  <2>3. CASE poller = "poll"
    <3>1. Entry(c).fd = fd_[c] \/ (Entry(c).fd = Ignored(fd_[c]) /\ events_[c] = {})
      BY <1>0, <1>1, <2>3 DEF PollInv
    <3>2. Decoded(Entry(c).fd) = fd_[c]  BY <2>1, <3>1, FdFacts
    <3>3. ASSUME events_[c] # {}
          PROVE  Watched(fd_[c]) = [ch |-> c, events |-> events_[c]]
      BY <2>1, <2>2, <2>3, <3>1, <3>3 DEF WatchedChannel
    <3> QED  BY <2>1, <3>2, <3>3 DEF hasChannel, Entry
  <2>4. CASE poller = "epoll"
    <3>1. events_[c] # {} => epollSet[fd_[c]] = [ch |-> c, events |-> events_[c]]
      BY <1>0, <1>1, <2>4 DEF EPollInv
    <3> QED  BY <2>1, <2>2, <2>4, <3>1 DEF WatchedChannel, hasChannel
  <2> QED  BY <1>0, <2>3, <2>4 DEF ChannelOK
<1>2. ASSUME NEW f \in Fd, Watched(f) # Unwatched
      PROVE  LET c == Watched(f).ch
             IN  fd_[c] = f /\ addedToLoop_[c] /\ events_[c] = Watched(f).events
  BY <1>2, WatchedInv
<1> QED  BY <1>1, <1>2 DEF KernelWatches

\* The invariant is strong enough: nothing refers to a deleted channel.
LEMMA InvNoDangling == PollerInv => NoDanglingChannel
<1> SUFFICES ASSUME PollerInv  PROVE NoDanglingChannel  OBVIOUS
<1>0. /\ ChannelOK /\ RegistryOK /\ BatchOK
      /\ MapInv /\ PollInv /\ EPollInv /\ BatchInv
  BY InvParts
<1>1. ASSUME NEW i \in DOMAIN activeChannels_, i >= at
      PROVE  fd_[activeChannels_[i]] # Dead
  <2>1. i \in 1 .. Len(activeChannels_) /\ i \in Nat /\ at \in Nat
    BY <1>0, LenProperties DEF BatchOK
  <2>2. activeChannels_[i] \in Channel  BY <1>0, <2>1, ElementOfSeq DEF BatchOK
  <2>3. CASE i = at  BY <1>0, <2>1, <2>3 DEF BatchInv
  <2>4. CASE i > at
    <3>1. addedToLoop_[activeChannels_[i]]  BY <1>0, <2>1, <2>4 DEF BatchInv
    <3> QED  BY <1>0, <2>2, <3>1, FdFacts DEF MapInv
  <2> QED  BY <1>1, <2>1, <2>3, <2>4
<1>2. \A f \in Fd : channels_[f] # NoChannel => fd_[channels_[f]] = f
  BY <1>0 DEF MapInv
<1>3. ASSUME NEW f \in EPollFds  PROVE fd_[epollSet[f].ch] = f
  <2>1. f \in Fd /\ epollSet[f] # Unwatched  BY DEF EPollFds
  <2>2. poller = "epoll"
    <3>1. poller # "poll"  BY <1>0, <2>1 DEF PollInv
    <3> QED  BY <1>0, <3>1 DEF ChannelOK
  <2> QED  BY <1>0, <2>1, <2>2 DEF EPollInv, MapInv
<1> QED  BY <1>1, <1>2, <1>3 DEF NoDanglingChannel

\* Channel, Poll and EPoll: after any sequence of calls, inside callbacks or
\* between batches, the channels, the poller's map and the array or the
\* kernel's set agree, and none of them, nor the rest of the batch, has a
\* channel that was deleted.
THEOREM PollerRegistryConsistent == Spec => []RegistryConsistent
<1>1. PollerInv => RegistryConsistent
  BY InvWatches, InvNoDangling DEF PollerInv, RegistryConsistent
<1> QED  BY <1>1, PollerSafe, PTL

\* Poll.cpp and EPoll.cpp: the pollers' own assertions, and the LOG_SYSFATAL
\* of epoll_ctl(), fail only for the two calls that Poll refuses.
THEOREM PollerAssertsHold == Spec => []PollerAsserts
<1>1. PollerInv => PollerAsserts  BY DEF PollerInv
<1> QED  BY <1>1, PollerSafe, PTL

-----------------------------------------------------------------------------
(* The pollers implement InterestSet.                                      *)

WatchTable == [f \in Fd |-> Watched(f)]

\* WatchedFacts after a step.
LEMMA WatchedFactsNext == PollerInv' => WatchedByChannel'
BY WatchedFacts, PTL

\* A step that leaves the registry alone leaves the table alone.
LEMMA TableKept ==
  ASSUME UNCHANGED <<poller, channels_, pollfds_, epollSet>>
  PROVE  WatchTable' = WatchTable
BY DEF WatchTable, Watched, PollFds

\* A step that changes what is watched of one descriptor.
LEMMA TableChanged ==
  ASSUME PollerInv, PollerInv', NEW f \in Fd, NEW w, WatchedChannel(f)' = w,
         \A g \in Fd \ {f} : WatchedChannel(g)' = WatchedChannel(g)
  PROVE  WatchTable' = [WatchTable EXCEPT ![f] = w]
<1>1. \A g \in Fd : Watched(g)' = WatchedChannel(g)'  BY WatchedFactsNext DEF WatchedByChannel
<1>2. \A g \in Fd : Watched(g) = WatchedChannel(g)  BY WatchedFacts DEF WatchedByChannel
<1>3. \A g \in Fd : Watched(g)' = IF g = f THEN w ELSE Watched(g)  BY <1>1, <1>2
<1> QED  BY <1>3 DEF WatchTable

\* Poll: what is watched of a descriptor is the entry of its channel.
LEMMA EntryKept ==
  ASSUME PollerInv, poller = "poll", poller' = poller, NEW f \in Fd,
         channels_'[f] = channels_[f],
         channels_[f] # NoChannel =>
           /\ Entry(channels_[f])' = Entry(channels_[f])
           /\ events_'[channels_[f]] = events_[channels_[f]]
  PROVE  WatchedChannel(f)' = WatchedChannel(f)
<1>1. CASE channels_[f] = NoChannel  BY <1>1 DEF WatchedChannel
<1>2. CASE channels_[f] # NoChannel
  <2>1. Entry(channels_[f])' = Entry(channels_[f])  BY <1>2
  <2>2. pollfds_'[idx_'[channels_'[f]] + 1] = pollfds_[idx_[channels_[f]] + 1]
    BY <2>1 DEF Entry
  <2> QED  BY <1>2, <2>2 DEF WatchedChannel, Entry
<1> QED  BY <1>1, <1>2

\* Channel::update(): the descriptor's line of the table changes, or is
\* forgotten.
LEMMA UpdateImplements ==
  ASSUME PollerInv, PollerInv', NEW c \in Channel, NEW ev \in SUBSET Event,
         NEW f \in Fd, f = fd_[c], Update(c, ev), failed' = "no"
  PROVE  IS!Change(f) \/ IS!Forget(f)
<1>0. ChannelOK /\ IdxOK /\ RegistryOK /\ MapInv /\ PollInv /\ EPollInv  BY InvParts
<1>1. \A d \in Channel \ {c} : fd_[d] = f => ~addedToLoop_[d]
  BY DEF Update
<1>2. UpdateFailure(c, ev) = "no"  BY DEF Update, Abort
<1>3. /\ events_' = [events_ EXCEPT ![c] = ev]
      /\ addedToLoop_' = [addedToLoop_ EXCEPT ![c] = TRUE]
      /\ IF poller = "poll" THEN PollUpdate(c, ev) ELSE EPollUpdate(c, ev)
      /\ UNCHANGED <<poller, fd_, activeChannels_>>
  BY <1>2 DEF Update, batch
<1>4. \A g \in Fd : Watched(g) = WatchedChannel(g)
  BY WatchedFacts DEF WatchedByChannel
<1>5. \A d \in Channel : events_'[d] = IF d = c THEN ev ELSE events_[d]
  BY <1>0, <1>3 DEF ChannelOK
<1>6. \A g \in Fd \ {f} : channels_[g] # NoChannel =>
        channels_[g] \in Channel \ {c} /\ addedToLoop_[channels_[g]]
  BY <1>0 DEF RegistryOK, MapInv
<1>7. c # NoChannel /\ [ch |-> c, events |-> ev] # Unwatched
  BY WatchFacts
<1>8. Watched(f) = Unwatched \/ Watched(f).ch = c
  <2> SUFFICES ASSUME Watched(f) # Unwatched  PROVE Watched(f).ch = c  OBVIOUS
  <2>1. /\ channels_[f] \in Channel /\ fd_[channels_[f]] = f /\ addedToLoop_[channels_[f]]
        /\ Watched(f).ch = channels_[f]
    BY <1>1, WatchedInv
  <2> QED  BY <1>1, <2>1
<1>9. ASSUME WatchTable' = [WatchTable EXCEPT ![f] = [ch |-> c, events |-> ev]]
      PROVE  IS!Change(f)
  <2>1. WatchTable[f] = Watched(f)  BY DEF WatchTable
  <2>2. WatchTable[f] = Unwatched \/ WatchTable[f].ch = c  BY <1>8, <2>1
  <2>3. Range(activeChannels_)' = Range(activeChannels_)  BY <1>3
  <2> QED  BY <1>9, <2>2, <2>3 DEF IS!Change, WatchTable
<1>10. ASSUME WatchTable' = [WatchTable EXCEPT ![f] = Unwatched]
       PROVE  IS!Forget(f)
  <2>1. Range(activeChannels_)' = Range(activeChannels_)  BY <1>3
  <2> QED  BY <1>10, <2>1 DEF IS!Forget, WatchTable
<1>11. CASE poller = "poll"
  <2>0. PollUpdateFailure(c) = "no" /\ PollUpdate(c, ev)
    BY <1>2, <1>3, <1>11 DEF UpdateFailure
  <2>1. CASE idx_[c] < 0
    <3>1. channels_[f] = NoChannel  BY <2>0, <2>1 DEF PollUpdateFailure
    <3>2. PushEntry(c, ev) /\ UNCHANGED epollSet  BY <2>0, <2>1 DEF PollUpdate
    <3>3. /\ Entry(c)'.fd = f
          /\ \A d \in Channel : addedToLoop_[d] => Entry(d)' = Entry(d)
      BY <1>1, <1>3, <1>11, <2>1, <3>1, <3>2, PushKeeps
    <3>4. \A g \in Fd : channels_'[g] = IF g = f THEN c ELSE channels_[g]
      BY <1>0, <3>2 DEF PushEntry, RegistryOK
    <3>5. WatchedChannel(f)' = [ch |-> c, events |-> ev]
      <4>1. /\ poller' # "epoll" /\ channels_'[f] = c /\ events_'[c] = ev
            /\ pollfds_'[idx_'[c] + 1].fd = f
        BY <1>1, <1>3, <1>5, <1>11, <3>3, <3>4 DEF Entry
      <4> QED  BY <1>3, <1>7, <4>1 DEF WatchedChannel, Entry
    <3>6. ASSUME NEW g \in Fd \ {f}  PROVE WatchedChannel(g)' = WatchedChannel(g)
      BY <1>3, <1>5, <1>6, <1>11, <3>3, <3>4, EntryKept
    <3>7. WatchTable' = [WatchTable EXCEPT ![f] = [ch |-> c, events |-> ev]]
      BY <1>1, <3>5, <3>6, TableChanged
    <3> QED  BY <1>9, <3>7
  <2>2. CASE ~(idx_[c] < 0)
    <3>1. hasChannel(c)  BY <2>0, <2>2 DEF PollUpdateFailure
    <3>2. SetEntry(c, ev) /\ UNCHANGED epollSet  BY <2>0, <2>2 DEF PollUpdate
    <3>3. /\ Entry(c)'.fd = IF ev = {} THEN Ignored(f) ELSE f
          /\ \A d \in Channel \ {c} : addedToLoop_[d] => Entry(d)' = Entry(d)
      BY <1>1, <1>3, <1>11, <3>1, <3>2, SetKeeps
    <3>4. channels_' = channels_ /\ channels_'[f] = c  BY <3>1, <3>2 DEF SetEntry, hasChannel
    <3>5. ASSUME NEW g \in Fd \ {f}  PROVE WatchedChannel(g)' = WatchedChannel(g)
      BY <1>3, <1>5, <1>6, <1>11, <3>3, <3>4, EntryKept
    <3>6. CASE ev = {}
      <4>1. pollfds_'[idx_'[c] + 1].fd # f  BY <1>1, <3>3, <3>6, FdFacts DEF Entry
      <4>2. WatchedChannel(f)' = Unwatched
        BY <1>3, <1>11, <3>4, <4>1 DEF WatchedChannel, Entry
      <4>3. WatchTable' = [WatchTable EXCEPT ![f] = Unwatched]
        BY <1>1, <3>5, <4>2, TableChanged
      <4> QED  BY <1>10, <4>3
    <3>7. CASE ev # {}
      <4>1. pollfds_'[idx_'[c] + 1].fd = f  BY <3>3, <3>7 DEF Entry
      <4>2. WatchedChannel(f)' = [ch |-> c, events |-> ev]
        BY <1>3, <1>5, <1>7, <1>11, <3>4, <4>1 DEF WatchedChannel, Entry
      <4>3. WatchTable' = [WatchTable EXCEPT ![f] = [ch |-> c, events |-> ev]]
        BY <1>1, <3>5, <4>2, TableChanged
      <4> QED  BY <1>9, <4>3
    <3> QED  BY <3>6, <3>7
  <2> QED  BY <2>1, <2>2
<1>12. CASE poller = "epoll"
  <2> DEFINE w == IF Operation(c, ev) = "DEL" THEN Unwatched ELSE [ch |-> c, events |-> ev]
  <2>1. epollSet' = [epollSet EXCEPT ![f] = w]  BY <1>3, <1>12 DEF EPollUpdate, update
  <2>2. w = Unwatched \/ w = [ch |-> c, events |-> ev]  OBVIOUS
  <2> HIDE DEF w
  <2>3. \A g \in Fd : epollSet'[g] = IF g = f THEN w ELSE epollSet[g]
    BY <1>0, <2>1 DEF RegistryOK
  <2>4. \A g \in Fd : WatchedChannel(g)' = epollSet'[g] /\ WatchedChannel(g) = epollSet[g]
    BY <1>3, <1>12 DEF WatchedChannel
  <2>5. WatchTable' = [WatchTable EXCEPT ![f] = w]
    BY <1>1, <2>3, <2>4, TableChanged
  <2> QED  BY <1>9, <1>10, <2>2, <2>5
<1> QED  BY <1>0, <1>11, <1>12 DEF ChannelOK

\* EventLoop::removeChannel(): Poll has stopped watching already, EPoll stops.
LEMMA RemoveImplements ==
  ASSUME PollerInv, PollerInv', NEW c \in Channel, NEW f \in Fd, f = fd_[c],
         RemoveChannel(c), failed' = "no"
  PROVE  IS!Forget(f)
<1>0. ChannelOK /\ RegistryOK /\ MapInv  BY InvParts
<1>1. addedToLoop_[c] /\ RemoveFailure(c) = "no"  BY DEF RemoveChannel, Abort
<1>2. /\ addedToLoop_' = [addedToLoop_ EXCEPT ![c] = FALSE]
      /\ IF poller = "poll" THEN PollRemove(c) ELSE EPollRemove(c)
      /\ UNCHANGED <<poller, fd_, events_, activeChannels_, at>>
  BY <1>1 DEF RemoveChannel, batch
<1>3. channels_[f] = c  BY <1>0, <1>1 DEF MapInv
<1>4. \A g \in Fd \ {f} : channels_[g] # NoChannel =>
        channels_[g] \in Channel \ {c} /\ addedToLoop_[channels_[g]]
  BY <1>0 DEF RegistryOK, MapInv
<1>5. WatchTable' = [WatchTable EXCEPT ![f] = Unwatched]
  <2>1. CASE poller = "poll"
    <3>1. channels_' = [channels_ EXCEPT ![f] = NoChannel]  BY <1>2, <2>1 DEF PollRemove
    <3>2. \A g \in Fd : channels_'[g] = IF g = f THEN NoChannel ELSE channels_[g]
      BY <1>0, <3>1 DEF RegistryOK
    <3>3. \A d \in Channel \ {c} : addedToLoop_[d] => Entry(d)' = Entry(d)
      BY <1>1, <1>2, <2>1, PollRemoveKeeps
    <3>4. ASSUME NEW g \in Fd \ {f}  PROVE WatchedChannel(g)' = WatchedChannel(g)
      BY <1>2, <1>4, <2>1, <3>2, <3>3, EntryKept
    <3>5. WatchedChannel(f)' = Unwatched
      BY <1>2, <1>3, <2>1, <3>2 DEF WatchedChannel
    <3> QED  BY <1>3, <3>4, <3>5, TableChanged
  <2>2. CASE poller = "epoll"
    <3>1. epollSet' = [epollSet EXCEPT ![f] = Unwatched]
      BY <1>1, <1>2, <2>2, EPollRemoveKeeps
    <3>2. \A g \in Fd : epollSet'[g] = IF g = f THEN Unwatched ELSE epollSet[g]
      BY <1>0, <3>1 DEF RegistryOK
    <3>3. \A g \in Fd : WatchedChannel(g)' = epollSet'[g] /\ WatchedChannel(g) = epollSet[g]
      BY <1>2, <2>2 DEF WatchedChannel
    <3> QED  BY <1>3, <3>2, <3>3, TableChanged
  <2> QED  BY <1>0, <2>1, <2>2 DEF ChannelOK
<1>6. Range(activeChannels_)' = Range(activeChannels_)  BY <1>2
<1> QED  BY <1>5, <1>6 DEF IS!Forget, WatchTable

\* poll() returns: the batch has the channels of descriptors that are watched.
LEMMA WaitImplements ==
  ASSUME PollerInv, NEW fds \in SUBSET Fd, Wait(fds), failed' = "no"
  PROVE  IS!Report(fds)
<1>0. RegistryOK /\ MapInv /\ EPollInv /\ BatchInv  BY InvParts
<1>1. UNCHANGED <<poller, channels_, pollfds_, epollSet>>
  BY DEF Wait, PollReturns, EPollReturns, Abort, registry
<1>2. WatchTable' = WatchTable  BY <1>1, TableKept
<1>3. Range(activeChannels_) = {}
  <2>1. activeChannels_ = <<>>  BY <1>0 DEF Wait, BatchInv
  <2> QED  BY <2>1 DEF Range
<1>4. fds # {}  BY DEF Wait
<1>5. ASSUME NEW f \in fds  PROVE Watched(f) # Unwatched /\ Watched(f).ch = channels_[f]
  <2>1. f \in Fd  OBVIOUS
  <2>2. Watched(f) # Unwatched
    <3>1. CASE PollReturns(fds)
      <4>1. poller = "poll" /\ f \in PollFds  BY <3>1 DEF PollReturns
      <4>2. channels_[f] \in Channel  BY <4>1, FillFails
      <4>3. \E ev : Watched(f) = [ch |-> channels_[f], events |-> ev]  BY <4>1 DEF Watched
      <4> QED  BY <4>2, <4>3, WatchFacts
    <3>2. CASE EPollReturns(fds)
      <4>1. poller = "epoll" /\ f \in EPollFds  BY <3>2 DEF EPollReturns
      <4> QED  BY <4>1 DEF EPollFds, Watched
    <3> QED  BY <3>1, <3>2 DEF Wait
  <2> QED  BY <2>1, <2>2, WatchedInv
<1>6. Range(activeChannels_') = {channels_[f] : f \in fds}
  <2>1. CASE PollReturns(fds)
    <3> DEFINE S == {i \in DOMAIN pollfds_ : pollfds_[i].fd \in fds}
    <3>1. fds \subseteq PollFds /\ PollFill(fds)
      BY <2>1 DEF Wait, PollReturns, Abort
    <3>2. PICK order \in SetToSeqs(S) :
             activeChannels_' = [i \in DOMAIN order |-> channels_[pollfds_[order[i]].fd]]
      BY <3>1 DEF PollFill
    <3>3. IsFiniteSet(S)
      <4>1. DOMAIN pollfds_ = 1 .. Len(pollfds_) /\ Len(pollfds_) \in Nat
        BY <1>0, LenProperties DEF RegistryOK
      <4>2. IsFiniteSet(1 .. Len(pollfds_))  BY <4>1, FS_Interval
      <4> QED  BY <4>1, <4>2, FS_Subset
    <3>4. S # {}  BY <1>4, <3>1 DEF PollFds
    <3>5. \A f \in fds : \E i \in S : pollfds_[i].fd = f  BY <3>1 DEF PollFds
    <3>6. \A i \in S : pollfds_[i].fd \in fds  OBVIOUS
    <3> HIDE DEF S
    <3>7. /\ DOMAIN order = 1 .. Cardinality(S) /\ order \in [1 .. Cardinality(S) -> S]
          /\ \A x \in S : \E i \in 1 .. Cardinality(S) : order[i] = x
      BY <3>2, <3>3, <3>4, OrderFacts
    <3>8. Range(activeChannels_') = {channels_[pollfds_[order[i]].fd] : i \in DOMAIN order}
      BY <3>2 DEF Range
    <3> QED  BY <3>5, <3>6, <3>7, <3>8
  <2>2. CASE EPollReturns(fds)
    <3>1. PICK order \in SetToSeqs(fds) :
             activeChannels_' = [i \in DOMAIN order |-> epollSet[order[i]].ch]
      BY <2>2 DEF EPollReturns
    <3>2. poller = "epoll" /\ \A f \in fds : Watched(f) = epollSet[f]
      BY <2>2 DEF EPollReturns, Watched
    <3>3. IsFiniteSet(fds)  BY FdCount, FS_Subset
    <3>4. /\ DOMAIN order = 1 .. Cardinality(fds) /\ order \in [DOMAIN order -> fds]
          /\ \A x \in fds : \E i \in DOMAIN order : order[i] = x
      BY <1>4, <3>1, <3>3, OrderFacts
    <3>5. \A i \in DOMAIN order : epollSet[order[i]].ch = channels_[order[i]]
      BY <1>5, <3>2, <3>4
    <3>6. Range(activeChannels_') = {channels_[order[i]] : i \in DOMAIN order}
      BY <3>1, <3>5 DEF Range
    <3> QED  BY <3>4, <3>6
  <2> QED  BY <2>1, <2>2 DEF Wait
<1>7. \A f \in fds : WatchTable[f] # Unwatched /\ WatchTable[f].ch = channels_[f]
  <2> TAKE f \in fds
  <2>1. WatchTable[f] = Watched(f)  BY DEF WatchTable
  <2> QED  BY <1>5, <2>1
<1>8. Range(activeChannels_') = {WatchTable[f].ch : f \in fds}  BY <1>6, <1>7
<1> QED  BY <1>2, <1>3, <1>7, <1>8 DEF IS!Report, WatchTable

\* Every step of the pollers is one of the table or leaves it.
LEMMA PollerImplements ==
  PollerInv /\ PollerInv' /\ [Next]_vars =>
    [IS!Next]_<<WatchTable, Range(activeChannels_)>>
<1> SUFFICES ASSUME PollerInv, PollerInv', [Next]_vars
             PROVE  IS!Next \/ UNCHANGED <<WatchTable, Range(activeChannels_)>>
  OBVIOUS
<1>0. ChannelOK  BY InvParts
<1>1. CASE UNCHANGED <<poller, registry, batch>>
  <2>1. UNCHANGED <<poller, channels_, pollfds_, epollSet, activeChannels_>>
    BY <1>1 DEF registry, batch
  <2> QED  BY <2>1, TableKept
<1>2. CASE vars' = vars  BY <1>1, <1>2 DEF vars
<1>3. CASE Next /\ failed' # "no"
  <2>1. failed = "no"
    BY <1>3 DEF Next, Enable, Disable, New, Update, RemoveChannel, Delete, Wait, HandleEvent
  <2> QED  BY <1>1, <1>3, <2>1, NextAborts
<1>4. CASE Next /\ failed' = "no"
  <2>1. ASSUME NEW c \in Channel, NEW f \in Fd, New(c, f)
        PROVE  UNCHANGED <<poller, registry, batch>>
    BY <2>1 DEF New
  <2>2. ASSUME NEW c \in Channel, Enable(c) \/ Disable(c)  PROVE IS!Next
    <3>1. PICK ev \in SUBSET Event : Update(c, ev)
      BY <1>0, <2>2 DEF Enable, Disable, ChannelOK
    <3>2. PICK f \in Fd : f = fd_[c]  BY <1>0, <3>1 DEF Update, ChannelOK
    <3> QED  BY <1>4, <3>1, <3>2, UpdateImplements DEF IS!Next
  <2>3. ASSUME NEW c \in Channel, RemoveChannel(c)  PROVE IS!Next
    <3>1. PICK f \in Fd : f = fd_[c]  BY <1>0, <2>3 DEF RemoveChannel, ChannelOK
    <3> QED  BY <1>4, <2>3, <3>1, RemoveImplements DEF IS!Next
  <2>4. ASSUME NEW c \in Channel, Delete(c)
        PROVE  UNCHANGED <<poller, registry, batch>>
    BY <1>4, <2>4 DEF Delete, Abort
  <2>5. ASSUME NEW fds \in SUBSET Fd, Wait(fds)  PROVE IS!Next
    BY <1>4, <2>5, WaitImplements DEF IS!Next
  <2>6. ASSUME HandleEvent
        PROVE  IS!Next \/ UNCHANGED <<WatchTable, Range(activeChannels_)>>
    <3>1. UNCHANGED <<poller, channels_, pollfds_, epollSet>>
      BY <2>6 DEF HandleEvent, registry
    <3>2. WatchTable' = WatchTable  BY <3>1, TableKept
    <3>3. CASE activeChannels_' = activeChannels_  BY <3>2, <3>3
    <3>4. CASE activeChannels_' = <<>>
      <4>1. Range(activeChannels_') = {}  BY <3>4 DEF Range
      <4> QED  BY <3>2, <4>1 DEF IS!Next, IS!Done, WatchTable
    <3> QED  BY <2>6, <3>3, <3>4 DEF HandleEvent
  <2> QED  BY <1>1, <1>4, <2>1, <2>2, <2>3, <2>4, <2>5, <2>6 DEF Next
<1> QED  BY <1>2, <1>3, <1>4

\* Poller: whichever one newDefaultPoller() makes, it implements the table of
\* watched descriptors that EventLoop expects: a call changes the line of one
\* descriptor and never takes it from its channel, and a batch has channels
\* that were watched.
THEOREM PollerImplementsInterestSet == Spec => ImplementsInterestSet
<1>1. Init => IS!Init
  <2> SUFFICES ASSUME Init  PROVE IS!Init  OBVIOUS
  <2>1. \A f \in Fd : Watched(f) = Unwatched  BY DEF Init, Watched, PollFds
  <2>2. Range(activeChannels_) = {}  BY DEF Init, Range
  <2> QED  BY <2>1, <2>2 DEF IS!Init
<1>2. PollerInv /\ PollerInv' /\ [Next]_vars =>
        [IS!Next]_<<[f \in Fd |-> Watched(f)], Range(activeChannels_)>>
  BY PollerImplements DEF WatchTable
<1> QED  BY <1>1, <1>2, PollerSafe, PTL DEF Spec, ImplementsInterestSet, IS!Spec
=============================================================================
