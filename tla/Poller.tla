------------------------------- MODULE Poller -------------------------------
(***************************************************************************)
(* net/Channel and the two pollers that keep its registration: Poll, an    *)
(* array for poll(2) that channels index, and EPoll, a set in the kernel.  *)
(*                                                                         *)
(* Everything runs on the loop thread.  Owners create channels, enable and *)
(* disable events, remove and delete them, between two batches of events   *)
(* or inside the callback of one.  An assertion that fails, or the         *)
(* LOG_SYSFATAL of EPoll, ends the behaviour and leaves its name in failed *)
(***************************************************************************)
EXTENDS Integers, SequencesExt

CONSTANTS Channel,     \* addresses of Channel objects
          NoChannel,
          Fd,          \* descriptors
          EventListSz  \* EPoll: the size of events_, which reserve() keeps

ASSUME PollerAssumption ==
  /\ NoChannel \notin Channel
  /\ Fd \subseteq Nat /\ IsFiniteSet(Fd)
  /\ EventListSz \in Nat \ {0}

VARIABLES
  poller,              \* which poller newDefaultPoller() made
  fd_, events_, addedToLoop_, idx_,   \* the channels; fd_ is Dead without one
  channels_,           \* the poller's map from descriptors to channels
  pollfds_,            \* Poll's array
  epollSet,            \* the kernel's set for epollfd_
  activeChannels_, at, \* the batch; at = 0 unless handlingEvents_
  failed

channel == <<fd_, events_, addedToLoop_, idx_>>
registry == <<channels_, pollfds_, epollSet>>
batch == <<activeChannels_, at>>
vars == <<poller, channel, registry, batch, failed>>

Dead == -1
Event == {"read", "write"}
Unwatched == [ch |-> NoChannel, events |-> {}]
Watch == {Unwatched} \cup [ch : Channel, events : SUBSET Event]

kNew == -1
kAdded == 1
kDeleted == 2

\* A negative number stands for a descriptor poll(2) is to ignore.
Ignored(f) == -f - 1
Decoded(n) == IF n < 0 THEN -n - 1 ELSE n

TypeOK ==
  /\ poller \in {"poll", "epoll"}
  /\ fd_ \in [Channel -> Fd \cup {Dead}]
  /\ events_ \in [Channel -> SUBSET Event]
  /\ addedToLoop_ \in [Channel -> BOOLEAN]
  /\ idx_ \in [Channel -> IF poller = "epoll" THEN {kNew, kAdded, kDeleted}
                          ELSE -1 .. Cardinality(Fd) - 1]
  /\ channels_ \in [Fd -> Channel \cup {NoChannel}]
  /\ pollfds_ \in Seq([fd : Fd \cup {Ignored(f) : f \in Fd},
                       events : SUBSET Event])
  /\ epollSet \in [Fd -> Watch]
  /\ activeChannels_ \in Seq(Channel) /\ at \in 0 .. Len(activeChannels_)
  /\ failed \in {"no", "known", "range", "ignored", "erased", "fatal", "fill",
                 "isNoneEvent", "active", "handling", "added", "hasChannel"}

Init ==
  /\ poller \in {"poll", "epoll"}
  /\ fd_ = [c \in Channel |-> Dead]
  /\ events_ = [c \in Channel |-> {}]
  /\ addedToLoop_ = [c \in Channel |-> FALSE]
  /\ idx_ = [c \in Channel |-> -1]
  /\ channels_ = [f \in Fd |-> NoChannel]
  /\ pollfds_ = <<>>
  /\ epollSet = [f \in Fd |-> Unwatched]
  /\ activeChannels_ = <<>> /\ at = 0
  /\ failed = "no"

Abort(name) ==
  /\ failed' = name
  /\ UNCHANGED <<poller, channel, registry, batch>>

hasChannel(c) == channels_[fd_[c]] = c
isCurrent(c) == at > 0 /\ activeChannels_[at] = c

-----------------------------------------------------------------------------
(* Poll.                                                                   *)

InRange(c) == idx_[c] \in 0 .. Len(pollfds_) - 1

PollUpdateFailure(c) ==
  IF idx_[c] < 0 THEN IF channels_[fd_[c]] = NoChannel THEN "no" ELSE "known"
  ELSE IF ~hasChannel(c) THEN "known"
  ELSE IF ~InRange(c) THEN "range" ELSE "no"

\* A new entry is not marked as ignored, whatever its events.
PushEntry(c, ev) ==
  /\ pollfds_' = Append(pollfds_, [fd |-> fd_[c], events |-> ev])
  /\ idx_' = [idx_ EXCEPT ![c] = Len(pollfds_)]
  /\ channels_' = [channels_ EXCEPT ![fd_[c]] = c]

SetEntry(c, ev) ==
  /\ pollfds_' = [pollfds_ EXCEPT ![idx_[c] + 1] =
                    [fd |-> IF ev = {} THEN Ignored(fd_[c]) ELSE fd_[c],
                     events |-> ev]]
  /\ UNCHANGED <<idx_, channels_>>

PollUpdate(c, ev) ==
  /\ IF idx_[c] < 0 THEN PushEntry(c, ev) ELSE SetEntry(c, ev)
  /\ UNCHANGED epollSet

PollRemoveFailure(c) ==
  IF ~hasChannel(c) THEN "known"
  ELSE IF ~InRange(c) THEN "range"
  ELSE IF pollfds_[idx_[c] + 1] # [fd |-> Ignored(fd_[c]), events |-> {}] THEN "ignored"
  ELSE "no"

\* Mutant: an ignored last entry is not decoded, and no channel is updated.
MovedIdx_NotDecoded(c) ==
  IF Last(pollfds_).fd \in Fd
  THEN [idx_ EXCEPT ![channels_[Last(pollfds_).fd]] = idx_[c]]
  ELSE idx_

\* The channel of the last entry takes the index of the one that goes, whose
\* own idx_ is left as it is.
MovedIdx(c) ==
  IF idx_[c] + 1 = Len(pollfds_) THEN idx_
  ELSE [idx_ EXCEPT ![channels_[Decoded(Last(pollfds_).fd)]] = idx_[c]]

PollRemove(c) ==
  /\ pollfds_' = Front([pollfds_ EXCEPT ![idx_[c] + 1] = Last(pollfds_)])
  /\ idx_' = MovedIdx(c)
  /\ channels_' = [channels_ EXCEPT ![fd_[c]] = NoChannel]
  /\ UNCHANGED epollSet

\* The descriptors poll(2) looks at.  POLLHUP and POLLERR are reported for
\* each of them, asked for or not.
PollFds == {pollfds_[i].fd : i \in DOMAIN pollfds_} \cap Fd

\* Mutant: revents is not looked at.
PollFill_EveryEntry(fds) ==
  activeChannels_' = [i \in DOMAIN pollfds_ |-> channels_[Decoded(pollfds_[i].fd)]]

\* The channels of the entries that are ready, in the array's order.
PollFill(fds) ==
  \E order \in SetToSeqs({i \in DOMAIN pollfds_ : pollfds_[i].fd \in fds}) :
    /\ \A i, j \in DOMAIN order : i < j => order[i] < order[j]
    /\ activeChannels_' = [i \in DOMAIN order |-> channels_[pollfds_[order[i]].fd]]

-----------------------------------------------------------------------------
(* EPoll.                                                                  *)

\* epoll_ctl(): adding what is there, or changing what is not, is fatal;
\* deleting what is not there is only logged.
CtlFailure(op, c) ==
  IF op = "ADD" /\ epollSet[fd_[c]] # Unwatched THEN "fatal"
  ELSE IF op = "MOD" /\ epollSet[fd_[c]] = Unwatched THEN "fatal" ELSE "no"

update(op, c, ev) ==
  epollSet' = [epollSet EXCEPT ![fd_[c]] =
    IF op = "DEL" THEN Unwatched ELSE [ch |-> c, events |-> ev]]

Operation(c, ev) ==
  IF idx_[c] # kAdded THEN "ADD" ELSE IF ev = {} THEN "DEL" ELSE "MOD"

EPollUpdateFailure(c, ev) ==
  IF idx_[c] = kAdded /\ ~hasChannel(c) THEN "known"
  ELSE CtlFailure(Operation(c, ev), c)

\* Mutant: a channel that was disabled is not put back in the kernel's set.
EPollUpdate_NotAddedAgain(c, ev) ==
  /\ channels_' = [channels_ EXCEPT ![fd_[c]] = c]
  /\ IF idx_[c] = kDeleted
     THEN UNCHANGED <<epollSet, idx_>>
     ELSE /\ update(Operation(c, ev), c, ev)
          /\ idx_' = [idx_ EXCEPT ![c] =
                        IF Operation(c, ev) = "DEL" THEN kDeleted ELSE kAdded]
  /\ UNCHANGED pollfds_

EPollUpdate(c, ev) ==
  /\ channels_' = IF idx_[c] = kNew THEN [channels_ EXCEPT ![fd_[c]] = c]
                  ELSE channels_
  /\ update(Operation(c, ev), c, ev)
  /\ idx_' = [idx_ EXCEPT ![c] =
                IF Operation(c, ev) = "DEL" THEN kDeleted ELSE kAdded]
  /\ UNCHANGED pollfds_

EPollRemoveFailure(c) ==
  IF channels_[fd_[c]] = NoChannel THEN "erased" ELSE "no"

EPollRemove(c) ==
  /\ channels_' = [channels_ EXCEPT ![fd_[c]] = NoChannel]
  /\ IF idx_[c] = kAdded THEN update("DEL", c, {}) ELSE epollSet' = epollSet
  /\ idx_' = [idx_ EXCEPT ![c] = kNew]
  /\ UNCHANGED pollfds_

EPollFds == {f \in Fd : epollSet[f] # Unwatched}

-----------------------------------------------------------------------------
(* Channel, through EventLoop::updateChannel() and removeChannel().        *)

New(c, f) ==
  /\ failed = "no" /\ fd_[c] = Dead
  /\ fd_' = [fd_ EXCEPT ![c] = f]
  /\ events_' = [events_ EXCEPT ![c] = {}]
  /\ addedToLoop_' = [addedToLoop_ EXCEPT ![c] = FALSE]
  /\ idx_' = [idx_ EXCEPT ![c] = -1]
  /\ UNCHANGED <<poller, registry, batch, failed>>

UpdateFailure(c, ev) == IF poller = "poll" THEN PollUpdateFailure(c)
                        ELSE EPollUpdateFailure(c, ev)

\* enableRead() to disableAll().  A descriptor has one channel in use; a
\* removed one may be kept a while, as Connector does when it hands its
\* socket to a new connection.
Update(c, ev) ==
  /\ failed = "no" /\ fd_[c] # Dead
  /\ \A d \in Channel \ {c} : fd_[d] = fd_[c] => ~addedToLoop_[d]
  /\ IF UpdateFailure(c, ev) # "no" THEN Abort(UpdateFailure(c, ev))
     ELSE /\ events_' = [events_ EXCEPT ![c] = ev]
          /\ addedToLoop_' = [addedToLoop_ EXCEPT ![c] = TRUE]
          /\ IF poller = "poll" THEN PollUpdate(c, ev) ELSE EPollUpdate(c, ev)
          /\ UNCHANGED <<poller, fd_, batch, failed>>

Enable(c) == \E e \in Event : Update(c, events_[c] \cup {e})
Disable(c) == \E ev \in {{}} \cup {events_[c] \ {e} : e \in Event} : Update(c, ev)

\* Mutant: removeChannel() does not look at the batch that is running.
RemoveFailure_NotActive(c) ==
  IF events_[c] # {} THEN "isNoneEvent"
  ELSE IF poller = "poll" THEN PollRemoveFailure(c) ELSE EPollRemoveFailure(c)

RemoveFailure(c) ==
  IF events_[c] # {} THEN "isNoneEvent"
  ELSE IF at > 0 /\ ~isCurrent(c) /\ c \in Range(activeChannels_) THEN "active"
  ELSE IF poller = "poll" THEN PollRemoveFailure(c) ELSE EPollRemoveFailure(c)

\* Channel::remove() does not ask for addedToLoop_; the owners of channels in
\* TcpConnection, Connector, Acceptor, TimerQueue and EventLoop all remove only
\* what they have enabled or disabled before.
RemoveChannel(c) ==
  /\ failed = "no" /\ fd_[c] # Dead /\ addedToLoop_[c]
  /\ IF RemoveFailure(c) # "no" THEN Abort(RemoveFailure(c))
     ELSE /\ addedToLoop_' = [addedToLoop_ EXCEPT ![c] = FALSE]
          /\ IF poller = "poll" THEN PollRemove(c) ELSE EPollRemove(c)
          /\ UNCHANGED <<poller, fd_, events_, batch, failed>>

DeleteFailure(c) ==
  IF isCurrent(c) THEN "handling"
  ELSE IF addedToLoop_[c] THEN "added"
  ELSE IF hasChannel(c) THEN "hasChannel" ELSE "no"

Delete(c) ==
  /\ failed = "no" /\ fd_[c] # Dead
  /\ IF DeleteFailure(c) # "no" THEN Abort(DeleteFailure(c))
     ELSE /\ fd_' = [fd_ EXCEPT ![c] = Dead]
          /\ events_' = [events_ EXCEPT ![c] = {}]
          /\ idx_' = [idx_ EXCEPT ![c] = -1]
          /\ UNCHANGED <<poller, addedToLoop_, registry, batch, failed>>

-----------------------------------------------------------------------------
(* EventLoop::loop(): one batch of events.                                 *)

\* poll() returns some of what is ready, Poll in the array's order, EPoll in
\* the kernel's.  The first callback begins.
PollReturns(fds) ==
  /\ poller = "poll" /\ fds \subseteq PollFds
  /\ IF \E f \in fds : channels_[f] = NoChannel \/ fd_[channels_[f]] # f
     THEN Abort("fill")
     ELSE /\ PollFill(fds)
          /\ at' = 1
          /\ UNCHANGED <<poller, channel, registry, failed>>

EPollReturns(fds) ==
  /\ poller = "epoll" /\ fds \subseteq EPollFds
  /\ Cardinality(fds) <= EventListSz
  /\ \E order \in SetToSeqs(fds) :
        activeChannels_' = [i \in DOMAIN order |-> epollSet[order[i]].ch]
  /\ at' = 1
  /\ UNCHANGED <<poller, channel, registry, failed>>

Wait(fds) ==
  /\ failed = "no" /\ at = 0 /\ fds # {}
  /\ PollReturns(fds) \/ EPollReturns(fds)

\* handleEvent() returns; its callbacks were the owners' actions above.
HandleEvent ==
  /\ failed = "no" /\ at > 0
  /\ IF at < Len(activeChannels_)
     THEN at' = at + 1 /\ UNCHANGED activeChannels_
     ELSE at' = 0 /\ activeChannels_' = <<>>
  /\ UNCHANGED <<poller, channel, registry, failed>>

Next ==
  \/ \E c \in Channel :
        (\E f \in Fd : New(c, f)) \/ Enable(c) \/ Disable(c) \/ RemoveChannel(c) \/ Delete(c)
  \/ \E fds \in SUBSET Fd : Wait(fds)
  \/ HandleEvent

Spec == Init /\ [][Next]_vars

-----------------------------------------------------------------------------
\* What the kernel is asked to watch.
Watched(f) ==
  IF poller = "epoll" THEN epollSet[f]
  ELSE IF f \in PollFds
  THEN [ch |-> channels_[f],
        events |-> pollfds_[CHOOSE i \in DOMAIN pollfds_ : pollfds_[i].fd = f].events]
  ELSE Unwatched

\* Poll.cpp and EPoll.cpp: callers that meet the assertions of Channel and
\* EventLoop, and remove only channels they have added, never run into those
\* of the poller, but for two calls that only EPoll accepts: to remove a channel no event of which was ever enabled, and
\* to use a channel again that was removed.
PollerAsserts ==
  /\ failed \in {"no", "known", "ignored", "isNoneEvent", "active", "handling",
                 "added"}
  /\ failed = "ignored" =>
       poller = "poll" /\ \E i \in DOMAIN pollfds_ :
                             pollfds_[i].fd \in Fd /\ pollfds_[i].events = {}
  /\ failed = "known" =>
       poller = "poll" /\ \E c \in Channel : ~addedToLoop_[c] /\ idx_[c] >= 0

\* Channel::update(): after any sequence of calls the kernel watches each
\* registered channel for the events it has enabled, through the index it
\* keeps, and nothing else.
KernelWatches ==
  /\ \A c \in Channel : fd_[c] # Dead /\ addedToLoop_[c] =>
       /\ hasChannel(c)
       /\ events_[c] # {} => Watched(fd_[c]) = [ch |-> c, events |-> events_[c]]
       /\ poller = "poll" => Decoded(pollfds_[idx_[c] + 1].fd) = fd_[c]
  /\ \A f \in Fd : Watched(f) # Unwatched =>
       LET c == Watched(f).ch
       IN  fd_[c] = f /\ addedToLoop_[c] /\ events_[c] = Watched(f).events

\* EventLoop::removeChannel() and ~Channel(): their assertions are enough to
\* keep deleted channels out of the map, of the kernel's set and of what is
\* left of the batch.
NoDanglingChannel ==
  /\ \A i \in DOMAIN activeChannels_ : i >= at => fd_[activeChannels_[i]] # Dead
  /\ \A f \in Fd : channels_[f] # NoChannel => fd_[channels_[f]] = f
  /\ \A f \in EPollFds : fd_[epollSet[f].ch] = f

\* Channel, Poll and EPoll: three records of what is registered, and they agree.
RegistryConsistent == TypeOK /\ KernelWatches /\ NoDanglingChannel

\* Poller: both pollers implement the table of watched descriptors.
IS == INSTANCE InterestSet
  WITH watched <- [f \in Fd |-> Watched(f)], batch <- Range(activeChannels_)
ImplementsInterestSet == IS!Spec
=============================================================================
