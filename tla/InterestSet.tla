----------------------------- MODULE InterestSet -----------------------------
(***************************************************************************)
(* What EventLoop expects of a Poller, whichever one newDefaultPoller()    *)
(* makes: a table of the descriptors that are watched, each for one        *)
(* channel, and a batch of channels that were watched when poll() returned *)
(***************************************************************************)
CONSTANTS Fd, Channel, Event, Unwatched

VARIABLES watched,  \* per descriptor: its channel and the events asked for
          batch     \* what poll() returned last, without repetition

Init == watched = [f \in Fd |-> Unwatched] /\ batch = {}

\* A change of interest: one descriptor, and never taken from its channel.
Change(f) ==
  /\ \E c \in Channel, ev \in SUBSET Event :
        /\ watched[f] = Unwatched \/ watched[f].ch = c
        /\ watched' = [watched EXCEPT ![f] = [ch |-> c, events |-> ev]]
  /\ batch' = batch

Forget(f) ==
  /\ watched' = [watched EXCEPT ![f] = Unwatched]
  /\ batch' = batch

Report(fds) ==
  /\ batch = {}
  /\ \A f \in fds : watched[f] # Unwatched
  /\ batch' = {watched[f].ch : f \in fds}
  /\ watched' = watched

Done == batch' = {} /\ watched' = watched

Next == \/ \E f \in Fd : Change(f) \/ Forget(f)
        \/ \E fds \in SUBSET Fd : Report(fds)
        \/ Done

Spec == Init /\ [][Next]_<<watched, batch>>
=============================================================================
