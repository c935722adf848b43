---------------------------- MODULE CallbackQueue ----------------------------
(***************************************************************************)
(* What EventLoop promises about the functors handed to it: a functor      *)
(* given to queueInLoop() is run by the loop thread once, in the order of  *)
(* the calls; runInLoop() on the loop thread runs it on the spot, ahead    *)
(* of everything that is queued.                                           *)
(***************************************************************************)
EXTENDS Sequences, Functions

CONSTANT Func        \* one element per functor object handed to the loop

VARIABLES queue,     \* functors accepted and not yet started, oldest first
          done       \* functors started, in the order they started

vars == <<queue, done>>

Init == queue = <<>> /\ done = <<>>

New(f) == f \notin Range(queue) \cup Range(done)

Submit(f) == /\ New(f)
             /\ queue' = Append(queue, f)
             /\ done' = done

RunNow(f) == /\ New(f)
             /\ done' = Append(done, f)
             /\ queue' = queue

RunHead == /\ queue # <<>>
           /\ done' = Append(done, Head(queue))
           /\ queue' = Tail(queue)

Next == RunHead \/ \E f \in Func : Submit(f) \/ RunNow(f)

Spec == Init /\ [][Next]_vars

=============================================================================
