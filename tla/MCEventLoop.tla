----------------------------- MODULE MCEventLoop -----------------------------
(* EventLoop for TLC: clients and functors are interchangeable.            *)
EXTENDS EventLoop, TLC

Symmetry == Permutations(Clients) \cup Permutations(Func)
=============================================================================
