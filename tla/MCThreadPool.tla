---------------------------- MODULE MCThreadPool ----------------------------
(* ThreadPool for TLC: workers, callers and tasks are interchangeable.     *)
EXTENDS ThreadPool, TLC

Symmetry == Permutations(Workers) \cup Permutations(Producers)
            \cup Permutations(Task)
=============================================================================
