------------------------------ MODULE MCPoller ------------------------------
(* Poller for TLC: the addresses of channels are interchangeable.          *)
EXTENDS Poller, TLC

Symmetry == Permutations(Channel)
=============================================================================
