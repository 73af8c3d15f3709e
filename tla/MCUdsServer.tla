----------------------------- MODULE MCUdsServer -----------------------------
(* Small instances of UdsServer: senders and connections are interchangeable. *)
EXTENDS UdsServer, TLC

Symmetry == Permutations(Senders) \cup Permutations(Conns)
=============================================================================
