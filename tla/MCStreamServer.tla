---------------------------- MODULE MCStreamServer ----------------------------
(* Small instances of StreamServer for TLC. *)
EXTENDS StreamServer, TLC

Swap == Permutations(Conns) \cup Permutations(Emitters)
=============================================================================
