---------------------------- MODULE MCUdpServer ----------------------------
(* Small instances of UdpServer for TLC. *)
EXTENDS UdpServer

CONSTANTS a1, a2

TwoAddrs == {a1, a2}

\* Every kind but Pong, which the loop treats as it treats Bin.
Traffic == AllKinds \ {"pong"}
=============================================================================
