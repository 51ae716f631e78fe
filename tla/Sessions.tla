------------------------------- MODULE Sessions -------------------------------
(***************************************************************************)
(* What every server of kitty promises about the FDs it hands to the user: *)
(* FDs are given out one after the other, each stands for one peer for     *)
(* ever, and a session that has ended never comes back.  The user keeps    *)
(* FDs in tables of his own and writes to them with Emit(fd, ...), so a    *)
(* reused or revived FD would send one peer's data to another.             *)
(***************************************************************************)
EXTENDS Naturals

CONSTANTS
    Peers,   \* remote addresses
    NoPeer,  \* the peer of an FD not given out yet
    MaxFd    \* bound: sessions ever opened

VARIABLES
    status,  \* FD -> "unborn", "live" or "gone"
    peer     \* FD -> the address it stands for

Fds == 1..MaxFd

Init ==
    /\ status = [c \in Fds |-> "unborn"]
    /\ peer = [c \in Fds |-> NoPeer]

\* The least unborn FD becomes a session of p.
Begin(c, p) ==
    /\ status[c] = "unborn"
    /\ \A b \in Fds : b < c => status[b] # "unborn"
    /\ status' = [status EXCEPT ![c] = "live"]
    /\ peer' = [peer EXCEPT ![c] = p]

End(c) ==
    /\ status[c] = "live"
    /\ status' = [status EXCEPT ![c] = "gone"]
    /\ UNCHANGED peer

Next == \E c \in Fds : End(c) \/ \E p \in Peers : Begin(c, p)

Spec == Init /\ [][Next]_<<status, peer>>
=============================================================================
