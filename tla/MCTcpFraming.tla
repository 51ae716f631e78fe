---------------------------- MODULE MCTcpFraming ----------------------------
(* Small instances of TcpFraming for TLC. *)
EXTENDS TcpFraming

\* Bytes of a payload, with headers in them.
header == <<0, 0, Bin, 2, 0, 0, 0, 3, 0, 0, 0, 0, 0, 0, 0, 1>>

bytes(n) == [i \in 1..n |-> IF i % 40 < 16 THEN header[(i % 40) + 1] ELSE 120]

bin(i, r, b) == [kind |-> Bin, id |-> i, route |-> bytes(r), body |-> bytes(b)]

\* Empty, small, with the longest route that Decode can take and a body length of
\* two bytes, a route of one byte more, and one whose length does not fit the header.
BinMessages ==
    {bin(0, 0, 0), bin(258, 2, 1), bin(7, 239, 260), bin(1, 240, 0), bin(2, 257, 0)}

Heartbeats == {[kind |-> Ping, id |-> 0, route |-> <<>>, body |-> <<>>]}

AllMessages == BinMessages \cup Heartbeats
=============================================================================
