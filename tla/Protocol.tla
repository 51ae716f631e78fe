------------------------------- MODULE Protocol -------------------------------
(***************************************************************************)
(* The message format of kitty, the same in tcp/protocol.go,               *)
(* udp/protocol.go and websocket/protocol.go: a header of HeadLen bytes,   *)
(* then the route, then the body.  Only the TCP control messages have a    *)
(* length of their own, which each module that uses this one gives.        *)
(*                                                                         *)
(* A message is [kind, id, route, body], the last two sequences of bytes.  *)
(* Sequences start at 1, Go's slices at 0: message[i] of the code is       *)
(* m[i + 1] here.                                                          *)
(***************************************************************************)
EXTENDS Naturals, Sequences

HeadLen == 16

Bin  == 2
Ping == 9
Pong == 10

Byte == 0..255

zeros(n) == [i \in 1..n |-> 0]

\* PutUint32: n in four bytes, the high byte first.
bigEndian(n) ==
    <<(n \div 16777216) % 256, (n \div 65536) % 256, (n \div 256) % 256, n % 256>>

\* n < 2^32: PutUint32 loses nothing.  (TLC's integers end before 2^32.)
isUint32(n) == n \div 16777216 < 256

\* PutUint64: ids stay below 2^32 here, which leaves the high half zero.
id64(n) == zeros(4) \o bigEndian(n)

\* The four bytes that Uint32 reads at b[i:i+4].
uint32(b, i) == 16777216 * b[i + 1] + 65536 * b[i + 2] + 256 * b[i + 3] + b[i + 4]

\* Mutated: the route length is left out of the header.
packBin_NoRouteLen(m) ==
    <<0, 0, Bin, 0>> \o bigEndian(Len(m.body)) \o id64(m.id) \o m.route \o m.body

\* byte(rl) keeps the low 8 bits of the route length.
packBin(m) ==
    <<0, 0, Bin, Len(m.route) % 256>> \o bigEndian(Len(m.body)) \o id64(m.id)
        \o m.route \o m.body

\* The lengths of route and body are those that the header will tell, which
\* nothing checks.
fits(m) == Len(m.route) < 256 /\ isUint32(Len(m.body))

\* A Ping or a Pong of n bytes, all zero but the type.
control(type, n) == <<0, 0, type>> \o zeros(n - 3)

\* True when the header is valid, in spite of its name.
isHeaderInvalid(b) ==
    /\ Len(b) >= HeadLen
    /\ b[1] = 0 /\ b[2] = 0
    /\ b[3] \in {Bin, Ping, Pong}

getLen(b) == b[4] + uint32(b, 4) + HeadLen

Unknown == [kind |-> 0, id |-> 0, route |-> <<>>, body |-> <<>>]

\* The bounds of message[HeadLen : HeadLen+message[3]] are computed in a byte;
\* where the sum wraps the upper one is below the lower and Go panics.
routeEnd(b) == (HeadLen + b[4]) % 256

\* Mutated: a message without a route is out of bounds.
DecodePanics_NoRoute(b) ==
    /\ isHeaderInvalid(b)
    /\ getLen(b) = Len(b)
    /\ routeEnd(b) <= HeadLen

DecodePanics(b) ==
    /\ isHeaderInvalid(b)
    /\ getLen(b) = Len(b)
    /\ routeEnd(b) < HeadLen

Decode(b) ==
    IF ~isHeaderInvalid(b) \/ getLen(b) # Len(b) THEN Unknown
    ELSE [kind |-> b[3], id |-> uint32(b, 12),
          route |-> SubSeq(b, HeadLen + 1, routeEnd(b)),
          body |-> SubSeq(b, routeEnd(b) + 1, Len(b))]
=============================================================================
