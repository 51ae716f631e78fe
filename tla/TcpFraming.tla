------------------------------ MODULE TcpFraming ------------------------------
(***************************************************************************)
(* One direction of a TCP connection of kitty: one side writes encoded     *)
(* messages, the bytes arrive in chunks of any size, and the closure that  *)
(* Reader returns (tcp/protocol.go) cuts them into messages again.  The    *)
(* loop around it is process of tcp/server/server.go; the reader goroutine *)
(* of tcp/client/client.go is the same.                                    *)
(***************************************************************************)
EXTENDS Protocol

CONSTANTS
    Messages,   \* the messages the peer may send
    Chunks,     \* sizes a read may return, at most ReadBufferSize
    MaxSent     \* bound: messages sent

ASSUME ConstantsAssumption ==
    /\ \A m \in Messages :
        /\ m = [kind |-> m.kind, id |-> m.id, route |-> m.route, body |-> m.body]
        /\ m.kind \in {Bin, Ping, Pong}
        /\ m.id \in Nat /\ isUint32(m.id)
        /\ m.route \in Seq(Byte) /\ m.body \in Seq(Byte)
    /\ Chunks \subseteq Nat \ {0}
    /\ MaxSent \in Nat

VARIABLES
    sent,              \* the messages written
    wire,              \* bytes written and not read yet
    message,           \* the Reader's buffer
    singleMessageLen,  \* length of the message being read, 0 if not known
    pc,                \* "read": in Conn.Read, "loop": in the Reader's loop,
                       \* "failed": proto error, "panicked": in Decode
    out                \* what Decode returned for each complete message

vars == <<sent, wire, message, singleMessageLen, pc, out>>

\* Buffers hold bytes, and a length that is known is at least that of a header: what
\* Complete cuts off is never nothing, so that the Reader's loop ends.
TypeOK ==
    /\ sent \in Seq(Messages) /\ Len(sent) <= MaxSent
    /\ wire \in Seq(Byte) /\ message \in Seq(Byte)
    /\ out \in Seq([kind : Byte, id : Nat, route : Seq(Byte), body : Seq(Byte)])
    /\ singleMessageLen \in Nat
    /\ singleMessageLen # 0 => singleMessageLen >= HeadLen
    /\ pc \in {"read", "loop", "failed", "panicked"}

Init ==
    /\ sent = <<>> /\ wire = <<>>
    /\ message = <<>> /\ singleMessageLen = 0
    /\ pc = "read" /\ out = <<>>

\* PingMessage and PongMessage of the TCP protocol have 12 bytes.
Encode(m) == IF m.kind = Bin THEN packBin(m) ELSE control(m.kind, 12)

-----------------------------------------------------------------------------
\* Push writes one encoded message under the connection's mutex.
Send(m) ==
    /\ Len(sent) < MaxSent
    /\ sent' = Append(sent, m)
    /\ wire' = wire \o Encode(m)
    /\ UNCHANGED <<message, singleMessageLen, pc, out>>

\* Conn.Read waits for a byte and returns n bytes, or what is there of them.
upTo(n) == IF n <= Len(wire) THEN n ELSE Len(wire)

\* What it returned is appended to the buffer.
Read(n) ==
    /\ pc = "read"
    /\ wire # <<>>
    /\ message' = message \o SubSeq(wire, 1, upTo(n))
    /\ wire' = SubSeq(wire, upTo(n) + 1, Len(wire))
    /\ pc' = "loop"
    /\ UNCHANGED <<sent, singleMessageLen, out>>

\* Fewer bytes than a header: read on.
WaitHeader ==
    /\ pc = "loop"
    /\ Len(message) < HeadLen
    /\ pc' = "read"
    /\ UNCHANGED <<sent, wire, message, singleMessageLen, out>>

\* The proto error: the buffer is dropped and the caller leaves its loop.
BadHeader ==
    /\ pc = "loop"
    /\ Len(message) >= HeadLen
    /\ singleMessageLen = 0
    /\ ~isHeaderInvalid(message)
    /\ message' = <<>>
    /\ singleMessageLen' = 0
    /\ pc' = "failed"
    /\ UNCHANGED <<sent, wire, out>>

\* A valid header gives the length, which is kept until the message is whole.
ReadHeader ==
    /\ pc = "loop"
    /\ singleMessageLen = 0
    /\ isHeaderInvalid(message)
    /\ singleMessageLen' = getLen(message)
    /\ UNCHANGED <<sent, wire, message, pc, out>>

WaitBody ==
    /\ pc = "loop"
    /\ singleMessageLen # 0
    /\ Len(message) < singleMessageLen
    /\ pc' = "read"
    /\ UNCHANGED <<sent, wire, message, singleMessageLen, out>>

\* Mutated: the bytes of the message stay when more than it has arrived.
rest_None == <<>>

rest == SubSeq(message, singleMessageLen + 1, Len(message))

\* A complete message goes to decodeMessage, whose error the return value of
\* the Reader overwrites (333-335 of the server); the loop goes on.
Complete ==
    /\ pc = "loop"
    /\ singleMessageLen # 0
    /\ Len(message) >= singleMessageLen
    /\ LET b == SubSeq(message, 1, singleMessageLen)
       IN  IF DecodePanics(b)
           THEN pc' = "panicked" /\ UNCHANGED <<message, singleMessageLen, out>>
           ELSE /\ out' = Append(out, Decode(b))
                /\ message' = rest
                /\ singleMessageLen' = 0
                /\ UNCHANGED pc
    /\ UNCHANGED <<sent, wire>>

ReaderStep == WaitHeader \/ BadHeader \/ ReadHeader \/ WaitBody \/ Complete

Next ==
    \/ \E m \in Messages : Send(m)
    \/ \E n \in Chunks : Read(n)
    \/ ReaderStep

Spec == Init /\ [][Next]_vars

\* TCP delivers what was written, and the reading goroutine is run.
Fairness == WF_vars(\E n \in Chunks : Read(n)) /\ WF_vars(ReaderStep)

FairSpec == Spec /\ Fairness

-----------------------------------------------------------------------------
\* The reader can tell the end of the first k messages: each is of packBin, with
\* lengths that fit its header.  (The 12 bytes of a Ping or a Pong are read as a
\* header of 16, and of a route of 256 bytes and more the header tells less.)
whole(k) == \A i \in 1..k : sent[i].kind = Bin /\ fits(sent[i])

\* However the bytes are cut into chunks, the messages come out unchanged and in
\* the order they were sent, up to the first whose end the reader cannot tell:
\* Decode and packBin are inverse, and the buffer and singleMessageLen carry a
\* message over any number of reads.
InOrder ==
    /\ \A i \in 1..Len(out) : i <= Len(sent) /\ whole(i) => out[i] = sent[i]
    /\ whole(Len(sent)) => Len(out) <= Len(sent)

\* No message stays in the buffer for want of the next one, unless Decode panics.
AllDelivered ==
    \A k \in 1..MaxSent :
        (Len(sent) >= k /\ whole(k)) ~> (Len(out) >= k \/ pc = "panicked")

\* The reader sees a proto error (84) only after a heartbeat or a message that
\* does not fit its header: no cut of the others into chunks ends in one.
OnlyMisfitsMisalign == pc = "failed" => ~whole(Len(sent))

\* As long as it knows where a message begins, Decode panics on a route of 240
\* bytes or more, for which the byte arithmetic of line 44 wraps, and on no other
\* message, however its bytes arrive: not on a body that is not there nor on what
\* the message before left in the buffer.
PanicsOnLongRoutesOnly ==
    pc = "panicked" =>
        \/ \E k \in 1..Len(sent) : k <= Len(out) + 1 /\ ~whole(k)
        \/ Len(out) < Len(sent) /\ Len(sent[Len(out) + 1].route) >= 240

\* After a proto error or a panic the Reader is not called again.
readerState == IF pc \in {"failed", "panicked"} THEN pc ELSE "up"

D == INSTANCE Delivery WITH
        Fitting <- {m \in Messages : m.kind = Bin /\ fits(m)},
        Legible <- {m \in Messages : Len(m.route) < 240},
        state <- readerState

\* The Reader (59-109) implements the delivery of messages, however their bytes are
\* cut into chunks: each is delivered when its turn comes, once, and nothing but a
\* heartbeat or a message that does not fit its header, when its turn has come,
\* makes the Reader deliver anything else or end with the proto error.  A panic or
\* a proto error is the end.
ImplementsDelivery == D!Spec

-----------------------------------------------------------------------------
(* What the repository says and the code does not do *)

\* Line 84 of tcp/protocol.go calls an invalid header a "proto error".  The
\* library's own messages would be none.
NoProtoError == pc # "failed"
=============================================================================
