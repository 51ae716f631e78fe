----------------------------- MODULE StreamServer -----------------------------
(***************************************************************************)
(* The servers whose connections are streams: tcp/server and               *)
(* websocket/server.  Their registries and their process are the same but  *)
(* for what a message is, which Kinds says:                                *)
(*   "ping"   answered with a Pong, and the read deadline is renewed       *)
(*   "bin"    handed to a route, which renews nothing                      *)
(*   "empty"  a WebSocket message of no bytes, which renews the deadline   *)
(*   "bad"    bytes that end process with an error (TCP's proto error)     *)
(*   "long"   a Bin whose route is longer than 239 bytes: Decode panics    *)
(*                                                                         *)
(* Each connection has a goroutine that runs process; emitters are user    *)
(* goroutines that call EmitAll.  Both write with Conn.Write, under the    *)
(* connection's mutex, and a write lasts as long as the peer does not      *)
(* read.  There is no write deadline, only a read deadline, of which just  *)
(* "has passed" is kept.                                                   *)
(***************************************************************************)
EXTENDS Naturals, FiniteSets, Sequences

CONSTANTS
    Conns,     \* connections that peers open, each of them once
    NoConn,
    Emitters,  \* goroutines that call EmitAll
    Kinds,     \* kinds of messages the peers send
    MaxMail,   \* bound: messages a peer sends
    MaxEmits   \* bound: calls of EmitAll by each emitter

ASSUME ConstantsAssumption ==
    /\ IsFiniteSet(Conns)
    /\ NoConn \notin Conns \cup Emitters
    /\ Conns \cap Emitters = {}
    /\ Kinds \subseteq {"ping", "bin", "empty", "bad", "long"}
    /\ MaxMail \in Nat
    /\ MaxEmits \in Nat

MaxFd == Cardinality(Conns)
Fds   == 1..MaxFd

VARIABLES
    listening,    \* netListen is open
    crashed,      \* the Go runtime has aborted the process
    \* the registry
    fd,           \* the last FD given out
    connections,  \* FDs in s.connections
    fdOf,         \* Conn.FD, 0 before addConnect
    \* the goroutine of each connection
    pc,
    \* the network
    up,           \* the peer has not closed its end
    sock,         \* our end of the connection is open
    inbox,        \* messages that have arrived and are not read
    mail,         \* number of messages the peer has sent
    late,         \* the read deadline has passed
    stalled,      \* the peer does not read: a write blocks
    \* writers
    wmux,         \* who holds Conn.mux, NoConn if nobody
    em            \* the state of each emitter

registry == <<fd, connections, fdOf>>
net      == <<up, sock, inbox, mail, late, stalled>>
vars     == <<listening, crashed, registry, pc, net, wmux, em>>

\* An emitter between two calls, at the range loop of EmitAll, waiting for the
\* mutex of `to`, or in its Write.  `tried` are the connections this call is done
\* with, `last` the last FD given out when it began.
EmitterState == [at : {"idle", "next", "lock", "write"}, to : Conns \cup {NoConn},
                 tried : SUBSET Conns, last : 0..MaxFd, calls : 0..MaxEmits]

RegistryOK ==
    /\ fd \in 0..MaxFd
    /\ connections \subseteq Fds
    /\ fdOf \in [Conns -> 0..MaxFd]

ProcessOK ==
    pc \in [Conns -> {"new", "accepted", "refused", "onOpen", "read", "pong", "ponging",
                      "handle", "reply", "replying", "closing", "onClose", "done", "lost"}]

NetOK ==
    /\ up \in [Conns -> BOOLEAN] /\ sock \in [Conns -> BOOLEAN]
    /\ inbox \in [Conns -> Seq(Kinds)]
    /\ mail \in [Conns -> 0..MaxMail]
    /\ late \in [Conns -> BOOLEAN] /\ stalled \in [Conns -> BOOLEAN]

WritersOK ==
    /\ wmux \in [Conns -> Conns \cup Emitters \cup {NoConn}]
    /\ em \in [Emitters -> EmitterState]
    /\ \A e \in Emitters : em[e].at \in {"lock", "write"} => em[e].to \in Conns

\* The types; in particular no more FDs are given out than there are connections.
TypeOK ==
    /\ listening \in BOOLEAN /\ crashed \in BOOLEAN
    /\ RegistryOK
    /\ ProcessOK
    /\ NetOK
    /\ WritersOK

Init ==
    /\ listening = TRUE /\ crashed = FALSE
    /\ fd = 0 /\ connections = {} /\ fdOf = [c \in Conns |-> 0]
    /\ pc = [c \in Conns |-> "new"]
    /\ up = [c \in Conns |-> FALSE] /\ sock = [c \in Conns |-> FALSE]
    /\ inbox = [c \in Conns |-> <<>>] /\ mail = [c \in Conns |-> 0]
    /\ late = [c \in Conns |-> FALSE] /\ stalled = [c \in Conns |-> FALSE]
    /\ wmux = [c \in Conns |-> NoConn]
    /\ em = [e \in Emitters |-> [at |-> "idle", to |-> NoConn, tried |-> {},
                                 last |-> 0, calls |-> 0]]

-----------------------------------------------------------------------------
(* The pieces several actions share. *)

Running == ~crashed /\ UNCHANGED crashed

Goto(c, from, to) == pc[c] = from /\ pc' = [pc EXCEPT ![c] = to]

registered(c) == fdOf[c] \in connections

\* Mutated: the next FD is computed from the size of the registry.
addConnect_Renumbers(c) ==
    LET f == Cardinality(connections) + 1
    IN  /\ fd' = f
        /\ connections' = connections \cup {f}
        /\ fdOf' = [fdOf EXCEPT ![c] = f]

addConnect(c) ==
    /\ fd' = fd + 1
    /\ connections' = connections \cup {fd + 1}
    /\ fdOf' = [fdOf EXCEPT ![c] = fd + 1]

\* Mutated: the last FD is deleted, not that of the connection.
delConnect_Last(c) == connections' = connections \ {fd}

delConnect(c) == connections' = connections \ {fdOf[c]}

\* Mutated: the deadline that Ready sets is never looked at.
readError_NoDeadline(c) == ~sock[c] \/ ~up[c]

\* Conn.Read returns an error: closed on our side, past the deadline, or closed
\* by the peer, which may also destroy what it sent before.
readError(c) == ~sock[c] \/ late[c] \/ ~up[c]

\* Mutated: a write that blocks waits for the peer and for nothing else.
writeReturns_PeerOnly(c) == ~stalled[c] \/ ~up[c]

\* A Write comes back: accepted, or refused on a connection closed on either
\* side.
writeReturns(c) == ~stalled[c] \/ ~up[c] \/ ~sock[c]

\* Mutated: the mutex is not looked at.
Acquire_Unlocked(c, w) == wmux' = [wmux EXCEPT ![c] = w]

Acquire(c, w) == wmux[c] = NoConn /\ wmux' = [wmux EXCEPT ![c] = w]

\* Mutated: a return that does not unlock.
Release_Never(c) == UNCHANGED wmux

Release(c) == wmux' = [wmux EXCEPT ![c] = NoConn]

-----------------------------------------------------------------------------
(* The peers and the clock *)

PeerSends(c, k) ==
    /\ Running
    /\ up[c] /\ sock[c] /\ mail[c] < MaxMail
    /\ mail' = [mail EXCEPT ![c] = @ + 1]
    /\ inbox' = [inbox EXCEPT ![c] = Append(@, k)]
    /\ UNCHANGED <<listening, registry, pc, up, sock, late, stalled, wmux, em>>

PeerCloses(c) ==
    /\ Running
    /\ up[c] /\ sock[c]
    /\ up' = [up EXCEPT ![c] = FALSE]
    /\ UNCHANGED <<listening, registry, pc, sock, inbox, mail, late, stalled, wmux, em>>

\* The peer stops reading during a write, or reads again.
PeerStalls(c) ==
    /\ Running
    /\ up[c] /\ sock[c] /\ wmux[c] # NoConn
    /\ stalled' = [stalled EXCEPT ![c] = ~@]
    /\ UNCHANGED <<listening, registry, pc, up, sock, inbox, mail, late, wmux, em>>

Deadline(c) ==
    /\ Running
    /\ sock[c] /\ ~late[c]
    /\ late' = [late EXCEPT ![c] = TRUE]
    /\ UNCHANGED <<listening, registry, pc, up, sock, inbox, mail, stalled, wmux, em>>

-----------------------------------------------------------------------------
(* Start, Shutdown and process *)

\* The listener hands a connection to its goroutine, with a fresh deadline.
Accept(c) ==
    /\ Running
    /\ listening
    /\ Goto(c, "new", "accepted")
    /\ up' = [up EXCEPT ![c] = TRUE]
    /\ sock' = [sock EXCEPT ![c] = TRUE]
    /\ UNCHANGED <<listening, registry, inbox, mail, late, stalled, wmux, em>>

\* Connections that are open stay open.
Shutdown ==
    /\ Running
    /\ listening
    /\ listening' = FALSE
    /\ UNCHANGED <<registry, pc, net, wmux, em>>

\* Upgrade or SetReadDeadline fails: OnError, and process returns.
SetupFails(c) ==
    /\ Running
    /\ Goto(c, "accepted", "refused")
    /\ UNCHANGED <<listening, registry, net, wmux, em>>

\* A buffer size that TCP cannot set is a panic.
SetupPanics(c) ==
    /\ ~crashed
    /\ pc[c] = "accepted"
    /\ crashed' = TRUE
    /\ UNCHANGED <<listening, registry, pc, net, wmux, em>>

\* onOpen: addConnect, then s.OnOpen(conn).
Register(c) ==
    /\ Running
    /\ Goto(c, "accepted", "onOpen")
    /\ addConnect(c)
    /\ UNCHANGED <<listening, net, wmux, em>>

OnOpenReturns(c) ==
    /\ Running
    /\ Goto(c, "onOpen", "read")
    /\ UNCHANGED <<listening, registry, net, wmux, em>>

\* The next message is read.  "empty" renews a deadline that has not passed, and
\* Decode knows no type for it.
Read(c, k) ==
    /\ Running
    /\ sock[c] /\ ~late[c]
    /\ inbox[c] # <<>> /\ Head(inbox[c]) = k
    /\ inbox' = [inbox EXCEPT ![c] = Tail(@)]
    /\ \/ k = "ping" /\ Goto(c, "read", "pong")
       \/ k = "bin" /\ Goto(c, "read", "handle")
       \/ k = "empty" /\ Goto(c, "read", "read")
       \/ k = "bad" /\ Goto(c, "read", "closing")
    /\ sock' = [sock EXCEPT ![c] = k # "bad"]
    /\ UNCHANGED <<listening, registry, up, mail, late, stalled, wmux, em>>

\* The sum of header and route length is one of bytes, and too small for a slice.
\* The panic ends the server in TCP's own goroutine; in WebSocket's, net/http
\* recovers it, and the connection is left as it is, without onClose.
DecodePanics(c) ==
    /\ ~crashed
    /\ sock[c] /\ ~late[c]
    /\ inbox[c] # <<>> /\ Head(inbox[c]) = "long"
    /\ inbox' = [inbox EXCEPT ![c] = Tail(@)]
    /\ pc[c] = "read"
    /\ \/ crashed' = TRUE /\ UNCHANGED pc
       \/ pc' = [pc EXCEPT ![c] = "lost"] /\ UNCHANGED crashed
    /\ UNCHANGED <<listening, registry, up, sock, mail, late, stalled, wmux, em>>

\* The route of a Bin writes an answer on the connection ...
Replies(c) ==
    /\ Running
    /\ Goto(c, "handle", "reply")
    /\ UNCHANGED <<listening, registry, net, wmux, em>>

ReplyLock(c) ==
    /\ Running
    /\ Goto(c, "reply", "replying")
    /\ Acquire(c, c)
    /\ UNCHANGED <<listening, registry, net, em>>

ReplyWritten(c) ==
    /\ Running
    /\ writeReturns(c)
    /\ Goto(c, "replying", "read")
    /\ Release(c)
    /\ UNCHANGED <<listening, registry, net, em>>

\* ... or returns without one.
Handled(c) ==
    /\ Running
    /\ Goto(c, "handle", "read")
    /\ UNCHANGED <<listening, registry, net, wmux, em>>

\* PingHandler pushes the Pong on its own connection ...
PongLock(c) ==
    /\ Running
    /\ Goto(c, "pong", "ponging")
    /\ Acquire(c, c)
    /\ UNCHANGED <<listening, registry, net, em>>

\* ... and renews the deadline.  Both errors mean a closed connection, on which
\* the next Read fails.
PongWritten(c) ==
    /\ Running
    /\ writeReturns(c)
    /\ Goto(c, "ponging", "read")
    /\ Release(c)
    /\ late' = [late EXCEPT ![c] = FALSE]
    /\ UNCHANGED <<listening, registry, up, sock, inbox, mail, stalled, em>>

\* The loop of process is left, and onClose closes the connection first.
ReadFails(c) ==
    /\ Running
    /\ readError(c)
    /\ Goto(c, "read", "closing")
    /\ sock' = [sock EXCEPT ![c] = FALSE]
    /\ UNCHANGED <<listening, registry, up, inbox, mail, late, stalled, wmux, em>>

\* delConnect, then s.OnClose(conn).
Unregister(c) ==
    /\ Running
    /\ Goto(c, "closing", "onClose")
    /\ delConnect(c)
    /\ UNCHANGED <<listening, fd, fdOf, net, wmux, em>>

OnCloseReturns(c) ==
    /\ Running
    /\ Goto(c, "onClose", "done")
    /\ UNCHANGED <<listening, registry, net, wmux, em>>

-----------------------------------------------------------------------------
(* User goroutines *)

\* Close(fd), from any goroutine: only the connection is closed, the rest is
\* left to its process.
UserClose(c) ==
    /\ Running
    /\ registered(c)
    /\ sock' = [sock EXCEPT ![c] = FALSE]
    /\ UNCHANGED <<listening, registry, pc, up, inbox, mail, late, stalled, wmux, em>>

EmitAll(e) ==
    /\ Running
    /\ em[e].at = "idle" /\ em[e].calls < MaxEmits
    /\ em' = [em EXCEPT ![e] = [at |-> "next", to |-> NoConn, tried |-> {},
                                last |-> fd, calls |-> @.calls + 1]]
    /\ UNCHANGED <<listening, registry, pc, net, wmux>>

\* The range yields an FD it has not yielded yet, and GetConnection finds it; if
\* it is deleted between the two, the error is that of a write refused.
EmitNext(e, c) ==
    /\ Running
    /\ em[e].at = "next"
    /\ registered(c) /\ c \notin em[e].tried
    /\ em' = [em EXCEPT ![e].at = "lock", ![e].to = c]
    /\ UNCHANGED <<listening, registry, pc, net, wmux>>

EmitLock(e) ==
    /\ Running
    /\ em[e].at = "lock"
    /\ Acquire(em[e].to, e)
    /\ em' = [em EXCEPT ![e].at = "write"]
    /\ UNCHANGED <<listening, registry, pc, net>>

\* Refused or not, the range goes on after a write.
EmitWritten(e) ==
    LET c == em[e].to
    IN  /\ Running
        /\ em[e].at = "write"
        /\ writeReturns(c)
        /\ Release(c)
        /\ em' = [em EXCEPT ![e].at = "next", ![e].to = NoConn, ![e].tried = @ \cup {c}]
        /\ UNCHANGED <<listening, registry, pc, net>>

\* The range ends when every entry has been yielded; one that was added meanwhile
\* may be or not, as Go allows.
EmitDone(e) ==
    /\ Running
    /\ em[e].at = "next"
    /\ \A c \in Conns : registered(c) /\ fdOf[c] <= em[e].last => c \in em[e].tried
    /\ em' = [em EXCEPT ![e].at = "idle", ![e].tried = {}, ![e].last = 0]
    /\ UNCHANGED <<listening, registry, pc, net, wmux>>

\* The range takes no lock: the runtime may abort when it meets addConnect or
\* delConnect.
MapRace ==
    /\ ~crashed
    /\ \E e \in Emitters : em[e].at = "next"
    /\ \E c \in Conns : pc[c] \in {"accepted", "closing"}
    /\ crashed' = TRUE
    /\ UNCHANGED <<listening, registry, pc, net, wmux, em>>

-----------------------------------------------------------------------------
\* What the goroutine of c does by itself.
Process(c) ==
    \/ SetupFails(c) \/ SetupPanics(c) \/ Register(c) \/ OnOpenReturns(c)
    \/ \E k \in Kinds : Read(c, k)
    \/ DecodePanics(c)
    \/ Handled(c) \/ Replies(c) \/ ReplyLock(c) \/ ReplyWritten(c)
    \/ PongLock(c) \/ PongWritten(c)
    \/ ReadFails(c) \/ Unregister(c) \/ OnCloseReturns(c)

Emitter(e) ==
    \/ EmitLock(e) \/ EmitWritten(e) \/ EmitDone(e)
    \/ \E c \in Conns : EmitNext(e, c)

Environment(c) ==
    \/ Accept(c) \/ PeerCloses(c) \/ PeerStalls(c) \/ Deadline(c) \/ UserClose(c)
    \/ \E k \in Kinds : PeerSends(c, k)

Next ==
    \/ \E c \in Conns : Process(c) \/ Environment(c)
    \/ \E e \in Emitters : Emitter(e) \/ EmitAll(e)
    \/ Shutdown
    \/ MapRace

Spec == Init /\ [][Next]_vars

\* The runtime runs every goroutine, callbacks return, and a deadline comes.
\* Nothing is assumed of the peers.
Fairness ==
    /\ \A c \in Conns : WF_vars(Process(c)) /\ WF_vars(Deadline(c))
    /\ \A e \in Emitters : WF_vars(Emitter(e))

FairSpec == Spec /\ Fairness

-----------------------------------------------------------------------------
(* Properties *)

\* Between addConnect and delConnect.
live(c) == pc[c] \in {"onOpen", "read", "pong", "ponging", "handle", "reply", "replying",
                      "closing", "lost"}

\* The process of c is in Conn.Write.
writing(c) == pc[c] \in {"ponging", "replying"}

\* An FD is in the map exactly while its connection is between addConnect and
\* delConnect, no two connections have the same, and from onClose on the
\* connection is closed: whoever finds an FD finds a connection OnClose has not
\* been called for.
RegistrySound ==
    /\ connections = {fdOf[c] : c \in {d \in Conns : live(d)}}
    /\ \A c, d \in Conns : fdOf[c] = fdOf[d] /\ fdOf[c] # 0 => c = d
    /\ \A c \in Conns : pc[c] \in {"closing", "onClose", "done"} => ~sock[c]

\* Which FDs there are: 1..fd, one for each connection that got as far as
\* addConnect.  With RegistrySound this is inductive.
FdsSound ==
    /\ fd = Cardinality({c \in Conns : fdOf[c] # 0})
    /\ \A c \in Conns : fdOf[c] <= fd
    /\ \A c \in Conns : fdOf[c] = 0 <=> pc[c] \in {"new", "accepted", "refused"}
    /\ \A f \in 1..fd : \E c \in Conns : fdOf[c] = f

\* The mutex of a connection is held by its process in a write of its own, or by
\* the one emitter that writes to it.
MuxSound ==
    \A c \in Conns :
        /\ wmux[c] = c <=> writing(c)
        /\ \A e \in Emitters : wmux[c] = e <=> em[e].at = "write" /\ em[e].to = c

\* Only one goroutine at a time is in the Write of a connection, which the
\* WebSocket library demands and line 328 of websocket/server/server.go recalls.
OneWriter ==
    \A c \in Conns : \A e \in Emitters :
        em[e].at = "write" /\ em[e].to = c =>
            /\ ~writing(c)
            /\ \A f \in Emitters : em[f].at = "write" /\ em[f].to = c => f = e

\* What every step preserves.
StreamInv == TypeOK /\ FdsSound /\ RegistrySound /\ MuxSound

waitsFor(e, c) == em[e].to = c

\* The goroutine of c has ended: after OnClose, or in a panic of Decode.
ended(c) == pc[c] \in {"done", "lost"}

\* Closing a connection, from wherever, frees everyone: its process comes back
\* from a write to a peer that does not read, OnClose is called unless Decode has
\* panicked, and no EmitAll keeps waiting for it.
CloseFrees ==
    \A c \in Conns :
        (fdOf[c] # 0 /\ ~sock[c]) ~>
            (crashed \/ (ended(c) /\ \A e \in Emitters : ~waitsFor(e, c)))

readsInTheEnd(c) == <>[](~stalled[c])

\* A peer that falls silent, or that sends only what renews no deadline, is
\* dropped and OnClose called, provided it does not stop reading: with a Pong or
\* an answer that cannot be written process sits in a write without a deadline.
SilentPeerExpires ==
    \A c \in Conns :
        readsInTheEnd(c) => (fdOf[c] # 0 ~> (crashed \/ ended(c)))

\* EmitAll returns, though peers come, go and close as they like, provided that
\* all of them read: it writes to one after the other.
EmitAllReturns ==
    (\A c \in Conns : readsInTheEnd(c)) =>
        \A e \in Emitters : em[e].at # "idle" ~> (crashed \/ em[e].at = "idle")

\* The registry seen as sessions.
status == [f \in Fds |-> IF f > fd THEN "unborn"
                          ELSE IF f \in connections THEN "live" ELSE "gone"]
peer == [f \in Fds |-> IF f > fd THEN NoConn ELSE CHOOSE c \in Conns : fdOf[c] = f]

S == INSTANCE Sessions WITH Peers <- Conns, NoPeer <- NoConn

\* The stream servers give out FDs as Sessions promises.
ImplementsSessions == S!Spec
=============================================================================
