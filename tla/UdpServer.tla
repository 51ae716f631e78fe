------------------------------ MODULE UdpServer ------------------------------
(***************************************************************************)
(* The UDP socket server of kitty (socket/udp/server/server.go, conn.go).  *)
(*                                                                         *)
(* UDP has no connections, so the server builds its own.  The read loop    *)
(* of Start spawns one goroutine per datagram (process); these goroutines  *)
(* take turns through processLock, find the connection of the sender's     *)
(* address in addrMap and connections, and open it, close it, or hand the  *)
(* datagram to it.  Every connection owns two more goroutines: the loop    *)
(* that takes messages from the channel accept, and the timer goroutine    *)
(* that closes the connection when its heartbeat timer expires.            *)
(*                                                                         *)
(* A Conn is named by the FD it gets in addConnect.  Network writes are    *)
(* kept as the set of datagrams ever sent, because UDP may lose, repeat    *)
(* and reorder them.  Payloads, routes and the user's callbacks are not    *)
(* modelled beyond the writes a callback may make and the panics of a      *)
(* datagram the code cannot take apart.  User handlers return.             *)
(***************************************************************************)
EXTENDS Naturals, Sequences, FiniteSets

CONSTANTS
    Addrs,       \* remote UDP addresses, as in addr.String()
    NoAddr,      \* the host of a connection that does not exist yet
    Kinds,       \* the message types (message[2]) the peers send
    UserKinds,   \* what the user's code writes: "bin" (Emit), "close" (Close)
    MaxReads,    \* bound: datagrams the read loop takes from the socket
    MaxFd,       \* bound: connections ever opened
    AcceptCap,   \* capacity of the channel conn.accept, 128 in the code
    NoDatagram   \* stands for "no datagram in hand"

DataKinds == {"bin", "ping", "pong"}

\* "unknown" is any other type, or a datagram too short to have one.
AllKinds  == DataKinds \cup {"open", "close", "unknown"}

Conns    == 1..MaxFd
Datagram == [id : 1..MaxReads, addr : Addrs, kind : Kinds]
Sent     == [to : Addrs, kind : AllKinds]

ASSUME ConstantsAssumption ==
    /\ Kinds \subseteq AllKinds
    /\ UserKinds \subseteq {"bin", "close"}
    /\ MaxReads \in Nat \ {0}
    /\ MaxFd \in Nat \ {0}
    /\ AcceptCap \in Nat \ {0}
    /\ NoAddr \notin Addrs
    /\ NoDatagram \notin Datagram

VARIABLES
    \* the registry: Server.fd, Server.connections, Server.addrMap
    fd,          \* the last FD given out
    connections, \* the FDs that are keys of Server.connections
    addrMap,     \* address -> FD, 0 where the Go map has no entry
    host,        \* FD -> Conn.Host(), fixed when the Conn is created
    closes,      \* FD -> how often Server.OnClose was called for it
    \* the holder of processLock
    pc,          \* where it is in process, "idle" when the lock is free
    cur,         \* its datagram
    target,      \* the FD it works on
    \* one timer and one timer goroutine per connection
    armed,       \* FD -> conn.tick is running
    tickC,       \* FD -> a tick waits in the one-slot channel conn.tick.C
    timer,       \* FD -> where the goroutine of lines 353-358 is
    \* one loop goroutine per connection
    accept,      \* FD -> content of the channel conn.accept
    handling,    \* FD -> the message in decodeMessage, NoDatagram at select
    stopped,     \* FDs whose loop has received from conn.close
    \* the socket and the process
    listening,   \* netListen is open
    reads,       \* number of datagrams read
    spawned,     \* datagrams whose goroutine waits for processLock
    sent,        \* datagrams ever written to the socket
    crashed      \* the process is gone: aborted by the Go runtime, or panicked

registry == <<fd, connections, addrMap, host, closes>>
lockVars == <<pc, cur, target>>
timerVars == <<armed, tickC, timer>>
loopVars == <<accept, handling, stopped>>
netVars  == <<listening, reads, spawned, sent>>
vars     == <<registry, lockVars, timerVars, loopVars, netVars, crashed>>

RegistryOK ==
    /\ fd \in 0..MaxFd
    /\ connections \in SUBSET Conns
    /\ addrMap \in [Addrs -> 0..MaxFd]
    /\ host \in [Conns -> Addrs \cup {NoAddr}]
    /\ closes \in [Conns -> Nat]

LockOK ==
    /\ pc \in {"idle", "lookup", "accept", "opening", "closing", "reporting", "signal"}
    /\ cur \in Datagram \cup {NoDatagram}
    /\ target \in 0..MaxFd

TimersOK ==
    /\ armed \in [Conns -> BOOLEAN]
    /\ tickC \in [Conns -> BOOLEAN]
    /\ timer \in [Conns -> {"wait", "expired", "reporting", "signal"}]

LoopsOK ==
    /\ accept \in [Conns -> Seq(Datagram)]
    /\ \A c \in Conns : Len(accept[c]) <= AcceptCap
    /\ handling \in [Conns -> Datagram \cup {NoDatagram}]
    /\ stopped \in SUBSET Conns

NetOK ==
    /\ listening \in BOOLEAN
    /\ reads \in 0..MaxReads
    /\ spawned \in SUBSET Datagram
    /\ sent \in SUBSET Sent

\* Every variable has its type, and conn.accept, which process may only fill
\* with processLock held (336), never holds more than its capacity (346).
TypeOK ==
    /\ RegistryOK
    /\ LockOK
    /\ TimersOK
    /\ LoopsOK
    /\ NetOK
    /\ crashed \in BOOLEAN

\* Ready has run and the socket is bound.
Init ==
    /\ fd = 0
    /\ connections = {}
    /\ addrMap = [a \in Addrs |-> 0]
    /\ host = [c \in Conns |-> NoAddr]
    /\ closes = [c \in Conns |-> 0]
    /\ pc = "idle"
    /\ cur = NoDatagram
    /\ target = 0
    /\ armed = [c \in Conns |-> FALSE]
    /\ tickC = [c \in Conns |-> FALSE]
    /\ timer = [c \in Conns |-> "wait"]
    /\ accept = [c \in Conns |-> <<>>]
    /\ handling = [c \in Conns |-> NoDatagram]
    /\ stopped = {}
    /\ listening = TRUE
    /\ reads = 0
    /\ spawned = {}
    /\ sent = {}
    /\ crashed = FALSE

-----------------------------------------------------------------------------
(* The pieces several actions share. *)

\* Every action but the abort itself is a step of a living process.
Running == ~crashed /\ UNCHANGED crashed

\* Conn.Write: WriteToUDP succeeds while the socket is open.
Write(a, k) ==
    sent' = IF listening THEN sent \cup {[to |-> a, kind |-> k]} ELSE sent

\* Mutated: the next FD is computed from the size of the registry.
addConnect_Renumbers(a) ==
    LET c == Cardinality(connections) + 1
    IN  /\ fd' = c
        /\ connections' = connections \cup {c}
        /\ addrMap' = [addrMap EXCEPT ![a] = c]
        /\ host' = [host EXCEPT ![c] = a]

\* addConnect: the next FD, entered in both maps under s.mux.
addConnect(a) ==
    /\ fd' = fd + 1
    /\ connections' = connections \cup {fd + 1}
    /\ addrMap' = [addrMap EXCEPT ![a] = fd + 1]
    /\ host' = [host EXCEPT ![fd + 1] = a]

\* Mutated: only one of the two maps is cleaned.
delConnect_KeepsAddr(c) ==
    /\ connections' = connections \ {c}
    /\ UNCHANGED <<fd, addrMap, host>>

\* delConnect: both deletes run whether or not the entries are c's.
delConnect(c) ==
    /\ connections' = connections \ {c}
    /\ addrMap' = [addrMap EXCEPT ![host[c]] = 0]
    /\ UNCHANGED <<fd, host>>

\* Mutated: nothing is reported of a peer that is back already.
OnClose_IfGone(c) ==
    closes' = [closes EXCEPT ![c] = @ + IF addrMap[host[c]] = 0 THEN 1 ELSE 0]

\* s.OnClose(conn), between delConnect and the send on conn.close.
OnClose(c) == closes' = [closes EXCEPT ![c] = @ + 1]

\* Mutated: the `break` leaves the loop.
atSelect_UntilClosed(c) == handling[c] = NoDatagram /\ c \notin stopped

\* The loop waits at its select; its `break` only leaves the select, so it comes
\* back for the next message or the next close.
atSelect(c) == handling[c] = NoDatagram

\* conn.close is unbuffered: the send completes when the loop of c is at its
\* select, which then stops the timer.
closeReceived(c) ==
    /\ atSelect(c)
    /\ armed' = [armed EXCEPT ![c] = FALSE]
    /\ stopped' = stopped \cup {c}
    /\ UNCHANGED <<accept, handling, tickC>>

\* Mutated: only the newest connection is compared.
found_Newest(a) == addrMap[a] = fd /\ fd \in connections

\* fd, ok := s.addrMap[addr]; conn, ok := s.connections[fd].  addrMap and
\* connections change together under s.mux, and a delConnect between the two
\* unlocked reads has the outcome of one before them, so one read stands for
\* both; the runtime's answer to the race itself is MapRace.
found(a) == addrMap[a] \in connections

\* Mutated: the connection that was opened last.
connOf_Newest(a) == fd

\* The connection the lookup yields.
connOf(a) == addrMap[a]

\* Mutated: one message too many.
hasRoom_OneMore(c) == Len(accept[c]) <= AcceptCap

\* A send on conn.accept does not block.
hasRoom(c) == Len(accept[c]) < AcceptCap

\* Mutated: the Ping stops the timer.
Reset_Stops(c) == armed' = [armed EXCEPT ![c] = FALSE]

\* conn.tick.Reset arms the timer even after Stop.
Reset(c) == armed' = [armed EXCEPT ![c] = TRUE]

-----------------------------------------------------------------------------
(* Start and Shutdown *)

\* The read loop takes a datagram and spawns its goroutine.
ReadFromUDP(a, k) ==
    /\ Running
    /\ listening
    /\ reads < MaxReads
    /\ reads' = reads + 1
    /\ spawned' = spawned \cup {[id |-> reads + 1, addr |-> a, kind |-> k]}
    /\ UNCHANGED <<registry, lockVars, timerVars, loopVars, listening, sent>>

\* netListen is closed; every goroutine but the read loop lives on.
Shutdown ==
    /\ Running
    /\ listening
    /\ listening' = FALSE
    /\ UNCHANGED <<registry, lockVars, timerVars, loopVars, reads, spawned, sent>>

-----------------------------------------------------------------------------
(* process, one step per point where another goroutine can come between *)

\* Mutated: the Open is acknowledged before anything else.
Lock_Acks(d) ==
    /\ Running
    /\ pc = "idle"
    /\ d \in spawned
    /\ spawned' = spawned \ {d}
    /\ cur' = d
    /\ pc' = "lookup"
    /\ IF d.kind = "open" THEN Write(d.addr, "open") ELSE UNCHANGED sent
    /\ UNCHANGED <<target, registry, timerVars, loopVars, listening, reads>>

\* Any waiting goroutine may be the next to get processLock.
Lock(d) ==
    /\ Running
    /\ pc = "idle"
    /\ d \in spawned
    /\ spawned' = spawned \ {d}
    /\ cur' = d
    /\ pc' = "lookup"
    /\ UNCHANGED <<target, registry, timerVars, loopVars, listening, reads, sent>>

Unlock ==
    /\ pc' = "idle"
    /\ cur' = NoDatagram
    /\ target' = 0

\* message[2] of a datagram of less than three bytes.
ShortDatagram ==
    /\ ~crashed
    /\ pc = "lookup"
    /\ cur.kind = "unknown"
    /\ crashed' = TRUE
    /\ UNCHANGED <<registry, lockVars, timerVars, loopVars, netVars>>

\* Every early return of the switch.
Ignore ==
    /\ Running
    /\ pc = "lookup"
    /\ \/ cur.kind \in DataKinds /\ ~found(cur.addr)
       \/ cur.kind = "open" /\ found(cur.addr)
       \/ cur.kind = "close" /\ ~found(cur.addr)
       \/ cur.kind = "unknown"
    /\ Unlock
    /\ UNCHANGED <<registry, timerVars, loopVars, netVars>>

\* Bin, Ping, Pong of a known peer: the connection is chosen, the send on
\* conn.accept is still to come.
Deliver ==
    /\ Running
    /\ pc = "lookup"
    /\ cur.kind \in DataKinds
    /\ found(cur.addr)
    /\ target' = connOf(cur.addr)
    /\ pc' = "accept"
    /\ UNCHANGED <<cur, registry, timerVars, loopVars, netVars>>

\* conn.accept <- message blocks, with processLock held, while it is full.
AcceptSend ==
    /\ Running
    /\ pc = "accept"
    /\ hasRoom(target)
    /\ accept' = [accept EXCEPT ![target] = Append(@, cur)]
    /\ Unlock
    /\ UNCHANGED <<handling, stopped, registry, timerVars, netVars>>

\* The timer is armed, both goroutines start, and addConnect registers the
\* connection.  The goroutines have nothing to do before addConnect unless
\* HeartBeatTimeout passes within these few lines, which is not modelled.
Open ==
    /\ Running
    /\ pc = "lookup"
    /\ cur.kind = "open"
    /\ ~found(cur.addr)
    /\ fd < MaxFd
    /\ addConnect(cur.addr)
    /\ armed' = [armed EXCEPT ![fd + 1] = TRUE]
    /\ target' = fd + 1
    /\ pc' = "opening"
    /\ UNCHANGED <<closes, cur, tickC, timer, loopVars, netVars>>

\* After s.OnOpen(conn), the server acknowledges and returns.
Opened ==
    /\ Running
    /\ pc = "opening"
    /\ Write(host[target], "open")
    /\ Unlock
    /\ UNCHANGED <<registry, timerVars, loopVars, listening, reads, spawned>>

\* Close of a known peer: onClose is about to run.
Close ==
    /\ Running
    /\ pc = "lookup"
    /\ cur.kind = "close"
    /\ found(cur.addr)
    /\ target' = connOf(cur.addr)
    /\ pc' = "closing"
    /\ UNCHANGED <<cur, registry, timerVars, loopVars, netVars>>

Closing ==
    /\ Running
    /\ pc = "closing"
    /\ delConnect(target)
    /\ pc' = "reporting"
    /\ UNCHANGED <<closes, cur, target, timerVars, loopVars, netVars>>

Report ==
    /\ Running
    /\ pc = "reporting"
    /\ OnClose(target)
    /\ pc' = "signal"
    /\ UNCHANGED <<fd, connections, addrMap, host, cur, target, timerVars, loopVars, netVars>>

Signal ==
    /\ Running
    /\ pc = "signal"
    /\ closeReceived(target)
    /\ Unlock
    /\ UNCHANGED <<timer, registry, netVars>>

\* The lookup of process, and EmitAll and GetConnections in a goroutine of the
\* user, read the maps without s.mux.  When another goroutine is about to
\* change them the runtime may abort: "concurrent map read and map write".
MapRace ==
    /\ ~crashed
    /\ \/ \E c \in Conns : timer[c] = "expired"
       \/ pc = "closing"
       \/ pc = "lookup" /\ cur.kind = "open" /\ ~found(cur.addr)
    /\ crashed' = TRUE
    /\ UNCHANGED <<registry, lockVars, timerVars, loopVars, netVars>>

-----------------------------------------------------------------------------
(* The timer of connection c and the goroutine that ranges over conn.tick.C *)

Tick(c) ==
    /\ Running
    /\ armed[c]
    /\ armed' = [armed EXCEPT ![c] = FALSE]
    /\ tickC' = [tickC EXCEPT ![c] = TRUE]
    /\ UNCHANGED <<timer, registry, lockVars, loopVars, netVars>>

TimerExpire(c) ==
    /\ Running
    /\ timer[c] = "wait"
    /\ tickC[c]
    /\ tickC' = [tickC EXCEPT ![c] = FALSE]
    /\ timer' = [timer EXCEPT ![c] = "expired"]
    /\ Write(host[c], "close")
    /\ UNCHANGED <<armed, registry, lockVars, loopVars, listening, reads, spawned>>

\* onClose, without processLock: the peer's next datagrams come between.
TimerClose(c) ==
    /\ Running
    /\ timer[c] = "expired"
    /\ delConnect(c)
    /\ timer' = [timer EXCEPT ![c] = "reporting"]
    /\ UNCHANGED <<closes, armed, tickC, lockVars, loopVars, netVars>>

TimerReport(c) ==
    /\ Running
    /\ timer[c] = "reporting"
    /\ OnClose(c)
    /\ timer' = [timer EXCEPT ![c] = "signal"]
    /\ UNCHANGED <<fd, connections, addrMap, host, armed, tickC, lockVars, loopVars, netVars>>

TimerSignal(c) ==
    /\ Running
    /\ timer[c] = "signal"
    /\ closeReceived(c)
    /\ timer' = [timer EXCEPT ![c] = "wait"]
    /\ UNCHANGED <<registry, lockVars, netVars>>

-----------------------------------------------------------------------------
(* The loop goroutine of connection c *)

LoopReceive(c) ==
    /\ Running
    /\ atSelect(c)
    /\ accept[c] # <<>>
    /\ handling' = [handling EXCEPT ![c] = Head(accept[c])]
    /\ accept' = [accept EXCEPT ![c] = Tail(@)]
    /\ UNCHANGED <<stopped, registry, lockVars, timerVars, netVars>>

\* PingHandler: the timer starts anew, then the Pong is pushed
\* through the registry, which refuses an FD that is gone.
LoopPing(c) ==
    /\ Running
    /\ handling[c] # NoDatagram
    /\ handling[c].kind = "ping"
    /\ handling' = [handling EXCEPT ![c] = NoDatagram]
    /\ Reset(c)
    /\ \/ c \in connections /\ Write(host[c], "pong")
       \/ c \notin connections /\ UNCHANGED sent
    /\ UNCHANGED <<accept, stopped, tickC, timer, registry, lockVars, listening, reads, spawned>>

\* Bin goes to the router, Pong to PongHandler, and what Decode does not
\* understand, whatever its type, to OnUnknown; all return.  What the user's
\* handler writes is UserWrite.
LoopOther(c) ==
    /\ Running
    /\ handling[c] # NoDatagram
    /\ handling' = [handling EXCEPT ![c] = NoDatagram]
    /\ UNCHANGED <<accept, stopped, registry, lockVars, timerVars, netVars>>

\* Decode adds HeadLen to a route length of 240 to 255 in one byte, which wraps,
\* and slices the message from 16 to less than 16.
LoopPanics(c) ==
    /\ ~crashed
    /\ handling[c] # NoDatagram
    /\ crashed' = TRUE
    /\ UNCHANGED <<registry, lockVars, timerVars, loopVars, netVars>>

-----------------------------------------------------------------------------
(* The user: a callback, a handler or any other goroutine *)

\* Emit and EmitAll push Bin to a registered FD; Conn.Close writes a Close to
\* the peer, also for a Conn that was kept after it was unregistered.
UserWrite(c, k) ==
    /\ Running
    /\ \/ k = "bin" /\ c \in connections
       \/ k = "close" /\ c <= fd
    /\ Write(host[c], k)
    /\ UNCHANGED <<registry, lockVars, timerVars, loopVars, listening, reads, spawned>>

-----------------------------------------------------------------------------
ProcessStep ==
    \/ Ignore \/ Deliver \/ AcceptSend
    \/ Open \/ Opened
    \/ Close \/ Closing \/ Report \/ Signal

TimerStep(c) == TimerExpire(c) \/ TimerClose(c) \/ TimerReport(c) \/ TimerSignal(c)

LoopStep(c) == LoopReceive(c) \/ LoopPing(c) \/ LoopOther(c)

Next ==
    \/ \E a \in Addrs, k \in Kinds : ReadFromUDP(a, k)
    \/ Shutdown
    \/ \E d \in spawned : Lock(d)
    \/ ProcessStep
    \/ MapRace \/ ShortDatagram
    \/ \E c \in Conns : Tick(c) \/ TimerStep(c) \/ LoopStep(c) \/ LoopPanics(c)
    \/ \E c \in Conns, k \in UserKinds : UserWrite(c, k)

Spec == Init /\ [][Next]_vars

\* Every goroutine that can run is run, and time passes for a running timer.
\* Nothing obliges a peer to send, the user to write or Shutdown to happen.
Fairness ==
    /\ WF_vars(\E d \in spawned : Lock(d))
    /\ WF_vars(ProcessStep)
    /\ \A c \in Conns :
        /\ WF_vars(Tick(c))
        /\ WF_vars(TimerStep(c))
        /\ WF_vars(LoopStep(c))

FairSpec == Spec /\ Fairness

-----------------------------------------------------------------------------
(* Safety *)

\* An entry of addrMap leads to a registered connection of that very address,
\* although addConnect and delConnect keep two maps in step by hand and the
\* timer goroutine and process may delete the same connection twice.
AddrMapSound ==
    \A a \in Addrs : addrMap[a] # 0 =>
        /\ addrMap[a] \in connections
        /\ host[addrMap[a]] = a

\* What a connection's handlers see was sent by that connection's peer, also
\* when the FD was closed and its address opened again while the goroutine
\* that read the datagram was waiting for processLock (326-336).
OwnMail ==
    \A c \in Conns :
        /\ \A i \in 1..Len(accept[c]) : accept[c][i].addr = host[c]
        /\ handling[c] # NoDatagram => handling[c].addr = host[c]

\* The goroutines between the delConnect (209) and the OnClose (210) of c.
endedByTimer(c) == timer[c] = "reporting"
endedByPeer(c) == pc = "reporting" /\ target = c

\* The user hears of the end of every session, and not before it is gone: one
\* that is gone unreported has a goroutine about to report it.  The timer's
\* goroutine (356) does not hold processLock, so that the user may see OnOpen of
\* the peer's next session first; after the peer's own Close (388) never.
OnCloseFollowsEnd ==
    \A c \in 1..fd :
        /\ closes[c] > 0 => c \notin connections
        /\ c \notin connections /\ closes[c] = 0 => endedByTimer(c) \/ endedByPeer(c)
        /\ \A d \in 1..fd : d > c /\ host[d] = host[c] /\ closes[c] = 0 =>
               c \in connections \/ endedByTimer(c)

count(b) == IF b THEN 1 ELSE 0

\* How often delConnect was run for c.
ends(c) == closes[c] + count(endedByTimer(c)) + count(endedByPeer(c))

\* As long as no connection is closed twice, every registered connection is
\* the one its peer's datagrams find.  The condition is needed: a Close and an
\* expired timer may both run onClose for one connection (388 and 356), and
\* the later delConnect then takes the address entry (231) from the connection
\* that the peer opened in between, which nothing can reach any more.
ReachableUnlessDoubleClosed ==
    (\A c \in Conns : ends(c) <= 1) =>
        \A c \in connections : addrMap[host[c]] = c

\* The facts that make the invariants above inductive: an FD not given out
\* yet has nothing; a session is registered until its first delConnect; addrMap
\* has the newest session of an address or none; and the holder of processLock
\* works on a connection that was opened, of its own datagram's sender, who has
\* no newer one.
UnbornIsInert ==
    \A c \in Conns : IF c <= fd THEN host[c] \in Addrs ELSE
        /\ c \notin connections /\ closes[c] = 0 /\ host[c] = NoAddr
        /\ ~armed[c] /\ ~tickC[c] /\ timer[c] = "wait"
        /\ accept[c] = <<>> /\ handling[c] = NoDatagram /\ c \notin stopped

LiveUntilEnded == \A c \in 1..fd : c \in connections <=> ends(c) = 0

newest(c, a) == \A d \in 1..fd : host[d] = a => d <= c

NewestInMap == \A a \in Addrs : addrMap[a] # 0 => newest(addrMap[a], a)

HolderKnowsTarget ==
    /\ pc = "idle" <=> cur = NoDatagram
    /\ pc \in {"accept", "opening", "closing", "reporting", "signal"} =>
        target \in 1..fd /\ host[target] = cur.addr /\ newest(target, cur.addr)

\* All of it, the inductive invariant of the proofs.
Inv ==
    /\ TypeOK
    /\ UnbornIsInert
    /\ HolderKnowsTarget
    /\ AddrMapSound
    /\ OwnMail
    /\ LiveUntilEnded
    /\ NewestInMap
    /\ ReachableUnlessDoubleClosed

\* Every FD goes once from unborn to live to gone and keeps its peer.
sessionStatus ==
    [c \in Conns |-> IF c > fd THEN "unborn"
                     ELSE IF c \in connections THEN "live" ELSE "gone"]

S == INSTANCE Sessions WITH
        Peers <- Addrs, NoPeer <- NoAddr, MaxFd <- MaxFd,
        status <- sessionStatus, peer <- host

\* The registry of the server implements the sessions the user is promised,
\* with the double close and the orphaned connections included.
ImplementsSessions == S!Spec

-----------------------------------------------------------------------------
(* Liveness, under FairSpec *)

\* The goroutine that has processLock gives it back: it is not stuck on a full
\* accept channel (336) nor on the send to conn.close (211), although the
\* timer goroutine may send on the same channel first.
LockReleased == pc # "idle" ~> (pc = "idle" \/ crashed)

\* The timer goroutine comes back from onClose, also when the connection was
\* closed by its peer before and the loop has received that close already.
CloserReturns ==
    \A c \in Conns : timer[c] = "signal" ~> (timer[c] = "wait" \/ crashed)

\* A connection whose peer falls silent (the datagrams of a run are finite)
\* leaves the registry, be it reachable through addrMap or not.
SilentPeerExpires ==
    \A c \in Conns : c \in connections ~> (c \notin connections \/ crashed)

=============================================================================
