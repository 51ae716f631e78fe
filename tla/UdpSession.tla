------------------------------ MODULE UdpSession ------------------------------
(***************************************************************************)
(* A client of socket/udp/client and the server of socket/udp/server, with *)
(* the network between them.  UdpDial has the steps of the client and      *)
(* UdpServer those of the server; this module has the datagrams.           *)
(*                                                                         *)
(* The network loses, delays and reorders.  It delivers a datagram to the  *)
(* server once at most: UdpServer by itself takes any datagram of any peer *)
(* at any time, duplicates included, and what is to be seen here is what   *)
(* the client's own behaviour adds to the promises of the server.  To the  *)
(* client it also brings datagrams of others than the server.  That the    *)
(* server is shut down or aborts is, for its client, one more loss of all  *)
(* that follows, and left to UdpServer too.                                *)
(***************************************************************************)
EXTENDS UdpDial, FiniteSets

CONSTANTS
    NoAddr, NoDatagram, UserKinds, MaxReads, MaxFd, AcceptCap,  \* as in UdpServer
    UserClosed,  \* bound: attempts during which the user calls Close
    Strays       \* what others than the server send to the client: "open", "other"

VARIABLES
    \* the variables of UdpServer
    fd, connections, addrMap, host, closes, pc, cur, target, armed, tickC, timer,
    accept, handling, stopped, listening, reads, spawned, sent, crashed,
    \* the client's datagrams that are neither read nor lost
    toServer,
    \* attempts whose first datagram was not the server's (history)
    strays

\* What the client sends: OpenMessage, the Ping of its heartbeat, CloseMessage.
ClientKinds == {"open", "ping", "close"}

Server == INSTANCE UdpServer WITH Addrs <- Gens, Kinds <- ClientKinds

ASSUME SessionAssumption ==
    /\ UserKinds \subseteq {"bin", "close"}
    /\ MaxReads \in Nat \ {0}
    /\ MaxFd \in Nat \ {0}
    /\ AcceptCap \in Nat \ {0}
    /\ NoAddr \notin Gens
    /\ NoDatagram \notin Server!Datagram
    /\ UserClosed \subseteq Gens
    /\ Strays \subseteq {"open", "other"}

\* Mutated: one port for all attempts.
addrOf_Fixed(g) == 1

\* The port is 0, so that every attempt has an address of its own; that the
\* system may give a port out again, much later, is not modelled.
addrOf(g) == g

clientVars == vars
serverVars ==
    <<fd, connections, addrMap, host, closes, pc, cur, target, armed, tickC, timer,
      accept, handling, stopped, listening, reads, spawned, sent, crashed>>
sessionVars == <<clientVars, serverVars, toServer, strays>>

SessionInit == Init /\ Server!Init /\ toServer = {} /\ strays = {}

-----------------------------------------------------------------------------
(* The client *)

Push(k) == toServer' = toServer \cup {[addr |-> addrOf(gen), kind |-> k]}

Quiet == UNCHANGED <<serverVars, toServer, strays>>

\* c.Close() pushes a CloseMessage first, which fails on a closed socket.
PushClose ==
    /\ IF sock[gen] = "open" THEN Push("close") ELSE UNCHANGED toServer
    /\ UNCHANGED <<serverVars, strays>>

SendOpen == PushOpen /\ Push("open") /\ UNCHANGED <<serverVars, strays>>

\* The heartbeat of a connection that is up.
Heartbeat ==
    /\ main = "run"
    /\ sock[gen] = "open"
    /\ Push("ping")
    /\ UNCHANGED <<clientVars, serverVars, strays>>

ConnectStep ==
    \/ SendOpen
    \/ (Listen \/ PushFails \/ Arm \/ ReadAck \/ ReadWrong \/ ReadFails \/ Connected) /\ Quiet
    \/ RunEnds /\ PushClose

TimerStep(g) ==
    \/ TickFires(g) /\ Quiet
    \/ TickCloses(g) /\ PushClose

UserCloses == gen \in UserClosed /\ Close /\ PushClose

\* A datagram that the server wrote to the client is the first to arrive.
Receive ==
    /\ \E d \in sent :
        /\ gen # 0 /\ d.to = addrOf(gen)
        /\ Arrive(IF d.kind = "open" THEN "open" ELSE "other")
    /\ Quiet

\* Bound: MaxReads counts what others send to the client, too.
moreToCome == reads + Cardinality(strays) < MaxReads

\* The socket is bound, not connected: any sender's datagram will do.
ReceiveStray(a) ==
    /\ moreToCome
    /\ Arrive(a)
    /\ strays' = strays \cup {gen}
    /\ UNCHANGED <<serverVars, toServer>>

-----------------------------------------------------------------------------
(* The server *)

ServerReads ==
    /\ moreToCome
    /\ \E d \in toServer :
        /\ Server!ReadFromUDP(d.addr, d.kind)
        /\ toServer' = toServer \ {d}
    /\ UNCHANGED <<clientVars, strays>>

ServerWorks ==
    /\ \/ \E d \in spawned : Server!Lock(d)
       \/ Server!ProcessStep
       \/ \E c \in Server!Conns : Server!Tick(c) \/ Server!TimerStep(c) \/ Server!LoopStep(c)
       \/ \E c \in Server!Conns, k \in UserKinds : Server!UserWrite(c, k)
    /\ UNCHANGED <<clientVars, toServer, strays>>

-----------------------------------------------------------------------------
SessionNext ==
    \/ ConnectStep \/ Heartbeat \/ UserCloses
    \/ Receive \/ \E a \in Strays : ReceiveStray(a)
    \/ \E g \in Gens : TimerStep(g)
    \/ ServerReads \/ ServerWorks

SessionSpec == SessionInit /\ [][SessionNext]_sessionVars

\* Connect goes on where it does not wait for the server, and timers fire.  The
\* server and the network owe nothing.
FairSession ==
    /\ SessionSpec
    /\ WF_sessionVars(ConnectStep)
    /\ \A g \in Gens : WF_sessionVars(TimerStep(g))

-----------------------------------------------------------------------------
(* Properties *)

\* A client that has read its acknowledgement (226) has a session: the server
\* registered its address, and OnOpen has returned (377-379), before the client
\* calls its own OnOpen (312).  The client does not look at the sender (219): an
\* Open that is not the server's is as good.
ConnectedWasOpened ==
    main \in {"stop", "run"} /\ gen \notin strays =>
        \E c \in 1..fd : host[c] = addrOf(gen) /\ ~(pc = "opening" /\ target = c)

\* Every registered session is the one its peer's datagrams find.  The server
\* alone does not keep this, as a Close (388) and an expired timer (356) may
\* both close one session, and the later of them takes the entry of the session
\* opened in between; what keeps it is that the client never opens a second
\* session from one address (195), with no duplicate of its Open (205).
AlwaysReachable == \A c \in connections : addrMap[host[c]] = c

\* The server registers a connection before it acknowledges it (377-379), so
\* that the client may see another datagram first and give up (226).  That is
\* what the user wrote to the connection so early, or the Close of a session
\* that the server's timer has ended before the client knew of it.  It is never
\* a Pong: an attempt pings when it has read its acknowledgement, through a
\* socket that no other attempt has (195).  Datagrams of other senders aside.
WrongOnlyAfterExpiry ==
    \A g \in Gens \ strays :
        outcome[g] = "wrong" /\ [to |-> addrOf(g), kind |-> "bin"] \notin sent =>
            \/ \E c \in 1..fd :
                  host[c] = addrOf(g) /\ (c \notin connections \/ timer[c] = "expired")
            \/ "close" \in UserKinds /\ [to |-> addrOf(g), kind |-> "close"] \in sent
=============================================================================
