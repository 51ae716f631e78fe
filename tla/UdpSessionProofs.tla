--------------------------- MODULE UdpSessionProofs ---------------------------
(***************************************************************************)
(* Proofs about UdpSession: the UDP client and server with the network     *)
(* between them, for any number of attempts, datagrams and connections.    *)
(***************************************************************************)
EXTENDS UdpSession, SequenceTheorems, TLAPS

-----------------------------------------------------------------------------
(* The inductive invariant *)

\* The timer of an attempt is made when its handshake is read; if it runs or has
\* fired, the handshake goes on or has ended without it.
TicksSound ==
    \A g \in Gens :
        /\ g > gen \/ (g = gen /\ main \in {"push", "arm"}) => tick[g] = "none"
        /\ tick[g] \in {"armed", "fired"} =>
               \/ gen = g /\ main \in {"read", "stop"}
               \/ outcome[g] \in {"wrong", "readError"}
               \/ outcome[g] = "raced" /\ tick[g] = "fired"

DialSound ==
    /\ LeaksOnlyUnclosedFailures
    /\ TicksSound
    /\ main \in {"stop", "run"} => answer[gen] = "open"

DialInv == TypeOK /\ DialSound

Messages == [addr : Gens, kind : ClientKinds]

\* What the steps of the server and the network need to know of its variables.
SessionTypes ==
    /\ fd \in 0..MaxFd
    /\ connections \subseteq 1..fd
    /\ addrMap \in [Gens -> 0..MaxFd]
    /\ host \in [Server!Conns -> Gens \cup {NoAddr}]
    /\ \A c \in Server!Conns : host[c] \in Gens <=> c <= fd
    /\ reads \in 0..MaxReads
    /\ toServer \subseteq Messages
    /\ spawned \subseteq Server!Datagram
    /\ pc = "lookup" => cur \in Server!Datagram
    /\ pc \in {"opening", "closing"} => target \in 1..fd

\* OnOpen has returned for a connection of the address.
opened(a) == \E c \in 1..fd : host[c] = a /\ ~(pc = "opening" /\ target = c)

\* What was acknowledged was opened.
AckMeansOpened ==
    /\ \A d \in sent : d.kind = "open" => opened(d.to)
    /\ \A g \in Gens \ strays : answer[g] = "open" => opened(g)

\* Where the Open of an address may be: still to be sent, on its way, with a
\* goroutine that waits for processLock, or with the one that has it.
unsent(g) == g > gen \/ (g = gen /\ main = "push")
travels(g) == [addr |-> g, kind |-> "open"] \in toServer
isOpenOf(d, g) == d.addr = g /\ d.kind = "open"
waits(g) == \E d \in spawned : isOpenOf(d, g)
held(g) == pc = "lookup" /\ isOpenOf(cur, g)
registered(g) == \E c \in 1..fd : host[c] = g

\* There is one Open of an address, and one connection in its place later.
onePlace(g) ==
    /\ unsent(g) => ~travels(g) /\ ~waits(g) /\ ~held(g) /\ ~registered(g)
    /\ travels(g) => ~waits(g) /\ ~held(g) /\ ~registered(g)
    /\ waits(g) => ~held(g) /\ ~registered(g)
    /\ held(g) => ~registered(g)

OneOpen ==
    /\ \A g \in Gens : onePlace(g)
    /\ \A d, e \in spawned : isOpenOf(d, e.addr) /\ e.kind = "open" => d = e
    /\ \A c, b \in 1..fd : host[c] = host[b] => c = b

\* All of it.
SessionInv ==
    /\ DialInv
    /\ SessionTypes
    /\ AckMeansOpened
    /\ OneOpen
    /\ AlwaysReachable

-----------------------------------------------------------------------------
(* The client: sockets, timers and the answer *)

\* Every step keeps the types of the client's variables.
LEMMA DialTypes == DialInv /\ [SessionNext]_sessionVars => TypeOK'
<1> SUFFICES ASSUME DialInv, [SessionNext]_sessionVars PROVE TypeOK'
  OBVIOUS
<1> USE ConstantsAssumption DEF Gens
<1>1. TypeOK
  BY DEF DialInv
<1>2. CASE Listen
  BY <1>1, <1>2 DEF TypeOK, Listen
<1>3. CASE PushOpen \/ ReadAck
  BY <1>1, <1>3 DEF TypeOK, PushOpen, ReadAck
<1>4. CASE PushFails \/ ReadWrong \/ ReadFails
  BY <1>1, <1>4 DEF TypeOK, PushFails, ReadWrong, ReadFails, giveUp
<1>5. CASE Arm
  BY <1>1, <1>5 DEF TypeOK, Arm, AfterFunc
<1>6. CASE Connected
  BY <1>1, <1>6 DEF TypeOK, Connected, Stop
<1>7. CASE RunEnds
  BY <1>1, <1>7 DEF TypeOK, RunEnds, closeConn
<1>8. ASSUME NEW a \in {"open", "other"}, Arrive(a) PROVE TypeOK'
  BY <1>1, <1>8 DEF TypeOK, Arrive
<1>9. ASSUME NEW g \in Gens, TickFires(g) \/ TickCloses(g) PROVE TypeOK'
  <2>1. CASE TickFires(g)
    <3>1. tick' \in [Gens -> {"none", "armed", "stopped", "fired", "over"}]
      BY <1>1, <2>1 DEF TypeOK, TickFires
    <3>2. \A h \in Gens : tick[h] # "none" => tick'[h] # "none"
      BY <1>1, <2>1 DEF TypeOK, TickFires
    <3> QED
      BY <1>1, <2>1, <3>1, <3>2 DEF TypeOK, TickFires
  <2>2. CASE TickCloses(g)
    <3>1. tick' \in [Gens -> {"none", "armed", "stopped", "fired", "over"}]
      BY <1>1, <2>2 DEF TypeOK, TickCloses
    <3>2. sock' \in [Gens -> {"none", "open", "closed"}]
      BY <1>1, <2>2 DEF TypeOK, TickCloses, closeConn
    <3>3. \A h \in Gens : tick[h] # "none" => tick'[h] # "none"
      BY <1>1, <2>2 DEF TypeOK, TickCloses
    <3> QED
      BY <1>1, <2>2, <3>1, <3>2, <3>3 DEF TypeOK, TickCloses
  <2> QED
    BY <1>9, <2>1, <2>2
<1>10. CASE Close
  BY <1>1, <1>10 DEF TypeOK, Close
<1>11. CASE UNCHANGED clientVars
  BY <1>1, <1>11 DEF TypeOK, clientVars, vars
<1> QED
  BY <1>2, <1>3, <1>4, <1>5, <1>6, <1>7, <1>8, <1>9, <1>10, <1>11, SessionAssumption
     DEF SessionNext, ConnectStep, SendOpen, Heartbeat, UserCloses, Receive, ReceiveStray,
         TimerStep, ServerReads, ServerWorks, sessionVars, clientVars, vars

\* An attempt that ends closes its socket or leaves its timer running, and the
\* outcome says which.
LEMMA DialStep == DialInv /\ [SessionNext]_sessionVars => DialInv'
<1> SUFFICES ASSUME DialInv, [SessionNext]_sessionVars PROVE DialSound'
  BY DialTypes DEF DialInv
<1> USE ConstantsAssumption DEF Gens
<1>1. TypeOK /\ TypeOK' /\ DialSound
  BY DialTypes DEF DialInv
<1>2. CASE Listen
  BY <1>1, <1>2
     DEF TypeOK, DialSound, LeaksOnlyUnclosedFailures, TicksSound, Listen
<1>3. CASE PushOpen \/ ReadAck
  BY <1>1, <1>3
     DEF TypeOK, DialSound, LeaksOnlyUnclosedFailures, TicksSound, PushOpen, ReadAck, isAck
<1>4. CASE PushFails \/ ReadWrong \/ ReadFails
  BY <1>1, <1>4
     DEF TypeOK, DialSound, LeaksOnlyUnclosedFailures, TicksSound,
         PushFails, ReadWrong, ReadFails, giveUp
<1>5. CASE Arm
  BY <1>1, <1>5
     DEF TypeOK, DialSound, LeaksOnlyUnclosedFailures, TicksSound, Arm, AfterFunc
<1>6. CASE Connected
  BY <1>1, <1>6
     DEF TypeOK, DialSound, LeaksOnlyUnclosedFailures, TicksSound, Connected, Stop
<1>7. CASE RunEnds
  BY <1>1, <1>7
     DEF TypeOK, DialSound, LeaksOnlyUnclosedFailures, TicksSound, RunEnds, closeConn
<1>8. ASSUME NEW a \in {"open", "other"}, Arrive(a) PROVE DialSound'
  BY <1>1, <1>8
     DEF TypeOK, DialSound, LeaksOnlyUnclosedFailures, TicksSound, Arrive
<1>9. ASSUME NEW g \in Gens, TickFires(g) \/ TickCloses(g) PROVE DialSound'
  BY <1>1, <1>9
     DEF TypeOK, DialSound, LeaksOnlyUnclosedFailures, TicksSound,
         TickFires, TickCloses, closeConn
<1>10. CASE Close
  BY <1>1, <1>10
     DEF TypeOK, DialSound, LeaksOnlyUnclosedFailures, TicksSound, Close
<1>11. CASE UNCHANGED clientVars
  BY <1>1, <1>11
     DEF TypeOK, DialSound, LeaksOnlyUnclosedFailures, TicksSound, clientVars, vars
<1> QED
  BY <1>2, <1>3, <1>4, <1>5, <1>6, <1>7, <1>8, <1>9, <1>10, <1>11, SessionAssumption
     DEF SessionNext, ConnectStep, SendOpen, Heartbeat, UserCloses, Receive, ReceiveStray,
         TimerStep, ServerReads, ServerWorks, sessionVars, clientVars, vars

-----------------------------------------------------------------------------
(* The server's steps, by what the invariant sees of them *)

\* The goroutine with processLock keeps it, gives it back, or works on a
\* connection that it has found.
LockMoves ==
    \/ UNCHANGED <<pc, cur, target>>
    \/ pc' \in {"idle", "accept", "reporting", "signal"}
    \/ pc' = "closing" /\ target' \in connections

NoNewAck == \A d \in sent' : d.kind = "open" => d \in sent

\* Neither takes a datagram up nor opens nor acknowledges.
Calm ==
    /\ UNCHANGED <<reads, spawned>>
    /\ LockMoves
    /\ NoNewAck
    /\ \/ UNCHANGED <<fd, connections, addrMap, host>>
       \/ \E c \in Server!Conns : Server!delConnect(c)

\* What the server writes besides acknowledgements is none.
LEMMA WritesAreNoAcks ==
    ASSUME NEW a, NEW k \in {"bin", "pong", "close"}, Server!Write(a, k)
    PROVE  NoNewAck
  BY DEF Server!Write, NoNewAck

\* Every step of the server takes a datagram up, opens, acknowledges, or is calm.
LEMMA ServerCases ==
    ASSUME SessionTypes, ServerWorks
    PROVE  \/ \E d \in spawned : Server!Lock(d)
           \/ Server!Open \/ Server!Opened
           \/ Calm
<1> SUFFICES ASSUME ~(\E d \in spawned : Server!Lock(d)), ~Server!Open, ~Server!Opened
             PROVE  Calm
  OBVIOUS
<1>1. CASE Server!Ignore \/ Server!AcceptSend \/ Server!Report \/ Server!Signal
  BY <1>1 DEF Calm, LockMoves, NoNewAck, Server!Ignore, Server!AcceptSend, Server!Report,
         Server!Signal, Server!Unlock, Server!registry, Server!netVars
<1>2. CASE Server!Deliver \/ Server!Close
  BY <1>2 DEF Calm, LockMoves, NoNewAck, Server!Deliver, Server!Close, Server!found,
         Server!connOf, Server!registry, Server!netVars
<1>3. CASE Server!Closing
  <2>1. target \in Server!Conns
    BY <1>3, SessionAssumption DEF SessionTypes, Server!Closing, Server!Conns
  <2>2. Server!delConnect(target)
    BY <1>3 DEF Server!Closing
  <2>3. pc' = "reporting" /\ NoNewAck /\ UNCHANGED <<reads, spawned>>
    BY <1>3 DEF NoNewAck, Server!Closing, Server!netVars
  <2> QED
    BY <2>1, <2>2, <2>3 DEF Calm, LockMoves
<1>4. ASSUME NEW c \in Server!Conns,
             Server!Tick(c) \/ Server!TimerReport(c) \/ Server!TimerSignal(c)
      PROVE Calm
  BY <1>4 DEF Calm, LockMoves, NoNewAck, Server!Tick, Server!TimerReport, Server!TimerSignal,
         Server!registry, Server!lockVars, Server!netVars
<1>5. ASSUME NEW c \in Server!Conns, Server!LoopReceive(c) \/ Server!LoopOther(c)
      PROVE Calm
  BY <1>5 DEF Calm, LockMoves, NoNewAck, Server!LoopReceive, Server!LoopOther,
         Server!registry, Server!lockVars, Server!netVars
<1>6. ASSUME NEW c \in Server!Conns, Server!TimerClose(c) PROVE Calm
  BY <1>6 DEF Calm, LockMoves, NoNewAck, Server!TimerClose, Server!lockVars, Server!netVars
<1>7. ASSUME NEW c \in Server!Conns, Server!TimerExpire(c) PROVE Calm
  <2>1. NoNewAck
    BY <1>7, WritesAreNoAcks DEF Server!TimerExpire
  <2> QED
    BY <1>7, <2>1 DEF Calm, LockMoves, Server!TimerExpire, Server!registry, Server!lockVars
<1>8. ASSUME NEW c \in Server!Conns, Server!LoopPing(c) PROVE Calm
  <2>1. NoNewAck
    <3>1. CASE Server!Write(host[c], "pong")
      BY <3>1, WritesAreNoAcks
    <3>2. CASE UNCHANGED sent
      BY <3>2 DEF NoNewAck
    <3> QED
      BY <1>8, <3>1, <3>2 DEF Server!LoopPing
  <2> QED
    BY <1>8, <2>1 DEF Calm, LockMoves, Server!LoopPing, Server!registry, Server!lockVars
<1>9. ASSUME NEW c \in Server!Conns, NEW k \in UserKinds, Server!UserWrite(c, k)
      PROVE Calm
  <2>1. NoNewAck
    BY <1>9, WritesAreNoAcks, SessionAssumption DEF Server!UserWrite
  <2> QED
    BY <1>9, <2>1 DEF Calm, LockMoves, Server!UserWrite, Server!registry, Server!lockVars
<1> QED
  BY <1>1, <1>2, <1>3, <1>4, <1>5, <1>6, <1>7, <1>8, <1>9
     DEF ServerWorks, Server!ProcessStep, Server!TimerStep, Server!LoopStep

-----------------------------------------------------------------------------
(* The client's steps, by what the server's part of the invariant sees *)

\* The client stays with its attempt and sends no Open.
Steady ==
    /\ UNCHANGED gen
    /\ main' = main \/ main' # "push"
    /\ \A m \in toServer' : m \in toServer \/ (m \in Messages /\ m.kind # "open")

\* The client, its network and the timers leave the server's variables alone.
ClientMoves == UNCHANGED serverVars /\ ((Listen /\ Quiet) \/ SendOpen \/ Steady)

\* What Push adds.
LEMMA PushIsSteady ==
    ASSUME DialInv, NEW k \in {"ping", "close"}, gen # 0, Push(k)
    PROVE  \A m \in toServer' : m \in toServer \/ (m \in Messages /\ m.kind # "open")
  BY ConstantsAssumption
     DEF DialInv, TypeOK, Push, addrOf, Messages, ClientKinds, Gens

\* A step that is not the server's begins an attempt, sends its Open, or is steady.
LEMMA ClientCases ==
    ASSUME DialInv,
           \/ ConnectStep \/ Heartbeat \/ UserCloses
           \/ Receive \/ \E a \in Strays : ReceiveStray(a)
           \/ \E g \in Gens : TimerStep(g)
    PROVE  ClientMoves
<1>1. TypeOK /\ TicksSound
  BY DEF DialInv, DialSound
<1>2. CASE SendOpen
  BY <1>2 DEF ClientMoves, SendOpen
<1>3. CASE Listen /\ Quiet
  BY <1>3 DEF ClientMoves, Quiet
<1>4. CASE (PushFails \/ Arm \/ ReadAck \/ ReadWrong \/ ReadFails \/ Connected) /\ Quiet
  BY <1>4 DEF ClientMoves, Steady, Quiet, PushFails, Arm, ReadAck, ReadWrong, ReadFails,
         Connected, giveUp
<1>5. CASE Receive
  BY <1>5 DEF ClientMoves, Steady, Receive, Arrive, Quiet
<1>11. ASSUME NEW a \in Strays, ReceiveStray(a) PROVE ClientMoves
  BY <1>11 DEF ClientMoves, Steady, ReceiveStray, Arrive
<1>6. CASE Heartbeat
  <2>1. gen # 0 /\ Push("ping") /\ UNCHANGED <<clientVars, serverVars>>
    BY <1>1, <1>6 DEF Heartbeat, TypeOK
  <2> QED
    BY <2>1, PushIsSteady DEF ClientMoves, Steady, clientVars, vars
<1>7. ASSUME gen # 0, PushClose, UNCHANGED gen, main' = main \/ main' # "push"
      PROVE  ClientMoves
  <2>1. CASE Push("close")
    BY <1>7, <2>1, PushIsSteady DEF ClientMoves, Steady, PushClose
  <2>2. CASE UNCHANGED toServer
    BY <1>7, <2>2 DEF ClientMoves, Steady, PushClose
  <2> QED
    BY <1>7, <2>1, <2>2 DEF PushClose
<1>8. CASE RunEnds /\ PushClose
  BY <1>1, <1>7, <1>8 DEF RunEnds, TypeOK
<1>9. CASE UserCloses
  BY <1>7, <1>9 DEF UserCloses, Close
<1>10. ASSUME NEW g \in Gens, TimerStep(g) PROVE ClientMoves
  <2>1. CASE TickFires(g) /\ Quiet
    BY <2>1 DEF ClientMoves, Steady, TickFires, Quiet
  <2>2. CASE TickCloses(g) /\ PushClose
    <3>1. gen # 0
      BY <1>1, <2>2, ConstantsAssumption DEF TickCloses, TicksSound, TypeOK, Gens
    <3> QED
      BY <1>7, <2>2, <3>1 DEF TickCloses
  <2> QED
    BY <1>10, <2>1, <2>2 DEF TimerStep
<1> QED
  BY <1>2, <1>3, <1>4, <1>5, <1>6, <1>8, <1>9, <1>10, <1>11 DEF ConnectStep

\* Every step, by what the rest of the invariant sees of it.
LEMMA SessionCases ==
    ASSUME DialInv, SessionTypes, [SessionNext]_sessionVars
    PROVE  \/ ClientMoves
           \/ ServerReads
           \/ /\ UNCHANGED <<main, gen, toServer>>
              /\ \/ \E d \in spawned : Server!Lock(d)
                 \/ Server!Open \/ Server!Opened
                 \/ Calm
<1>1. CASE UNCHANGED sessionVars
  BY <1>1 DEF sessionVars, clientVars, vars, ClientMoves, Steady
<1>2. CASE ServerWorks
  <2>1. UNCHANGED <<main, gen, toServer>>
    BY <1>2 DEF ServerWorks, clientVars, vars
  <2> QED
    BY <1>2, <2>1, ServerCases
<1> QED
  BY <1>1, <1>2, ClientCases DEF SessionNext

-----------------------------------------------------------------------------
(* The parts of the invariant, step by step *)

\* What a datagram is after the read loop has numbered it.
LEMMA NumberedIsDatagram ==
    ASSUME SessionTypes, NEW d \in toServer, Server!ReadFromUDP(d.addr, d.kind)
    PROVE  /\ spawned' = spawned \cup {[id |-> reads + 1, addr |-> d.addr, kind |-> d.kind]}
           /\ spawned' \subseteq Server!Datagram
           /\ reads' \in 0..MaxReads
<1>1. d.addr \in Gens /\ d.kind \in ClientKinds
  BY DEF SessionTypes, Messages
<1>2. reads + 1 \in 1..MaxReads /\ reads' = reads + 1
  BY SessionAssumption DEF SessionTypes, Server!ReadFromUDP
<1> QED
  BY <1>1, <1>2, SessionAssumption
     DEF SessionTypes, Server!ReadFromUDP, Server!Datagram

\* A function keeps its type when one of its values is replaced.
LEMMA ExceptType ==
    ASSUME NEW D, NEW R, NEW f \in [D -> R], NEW x, NEW v \in R
    PROVE  [f EXCEPT ![x] = v] \in [D -> R]
  OBVIOUS

\* Types.
LEMMA TypesStep == DialInv /\ SessionTypes /\ [SessionNext]_sessionVars => SessionTypes'
<1> SUFFICES ASSUME DialInv, SessionTypes, [SessionNext]_sessionVars PROVE SessionTypes'
  OBVIOUS
<1> USE SessionAssumption DEF SessionTypes
<1>1. CASE ClientMoves
  <2>1. toServer' \subseteq Messages
    <3>1. CASE Listen /\ Quiet
      BY <3>1 DEF Quiet
    <3>2. CASE SendOpen
      BY <3>2, ConstantsAssumption
         DEF SendOpen, PushOpen, Push, addrOf, Messages, ClientKinds, DialInv, TypeOK, Gens
    <3>3. CASE Steady
      BY <3>3 DEF Steady
    <3> QED
      BY <1>1, <3>1, <3>2, <3>3 DEF ClientMoves
  <2> QED
    BY <1>1, <2>1 DEF ClientMoves, serverVars, Server!Conns
<1>2. CASE ServerReads
  BY <1>2, NumberedIsDatagram
     DEF ServerReads, Server!ReadFromUDP, Server!registry, Server!lockVars, Server!Conns
<1>3. ASSUME NEW d \in spawned, Server!Lock(d), UNCHANGED toServer PROVE SessionTypes'
  BY <1>3 DEF Server!Lock, Server!registry, Server!Conns
<1>4. CASE Server!Open /\ UNCHANGED toServer
  <2>1. fd + 1 \in Server!Conns /\ cur.addr \in Gens
    BY <1>4 DEF Server!Open, Server!Conns, Server!Datagram
  <2>2. fd' = fd + 1 /\ host' = [host EXCEPT ![fd + 1] = cur.addr]
        /\ addrMap' = [addrMap EXCEPT ![cur.addr] = fd + 1]
        /\ connections' = connections \cup {fd + 1} /\ target' = fd + 1 /\ pc' = "opening"
        /\ UNCHANGED <<reads, spawned>>
    BY <1>4 DEF Server!Open, Server!addConnect, Server!netVars
  <2>3. \A c \in Server!Conns : host'[c] \in Gens <=> c <= fd'
    BY <2>1, <2>2 DEF Server!Conns
  <2>4. fd' \in 0..MaxFd /\ connections' \subseteq 1..fd' /\ target' \in 1..fd'
    BY <2>1, <2>2 DEF Server!Conns
  <2>5. addrMap' \in [Gens -> 0..MaxFd]
    BY <2>1, <2>2 DEF Server!Conns
  <2>6. host' \in [Server!Conns -> Gens \cup {NoAddr}]
    BY <2>1, <2>2
  <2>7. UNCHANGED Server!Conns
    BY DEF Server!Conns
  <2> QED
    BY <1>4, <2>2, <2>3, <2>4, <2>5, <2>6, <2>7
<1>5. CASE Server!Opened /\ UNCHANGED toServer
  BY <1>5 DEF Server!Opened, Server!Unlock, Server!registry, Server!Conns
<1>6. CASE Calm /\ UNCHANGED toServer
  <2>1. pc' = "lookup" => cur' \in Server!Datagram
    BY <1>6 DEF Calm, LockMoves
  <2>2. pc' \in {"opening", "closing"} => target' \in 1..fd
    BY <1>6 DEF Calm, LockMoves
  <2>3. CASE UNCHANGED <<fd, connections, addrMap, host>>
    BY <1>6, <2>1, <2>2, <2>3 DEF Calm, Server!Conns
  <2>4. ASSUME NEW c \in Server!Conns, Server!delConnect(c) PROVE SessionTypes'
    <3>1. addrMap' \in [Gens -> 0..MaxFd]
      <4>1. 0 \in 0..MaxFd /\ addrMap' = [addrMap EXCEPT ![host[c]] = 0]
        BY <2>4 DEF Server!delConnect
      <4> QED
        BY <4>1, ExceptType
    <3>2. connections' \subseteq 1..fd
      BY <2>4 DEF Server!delConnect
    <3> QED
      BY <1>6, <2>1, <2>2, <2>4, <3>1, <3>2 DEF Calm, Server!delConnect, Server!Conns
  <2> QED
    BY <1>6, <2>3, <2>4 DEF Calm
<1> QED
  BY <1>1, <1>2, <1>3, <1>4, <1>5, <1>6, SessionCases

\* A connection that was opened stays so: FDs keep their host.
LEMMA OpenedStays ==
    ASSUME DialInv, SessionTypes, [SessionNext]_sessionVars, NEW a, opened(a)
    PROVE  opened(a)'
<1>1. PICK c \in 1..fd : host[c] = a /\ ~(pc = "opening" /\ target = c)
  BY DEF opened
<1> SUFFICES c \in 1..fd' /\ host'[c] = a /\ ~(pc' = "opening" /\ target' = c)
  BY DEF opened
<1> USE <1>1, SessionAssumption DEF SessionTypes
<1>2. CASE ClientMoves
  BY <1>2 DEF ClientMoves, serverVars
<1>3. CASE ServerReads
  BY <1>3 DEF ServerReads, Server!ReadFromUDP, Server!registry, Server!lockVars
<1>4. ASSUME NEW d \in spawned, Server!Lock(d)
      PROVE  c \in 1..fd' /\ host'[c] = a /\ ~(pc' = "opening" /\ target' = c)
  BY <1>4 DEF Server!Lock, Server!registry
<1>5. CASE Server!Open
  <2>1. fd' = fd + 1 /\ target' = fd + 1 /\ host' = [host EXCEPT ![fd + 1] = cur.addr]
    BY <1>5 DEF Server!Open, Server!addConnect
  <2>2. c \in Server!Conns /\ c # fd + 1
    BY DEF Server!Conns
  <2> QED
    BY <2>1, <2>2
<1>6. CASE Server!Opened
  BY <1>6 DEF Server!Opened, Server!Unlock, Server!registry
<1>7. CASE Calm
  <2>1. UNCHANGED <<fd, host>>
    BY <1>7 DEF Calm, Server!delConnect
  <2>2. pc' = "opening" => UNCHANGED <<pc, target>>
    BY <1>7 DEF Calm, LockMoves
  <2> QED
    BY <2>1, <2>2
<1> QED
  BY <1>2, <1>3, <1>4, <1>5, <1>6, <1>7, SessionCases

\* The client reads an acknowledgement only if the server wrote one.
LEMMA AnswersCome ==
    ASSUME DialInv, [SessionNext]_sessionVars, NEW g \in Gens \ strays', answer'[g] = "open"
    PROVE  /\ g \notin strays
           /\ answer[g] = "open" \/ \E d \in sent : d.kind = "open" /\ d.to = g
<1>3. strays \subseteq strays'
  BY DEF SessionNext, ConnectStep, SendOpen, Heartbeat, UserCloses, Receive, ReceiveStray,
         TimerStep, ServerReads, ServerWorks, Quiet, PushClose, sessionVars
<1>4. ASSUME NEW a \in Strays, ReceiveStray(a) PROVE answer'[g] = answer[g]
  <2>1. strays' = strays \cup {gen} /\ answer' = [answer EXCEPT ![gen] = a]
    BY <1>4 DEF ReceiveStray, Arrive
  <2>2. answer \in [Gens -> {"none", "open", "other"}]
    BY DEF DialInv, TypeOK
  <2>3. g # gen
    BY <2>1
  <2> QED
    BY <2>1, <2>2, <2>3
<1>1. CASE UNCHANGED answer
  BY <1>1, <1>3
<1>2. ASSUME NEW d \in sent, d.to = addrOf(gen),
             Arrive(IF d.kind = "open" THEN "open" ELSE "other")
      PROVE  answer[g] = "open" \/ (d.kind = "open" /\ d.to = g)
  BY <1>2 DEF Arrive, addrOf, DialInv, TypeOK
<1> QED
  BY <1>1, <1>2, <1>3, <1>4
     DEF SessionNext, ConnectStep, SendOpen, Heartbeat, UserCloses, Receive, TimerStep,
         ServerReads, ServerWorks, sessionVars, clientVars, vars, Listen, PushOpen,
         PushFails, ReadAck, ReadWrong, ReadFails, Arm, Connected, RunEnds, giveUp,
         TickFires, TickCloses, Close

\* The server writes an acknowledgement only with OnOpen behind it (377-379).
LEMMA AcksStep ==
    DialInv /\ SessionTypes /\ AckMeansOpened /\ [SessionNext]_sessionVars => AckMeansOpened'
<1> SUFFICES ASSUME DialInv, SessionTypes, AckMeansOpened, [SessionNext]_sessionVars
             PROVE  AckMeansOpened'
  OBVIOUS
<1>1. ASSUME NEW a, opened(a) PROVE opened(a)'
  BY <1>1, OpenedStays
<1>2. ASSUME NEW g \in Gens \ strays', answer'[g] = "open" PROVE opened(g)'
  BY <1>1, <1>2, AnswersCome DEF AckMeansOpened
<1>3. ASSUME NEW d \in sent', d.kind = "open" PROVE d \in sent \/ opened(d.to)'
  <2>1. CASE ClientMoves
    BY <1>3, <2>1 DEF ClientMoves, serverVars
  <2>2. CASE ServerReads
    BY <1>3, <2>2 DEF ServerReads, Server!ReadFromUDP
  <2>3. CASE Calm
    BY <1>3, <2>3 DEF Calm, NoNewAck
  <2>4. ASSUME NEW e \in spawned, Server!Lock(e) PROVE d \in sent
    BY <1>3, <2>4 DEF Server!Lock
  <2>5. CASE Server!Open
    BY <1>3, <2>5 DEF Server!Open, Server!netVars
  <2>6. CASE Server!Opened
    <3>1. d \in sent \/ d.to = host[target]
      BY <1>3, <2>6 DEF Server!Opened, Server!Write
    <3>2. target \in 1..fd' /\ host'[target] = host[target] /\ pc' = "idle"
      BY <2>6 DEF SessionTypes, Server!Opened, Server!Unlock, Server!registry
    <3> QED
      BY <3>1, <3>2 DEF opened
  <2> QED
    BY <2>1, <2>2, <2>3, <2>4, <2>5, <2>6, SessionCases
<1>4. ASSUME NEW d \in sent', d.kind = "open" PROVE opened(d.to)'
  BY <1>1, <1>3, <1>4 DEF AckMeansOpened
<1> QED
  BY <1>2, <1>4 DEF AckMeansOpened

\* Where the Open of an address is moves on from place to place.
LEMMA PlaceStep ==
    ASSUME DialInv, SessionTypes, OneOpen, [SessionNext]_sessionVars, NEW g \in Gens
    PROVE  onePlace(g)'
<1> USE DEF onePlace, unsent, travels, waits, held, registered
<1>1. onePlace(g)
  BY DEF OneOpen
<1>2. CASE ClientMoves
  <2>1. waits(g)' = waits(g) /\ held(g)' = held(g) /\ registered(g)' = registered(g)
    BY <1>2 DEF ClientMoves, serverVars
  <2>2. CASE Listen /\ Quiet
    <3>1. (unsent(g)' => unsent(g)) /\ travels(g)' = travels(g)
      BY <2>2, ConstantsAssumption DEF Listen, Quiet, DialInv, TypeOK, Gens
    <3> QED
      BY <1>1, <2>1, <3>1
  <2>3. CASE SendOpen
    <3>1. /\ unsent(g)' => unsent(g) /\ g # gen
          /\ travels(g)' => travels(g) \/ (g = gen /\ unsent(g))
      BY <2>3, ConstantsAssumption
         DEF SendOpen, PushOpen, Push, addrOf, DialInv, TypeOK, Gens
    <3> QED
      BY <1>1, <2>1, <3>1
  <2>4. CASE Steady
    <3>1. (unsent(g)' => unsent(g)) /\ (travels(g)' => travels(g))
      BY <2>4 DEF Steady
    <3> QED
      BY <1>1, <2>1, <3>1
  <2> QED
    BY <1>2, <2>2, <2>3, <2>4 DEF ClientMoves
<1>3. CASE ServerReads
  <2>1. PICK d \in toServer : Server!ReadFromUDP(d.addr, d.kind) /\ toServer' = toServer \ {d}
    BY <1>3 DEF ServerReads
  <2>2. unsent(g)' = unsent(g) /\ held(g)' = held(g) /\ registered(g)' = registered(g)
    BY <1>3, <2>1 DEF ServerReads, clientVars, vars, Server!ReadFromUDP, Server!registry,
           Server!lockVars
  <2>3. travels(g)' => travels(g)
    BY <2>1
  <2>4. waits(g)' => waits(g) \/ (d.addr = g /\ d.kind = "open")
    BY <2>1, NumberedIsDatagram DEF isOpenOf
  <2>5. d.addr = g /\ d.kind = "open" => travels(g) /\ ~travels(g)'
    BY <2>1 DEF SessionTypes, Messages
  <2> QED
    BY <1>1, <2>2, <2>3, <2>4, <2>5
<1>4. ASSUME NEW d \in spawned, Server!Lock(d), UNCHANGED <<main, gen, toServer>>
      PROVE  onePlace(g)'
  <2>1. unsent(g)' = unsent(g) /\ travels(g)' = travels(g) /\ registered(g)' = registered(g)
    BY <1>4 DEF Server!Lock, Server!registry
  <2>2. (waits(g)' => waits(g)) /\ (held(g)' => isOpenOf(d, g))
    BY <1>4 DEF Server!Lock, isOpenOf
  <2>3. isOpenOf(d, g) => waits(g) /\ ~waits(g)'
    BY <1>4 DEF OneOpen, Server!Lock, isOpenOf
  <2> QED
    BY <1>1, <2>1, <2>2, <2>3
<1>5. CASE Server!Open /\ UNCHANGED <<main, gen, toServer>>
  <2>1. unsent(g)' = unsent(g) /\ travels(g)' = travels(g) /\ waits(g)' = waits(g) /\ ~held(g)'
    BY <1>5 DEF Server!Open, Server!netVars
  <2>2. fd + 1 \in Server!Conns /\ fd' = fd + 1 /\ host' = [host EXCEPT ![fd + 1] = cur.addr]
    BY <1>5, SessionAssumption DEF SessionTypes, Server!Open, Server!addConnect, Server!Conns
  <2>3. registered(g)' => registered(g) \/ cur.addr = g
    BY <2>2, SessionAssumption DEF SessionTypes, Server!Conns
  <2>4. cur.addr = g => held(g)
    BY <1>5 DEF Server!Open, isOpenOf
  <2> QED
    BY <1>1, <2>1, <2>3, <2>4
<1>6. CASE Server!Opened /\ UNCHANGED <<main, gen, toServer>>
  <2>1. /\ unsent(g)' = unsent(g) /\ travels(g)' = travels(g) /\ waits(g)' = waits(g)
        /\ ~held(g)' /\ registered(g)' = registered(g)
    BY <1>6 DEF Server!Opened, Server!Unlock, Server!registry
  <2> QED
    BY <1>1, <2>1
<1>7. CASE Calm /\ UNCHANGED <<main, gen, toServer>>
  <2>1. UNCHANGED <<fd, host>>
    BY <1>7 DEF Calm, Server!delConnect
  <2>2. unsent(g)' = unsent(g) /\ travels(g)' = travels(g) /\ registered(g)' = registered(g)
    BY <1>7, <2>1
  <2>3. waits(g)' = waits(g) /\ (held(g)' => held(g))
    BY <1>7 DEF Calm, LockMoves
  <2> QED
    BY <1>1, <2>2, <2>3
<1> QED
  BY <1>2, <1>3, <1>4, <1>5, <1>6, <1>7, SessionCases

\* No two goroutines wait with an Open of one address.
LEMMA SpawnedStep ==
    ASSUME DialInv, SessionTypes, OneOpen, [SessionNext]_sessionVars,
           NEW d \in spawned', NEW e \in spawned', isOpenOf(d, e.addr), e.kind = "open"
    PROVE  d = e
<1>1. \A x, y \in spawned : isOpenOf(x, y.addr) /\ y.kind = "open" => x = y
  BY DEF OneOpen
<1>2. CASE ServerReads
  <2>1. PICK m \in toServer : Server!ReadFromUDP(m.addr, m.kind)
    BY <1>2 DEF ServerReads
  <2> DEFINE new == [id |-> reads + 1, addr |-> m.addr, kind |-> m.kind]
  <2>2. spawned' = spawned \cup {new}
    BY <2>1, NumberedIsDatagram
  <2>3. new.kind = "open" => ~waits(new.addr)
    <3>1. m.kind = "open" => travels(m.addr) /\ m.addr \in Gens
      BY DEF SessionTypes, Messages, travels
    <3> QED
      BY <3>1 DEF OneOpen, onePlace
  <2>4. d \in spawned \/ d = new
    BY <2>2
  <2>5. e \in spawned \/ e = new
    BY <2>2
  <2>6. ~(d = new /\ e \in spawned) /\ ~(e = new /\ d \in spawned)
    BY <2>3 DEF waits, isOpenOf
  <2> QED
    BY <1>1, <2>4, <2>5, <2>6
<1>3. CASE spawned' \subseteq spawned
  BY <1>1, <1>3
<1> QED
  BY <1>2, <1>3, SessionCases
     DEF ClientMoves, serverVars, Calm, Server!Lock, Server!Open, Server!Opened, Server!netVars

\* An address gets one connection, and what is registered is found.
LEMMA HostsStep ==
    ASSUME DialInv, SessionTypes, OneOpen, AlwaysReachable, [SessionNext]_sessionVars
    PROVE  /\ \A c, b \in 1..fd' : host'[c] = host'[b] => c = b
           /\ AlwaysReachable'
<1> DEFINE Goal == /\ \A c, b \in 1..fd' : host'[c] = host'[b] => c = b
                   /\ AlwaysReachable'
<1>1. \A c, b \in 1..fd : host[c] = host[b] => c = b
  BY DEF OneOpen
<1>2. CASE UNCHANGED <<fd, host, connections, addrMap>>
  BY <1>1, <1>2 DEF AlwaysReachable
<1>3. CASE Server!Open
  <2>1. /\ fd' = fd + 1 /\ host' = [host EXCEPT ![fd + 1] = cur.addr]
        /\ connections' = connections \cup {fd + 1}
        /\ addrMap' = [addrMap EXCEPT ![cur.addr] = fd + 1]
    BY <1>3 DEF Server!Open, Server!addConnect
  <2>2. fd + 1 \in Server!Conns /\ cur.addr \in Gens
    BY <1>3, SessionAssumption DEF SessionTypes, Server!Open, Server!Conns, Server!Datagram
  <2>3. \A c \in 1..fd : host[c] # cur.addr
    <3>1. held(cur.addr)
      BY <1>3 DEF Server!Open, held, isOpenOf
    <3> QED
      BY <2>2, <3>1 DEF OneOpen, onePlace, registered
  <2>4. \A c \in 1..fd : host'[c] = host[c] /\ c # fd + 1
    BY <2>1 DEF SessionTypes
  <2>5. host'[fd + 1] = cur.addr /\ addrMap'[cur.addr] = fd + 1
    BY <2>1, <2>2 DEF SessionTypes
  <2>6. \A c \in 1..fd' : c \in 1..fd \/ c = fd + 1
    BY <2>1 DEF SessionTypes
  <2>7. \A c, b \in 1..fd' : host'[c] = host'[b] => c = b
    BY <1>1, <2>3, <2>4, <2>5, <2>6
  <2>8. ASSUME NEW c \in connections' PROVE addrMap'[host'[c]] = c
    <3>1. CASE c = fd + 1
      BY <2>5, <3>1
    <3>2. CASE c \in connections
      <4>1. c \in 1..fd
        BY <3>2 DEF SessionTypes
      <4>2. host'[c] = host[c] /\ host[c] # cur.addr
        BY <2>3, <2>4, <4>1
      <4>3. addrMap'[host[c]] = addrMap[host[c]]
        BY <2>1, <4>2
      <4> QED
        BY <3>2, <4>2, <4>3 DEF AlwaysReachable
    <3> QED
      BY <2>1, <3>1, <3>2
  <2> QED
    BY <2>7, <2>8 DEF AlwaysReachable
<1>4. ASSUME NEW x \in Server!Conns, Server!delConnect(x) PROVE Goal
  <2>1. /\ UNCHANGED <<fd, host>> /\ connections' = connections \ {x}
        /\ addrMap' = [addrMap EXCEPT ![host[x]] = 0]
    BY <1>4 DEF Server!delConnect
  <2>2. ASSUME NEW c \in connections' PROVE addrMap'[host'[c]] = c
    <3>1. c \in 1..fd /\ c # x /\ addrMap[host[c]] = c
      BY <2>1 DEF SessionTypes, AlwaysReachable
    <3>2. host[c] # host[x]
      <4>1. CASE x \in 1..fd
        BY <1>1, <3>1, <4>1
      <4>2. CASE x \notin 1..fd
        BY <3>1, <4>2, SessionAssumption DEF SessionTypes, Server!Conns
      <4> QED
        BY <4>1, <4>2
    <3> QED
      BY <2>1, <3>1, <3>2
  <2> QED
    BY <1>1, <2>1, <2>2 DEF AlwaysReachable
<1> QED
  BY <1>2, <1>3, <1>4, SessionCases
     DEF ClientMoves, serverVars, ServerReads, Calm, Server!ReadFromUDP, Server!Lock,
         Server!Opened, Server!registry

-----------------------------------------------------------------------------
(* The theorems *)

\* The inductive invariant holds of every state of the composition.
THEOREM SessionInvariance == SessionSpec => []SessionInv
<1>1. SessionInit => SessionInv
  <2> SUFFICES ASSUME SessionInit PROVE SessionInv
    OBVIOUS
  <2> USE ConstantsAssumption, SessionAssumption DEF SessionInit, Init, Server!Init, Gens
  <2>1. DialInv
    BY DEF DialInv, TypeOK, DialSound, LeaksOnlyUnclosedFailures, TicksSound
  <2>2. SessionTypes
    BY DEF SessionTypes, Server!Conns
  <2>3. 1..fd = {} /\ answer = [g \in Gens |-> "none"]
    OBVIOUS
  <2>4. AckMeansOpened /\ OneOpen /\ AlwaysReachable
    BY <2>3 DEF AckMeansOpened, OneOpen, onePlace, travels, waits, held, registered,
           AlwaysReachable
  <2> QED
    BY <2>1, <2>2, <2>4 DEF SessionInv
<1>2. SessionInv /\ [SessionNext]_sessionVars => SessionInv'
  <2> SUFFICES ASSUME SessionInv, [SessionNext]_sessionVars PROVE SessionInv'
    OBVIOUS
  <2>1. DialInv /\ SessionTypes /\ AckMeansOpened /\ OneOpen /\ AlwaysReachable
    BY DEF SessionInv
  <2>2. OneOpen'
    <3>1. \A g \in Gens : onePlace(g)'
      BY <2>1, PlaceStep
    <3>2. \A d, e \in spawned' : isOpenOf(d, e.addr) /\ e.kind = "open" => d = e
      BY <2>1, SpawnedStep
    <3> QED
      BY <2>1, <3>1, <3>2, HostsStep DEF OneOpen, isOpenOf
  <2> QED
    BY <2>1, <2>2, DialStep, TypesStep, AcksStep, HostsStep DEF SessionInv
<1> QED
  BY <1>1, <1>2, PTL DEF SessionSpec

\* A client that believes to be connected has a session that was opened (226, 377-379).
THEOREM ConnectedHaveSessions == SessionSpec => []ConnectedWasOpened
<1>1. SessionInv => ConnectedWasOpened
  BY DEF SessionInv, AckMeansOpened, DialInv, DialSound, TypeOK, ConnectedWasOpened, opened,
         addrOf, Gens
<1> QED
  BY SessionInvariance, <1>1, PTL

\* With clients of this library every session is found by its peer's datagrams.
THEOREM SessionsReachable == SessionSpec => []AlwaysReachable
<1>1. SessionInv => AlwaysReachable
  BY DEF SessionInv
<1> QED
  BY SessionInvariance, <1>1, PTL

\* Sockets leak only where an Open could not be sent, or another datagram than its
\* acknowledgement came first (226).
THEOREM FewSocketsLeak == SessionSpec => []LeaksOnlyUnclosedFailures
<1>1. SessionInv => LeaksOnlyUnclosedFailures
  BY DEF SessionInv, DialInv, DialSound
<1> QED
  BY SessionInvariance, <1>1, PTL

\* A timer closes another socket than its own attempt's only after a failure that
\* left it running, or a Stop that came too late (213-232).
THEOREM TimersKeepToTheirAttempt == SessionSpec => StaleTickNeedsFailure
<1>1. SessionInv /\ [SessionNext]_sessionVars =>
          [\A g \in Gens : timerCloses(g) =>
               \/ gen = g /\ main \in {"read", "stop"}
               \/ outcome[g] \in {"wrong", "readError", "raced"}]_vars
  BY DEF SessionInv, DialInv, DialSound, TicksSound, timerCloses
<1> QED
  BY SessionInvariance, <1>1, PTL DEF SessionSpec, StaleTickNeedsFailure

-----------------------------------------------------------------------------
(* The server of the composition is the server of UdpServer *)

\* The server alone, with the peers and the datagrams of the composition, and
\* what UdpServerProofs proves of it.
Alone == INSTANCE UdpServerProofs WITH Addrs <- Gens, Kinds <- ClientKinds

LEMMA AloneConstants == Alone!ConstantsAssumption
  BY SessionAssumption
     DEF Alone!ConstantsAssumption, ClientKinds, Alone!AllKinds, Alone!DataKinds,
         Alone!Datagram, Server!Datagram

\* The two instances of UdpServer are one module: their actions are the same.
LEMMA SameLock ==
    ASSUME NEW d, Server!Lock(d) PROVE Alone!Lock(d)
  BY
     DEF Server!Lock, Alone!Lock, Server!Running, Alone!Running, Server!registry,
         Alone!registry, Server!timerVars, Alone!timerVars, Server!loopVars, Alone!loopVars

LEMMA SameProcessStep == Server!ProcessStep => Alone!ProcessStep
<1>1. Server!Ignore => Alone!Ignore
  BY
     DEF Server!Ignore, Alone!Ignore, Server!Running, Alone!Running, Server!DataKinds,
         Alone!DataKinds, Server!found, Alone!found, Server!Unlock, Alone!Unlock,
         Server!registry, Alone!registry, Server!timerVars, Alone!timerVars,
         Server!loopVars, Alone!loopVars, Server!netVars, Alone!netVars
<1>2. Server!Deliver => Alone!Deliver
  BY
     DEF Server!Deliver, Alone!Deliver, Server!Running, Alone!Running, Server!DataKinds,
         Alone!DataKinds, Server!found, Alone!found, Server!connOf, Alone!connOf,
         Server!registry, Alone!registry, Server!timerVars, Alone!timerVars,
         Server!loopVars, Alone!loopVars, Server!netVars, Alone!netVars
<1>3. Server!AcceptSend => Alone!AcceptSend
  BY
     DEF Server!AcceptSend, Alone!AcceptSend, Server!Running, Alone!Running,
         Server!hasRoom, Alone!hasRoom, Server!Unlock, Alone!Unlock, Server!registry,
         Alone!registry, Server!timerVars, Alone!timerVars, Server!netVars, Alone!netVars
<1>4. Server!Open => Alone!Open
  BY
     DEF Server!Open, Alone!Open, Server!Running, Alone!Running, Server!found, Alone!found,
         Server!addConnect, Alone!addConnect, Server!loopVars, Alone!loopVars,
         Server!netVars, Alone!netVars
<1>5. Server!Opened => Alone!Opened
  BY
     DEF Server!Opened, Alone!Opened, Server!Running, Alone!Running, Server!Write,
         Alone!Write, Server!Unlock, Alone!Unlock, Server!registry, Alone!registry,
         Server!timerVars, Alone!timerVars, Server!loopVars, Alone!loopVars
<1>6. Server!Close => Alone!Close
  BY
     DEF Server!Close, Alone!Close, Server!Running, Alone!Running, Server!found,
         Alone!found, Server!connOf, Alone!connOf, Server!registry, Alone!registry,
         Server!timerVars, Alone!timerVars, Server!loopVars, Alone!loopVars,
         Server!netVars, Alone!netVars
<1>7. Server!Closing => Alone!Closing
  BY
     DEF Server!Closing, Alone!Closing, Server!Running, Alone!Running, Server!delConnect,
         Alone!delConnect, Server!timerVars,
         Alone!timerVars, Server!loopVars, Alone!loopVars, Server!netVars, Alone!netVars
<1>8. Server!Signal => Alone!Signal
  BY
     DEF Server!Signal, Alone!Signal, Server!Running, Alone!Running, Server!closeReceived,
         Alone!closeReceived, Server!atSelect, Alone!atSelect, Server!Unlock, Alone!Unlock,
         Server!registry, Alone!registry, Server!netVars, Alone!netVars
<1>9. Server!Report => Alone!Report
  BY
     DEF Server!Report, Alone!Report, Server!Running, Alone!Running, Server!OnClose,
         Alone!OnClose, Server!timerVars, Alone!timerVars, Server!loopVars,
         Alone!loopVars, Server!netVars, Alone!netVars
<1> QED
  BY <1>1, <1>2, <1>3, <1>4, <1>5, <1>6, <1>7, <1>8, <1>9
     DEF Server!ProcessStep, Alone!ProcessStep

LEMMA SameGoroutines ==
    ASSUME NEW c, Server!Tick(c) \/ Server!TimerStep(c) \/ Server!LoopStep(c)
    PROVE  Alone!Tick(c) \/ Alone!TimerStep(c) \/ Alone!LoopStep(c)
<1>1. Server!Tick(c) => Alone!Tick(c)
  BY
     DEF Server!Tick, Alone!Tick, Server!Running, Alone!Running, Server!registry,
         Alone!registry, Server!lockVars, Alone!lockVars, Server!loopVars, Alone!loopVars,
         Server!netVars, Alone!netVars
<1>2. Server!TimerStep(c) => Alone!TimerStep(c)
  BY
     DEF Server!TimerStep, Alone!TimerStep, Server!TimerExpire, Alone!TimerExpire,
         Server!TimerClose, Alone!TimerClose, Server!TimerReport, Alone!TimerReport,
         Server!TimerSignal, Alone!TimerSignal, Server!Running, Alone!Running,
         Server!Write, Alone!Write, Server!OnClose, Alone!OnClose, Server!delConnect,
         Alone!delConnect, Server!closeReceived,
         Alone!closeReceived, Server!atSelect, Alone!atSelect, Server!registry,
         Alone!registry, Server!lockVars, Alone!lockVars, Server!loopVars, Alone!loopVars,
         Server!netVars, Alone!netVars
<1>3. Server!LoopStep(c) => Alone!LoopStep(c)
  BY
     DEF Server!LoopStep, Alone!LoopStep, Server!LoopReceive, Alone!LoopReceive,
         Server!LoopPing, Alone!LoopPing, Server!LoopOther, Alone!LoopOther,
         Server!Running, Alone!Running, Server!atSelect, Alone!atSelect, Server!Reset,
         Alone!Reset, Server!Write, Alone!Write, Server!registry, Alone!registry,
         Server!lockVars, Alone!lockVars, Server!timerVars, Alone!timerVars,
         Server!netVars, Alone!netVars
<1> QED
  BY <1>1, <1>2, <1>3

LEMMA SameUserWrite ==
    ASSUME NEW c, NEW k, Server!UserWrite(c, k) PROVE Alone!UserWrite(c, k)
  BY
     DEF Server!UserWrite, Alone!UserWrite, Server!Running, Alone!Running, Server!Write,
         Alone!Write, Server!registry, Alone!registry, Server!lockVars, Alone!lockVars,
         Server!timerVars, Alone!timerVars, Server!loopVars, Alone!loopVars

\* The client and the network leave the server's variables alone, and what the
\* network delivers is a datagram that any peer may send.
LEMMA ServerStep ==
    ASSUME DialInv, SessionTypes, [SessionNext]_sessionVars
    PROVE  [Alone!Next]_(Alone!vars)
<1> USE DEF Alone!Next
<1>1. CASE UNCHANGED serverVars
  BY <1>1 DEF serverVars, Alone!vars, Alone!registry, Alone!lockVars, Alone!timerVars,
         Alone!loopVars, Alone!netVars
<1>2. CASE ServerReads
  <2>1. PICK d \in toServer : Server!ReadFromUDP(d.addr, d.kind)
    BY <1>2 DEF ServerReads
  <2>2. d.addr \in Gens /\ d.kind \in ClientKinds
    BY DEF SessionTypes, Messages
  <2>3. Alone!ReadFromUDP(d.addr, d.kind)
    BY <2>1 DEF Server!ReadFromUDP, Alone!ReadFromUDP, Server!Running, Alone!Running,
           Server!registry, Server!lockVars, Server!timerVars, Server!loopVars,
           Alone!registry, Alone!lockVars, Alone!timerVars, Alone!loopVars
  <2> QED
    BY <2>2, <2>3
<1>3. CASE ServerWorks
  BY <1>3, SameLock, SameProcessStep, SameGoroutines, SameUserWrite
     DEF ServerWorks, Server!Conns, Alone!Conns
<1> QED
  BY <1>1, <1>2, <1>3, ClientCases
     DEF SessionNext, sessionVars, ClientMoves

\* The composition implements the server: all that UdpServer says of any peers
\* and any network is true of the server of these clients.
THEOREM ImplementsServer == SessionSpec => Alone!Spec
<1>1. SessionInit => Alone!Init
  BY DEF SessionInit, Server!Init, Alone!Init, Server!Conns, Alone!Conns
<1>2. SessionInv /\ [SessionNext]_sessionVars => [Alone!Next]_(Alone!vars)
  BY ServerStep DEF SessionInv
<1> QED
  BY <1>1, <1>2, SessionInvariance, PTL DEF SessionSpec, Alone!Spec

\* The registry, the lock and the channels of the server keep what UdpServerProofs
\* proves of them.
THEOREM ServerInvariance == SessionSpec => []Alone!Inv
<1>1. Alone!Spec => []Alone!Inv
  BY AloneConstants, Alone!Invariance
<1> QED
  BY <1>1, ImplementsServer, PTL

-----------------------------------------------------------------------------
(* Why a client gives up a handshake that the server has answered *)

\* A Ping, wherever it is, is from an attempt that has read its acknowledgement.
earned(d) == d.kind = "ping" => answer[d.addr] = "open"

PingsAreEarned ==
    /\ \A d \in toServer \cup spawned : earned(d)
    /\ cur # NoDatagram => earned(cur)
    /\ \A c \in Server!Conns :
        /\ \A i \in 1..Len(accept[c]) : earned(accept[c][i])
        /\ handling[c] # NoDatagram => earned(handling[c])

\* The session of the address is over, or its timer has said so.
ended(a) == \E c \in 1..fd : host[c] = a /\ (c \notin connections \/ timer[c] = "expired")

WritesHaveReasons ==
    \A d \in sent :
        /\ d.kind \in {"open", "bin", "pong", "close"}
        /\ d.kind = "pong" => answer[d.to] = "open"
        /\ d.kind = "close" => ended(d.to) \/ "close" \in UserKinds

\* A wrong answer is a datagram that the server wrote.
WrongsAreWritten ==
    \A g \in Gens :
        /\ outcome[g] = "wrong" => answer[g] = "other"
        /\ answer[g] = "other" => g \in strays \/ \E d \in sent : d.to = g /\ d.kind # "open"

CauseInv == PingsAreEarned /\ WritesHaveReasons /\ WrongsAreWritten

\* What the client and the network do to the answers.
LEMMA AnswersStay ==
    ASSUME DialInv, [SessionNext]_sessionVars, NEW g \in Gens, answer[g] # "none"
    PROVE  answer'[g] = answer[g]
<1>1. CASE UNCHANGED answer
  BY <1>1
<1>2. ASSUME NEW a, Arrive(a) PROVE answer'[g] = answer[g]
  BY <1>2 DEF Arrive, DialInv, TypeOK
<1> QED
  BY <1>1, <1>2
     DEF SessionNext, ConnectStep, SendOpen, Heartbeat, UserCloses, Receive, ReceiveStray,
         TimerStep,
         ServerReads, ServerWorks, sessionVars, clientVars, vars, Listen, PushOpen,
         PushFails, ReadAck, ReadWrong, ReadFails, Arm, Connected, RunEnds, giveUp,
         TickFires, TickCloses, Close

\* What is earned stays so.
stillEarned(d) == d.kind = "ping" => answer'[d.addr] = "open"

LEMMA EarnedStays ==
    ASSUME DialInv, [SessionNext]_sessionVars, NEW d, d.addr \in Gens, earned(d)
    PROVE  stillEarned(d)
  BY AnswersStay DEF earned, stillEarned

\* What reaches the server's socket.
LEMMA PingsOfTheClient ==
    ASSUME DialInv, PingsAreEarned, [SessionNext]_sessionVars, NEW d \in toServer'
    PROVE  d \in toServer \/ earned(d)
<1>1. CASE Heartbeat
  <2>1. main = "run" /\ (d \in toServer \/ d = [addr |-> gen, kind |-> "ping"])
    BY <1>1 DEF Heartbeat, Push, addrOf
  <2>2. answer[gen] = "open"
    BY <2>1 DEF DialInv, DialSound
  <2> QED
    BY <2>1, <2>2 DEF earned
<1>2. CASE SendOpen
  BY <1>2 DEF SendOpen, Push, earned
<1>3. CASE PushClose
  BY <1>3 DEF PushClose, Push, earned
<1>4. CASE toServer' \subseteq toServer
  BY <1>4
<1> QED
  BY <1>1, <1>2, <1>3, <1>4
     DEF SessionNext, ConnectStep, UserCloses, Receive, ReceiveStray, TimerStep, Quiet,
         ServerReads,
         ServerWorks, sessionVars

\* What reads and processLock take up was on its way, or waited.
LEMMA WhatIsTakenUp ==
    ASSUME SessionTypes, [SessionNext]_sessionVars
    PROVE  /\ \A d \in spawned' : d \in spawned \/
                  \E m \in toServer : d.addr = m.addr /\ d.kind = m.kind
           /\ cur' # NoDatagram => cur' = cur \/ cur' \in spawned
<1>1. CASE ServerReads
  <2>1. PICK m \in toServer : Server!ReadFromUDP(m.addr, m.kind)
    BY <1>1 DEF ServerReads
  <2>2. cur' = cur
    BY <2>1 DEF Server!ReadFromUDP, Server!lockVars
  <2>3. spawned' = spawned \cup {[id |-> reads + 1, addr |-> m.addr, kind |-> m.kind]}
    BY <2>1 DEF Server!ReadFromUDP
  <2> QED
    BY <2>2, <2>3
<1>2. ASSUME NEW d \in spawned, Server!Lock(d)
      PROVE  cur' = d /\ spawned' \subseteq spawned
  BY <1>2 DEF Server!Lock
<1>3. CASE Server!ProcessStep
  BY <1>3 DEF Server!ProcessStep, Server!Ignore, Server!Deliver, Server!AcceptSend,
         Server!Open, Server!Opened, Server!Close, Server!Closing, Server!Report,
         Server!Signal,
         Server!Unlock, Server!netVars
<1>4. ASSUME NEW c \in Server!Conns,
             \/ Server!Tick(c) \/ Server!TimerStep(c) \/ Server!LoopStep(c)
             \/ \E k \in UserKinds : Server!UserWrite(c, k)
      PROVE  UNCHANGED <<cur, spawned>>
  BY <1>4 DEF Server!Tick, Server!TimerStep, Server!TimerExpire, Server!TimerClose,
         Server!TimerReport, Server!TimerSignal, Server!LoopStep, Server!LoopReceive,
         Server!LoopPing,
         Server!LoopOther, Server!UserWrite, Server!lockVars, Server!netVars
<1>5. CASE UNCHANGED serverVars
  BY <1>5 DEF serverVars
<1> QED
  BY <1>1, <1>2, <1>3, <1>4, <1>5
     DEF SessionNext, ConnectStep, SendOpen, Heartbeat, UserCloses, Receive, ReceiveStray,
         TimerStep,
         Quiet, PushClose, ServerWorks, sessionVars

\* A channel holds what it held and what processLock's holder sends to it, and a
\* loop handles what was the first in its channel.
LEMMA WhatIsInChannels ==
    ASSUME Alone!Inv, [Alone!Next]_(Alone!vars), NEW c \in Alone!Conns
    PROVE  /\ \A i \in 1..Len(accept'[c]) :
                  \/ cur # NoDatagram /\ accept'[c][i] = cur
                  \/ \E j \in 1..Len(accept[c]) : accept'[c][i] = accept[c][j]
           /\ handling'[c] # NoDatagram =>
                  \/ handling'[c] = handling[c]
                  \/ 1 \in 1..Len(accept[c]) /\ handling'[c] = accept[c][1]
<1>1. /\ accept \in [Alone!Conns -> Seq(Alone!Datagram)]
      /\ handling \in [Alone!Conns -> Alone!Datagram \cup {NoDatagram}]
      /\ cur \in Alone!Datagram \cup {NoDatagram}
  BY DEF Alone!Inv, Alone!TypeOK, Alone!LoopsOK, Alone!LockOK
<1> DEFINE Goal ==
           /\ \A i \in 1..Len(accept'[c]) :
                  \/ cur # NoDatagram /\ accept'[c][i] = cur
                  \/ \E j \in 1..Len(accept[c]) : accept'[c][i] = accept[c][j]
           /\ handling'[c] # NoDatagram =>
                  \/ handling'[c] = handling[c]
                  \/ 1 \in 1..Len(accept[c]) /\ handling'[c] = accept[c][1]
<1>2. CASE UNCHANGED <<accept, handling>>
  BY <1>2
<1>3. CASE Alone!AcceptSend
  <2>1. cur # NoDatagram /\ handling' = handling
    BY <1>3 DEF Alone!AcceptSend, Alone!Inv, Alone!HolderKnowsTarget
  <2>2. CASE c = target
    <3> DEFINE q == accept[c]
    <3>1. accept'[c] = Append(q, cur)
      BY <1>1, <1>3, <2>2 DEF Alone!AcceptSend
    <3>2. q \in Seq(Alone!Datagram) /\ cur \in Alone!Datagram
      BY <1>1, <2>1
    <3> HIDE DEF q
    <3>3. /\ Len(Append(q, cur)) = Len(q) + 1 /\ Len(q) \in Nat
          /\ \A i \in 1..Len(q) : Append(q, cur)[i] = q[i]
          /\ Append(q, cur)[Len(q) + 1] = cur
      BY <3>2, AppendProperties
    <3>4. ASSUME NEW i \in 1..(Len(q) + 1)
          PROVE  i = Len(q) + 1 \/ i \in 1..Len(q)
      BY <3>3
    <3>5. \A i \in 1..Len(accept'[c]) :
             accept'[c][i] = cur \/ \E j \in 1..Len(q) : accept'[c][i] = q[j]
      BY <3>1, <3>3, <3>4
    <3> QED
      BY <2>1, <3>5 DEF q
  <2>3. CASE c # target
    <3>1. accept'[c] = accept[c]
      BY <1>1, <1>3, <2>3 DEF Alone!AcceptSend
    <3> QED
      BY <2>1, <3>1
  <2> QED
    BY <2>2, <2>3
<1>4. ASSUME NEW b \in Alone!Conns, Alone!LoopReceive(b) PROVE Goal
  <2>1. CASE b = c
    <3> DEFINE q == accept[c]
    <3>1. q \in Seq(Alone!Datagram) /\ q # <<>> /\ accept'[c] = Tail(q) /\ handling'[c] = Head(q)
      BY <1>1, <1>4, <2>1 DEF Alone!LoopReceive
    <3> HIDE DEF q
    <3>2. /\ Head(q) = q[1] /\ Len(Tail(q)) = Len(q) - 1 /\ Len(q) \in Nat \ {0}
          /\ \A i \in 1..Len(Tail(q)) : Tail(q)[i] = q[i + 1]
      BY <3>1, HeadTailProperties, EmptySeq
    <3>3. 1 \in 1..Len(q) /\ \A i \in 1..(Len(q) - 1) : i + 1 \in 1..Len(q)
      BY <3>2
    <3>4. \A i \in 1..Len(accept'[c]) : \E j \in 1..Len(q) : accept'[c][i] = q[j]
      BY <3>1, <3>2, <3>3
    <3> QED
      BY <3>1, <3>2, <3>3, <3>4 DEF q
  <2>2. CASE b # c
    <3>1. accept'[c] = accept[c] /\ handling'[c] = handling[c]
      BY <1>1, <1>4, <2>2 DEF Alone!LoopReceive
    <3> QED
      BY <3>1
  <2> QED
    BY <2>1, <2>2
<1>5. ASSUME NEW b \in Alone!Conns, Alone!LoopPing(b) \/ Alone!LoopOther(b) PROVE Goal
  <2>1. accept' = accept /\ (handling'[c] = handling[c] \/ handling'[c] = NoDatagram)
    BY <1>1, <1>5 DEF Alone!LoopPing, Alone!LoopOther
  <2> QED
    BY <2>1
<1> QED
  BY <1>2, <1>3, <1>4, <1>5
     DEF Alone!Next, Alone!vars, Alone!ProcessStep, Alone!TimerStep, Alone!LoopStep,
         Alone!ReadFromUDP, Alone!Shutdown, Alone!Lock, Alone!Ignore, Alone!Deliver,
         Alone!Open, Alone!Opened, Alone!Close, Alone!Closing, Alone!Report, Alone!Signal,
         Alone!closeReceived, Alone!LoopPanics, Alone!MapRace, Alone!ShortDatagram,
         Alone!Tick, Alone!TimerExpire,
         Alone!TimerClose, Alone!TimerReport, Alone!TimerSignal, Alone!UserWrite,
         Alone!loopVars

\* Pings move on from place to place, and none appears but from a client that is up.
LEMMA PingsStep ==
    ASSUME DialInv, SessionTypes, SessionTypes', Alone!Inv, Alone!TypeOK',
           PingsAreEarned, [SessionNext]_sessionVars
    PROVE  PingsAreEarned'
<1>1. [Alone!Next]_(Alone!vars) /\ Server!Conns = Alone!Conns
  BY ServerStep DEF Server!Conns, Alone!Conns
<1>2. /\ cur' \in Alone!Datagram \cup {NoDatagram}
      /\ \A c \in Alone!Conns :
            /\ \A i \in 1..Len(accept'[c]) : accept'[c][i] \in Alone!Datagram
            /\ handling'[c] \in Alone!Datagram \cup {NoDatagram}
  <2>1. /\ cur' \in Alone!Datagram \cup {NoDatagram}
        /\ accept' \in [Alone!Conns -> Seq(Alone!Datagram)]
        /\ handling' \in [Alone!Conns -> Alone!Datagram \cup {NoDatagram}]
    BY DEF Alone!TypeOK, Alone!LockOK, Alone!LoopsOK, Alone!Datagram, Alone!Conns
  <2>2. ASSUME NEW c \in Alone!Conns
        PROVE  \A i \in 1..Len(accept'[c]) : accept'[c][i] \in Alone!Datagram
    <3>1. accept'[c] \in Seq(Alone!Datagram)
      BY <2>1
    <3> QED
      BY <3>1, ElementOfSeq
  <2> QED
    BY <2>1, <2>2
<1>3. \A d \in Alone!Datagram : d.addr \in Gens
  BY DEF Alone!Datagram
<1>4. \A d \in toServer' : stillEarned(d)
  <2> SUFFICES ASSUME NEW d \in toServer' PROVE stillEarned(d)
    OBVIOUS
  <2>1. d.addr \in Gens
    BY DEF SessionTypes, Messages
  <2>2. earned(d)
    BY PingsOfTheClient DEF PingsAreEarned
  <2> QED
    BY <2>1, <2>2, EarnedStays
<1>5. \A d \in spawned' : earned(d) /\ stillEarned(d)
  <2> SUFFICES ASSUME NEW d \in spawned' PROVE earned(d) /\ stillEarned(d)
    OBVIOUS
  <2>1. d.addr \in Gens
    BY DEF SessionTypes, Server!Datagram
  <2>2. earned(d)
    BY WhatIsTakenUp DEF PingsAreEarned, earned
  <2> QED
    BY <2>1, <2>2, EarnedStays
<1>6. cur' # NoDatagram => stillEarned(cur')
  <2> SUFFICES ASSUME cur' # NoDatagram PROVE stillEarned(cur')
    OBVIOUS
  <2>1. earned(cur')
    BY <1>5, WhatIsTakenUp DEF PingsAreEarned
  <2> QED
    BY <1>2, <1>3, <2>1, EarnedStays
<1>7. ASSUME NEW c \in Alone!Conns
      PROVE  /\ \A i \in 1..Len(accept'[c]) : stillEarned(accept'[c][i])
             /\ handling'[c] # NoDatagram => stillEarned(handling'[c])
  <2>1. \A i \in 1..Len(accept'[c]) : earned(accept'[c][i])
    BY <1>1, WhatIsInChannels DEF PingsAreEarned
  <2>2. handling'[c] # NoDatagram => earned(handling'[c])
    BY <1>1, WhatIsInChannels DEF PingsAreEarned
  <2> QED
    BY <1>2, <1>3, <2>1, <2>2, EarnedStays
<1> QED
  BY <1>1, <1>4, <1>5, <1>6, <1>7
     DEF PingsAreEarned, earned, stillEarned, Server!Conns, Alone!Conns

\* The server writes an acknowledgement, what the user writes, the answer to a
\* Ping that a loop handles, or the Close of a timer that has expired.
LEMMA WhatIsWritten ==
    ASSUME Alone!Inv, [Alone!Next]_(Alone!vars), NEW d \in sent', d \notin sent
    PROVE  \/ d.kind = "open"
           \/ d.kind \in UserKinds
           \/ d.kind = "pong" /\ \E c \in Alone!Conns :
                  handling[c] # NoDatagram /\ handling[c].kind = "ping" /\ handling[c].addr = d.to
           \/ d.kind = "close" /\ \E c \in 1..fd' : host'[c] = d.to /\ timer'[c] = "expired"
<1>1. ASSUME NEW a, NEW k, Alone!Write(a, k) PROVE d.to = a /\ d.kind = k
  BY <1>1 DEF Alone!Write
<1>2. CASE Alone!Opened
  BY <1>1, <1>2 DEF Alone!Opened
<1>3. ASSUME NEW c \in Alone!Conns, NEW k \in UserKinds, Alone!UserWrite(c, k)
      PROVE  d.kind \in UserKinds
  BY <1>1, <1>3 DEF Alone!UserWrite
<1>4. ASSUME NEW c \in Alone!Conns, Alone!LoopPing(c)
      PROVE  /\ d.kind = "pong"
             /\ handling[c] # NoDatagram /\ handling[c].kind = "ping" /\ handling[c].addr = d.to
  <2>1. handling[c].addr = host[c]
    BY <1>4 DEF Alone!LoopPing, Alone!Inv, Alone!OwnMail
  <2> QED
    BY <1>1, <1>4, <2>1 DEF Alone!LoopPing
<1>5. ASSUME NEW c \in Alone!Conns, Alone!TimerExpire(c)
      PROVE  d.kind = "close" /\ c \in 1..fd' /\ host'[c] = d.to /\ timer'[c] = "expired"
  <2>1. c <= fd
    BY <1>5 DEF Alone!TimerExpire, Alone!Inv, Alone!UnbornIsInert
  <2>2. c \in 1..fd
    BY <2>1, SessionAssumption DEF Alone!Conns, Alone!Inv, Alone!TypeOK, Alone!RegistryOK
  <2>3. timer' = [timer EXCEPT ![c] = "expired"] /\ UNCHANGED <<fd, host>>
    BY <1>5 DEF Alone!TimerExpire, Alone!registry
  <2>4. timer \in [Alone!Conns -> {"wait", "expired", "reporting", "signal"}]
    BY DEF Alone!Inv, Alone!TypeOK, Alone!TimersOK
  <2>5. d.to = host[c] /\ d.kind = "close"
    BY <1>1, <1>5 DEF Alone!TimerExpire
  <2> QED
    BY <2>2, <2>3, <2>4, <2>5
<1>6. ~UNCHANGED sent
  OBVIOUS
<1> QED
  BY <1>2, <1>3, <1>4, <1>5, <1>6
     DEF Alone!Next, Alone!vars, Alone!ProcessStep, Alone!TimerStep, Alone!LoopStep,
         Alone!ReadFromUDP, Alone!Shutdown, Alone!Lock, Alone!Ignore, Alone!Deliver,
         Alone!AcceptSend, Alone!Open, Alone!Close, Alone!Closing, Alone!Report, Alone!Signal,
         Alone!MapRace, Alone!ShortDatagram, Alone!Tick, Alone!TimerClose, Alone!TimerReport,
         Alone!TimerSignal,
         Alone!LoopReceive, Alone!LoopOther, Alone!LoopPanics, Alone!netVars

\* Nothing that was written is taken back.
LEMMA SentGrows == [Alone!Next]_(Alone!vars) => sent \subseteq sent'
<1> SUFFICES ASSUME [Alone!Next]_(Alone!vars) PROVE sent \subseteq sent'
  OBVIOUS
<1>1. ASSUME NEW a, NEW k, Alone!Write(a, k) PROVE sent \subseteq sent'
  BY <1>1 DEF Alone!Write
<1>2. CASE Alone!Opened
  BY <1>1, <1>2 DEF Alone!Opened
<1>3. ASSUME NEW c \in Alone!Conns,
             \/ \E k \in UserKinds : Alone!UserWrite(c, k)
             \/ Alone!LoopPing(c) \/ Alone!TimerExpire(c)
      PROVE  sent \subseteq sent'
  BY <1>1, <1>3 DEF Alone!UserWrite, Alone!LoopPing, Alone!TimerExpire
<1> QED
  BY <1>2, <1>3
     DEF Alone!Next, Alone!vars, Alone!ProcessStep, Alone!TimerStep, Alone!LoopStep,
         Alone!ReadFromUDP, Alone!Shutdown, Alone!Lock, Alone!Ignore, Alone!Deliver,
         Alone!AcceptSend, Alone!Open, Alone!Close, Alone!Closing, Alone!Report, Alone!Signal,
         Alone!MapRace, Alone!ShortDatagram, Alone!Tick, Alone!TimerClose, Alone!TimerReport,
         Alone!TimerSignal,
         Alone!LoopReceive, Alone!LoopOther, Alone!LoopPanics, Alone!netVars

\* What is over stays so: no FD is registered again, and a timer that has expired
\* goes on to unregister its connection.
LEMMA EndedStays ==
    ASSUME Alone!Inv, [Alone!Next]_(Alone!vars), NEW a, ended(a)
    PROVE  ended(a)'
<1>1. PICK c \in 1..fd : host[c] = a /\ (c \notin connections \/ timer[c] = "expired")
  BY DEF ended
<1>2. /\ fd \in 0..MaxFd
      /\ host \in [Alone!Conns -> Gens \cup {NoAddr}]
      /\ timer \in [Alone!Conns -> {"wait", "expired", "reporting", "signal"}]
  BY DEF Alone!Inv, Alone!TypeOK, Alone!RegistryOK, Alone!TimersOK
<1>3. c \in Alone!Conns /\ c # fd + 1
  BY <1>2, SessionAssumption DEF Alone!Conns
<1> DEFINE Goal == /\ c \in 1..fd' /\ host'[c] = host[c]
                   /\ c \notin connections' \/ timer'[c] = "expired"
<1>4. ASSUME UNCHANGED <<fd, host, connections, timer>> PROVE Goal
  BY <1>1, <1>4
<1>5. ASSUME Alone!Open PROVE Goal
  <2>1. /\ fd' = fd + 1 /\ host' = [host EXCEPT ![fd + 1] = cur.addr]
        /\ connections' = connections \cup {fd + 1} /\ UNCHANGED timer
    BY <1>5 DEF Alone!Open, Alone!addConnect
  <2> QED
    BY <1>1, <1>2, <1>3, <2>1
<1>6. ASSUME Alone!Closing PROVE Goal
  BY <1>1, <1>6 DEF Alone!Closing, Alone!delConnect, Alone!timerVars
<1>7. ASSUME NEW b \in Alone!Conns, Alone!TimerClose(b) PROVE Goal
  <2>1. /\ UNCHANGED <<fd, host>> /\ connections' = connections \ {b}
        /\ timer' = [timer EXCEPT ![b] = "reporting"]
    BY <1>7 DEF Alone!TimerClose, Alone!delConnect
  <2> QED
    BY <1>1, <1>2, <1>3, <2>1
<1>8. ASSUME NEW b \in Alone!Conns,
             Alone!TimerExpire(b) \/ Alone!TimerReport(b) \/ Alone!TimerSignal(b)
      PROVE  Goal
  <2>1. UNCHANGED <<fd, host, connections>>
    BY <1>8 DEF Alone!TimerExpire, Alone!TimerReport, Alone!TimerSignal, Alone!registry
  <2>2. timer[c] = "expired" => timer'[c] = "expired"
    BY <1>2, <1>3, <1>8 DEF Alone!TimerExpire, Alone!TimerReport, Alone!TimerSignal
  <2> QED
    BY <1>1, <2>1, <2>2
<1>9. ASSUME Alone!Report PROVE Goal
  BY <1>4, <1>9 DEF Alone!Report, Alone!timerVars
<1>10. Goal
  BY <1>4, <1>5, <1>6, <1>7, <1>8, <1>9
     DEF Alone!Next, Alone!vars, Alone!ProcessStep, Alone!TimerStep, Alone!LoopStep,
         Alone!ReadFromUDP, Alone!Shutdown, Alone!Lock, Alone!Ignore, Alone!Deliver,
         Alone!AcceptSend, Alone!Opened, Alone!Close, Alone!Signal, Alone!MapRace,
         Alone!ShortDatagram, Alone!Tick, Alone!LoopReceive, Alone!LoopPing,
         Alone!LoopOther, Alone!LoopPanics, Alone!UserWrite, Alone!registry,
         Alone!timerVars
<1> QED
  BY <1>1, <1>10 DEF ended

\* Whatever is written, there was a reason for it.
LEMMA WritesStep ==
    ASSUME DialInv, Alone!Inv, Alone!TypeOK', PingsAreEarned, WritesHaveReasons,
           [SessionNext]_sessionVars, [Alone!Next]_(Alone!vars)
    PROVE  WritesHaveReasons'
<1> DEFINE reason(d) == /\ d.kind \in {"open", "bin", "pong", "close"}
                        /\ d.kind = "pong" => answer'[d.to] = "open"
                        /\ d.kind = "close" => ended(d.to)' \/ "close" \in UserKinds
<1>1. ASSUME NEW d \in sent PROVE reason(d)
  <2>1. /\ d.to \in Gens
        /\ d.kind \in {"open", "bin", "pong", "close"}
        /\ d.kind = "pong" => answer[d.to] = "open"
        /\ d.kind = "close" => ended(d.to) \/ "close" \in UserKinds
    BY <1>1 DEF WritesHaveReasons, Alone!Inv, Alone!TypeOK, Alone!NetOK, Alone!Sent
  <2>2. d.kind = "pong" => answer'[d.to] = "open"
    BY <2>1, AnswersStay
  <2>3. ended(d.to) => ended(d.to)'
    BY EndedStays
  <2> QED
    BY <2>1, <2>2, <2>3
<1>2. ASSUME NEW d \in sent', d \notin sent PROVE reason(d)
  <2>1. d.to \in Gens
    BY <1>2 DEF Alone!TypeOK, Alone!NetOK, Alone!Sent
  <2>2. CASE d.kind = "open"
    BY <2>2
  <2>3. CASE d.kind \in UserKinds
    BY <2>3, SessionAssumption
  <2>4. ASSUME d.kind = "pong", NEW c \in Alone!Conns, handling[c] # NoDatagram,
               handling[c].kind = "ping", handling[c].addr = d.to
        PROVE  reason(d)
    <3>1. answer[d.to] = "open"
      BY <2>4 DEF PingsAreEarned, earned, Server!Conns, Alone!Conns
    <3>2. answer'[d.to] = "open"
      BY <2>1, <3>1, AnswersStay
    <3> QED
      BY <2>4, <3>2
  <2>5. ASSUME d.kind = "close", NEW c \in 1..fd', host'[c] = d.to, timer'[c] = "expired"
        PROVE  reason(d)
    BY <2>5 DEF ended
  <2> QED
    BY <1>2, <2>2, <2>3, <2>4, <2>5, WhatIsWritten
<1> QED
  BY <1>1, <1>2 DEF WritesHaveReasons

\* The client takes for wrong only what the server wrote.
LEMMA WrongsStep ==
    ASSUME DialInv, WrongsAreWritten, [SessionNext]_sessionVars, sent \subseteq sent'
    PROVE  WrongsAreWritten'
<1>1. TypeOK
  BY DEF DialInv
<1> SUFFICES ASSUME NEW g \in Gens
             PROVE  /\ outcome'[g] = "wrong" => answer'[g] = "other"
                    /\ answer'[g] = "other" => g \in strays' \/ \E d \in sent' : d.to = g /\ d.kind # "open"
  BY DEF WrongsAreWritten
<1>6. strays \subseteq strays'
  BY DEF SessionNext, ConnectStep, SendOpen, Heartbeat, UserCloses, Receive, ReceiveStray,
         TimerStep, ServerReads, ServerWorks, Quiet, PushClose, sessionVars
<1>2. /\ outcome[g] = "wrong" => answer[g] = "other"
      /\ answer[g] = "other" => g \in strays' \/ \E d \in sent' : d.to = g /\ d.kind # "open"
  BY <1>6 DEF WrongsAreWritten
<1>3. answer[g] # "none" => answer'[g] = answer[g]
  BY AnswersStay
<1>4. outcome'[g] = "wrong" => answer'[g] = "other"
  <2>1. CASE outcome'[g] = outcome[g]
    BY <1>2, <1>3, <2>1
  <2>2. CASE ReadWrong
    <3>1. outcome' = [outcome EXCEPT ![gen] = "wrong"] /\ answer[gen] = "other"
      <4>1. gen \in Gens
        BY <1>1, <2>2, ConstantsAssumption DEF TypeOK, ReadWrong, Gens
      <4> QED
        BY <1>1, <2>2, <4>1 DEF TypeOK, ReadWrong, giveUp, isAck
    <3>2. CASE g = gen
      BY <1>3, <3>1, <3>2
    <3>3. CASE g # gen
      <4>1. outcome'[g] = outcome[g]
        BY <1>1, <3>1, <3>3 DEF TypeOK
      <4> QED
        BY <1>2, <1>3, <4>1
    <3> QED
      BY <3>2, <3>3
  <2>3. CASE PushFails \/ ReadFails \/ Connected
    <3>1. outcome'[g] = outcome[g] \/ outcome'[g] # "wrong"
      BY <1>1, <2>3 DEF TypeOK, PushFails, ReadFails, Connected, giveUp
    <3> QED
      BY <1>2, <1>3, <3>1
  <2> QED
    BY <2>1, <2>2, <2>3
       DEF SessionNext, ConnectStep, SendOpen, Heartbeat, UserCloses, Receive, ReceiveStray,
           TimerStep,
           ServerReads, ServerWorks, sessionVars, clientVars, vars, Listen, PushOpen,
           ReadAck, Arm, RunEnds, Arrive, TickFires, TickCloses, Close
<1>5. answer'[g] = "other" => g \in strays' \/ \E d \in sent' : d.to = g /\ d.kind # "open"
  <2>1. CASE answer'[g] = answer[g]
    BY <1>2, <2>1
  <2>2. CASE Receive
    <3>1. PICK d \in sent : /\ d.to = gen
                            /\ Arrive(IF d.kind = "open" THEN "open" ELSE "other")
      BY <2>2 DEF Receive, addrOf
    <3>2. CASE g = gen /\ d.kind # "open"
      BY <3>1, <3>2
    <3>3. CASE g # gen \/ d.kind = "open"
      BY <1>1, <1>2, <3>1, <3>3 DEF TypeOK, Arrive
    <3> QED
      BY <3>2, <3>3
  <2>3. ASSUME NEW a \in Strays, ReceiveStray(a)
        PROVE  answer'[g] = answer[g] \/ g \in strays'
    BY <1>1, <2>3 DEF TypeOK, ReceiveStray, Arrive
  <2> QED
    BY <2>1, <2>2, <2>3
       DEF SessionNext, ConnectStep, SendOpen, Heartbeat, UserCloses, ReceiveStray, TimerStep,
           ServerReads, ServerWorks, sessionVars, clientVars, vars, Listen, PushOpen,
           PushFails, ReadAck, ReadWrong, ReadFails, Arm, Connected, RunEnds, giveUp,
           TickFires, TickCloses, Close
<1> QED
  BY <1>4, <1>5

\* Pings, writes and wrong answers have their causes in every state.
THEOREM CauseInvariance == SessionSpec => []CauseInv
<1>1. SessionInit => CauseInv
  <2> SUFFICES ASSUME SessionInit PROVE CauseInv
    OBVIOUS
  <2> USE DEF SessionInit, Init, Server!Init
  <2>1. ASSUME NEW c \in Server!Conns
        PROVE  accept[c] = <<>> /\ handling[c] = NoDatagram
    BY <2>1 DEF Server!Conns
  <2>2. 1..Len(<<>>) = {}
    BY EmptySeq
  <2>3. PingsAreEarned
    BY <2>1, <2>2 DEF PingsAreEarned
  <2>4. WritesHaveReasons /\ WrongsAreWritten
    BY DEF WritesHaveReasons, WrongsAreWritten
  <2> QED
    BY <2>3, <2>4 DEF CauseInv
<1>2. SessionInv /\ SessionInv' /\ Alone!Inv /\ Alone!Inv' /\ CauseInv
      /\ [SessionNext]_sessionVars => CauseInv'
  <2> SUFFICES ASSUME SessionInv, SessionInv', Alone!Inv, Alone!Inv',
                      CauseInv, [SessionNext]_sessionVars
               PROVE  CauseInv'
    OBVIOUS
  <2>1. DialInv /\ SessionTypes /\ SessionTypes' /\ Alone!TypeOK'
    BY DEF SessionInv, Alone!Inv
  <2>2. [Alone!Next]_(Alone!vars)
    BY <2>1, ServerStep
  <2>3. sent \subseteq sent'
    BY <2>2, SentGrows
  <2> QED
    BY <2>1, <2>2, <2>3, PingsStep, WritesStep, WrongsStep DEF CauseInv
<1> QED
  BY <1>1, <1>2, SessionInvariance, ServerInvariance, PTL DEF SessionSpec

\* A client that gives up a handshake for another datagram than its
\* acknowledgement (226) has what the user wrote to it, or the Close of a session
\* that has ended (354-356): never the Pong of a heartbeat.
THEOREM WrongOnlyAfterTheEnd == SessionSpec => []WrongOnlyAfterExpiry
<1>1. Alone!TypeOK /\ CauseInv => WrongOnlyAfterExpiry
  <2> SUFFICES ASSUME Alone!TypeOK, CauseInv, NEW g \in Gens \ strays, outcome[g] = "wrong",
                      [to |-> g, kind |-> "bin"] \notin sent
               PROVE  \/ ended(g)
                      \/ "close" \in UserKinds /\ [to |-> g, kind |-> "close"] \in sent
    BY DEF WrongOnlyAfterExpiry, addrOf, ended
  <2>1. PICK d \in sent : d.to = g /\ d.kind # "open"
    BY DEF CauseInv, WrongsAreWritten
  <2>2. d = [to |-> g, kind |-> d.kind]
    BY <2>1 DEF Alone!TypeOK, Alone!NetOK, Alone!Sent
  <2>3. d.kind \in {"bin", "pong", "close"}
    BY <2>1 DEF CauseInv, WritesHaveReasons
  <2>4. d.kind # "bin"
    BY <2>2
  <2>5. answer[g] = "other"
    BY DEF CauseInv, WrongsAreWritten
  <2>6. d.kind # "pong"
    BY <2>1, <2>5 DEF CauseInv, WritesHaveReasons
  <2>7. d.kind = "close" /\ (ended(g) \/ "close" \in UserKinds)
    BY <2>1, <2>3, <2>4, <2>6 DEF CauseInv, WritesHaveReasons
  <2> QED
    BY <2>2, <2>7
<1>2. Alone!Inv => Alone!TypeOK
  BY DEF Alone!Inv
<1> QED
  BY <1>1, <1>2, ServerInvariance, CauseInvariance, PTL
=============================================================================
