--------------------------- MODULE UdpServerProofs ---------------------------
(***************************************************************************)
(* Proofs about UdpServer for any number of addresses, datagrams and       *)
(* connections and any capacity of the accept channels.                    *)
(***************************************************************************)
EXTENDS UdpServer, SequenceTheorems, TLAPS

-----------------------------------------------------------------------------
(* The registry: what addConnect and onClose do to it. *)

RegistryInv ==
    /\ AddrMapSound
    /\ LiveUntilEnded
    /\ NewestInMap
    /\ ReachableUnlessDoubleClosed

\* The number of times a connection was ended only counts.
LEMMA EndsType ==
    ASSUME RegistryOK, NEW c \in Conns
    PROVE  ends(c) \in Nat
BY DEF RegistryOK, ends, count

\* At the start nothing is registered, sent or held.
LEMMA InitInv == Init => Inv
<1> SUFFICES ASSUME Init PROVE Inv
  OBVIOUS
<1> USE ConstantsAssumption DEF Init, Conns
<1>1. RegistryOK /\ LockOK /\ NetOK
  BY DEF RegistryOK, LockOK, NetOK
<1>2. TimersOK
  BY DEF TimersOK
<1>3. LoopsOK
  BY DEF LoopsOK
<1>4. UnbornIsInert /\ HolderKnowsTarget
  BY DEF UnbornIsInert, HolderKnowsTarget
<1>5. AddrMapSound /\ NewestInMap
  BY DEF AddrMapSound, NewestInMap
<1>8. ReachableUnlessDoubleClosed
  BY DEF ReachableUnlessDoubleClosed
<1>7. LiveUntilEnded
  <2> 1..fd = {}
    OBVIOUS
  <2> QED
    BY DEF LiveUntilEnded
<1>6. OwnMail
  BY DEF OwnMail
<1> QED
  BY <1>1, <1>2, <1>3, <1>4, <1>5, <1>6, <1>7, <1>8 DEF Inv, TypeOK

\* A new connection of an address that has none found.
LEMMA AddConnectKeeps ==
    ASSUME RegistryOK, UnbornIsInert, RegistryInv,
           NEW a \in Addrs, ~found(a), fd < MaxFd, addConnect(a), closes' = closes,
           \A c \in Conns : ends(c)' = ends(c), ends(fd + 1) = 0
    PROVE  RegistryOK' /\ RegistryInv'
<1> USE ConstantsAssumption DEF RegistryOK, Conns, addConnect
<1>1. RegistryOK'
  OBVIOUS
<1>2. fd + 1 \in Conns /\ fd + 1 \notin connections
  <2>1. fd + 1 \in Conns /\ ~(fd + 1 <= fd)
    OBVIOUS
  <2> QED
    BY <2>1 DEF UnbornIsInert
<1>3. \A c \in Conns : c <= fd => host'[c] = host[c] /\ host[c] \in Addrs /\ c # fd + 1
  BY <1>2 DEF UnbornIsInert
<1>8. \A c \in connections : c \in Conns /\ c <= fd
  BY DEF UnbornIsInert
<1>4. host'[fd + 1] = a /\ addrMap'[a] = fd + 1
  BY <1>2
<1>5. AddrMapSound'
  <2> SUFFICES ASSUME NEW b \in Addrs, addrMap'[b] # 0
               PROVE  addrMap'[b] \in connections' /\ host'[addrMap'[b]] = b
    BY DEF AddrMapSound
  <2>1. CASE b = a
    BY <1>4, <2>1
  <2>2. CASE b # a
    <3>1. addrMap'[b] = addrMap[b]
      BY <2>2
    <3> QED
      BY <3>1, <1>3, <1>8 DEF AddrMapSound, RegistryInv
  <2> QED
    BY <2>1, <2>2
<1>6. LiveUntilEnded'
  <2> SUFFICES ASSUME NEW c \in 1..fd' PROVE c \in connections' <=> ends(c)' = 0
    BY DEF LiveUntilEnded
  <2>1. c \in Conns
    OBVIOUS
  <2>2. CASE c = fd + 1
    BY <2>1, <2>2
  <2>3. CASE c # fd + 1
    <3>1. c \in 1..fd
      BY <2>3
    <3>2. c \in connections <=> ends(c) = 0
      BY <3>1 DEF LiveUntilEnded, RegistryInv
    <3> QED
      BY <2>1, <2>3, <3>2
  <2> QED
    BY <2>2, <2>3
<1>9. NewestInMap'
  <2> SUFFICES ASSUME NEW b \in Addrs, addrMap'[b] # 0, NEW d \in 1..fd', host'[d] = b
               PROVE  d <= addrMap'[b]
    BY DEF NewestInMap, newest
  <2>1. CASE b = a
    BY <1>4, <2>1
  <2>2. CASE b # a
    <3>1. addrMap'[b] = addrMap[b] /\ d # fd + 1
      BY <1>4, <2>2
    <3>2. d \in 1..fd /\ d \in Conns
      BY <3>1
    <3> QED
      BY <1>3, <3>1, <3>2 DEF NewestInMap, newest, RegistryInv
  <2> QED
    BY <2>1, <2>2
<1>7. ReachableUnlessDoubleClosed'
  <2> SUFFICES ASSUME \A c \in Conns : ends(c)' <= 1, NEW c \in connections'
               PROVE  addrMap'[host'[c]] = c
    BY DEF ReachableUnlessDoubleClosed
  <2>1. CASE c = fd + 1
    BY <1>4, <2>1
  <2>2. CASE c # fd + 1
    <3>0. \A d \in Conns : ends(d) <= 1
      OBVIOUS
    <3>1. c \in connections /\ addrMap[host[c]] = c
      BY <2>2, <3>0 DEF ReachableUnlessDoubleClosed, RegistryInv
    <3>2. host[c] # a
      BY <3>1 DEF found
    <3> QED
      BY <3>1, <3>2, <1>3, <1>8
  <2> QED
    BY <2>1, <2>2
<1> QED
  BY <1>1, <1>5, <1>6, <1>7, <1>9 DEF RegistryInv

\* The first half of onClose, of any connection that was ever opened, closed
\* before or not.
LEMMA DelConnectKeeps ==
    ASSUME RegistryOK, UnbornIsInert, RegistryInv,
           NEW c \in Conns, c <= fd, delConnect(c), closes' = closes,
           \A d \in Conns : ends(d)' = ends(d) + count(d = c)
    PROVE  RegistryOK' /\ RegistryInv'
<1> USE ConstantsAssumption DEF RegistryOK, Conns, delConnect
<1>1. host[c] \in Addrs
  BY DEF UnbornIsInert
<1>2. \A d \in Conns : ends(d)' = (IF d = c THEN ends(d) + 1 ELSE ends(d)) /\ ends(d) \in Nat
  <2>1. \A d \in Conns : ends(d) \in Nat
    BY EndsType
  <2> QED
    BY <2>1 DEF count
<1>6. RegistryOK'
  BY <1>1
<1>3. AddrMapSound' /\ NewestInMap'
  <2>1. \A b \in Addrs : addrMap'[b] # 0 => b # host[c] /\ addrMap'[b] = addrMap[b]
    BY <1>1
  <2> QED
    BY <2>1 DEF AddrMapSound, NewestInMap, newest, RegistryInv
<1>4. LiveUntilEnded'
  <2> SUFFICES ASSUME NEW b \in 1..fd
               PROVE  b \in connections' <=> ends(b)' = 0
    BY DEF LiveUntilEnded
  <2>1. b \in connections <=> ends(b) = 0
    BY DEF LiveUntilEnded, RegistryInv
  <2>2. b \in Conns
    OBVIOUS
  <2>3. ends(b)' = 0 <=> ends(b) = 0 /\ b # c
    BY <1>2, <2>2
  <2> QED
    BY <2>1, <2>3
<1>5. ReachableUnlessDoubleClosed'
  <2> SUFFICES ASSUME \A b \in Conns : ends(b)' <= 1, NEW b \in connections'
               PROVE  addrMap'[host'[b]] = b
    BY DEF ReachableUnlessDoubleClosed
  <2>1. ends(c) = 0 /\ \A d \in Conns : ends(d) <= 1
    <3>2. ends(c) = 0
      BY <1>2
    <3>3. ASSUME NEW d \in Conns PROVE ends(d) <= 1
      <4>1. ends(d)' <= 1
        OBVIOUS
      <4> QED
        BY <1>2, <3>2, <4>1
    <3> QED
      BY <3>2, <3>3
  <2>2. \A d \in connections : addrMap[host[d]] = d
    BY <2>1 DEF ReachableUnlessDoubleClosed, RegistryInv
  <2>3. c \in connections
    BY <2>1 DEF LiveUntilEnded, RegistryInv
  <2>4. host[b] # host[c]
    BY <2>2, <2>3
  <2>5. host[b] \in Addrs
    BY <2>2, <2>3 DEF UnbornIsInert
  <2> QED
    BY <2>2, <2>4, <2>5
<1> QED
  BY <1>6, <1>3, <1>4, <1>5 DEF RegistryInv

\* A step that leaves the registry and the count of its ends alone.
LEMMA RegistrySame ==
    ASSUME RegistryOK, RegistryInv,
           UNCHANGED <<fd, connections, addrMap, host>>,
           \A c \in Conns : ends(c)' = ends(c)
    PROVE  RegistryInv'
<1>1. \A c \in 1..fd : c \in Conns
  BY ConstantsAssumption DEF RegistryOK, Conns
<1>2. AddrMapSound'
  BY DEF RegistryInv, AddrMapSound
<1>5. NewestInMap'
  BY DEF RegistryInv, NewestInMap, newest
<1>3. LiveUntilEnded'
  BY <1>1 DEF RegistryInv, LiveUntilEnded
<1>4. ReachableUnlessDoubleClosed'
  BY DEF RegistryInv, ReachableUnlessDoubleClosed
<1> QED
  BY <1>2, <1>3, <1>4, <1>5 DEF RegistryInv

\* The timer's goroutine or the holder of processLock calls OnClose, and is then
\* no longer about to.
LEMMA OnCloseKeeps ==
    ASSUME RegistryOK, RegistryInv, NEW c \in Conns,
           UNCHANGED <<fd, connections, addrMap, host>>, OnClose(c),
           \A d \in Conns :
               LET before == count(endedByTimer(d)) + count(endedByPeer(d))
                   after  == count(endedByTimer(d))' + count(endedByPeer(d))'
               IN  before = after + count(d = c)
    PROVE  RegistryOK' /\ RegistryInv'
<1>1. RegistryOK'
  BY DEF RegistryOK, OnClose
<1>2. \A d \in Conns : ends(d)' = ends(d)
  BY DEF RegistryOK, OnClose, ends, count
<1> QED
  BY <1>1, <1>2, RegistrySame

\* What the parts of the invariant about the registry and the lock read.
LEMMA RegistryStep == Inv /\ [Next]_vars => RegistryOK' /\ RegistryInv'
<1> SUFFICES ASSUME Inv, [Next]_vars PROVE RegistryOK' /\ RegistryInv'
  OBVIOUS
<1>1. RegistryOK /\ UnbornIsInert /\ RegistryInv /\ LockOK /\ TimersOK
  BY DEF Inv, TypeOK, RegistryInv
<1>2. ASSUME UNCHANGED registry,
             \A c \in Conns : endedByTimer(c)' = endedByTimer(c),
             \A c \in Conns : endedByPeer(c)' = endedByPeer(c)
      PROVE  RegistryOK' /\ RegistryInv'
  <2>1. \A c \in Conns : ends(c)' = ends(c)
    BY <1>2 DEF ends, registry
  <2>2. RegistryOK'
    BY <1>1, <1>2 DEF registry, RegistryOK
  <2> QED
    BY <1>1, <1>2, <2>1, <2>2, RegistrySame DEF registry
<1>3. ASSUME Open PROVE RegistryOK' /\ RegistryInv'
  <2>1. cur.addr \in Addrs
    BY <1>3, ConstantsAssumption DEF Open, Inv, TypeOK, LockOK, HolderKnowsTarget, Datagram
  <2>2. \A c \in Conns : ends(c)' = ends(c)
    BY <1>3 DEF Open, ends, endedByTimer, endedByPeer
  <2>3. ends(fd + 1) = 0
    <3>1. fd + 1 \in Conns /\ ~(fd + 1 <= fd)
      BY <1>1, <1>3, ConstantsAssumption DEF Open, RegistryOK, Conns
    <3>2. closes[fd + 1] = 0 /\ ~endedByTimer(fd + 1) /\ ~endedByPeer(fd + 1)
      BY <1>1, <1>3, <3>1 DEF Open, UnbornIsInert, endedByTimer, endedByPeer
    <3> QED
      BY <3>2 DEF ends, count
  <2> QED
    BY <1>1, <1>3, <2>1, <2>2, <2>3, AddConnectKeeps DEF Open
<1>4. ASSUME Closing PROVE RegistryOK' /\ RegistryInv'
  <2>1. target \in Conns /\ target <= fd
    BY <1>1, <1>4, ConstantsAssumption DEF Closing, Inv, HolderKnowsTarget, RegistryOK, Conns
  <2>2. \A d \in Conns : ends(d)' = ends(d) + count(d = target)
    BY <1>1, <1>4 DEF Closing, ends, endedByTimer, endedByPeer, count, timerVars, RegistryOK
  <2> QED
    BY <1>1, <1>4, <2>1, <2>2, DelConnectKeeps DEF Closing
<1>5. ASSUME NEW c \in Conns, TimerClose(c) PROVE RegistryOK' /\ RegistryInv'
  <2>1. c <= fd
    BY <1>5 DEF TimerClose, Inv, UnbornIsInert
  <2>2. \A d \in Conns : ends(d)' = ends(d) + count(d = c)
    BY <1>1, <1>5
       DEF TimerClose, ends, endedByTimer, endedByPeer, count, lockVars, RegistryOK, TimersOK
  <2> QED
    BY <1>1, <1>5, <2>1, <2>2, DelConnectKeeps DEF TimerClose
<1>8. ASSUME Report PROVE RegistryOK' /\ RegistryInv'
  <2>1. target \in Conns
    BY <1>1, <1>8, ConstantsAssumption DEF Report, Inv, HolderKnowsTarget, RegistryOK, Conns
  <2>2. /\ \A d \in Conns : endedByTimer(d)' = endedByTimer(d)
        /\ \A d \in Conns : ~endedByPeer(d)' /\ (endedByPeer(d) <=> d = target)
    BY <1>8 DEF Report, endedByTimer, endedByPeer, timerVars
  <2> QED
    BY <1>1, <1>8, <2>1, <2>2, OnCloseKeeps DEF Report, count
<1>9. ASSUME NEW c \in Conns, TimerReport(c) PROVE RegistryOK' /\ RegistryInv'
  <2>2. /\ \A d \in Conns : endedByPeer(d)' = endedByPeer(d)
        /\ \A d \in Conns : d # c => endedByTimer(d)' = endedByTimer(d)
        /\ endedByTimer(c) /\ ~endedByTimer(c)'
    BY <1>1, <1>9 DEF TimerReport, endedByTimer, endedByPeer, lockVars, TimersOK
  <2> QED
    BY <1>1, <1>9, <2>2, OnCloseKeeps DEF TimerReport, count
<1>6. CASE UNCHANGED vars
  BY <1>2, <1>6 DEF vars, registry, lockVars, timerVars, endedByTimer, endedByPeer
<1>10. ASSUME UNCHANGED <<registry, timer>>, pc # "reporting", pc' # "reporting"
       PROVE  RegistryOK' /\ RegistryInv'
  BY <1>2, <1>10 DEF endedByTimer, endedByPeer
<1>11. ASSUME UNCHANGED <<registry, timer, lockVars>> PROVE RegistryOK' /\ RegistryInv'
  BY <1>2, <1>11 DEF lockVars, endedByTimer, endedByPeer
<1>12. ASSUME NEW c \in Conns, TimerExpire(c) \/ TimerSignal(c)
       PROVE  RegistryOK' /\ RegistryInv'
  <2>1. UNCHANGED registry /\ UNCHANGED lockVars
    BY <1>12 DEF TimerExpire, TimerSignal
  <2>2. \A d \in Conns :
            (timer[d] # "reporting" /\ timer'[d] # "reporting") \/ timer'[d] = timer[d]
    BY <1>1, <1>12 DEF TimerExpire, TimerSignal, TimersOK
  <2> QED
    BY <1>2, <2>1, <2>2 DEF lockVars, endedByTimer, endedByPeer
<1>13. CASE ProcessStep
  <2>1. CASE Ignore \/ Deliver \/ AcceptSend \/ Opened \/ Close \/ Signal
    BY <1>10, <2>1
       DEF Ignore, Deliver, AcceptSend, Opened, Close, Signal, Unlock, timerVars
  <2> QED
    BY <1>3, <1>4, <1>8, <1>13, <2>1 DEF ProcessStep
<1>7. CASE Next
  BY <1>5, <1>7, <1>9, <1>10, <1>11, <1>12, <1>13
     DEF Next, TimerStep, LoopStep, ReadFromUDP, Shutdown, Lock, MapRace, ShortDatagram,
         Tick, LoopReceive, LoopPing, LoopOther, LoopPanics, UserWrite, timerVars
<1> QED
  BY <1>6, <1>7

-----------------------------------------------------------------------------
(* Types, and what an FD that was not given out does not have. *)

\* Conn.Write adds a datagram to those sent.
LEMMA WriteType ==
    ASSUME NetOK, NEW a \in Addrs, NEW k \in AllKinds, Write(a, k)
    PROVE  sent' \in SUBSET Sent
BY DEF NetOK, Write, Sent

\* One conjunct of TypeOK at a time: the actions that change its variables.
LEMMA LockStep == Inv /\ [Next]_vars => LockOK'
<1> SUFFICES ASSUME Inv, [Next]_vars PROVE LockOK'
  OBVIOUS
<1>1. LockOK /\ RegistryOK /\ spawned \in SUBSET Datagram
  BY DEF Inv, TypeOK, NetOK
<1>2. CASE UNCHANGED lockVars
  BY <1>1, <1>2 DEF lockVars, LockOK
<1>3. ASSUME NEW d \in spawned, Lock(d) PROVE LockOK'
  BY <1>1, <1>3 DEF Lock, LockOK
<1>4. CASE Unlock
  BY <1>4, ConstantsAssumption DEF Unlock, LockOK
<1>5. ASSUME Deliver \/ Close PROVE LockOK'
  <2>1. cur \in Datagram
    BY <1>1, <1>5 DEF Deliver, Close, connOf, Inv, LockOK, HolderKnowsTarget
  <2>2. addrMap[cur.addr] \in 0..MaxFd
    BY <1>1, <2>1 DEF Datagram, RegistryOK
  <2> QED
    BY <1>1, <1>5, <2>2 DEF Deliver, Close, connOf, LockOK
<1>6. ASSUME Open PROVE LockOK'
  BY <1>1, <1>6, ConstantsAssumption DEF Open, LockOK, RegistryOK
<1>7. ASSUME Closing \/ Report PROVE LockOK'
  BY <1>1, <1>7 DEF Closing, Report, LockOK
<1>8. CASE UNCHANGED vars
  BY <1>2, <1>8 DEF vars
<1>9. CASE Next
  BY <1>2, <1>3, <1>4, <1>5, <1>6, <1>7, <1>9
     DEF Next, ProcessStep, TimerStep, LoopStep, ReadFromUDP, Shutdown, Ignore,
         AcceptSend, Opened, Signal, MapRace, ShortDatagram, Tick, TimerExpire, TimerClose,
         TimerReport, TimerSignal, LoopReceive, LoopPing, LoopOther, LoopPanics, UserWrite
<1> QED
  BY <1>8, <1>9

\* No step takes a timer out of its type.
LEMMA TimersStep == Inv /\ [Next]_vars => TimersOK'
<1> SUFFICES ASSUME Inv, [Next]_vars PROVE TimersOK'
  OBVIOUS
<1>1. TimersOK /\ LoopsOK /\ LockOK /\ RegistryOK
  BY DEF Inv, TypeOK
<1>2. CASE UNCHANGED timerVars
  BY <1>1, <1>2 DEF timerVars, TimersOK
<1>3. ASSUME Open PROVE TimersOK'
  BY <1>1, <1>3 DEF Open, TimersOK
<1>4. ASSUME Signal PROVE TimersOK'
  BY <1>1, <1>4 DEF Signal, closeReceived, atSelect, TimersOK
<1>5. ASSUME NEW c \in Conns, Tick(c) \/ TimerExpire(c) \/ TimerClose(c) \/ TimerReport(c)
      PROVE  TimersOK'
  BY <1>1, <1>5 DEF Tick, TimerExpire, TimerClose, TimerReport, TimersOK
<1>6. ASSUME NEW c \in Conns, TimerSignal(c) \/ LoopPing(c) PROVE TimersOK'
  BY <1>1, <1>6 DEF TimerSignal, closeReceived, atSelect, LoopPing, Reset, TimersOK
<1>7. CASE UNCHANGED vars
  BY <1>2, <1>7 DEF vars
<1>8. CASE Next
  BY <1>2, <1>3, <1>4, <1>5, <1>6, <1>8
     DEF Next, ProcessStep, TimerStep, LoopStep, ReadFromUDP, Shutdown, Lock, Ignore,
         Deliver, AcceptSend, Opened, Close, Closing, Report, MapRace, ShortDatagram,
         LoopReceive, LoopOther, LoopPanics, UserWrite
<1> QED
  BY <1>7, <1>8

\* A connection's queue grows by its own peer's datagrams only and never past
\* its capacity.
LEMMA LoopsStep == Inv /\ [Next]_vars => LoopsOK' /\ OwnMail'
<1> SUFFICES ASSUME Inv, [Next]_vars PROVE LoopsOK' /\ OwnMail'
  OBVIOUS
<1>1. LoopsOK /\ LockOK /\ RegistryOK /\ OwnMail
  BY DEF Inv, TypeOK
<1>2. ASSUME UNCHANGED <<host, accept, handling, stopped>> PROVE LoopsOK' /\ OwnMail'
  BY <1>1, <1>2 DEF LoopsOK, OwnMail
<1>3. ASSUME AcceptSend PROVE LoopsOK' /\ OwnMail'
  <2>1. cur \in Datagram /\ target \in Conns /\ host[target] = cur.addr
    BY <1>1, <1>3, ConstantsAssumption DEF AcceptSend, hasRoom, Inv, HolderKnowsTarget, LockOK, RegistryOK, Conns
  <2> DEFINE q == accept[target]
  <2>2. q \in Seq(Datagram) /\ Len(q) \in Nat /\ Len(q) < AcceptCap
    BY <1>1, <1>3, <2>1 DEF AcceptSend, hasRoom, LoopsOK
  <2>3. /\ Append(q, cur) \in Seq(Datagram)
        /\ Len(Append(q, cur)) = Len(q) + 1
        /\ \A i \in 1..Len(q) : Append(q, cur)[i] = q[i]
        /\ Append(q, cur)[Len(q) + 1] = cur
    BY <2>1, <2>2, AppendProperties
  <2>4. \A c \in Conns : accept'[c] = IF c = target THEN Append(q, cur) ELSE accept[c]
    BY <1>1, <1>3 DEF AcceptSend, hasRoom, LoopsOK
  <2>5. LoopsOK'
    <3>1. accept' \in [Conns -> Seq(Datagram)]
      BY <1>1, <1>3, <2>3 DEF AcceptSend, hasRoom, LoopsOK
    <3>2. \A c \in Conns : Len(accept'[c]) <= AcceptCap
      <4>1. Len(q) + 1 <= AcceptCap
        BY <2>2, ConstantsAssumption
      <4> SUFFICES ASSUME NEW c \in Conns PROVE Len(accept'[c]) <= AcceptCap
        OBVIOUS
      <4>2. CASE c = target
        BY <2>3, <2>4, <4>1, <4>2
      <4>3. CASE c # target
        BY <1>1, <2>4, <4>3 DEF LoopsOK
      <4> QED
        BY <4>2, <4>3
    <3> QED
      BY <1>1, <1>3, <3>1, <3>2 DEF AcceptSend, hasRoom, LoopsOK
  <2>6. \A c \in Conns : \A i \in 1..Len(accept'[c]) : accept'[c][i].addr = host[c]
    <3> SUFFICES ASSUME NEW c \in Conns, NEW i \in 1..Len(accept'[c])
                 PROVE  accept'[c][i].addr = host[c]
      OBVIOUS
    <3>1. CASE c # target
      BY <1>1, <2>4, <3>1 DEF OwnMail
    <3>2. CASE c = target
      <4>1. accept'[c] = Append(q, cur) /\ i \in 1..(Len(q) + 1)
        BY <2>3, <2>4, <3>2
      <4>2. CASE i = Len(q) + 1
        BY <2>1, <2>3, <3>2, <4>1, <4>2
      <4>3. CASE i # Len(q) + 1
        <5>1. i \in 1..Len(q)
          BY <2>2, <4>1, <4>3
        <5>2. accept'[c][i] = q[i]
          BY <2>3, <4>1, <5>1
        <5> QED
          BY <1>1, <3>2, <5>1, <5>2 DEF OwnMail
      <4> QED
        BY <4>2, <4>3
    <3> QED
      BY <3>1, <3>2
  <2> QED
    BY <1>1, <1>3, <2>5, <2>6 DEF AcceptSend, hasRoom, registry, OwnMail
<1>4. ASSUME Open PROVE LoopsOK' /\ OwnMail'
  <2>1. fd + 1 \in Conns /\ accept[fd + 1] = <<>> /\ handling[fd + 1] = NoDatagram
    <3>1. fd + 1 \in Conns /\ ~(fd + 1 <= fd)
      BY <1>1, <1>4, ConstantsAssumption DEF Open, RegistryOK, Conns
    <3> QED
      BY <3>1 DEF Inv, UnbornIsInert
  <2>2. \A c \in Conns : c # fd + 1 => host'[c] = host[c]
    BY <1>1, <1>4 DEF Open, addConnect, RegistryOK
  <2>3. LoopsOK'
    BY <1>1, <1>4 DEF Open, loopVars, LoopsOK
  <2> QED
    BY <1>1, <1>4, <2>1, <2>2, <2>3 DEF Open, loopVars, OwnMail
<1>5. ASSUME Signal PROVE LoopsOK' /\ OwnMail'
  <2>1. target \in Conns
    BY <1>1, <1>5, ConstantsAssumption DEF Signal, Inv, HolderKnowsTarget, RegistryOK, Conns
  <2> QED
    BY <1>1, <1>5, <2>1 DEF Signal, closeReceived, atSelect, registry, LoopsOK, OwnMail
<1>6. ASSUME NEW c \in Conns, TimerSignal(c) PROVE LoopsOK' /\ OwnMail'
  BY <1>1, <1>6 DEF TimerSignal, closeReceived, atSelect, registry, LoopsOK, OwnMail
<1>7. ASSUME NEW c \in Conns, LoopReceive(c) PROVE LoopsOK' /\ OwnMail'
  <2> DEFINE q == accept[c]
  <2>1. q \in Seq(Datagram) /\ q # <<>>
    BY <1>1, <1>7 DEF LoopReceive, atSelect, LoopsOK
  <2>2. /\ Head(q) \in Datagram /\ Head(q) = q[1]
        /\ Tail(q) \in Seq(Datagram)
        /\ Len(Tail(q)) = Len(q) - 1
        /\ \A i \in 1..Len(Tail(q)) : Tail(q)[i] = q[i + 1]
        /\ Len(q) \in Nat \ {0}
    BY <2>1, HeadTailProperties, EmptySeq
  <2>3. /\ \A b \in Conns : accept'[b] = IF b = c THEN Tail(q) ELSE accept[b]
        /\ \A b \in Conns : handling'[b] = IF b = c THEN Head(q) ELSE handling[b]
    BY <1>1, <1>7 DEF LoopReceive, atSelect, LoopsOK
  <2>4. LoopsOK'
    <3>1. /\ accept' \in [Conns -> Seq(Datagram)]
          /\ handling' \in [Conns -> Datagram \cup {NoDatagram}]
      BY <1>1, <1>7, <2>2 DEF LoopReceive, atSelect, LoopsOK
    <3>2. \A b \in Conns : Len(accept'[b]) <= AcceptCap
      <4> SUFFICES ASSUME NEW b \in Conns PROVE Len(accept'[b]) <= AcceptCap
        OBVIOUS
      <4>1. CASE b = c
        <5>1. Len(accept'[b]) = Len(q) - 1 /\ Len(q) <= AcceptCap
          BY <1>1, <2>2, <2>3, <4>1 DEF LoopsOK
        <5> QED
          BY <2>2, <5>1, ConstantsAssumption
      <4>2. CASE b # c
        BY <1>1, <2>3, <4>2 DEF LoopsOK
      <4> QED
        BY <4>1, <4>2
    <3> QED
      BY <1>1, <1>7, <3>1, <3>2 DEF LoopReceive, atSelect, LoopsOK
  <2>5. host[c] = Head(q).addr /\ \A i \in 1..Len(Tail(q)) : Tail(q)[i].addr = host[c]
    BY <1>1, <2>2 DEF OwnMail
  <2>6. OwnMail'
    BY <1>1, <1>7, <2>3, <2>5 DEF LoopReceive, atSelect, registry, OwnMail
  <2> QED
    BY <2>4, <2>6
<1>8. ASSUME NEW c \in Conns, LoopPing(c) \/ LoopOther(c) PROVE LoopsOK' /\ OwnMail'
  BY <1>1, <1>8 DEF LoopPing, LoopOther, Reset, registry, LoopsOK, OwnMail
<1>9. CASE UNCHANGED vars
  BY <1>2, <1>9 DEF vars, registry, loopVars
<1>10. CASE Next
  BY <1>2, <1>3, <1>4, <1>5, <1>6, <1>7, <1>8, <1>10
     DEF Next, ProcessStep, TimerStep, LoopStep, ReadFromUDP, Shutdown, Lock, Ignore,
         Deliver, Opened, Close, Closing, Report, delConnect, MapRace, ShortDatagram, Tick,
         TimerExpire, TimerClose, TimerReport, LoopPanics, UserWrite, registry, loopVars
<1> QED
  BY <1>9, <1>10

\* No step takes a variable of the network out of its type.
LEMMA NetStep == Inv /\ [Next]_vars => NetOK' /\ crashed' \in BOOLEAN
<1> SUFFICES ASSUME Inv, [Next]_vars PROVE NetOK' /\ crashed' \in BOOLEAN
  OBVIOUS
<1>1. NetOK /\ LockOK /\ RegistryOK /\ crashed \in BOOLEAN
  BY DEF Inv, TypeOK
<1>2. ASSUME UNCHANGED netVars PROVE NetOK'
  BY <1>1, <1>2 DEF netVars, NetOK
<1>3. ASSUME sent' \in SUBSET Sent, UNCHANGED <<listening, reads, spawned>> PROVE NetOK'
  BY <1>1, <1>3 DEF NetOK
<1>4. ASSUME NEW c \in Conns, c <= fd, NEW k \in AllKinds, Write(host[c], k)
      PROVE  sent' \in SUBSET Sent
  <2>1. host[c] \in Addrs
    BY <1>4 DEF Inv, UnbornIsInert
  <2> QED
    BY <1>1, <1>4, <2>1, WriteType
<1>5. ASSUME NEW a \in Addrs, NEW k \in Kinds, ReadFromUDP(a, k) PROVE NetOK'
  <2>1. reads + 1 \in 1..MaxReads
    BY <1>1, <1>5, ConstantsAssumption DEF ReadFromUDP, NetOK
  <2>2. [id |-> reads + 1, addr |-> a, kind |-> k] \in Datagram
    BY <2>1 DEF Datagram
  <2> QED
    BY <1>1, <1>5, <2>1, <2>2 DEF ReadFromUDP, NetOK
<1>6. ASSUME Shutdown PROVE NetOK'
  BY <1>1, <1>6 DEF Shutdown, NetOK
<1>7. ASSUME NEW d \in spawned, Lock(d) PROVE NetOK'
  BY <1>1, <1>7 DEF Lock, NetOK
<1>8. ASSUME Opened PROVE NetOK'
  <2>1. target \in Conns /\ target <= fd
    BY <1>1, <1>8, ConstantsAssumption DEF Opened, Inv, HolderKnowsTarget, RegistryOK, Conns
  <2>2. sent' \in SUBSET Sent
    BY <1>4, <1>8, <2>1 DEF Opened, AllKinds
  <2> QED
    BY <1>3, <1>8, <2>2 DEF Opened
<1>9. ASSUME NEW c \in Conns, TimerExpire(c) PROVE NetOK'
  <2>1. c <= fd
    BY <1>9 DEF TimerExpire, Inv, UnbornIsInert
  <2>2. sent' \in SUBSET Sent
    BY <1>4, <1>9, <2>1 DEF TimerExpire, AllKinds
  <2> QED
    BY <1>3, <1>9, <2>2 DEF TimerExpire
<1>10. ASSUME NEW c \in Conns, LoopPing(c) PROVE NetOK'
  <2>1. c <= fd
    BY <1>10 DEF LoopPing, Inv, UnbornIsInert
  <2>2. sent' \in SUBSET Sent
    <3>1. CASE UNCHANGED sent
      BY <1>1, <3>1 DEF NetOK
    <3>2. CASE Write(host[c], "pong")
      BY <1>4, <2>1, <3>2 DEF AllKinds, DataKinds
    <3> QED
      BY <1>10, <3>1, <3>2 DEF LoopPing
  <2> QED
    BY <1>3, <1>10, <2>2 DEF LoopPing
<1>11. ASSUME NEW c \in Conns, NEW k \in UserKinds, UserWrite(c, k) PROVE NetOK'
  <2>1. c <= fd
    BY <1>11 DEF UserWrite, Inv, UnbornIsInert
  <2>2. k \in AllKinds
    BY <1>11, ConstantsAssumption DEF UserWrite, AllKinds, DataKinds
  <2>3. sent' \in SUBSET Sent
    BY <1>4, <1>11, <2>1, <2>2 DEF UserWrite
  <2> QED
    BY <1>3, <1>11, <2>3 DEF UserWrite
<1>12. CASE UNCHANGED vars
  BY <1>1, <1>2, <1>12 DEF vars
<1>13. CASE Next
  <2>1. NetOK'
    BY <1>2, <1>5, <1>6, <1>7, <1>8, <1>9, <1>10, <1>11, <1>13
       DEF Next, ProcessStep, TimerStep, LoopStep, Ignore, Deliver, AcceptSend, Open,
           Close, Closing, Report, Signal, MapRace, ShortDatagram, Tick, TimerClose,
           TimerReport, TimerSignal,
           LoopReceive, LoopOther, LoopPanics
  <2>2. crashed' \in BOOLEAN
    BY <1>1, <1>13
       DEF Next, ProcessStep, TimerStep, LoopStep, ReadFromUDP, Shutdown, Lock, Ignore,
           Deliver, AcceptSend, Open, Opened, Close, Closing, Report, Signal, MapRace,
           ShortDatagram, Tick, TimerExpire, TimerClose, TimerReport, TimerSignal,
           LoopReceive, LoopPing, LoopOther, LoopPanics,
           UserWrite, Running
  <2> QED
    BY <2>1, <2>2
<1> QED
  BY <1>12, <1>13

-----------------------------------------------------------------------------
(* The two auxiliary facts *)

\* Who holds processLock works on a connection of its datagram's sender.
LEMMA HolderStep == Inv /\ [Next]_vars => HolderKnowsTarget'
<1> SUFFICES ASSUME Inv, [Next]_vars PROVE HolderKnowsTarget'
  OBVIOUS
<1>1. HolderKnowsTarget /\ NetOK /\ LockOK /\ RegistryOK /\ NewestInMap
  BY DEF Inv, TypeOK
<1>2. ASSUME UNCHANGED <<lockVars, fd, host>> PROVE HolderKnowsTarget'
  BY <1>1, <1>2 DEF lockVars, HolderKnowsTarget, newest
<1>3. ASSUME NEW d \in spawned, Lock(d) PROVE HolderKnowsTarget'
  BY <1>1, <1>3, ConstantsAssumption DEF Lock, HolderKnowsTarget, NetOK
<1>4. ASSUME Unlock PROVE HolderKnowsTarget'
  BY <1>4 DEF Unlock, HolderKnowsTarget
<1>5. ASSUME Deliver \/ Close PROVE HolderKnowsTarget'
  <2>1. cur \in Datagram
    BY <1>1, <1>5 DEF Deliver, Close, connOf, LockOK, HolderKnowsTarget
  <2>2. cur.addr \in Addrs /\ addrMap[cur.addr] \in connections /\ target' = addrMap[cur.addr]
    BY <1>5, <2>1 DEF Deliver, Close, connOf, found, Datagram
  <2>3. target' \in Conns /\ target' # 0
    BY <1>1, <2>2 DEF RegistryOK, Conns
  <2>4. host[target'] = cur.addr
    BY <2>2, <2>3 DEF Inv, AddrMapSound
  <2>5. target' \in 1..fd
    BY <1>1, <2>2, <2>3, ConstantsAssumption DEF Inv, UnbornIsInert, RegistryOK, Conns
  <2>6. newest(target', cur.addr)
    BY <1>1, <2>2, <2>3 DEF NewestInMap
  <2> QED
    BY <1>1, <1>5, <2>1, <2>4, <2>5, <2>6, ConstantsAssumption
       DEF Deliver, Close, connOf, HolderKnowsTarget, registry, newest
<1>6. ASSUME Open PROVE HolderKnowsTarget'
  <2>1. fd + 1 \in Conns /\ fd + 1 \in 1..fd'
    BY <1>1, <1>6, ConstantsAssumption DEF Open, addConnect, RegistryOK, Conns
  <2>2. host'[fd + 1] = cur.addr
    BY <1>1, <1>6, <2>1 DEF Open, addConnect, RegistryOK
  <2>3. \A d \in 1..fd' : d <= fd + 1
    BY <1>1, <1>6 DEF Open, addConnect, RegistryOK
  <2> QED
    BY <1>1, <1>6, <2>1, <2>2, <2>3 DEF Open, HolderKnowsTarget, newest
<1>7. ASSUME Closing \/ Report PROVE HolderKnowsTarget'
  BY <1>1, <1>7 DEF Closing, Report, delConnect, HolderKnowsTarget, newest
<1>8. ASSUME NEW c \in Conns, TimerClose(c) \/ TimerReport(c) PROVE HolderKnowsTarget'
  BY <1>2, <1>8 DEF TimerClose, TimerReport, delConnect
<1>9. CASE UNCHANGED vars
  BY <1>2, <1>9 DEF vars, registry
<1>10. CASE Next
  BY <1>2, <1>3, <1>4, <1>5, <1>6, <1>7, <1>8, <1>10
     DEF Next, ProcessStep, TimerStep, LoopStep, ReadFromUDP, Shutdown, Ignore,
         AcceptSend, Opened, Signal, MapRace, ShortDatagram, Tick, TimerExpire, TimerSignal,
         LoopReceive, LoopPing, LoopOther, LoopPanics, UserWrite, registry
<1> QED
  BY <1>9, <1>10

\* FDs not given out yet stay inert.
LEMMA UnbornStep == Inv /\ [Next]_vars => UnbornIsInert'
<1> SUFFICES ASSUME Inv, [Next]_vars PROVE UnbornIsInert'
  OBVIOUS
<1>1. UnbornIsInert /\ TypeOK /\ HolderKnowsTarget
  BY DEF Inv
<1> USE DEF TypeOK, RegistryOK
<1>2. ASSUME UNCHANGED <<registry, timerVars, loopVars>> PROVE UnbornIsInert'
  BY <1>1, <1>2 DEF UnbornIsInert, registry, timerVars, loopVars
<1>3. ASSUME AcceptSend PROVE UnbornIsInert'
  <2>1. target <= fd
    BY <1>1, <1>3, ConstantsAssumption DEF AcceptSend, hasRoom, HolderKnowsTarget
  <2> QED
    BY <1>1, <1>3, <2>1 DEF AcceptSend, hasRoom, UnbornIsInert, registry, timerVars, LoopsOK
<1>4. ASSUME Open PROVE UnbornIsInert'
  <2>1. cur.addr \in Addrs
    BY <1>1, <1>4 DEF Open, LockOK, HolderKnowsTarget, Datagram
  <2> SUFFICES ASSUME NEW c \in Conns
               PROVE  IF c <= fd' THEN host'[c] \in Addrs ELSE
                        /\ c \notin connections' /\ closes'[c] = 0 /\ host'[c] = NoAddr
                        /\ ~armed'[c] /\ ~tickC'[c] /\ timer'[c] = "wait"
                        /\ accept'[c] = <<>> /\ handling'[c] = NoDatagram /\ c \notin stopped'
    BY DEF UnbornIsInert
  <2>2. CASE c <= fd
    BY <1>1, <1>4, <2>1, <2>2, ConstantsAssumption DEF Open, addConnect, UnbornIsInert, Conns
  <2>3. CASE c = fd + 1
    BY <1>1, <1>4, <2>1, <2>3 DEF Open, addConnect
  <2>4. CASE ~(c <= fd + 1)
    <3>1. ~(c <= fd) /\ c # fd + 1 /\ ~(c <= fd')
      BY <1>1, <1>4, <2>4, ConstantsAssumption DEF Open, addConnect, Conns
    <3> QED
      BY <1>1, <1>4, <3>1 DEF Open, addConnect, UnbornIsInert, loopVars, TimersOK
  <2> QED
    BY <1>1, <2>2, <2>3, <2>4, ConstantsAssumption DEF Conns
<1>5. ASSUME Closing \/ Report PROVE UnbornIsInert'
  <2>1. target <= fd
    BY <1>1, <1>5, ConstantsAssumption DEF Closing, Report, HolderKnowsTarget
  <2> QED
    BY <1>1, <1>5, <2>1 DEF Closing, Report, OnClose, delConnect, UnbornIsInert, timerVars, loopVars
<1>6. ASSUME Signal PROVE UnbornIsInert'
  <2>1. target <= fd
    BY <1>1, <1>6, ConstantsAssumption DEF Signal, HolderKnowsTarget
  <2> QED
    BY <1>1, <1>6, <2>1 DEF Signal, closeReceived, atSelect, UnbornIsInert, registry, TimersOK
<1>7. ASSUME NEW c \in Conns, Tick(c) \/ TimerExpire(c) PROVE UnbornIsInert'
  <2>1. CASE Tick(c)
    BY <1>1, <2>1 DEF Tick, UnbornIsInert, registry, loopVars, TimersOK
  <2>2. CASE TimerExpire(c)
    BY <1>1, <2>2 DEF TimerExpire, UnbornIsInert, registry, loopVars, TimersOK
  <2> QED
    BY <1>7, <2>1, <2>2
<1>8. ASSUME NEW c \in Conns, TimerClose(c) \/ TimerReport(c) PROVE UnbornIsInert'
  BY <1>1, <1>8 DEF TimerClose, TimerReport, OnClose, delConnect, UnbornIsInert, loopVars, TimersOK
<1>9. ASSUME NEW c \in Conns, TimerSignal(c) PROVE UnbornIsInert'
  BY <1>1, <1>9 DEF TimerSignal, closeReceived, atSelect, UnbornIsInert, registry, TimersOK
<1>10. ASSUME NEW c \in Conns, LoopReceive(c) PROVE UnbornIsInert'
  BY <1>1, <1>10 DEF LoopReceive, atSelect, UnbornIsInert, registry, timerVars, LoopsOK
<1>11. ASSUME NEW c \in Conns, LoopPing(c) \/ LoopOther(c) PROVE UnbornIsInert'
  BY <1>1, <1>11 DEF LoopPing, LoopOther, Reset, UnbornIsInert, registry, timerVars, LoopsOK, TimersOK
<1>12. CASE UNCHANGED vars
  BY <1>2, <1>12 DEF vars
<1>13. CASE Next
  BY <1>2, <1>3, <1>4, <1>5, <1>6, <1>7, <1>8, <1>9, <1>10, <1>11, <1>13
     DEF Next, ProcessStep, TimerStep, LoopStep, ReadFromUDP, Shutdown, Lock, Ignore,
         Deliver, Opened, Close, MapRace, ShortDatagram, LoopPanics, UserWrite
<1> QED
  BY <1>12, <1>13

-----------------------------------------------------------------------------
(* The theorems *)

\* The inductive invariant holds in every state of the server.
THEOREM Invariance == Spec => []Inv
<1>1. Inv /\ [Next]_vars => Inv'
  BY RegistryStep, LockStep, TimersStep, LoopsStep, NetStep, HolderStep, UnbornStep
     DEF Inv, TypeOK, RegistryInv
<1> QED
  BY InitInv, <1>1, PTL DEF Spec

\* The variables keep their types; conn.accept stays within its capacity (346).
THEOREM TypeCorrect == Spec => []TypeOK
<1>1. Inv => TypeOK
  BY DEF Inv
<1> QED
  BY Invariance, <1>1, PTL

\* addrMap leads only to registered connections of the address (218-232).
THEOREM AddrMapCorrect == Spec => []AddrMapSound
<1>1. Inv => AddrMapSound
  BY DEF Inv
<1> QED
  BY Invariance, <1>1, PTL

\* No handler sees a datagram of another peer than its connection's (326-376).
THEOREM NoForeignMail == Spec => []OwnMail
<1>1. Inv => OwnMail
  BY DEF Inv
<1> QED
  BY Invariance, <1>1, PTL

\* OnClose follows the end of every session, from the goroutine that ended it;
\* where that was the peer's own Close, before the peer's next session (208-212).
THEOREM CloseReported == Spec => []OnCloseFollowsEnd
<1>1. Inv => OnCloseFollowsEnd
  <2> SUFFICES ASSUME Inv, NEW c \in 1..fd
               PROVE  /\ closes[c] > 0 => c \notin connections
                      /\ c \notin connections /\ closes[c] = 0 => endedByTimer(c) \/ endedByPeer(c)
                      /\ \A d \in 1..fd : d > c /\ host[d] = host[c] /\ closes[c] = 0 =>
                             c \in connections \/ endedByTimer(c)
    BY DEF OnCloseFollowsEnd
  <2>1. c \in Conns /\ closes[c] \in Nat
    BY ConstantsAssumption DEF Inv, TypeOK, RegistryOK, Conns
  <2>2. c \in connections <=> ends(c) = 0
    BY DEF Inv, LiveUntilEnded
  <2>3. c \in connections <=> closes[c] = 0 /\ ~endedByTimer(c) /\ ~endedByPeer(c)
    BY <2>1, <2>2 DEF ends, count
  <2>4. ASSUME NEW d \in 1..fd, d > c, host[d] = host[c] PROVE ~endedByPeer(c)
    <3>1. pc = "reporting" => newest(target, host[target])
      BY DEF Inv, HolderKnowsTarget
    <3>2. ~(d <= c)
      BY <2>1, <2>4 DEF Conns
    <3> QED
      BY <2>4, <3>1, <3>2 DEF endedByPeer, newest
  <2> QED
    BY <2>1, <2>3, <2>4
<1> QED
  BY Invariance, <1>1, PTL

\* Only a double close of a connection can make another one unreachable.
THEOREM Reachability == Spec => []ReachableUnlessDoubleClosed
<1>1. Inv => ReachableUnlessDoubleClosed
  BY DEF Inv
<1> QED
  BY Invariance, <1>1, PTL

\* The server implements the abstract sessions: FDs are neither reused nor
\* revived, and each keeps its peer.
THEOREM SessionsImplemented == Spec => ImplementsSessions
<1>1. Init => S!Init
  <2> SUFFICES ASSUME Init PROVE S!Init
    OBVIOUS
  <2> QED
    BY ConstantsAssumption DEF Init, S!Init, S!Fds, sessionStatus, Conns
<1>2. Inv /\ Inv' /\ [Next]_vars => [S!Next]_<<sessionStatus, host>>
  <2> SUFFICES ASSUME Inv, Inv', [Next]_vars
               PROVE  S!Next \/ UNCHANGED <<sessionStatus, host>>
    OBVIOUS
  <2>1. RegistryOK /\ RegistryOK' /\ UnbornIsInert
    BY DEF Inv, TypeOK
  <2>2. CASE UNCHANGED registry
    BY <2>2 DEF registry, sessionStatus
  <2>3. ASSUME Open PROVE S!Next
    <3> DEFINE c == fd + 1
    <3>1. c \in Conns /\ c \in S!Fds /\ cur.addr \in Addrs
      BY <2>1, <2>3, ConstantsAssumption
         DEF Open, RegistryOK, Conns, S!Fds, Inv, TypeOK, LockOK, HolderKnowsTarget, Datagram
    <3>2. sessionStatus[c] = "unborn" /\ \A b \in S!Fds : b < c => sessionStatus[b] # "unborn"
      BY <2>1, <3>1, ConstantsAssumption DEF sessionStatus, S!Fds, RegistryOK, Conns
    <3>3. host' = [host EXCEPT ![c] = cur.addr]
      BY <2>3 DEF Open, addConnect
    <3>4. sessionStatus' = [sessionStatus EXCEPT ![c] = "live"]
      <4>1. fd' = fd + 1 /\ connections' = connections \cup {c}
        BY <2>3 DEF Open, addConnect
      <4>2. ASSUME NEW b \in Conns
            PROVE  sessionStatus'[b] = [sessionStatus EXCEPT ![c] = "live"][b]
        <5>1. CASE b = c
          BY <2>1, <3>1, <4>1, <5>1, ConstantsAssumption DEF sessionStatus, RegistryOK, Conns
        <5>2. CASE b # c
          <6>1. (b > fd') <=> (b > fd)
            BY <2>1, <4>1, <5>2, ConstantsAssumption DEF RegistryOK, Conns
          <6> QED
            BY <4>1, <5>2, <6>1 DEF sessionStatus
        <5> QED
          BY <5>1, <5>2
      <4> QED
        BY <4>2 DEF sessionStatus
    <3>5. S!Begin(c, cur.addr)
      BY <3>2, <3>3, <3>4 DEF S!Begin
    <3> QED
      BY <3>1, <3>5 DEF S!Next
  <2>4. ASSUME NEW c \in Conns, c <= fd, delConnect(c)
        PROVE  S!Next \/ UNCHANGED <<sessionStatus, host>>
    <3>1. fd' = fd /\ host' = host /\ connections' = connections \ {c}
      BY <2>4 DEF delConnect
    <3>2. CASE c \notin connections
      BY <3>1, <3>2 DEF sessionStatus
    <3>3. CASE c \in connections
      <4>1. ~(c > fd)
        BY <2>1, <2>4, ConstantsAssumption DEF RegistryOK, Conns
      <4>2. sessionStatus[c] = "live"
        BY <3>3, <4>1 DEF sessionStatus
      <4>3. sessionStatus' = [sessionStatus EXCEPT ![c] = "gone"]
        BY <3>1, <4>1 DEF sessionStatus
      <4>4. S!End(c)
        BY <3>1, <4>2, <4>3 DEF S!End
      <4> QED
        BY <4>4 DEF S!Next, S!Fds, Conns
    <3> QED
      BY <3>2, <3>3
  <2>5. ASSUME Closing PROVE S!Next \/ UNCHANGED <<sessionStatus, host>>
    <3>1. target \in Conns /\ target <= fd
      BY <2>1, <2>5, ConstantsAssumption DEF Closing, Inv, HolderKnowsTarget, RegistryOK, Conns
    <3> QED
      BY <2>4, <2>5, <3>1 DEF Closing
  <2>6. ASSUME NEW c \in Conns, TimerClose(c)
        PROVE  S!Next \/ UNCHANGED <<sessionStatus, host>>
    <3>1. c <= fd
      BY <2>1, <2>6 DEF TimerClose, UnbornIsInert
    <3> QED
      BY <2>4, <2>6, <3>1 DEF TimerClose
  <2>9. ASSUME Report PROVE UNCHANGED <<sessionStatus, host>>
    BY <2>9 DEF Report, sessionStatus
  <2>10. ASSUME NEW c \in Conns, TimerReport(c) PROVE UNCHANGED <<sessionStatus, host>>
    BY <2>10 DEF TimerReport, sessionStatus
  <2>7. CASE UNCHANGED vars
    BY <2>2, <2>7 DEF vars
  <2>8. CASE Next
    BY <2>2, <2>3, <2>5, <2>6, <2>8, <2>9, <2>10
       DEF Next, ProcessStep, TimerStep, LoopStep, ReadFromUDP, Shutdown, Lock, Ignore,
           Deliver, AcceptSend, Opened, Close, Signal, MapRace, ShortDatagram, Tick, TimerExpire,
           TimerSignal, LoopReceive, LoopPing, LoopOther, LoopPanics, UserWrite
  <2> QED
    BY <2>7, <2>8
<1> QED
  BY <1>1, <1>2, Invariance, PTL DEF Spec, ImplementsSessions, S!Spec
=============================================================================
