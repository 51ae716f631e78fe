-------------------------- MODULE StreamServerProofs --------------------------
(***************************************************************************)
(* Proofs about StreamServer for any finite set of connections, any set of *)
(* emitters and any messages.                                              *)
(***************************************************************************)
EXTENDS StreamServer, FiniteSetTheorems, SequenceTheorems, TLAPS

-----------------------------------------------------------------------------
(* The registry *)

RegistryInv == RegistryOK /\ ProcessOK /\ FdsSound /\ RegistrySound

\* The connections that got an FD.
Served == {c \in Conns : fdOf[c] # 0}

\* The bound on FDs is a number, for Conns is finite.
LEMMA MaxFdType == MaxFd \in Nat /\ IsFiniteSet(Served)
<1>1. MaxFd \in Nat
  BY ConstantsAssumption, FS_CardinalityType DEF MaxFd
<1>2. Served \in SUBSET Conns
  BY DEF Served
<1> QED
  BY <1>1, <1>2, ConstantsAssumption, FS_Subset

\* A connection that has not been served yet leaves room for its FD.
LEMMA RoomForFd ==
    ASSUME FdsSound, NEW c \in Conns, fdOf[c] = 0
    PROVE  fd < MaxFd
<1>1. Served \in SUBSET Conns /\ Served # Conns /\ fd = Cardinality(Served)
  BY DEF Served, FdsSound
<1>2. Cardinality(Served) <= MaxFd /\ Cardinality(Served) # MaxFd
  BY <1>1, ConstantsAssumption, FS_Subset DEF MaxFd
<1>3. Cardinality(Served) \in Nat /\ MaxFd \in Nat
  BY MaxFdType, FS_CardinalityType
<1> QED
  BY <1>1, <1>2, <1>3

\* At the start nobody is registered.
LEMMA RegistryInit == Init => RegistryInv
<1> SUFFICES ASSUME Init PROVE RegistryInv
  OBVIOUS
<1> USE DEF Init
<1>1. 0 \in 0..MaxFd
  BY MaxFdType
<1>2. RegistryOK /\ ProcessOK
  BY <1>1 DEF RegistryOK, ProcessOK
<1>3. {c \in Conns : fdOf[c] # 0} = {} /\ 1..fd = {}
  OBVIOUS
<1>4. FdsSound
  <2>1. fd = Cardinality({c \in Conns : fdOf[c] # 0})
    BY <1>3, FS_EmptySet
  <2>2. \A c \in Conns : fdOf[c] <= fd
    OBVIOUS
  <2>3. \A c \in Conns : fdOf[c] = 0 <=> pc[c] \in {"new", "accepted", "refused"}
    OBVIOUS
  <2> QED
    BY <1>3, <2>1, <2>2, <2>3 DEF FdsSound
<1>5. {d \in Conns : live(d)} = {}
  BY DEF live
<1>6. RegistrySound
  BY <1>5 DEF RegistrySound
<1> QED
  BY <1>2, <1>4, <1>6 DEF RegistryInv

\* addConnect: a new FD for a connection without one.
LEMMA RegisterKeeps ==
    ASSUME RegistryInv, NEW c \in Conns, Register(c)
    PROVE  RegistryInv'
<1> USE DEF RegistryInv, RegistryOK, ProcessOK
<1>1. fdOf[c] = 0 /\ pc[c] = "accepted" /\ fd < MaxFd
  BY RoomForFd DEF Register, Goto, FdsSound
<1>2. /\ fd' = fd + 1 /\ connections' = connections \cup {fd + 1}
      /\ fdOf' = [fdOf EXCEPT ![c] = fd + 1] /\ pc' = [pc EXCEPT ![c] = "onOpen"]
      /\ sock' = sock
  BY DEF Register, Goto, addConnect, net
<1>3. fd + 1 \in 1..MaxFd /\ fd' \in 0..MaxFd
  BY <1>1, <1>2, MaxFdType
<1>4. RegistryOK' /\ ProcessOK'
  BY <1>2, <1>3, MaxFdType DEF Fds
<1>5. \A d \in Conns : d # c => fdOf'[d] = fdOf[d] /\ pc'[d] = pc[d]
  BY <1>2
<1>6. fdOf'[c] = fd + 1 /\ pc'[c] = "onOpen"
  BY <1>2
<1>7. FdsSound'
  <2>1. {d \in Conns : fdOf'[d] # 0} = Served \cup {c}
    BY <1>3, <1>5, <1>6 DEF Served
  <2>2. c \notin Served /\ fd = Cardinality(Served)
    BY <1>1 DEF Served, FdsSound
  <2>3. Cardinality(Served \cup {c}) = fd + 1
    BY <2>2, MaxFdType, FS_AddElement
  <2>4. \A d \in Conns : fdOf'[d] <= fd'
    BY <1>2, <1>3, <1>5, <1>6 DEF FdsSound
  <2>5. \A d \in Conns : fdOf'[d] = 0 <=> pc'[d] \in {"new", "accepted", "refused"}
    BY <1>3, <1>5, <1>6 DEF FdsSound
  <2>6. ASSUME NEW f \in 1..fd' PROVE \E d \in Conns : fdOf'[d] = f
    <3>1. CASE f = fd + 1
      BY <1>6, <3>1
    <3>2. CASE f # fd + 1
      <4>1. f \in 1..fd
        BY <1>2, <3>2
      <4>2. PICK d \in Conns : fdOf[d] = f
        BY <4>1 DEF FdsSound
      <4>3. d # c
        BY <1>1, <4>1, <4>2
      <4> QED
        BY <1>5, <4>2, <4>3
    <3> QED
      BY <3>1, <3>2
  <2> QED
    BY <1>2, <2>1, <2>3, <2>4, <2>5, <2>6 DEF FdsSound
<1>8. RegistrySound'
  <2>1. \A d \in Conns : live(d)' <=> (d = c \/ live(d))
    BY <1>5, <1>6 DEF live
  <2>2. connections' = {fdOf'[d] : d \in {x \in Conns : live(x)'}}
    <3>1. ~live(c)
      BY <1>1 DEF live
    <3> QED
      BY <1>2, <1>5, <1>6, <2>1, <3>1 DEF RegistrySound
  <2>3. \A d, e \in Conns : fdOf'[d] = fdOf'[e] /\ fdOf'[d] # 0 => d = e
    <3>1. \A d \in Conns : fdOf[d] # fd + 1
      BY DEF FdsSound
    <3> QED
      BY <1>5, <1>6, <3>1 DEF RegistrySound
  <2>4. \A d \in Conns : pc'[d] \in {"closing", "onClose", "done"} => ~sock'[d]
    BY <1>2, <1>5, <1>6 DEF RegistrySound
  <2> QED
    BY <2>2, <2>3, <2>4 DEF RegistrySound
<1> QED
  BY <1>4, <1>7, <1>8

\* delConnect, by the process of the connection whose FD it deletes.
LEMMA UnregisterKeeps ==
    ASSUME RegistryInv, NEW c \in Conns, Unregister(c)
    PROVE  RegistryInv'
<1> USE DEF RegistryInv, RegistryOK, ProcessOK
<1>1. pc[c] = "closing" /\ fdOf[c] # 0
  BY DEF Unregister, Goto, FdsSound
<1>2. /\ fd' = fd /\ fdOf' = fdOf /\ connections' = connections \ {fdOf[c]}
      /\ pc' = [pc EXCEPT ![c] = "onClose"] /\ sock' = sock
  BY DEF Unregister, Goto, delConnect, net
<1>3. RegistryOK' /\ ProcessOK'
  BY <1>2
<1>4. pc'[c] = "onClose" /\ \A d \in Conns : d # c => pc'[d] = pc[d]
  BY <1>2
<1>5. FdsSound'
  BY <1>1, <1>2, <1>4 DEF FdsSound
<1>6. RegistrySound'
  <2>1. \A d \in Conns : live(d)' <=> (d # c /\ live(d))
    BY <1>4 DEF live
  <2>2. \A d \in Conns : fdOf[d] = fdOf[c] => d = c
    BY <1>1 DEF RegistrySound
  <2>3. connections' = {fdOf'[d] : d \in {x \in Conns : live(x)'}}
    BY <1>2, <2>1, <2>2 DEF RegistrySound
  <2>4. \A d \in Conns : pc'[d] \in {"closing", "onClose", "done"} => ~sock'[d]
    BY <1>1, <1>2, <1>4 DEF RegistrySound
  <2> QED
    BY <1>2, <2>3, <2>4 DEF RegistrySound
<1> QED
  BY <1>3, <1>5, <1>6

\* Every other step of a process moves it among the places that are, or are not,
\* between addConnect and delConnect, and closes the connection before "closing".
LEMMA MoveKeeps ==
    ASSUME RegistryInv, UNCHANGED registry, NEW c \in Conns, NEW p,
           pc' = [pc EXCEPT ![c] = p],
           \/ pc[c] \in {"new", "accepted"} /\ p \in {"accepted", "refused"}
           \/ pc[c] \in {"onOpen", "read", "pong", "ponging", "handle", "reply", "replying"}
                /\ p \in {"read", "pong", "ponging", "handle", "reply", "replying", "closing",
                          "lost"}
           \/ pc[c] = "onClose" /\ p = "done",
           \A d \in Conns : d # c /\ sock'[d] => sock[d],
           p \in {"closing", "done"} => (sock'[c] => sock[c] /\ p = "done")
    PROVE  RegistryInv'
<1> USE DEF RegistryInv, RegistryOK, ProcessOK, registry
<1>1. pc'[c] = p /\ \A d \in Conns : d # c => pc'[d] = pc[d]
  OBVIOUS
<1>2. RegistryOK' /\ ProcessOK'
  OBVIOUS
<1>3. FdsSound'
  <2>1. \A d \in Conns : pc'[d] \in {"new", "accepted", "refused"}
                           <=> pc[d] \in {"new", "accepted", "refused"}
    BY <1>1
  <2> QED
    BY <2>1 DEF FdsSound
<1>4. RegistrySound'
  <2>1. \A d \in Conns : live(d)' <=> live(d)
    BY <1>1 DEF live
  <2>2. \A d \in Conns : pc'[d] \in {"closing", "onClose", "done"} => ~sock'[d]
    BY <1>1 DEF RegistrySound
  <2> QED
    BY <2>1, <2>2 DEF RegistrySound
<1> QED
  BY <1>2, <1>3, <1>4

\* No step spoils the registry.
LEMMA RegistryStep == NetOK /\ RegistryInv /\ [Next]_vars => RegistryInv'
<1> SUFFICES ASSUME NetOK, RegistryInv, [Next]_vars PROVE RegistryInv'
  OBVIOUS
<1>0. sock \in [Conns -> BOOLEAN]
  BY DEF NetOK
<1>1. ASSUME UNCHANGED <<registry, pc>>, \A c \in Conns : sock'[c] => sock[c]
      PROVE  RegistryInv'
  <2> USE <1>1 DEF RegistryInv, RegistryOK, ProcessOK, registry
  <2>1. \A c \in Conns : live(c)' <=> live(c)
    BY DEF live
  <2>2. FdsSound' /\ RegistrySound'
    BY <2>1 DEF FdsSound, RegistrySound
  <2> QED
    BY <2>2
<1>2. ASSUME NEW c \in Conns, Process(c) PROVE RegistryInv'
  <2>1. CASE Register(c)
    BY <2>1, RegisterKeeps
  <2>2. CASE Unregister(c)
    BY <2>2, UnregisterKeeps
  <2>3. CASE SetupFails(c)
    BY <2>3, MoveKeeps DEF SetupFails, Goto, net
  <2>4. CASE OnOpenReturns(c) \/ Handled(c) \/ Replies(c) \/ OnCloseReturns(c)
    BY <2>4, MoveKeeps DEF OnOpenReturns, Handled, Replies, OnCloseReturns, Goto, net
  <2>5. CASE PongLock(c) \/ PongWritten(c)
    BY <2>5, MoveKeeps DEF PongLock, PongWritten, Goto, net
  <2>8. CASE ReplyLock(c) \/ ReplyWritten(c)
    BY <2>8, MoveKeeps DEF ReplyLock, ReplyWritten, Goto, net
  <2>9. CASE SetupPanics(c)
    BY <1>1, <2>9 DEF SetupPanics, net
  <2>10. CASE DecodePanics(c)
    <3>1. CASE UNCHANGED pc
      BY <1>1, <2>10, <3>1 DEF DecodePanics
    <3>2. CASE pc' = [pc EXCEPT ![c] = "lost"]
      BY <2>10, <3>2, MoveKeeps DEF DecodePanics
    <3> QED
      BY <2>10, <3>1, <3>2 DEF DecodePanics
  <2>6. CASE ReadFails(c)
    <3>1. sock' = [sock EXCEPT ![c] = FALSE] /\ UNCHANGED registry
          /\ pc[c] = "read" /\ pc' = [pc EXCEPT ![c] = "closing"]
      BY <2>6 DEF ReadFails, Goto
    <3>2. \A d \in Conns : sock'[d] => sock[d] /\ d # c
      BY <1>0, <3>1
    <3> QED
      BY <3>1, <3>2, MoveKeeps
  <2>7. ASSUME NEW k \in Kinds, Read(c, k) PROVE RegistryInv'
    <3> DEFINE p == IF k = "bad" THEN "closing" ELSE
                    IF k = "ping" THEN "pong" ELSE IF k = "bin" THEN "handle" ELSE "read"
    <3>1. /\ pc[c] = "read" /\ pc' = [pc EXCEPT ![c] = p] /\ UNCHANGED registry
          /\ sock' = [sock EXCEPT ![c] = k # "bad"] /\ sock[c]
      BY <2>7 DEF Read, Goto
    <3>2. /\ \A d \in Conns : d # c /\ sock'[d] => sock[d]
          /\ p = "closing" => ~sock'[c]
      BY <1>0, <3>1
    <3>3. p \in {"read", "pong", "handle", "closing"}
      OBVIOUS
    <3> HIDE DEF p
    <3> QED
      BY <3>1, <3>2, <3>3, MoveKeeps
  <2> QED
    BY <1>2, <2>1, <2>2, <2>3, <2>4, <2>5, <2>6, <2>7, <2>8, <2>9, <2>10 DEF Process
<1>3. ASSUME NEW c \in Conns, Environment(c) PROVE RegistryInv'
  <2>1. CASE Accept(c)
    <3>1. /\ pc[c] = "new" /\ pc' = [pc EXCEPT ![c] = "accepted"] /\ UNCHANGED registry
          /\ sock' = [sock EXCEPT ![c] = TRUE]
      BY <2>1 DEF Accept, Goto
    <3>2. \A d \in Conns : d # c /\ sock'[d] => sock[d]
      BY <1>0, <3>1
    <3> QED
      BY <3>1, <3>2, MoveKeeps
  <2>2. CASE UserClose(c)
    <3>1. sock' = [sock EXCEPT ![c] = FALSE] /\ UNCHANGED <<registry, pc>>
      BY <2>2 DEF UserClose
    <3>2. \A d \in Conns : sock'[d] => sock[d]
      BY <1>0, <3>1
    <3> QED
      BY <1>1, <3>1, <3>2
  <2>3. CASE PeerCloses(c) \/ PeerStalls(c) \/ Deadline(c)
    BY <1>1, <2>3 DEF PeerCloses, PeerStalls, Deadline
  <2>4. ASSUME NEW k \in Kinds, PeerSends(c, k) PROVE RegistryInv'
    BY <1>1, <2>4 DEF PeerSends
  <2> QED
    BY <1>3, <2>1, <2>2, <2>3, <2>4 DEF Environment
<1>4. ASSUME NEW e \in Emitters, Emitter(e) \/ EmitAll(e) PROVE RegistryInv'
  BY <1>1, <1>4 DEF Emitter, EmitAll, EmitLock, EmitWritten, EmitDone, EmitNext, net
<1>5. CASE Shutdown \/ MapRace \/ UNCHANGED vars
  BY <1>1, <1>5 DEF Shutdown, MapRace, vars, net, registry
<1> QED
  BY <1>2, <1>3, <1>4, <1>5 DEF Next

-----------------------------------------------------------------------------
(* The network *)

\* No step takes a variable of the network out of its type.
LEMMA NetStep == NetOK /\ [Next]_vars => NetOK'
<1> SUFFICES ASSUME NetOK, [Next]_vars PROVE NetOK'
  OBVIOUS
<1> USE ConstantsAssumption DEF NetOK
<1>1. CASE UNCHANGED net
  BY <1>1 DEF net
<1>2. ASSUME NEW c \in Conns, Environment(c) PROVE NetOK'
  <2>1. CASE Accept(c)
    BY <2>1 DEF Accept
  <2>2. CASE UserClose(c)
    BY <2>2 DEF UserClose
  <2>3. CASE PeerCloses(c)
    BY <2>3 DEF PeerCloses
  <2>4. CASE PeerStalls(c)
    BY <2>4 DEF PeerStalls
  <2>5. CASE Deadline(c)
    BY <2>5 DEF Deadline
  <2>6. ASSUME NEW k \in Kinds, PeerSends(c, k) PROVE NetOK'
    <3>1. mail[c] \in 0..MaxMail /\ mail[c] < MaxMail
      BY <2>6 DEF PeerSends
    <3>2. mail' \in [Conns -> 0..MaxMail]
      BY <2>6, <3>1 DEF PeerSends
    <3>3. Append(inbox[c], k) \in Seq(Kinds)
      BY AppendProperties
    <3>4. inbox' \in [Conns -> Seq(Kinds)]
      BY <2>6, <3>3 DEF PeerSends
    <3> QED
      BY <2>6, <3>2, <3>4 DEF PeerSends
  <2> QED
    BY <1>2, <2>1, <2>2, <2>3, <2>4, <2>5, <2>6 DEF Environment
<1>3. ASSUME NEW c \in Conns, Process(c) PROVE NetOK'
  <2>1. ASSUME NEW k \in Kinds, Read(c, k) PROVE NetOK'
    <3>1. Tail(inbox[c]) \in Seq(Kinds)
      BY <2>1, HeadTailProperties DEF Read
    <3>2. inbox' \in [Conns -> Seq(Kinds)]
      BY <2>1, <3>1 DEF Read
    <3>3. sock' \in [Conns -> BOOLEAN]
      BY <2>1 DEF Read
    <3> QED
      BY <2>1, <3>2, <3>3 DEF Read
  <2>2. CASE PongWritten(c)
    BY <2>2 DEF PongWritten
  <2>3. CASE ReadFails(c)
    BY <2>3 DEF ReadFails
  <2>4. CASE SetupFails(c) \/ SetupPanics(c) \/ Register(c) \/ OnOpenReturns(c) \/ Handled(c)
             \/ Replies(c) \/ ReplyLock(c) \/ ReplyWritten(c) \/ PongLock(c)
             \/ Unregister(c) \/ OnCloseReturns(c)
    BY <1>1, <2>4 DEF SetupFails, SetupPanics, Register, OnOpenReturns, Handled, Replies,
                      ReplyLock, ReplyWritten, PongLock, Unregister, OnCloseReturns
  <2>5. CASE DecodePanics(c)
    <3>1. Tail(inbox[c]) \in Seq(Kinds)
      BY <2>5, HeadTailProperties DEF DecodePanics
    <3>2. inbox' \in [Conns -> Seq(Kinds)]
      BY <2>5, <3>1 DEF DecodePanics
    <3> QED
      BY <2>5, <3>2 DEF DecodePanics
  <2> QED
    BY <1>3, <2>1, <2>2, <2>3, <2>4, <2>5 DEF Process
<1>4. ASSUME NEW e \in Emitters, Emitter(e) \/ EmitAll(e) PROVE NetOK'
  BY <1>1, <1>4 DEF Emitter, EmitAll, EmitLock, EmitWritten, EmitDone, EmitNext
<1>5. CASE Shutdown \/ MapRace \/ UNCHANGED vars
  BY <1>1, <1>5 DEF Shutdown, MapRace, vars
<1> QED
  BY <1>2, <1>3, <1>4, <1>5 DEF Next

-----------------------------------------------------------------------------
(* Writers *)

WritersInv == ProcessOK /\ WritersOK /\ MuxSound

\* At the start nobody writes.
LEMMA WritersInit == Init => WritersInv
<1> SUFFICES ASSUME Init PROVE WritersInv
  OBVIOUS
<1> USE ConstantsAssumption DEF Init
<1>1. 0 \in 0..MaxFd /\ 0 \in 0..MaxEmits
  BY MaxFdType
<1>2. ProcessOK
  BY DEF ProcessOK
<1>3. \A e \in Emitters : em[e].at = "idle" /\ em[e] \in EmitterState
  BY <1>1 DEF EmitterState
<1>4. WritersOK
  BY <1>3 DEF WritersOK
<1>5. MuxSound
  BY <1>3 DEF MuxSound, writing
<1> QED
  BY <1>2, <1>4, <1>5 DEF WritersInv

\* A step of a process, or none at all.
LEMMA ProcessWrites ==
    ASSUME WritersInv, UNCHANGED em, NEW c \in Conns, ProcessOK',
           \A d \in Conns : d # c => pc'[d] = pc[d] /\ wmux'[d] = wmux[d],
           \/ UNCHANGED wmux /\ (writing(c)' <=> writing(c))
           \/ wmux[c] = NoConn /\ wmux' = [wmux EXCEPT ![c] = c] /\ writing(c)'
           \/ wmux[c] = c /\ wmux' = [wmux EXCEPT ![c] = NoConn] /\ ~writing(c)'
    PROVE  WritersInv'
<1> USE ConstantsAssumption DEF WritersInv, WritersOK
<1>1. WritersOK'
  OBVIOUS
<1>2. c # NoConn /\ \A e \in Emitters : e # c /\ e # NoConn
  OBVIOUS
<1>4. \A d \in Conns : d # c => (writing(d)' <=> writing(d))
  BY DEF writing
<1>3. MuxSound'
  BY <1>2, <1>4 DEF MuxSound
<1> QED
  BY <1>1, <1>3

\* A step of an emitter, which takes, has or gives back one mutex.
LEMMA EmitterWrites ==
    ASSUME WritersInv, UNCHANGED pc, NEW e \in Emitters, Emitter(e) \/ EmitAll(e), fd \in 0..MaxFd
    PROVE  WritersInv'
<1> USE ConstantsAssumption DEF WritersInv, ProcessOK, WritersOK
<1> DEFINE x == em[e]
<1>0. x \in EmitterState /\ x.at \in {"idle", "next", "lock", "write"}
  BY DEF EmitterState
<1>1. ASSUME NEW y \in EmitterState, em' = [em EXCEPT ![e] = y],
             y.at \in {"lock", "write"} => y.to \in Conns
      PROVE  /\ em' \in [Emitters -> EmitterState]
             /\ \A f \in Emitters : em'[f].at \in {"lock", "write"} => em'[f].to \in Conns
             /\ em'[e] = y /\ \A f \in Emitters \ {e} : em'[f] = em[f]
  BY <1>1
<1>2. CASE EmitAll(e)
  <2> DEFINE y == [at |-> "next", to |-> NoConn, tried |-> {}, last |-> fd, calls |-> x.calls + 1]
  <2>1. em' = [em EXCEPT ![e] = y] /\ x.at = "idle" /\ x.calls < MaxEmits /\ wmux' = wmux
    BY <1>2 DEF EmitAll
  <2>2. x.calls + 1 \in 0..MaxEmits
    BY <1>0, <2>1 DEF EmitterState
  <2>3. y \in EmitterState /\ y.at = "next"
    BY <2>2 DEF EmitterState
  <2> HIDE DEF y
  <2> QED
    BY <1>1, <2>1, <2>3 DEF MuxSound, writing
<1>3. ASSUME NEW c \in Conns, EmitNext(e, c) PROVE WritersInv'
  <2> DEFINE y == [x EXCEPT !.at = "lock", !.to = c]
  <2>1. em' = [em EXCEPT ![e] = y] /\ x.at = "next" /\ wmux' = wmux
    BY <1>3 DEF EmitNext, EmitterState
  <2>2. y \in EmitterState /\ y.at = "lock" /\ y.to = c
    BY <1>0 DEF EmitterState
  <2> HIDE DEF y
  <2> QED
    BY <1>1, <2>1, <2>2 DEF MuxSound, writing
<1>4. CASE EmitLock(e)
  <2> DEFINE y == [x EXCEPT !.at = "write"]
             c == x.to
  <2>1. /\ em' = [em EXCEPT ![e] = y] /\ x.at = "lock"
        /\ wmux[c] = NoConn /\ wmux' = [wmux EXCEPT ![c] = e]
    BY <1>4 DEF EmitLock, Acquire, EmitterState
  <2>2. y \in EmitterState /\ y.at = "write" /\ y.to = c /\ c \in Conns
    BY <1>0, <2>1 DEF EmitterState
  <2> HIDE DEF y, c
  <2>3. wmux' \in [Conns -> Conns \cup Emitters \cup {NoConn}]
    BY <2>1
  <2>4. \A d \in Conns : wmux'[d] = IF d = c THEN e ELSE wmux[d]
    BY <2>1, <2>2
  <2>5. /\ em' \in [Emitters -> EmitterState]
        /\ \A f \in Emitters : em'[f].at \in {"lock", "write"} => em'[f].to \in Conns
        /\ em'[e] = y /\ \A f \in Emitters \ {e} : em'[f] = em[f]
    BY <1>1, <2>1, <2>2
  <2>6. x.at # "write"
    BY <2>1
  <2>7. MuxSound'
    BY <2>1, <2>2, <2>4, <2>5, <2>6 DEF MuxSound, writing
  <2> QED
    BY <2>3, <2>5, <2>7
<1>5. CASE EmitWritten(e)
  <2> DEFINE c == x.to
             y == [x EXCEPT !.at = "next", !.to = NoConn, !.tried = @ \cup {c}]
  <2>1. /\ em' = [em EXCEPT ![e] = y] /\ x.at = "write"
        /\ wmux' = [wmux EXCEPT ![c] = NoConn]
    BY <1>5 DEF EmitWritten, Release, EmitterState
  <2>2. c \in Conns /\ y \in EmitterState /\ y.at = "next"
    BY <1>0, <2>1 DEF EmitterState
  <2>3. wmux[c] = e
    BY <2>1, <2>2 DEF MuxSound
  <2> HIDE DEF y, c
  <2>4. wmux' \in [Conns -> Conns \cup Emitters \cup {NoConn}]
    BY <2>1
  <2>5. \A d \in Conns : wmux'[d] = IF d = c THEN NoConn ELSE wmux[d]
    BY <2>1, <2>2
  <2>6. /\ em' \in [Emitters -> EmitterState]
        /\ \A f \in Emitters : em'[f].at \in {"lock", "write"} => em'[f].to \in Conns
        /\ em'[e] = y /\ \A f \in Emitters \ {e} : em'[f] = em[f]
    BY <1>1, <2>1, <2>2
  <2>7. \A d \in Conns \ {c} : wmux[d] # e
    BY <2>1, <2>3 DEF MuxSound, c
  <2>8. MuxSound'
    BY <2>2, <2>3, <2>5, <2>6, <2>7 DEF MuxSound, writing
  <2> QED
    BY <2>4, <2>6, <2>8
<1>6. CASE EmitDone(e)
  <2> DEFINE y == [x EXCEPT !.at = "idle", !.tried = {}, !.last = 0]
  <2>1. em' = [em EXCEPT ![e] = y] /\ x.at = "next" /\ wmux' = wmux
    BY <1>6 DEF EmitDone, EmitterState
  <2>2. 0 \in 0..MaxFd
    BY MaxFdType
  <2>3. y \in EmitterState /\ y.at = "idle"
    BY <1>0, <2>2 DEF EmitterState
  <2> HIDE DEF y
  <2> QED
    BY <1>1, <2>1, <2>3 DEF MuxSound, writing
<1> QED
  BY <1>2, <1>3, <1>4, <1>5, <1>6 DEF Emitter

\* No step spoils the mutexes.
LEMMA WritersStep == RegistryOK /\ ProcessOK' /\ WritersInv /\ [Next]_vars => WritersInv'
<1> SUFFICES ASSUME RegistryOK, ProcessOK', WritersInv, [Next]_vars PROVE WritersInv'
  OBVIOUS
<1>1. ASSUME UNCHANGED <<pc, wmux, em>> PROVE WritersInv'
  BY <1>1 DEF WritersInv, ProcessOK, WritersOK, MuxSound, writing
<1>2. ASSUME NEW c \in Conns, NEW p, NEW q, Goto(c, p, q),
             {p, q} \cap {"ponging", "replying"} = {}, UNCHANGED <<wmux, em>>
      PROVE  WritersInv'
  <2>1. /\ \A d \in Conns : d # c => pc'[d] = pc[d] /\ wmux'[d] = wmux[d]
        /\ pc[c] = p /\ pc'[c] = q
    BY <1>2 DEF Goto, WritersInv, ProcessOK
  <2> QED
    BY <1>2, <2>1, ProcessWrites DEF writing
<1>3. ASSUME NEW c \in Conns, Process(c) PROVE WritersInv'
  <2>1. CASE PongLock(c) \/ ReplyLock(c)
    <3>1. /\ writing(c)' /\ wmux[c] = NoConn /\ wmux' = [wmux EXCEPT ![c] = c]
          /\ UNCHANGED em
          /\ \A d \in Conns : d # c => pc'[d] = pc[d] /\ wmux'[d] = wmux[d]
      BY <2>1 DEF PongLock, ReplyLock, Goto, Acquire, WritersInv, ProcessOK, WritersOK, writing
    <3> QED
      BY <3>1, ProcessWrites
  <2>2. CASE PongWritten(c) \/ ReplyWritten(c)
    <3>1. /\ writing(c) /\ ~writing(c)' /\ wmux' = [wmux EXCEPT ![c] = NoConn]
          /\ UNCHANGED em
          /\ \A d \in Conns : d # c => pc'[d] = pc[d] /\ wmux'[d] = wmux[d]
      BY <2>2 DEF PongWritten, ReplyWritten, Goto, Release, WritersInv, ProcessOK, WritersOK,
                  writing
    <3>2. wmux[c] = c
      BY <3>1 DEF WritersInv, MuxSound
    <3> QED
      BY <3>1, <3>2, ProcessWrites
  <2>3. ASSUME NEW k \in Kinds, Read(c, k) PROVE WritersInv'
    BY <1>2, <2>3 DEF Read
  <2>4. CASE SetupFails(c) \/ Register(c) \/ OnOpenReturns(c) \/ Handled(c) \/ Replies(c)
             \/ ReadFails(c) \/ Unregister(c) \/ OnCloseReturns(c)
    BY <1>2, <2>4 DEF SetupFails, Register, OnOpenReturns, Handled, Replies, ReadFails,
                      Unregister, OnCloseReturns
  <2>5. CASE SetupPanics(c)
    BY <1>1, <2>5 DEF SetupPanics
  <2>6. CASE DecodePanics(c)
    <3>1. CASE UNCHANGED pc
      BY <1>1, <2>6, <3>1 DEF DecodePanics
    <3>2. CASE pc' = [pc EXCEPT ![c] = "lost"]
      <4>1. Goto(c, "read", "lost") /\ UNCHANGED <<wmux, em>>
        BY <2>6, <3>2 DEF DecodePanics, Goto
      <4>2. {"read", "lost"} \cap {"ponging", "replying"} = {}
        OBVIOUS
      <4> QED
        BY <1>2, <4>1, <4>2
    <3> QED
      BY <2>6, <3>1, <3>2 DEF DecodePanics
  <2> QED
    BY <1>3, <2>1, <2>2, <2>3, <2>4, <2>5, <2>6 DEF Process
<1>4. ASSUME NEW c \in Conns, Environment(c) PROVE WritersInv'
  BY <1>1, <1>2, <1>4 DEF Environment, Accept, PeerSends, PeerCloses, PeerStalls, Deadline,
                          UserClose
<1>5. ASSUME NEW e \in Emitters, Emitter(e) \/ EmitAll(e) PROVE WritersInv'
  <2>1. UNCHANGED pc
    BY <1>5 DEF Emitter, EmitAll, EmitLock, EmitWritten, EmitDone, EmitNext
  <2> QED
    BY <1>5, <2>1, EmitterWrites DEF RegistryOK
<1>6. CASE Shutdown \/ MapRace \/ UNCHANGED vars
  BY <1>1, <1>6 DEF Shutdown, MapRace, vars
<1> QED
  BY <1>3, <1>4, <1>5, <1>6 DEF Next

-----------------------------------------------------------------------------
(* The theorems *)

\* Two functions that differ at one point: the second is the first EXCEPT there.
LEMMA ChangedAtOne ==
    ASSUME NEW D, NEW g, NEW h, NEW x \in D, NEW v,
           g = [b \in D |-> g[b]], h = [b \in D |-> h[b]],
           h[x] = v, \A b \in D : b # x => h[b] = g[b]
    PROVE  h = [g EXCEPT ![x] = v]
OBVIOUS

\* The inductive invariant: the types, which FDs there are, who is registered,
\* and who holds the mutex of a connection.
THEOREM StreamInvariance == Spec => []StreamInv
<1>1. Init => StreamInv
  <2>1. Init => NetOK /\ listening \in BOOLEAN /\ crashed \in BOOLEAN
    <3>1. <<>> \in Seq(Kinds) /\ 0 \in 0..MaxMail
      BY ConstantsAssumption
    <3> QED
      BY <3>1 DEF Init, NetOK
  <2> QED
    BY <2>1, RegistryInit, WritersInit DEF StreamInv, TypeOK, RegistryInv, WritersInv
<1>2. StreamInv /\ [Next]_vars => StreamInv'
  <2> SUFFICES ASSUME StreamInv, [Next]_vars PROVE StreamInv'
    OBVIOUS
  <2>1. RegistryInv /\ WritersInv /\ NetOK /\ listening \in BOOLEAN /\ crashed \in BOOLEAN
    BY DEF StreamInv, TypeOK, RegistryInv, WritersInv
  <2>2. RegistryInv' /\ NetOK'
    BY <2>1, RegistryStep, NetStep
  <2>3. WritersInv'
    BY <2>1, <2>2, WritersStep DEF RegistryInv
  <2>4. listening' \in BOOLEAN
    BY <2>1 DEF Next, vars, Process, Environment, Emitter, Shutdown, MapRace, SetupFails,
        SetupPanics, DecodePanics, Replies, ReplyLock, ReplyWritten,
        Register, OnOpenReturns, Read, Handled, PongLock, PongWritten, ReadFails, Unregister,
        OnCloseReturns, Accept, PeerSends, PeerCloses, PeerStalls, Deadline, UserClose,
        EmitAll, EmitLock, EmitWritten, EmitDone, EmitNext
  <2>5. crashed' \in BOOLEAN
    BY <2>1 DEF Running, Next, vars, Process, Environment, Emitter, Shutdown, MapRace,
        SetupFails, SetupPanics, DecodePanics, Replies, ReplyLock, ReplyWritten, Register,
        OnOpenReturns, Read, Handled, PongLock, PongWritten, ReadFails,
        Unregister, OnCloseReturns, Accept, PeerSends, PeerCloses, PeerStalls, Deadline,
        UserClose, EmitAll, EmitLock, EmitWritten, EmitDone, EmitNext
  <2> QED
    BY <2>2, <2>3, <2>4, <2>5 DEF StreamInv, TypeOK, RegistryInv, WritersInv
<1> QED
  BY <1>1, <1>2, PTL DEF Spec

\* The variables keep their types; addConnect never runs out of FDs.
THEOREM StreamTypeCorrect == Spec => []TypeOK
<1>1. StreamInv => TypeOK
  BY DEF StreamInv
<1> QED
  BY StreamInvariance, <1>1, PTL

\* The map holds the FDs of exactly the connections between addConnect and
\* delConnect, each once (server.go of tcp/server, 198-224).
THEOREM RegistryCorrect == Spec => []RegistrySound
<1>1. StreamInv => RegistrySound
  BY DEF StreamInv
<1> QED
  BY StreamInvariance, <1>1, PTL

\* Conn.Write excludes all other writers of its connection, for any number of
\* emitters (conn.go of websocket/server, 79-84).
THEOREM WritersExclude == Spec => []OneWriter
<1>1. StreamInv => OneWriter
  <2> SUFFICES ASSUME StreamInv, NEW c \in Conns, NEW e \in Emitters,
                      em[e].at = "write", em[e].to = c
               PROVE  /\ ~writing(c)
                      /\ \A f \in Emitters : em[f].at = "write" /\ em[f].to = c => f = e
    BY DEF OneWriter
  <2>1. wmux[c] = e /\ e # c
    BY ConstantsAssumption DEF StreamInv, MuxSound
  <2> QED
    BY <2>1 DEF StreamInv, MuxSound
<1> QED
  BY StreamInvariance, <1>1, PTL

\* The TCP and WebSocket servers implement the abstract sessions.
THEOREM StreamSessionsImplemented == Spec => ImplementsSessions
<1>1. Init => S!Init
  <2> SUFFICES ASSUME Init PROVE S!Init
    OBVIOUS
  <2>1. \A f \in Fds : f > fd
    BY MaxFdType DEF Init, Fds
  <2>2. Fds = S!Fds
    BY DEF Fds, S!Fds
  <2> QED
    BY <2>1, <2>2 DEF status, peer, S!Init
<1>2. StreamInv /\ StreamInv' /\ [Next]_vars => [S!Next]_<<status, peer>>
  <2> SUFFICES ASSUME StreamInv, StreamInv', [Next]_vars
               PROVE  S!Next \/ UNCHANGED <<status, peer>>
    OBVIOUS
  <2>0. RegistryInv /\ RegistryInv' /\ MaxFd \in Nat
    BY MaxFdType DEF StreamInv, TypeOK, RegistryInv
  <2> USE <2>0 DEF RegistryInv, RegistryOK, ProcessOK
  <2>1. CASE UNCHANGED registry
    BY <2>1 DEF registry, status, peer
  <2>2. ASSUME NEW c \in Conns, Register(c) PROVE S!Next
    <3> DEFINE f == fd + 1
    <3>1. /\ fd' = f /\ connections' = connections \cup {f}
          /\ fdOf' = [fdOf EXCEPT ![c] = f] /\ fdOf[c] = 0
      BY <2>2 DEF Register, Goto, addConnect, FdsSound
    <3>2. f \in Fds /\ f \in S!Fds
      BY <3>1 DEF Fds, S!Fds
    <3>3. status[f] = "unborn" /\ \A b \in S!Fds : b < f => status[b] # "unborn"
      BY <3>2 DEF status, S!Fds, Fds
    <3>4. \A b \in Fds : b # f => (b > fd' <=> b > fd)
      BY <3>1 DEF Fds
    <3>5. ~(f > fd')
      BY <3>1
    <3>6. status' = [status EXCEPT ![f] = "live"]
      BY <3>1, <3>2, <3>4, <3>5 DEF status
    <3>7. peer' = [peer EXCEPT ![f] = c]
      <4>1. peer'[f] = c
        <5>1. fdOf'[c] = f /\ f # 0
          BY <3>1
        <5>2. \A d \in Conns : fdOf'[d] = f => d = c
          BY <5>1 DEF RegistrySound
        <5> QED
          BY <3>2, <3>5, <5>1, <5>2 DEF peer
      <4>2. ASSUME NEW b \in Fds, b # f PROVE peer'[b] = peer[b]
        <5>1. CASE b > fd
          BY <3>4, <4>2, <5>1 DEF peer
        <5>2. CASE ~(b > fd)
          <6>1. PICK d \in Conns : fdOf[d] = b
            BY <5>2 DEF FdsSound, Fds
          <6>2. b # 0 /\ d # c /\ fdOf'[d] = b
            BY <3>1, <6>1 DEF Fds
          <6>3. \A a \in Conns : fdOf[a] = b => a = d
            BY <6>1, <6>2 DEF RegistrySound
          <6>4. \A a \in Conns : fdOf'[a] = b => a = d
            BY <3>1, <4>2, <6>3
          <6>5. (CHOOSE a \in Conns : fdOf[a] = b) = d
            BY <6>1, <6>3
          <6>6. (CHOOSE a \in Conns : fdOf'[a] = b) = d
            BY <6>2, <6>4
          <6> QED
            BY <3>4, <4>2, <5>2, <6>5, <6>6 DEF peer
        <5> QED
          BY <5>1, <5>2
      <4>3. peer = [b \in Fds |-> peer[b]] /\ peer' = [b \in Fds |-> peer'[b]]
        BY DEF peer
      <4> HIDE DEF f
      <4> QED
        BY <3>2, <4>1, <4>2, <4>3, ChangedAtOne
    <3> QED
      BY <3>2, <3>3, <3>6, <3>7 DEF S!Begin, S!Next
  <2>3. ASSUME NEW c \in Conns, Unregister(c) PROVE S!Next
    <3> DEFINE f == fdOf[c]
    <3>1. fd' = fd /\ fdOf' = fdOf /\ connections' = connections \ {f} /\ pc[c] = "closing"
      BY <2>3 DEF Unregister, Goto, delConnect
    <3>2. f \in connections /\ f \in Fds /\ f \in S!Fds /\ ~(f > fd)
      BY <3>1 DEF RegistrySound, live, FdsSound, Fds, S!Fds
    <3> HIDE DEF f
    <3>3. status[f] = "live" /\ status' = [status EXCEPT ![f] = "gone"]
      BY <3>1, <3>2 DEF status
    <3>4. peer' = peer
      BY <3>1 DEF peer
    <3> QED
      BY <3>2, <3>3, <3>4 DEF S!End, S!Next
  <2>4. CASE UNCHANGED vars
    BY <2>1, <2>4 DEF vars
  <2>5. CASE Next
    BY <2>1, <2>2, <2>3, <2>5 DEF Next, Process, Environment, Emitter, Shutdown, MapRace,
        SetupFails, SetupPanics, DecodePanics, Replies, ReplyLock, ReplyWritten,
        OnOpenReturns, Read, Handled, PongLock, PongWritten, ReadFails,
        OnCloseReturns, Accept, PeerSends, PeerCloses, PeerStalls, Deadline, UserClose,
        EmitAll, EmitLock, EmitWritten, EmitDone, EmitNext
  <2> QED
    BY <2>4, <2>5
<1> QED
  BY <1>1, <1>2, StreamInvariance, PTL DEF Spec, ImplementsSessions, S!Spec
=============================================================================
