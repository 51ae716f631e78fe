-------------------------- MODULE SocketClientProofs --------------------------
(***************************************************************************)
(* Proofs about SocketClient for any number of reconnections.              *)
(***************************************************************************)
EXTENDS SocketClient, TLAPS

\* Before the first connection the invariant holds.
LEMMA ClientInit == Init => ClientInv
<1> SUFFICES ASSUME Init PROVE ClientInv
  OBVIOUS
<1> USE ConstantsAssumption DEF Init, Gens
<1>1. TypeOK
  <2>1. 0 \in 0..MaxGen
    OBVIOUS
  <2> QED
    BY <2>1 DEF TypeOK
<1>2. OldConnsClosed /\ PhasesSound /\ ReadersStarted
  BY DEF OldConnsClosed, PhasesSound, ReadersStarted
<1> QED
  BY <1>1, <1>2 DEF ClientInv

\* No step takes a variable out of its type.
LEMMA TypeStep == ClientInv /\ [Next]_vars => TypeOK'
<1> SUFFICES ASSUME ClientInv, [Next]_vars PROVE TypeOK'
  OBVIOUS
<1> USE ConstantsAssumption DEF ClientInv, TypeOK, Gens, netVars, timerVars, readerVars, afterwards
<1>1. ASSUME DialFail \/ DialPanics PROVE TypeOK'
  BY <1>1 DEF DialFail, DialPanics
<1>2. ASSUME Dial PROVE TypeOK'
  <2>1. gen + 1 \in 0..MaxGen
    BY <1>2 DEF Dial
  <2> QED
    BY <1>2, <2>1 DEF Dial
<1>3. ASSUME SetupPanics \/ Setup \/ Open PROVE TypeOK'
  <2>1. CASE SetupPanics
    BY <2>1 DEF SetupPanics
  <2>2. CASE Setup
    BY <2>2 DEF Setup, isStopReset
  <2>3. CASE Open
    BY <2>3 DEF Open
  <2> QED
    BY <1>3, <2>1, <2>2, <2>3
<1>4. ASSUME StopByPong \/ SetStop \/ CancelHb \/ CancelPong \/ Finish PROVE TypeOK'
  <2>1. CASE StopByPong
    BY <2>1 DEF StopByPong
  <2>2. CASE SetStop
    BY <2>2 DEF SetStop
  <2>3. CASE CancelHb
    BY <2>3 DEF CancelHb
  <2>4. CASE CancelPong
    BY <2>4 DEF CancelPong
  <2>5. CASE Finish
    BY <2>5 DEF Finish, closeConn
  <2> QED
    BY <1>4, <2>1, <2>2, <2>3, <2>4, <2>5
<1>5. ASSUME NEW g \in Gens, StopByReader(g) PROVE TypeOK'
  BY <1>5 DEF StopByReader
<1>6. ASSUME Beat \/ BeatDone \/ TimerFires \/ PongTick \/ PongCheck PROVE TypeOK'
  <2>1. CASE Beat
    BY <2>1 DEF Beat
  <2>2. CASE BeatDone
    BY <2>2 DEF BeatDone
  <2>3. CASE TimerFires
    BY <2>3 DEF TimerFires
  <2>4. CASE PongTick
    BY <2>4 DEF PongTick
  <2>5. CASE PongCheck
    BY <2>5 DEF PongCheck
  <2> QED
    BY <1>6, <2>1, <2>2, <2>3, <2>4, <2>5
<1>7. ASSUME NEW g \in Gens, ReadCall(g) \/ ReadData(g) \/ ReadError(g) PROVE TypeOK'
  <2>1. CASE ReadCall(g)
    <3>1. /\ rconn' \in [Gens -> 0..MaxGen]
          /\ rd' \in [Gens -> {"none", "loop", "read", "handle", "write",
                               "failed", "sending", "send", "ended"}]
      BY <2>1 DEF ReadCall
    <3> QED
      BY <2>1, <3>1 DEF ReadCall
  <2>2. CASE ReadData(g)
    BY <2>2 DEF ReadData
  <2>3. CASE ReadError(g)
    BY <2>3 DEF ReadError
  <2> QED
    BY <1>7, <2>1, <2>2, <2>3
<1>8. ASSUME NEW g \in Gens, Handled(g) \/ HandleFails(g) \/ ReaderCheck(g) PROVE TypeOK'
  <2>1. CASE Handled(g)
    <3>1. armed' \in BOOLEAN
      BY <2>1 DEF Handled
    <3>2. rd' = [rd EXCEPT ![g] = "loop"] /\ rconn' = rconn /\ rch' = rch
      BY <2>1 DEF Handled
    <3>3. UNCHANGED <<main, gen, isStop, netVars, pongC, hb, pong, overtaken>>
      BY <2>1 DEF Handled
    <3> QED
      BY <3>1, <3>2, <3>3
  <2>2. CASE HandleFails(g)
    BY <2>2 DEF HandleFails
  <2>3. CASE ReaderCheck(g)
    BY <2>3 DEF ReaderCheck
  <2> QED
    BY <1>8, <2>1, <2>2, <2>3
<1>9. ASSUME NEW g \in Gens, ReaderSend(g) PROVE TypeOK'
  <2>1. stopCh \in 0..MaxGen /\ stopCh # 0
    <3>1. g <= gen /\ (g = gen => main # "setup")
      BY <1>9 DEF ReaderSend, ReadersStarted
    <3> QED
      BY <3>1 DEF stopCh
  <2>2. /\ rch' \in [Gens -> 0..MaxGen]
        /\ rd' \in [Gens -> {"none", "loop", "read", "handle", "write",
                             "failed", "sending", "send", "ended"}]
    BY <1>9, <2>1 DEF ReaderSend
  <2>3. \A h \in Gens : rd'[h] = "send" => rch'[h] # 0
    BY <1>9, <2>1 DEF ReaderSend
  <2> QED
    BY <1>9, <2>2, <2>3 DEF ReaderSend
<1>12. ASSUME NEW g \in Gens, HandlerWrites(g) \/ WriteReturns(g) \/ ReaderPanics(g)
       PROVE  TypeOK'
  <2>1. CASE HandlerWrites(g)
    <3>1. /\ rconn' \in [Gens -> 0..MaxGen]
          /\ rd' \in [Gens -> {"none", "loop", "read", "handle", "write",
                               "failed", "sending", "send", "ended"}]
      BY <2>1 DEF HandlerWrites
    <3> QED
      BY <2>1, <3>1 DEF HandlerWrites
  <2>2. CASE WriteReturns(g)
    BY <2>2 DEF WriteReturns
  <2>3. CASE ReaderPanics(g)
    BY <2>3 DEF ReaderPanics
  <2> QED
    BY <1>12, <2>1, <2>2, <2>3
<1>13. ASSUME Stall PROVE TypeOK'
  <2>1. stalled' \in BOOLEAN
    BY <1>13 DEF Stall
  <2> QED
    BY <1>13, <2>1 DEF Stall
<1>10. ASSUME Break \/ Close PROVE TypeOK'
  <2>1. conn' \in [Gens -> {"none", "up", "broken", "closed"}]
    BY <1>10 DEF Break, Close
  <2> QED
    BY <1>10, <2>1 DEF Break, Close
<1>11. CASE UNCHANGED vars
  BY <1>11 DEF vars
<1> QED
  BY <1>1, <1>2, <1>3, <1>4, <1>5, <1>6, <1>7, <1>8, <1>9, <1>10, <1>11, <1>12, <1>13
     DEF Next, MainStep, ReaderStep

\* A socket is dialed only when the one before is closed.
LEMMA ConnStep == ClientInv /\ [Next]_vars => OldConnsClosed' /\ PhasesSound'
<1> SUFFICES ASSUME ClientInv, [Next]_vars PROVE OldConnsClosed' /\ PhasesSound'
  OBVIOUS
<1> USE ConstantsAssumption 
    DEF ClientInv, TypeOK, Gens, netVars, OldConnsClosed, PhasesSound, afterwards
<1>1. ASSUME UNCHANGED <<main, gen, conn>> PROVE OldConnsClosed' /\ PhasesSound'
  BY <1>1
<1>2. ASSUME DialFail \/ DialPanics \/ SetupPanics \/ Setup \/ Open \/ StopByPong \/ SetStop
             \/ CancelHb \/ CancelPong
      PROVE  OldConnsClosed' /\ PhasesSound'
  BY <1>2 DEF DialFail, DialPanics, SetupPanics, Setup, Open, StopByPong, SetStop, CancelHb,
              CancelPong
<1>3. ASSUME Dial PROVE OldConnsClosed' /\ PhasesSound'
  BY <1>3 DEF Dial
<1>4. ASSUME NEW g \in Gens, StopByReader(g) PROVE OldConnsClosed' /\ PhasesSound'
  BY <1>4 DEF StopByReader
<1>5. ASSUME Finish PROVE OldConnsClosed' /\ PhasesSound'
  BY <1>5 DEF Finish, closeConn
<1>6. ASSUME Break \/ Close PROVE OldConnsClosed' /\ PhasesSound'
  BY <1>6 DEF Break, Close
<1>7. CASE UNCHANGED vars
  BY <1>1, <1>7 DEF vars
<1>8. ASSUME NEW g \in Gens, ReaderPanics(g) PROVE OldConnsClosed' /\ PhasesSound'
  BY <1>8 DEF ReaderPanics
<1> QED
  BY <1>1, <1>2, <1>3, <1>4, <1>5, <1>6, <1>7, <1>8
     DEF Next, MainStep, ReaderStep, Beat, BeatDone, TimerFires, PongTick, PongCheck, Stall,
         HandlerWrites, WriteReturns, ReadCall, ReadData, ReadError, Handled, HandleFails, ReaderCheck, ReaderSend

\* A reader is started after its stopCh was made.
LEMMA StartStep == ClientInv /\ [Next]_vars => ReadersStarted'
<1> SUFFICES ASSUME ClientInv, [Next]_vars PROVE ReadersStarted'
  OBVIOUS
<1> USE ConstantsAssumption DEF ClientInv, TypeOK, Gens, ReadersStarted, PhasesSound, afterwards
<1>1. ASSUME UNCHANGED <<main, gen, rd>> PROVE ReadersStarted'
  BY <1>1
<1>2. ASSUME NEW g \in Gens, ReaderStep(g) \/ ReadData(g) PROVE ReadersStarted'
  <2>1. /\ rd[g] # "none" /\ gen' = gen /\ main' \in {main, "panicked"}
        /\ \A h \in Gens \ {g} : rd'[h] = rd[h]
    BY <1>2 DEF ReaderStep, ReadCall, ReadData, ReadError, HandlerWrites, WriteReturns,
                ReaderPanics, Handled, HandleFails, ReaderCheck, ReaderSend, readerVars
  <2> QED
    BY <2>1
<1>3. ASSUME Open \/ Dial PROVE ReadersStarted'
  BY <1>3 DEF Open, Dial, readerVars
<1>4. ASSUME NEW g \in Gens, StopByReader(g) PROVE ReadersStarted'
  BY <1>4 DEF StopByReader, sendsTo
<1>5. ASSUME DialFail \/ DialPanics \/ SetupPanics \/ Setup \/ StopByPong \/ SetStop
             \/ CancelHb \/ CancelPong \/ Finish
      PROVE  ReadersStarted'
  BY <1>5 DEF DialFail, DialPanics, SetupPanics, Setup, StopByPong, SetStop, CancelHb,
              CancelPong, Finish, readerVars
<1>6. CASE UNCHANGED vars
  BY <1>1, <1>6 DEF vars, readerVars
<1> QED
  BY <1>1, <1>2, <1>3, <1>4, <1>5, <1>6
     DEF Next, MainStep, Beat, BeatDone, TimerFires, PongTick, PongCheck, Break, Stall,
         Close, readerVars

\* Unless a handler is overtaken, readers of earlier connections stay harmless.
LEMMA ReadersStep == ClientInv /\ ReadersSound /\ [Next]_vars => ReadersSound'
<1> SUFFICES ASSUME ClientInv, ReadersSound, [Next]_vars, ~overtaken'
             PROVE  ReadersSound'
  BY DEF ReadersSound
<1> USE ConstantsAssumption
    DEF ClientInv, TypeOK, Gens, PhasesSound, ReadersSound, readerVars, afterwards, out
<1>1. ASSUME UNCHANGED <<main, gen, readerVars, overtaken>> PROVE ReadersSound'
  BY <1>1
<1>2. ASSUME DialFail \/ DialPanics \/ SetupPanics \/ Setup \/ StopByPong \/ SetStop
             \/ CancelHb \/ CancelPong \/ Finish
      PROVE  ReadersSound'
  BY <1>2 DEF DialFail, DialPanics, SetupPanics, Setup, StopByPong, SetStop, CancelHb,
              CancelPong, Finish
<1>3. ASSUME Dial PROVE ReadersSound'
  <2>1. ~overtaken /\ \A g \in Gens : out(g)
    BY <1>3 DEF Dial
  <2>2. gen' = gen + 1 /\ main' = "setup" /\ rd' = rd /\ rch' = rch
    BY <1>3 DEF Dial
  <2>3. \A g \in Gens : g > gen => rd[g] = "none"
    BY <2>1
  <2> QED
    BY <2>1, <2>2, <2>3
<1>4. ASSUME Open PROVE ReadersSound'
  BY <1>4 DEF Open
<1>5. ASSUME NEW g \in Gens, StopByReader(g) PROVE ReadersSound'
  <2>1. rd' = [rd EXCEPT ![g] = "ended"] /\ main' = "stopped"
    BY <1>5 DEF StopByReader
  <2>2. UNCHANGED <<gen, rch, overtaken>>
    BY <1>5 DEF StopByReader
  <2>3. ASSUME NEW h \in Gens
        PROVE  /\ h < gen => out(h)'
               /\ h > gen => rd'[h] = "none"
               /\ rd'[h] = "send" => rch[h] = h
    <3>1. rd'[h] = IF h = g THEN "ended" ELSE rd[h]
      BY <2>1
    <3>2. rd[g] = "send" /\ g <= gen
      BY <1>5 DEF StopByReader, sendsTo
    <3> QED
      BY <2>2, <3>1, <3>2
  <2> QED
    BY <2>1, <2>2, <2>3
<1>6. ASSUME NEW g \in Gens, ReadCall(g) \/ ReadData(g) \/ ReadError(g) PROVE ReadersSound'
  <2>1. CASE ReadCall(g)
    BY <2>1 DEF ReadCall
  <2>2. CASE ReadData(g)
    BY <2>2 DEF ReadData
  <2>3. CASE ReadError(g)
    BY <2>3 DEF ReadError
  <2> QED
    BY <1>6, <2>1, <2>2, <2>3
<1>7. ASSUME NEW g \in Gens, Handled(g) \/ HandleFails(g) \/ ReaderCheck(g)
      PROVE  ReadersSound'
  <2>1. CASE Handled(g)
    BY <2>1 DEF Handled
  <2>2. CASE HandleFails(g)
    BY <2>2 DEF HandleFails
  <2>3. CASE ReaderCheck(g)
    BY <2>3 DEF ReaderCheck
  <2> QED
    BY <1>7, <2>1, <2>2, <2>3
<1>8. ASSUME NEW g \in Gens, ReaderSend(g) PROVE ReadersSound'
  <2>1. rd[g] = "sending" /\ ~overtaken
    BY <1>8 DEF ReaderSend
  <2>2. ~(g < gen) /\ ~(g > gen)
    BY <2>1
  <2>3. g = gen
    BY <2>2
  <2>4. stopCh = g
    BY <2>1, <2>3 DEF stopCh
  <2> QED
    BY <1>8, <2>3, <2>4 DEF ReaderSend
<1>9. CASE UNCHANGED vars
  BY <1>1, <1>9 DEF vars
<1>10. ASSUME NEW g \in Gens, HandlerWrites(g) \/ WriteReturns(g) \/ ReaderPanics(g)
       PROVE  ReadersSound'
  <2>1. CASE HandlerWrites(g)
    BY <2>1 DEF HandlerWrites
  <2>2. CASE WriteReturns(g)
    BY <2>2 DEF WriteReturns
  <2>3. CASE ReaderPanics(g)
    BY <2>3 DEF ReaderPanics
  <2> QED
    BY <1>10, <2>1, <2>2, <2>3
<1> QED
  BY <1>1, <1>2, <1>3, <1>4, <1>5, <1>6, <1>7, <1>8, <1>9, <1>10
     DEF Next, MainStep, ReaderStep, Beat, BeatDone, TimerFires, PongTick, PongCheck,
         Break, Stall, Close

-----------------------------------------------------------------------------
(* The theorems *)

\* The part of the invariant that does not ask about overtaken handlers.
LEMMA ClientInvariance == Spec => []ClientInv
<1>1. ClientInv /\ [Next]_vars => ClientInv'
  BY TypeStep, ConnStep, StartStep DEF ClientInv
<1> QED
  BY ClientInit, <1>1, PTL DEF Spec

\* The fields of the Client and the places of its goroutines keep their types.
THEOREM ClientTypeCorrect == Spec => []TypeOK
<1>1. ClientInv => TypeOK
  BY DEF ClientInv
<1> QED
  BY ClientInvariance, <1>1, PTL

\* However often the client reconnects, every connection before c.Conn was
\* closed by it (line 303), slow handlers or not.
THEOREM NoConnectionLeaks == Spec => []OldConnsClosed
<1>1. ClientInv => OldConnsClosed
  BY DEF ClientInv
<1> QED
  BY ClientInvariance, <1>1, PTL

\* Unless a handler was overtaken no reader of an earlier connection stops a later one,
\* although such readers may be blocked in their send for ever (lines 273-288).
THEOREM OnlyOwnReaderStops == Spec => StopIsOwn
<1>1. Init => ReadersSound
  BY ConstantsAssumption DEF Init, ReadersSound, Gens
<1>2. ClientInv /\ ReadersSound /\ [Next]_vars => ReadersSound'
  BY ReadersStep
<1>3. ClientInv /\ ReadersSound /\ [Next]_vars
        => [~overtaken => \A g \in Gens :
                (rd[g] = "send" /\ rd'[g] = "ended") => g = gen]_vars
  <2> SUFFICES ASSUME ClientInv, ReadersSound, Next, ~overtaken,
                      NEW g \in Gens, rd[g] = "send", rd'[g] = "ended"
               PROVE  g = gen
    OBVIOUS
  <2> USE DEF ClientInv, TypeOK
  <2>1. ASSUME NEW h \in Gens, StopByReader(h) PROVE g = gen
    <3>1. h = g
      BY <2>1 DEF StopByReader
    <3> QED
      BY <2>1, <3>1 DEF StopByReader, sendsTo, ReadersSound
  <2>2. ASSUME NEW h \in Gens, ReaderStep(h) \/ ReadData(h) PROVE FALSE
    BY <2>2 DEF ReaderStep, ReadCall, ReadData, ReadError, HandlerWrites, WriteReturns,
                ReaderPanics, Handled, HandleFails, ReaderCheck, ReaderSend, readerVars
  <2>3. ASSUME Open PROVE g = gen
    BY <2>3 DEF Open
  <2>4. ASSUME rd' = rd PROVE FALSE
    BY <2>4
  <2> QED
    BY <2>1, <2>2, <2>3, <2>4
       DEF Next, MainStep, readerVars, DialFail, DialPanics, Dial, SetupPanics, Setup,
           StopByPong, SetStop, CancelHb, CancelPong, Finish, Beat, BeatDone, TimerFires,
           PongTick, PongCheck, Break, Stall, Close
<1> QED
  BY <1>1, <1>2, <1>3, ClientInvariance, PTL DEF Spec, StopIsOwn
=============================================================================
