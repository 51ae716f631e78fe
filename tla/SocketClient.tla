----------------------------- MODULE SocketClient -----------------------------
(***************************************************************************)
(* The life of a socket client of kitty: Connect of tcp/client/client.go,  *)
(* which websocket/client/client.go and (after its handshake, see UdpDial) *)
(* udp/client/client.go repeat line for line.                              *)
(*                                                                         *)
(* Connect runs on the user's goroutine and calls itself to reconnect.     *)
(* Each connection starts three goroutines: the heartbeat, the pong timer  *)
(* and the reader.  They share the fields Conn, stopCh, isStop and         *)
(* pongTimer of the Client, which the next connection overwrites.  Connect *)
(* waits on the unbuffered stopCh, then cancels the heartbeat and the pong *)
(* goroutine with two more unbuffered sends; nothing waits for the reader. *)
(*                                                                         *)
(* The connections are numbered 1..gen; a channel stopCh is named by the   *)
(* connection it was made for.  Fields are read where the code reads them. *)
(***************************************************************************)
EXTENDS Naturals

CONSTANTS
    MaxGen,         \* bound: successful dials
    Intervals,      \* whether the user sets HeartBeatInterval, for each Connect
    Timeout,        \* HeartBeatTimeout is set
    Reconnect       \* ReconnectInterval is set

ASSUME ConstantsAssumption ==
    /\ MaxGen \in Nat \ {0}
    /\ Intervals \subseteq BOOLEAN
    /\ Timeout \in BOOLEAN
    /\ Reconnect \in BOOLEAN

Gens == 1..MaxGen

VARIABLES
    main,      \* where Connect is
    gen,       \* number of the connection in c.Conn, 0 before the first
    isStop,    \* c.isStop
    conn,      \* connection -> "none", "up", "broken" (by the peer), "closed"
    stalled,   \* the server does not read from connection gen
    armed,     \* c.pongTimer is running
    pongC,     \* a tick waits in c.pongTimer.C
    hb,        \* the heartbeat goroutine of connection gen
    pong,      \* its pong goroutine
    rd,        \* connection -> where the reader that was started for it is
    rconn,     \* reader -> connection its Read or its handler's Write is on
    rch,       \* reader -> stopCh its send is on
    overtaken  \* a handler has outlived ReconnectInterval: a connection was
               \* dialed while an earlier reader was at work (history: nothing
               \* reads it)

timerVars  == <<armed, pongC>>
readerVars == <<rd, rconn, rch>>
netVars    == <<conn, stalled>>
vars == <<main, gen, isStop, netVars, timerVars, hb, pong, readerVars, overtaken>>

\* Main waits at "cancelHb" and "cancelPong" until the goroutine receives.  No
\* reader sends on a stopCh that was never made, for which it would wait for ever.
TypeOK ==
    /\ main \in {"dial", "setup", "open", "run", "stopped", "cancelHb",
                 "cancelPong", "finish", "ended", "panicked"}
    /\ gen \in 0..MaxGen
    /\ isStop \in BOOLEAN
    /\ conn \in [Gens -> {"none", "up", "broken", "closed"}] /\ stalled \in BOOLEAN
    /\ armed \in BOOLEAN /\ pongC \in BOOLEAN
    /\ hb \in {"none", "select", "beat"}
    /\ pong \in {"none", "select", "check", "send"}
    /\ rd \in [Gens -> {"none", "loop", "read", "handle", "write", "failed",
                        "sending", "send", "ended"}]
    /\ rconn \in [Gens -> 0..MaxGen]
    /\ rch \in [Gens -> 0..MaxGen]
    /\ overtaken \in BOOLEAN
    /\ \A g \in Gens : rd[g] = "send" => rch[g] # 0

Init ==
    /\ main = "dial" /\ gen = 0 /\ isStop = FALSE
    /\ conn = [g \in Gens |-> "none"] /\ stalled = FALSE
    /\ armed = FALSE /\ pongC = FALSE
    /\ hb = "none" /\ pong = "none"
    /\ rd = [g \in Gens |-> "none"]
    /\ rconn = [g \in Gens |-> 0]
    /\ rch = [g \in Gens |-> 0]
    /\ overtaken = FALSE

\* A panic in any goroutine ends them all.
Running == main # "panicked"

-----------------------------------------------------------------------------
(* Connect and reconnecting *)

\* What reconnecting leads to.
afterwards == IF Reconnect THEN "dial" ELSE "ended"

\* Dial fails: OnError, reconnecting, return.
DialFail ==
    /\ main = "dial"
    /\ main' = afterwards
    /\ UNCHANGED <<gen, isStop, netVars, timerVars, hb, pong, readerVars, overtaken>>

\* SetReadBuffer or SetWriteBuffer fails.
DialPanics ==
    /\ main = "dial"
    /\ main' = "panicked"
    /\ UNCHANGED <<gen, isStop, netVars, timerVars, hb, pong, readerVars, overtaken>>

\* A reader that has left, or waits for ever on a stopCh it has got.
out(g) == rd[g] \in {"none", "send", "ended"}

\* c.Conn = handler.  If handlers return within ReconnectInterval, every reader
\* has found its connection closed by then and is out.
Dial ==
    /\ main = "dial"
    /\ gen < MaxGen
    /\ overtaken' = (overtaken \/ \E g \in Gens : ~out(g))
    /\ gen' = gen + 1
    /\ conn' = [conn EXCEPT ![gen + 1] = "up"]
    /\ stalled' = FALSE
    /\ main' = "setup"
    /\ UNCHANGED <<isStop, timerVars, hb, pong, readerVars>>

\* NewTicker panics when HeartBeatInterval is 0, long before the line that would
\* stop the ticker of a client without heartbeat (221).
SetupPanics ==
    /\ main = "setup"
    /\ FALSE \in Intervals
    /\ main' = "panicked"
    /\ UNCHANGED <<gen, isStop, netVars, timerVars, hb, pong, readerVars, overtaken>>

\* Mutated: isStop keeps the value the last connection left.
isStopReset_Kept == UNCHANGED isStop

isStopReset == isStop' = FALSE

\* A new stopCh, isStop, ticker and timer, and the goroutines that use them.
\* With no HeartBeatTimeout the timer is made with 0 and stopped, and Stop does
\* not take back a tick it has sent by then.
Setup ==
    /\ main = "setup"
    /\ TRUE \in Intervals
    /\ isStopReset
    /\ armed' = Timeout
    /\ pongC' \in IF Timeout THEN {FALSE} ELSE BOOLEAN
    /\ hb' = "select" /\ pong' = "select"
    /\ main' = "open"
    /\ UNCHANGED <<gen, netVars, readerVars, overtaken>>

\* OnSuccess and OnOpen have returned; the reader starts.
Open ==
    /\ main = "open"
    /\ rd' = [rd EXCEPT ![gen] = "loop"]
    /\ main' = "run"
    /\ UNCHANGED <<gen, isStop, netVars, timerVars, hb, pong, rconn, rch, overtaken>>

\* <-c.stopCh: a goroutine that sends on the stopCh of this connection.
StopByPong ==
    /\ main = "run"
    /\ pong = "send"
    /\ pong' = "select"
    /\ main' = "stopped"
    /\ UNCHANGED <<gen, isStop, netVars, timerVars, hb, readerVars, overtaken>>

\* Mutated: stopCh is made once and shared by all connections.
sendsTo_Any(g, n) == rd[g] = "send"

sendsTo(g, n) == rd[g] = "send" /\ rch[g] = n

StopByReader(g) ==
    /\ main = "run"
    /\ sendsTo(g, gen)
    /\ rd' = [rd EXCEPT ![g] = "ended"]
    /\ main' = "stopped"
    /\ UNCHANGED <<gen, isStop, netVars, timerVars, hb, pong, rconn, rch, overtaken>>

SetStop ==
    /\ main = "stopped"
    /\ isStop' = TRUE
    /\ main' = "cancelHb"
    /\ UNCHANGED <<gen, netVars, timerVars, hb, pong, readerVars, overtaken>>

\* Mutated: the heartbeat goroutine returns by itself once isStop is set.
hbListens_NotStopped == hb = "select" /\ ~isStop

hbListens == hb = "select"

CancelHb ==
    /\ main = "cancelHb"
    /\ hbListens
    /\ hb' = "none"
    /\ main' = "cancelPong"
    /\ UNCHANGED <<gen, isStop, netVars, timerVars, pong, readerVars, overtaken>>

CancelPong ==
    /\ main = "cancelPong"
    /\ pong = "select"
    /\ pong' = "none"
    /\ main' = "finish"
    /\ UNCHANGED <<gen, isStop, netVars, timerVars, hb, readerVars, overtaken>>

\* Mutated: only a connection that still works is closed.
closeConn_IfUp ==
    conn' = IF conn[gen] = "up" THEN [conn EXCEPT ![gen] = "closed"] ELSE conn

closeConn == conn' = [conn EXCEPT ![gen] = "closed"]

\* The ticker is stopped, the connection closed, OnClose called; reconnecting.
Finish ==
    /\ main = "finish"
    /\ closeConn
    /\ main' = afterwards
    /\ UNCHANGED <<gen, isStop, stalled, timerVars, hb, pong, readerVars, overtaken>>

-----------------------------------------------------------------------------
(* The heartbeat goroutine: a beat writes a Ping and reports an error only. *)

\* Conn.Write comes back: it has no deadline, and waits until the server reads or
\* connection g is closed on either side.  The wait for c.mux is part of it: who
\* has c.mux is in a Write.
writeReturns(g) == g # gen \/ conn[g] # "up" \/ ~stalled

Beat ==
    /\ Running
    /\ hb = "select"
    /\ hb' = "beat"
    /\ UNCHANGED <<main, gen, isStop, netVars, timerVars, pong, readerVars, overtaken>>

BeatDone ==
    /\ Running
    /\ hb = "beat"
    /\ writeReturns(gen)
    /\ hb' = "select"
    /\ UNCHANGED <<main, gen, isStop, netVars, timerVars, pong, readerVars, overtaken>>

-----------------------------------------------------------------------------
(* The pong timer and its goroutine *)

TimerFires ==
    /\ Running
    /\ armed
    /\ armed' = FALSE
    /\ pongC' = TRUE
    /\ UNCHANGED <<main, gen, isStop, netVars, hb, pong, readerVars, overtaken>>

PongTick ==
    /\ Running
    /\ pong = "select"
    /\ pongC
    /\ pongC' = FALSE
    /\ pong' = "check"
    /\ UNCHANGED <<main, gen, isStop, netVars, armed, hb, readerVars, overtaken>>

PongCheck ==
    /\ Running
    /\ pong = "check"
    /\ pong' = IF isStop THEN "select" ELSE "send"
    /\ UNCHANGED <<main, gen, isStop, netVars, timerVars, hb, readerVars, overtaken>>

-----------------------------------------------------------------------------
(* The reader started for connection g *)

\* c.Conn.Read: the field is read anew for every call.
ReadCall(g) ==
    /\ Running
    /\ rd[g] = "loop"
    /\ rd' = [rd EXCEPT ![g] = "read"]
    /\ rconn' = [rconn EXCEPT ![g] = gen]
    /\ UNCHANGED <<main, gen, isStop, netVars, timerVars, hb, pong, rch, overtaken>>

ReadData(g) ==
    /\ Running
    /\ rd[g] = "read"
    /\ conn[rconn[g]] = "up"
    /\ rd' = [rd EXCEPT ![g] = "handle"]
    /\ UNCHANGED <<main, gen, isStop, netVars, timerVars, hb, pong, rconn, rch, overtaken>>

ReadError(g) ==
    /\ Running
    /\ rd[g] = "read"
    /\ conn[rconn[g]] # "up"
    /\ rd' = [rd EXCEPT ![g] = "failed"]
    /\ UNCHANGED <<main, gen, isStop, netVars, timerVars, hb, pong, rconn, rch, overtaken>>

\* decodeMessage has returned nil; a Pong resets the timer of the field.
Handled(g) ==
    /\ Running
    /\ rd[g] = "handle"
    /\ rd' = [rd EXCEPT ![g] = "loop"]
    /\ armed' \in IF Timeout THEN {armed, TRUE} ELSE {armed}
    /\ UNCHANGED <<main, gen, isStop, netVars, pongC, hb, pong, rconn, rch, overtaken>>

\* A handler, or the answer to a Ping, calls Push.
HandlerWrites(g) ==
    /\ Running
    /\ rd[g] = "handle"
    /\ rd' = [rd EXCEPT ![g] = "write"]
    /\ rconn' = [rconn EXCEPT ![g] = gen]
    /\ UNCHANGED <<main, gen, isStop, netVars, timerVars, hb, pong, rch, overtaken>>

WriteReturns(g) ==
    /\ Running
    /\ rd[g] = "write"
    /\ writeReturns(rconn[g])
    /\ rd' = [rd EXCEPT ![g] = "handle"]
    /\ UNCHANGED <<main, gen, isStop, netVars, timerVars, hb, pong, rconn, rch, overtaken>>

\* Decode panics on a route of more than 239 bytes, the reader of UDP on a
\* datagram of fewer than 3.
ReaderPanics(g) ==
    /\ Running
    /\ rd[g] = "handle"
    /\ main' = "panicked"
    /\ UNCHANGED <<gen, isStop, netVars, timerVars, hb, pong, readerVars, overtaken>>

\* A framing error, or a handler's error, or (UDP) a Close from the server.
HandleFails(g) ==
    /\ Running
    /\ rd[g] = "handle"
    /\ rd' = [rd EXCEPT ![g] = "failed"]
    /\ UNCHANGED <<main, gen, isStop, netVars, timerVars, hb, pong, rconn, rch, overtaken>>

\* if !c.isStop
ReaderCheck(g) ==
    /\ Running
    /\ rd[g] = "failed"
    /\ rd' = [rd EXCEPT ![g] = IF isStop THEN "ended" ELSE "sending"]
    /\ UNCHANGED <<main, gen, isStop, netVars, timerVars, hb, pong, rconn, rch, overtaken>>

\* Mutated: Connect makes the channel when it is about to wait for it.
stopCh_Late == IF main \in {"setup", "open", "run"} THEN gen - 1 ELSE gen

\* The channel c.stopCh holds: Setup replaces it after Dial replaced c.Conn.
stopCh == IF main = "setup" THEN gen - 1 ELSE gen

\* c.stopCh <- struct{}{} has evaluated the field; the send itself completes in
\* StopByReader, if that channel's Connect still receives.
ReaderSend(g) ==
    /\ Running
    /\ rd[g] = "sending"
    /\ rd' = [rd EXCEPT ![g] = "send"]
    /\ rch' = [rch EXCEPT ![g] = stopCh]
    /\ UNCHANGED <<main, gen, isStop, netVars, timerVars, hb, pong, rconn, overtaken>>

-----------------------------------------------------------------------------
(* The peer, the network and the user *)

Break ==
    /\ Running
    /\ gen # 0
    /\ conn[gen] = "up"
    /\ conn' = [conn EXCEPT ![gen] = "broken"]
    /\ UNCHANGED <<main, gen, isStop, stalled, timerVars, hb, pong, readerVars, overtaken>>

\* The server stops reading, or reads again.
Stall ==
    /\ Running
    /\ gen # 0
    /\ conn[gen] = "up"
    /\ stalled' = ~stalled
    /\ UNCHANGED <<main, gen, isStop, conn, timerVars, hb, pong, readerVars, overtaken>>

\* Client.Close, from any goroutine.
Close ==
    /\ Running
    /\ gen # 0
    /\ conn[gen] # "closed"
    /\ conn' = [conn EXCEPT ![gen] = "closed"]
    /\ UNCHANGED <<main, gen, isStop, stalled, timerVars, hb, pong, readerVars, overtaken>>

-----------------------------------------------------------------------------
MainStep ==
    \/ SetupPanics \/ Setup \/ Open
    \/ StopByPong \/ (\E g \in Gens : StopByReader(g))
    \/ SetStop \/ Finish

\* What a reader does without waiting for data.
ReaderStep(g) ==
    \/ ReadCall(g) \/ ReadError(g)
    \/ HandlerWrites(g) \/ WriteReturns(g)
    \/ Handled(g) \/ HandleFails(g) \/ ReaderPanics(g)
    \/ ReaderCheck(g) \/ ReaderSend(g)

Next ==
    \/ DialFail \/ DialPanics \/ Dial
    \/ MainStep \/ CancelHb \/ CancelPong
    \/ Beat \/ BeatDone
    \/ TimerFires \/ PongTick \/ PongCheck
    \/ \E g \in Gens : ReaderStep(g) \/ ReadData(g)
    \/ Break \/ Stall \/ Close

Spec == Init /\ [][Next]_vars

\* Every goroutine that can run is run, and handlers return: strong fairness says
\* that none goes on writing for ever.  A write returns when it can.  Between two
\* ticks the heartbeat and the pong goroutine wait in a select in which only the
\* cancel is ready: strong fairness for these two rendezvous.  Nothing obliges
\* the server to accept, send, read or fail.
Fairness ==
    /\ WF_vars(MainStep)
    /\ SF_vars(CancelHb)
    /\ SF_vars(CancelPong)
    /\ WF_vars(BeatDone)
    /\ WF_vars(PongTick)
    /\ WF_vars(PongCheck)
    /\ \A g \in Gens : WF_vars(ReaderStep(g)) /\ SF_vars(Handled(g) \/ HandleFails(g))

FairSpec == Spec /\ Fairness

-----------------------------------------------------------------------------
(* Properties *)

\* A connection the client gave up was closed by it (303): however often it
\* reconnects, it holds one socket.
OldConnsClosed == \A g \in 1..MaxGen : g < gen => conn[g] = "closed"

\* Between two connections the last one is closed and OnClose was called; in a
\* connection there is a c.Conn.  With OldConnsClosed this is inductive.
PhasesSound ==
    /\ main \in {"dial", "ended"} => gen = 0 \/ conn[gen] = "closed"
    /\ main \notin {"dial", "ended", "panicked"} => gen # 0

\* The reader of a connection starts when everything else of it has.
ReadersStarted ==
    \A g \in Gens : rd[g] # "none" =>
        g <= gen /\ (g = gen => main \notin {"setup", "open"})

\* What every step preserves.
ClientInv == TypeOK /\ OldConnsClosed /\ PhasesSound /\ ReadersStarted

\* If no handler was overtaken, the readers of earlier connections have left or
\* wait on their own stopCh, and the next reader starts after its connection is
\* up.
ReadersSound ==
    ~overtaken => \A g \in Gens :
        /\ g < gen => out(g)
        /\ g > gen => rd[g] = "none"
        /\ g = gen /\ main \in {"setup", "open"} => rd[g] = "none"
        /\ rd[g] = "send" => rch[g] = g

\* Only the reader of the current connection stops it, unless a handler outlived
\* ReconnectInterval, so that its reader goes on with the next connection (270).
\* Readers of earlier connections may wait for ever in their send (274), but on
\* a channel that no Connect receives from any more (184).
StopIsOwn ==
    [][~overtaken => \A g \in Gens :
           (rd[g] = "send" /\ rd'[g] = "ended") => g = gen]_vars

\* A client whose connection fails or is closed notices, although the reader
\* asks isStop first and Connect may be in any phase of the next connection.
FailureNoticed ==
    \A g \in Gens : (main = "run" /\ gen = g /\ conn[g] # "up")
        ~> ~(main = "run" /\ gen = g)

\* No connection is left up with a server that does not read from it any more.
serverReads == <>[](gen = 0 \/ writeReturns(gen))

\* Connect is done with a connection, or the program is over.
over == main \in {"dial", "ended", "panicked"}

\* Once told to stop, Connect calls OnClose and reconnects.  Two goroutines can
\* keep it from that for ever: the heartbeat, in a Write to a server that does
\* not read, for Connect waits for it (297) before it closes the connection
\* (303); and the pong goroutine, if it has passed its isStop check (247) before
\* isStop was set.
StopCompletesUnlessPongSends ==
    serverReads => (main = "stopped" ~> (over \/ pong = "send"))

-----------------------------------------------------------------------------
(* What the repository says and the code does not do *)

\* Lines 304 and 306, after <-c.stopCh: "call the callback", "reconnect as
\* set".  A stop leads to OnClose and to reconnecting, if the server reads what
\* the heartbeat writes.
StopCompletes == serverReads => (main = "stopped" ~> over)
=============================================================================
