------------------------------- MODULE UdpDial -------------------------------
(***************************************************************************)
(* The handshake of the UDP client, lines 195-232 of Connect in            *)
(* udp/client/client.go: a socket of its own for each attempt, an Open     *)
(* message, a timer that is to end the wait, and the first datagram that   *)
(* comes back.  Attempts are numbered; c.Conn holds the socket of the last *)
(* one, and that field is what the function of every timer closes.         *)
(* What follows the handshake is SocketClient's; here it only ends.        *)
(*                                                                         *)
(* These are the client's steps alone.  UdpSession joins them with the     *)
(* server and the network.                                                 *)
(***************************************************************************)
EXTENDS Naturals

CONSTANT MaxGen  \* bound: sockets opened

ASSUME ConstantsAssumption == MaxGen \in Nat \ {0}

Gens == 1..MaxGen

VARIABLES
    main,     \* where Connect is
    gen,      \* the attempt whose socket is in c.Conn, 0 before the first
    sock,     \* attempt -> "none", "open" or "closed"
    tick,     \* attempt -> its timer: "none", "armed", "stopped", "fired"
              \* (its function is about to call Close) or "over"
    answer,   \* attempt -> the first datagram from the server, if any
    outcome   \* attempt -> how its handshake ended (history: nothing reads it);
              \* "raced" if Stop came after the timer had fired

vars == <<main, gen, sock, tick, answer, outcome>>

\* While the handshake is read, its timer exists.
TypeOK ==
    /\ main \in {"listen", "push", "arm", "read", "stop", "run"}
    /\ gen \in 0..MaxGen
    /\ sock \in [Gens -> {"none", "open", "closed"}]
    /\ tick \in [Gens -> {"none", "armed", "stopped", "fired", "over"}]
    /\ answer \in [Gens -> {"none", "open", "other"}]
    /\ outcome \in [Gens -> {"none", "pushError", "readError", "wrong", "ok", "raced"}]
    /\ main # "listen" => gen # 0
    /\ main = "read" => tick[gen] # "none"

Init ==
    /\ main = "listen" /\ gen = 0
    /\ sock = [g \in Gens |-> "none"]
    /\ tick = [g \in Gens |-> "none"]
    /\ answer = [g \in Gens |-> "none"]
    /\ outcome = [g \in Gens |-> "none"]

-----------------------------------------------------------------------------
(* Connect *)

\* ListenUDP.  When it fails Connect begins again, which changes nothing.
Listen ==
    /\ main = "listen"
    /\ gen < MaxGen
    /\ gen' = gen + 1
    /\ sock' = [sock EXCEPT ![gen + 1] = "open"]
    /\ main' = "push"
    /\ UNCHANGED <<tick, answer, outcome>>

\* OnError, then reconnecting, which comes back to ListenUDP.  The socket of the
\* attempt is left as it is.
giveUp(why) ==
    /\ outcome' = [outcome EXCEPT ![gen] = why]
    /\ main' = "listen"

PushOpen ==
    /\ main = "push"
    /\ sock[gen] = "open"
    /\ main' = "arm"
    /\ UNCHANGED <<gen, sock, tick, answer, outcome>>

PushFails ==
    /\ main = "push"
    /\ giveUp("pushError")
    /\ UNCHANGED <<gen, sock, tick, answer>>

\* Mutated: the timer is never made.
AfterFunc_None == UNCHANGED tick

AfterFunc == tick' = [tick EXCEPT ![gen] = "armed"]

Arm ==
    /\ main = "arm"
    /\ AfterFunc
    /\ main' = "read"
    /\ UNCHANGED <<gen, sock, answer, outcome>>

\* msg[2] is Open.
isAck(a) == a = "open"

ReadAck ==
    /\ main = "read"
    /\ sock[gen] = "open"
    /\ isAck(answer[gen])
    /\ main' = "stop"
    /\ UNCHANGED <<gen, sock, tick, answer, outcome>>

\* Another datagram was faster: the timer runs on, the socket stays open.
ReadWrong ==
    /\ main = "read"
    /\ sock[gen] = "open"
    /\ answer[gen] # "none" /\ ~isAck(answer[gen])
    /\ giveUp("wrong")
    /\ UNCHANGED <<gen, sock, tick, answer>>

\* The socket was closed by a timer or by the user.
ReadFails ==
    /\ main = "read"
    /\ sock[gen] = "closed"
    /\ giveUp("readError")
    /\ UNCHANGED <<gen, sock, tick, answer>>

\* Mutated: the timer is not stopped.
Stop_Not == UNCHANGED tick

\* tick.Stop is too late for a timer whose function has started.
Stop == tick' = [tick EXCEPT ![gen] = IF @ = "armed" THEN "stopped" ELSE @]

Connected ==
    /\ main = "stop"
    /\ Stop
    /\ outcome' = [outcome EXCEPT ![gen] = IF tick[gen] = "armed" THEN "ok" ELSE "raced"]
    /\ main' = "run"
    /\ UNCHANGED <<gen, sock, answer>>

\* Mutated: the socket stays when its connection is over.
closeConn_Not == UNCHANGED sock

closeConn == sock' = [sock EXCEPT ![gen] = "closed"]

\* The connection ends in one of SocketClient's ways: it is closed, and
\* reconnecting begins again.
RunEnds ==
    /\ main = "run"
    /\ closeConn
    /\ main' = "listen"
    /\ UNCHANGED <<gen, tick, answer, outcome>>

-----------------------------------------------------------------------------
(* The network, the timers and the user *)

\* The first datagram that reaches the socket of the attempt.
Arrive(a) ==
    /\ gen # 0
    /\ main \in {"arm", "read"}
    /\ answer[gen] = "none"
    /\ answer' = [answer EXCEPT ![gen] = a]
    /\ UNCHANGED <<main, gen, sock, tick, outcome>>

TickFires(g) ==
    /\ tick[g] = "armed"
    /\ tick' = [tick EXCEPT ![g] = "fired"]
    /\ UNCHANGED <<main, gen, sock, answer, outcome>>

\* c.Close(): a Close message and the end of whatever socket c.Conn holds.
TickCloses(g) ==
    /\ tick[g] = "fired"
    /\ tick' = [tick EXCEPT ![g] = "over"]
    /\ closeConn
    /\ UNCHANGED <<main, gen, answer, outcome>>

Close ==
    /\ gen # 0
    /\ sock[gen] = "open"
    /\ sock' = [sock EXCEPT ![gen] = "closed"]
    /\ UNCHANGED <<main, gen, tick, answer, outcome>>

-----------------------------------------------------------------------------
Connect ==
    \/ Listen \/ PushOpen \/ PushFails \/ Arm
    \/ ReadAck \/ ReadWrong \/ ReadFails
    \/ Connected \/ RunEnds

Timer(g) == TickFires(g) \/ TickCloses(g)

-----------------------------------------------------------------------------
(* Properties *)

\* A server that never answers does not hold the client: each attempt ends
\* (219), under the fairness of UdpSession.
HandshakeEnds == main = "read" ~> main # "read"

\* The client leaks the socket of an attempt only where the Open could not be
\* sent or another datagram than the acknowledgement came first (226): in every
\* other case an attempt that is over has closed its socket, whoever closed it.
LeaksOnlyUnclosedFailures ==
    \A g \in Gens :
        /\ g < gen /\ sock[g] = "open" => outcome[g] \in {"pushError", "wrong"}
        /\ g = gen /\ main = "listen" /\ sock[g] = "open" =>
               outcome[g] \in {"pushError", "wrong"}

timerCloses(g) == tick[g] = "fired" /\ tick'[g] = "over"

\* Lines 213-214 say of what the timer closes "handler.ReadFromUDP will read
\* failed", "then trigger reconnecting".  It closes something else than the
\* handshake it was made for, be it a connection that works or the socket of a
\* later attempt, only if Stop (232) came after it had fired, or if its attempt
\* ended without it at 220 or 226.
StaleTickNeedsFailure ==
    [][\A g \in Gens : timerCloses(g) =>
           \/ gen = g /\ main \in {"read", "stop"}
           \/ outcome[g] \in {"wrong", "readError", "raced"}]_vars
=============================================================================
