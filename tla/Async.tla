-------------------------------- MODULE Async --------------------------------
(***************************************************************************)
(* Request and answer on a socket client: Async().Emit, JsonEmit and       *)
(* ProtoBufEmit of */client/async.go, which differ in how they encode the  *)
(* data.  A call makes a channel, puts a route that sends on it in the     *)
(* client's router under the event of the request, sends the request,      *)
(* waits for the channel or a timeout, and removes the route.              *)
(*                                                                         *)
(* The answer comes through the reader goroutine of the client, which      *)
(* looks up its event and runs the route.  The channel has no buffer: the  *)
(* route returns when the call receives.  Events are looked up by name     *)
(* only; the ids of request and answer play no part.  One connection is    *)
(* modelled, not the next one of a client that reconnects.                 *)
(***************************************************************************)
EXTENDS Naturals, Sequences

CONSTANTS
    Calls,   \* the calls made, each once
    Events,
    NoCall   \* no route under an event

ASSUME ConstantsAssumption == NoCall \notin Calls

VARIABLES
    pc,      \* call -> where it is
    event,   \* call -> its event, from Register on
    result,  \* call -> whose answer it returned, or NoCall: an error
    route,   \* event -> the call whose channel its route sends on
    conn,    \* the connection: the server reads from it, or not, or it is closed
    asked,   \* requests the server has and has not answered
    inbox,   \* answers on their way, each named by the call it answers
    reader,  \* "read", or "send": in a route
    found,   \* the call whose channel that route sends on
    got,     \* the answer it sends
    dropped  \* answers no route was found for (history: nothing reads it)

vars == <<pc, event, result, route, conn, asked, inbox, reader, found, got, dropped>>

\* A route runs for a call that has been made, with an answer to its event.
TypeOK ==
    /\ pc \in [Calls -> {"idle", "emit", "sent", "select", "remove", "done"}]
    /\ event \in [Calls -> Events]
    /\ result \in [Calls -> Calls \cup {NoCall}]
    /\ route \in [Events -> Calls \cup {NoCall}]
    /\ conn \in {"reading", "stalled", "closed"}
    /\ asked \subseteq Calls /\ dropped \subseteq Calls
    /\ inbox \in Seq(Calls)
    /\ reader \in {"read", "send"}
    /\ found \in Calls \cup {NoCall} /\ got \in Calls \cup {NoCall}
    /\ reader = "send" <=> found # NoCall
    /\ reader = "send" <=> got # NoCall
    /\ reader = "send" => event[got] = event[found] /\ pc[found] # "idle"

Init ==
    /\ pc = [k \in Calls |-> "idle"]
    /\ event \in [Calls -> Events]
    /\ result = [k \in Calls |-> NoCall]
    /\ route = [e \in Events |-> NoCall]
    /\ conn = "reading" /\ asked = {} /\ inbox = <<>>
    /\ reader = "read" /\ found = NoCall /\ got = NoCall
    /\ dropped = {}

Goto(k, from, to) == pc[k] = from /\ pc' = [pc EXCEPT ![k] = to]

-----------------------------------------------------------------------------
(* Emit, on the goroutine of the caller *)

\* Mutated: the request goes first.
entersAt_Sent == "select"

\* The route is entered first of all.
entersAt == "emit"

\* On the way to `at`: a route under the same event is replaced.
Enter(k, at) ==
    route' = IF at = entersAt THEN [route EXCEPT ![event[k]] = k] ELSE route

Register(k) ==
    /\ Goto(k, "idle", "emit")
    /\ Enter(k, "emit")
    /\ UNCHANGED <<event, result, conn, asked, inbox, reader, found, got, dropped>>

\* Conn.Write, with the wait for c.mux, has no deadline: it goes on while the
\* server does not read.  On a closed connection it may still seem to succeed.
Send(k) ==
    /\ conn # "stalled"
    /\ Goto(k, "emit", "sent")
    /\ asked' = IF conn = "reading" THEN asked \cup {k} ELSE asked
    /\ UNCHANGED <<event, result, route, conn, inbox, reader, found, got, dropped>>

\* Emit has returned, and the clock of the timeout starts.  An answer that was
\* quicker has its route waiting at the channel.
Select(k) ==
    /\ Goto(k, "sent", "select")
    /\ Enter(k, "select")
    /\ UNCHANGED <<event, result, conn, asked, inbox, reader, found, got, dropped>>

SendFails(k) ==
    /\ conn = "closed"
    /\ Goto(k, "emit", "remove")
    /\ UNCHANGED <<event, result, route, conn, asked, inbox, reader, found, got, dropped>>

\* JsonEmit or ProtoBufEmit cannot encode the data.
EncodingFails(k) ==
    /\ Goto(k, "emit", "remove")
    /\ UNCHANGED <<event, result, route, conn, asked, inbox, reader, found, got, dropped>>

\* Mutated: the timeout ends with the route of the call.
timeoutRuns_Routed(k) == route[event[k]] = k

\* time.After(DailTimeout), from Select on.
timeoutRuns(k) == TRUE

Timeout(k) ==
    /\ timeoutRuns(k)
    /\ Goto(k, "select", "remove")
    /\ UNCHANGED <<event, result, route, conn, asked, inbox, reader, found, got, dropped>>

\* The deferred Remove, which asks for the event only: the route of another
\* call goes with it.
Remove(k) ==
    /\ Goto(k, "remove", "done")
    /\ route' = [route EXCEPT ![event[k]] = NoCall]
    /\ UNCHANGED <<event, result, conn, asked, inbox, reader, found, got, dropped>>

-----------------------------------------------------------------------------
(* The reader goroutine *)

routeOf(j) == route[event[j]]

\* decodeMessage, middleware and handler up to the route.  With no route the
\* answer is reported to OnError and gone.
Lookup ==
    /\ reader = "read"
    /\ inbox # <<>>
    /\ LET j == Head(inbox)
           k == routeOf(j)
       IN  IF k = NoCall
           THEN /\ dropped' = dropped \cup {j}
                /\ UNCHANGED <<reader, found, got>>
           ELSE /\ reader' = "send" /\ found' = k /\ got' = j
                /\ UNCHANGED dropped
    /\ inbox' = Tail(inbox)
    /\ UNCHANGED <<pc, event, result, route, conn, asked>>

\* ch <- stream meets the select of the call.
Receive(k) ==
    /\ reader = "send" /\ found = k
    /\ Goto(k, "select", "remove")
    /\ result' = [result EXCEPT ![k] = got]
    /\ reader' = "read" /\ found' = NoCall /\ got' = NoCall
    /\ UNCHANGED <<event, route, conn, asked, inbox, dropped>>

-----------------------------------------------------------------------------
\* The server answers a request under its event, when it likes.
Answer(k) ==
    /\ k \in asked
    /\ asked' = asked \ {k}
    /\ inbox' = Append(inbox, k)
    /\ UNCHANGED <<pc, event, result, route, conn, reader, found, got, dropped>>

\* The server stops reading or reads again, or the connection is closed for good.
\* What was on its way then has arrived or is lost.
ConnChanges ==
    /\ conn # "closed"
    /\ conn' \in {"reading", "stalled", "closed"} \ {conn}
    /\ IF conn' = "closed"
       THEN asked' = {} /\ inbox' \in {inbox, <<>>}
       ELSE UNCHANGED <<asked, inbox>>
    /\ UNCHANGED <<pc, event, result, route, reader, found, got, dropped>>

-----------------------------------------------------------------------------
\* A call that has been made goes on.
Emit(k) == Send(k) \/ SendFails(k) \/ Select(k) \/ Timeout(k) \/ Remove(k) \/ Receive(k)

Next ==
    \/ Lookup \/ ConnChanges
    \/ \E k \in Calls : Register(k) \/ Emit(k) \/ EncodingFails(k) \/ Answer(k)

Spec == Init /\ [][Next]_vars

\* The goroutines of the calls run and timeouts come.  The server need not answer,
\* and the reader may be gone.
Fairness == \A k \in Calls : WF_vars(Emit(k))

FairSpec == Spec /\ Fairness

-----------------------------------------------------------------------------
(* Properties *)

alone(k) == \A j \in Calls \ {k} : event[j] = event[k] => pc[j] = "idle"

\* However fast the server is, the answer to a call that still waits finds its
\* route, the call gets its own answer, and a route that holds the reader past the
\* call's select sends what came too late for a call that failed; unless another
\* call was made under the same event.  (With two, one may get the other's answer,
\* and its Remove takes the other's route away.)
AnswerFindsCall ==
    \A k \in Calls : alone(k) =>
        /\ k \in dropped => pc[k] \in {"remove", "done"} /\ result[k] = NoCall
        /\ result[k] \in {k, NoCall}
        /\ found = k => got = k /\ result[k] = NoCall

\* A call returns, whether the server answers or not, and whether or not its
\* route has been replaced or removed by another call, provided the server does
\* not stop reading: the timeout starts (38) after a write (33) without one.
CallReturns ==
    <>[](conn # "stalled") => \A k \in Calls : pc[k] = "emit" ~> pc[k] = "done"
=============================================================================
