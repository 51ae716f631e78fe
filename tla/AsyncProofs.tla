------------------------------ MODULE AsyncProofs ------------------------------
(***************************************************************************)
(* Proofs about Async, for any calls and events.                           *)
(*                                                                         *)
(* A call that is alone on its event keeps its route from before its       *)
(* request is sent until it gives up, and its answer is in one place at a  *)
(* time: to be given, on its way, in the route, or received.               *)
(***************************************************************************)
EXTENDS Async, TLAPS

\* The route under an event belongs to a call that was made, under that event.
RouteInv ==
    \A e \in Events : route[e] # NoCall => event[route[e]] = e /\ pc[route[e]] # "idle"

\* A call that is alone on its event has its route while it waits.
OwnRoute ==
    \A k \in Calls :
        alone(k) /\ pc[k] \in {"emit", "sent", "select"} => route[event[k]] = k

onTheWay(k) == \E i \in 1..Len(inbox) : inbox[i] = k

\* The answer to k is in one place at most, and in none before k is sent.
FlightInv ==
    /\ \A k \in Calls :
        /\ pc[k] \in {"idle", "emit"} =>
               /\ k \notin asked /\ ~onTheWay(k) /\ got # k /\ k \notin dropped
               /\ \A j \in Calls : result[j] # k
        /\ k \in asked => ~onTheWay(k) /\ got # k /\ k \notin dropped
        /\ onTheWay(k) => got # k /\ k \notin dropped
        /\ k \in asked \/ onTheWay(k) \/ got = k => \A j \in Calls : result[j] # k
    /\ \A i, j \in 1..Len(inbox) : inbox[i] = inbox[j] => i = j

Inv == TypeOK /\ RouteInv /\ OwnRoute /\ FlightInv /\ AnswerFindsCall

-----------------------------------------------------------------------------
\* The types and the owners of routes are kept together: a route runs for the call
\* that the reader found under the event of the answer.
LEMMA TypeStep == TypeOK /\ RouteInv /\ [Next]_vars => TypeOK' /\ RouteInv'
<1> SUFFICES ASSUME TypeOK, RouteInv, [Next]_vars PROVE TypeOK' /\ RouteInv'
  OBVIOUS
<1> USE ConstantsAssumption
<1>1. ASSUME NEW k \in Calls, Register(k) PROVE TypeOK' /\ RouteInv'
  BY <1>1 DEF TypeOK, RouteInv, Register, Goto, Enter, entersAt
<1>2. ASSUME NEW k \in Calls, Send(k) PROVE TypeOK' /\ RouteInv'
  BY <1>2 DEF TypeOK, RouteInv, Send, Goto
<1>3. ASSUME NEW k \in Calls, SendFails(k) \/ EncodingFails(k) PROVE TypeOK' /\ RouteInv'
  BY <1>3 DEF TypeOK, RouteInv, SendFails, EncodingFails, Goto
<1>4. ASSUME NEW k \in Calls, Select(k) PROVE TypeOK' /\ RouteInv'
  BY <1>4 DEF TypeOK, RouteInv, Select, Goto, Enter, entersAt
<1>5. ASSUME NEW k \in Calls, Timeout(k) PROVE TypeOK' /\ RouteInv'
  BY <1>5 DEF TypeOK, RouteInv, Timeout, Goto
<1>6. ASSUME NEW k \in Calls, Remove(k) PROVE TypeOK' /\ RouteInv'
  BY <1>6 DEF TypeOK, RouteInv, Remove, Goto
<1>7. ASSUME NEW k \in Calls, Receive(k) PROVE TypeOK' /\ RouteInv'
  BY <1>7 DEF TypeOK, RouteInv, Receive, Goto
<1>8. ASSUME NEW k \in Calls, Answer(k) PROVE TypeOK' /\ RouteInv'
  BY <1>8 DEF TypeOK, RouteInv, Answer
<1>9. CASE Lookup
  <2>1. Head(inbox) \in Calls /\ Tail(inbox) \in Seq(Calls)
    BY <1>9 DEF Lookup, TypeOK
  <2> QED
    BY <1>9, <2>1 DEF TypeOK, RouteInv, Lookup, routeOf
<1>10. CASE UNCHANGED vars
  BY <1>10 DEF TypeOK, RouteInv, vars
<1>11. CASE ConnChanges
  <2>1. inbox' \in Seq(Calls) /\ asked' \subseteq Calls
    <3>1. <<>> \in Seq(Calls) /\ inbox \in Seq(Calls) /\ asked \subseteq Calls
      BY DEF TypeOK
    <3>2. inbox' \in {inbox, <<>>} /\ asked' \in {asked, {}}
      BY <1>11 DEF ConnChanges
    <3> QED
      BY <3>1, <3>2
  <2> QED
    BY <1>11, <2>1 DEF TypeOK, RouteInv, ConnChanges
<1> QED
  BY <1>1, <1>2, <1>3, <1>4, <1>5, <1>6, <1>7, <1>8, <1>9, <1>10, <1>11 DEF Next, Emit

-----------------------------------------------------------------------------
\* A call that is alone was alone: no call becomes idle again.
LEMMA AloneBefore ==
    ASSUME TypeOK, [Next]_vars, NEW k \in Calls, alone(k)'
    PROVE  alone(k) /\ event' = event
<1>1. \A j \in Calls : pc[j] # "idle" => pc'[j] # "idle"
  BY DEF Next, Emit, Register, Send, SendFails, EncodingFails, Select, Timeout, Remove,
         Receive, Answer, Lookup, ConnChanges, Goto, TypeOK, vars
<1>2. event' = event
  BY DEF Next, Emit, Register, Send, SendFails, EncodingFails, Select, Timeout, Remove,
         Receive, Answer, Lookup, ConnChanges, vars
<1> QED
  BY <1>1, <1>2 DEF alone

\* A lonely call keeps its route: whoever enters or removes one under its event is
\* the call itself.
LEMMA OwnRouteStep ==
    TypeOK /\ TypeOK' /\ RouteInv /\ OwnRoute /\ [Next]_vars => OwnRoute'
<1> SUFFICES ASSUME TypeOK, TypeOK', RouteInv, OwnRoute, [Next]_vars,
                    NEW k \in Calls, alone(k)', pc'[k] \in {"emit", "sent", "select"}
             PROVE  route'[event'[k]] = k
  BY DEF OwnRoute
<1>a. alone(k) /\ event' = event
  BY AloneBefore
<1>b. \A j \in Calls \ {k} : event[j] = event[k] => pc[j] = "idle" /\ pc'[j] = "idle"
  BY <1>a DEF alone
<1>1. ASSUME NEW j \in Calls, Register(j) PROVE route'[event'[k]] = k
  BY <1>1, <1>a, <1>b DEF Register, Goto, Enter, entersAt, TypeOK, OwnRoute
<1>2. ASSUME NEW j \in Calls, Remove(j) PROVE route'[event'[k]] = k
  BY <1>2, <1>a, <1>b DEF Remove, Goto, TypeOK, OwnRoute
<1>3. ASSUME NEW j \in Calls,
             \/ Send(j) \/ SendFails(j) \/ EncodingFails(j)
             \/ Select(j) \/ Timeout(j) \/ Receive(j)
      PROVE  route'[event'[k]] = k
  BY <1>3, <1>a DEF Send, SendFails, EncodingFails, Select, Timeout, Receive, Goto, Enter, entersAt,
                    TypeOK, OwnRoute
<1>4. CASE Lookup \/ ConnChanges \/ UNCHANGED vars \/ \E j \in Calls : Answer(j)
  BY <1>4, <1>a DEF Lookup, ConnChanges, Answer, vars, OwnRoute
<1> QED
  BY <1>1, <1>2, <1>3, <1>4 DEF Next, Emit

-----------------------------------------------------------------------------
\* An answer moves from one place to the next.
LEMMA FlightStep == TypeOK /\ TypeOK' /\ FlightInv /\ [Next]_vars => FlightInv'
<1> SUFFICES ASSUME TypeOK, TypeOK', FlightInv, [Next]_vars PROVE FlightInv'
  OBVIOUS
<1> USE ConstantsAssumption
<1>1. ASSUME NEW k \in Calls,
             \/ Register(k) \/ SendFails(k) \/ EncodingFails(k)
             \/ Select(k) \/ Timeout(k) \/ Remove(k)
      PROVE  FlightInv'
  BY <1>1 DEF FlightInv, onTheWay, Register, SendFails, EncodingFails, Select, Timeout,
              Remove, Goto, TypeOK
<1>2. ASSUME NEW k \in Calls, Send(k) PROVE FlightInv'
  BY <1>2 DEF FlightInv, onTheWay, Send, Goto, TypeOK
<1>3. ASSUME NEW k \in Calls, Receive(k) PROVE FlightInv'
  BY <1>3 DEF FlightInv, onTheWay, Receive, Goto, TypeOK
<1>4. ASSUME NEW k \in Calls, Answer(k) PROVE FlightInv'
  BY <1>4 DEF FlightInv, onTheWay, Answer, TypeOK
<1>5. CASE Lookup
  BY <1>5 DEF FlightInv, onTheWay, Lookup, TypeOK
<1>6. CASE UNCHANGED vars
  BY <1>6 DEF FlightInv, onTheWay, vars
<1>7. CASE ConnChanges
  <2>1. CASE inbox' = inbox
    BY <1>7, <2>1 DEF FlightInv, onTheWay, ConnChanges
  <2>2. CASE inbox' = <<>>
    BY <1>7, <2>2 DEF FlightInv, onTheWay, ConnChanges
  <2> QED
    BY <1>7, <2>1, <2>2 DEF ConnChanges
<1> QED
  BY <1>1, <1>2, <1>3, <1>4, <1>5, <1>6, <1>7 DEF Next, Emit

-----------------------------------------------------------------------------
\* The answer to a lonely call is dropped only when the call has given up, and no
\* other answer comes to it.
LEMMA FindsStep ==
    /\ TypeOK /\ TypeOK' /\ RouteInv /\ OwnRoute /\ FlightInv /\ AnswerFindsCall
    /\ [Next]_vars
    => AnswerFindsCall'
<1> DEFINE Finds(k) == /\ k \in dropped => pc[k] \in {"remove", "done"} /\ result[k] = NoCall
                       /\ result[k] \in {k, NoCall}
                       /\ found = k => got = k /\ result[k] = NoCall
<1> SUFFICES ASSUME TypeOK, TypeOK', RouteInv, OwnRoute, FlightInv, AnswerFindsCall,
                    [Next]_vars, NEW k \in Calls, alone(k)'
             PROVE  Finds(k)'
  BY DEF AnswerFindsCall
<1> DEFINE Goal == Finds(k)'
<1> USE ConstantsAssumption
<1>a. alone(k) /\ event' = event
  BY AloneBefore
<1>b. Finds(k)
  BY <1>a DEF AnswerFindsCall
<1>1. ASSUME NEW j \in Calls,
             \/ Register(j) \/ Send(j) \/ SendFails(j) \/ EncodingFails(j)
             \/ Select(j) \/ Timeout(j) \/ Remove(j)
      PROVE  Goal
  BY <1>1, <1>b DEF Register, Send, SendFails, EncodingFails, Select, Timeout, Remove, Goto,
                    TypeOK
<1>2. ASSUME NEW j \in Calls, Receive(j) PROVE Goal
  <2>1. CASE j # k
    BY <1>2, <1>b, <2>1 DEF Receive, Goto, TypeOK
  <2>2. CASE j = k
    <3>1. reader = "send" /\ found = k /\ got = k
      BY <1>2, <1>b, <2>2 DEF Receive
    <3> QED
      BY <1>2, <2>2, <3>1, <1>b DEF Receive, Goto, TypeOK
  <2> QED
    BY <2>1, <2>2
<1>3. CASE Lookup
  <2> DEFINE j == Head(inbox)
  <2>0. inbox # <<>> /\ j \in Calls /\ onTheWay(j) /\ UNCHANGED <<pc, result>>
    BY <1>3 DEF Lookup, TypeOK, onTheWay
  <2>1. pc[j] \notin {"idle", "emit"} /\ \A i \in Calls : result[i] # j
    BY <2>0 DEF FlightInv
  <2>2. k \in dropped' => pc'[k] \in {"remove", "done"} /\ result'[k] = NoCall
    <3>1. CASE k \in dropped \/ k \notin dropped'
      BY <1>b, <2>0, <3>1
    <3>2. CASE k \notin dropped /\ k \in dropped'
      <4>1. j = k /\ route[event[k]] = NoCall
        BY <1>3, <3>2 DEF Lookup, routeOf
      <4>2. pc[k] \notin {"sent", "select"}
        BY <4>1, <1>a DEF OwnRoute
      <4> QED
        BY <1>b, <2>0, <2>1, <4>1, <4>2 DEF TypeOK
    <3> QED
      BY <3>1, <3>2
  <2>3. ASSUME found' = k PROVE got' = k /\ result'[k] = NoCall
    \* The answer is to a call under the same event that was made: to k.
    <3>1. got' = j /\ route[event[j]] = k
      <4>1. found # k /\ k # NoCall
        BY <1>3 DEF Lookup, TypeOK
      <4> QED
        BY <1>3, <2>3, <4>1 DEF Lookup, routeOf
    <3>2. event[k] = event[j]
      BY <3>1, <2>0 DEF RouteInv, TypeOK
    <3>3. j = k
      BY <3>2, <2>0, <2>1, <1>a DEF alone
    <3> QED
      BY <1>b, <2>0, <2>1, <3>1, <3>3
  <2> QED
    BY <1>b, <2>0, <2>2, <2>3
<1>4. CASE ConnChanges \/ UNCHANGED vars \/ \E j \in Calls : Answer(j)
  BY <1>4, <1>b DEF ConnChanges, Answer, vars
<1> QED
  BY <1>1, <1>2, <1>3, <1>4 DEF Next, Emit

-----------------------------------------------------------------------------
\* The inductive invariant of the calls holds in every state.
THEOREM CallsInvariance == Spec => []Inv
<1>1. Init => Inv
  BY ConstantsAssumption
  DEF Init, Inv, TypeOK, RouteInv, OwnRoute, FlightInv, onTheWay, AnswerFindsCall
<1>2. Inv /\ [Next]_vars => Inv'
  BY TypeStep, OwnRouteStep, FlightStep, FindsStep DEF Inv
<1> QED
  BY <1>1, <1>2, PTL DEF Spec

\* The types of Async, for any calls and events: a route runs for a call that was
\* made, with an answer to its event (40-45).
THEOREM CallsTypeCorrect == Spec => []TypeOK
<1>1. Inv => TypeOK
  BY DEF Inv
<1> QED
  BY <1>1, CallsInvariance, PTL

\* However many calls are made, one that is alone on its event has its route when
\* its answer comes (26-45), and gets no other.
THEOREM AnswersFindCalls == Spec => []AnswerFindsCall
<1>1. Inv => AnswerFindsCall
  BY DEF Inv
<1> QED
  BY <1>1, CallsInvariance, PTL
=============================================================================
