------------------------------ MODULE HttpServer ------------------------------
(***************************************************************************)
(* What http/server/server.go does with a request: ServeHTTP, the chain of *)
(* middlewares, and handler with its callbacks and hooks.  Everything from *)
(* "middle" to "close" is the user's code, which may call the methods of   *)
(* the Stream, fail, or panic; net/http then recovers and aborts the       *)
(* connection, and no further callback runs.                               *)
(*                                                                         *)
(* One goroutine serves one request and shares nothing with the others but *)
(* the router, which does not change here.  Callbacks that are nil count   *)
(* as ones that do nothing.  A middleware calls next once at most.         *)
(***************************************************************************)
EXTENDS HttpStream, Naturals, Sequences

CONSTANTS
    Middles,  \* number of middlewares
    Befores,  \* number of hooks before the route's function
    Afters,   \* and after it
    MaxCalls  \* bound: methods of the Stream that parse, per request

ASSUME HooksAssumption ==
    /\ Middles \in Nat /\ Befores \in Nat /\ Afters \in Nat /\ MaxCalls \in Nat

VARIABLES
    stage,   \* where the request is: "none" before it comes, "returned" when
             \* ServeHTTP returned, "panicked" or "nilStore" when it panicked
    hook,    \* the number of the middleware or hook that runs
    ran,     \* the hooks and functions that returned without an error
    calls,   \* the parsing methods called so far (history)
    errors,  \* calls of OnError and of OnClose
    closed

pipeVars   == <<stage, hook, ran, errors, closed>>
serverVars == <<streamVars, pipeVars, calls>>

UserCode ==
    {"middle", "open", "message", "before", "function", "after", "error", "close"}

Idle ==
    /\ stage = "none" /\ hook = 0
    /\ ran = <<>> /\ calls = <<>>
    /\ errors = 0 /\ closed = 0

-----------------------------------------------------------------------------
Goto(s, i) == stage' = s /\ hook' = i

\* The first of n numbered steps, or what comes after them.
First(s, n, next) == IF n > 0 THEN Goto(s, 1) ELSE Goto(next, 0)

\* s.router is nil (233), or a GET is answered with a static file (239).
Refuse ==
    /\ Goto("returned", 0)
    /\ UNCHANGED <<ran, errors, closed>>

\* NewStream, then the first middleware.
Process ==
    /\ First("middle", Middles, "open")
    /\ UNCHANGED <<ran, errors, closed>>

\* A middleware calls next; handler is the last of the chain.
CallNext ==
    /\ stage = "middle"
    /\ IF hook < Middles THEN Goto("middle", hook + 1) ELSE Goto("open", 0)
    /\ UNCHANGED <<ran, errors, closed>>

\* It answers by itself; what comes after next is not modelled.
AnswerItself ==
    /\ stage = "middle"
    /\ Goto("returned", 0)
    /\ UNCHANGED <<ran, errors, closed>>

\* After OnOpen: the route is looked up.  404 is an error like those of hooks.
Route ==
    /\ stage = "open"
    /\ \/ Goto("message", 0) /\ UNCHANGED errors
       \/ Goto("error", 0) /\ errors' = errors + 1
    /\ UNCHANGED <<ran, closed>>

Message ==
    /\ stage = "message"
    /\ First("before", Befores, "function")
    /\ UNCHANGED <<ran, errors, closed>>

\* A hook or the function returns nil.
Succeeds ==
    /\ stage \in {"before", "function", "after"}
    /\ ran' = Append(ran, <<stage, hook>>)
    /\ CASE stage = "before" ->
              IF hook < Befores THEN Goto("before", hook + 1) ELSE Goto("function", 0)
         [] stage = "function" -> First("after", Afters, "returned")
         [] stage = "after" ->
              IF hook < Afters THEN Goto("after", hook + 1) ELSE Goto("returned", 0)
    /\ UNCHANGED <<errors, closed>>

\* Mutated: the return after OnError and OnClose is missing in the loop of the
\* hooks before.
afterClose_GoesOn ==
    IF hook \in 1..Befores THEN Goto("function", 0) ELSE Goto("returned", 0)

\* handler returns after OnClose.
afterClose == Goto("returned", 0)

\* It returns an error.
Fails ==
    /\ stage \in {"before", "function", "after"}
    /\ errors' = errors + 1
    /\ Goto("error", hook)
    /\ UNCHANGED <<ran, closed>>

OnError ==
    /\ stage = "error"
    /\ Goto("close", hook)
    /\ closed' = closed + 1
    /\ UNCHANGED <<ran, errors>>

OnClose ==
    /\ stage = "close"
    /\ afterClose
    /\ UNCHANGED <<ran, errors, closed>>

Handler ==
    /\ \/ CallNext \/ AnswerItself \/ Route \/ Message
       \/ Succeeds \/ Fails \/ OnError \/ OnClose
    /\ UNCHANGED <<streamVars, calls>>

\* ServeHTTP: router or not, static file or not.
ServeHTTP(r) ==
    /\ stage = "none"
    /\ request' = r
    /\ Refuse \/ Process
    /\ UNCHANGED <<stores, netVars, calls>>

-----------------------------------------------------------------------------
(* The user's code *)

Calls(name, parse) ==
    /\ stage \in UserCode
    /\ Len(calls) < MaxCalls
    /\ parse
    /\ calls' = Append(calls, name)
    /\ UNCHANGED <<request, pipeVars>>

Parses ==
    \/ Calls("AutoParse", AutoParse)
    \/ Calls("ParseQuery", ParseQuery) \/ Calls("ParseForm", ParseForm)
    \/ Calls("ParseMultipart", ParseMultipart) \/ Calls("ParseFiles", ParseFiles)
    \/ Calls("ParseJson", ParseJson)

Panics ==
    /\ stage \in UserCode
    /\ stage' = "panicked"
    /\ UNCHANGED <<streamVars, hook, ran, errors, closed, calls>>

\* AutoGet, or String, of a Stream whose store is nil; in every other case they
\* change nothing.
AutoGetPanics ==
    /\ stage \in UserCode
    /\ autoStore = "nil"
    /\ stage' = "nilStore"
    /\ UNCHANGED <<streamVars, hook, ran, errors, closed, calls>>

Server == Handler \/ Parses \/ Panics \/ AutoGetPanics

-----------------------------------------------------------------------------
(* Properties *)

autoParsed == \E i \in 1..Len(calls) : calls[i] = "AutoParse"

\* AutoGet needs AutoParse, but not at any particular time: after it, whatever
\* else was parsed in whatever order, it does not run into a store that is nil
\* (262-278 against 236-258).
AutoGetSafe == stage = "nilStore" => ~autoParsed

\* The first error ends the request (85, 101, 113, 126): nothing of the route
\* runs after it, OnError and OnClose come once, in that order, and without an
\* error neither of them comes.  A route that ran to its end ran all of its
\* hooks, each once.
FailureEndsRequest ==
    /\ errors <= 1 /\ closed <= errors
    /\ errors = 1 => stage \in {"error", "close", "returned", "panicked", "nilStore"}
    /\ stage = "returned" => closed = errors
    /\ stage = "returned" /\ errors = 0 /\ ran # <<>> =>
           ran = [i \in 1..Befores |-> <<"before", i>>] \o <<<<"function", 0>>>>
                 \o [i \in 1..Afters |-> <<"after", i>>]
=============================================================================
