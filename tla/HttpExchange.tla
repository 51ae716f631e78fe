----------------------------- MODULE HttpExchange -----------------------------
(***************************************************************************)
(* A request of http/client, from its info to the hooks of http/server     *)
(* that read its parameter.  The client builds requests from one info and  *)
(* sends one of them; the network is HTTP, which delivers it as it is.     *)
(***************************************************************************)
EXTENDS HttpInfo, HttpServer

VARIABLE sent  \* <<>>, then the params of which Send was called

exchangeVars == <<infoVars, serverVars, sent>>

NoRequest == [method |-> "GET", badUrl |-> FALSE, value |-> "plain", query |-> FALSE,
              body |-> "none", boundary |-> 0, header |-> NoHeader]

ExchangeInit ==
    /\ InfoInit /\ NewStream(NoRequest) /\ Idle
    /\ sent = <<>>

ClientBuilds ==
    /\ sent = <<>>
    /\ Info
    /\ UNCHANGED <<serverVars, sent>>

\* The others that were built, and the counter of headers, are of no concern then.
SendOf(i) ==
    /\ sent = <<>>
    /\ sent' = <<reqs[i]>>
    /\ reqs' = <<>> /\ headers' = 0
    /\ UNCHANGED <<method, badUrl, header>>

\* Send of params without an error reaches the server, if there is a request.
ClientSends(i) ==
    /\ reqs[i].result = "request"
    /\ ServeHTTP(wire(reqs[i]))
    /\ SendOf(i)

\* Without one, send returns an error and then calls a cancel that is nil.
ClientPanics(i) ==
    /\ reqs[i].result = "nil"
    /\ SendOf(i)
    /\ UNCHANGED serverVars

ServerRuns == Server /\ UNCHANGED <<infoVars, sent>>

ExchangeNext ==
    \/ ClientBuilds
    \/ \E i \in 1..Len(reqs) : ClientSends(i) \/ ClientPanics(i)
    \/ ServerRuns

ExchangeSpec == ExchangeInit /\ [][ExchangeNext]_exchangeVars

-----------------------------------------------------------------------------
(* Properties *)

\* The request was sent with the header it was built with: nothing was built
\* from its info since, nor a header set, that would have changed it (137).
AsBuilt(r) == header = r.header

\* The header tells the type of the body, which it does unless the info has two
\* of them (87 and 219).
Told(r) == r.body = r.header.type

\* What arrives as it was given, where AutoGet looks for it: in the URL of a GET,
\* which is escaped (207); in the body of other methods; in a form of a POST
\* only, and there what needs no escaping.  Never a file, and nothing that is
\* unescaped together with a query that cannot be.
Readable(r) ==
    IF method = "GET" THEN r.query /\ r.value # "file" /\ ~badUrl
    ELSE /\ Told(r)
         /\ CASE r.body = "json"      -> r.value # "file"
              [] r.body = "multipart" -> r.value # "file" /\ ~badUrl
              [] r.body = "form"      -> method = "POST" /\ r.value = "plain" /\ ~badUrl
              [] OTHER                -> FALSE

\* A file arrives in Files, in a multipart body of any method but GET, also when
\* the URL cannot be unescaped.
Uploaded(r) == method # "GET" /\ r.body = "multipart" /\ r.value = "file"

\* What client and server promise each other: if AutoParse is the first of the
\* Stream's methods that is called, as in the middleware of client_test.go 33-38,
\* then the parameter the client gave to Query, Form, Json or Multipart is what
\* AutoGet finds, whatever else is parsed afterwards, or a file what Files has;
\* and not, if the client put it where the server does not look, or as it does
\* not read it.  Params without an error could be sent, unless SetHeader was
\* given another spelling of Content-Type (87 and 219).
ParamsArrive ==
    sent # <<>> =>
        LET r == sent[1]
        IN  /\ r.header.canonical => r.result = "request"
            /\ calls # <<>> /\ calls[1] = "AutoParse" /\ AsBuilt(r) =>
                   /\ autoStore = "found" <=> Readable(r)
                   /\ Uploaded(r) => files = "found"
=============================================================================
