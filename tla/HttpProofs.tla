------------------------------ MODULE HttpProofs ------------------------------
(***************************************************************************)
(* Proofs about HttpExchange, for any number of requests built from an     *)
(* info, of middlewares, hooks and calls of the Stream's methods; and, at  *)
(* the end, about HttpSend, for any requests and any number of Sends.      *)
(*                                                                         *)
(* In HttpExchange the argument follows the parameter: what a builder puts *)
(* into a request agrees with the header it leaves (BuiltInv), the server  *)
(* has the request that was sent (ServedInv), the first AutoParse finds in *)
(* it what is there (AutoParseFinds), and no later call changes a store    *)
(* that was filled (ParsesKeep).                                           *)
(*                                                                         *)
(* In HttpSend, OwnSettings and OneResponse both follow from what the      *)
(* holder of hMux has done so far: it finds the defaults, changes what its *)
(* info has, keeps it so until it has restored everything, and does not    *)
(* give the mutex back before its context is cancelled.                    *)
(***************************************************************************)
EXTENDS HttpExchange, HttpSend, SequenceTheorems, TLAPS

Stages == UserCode \cup {"none", "returned", "panicked", "nilStore"}

Names == {"AutoParse", "ParseQuery", "ParseForm", "ParseMultipart", "ParseFiles", "ParseJson"}

Params == [result : {"request", "error", "nil"}, value : ParamValues, query : BOOLEAN,
           body : {"none", "form", "json", "multipart"}, boundary : 0..MaxBuilds,
           header : Header]

\* The types, stage by stage.
TypeInv ==
    /\ method \in Methods /\ badUrl \in BOOLEAN /\ header \in Header
    /\ reqs \in Seq(Params) /\ Len(reqs) <= MaxBuilds
    /\ sent \in Seq(Params) /\ Len(sent) <= 1
    /\ query \in Store /\ form \in Store /\ json \in Store /\ files \in Store
    /\ postForm \in Store /\ multipartForm \in Store
    /\ calls \in Seq(Names)
    /\ stage \in Stages /\ hook \in Nat
    /\ ran \in Seq(UserCode \X Nat)
    /\ errors \in Nat /\ closed \in Nat

\* Without a request the header has another spelling; a multipart body has the
\* boundary that the header tells.
Consistent(r) ==
    /\ r.result = "nil" => ~r.header.canonical
    /\ r.body = "multipart" /\ r.result = "request" =>
           /\ r.header.type = "multipart"
           /\ r.boundary # 0 /\ r.header.boundary = r.boundary

BuiltInv ==
    /\ \A i \in 1..Len(reqs) : Consistent(reqs[i])
    /\ sent # <<>> => Consistent(sent[1])

Unparsed ==
    /\ query = "nil" /\ form = "nil" /\ json = "nil" /\ files = "nil"
    /\ bodyRead = FALSE /\ postForm = "nil" /\ multipartForm = "nil"

\* The server has the request that was sent, and nothing is parsed before it.
ServedInv ==
    /\ sent = <<>> => stage = "none"
    /\ sent # <<>> => sent[1].result # "error"
    /\ stage = "none" => calls = <<>>
    /\ stage # "none" =>
           sent # <<>> /\ sent[1].result = "request" /\ request = wire(sent[1])
    /\ calls = <<>> => Unparsed

\* A multipart body can be taken apart.
Divides(r) ==
    /\ r.header.type = "multipart" /\ r.header.boundary # 0
    /\ r.body = "multipart" /\ r.boundary = r.header.boundary

\* What is there to be found in a request, and among its files.
AutoFound(r) ==
    IF r.method = "GET" THEN r.query /\ r.value # "file" /\ ~r.badUrl
    ELSE \/ Divides(r) /\ r.value # "file" /\ ~r.badUrl
         \/ /\ r.header.type = "form" /\ r.body = "form" /\ r.method = "POST"
            /\ r.value = "plain" /\ ~r.badUrl
         \/ r.header.type = "json" /\ r.body = "json" /\ r.value # "file"

FileFound(r) == r.method # "GET" /\ Divides(r) /\ r.value = "file"

\* AutoParse leaves a store, and the right one if it is the first.
ParsedInv ==
    /\ autoParsed => autoStore # "nil"
    /\ calls # <<>> /\ calls[1] = "AutoParse" =>
           /\ autoStore = "found" <=> AutoFound(request)
           /\ FileFound(request) => files = "found"

-----------------------------------------------------------------------------
(* The pipeline *)

\* The i-th hook or function of a route.
step(i) ==
    IF i <= Befores THEN <<"before", i>>
    ELSE IF i = Befores + 1 THEN <<"function", 0>>
    ELSE <<"after", i - Befores - 1>>

\* How many of them have returned, by what runs.
steps ==
    CASE stage = "before" -> hook - 1
      [] stage = "function" -> Befores
      [] stage = "after" -> Befores + hook
      [] OTHER -> 0

\* Without an error, those before the one that runs have run, each once.
RanInv ==
    /\ stage = "before" => hook \in 1..Befores
    /\ stage = "function" => hook = 0
    /\ stage = "after" => hook \in 1..Afters
    /\ stage \in {"before", "function", "after"} => errors = 0
    /\ stage \in {"none", "middle", "open", "message", "before", "function", "after"} =>
           errors = 0 /\ Len(ran) = steps
    /\ errors = 0 /\ stage = "returned" => Len(ran) \in {0, Befores + 1 + Afters}
    /\ \A i \in 1..Len(ran) : ran[i] = step(i)

ErrorsInv ==
    /\ closed \in {0, 1} /\ closed <= errors
    /\ errors \in {0, 1}
    /\ stage = "error" => errors = 1 /\ closed = 0
    /\ stage = "close" => errors = 1 /\ closed = 1
    /\ errors = 1 => stage \in {"error", "close", "returned", "panicked", "nilStore"}
    /\ stage = "returned" => closed = errors

ExchangeInv == TypeInv /\ BuiltInv /\ ServedInv /\ ParsedInv /\ AutoGetSafe /\ RanInv /\ ErrorsInv

-----------------------------------------------------------------------------
(* The Stream *)

Parse ==
    \/ AutoParse \/ ParseQuery \/ ParseForm \/ ParseMultipart \/ ParseFiles \/ ParseJson

\* A store that was filled is not filled again, by whichever method.
LEMMA ParsesKeep ==
    ASSUME TypeInv, Parse
    PROVE  /\ query' \in Store /\ form' \in Store /\ json' \in Store /\ files' \in Store
           /\ postForm' \in Store /\ multipartForm' \in Store
           /\ query # "nil" => query' = query
           /\ form # "nil" => form' = form
           /\ json # "nil" => json' = json
           /\ files # "nil" => files' = files
<1> USE DEF TypeInv, Store, Cached, found, stores, netVars, parseForm, formParsed, parseParts,
            parseMultipartForm
<1>1. CASE ParseQuery
  BY <1>1 DEF ParseQuery
<1>2. CASE ParseForm
  BY <1>2 DEF ParseForm
<1>3. CASE ParseMultipart
  BY <1>3 DEF ParseMultipart
<1>4. CASE ParseFiles
  BY <1>4 DEF ParseFiles
<1>5. CASE ParseJson
  BY <1>5 DEF ParseJson
<1>6. CASE ParseBoth
  <2>1. CASE form # "nil" \/ files # "nil"
    BY <1>6, <1>3, <1>4, <2>1 DEF ParseBoth
  <2>2. CASE form = "nil" /\ files = "nil"
    BY <1>6, <2>2 DEF ParseBoth
  <2> QED
    BY <2>1, <2>2
<1>7. CASE UNCHANGED <<stores, netVars>>
  BY <1>7
<1> QED
  BY <1>1, <1>2, <1>3, <1>4, <1>5, <1>6, <1>7 DEF Parse, AutoParse, AutoMultipart

\* AutoParse leaves the store of the request's method and type.
LEMMA AutoParseSets ==
    ASSUME TypeInv, AutoParse, request' = request
    PROVE  autoStore' # "nil"
<1> USE DEF autoStore, type, Cached, found, stores, AutoParse, AutoMultipart
<1>1. CASE request.method = "GET"
  BY <1>1 DEF ParseQuery
<1>2. CASE request.method # "GET" /\ type = "multipart"
  <2>1. CASE form # "nil"
    BY <1>2, <2>1, ParsesKeep DEF Parse
  <2>2. CASE form = "nil"
    BY <1>2, <2>2 DEF ParseBoth, ParseMultipart
  <2> QED
    BY <2>1, <2>2
<1>3. CASE request.method # "GET" /\ type = "form"
  BY <1>3 DEF ParseForm, formParsed, TypeInv, Store
<1>4. CASE request.method # "GET" /\ type = "json"
  BY <1>4 DEF ParseJson
<1>5. CASE request.method # "GET" /\ type \notin {"multipart", "form", "json"}
  BY <1>5
<1> QED
  BY <1>1, <1>2, <1>3, <1>4, <1>5

\* The first AutoParse finds what is there.
LEMMA AutoParseFinds ==
    ASSUME TypeInv, Unparsed, AutoParse, request' = request
    PROVE  /\ autoStore' = "found" <=> AutoFound(request)
           /\ FileFound(request) => files' = "found"
<1> USE DEF Unparsed, autoStore, type, Cached, found, stores, AutoParse, AutoMultipart,
            AutoFound, FileFound, Divides
<1>1. CASE request.method = "GET"
  BY <1>1 DEF ParseQuery
<1>2. CASE request.method # "GET" /\ type = "multipart"
  <2>1. form' = found(inValues /\ ~formError) /\ files' = found(inFiles)
    BY <1>2 DEF ParseBoth
  <2>2. multipartParsed <=> Divides(request)
    BY <1>2 DEF multipartParsed, readsMultipart
  <2>3. formError <=> request.badUrl
    BY <1>2 DEF formError, hasForm, readsForm
  <2> QED
    BY <1>2, <2>1, <2>2, <2>3 DEF inValues, inFiles
<1>3. CASE request.method # "GET" /\ type = "form"
  BY <1>3 DEF ParseForm, formParsed, formError, hasForm, readsForm
<1>4. CASE request.method # "GET" /\ type = "json"
  BY <1>4 DEF ParseJson
<1>5. CASE request.method # "GET" /\ type \notin {"multipart", "form", "json"}
  BY <1>5
<1> QED
  BY <1>1, <1>2, <1>3, <1>4, <1>5

-----------------------------------------------------------------------------
(* The client *)

\* What SetHeader and AddHeader make of a header is one.
LEMMA SetHeaderTypes ==
    ASSUME NEW h \in Header, NEW t \in Types, NEW b \in 0..MaxBuilds, NEW c \in BOOLEAN
    PROVE  /\ SetHeader(h, t, b, c) \in Header
           /\ SetHeader(h, t, b, c).type = t
           /\ SetHeader(h, t, b, c).boundary = b
<1> DEFINE d == IF h.type = "none" THEN c ELSE h.canonical
<1>1. d \in BOOLEAN /\ h.second \in Types \cup {"none"}
  BY DEF Header
<1>2. SetHeader(h, t, b, c) = [type |-> t, boundary |-> b, canonical |-> d, second |-> h.second]
  BY Zenon DEF SetHeader
<1> HIDE DEF d
<1> QED
  BY <1>1, <1>2 DEF Header

LEMMA AddHeaderTypes ==
    ASSUME NEW h \in Header, NEW t \in Types
    PROVE  AddHeader(h, t) \in Header
<1>1. [h EXCEPT !.second = t] \in Header
  BY DEF Header
<1>2. SetHeader(h, t, 0, TRUE) \in Header
  <2>1. TRUE \in BOOLEAN /\ 0 \in 0..MaxBuilds
    BY ConstantsAssumption
  <2> QED
    BY <2>1, SetHeaderTypes, Zenon
<1> QED
  BY <1>1, <1>2 DEF AddHeader

\* A builder leaves params that agree with the header, and types as they were.
LEMMA BuildsConsistently ==
    ASSUME TypeInv, NEW kind \in Builders, NEW v \in ParamValues, NEW i \in 1..MaxBuilds
    PROVE  LET r == getRequest(kind, v, built(kind), i)
           IN  r \in Params /\ Consistent(r)
<1> DEFINE h == built(kind)
           r == getRequest(kind, v, h, i)
<1> SUFFICES r \in Params /\ Consistent(r)
  OBVIOUS
<1>1. h \in Header /\ (kind = "Json" => h.type = "json" /\ h.boundary = 0)
  <2>1. header \in Header
    BY DEF TypeInv
  <2>2. ASSUME NEW t \in {"form", "json", "multipart"}
        PROVE  /\ SetHeader(header, t, 0, TRUE) \in Header
               /\ SetHeader(header, t, 0, TRUE).type = t
               /\ SetHeader(header, t, 0, TRUE).boundary = 0
    <3>1. t \in Types /\ TRUE \in BOOLEAN /\ 0 \in 0..MaxBuilds
      BY ConstantsAssumption DEF Types
    <3> QED
      BY <2>1, <3>1, SetHeaderTypes, Zenon
  <2> QED
    BY <2>1, <2>2 DEF Builders, built
<1> HIDE DEF h
<1> DEFINE t == contentType(h)
<1>2. /\ t \in {"none", "form", "json", "multipart", "other"}
      /\ kind = "Json" /\ t # "json" => ~h.canonical
  BY <1>1 DEF contentType, Header, Types
<1>3. boundaryTold(h, i) \in Header /\ boundaryTold(h, i).boundary = i
      /\ boundaryTold(h, i).type = "multipart"
  <2>1. "multipart" \in Types /\ TRUE \in BOOLEAN /\ i \in 0..MaxBuilds
    BY ConstantsAssumption DEF Types
  <2>2. h \in Header
    BY <1>1
  <2>3. /\ SetHeader(h, "multipart", i, TRUE) \in Header
        /\ SetHeader(h, "multipart", i, TRUE).type = "multipart"
        /\ SetHeader(h, "multipart", i, TRUE).boundary = i
    BY <2>1, <2>2, SetHeaderTypes
  <2> QED
    BY <2>3 DEF boundaryTold
<1>4. /\ r.result \in {"request", "error", "nil"} /\ r.value = v /\ r.query \in BOOLEAN
      /\ r.body \in {"none", "form", "json", "multipart"}
      /\ r.body = t \/ r.body = "none"
      /\ r.result = "nil" => kind = "Json" /\ t # "json"
      /\ \/ r.boundary = 0 /\ r.header = h /\ ~(t = "multipart" /\ r.result = "request")
         \/ r.boundary = i /\ r.header = boundaryTold(h, i) /\ r.result = "request"
  BY <1>2 DEF getRequest
<1>5. r = [result |-> r.result, value |-> r.value, query |-> r.query, body |-> r.body,
           boundary |-> r.boundary, header |-> r.header]
  BY DEF getRequest
<1> HIDE DEF r, t
<1> QED
  BY <1>1, <1>2, <1>3, <1>4, <1>5, ConstantsAssumption DEF Params, Consistent

-----------------------------------------------------------------------------
(* The steps *)

\* What the steps of the user's code do to the rest: nothing.
LEMMA ParsesAre ==
    ASSUME Parses
    PROVE  /\ stage \in UserCode
           /\ \E name \in Names :
                /\ calls' = Append(calls, name)
                /\ name = "AutoParse" => AutoParse
           /\ Parse
           /\ UNCHANGED <<request, pipeVars>>
  BY DEF Parses, Calls, Parse, Names

\* The client's steps keep the types and the agreement of bodies and headers.
LEMMA BuildsStep ==
    ASSUME TypeInv, BuiltInv, ClientBuilds
    PROVE  TypeInv' /\ BuiltInv' /\ UNCHANGED <<serverVars, sent>> /\ sent = <<>>
<1>1. UNCHANGED serverVars /\ sent = <<>> /\ UNCHANGED sent
  BY DEF ClientBuilds
<1>2. CASE UserHeader
  <2>1. header' \in Header /\ UNCHANGED <<method, badUrl, reqs>>
    <3>1. header \in Header /\ NoHeader \in Header
      BY ConstantsAssumption DEF TypeInv, NoHeader, Header
    <3>2. ASSUME NEW t \in UserTypes
          PROVE  /\ \A c \in BOOLEAN : SetHeader(header, t, 0, c) \in Header
                 /\ SetHeader(NoHeader, t, 0, TRUE) \in Header
                 /\ AddHeader(header, t) \in Header
      <4>1. t \in Types /\ 0 \in 0..MaxBuilds
        BY ConstantsAssumption DEF Types
      <4> QED
        BY <3>1, <4>1, SetHeaderTypes, AddHeaderTypes
    <3> QED
      BY <1>2, <3>1, <3>2, Zenon DEF UserHeader
  <2> QED
    BY <1>1, <2>1 DEF TypeInv, BuiltInv, serverVars, streamVars, pipeVars, stores, netVars
<1>3. ASSUME NEW kind \in Builders, Build(kind) PROVE TypeInv' /\ BuiltInv'
  <2> DEFINE i == Len(reqs) + 1
  <2>1. i \in 1..MaxBuilds
    BY <1>3, ConstantsAssumption DEF TypeInv, Build
  <2>2. PICK v \in ParamValues :
            /\ header' = getRequest(kind, v, built(kind), i).header
            /\ reqs' = Append(reqs, getRequest(kind, v, built(kind), i))
    BY <1>3 DEF Build
  <2> DEFINE r == getRequest(kind, v, built(kind), i)
  <2>3. r \in Params /\ Consistent(r)
    BY <2>1, BuildsConsistently
  <2>4. reqs' = Append(reqs, r) /\ header' = r.header /\ UNCHANGED <<method, badUrl>>
    BY <1>3, <2>2 DEF Build
  <2> HIDE DEF r
  <2>5. r.header \in Header
    BY <2>3 DEF Params
  <2>6. reqs' \in Seq(Params) /\ Len(reqs') = i /\ reqs'[i] = r
        /\ \A j \in 1..Len(reqs) : reqs'[j] = reqs[j]
    BY <2>3, <2>4 DEF TypeInv
  <2>7. TypeInv'
    BY <1>1, <2>1, <2>4, <2>5, <2>6
    DEF TypeInv, serverVars, streamVars, pipeVars, stores, netVars
  <2>8. BuiltInv'
    <3> SUFFICES ASSUME NEW j \in 1..i PROVE Consistent(reqs'[j])
      BY <1>1, <2>6 DEF BuiltInv, Consistent
    <3>1. CASE j = i
      BY <3>1, <2>3, <2>6
    <3>2. CASE j # i
      <4>1. j \in 1..Len(reqs)
        BY <3>2 DEF TypeInv
      <4> QED
        BY <4>1, <2>6 DEF BuiltInv
    <3> QED
      BY <3>1, <3>2
  <2> QED
    BY <2>7, <2>8
<1> QED
  BY <1>1, <1>2, <1>3 DEF ClientBuilds, Info

\* A Send takes one of the requests that were built.
LEMMA SendOfTakes ==
    ASSUME TypeInv, BuiltInv, NEW i \in 1..Len(reqs), SendOf(i)
    PROVE  /\ sent' \in Seq(Params) /\ Len(sent') = 1 /\ sent'[1] = reqs[i]
           /\ sent' # <<>> /\ sent = <<>>
           /\ reqs' = <<>> /\ UNCHANGED <<method, badUrl, header>>
           /\ BuiltInv'
<1>1. reqs[i] \in Params
  BY DEF TypeInv
<1>2. sent' = <<reqs[i]>> /\ reqs' = <<>> /\ sent = <<>> /\ UNCHANGED <<method, badUrl, header>>
  BY DEF SendOf
<1>3. BuiltInv'
  BY <1>2 DEF BuiltInv, Consistent
<1> QED
  BY <1>1, <1>2, <1>3

\* The types of the pipeline.
LEMMA HandlerTypes ==
    ASSUME TypeInv, Handler
    PROVE  stage' \in Stages /\ stage' # "none" /\ hook' \in Nat
           /\ ran' \in Seq(UserCode \X Nat) /\ errors' \in Nat /\ closed' \in Nat
<1> USE HooksAssumption DEF TypeInv, Goto, First, Stages, UserCode
<1>1. CASE CallNext
  BY <1>1 DEF CallNext
<1>2. CASE AnswerItself
  BY <1>2 DEF AnswerItself
<1>3. CASE Route
  BY <1>3 DEF Route
<1>4. CASE Message
  BY <1>4 DEF Message
<1>5. CASE Succeeds
  <2>1. <<stage, hook>> \in UserCode \X Nat
    BY <1>5 DEF Succeeds
  <2>2. ran' \in Seq(UserCode \X Nat)
    BY <1>5, <2>1 DEF Succeeds
  <2>3. CASE stage = "before"
    BY <1>5, <2>2, <2>3 DEF Succeeds
  <2>4. CASE stage = "function"
    BY <1>5, <2>2, <2>4 DEF Succeeds
  <2>5. CASE stage = "after"
    <3>1. \/ stage' = "after" /\ hook' = hook + 1
          \/ stage' = "returned" /\ hook' = 0
      BY <1>5, <2>5 DEF Succeeds
    <3> QED
      BY <1>5, <2>2, <3>1 DEF Succeeds
  <2> QED
    BY <1>5, <2>3, <2>4, <2>5 DEF Succeeds
<1>6. CASE Fails
  BY <1>6 DEF Fails
<1>7. CASE OnError
  BY <1>7 DEF OnError
<1>8. CASE OnClose
  BY <1>8 DEF OnClose, afterClose
<1> QED
  BY <1>1, <1>2, <1>3, <1>4, <1>5, <1>6, <1>7, <1>8 DEF Handler

\* Every step keeps the types, and what was built consistent.
LEMMA TypeStep ==
    ASSUME TypeInv, BuiltInv, [ExchangeNext]_exchangeVars
    PROVE  TypeInv' /\ BuiltInv'
<1> DEFINE SameClient == UNCHANGED <<method, badUrl, header, reqs, sent>>
<1> USE DEF serverVars, streamVars, pipeVars, stores, netVars
<1>1. CASE ClientBuilds
  BY <1>1, BuildsStep
<1>2. ASSUME NEW i \in 1..Len(reqs), ClientSends(i) PROVE TypeInv' /\ BuiltInv'
  <2>1. SendOf(i) /\ UNCHANGED <<stores, netVars, calls, ran, errors, closed>>
    BY <1>2 DEF ClientSends, ServeHTTP, Refuse, Process
  <2>2. stage' \in Stages /\ hook' \in Nat
    BY <1>2, HooksAssumption
    DEF ClientSends, ServeHTTP, Refuse, Process, First, Goto, Stages, UserCode
  <2>3. /\ sent' \in Seq(Params) /\ Len(sent') = 1 /\ reqs' = <<>> /\ BuiltInv'
        /\ UNCHANGED <<method, badUrl, header>>
    BY <2>1, SendOfTakes
  <2> QED
    BY <2>1, <2>2, <2>3, ConstantsAssumption DEF TypeInv
<1>3. ASSUME NEW i \in 1..Len(reqs), ClientPanics(i) PROVE TypeInv' /\ BuiltInv'
  <2>1. SendOf(i) /\ UNCHANGED serverVars
    BY <1>3 DEF ClientPanics
  <2>2. /\ sent' \in Seq(Params) /\ Len(sent') = 1 /\ reqs' = <<>> /\ BuiltInv'
        /\ UNCHANGED <<method, badUrl, header>>
    BY <2>1, SendOfTakes
  <2> QED
    BY <2>1, <2>2, ConstantsAssumption DEF TypeInv
<1>4. CASE ServerRuns
  <2>0. SameClient
    BY <1>4 DEF ServerRuns, infoVars
  <2>1. CASE Handler
    BY <2>0, <2>1, HandlerTypes DEF Handler, TypeInv, BuiltInv
  <2>2. CASE Parses
    <3>1. calls' \in Seq(Names)
      <4>1. PICK name \in Names : calls' = Append(calls, name)
        BY <2>2, ParsesAre
      <4> QED
        BY <4>1 DEF TypeInv
    <3> QED
      BY <2>0, <2>2, <3>1, ParsesAre, ParsesKeep DEF TypeInv, BuiltInv
  <2>3. CASE Panics \/ AutoGetPanics
    BY <2>0, <2>3 DEF Panics, AutoGetPanics, TypeInv, BuiltInv, Stages
  <2> QED
    BY <1>4, <2>1, <2>2, <2>3 DEF ServerRuns, Server
<1>5. CASE UNCHANGED exchangeVars
  BY <1>5 DEF exchangeVars, infoVars, TypeInv, BuiltInv
<1> QED
  BY <1>1, <1>2, <1>3, <1>4, <1>5 DEF ExchangeNext

\* What the steps do to the client's state and to the pipeline, for the invariants
\* that only relate some of it.
LEMMA StepShapes ==
    ASSUME ExchangeNext
    PROVE  \/ /\ ClientBuilds /\ UNCHANGED serverVars
           \/ \E i \in 1..Len(reqs) : ClientPanics(i)
           \/ \E i \in 1..Len(reqs) : ClientSends(i)
           \/ /\ stage # "none"
              /\ UNCHANGED <<infoVars, sent>>
              /\ \/ Handler
                 \/ Parses
                 \/ /\ UNCHANGED <<streamVars, calls>>
                    /\ UNCHANGED <<hook, ran, errors, closed>>
                    /\ stage' = "panicked" \/ (autoStore = "nil" /\ stage' = "nilStore")
<1>1. Handler \/ Parses \/ Panics \/ AutoGetPanics => stage # "none"
  <2>1. Handler => stage # "none"
    BY DEF Handler, CallNext, AnswerItself, Route, Message, Succeeds, Fails, OnError, OnClose
  <2>2. Parses => stage # "none"
    BY ParsesAre DEF UserCode
  <2>3. Panics \/ AutoGetPanics => stage # "none"
    BY DEF Panics, AutoGetPanics, UserCode
  <2> QED
    BY <2>1, <2>2, <2>3
<1>2. ClientBuilds => UNCHANGED serverVars
  BY DEF ClientBuilds
<1>3. Panics \/ AutoGetPanics =>
         /\ UNCHANGED <<streamVars, calls>>
         /\ UNCHANGED <<hook, ran, errors, closed>>
         /\ stage' = "panicked" \/ (autoStore = "nil" /\ stage' = "nilStore")
  BY DEF Panics, AutoGetPanics
<1> QED
  BY <1>1, <1>2, <1>3, Zenon DEF ExchangeNext, ServerRuns, Server

\* What the server serves is what was sent, as the client left it.
LEMMA ServedStep ==
    ASSUME TypeInv, BuiltInv, ServedInv, [ExchangeNext]_exchangeVars
    PROVE  ServedInv'
<1> USE DEF ServedInv, Unparsed, wire
<1>1. CASE ClientBuilds /\ UNCHANGED serverVars
  BY <1>1 DEF ClientBuilds, serverVars, streamVars, pipeVars, stores, netVars
<1>2. ASSUME NEW i \in 1..Len(reqs), ClientPanics(i) PROVE ServedInv'
  <2>1. /\ sent' # <<>> /\ sent'[1] = reqs[i] /\ sent = <<>>
    BY <1>2, SendOfTakes DEF ClientPanics
  <2> QED
    BY <1>2, <2>1 DEF ClientPanics, serverVars, streamVars, pipeVars, stores, netVars
<1>3. ASSUME NEW i \in 1..Len(reqs), ClientSends(i) PROVE ServedInv'
  <2>1. /\ sent' # <<>> /\ sent'[1] = reqs[i] /\ UNCHANGED <<method, badUrl, header>>
    BY <1>3, SendOfTakes DEF ClientSends
  <2>2. /\ reqs[i].result = "request" /\ request' = wire(reqs[i])
        /\ stage = "none" /\ stage' # "none"
        /\ UNCHANGED <<calls, stores, netVars>>
    BY <1>3 DEF ClientSends, ServeHTTP, Refuse, Process, First, Goto
  <2> QED
    BY <2>1, <2>2 DEF stores, netVars
<1>4. ASSUME stage # "none", UNCHANGED <<infoVars, sent>>,
             \/ Handler
             \/ Parses
             \/ UNCHANGED <<streamVars, calls>> /\ stage' \in {"panicked", "nilStore"}
      PROVE  ServedInv'
  <2>1. CASE Handler
    BY <1>4, <2>1, HandlerTypes DEF Handler, infoVars, streamVars, stores, netVars
  <2>2. CASE Parses
    <3>1. PICK name \in Names : calls' = Append(calls, name)
      BY <2>2, ParsesAre
    <3>2. calls' # <<>>
      BY <3>1 DEF TypeInv
    <3>3. UNCHANGED <<stage, request>>
      BY <2>2, ParsesAre DEF pipeVars
    <3> QED
      BY <1>4, <3>2, <3>3 DEF infoVars
  <2>3. CASE UNCHANGED <<streamVars, calls>> /\ stage' \in {"panicked", "nilStore"}
    BY <1>4, <2>3 DEF infoVars, streamVars, stores, netVars
  <2> QED
    BY <1>4, <2>1, <2>2, <2>3
<1>5. CASE UNCHANGED exchangeVars
  BY <1>5 DEF exchangeVars, infoVars, serverVars, streamVars, pipeVars, stores, netVars
<1> QED
  BY <1>1, <1>2, <1>3, <1>4, <1>5, StepShapes

\* A store that was filled is the one that AutoGet looks into from then on.
LEMMA AutoStoreKeeps ==
    ASSUME TypeInv, Parse, request' = request, autoStore # "nil"
    PROVE  autoStore' = autoStore
  BY ParsesKeep DEF autoStore, type

\* The first AutoParse finds what is there, and no later call changes that.
LEMMA ParsedStep ==
    ASSUME TypeInv, ServedInv, ParsedInv, [ExchangeNext]_exchangeVars
    PROVE  ParsedInv'
<1>1. CASE UNCHANGED <<streamVars, calls>>
  BY <1>1 DEF ParsedInv, autoParsed, autoStore, AutoFound, FileFound, Divides, type, streamVars,
              stores
<1>2. CASE stage = "none" /\ UNCHANGED calls
  <2>1. calls' = <<>>
    BY <1>2 DEF ServedInv
  <2> QED
    BY <2>1 DEF ParsedInv, autoParsed
<1>3. CASE Parses
  <2>1. Parse /\ request' = request
    BY <1>3, ParsesAre
  <2>2. PICK name \in Names : calls' = Append(calls, name)
                              /\ (name = "AutoParse" => AutoParse)
    BY <1>3, ParsesAre
  <2>3. /\ Len(calls') = Len(calls) + 1 /\ calls'[Len(calls) + 1] = name
        /\ \A i \in 1..Len(calls) : calls'[i] = calls[i]
        /\ Len(calls) \in Nat
    BY <2>2 DEF TypeInv
  <2>4. autoParsed \/ name = "AutoParse" => autoStore' # "nil"
    BY <2>1, <2>2, AutoParseSets, AutoStoreKeeps DEF ParsedInv
  <2>5. autoParsed' => autoParsed \/ name = "AutoParse"
    BY <2>3 DEF autoParsed
  <2>6. AutoFound(request') = AutoFound(request) /\ FileFound(request') = FileFound(request)
    BY <2>1
  <2>7. CASE calls = <<>>
    <3>1. calls'[1] = name
      BY <2>2, <2>7
    <3> QED
      BY <2>1, <2>2, <2>4, <2>5, <2>6, <2>7, <3>1, AutoParseFinds DEF ServedInv, ParsedInv
  <2>8. CASE calls # <<>>
    <3>1. 1 \in 1..Len(calls) /\ calls'[1] = calls[1]
      BY <2>3, <2>8 DEF TypeInv
    <3>2. calls[1] = "AutoParse" => autoParsed
      BY <3>1 DEF autoParsed
    <3>3. calls[1] = "AutoParse" => autoStore' = autoStore
      BY <2>1, <3>2, AutoStoreKeeps DEF ParsedInv
    <3>4. files # "nil" => files' = files
      BY <2>1, ParsesKeep
    <3> QED
      BY <2>1, <2>4, <2>5, <2>6, <2>8, <3>1, <3>3, <3>4 DEF ParsedInv
  <2> QED
    BY <2>7, <2>8
<1>4. ASSUME NEW i \in 1..Len(reqs), ClientSends(i)
      PROVE  stage = "none" /\ UNCHANGED calls
  BY <1>4 DEF ClientSends, ServeHTTP
<1>5. Handler \/ (ClientBuilds /\ UNCHANGED serverVars) => UNCHANGED <<streamVars, calls>>
  BY DEF Handler, serverVars
<1>6. ASSUME NEW i \in 1..Len(reqs), ClientPanics(i)
      PROVE  UNCHANGED <<streamVars, calls>>
  BY <1>6 DEF ClientPanics, serverVars
<1>7. UNCHANGED exchangeVars => UNCHANGED <<streamVars, calls>>
  BY DEF exchangeVars, serverVars
<1>8. CASE ExchangeNext
  <2> DEFINE Same == UNCHANGED <<streamVars, calls>>
             Serves == stage = "none" /\ UNCHANGED calls
  <2>1. Same \/ Serves \/ Parses
    <3>1. Handler \/ (ClientBuilds /\ UNCHANGED serverVars) => Same
      BY <1>5
    <3>2. \A i \in 1..Len(reqs) : ClientPanics(i) => Same
      BY <1>6
    <3>3. \A i \in 1..Len(reqs) : ClientSends(i) => Serves
      BY <1>4
    <3>4. UNCHANGED <<streamVars, calls>> => Same
      OBVIOUS
    <3> HIDE DEF Same, Serves
    <3> QED
      BY <1>8, <3>1, <3>2, <3>3, <3>4, StepShapes
  <2> QED
    BY <1>1, <1>2, <1>3, <2>1
<1> QED
  BY <1>1, <1>7, <1>8

\* AutoGet runs into no store that AutoParse has left.
LEMMA SafeStep ==
    ASSUME TypeInv, ParsedInv, AutoGetSafe, [ExchangeNext]_exchangeVars
    PROVE  AutoGetSafe'
<1> USE DEF AutoGetSafe, autoParsed
<1>1. CASE UNCHANGED <<stage, calls>>
  BY <1>1
<1>2. CASE stage' # "nilStore"
  BY <1>2
<1>3. CASE UNCHANGED calls /\ autoStore = "nil"
  BY <1>3 DEF ParsedInv
<1>4. ClientBuilds /\ UNCHANGED serverVars => UNCHANGED <<stage, calls>>
  BY DEF serverVars, pipeVars
<1>5. ASSUME NEW i \in 1..Len(reqs), ClientPanics(i) PROVE UNCHANGED <<stage, calls>>
  BY <1>5 DEF ClientPanics, serverVars, pipeVars
<1>6. UNCHANGED exchangeVars => UNCHANGED <<stage, calls>>
  BY DEF exchangeVars, serverVars, pipeVars
<1>7. ASSUME NEW i \in 1..Len(reqs), ClientSends(i) PROVE stage' # "nilStore"
  BY <1>7 DEF ClientSends, ServeHTTP, Refuse, Process, First, Goto
<1>8. Handler => stage' # "nilStore"
  BY DEF Handler, CallNext, AnswerItself, Route, Message, Succeeds, Fails, OnError, OnClose,
         afterClose, First, Goto
<1>9. Parses => stage' # "nilStore"
  BY ParsesAre DEF UserCode, pipeVars
<1> HIDE DEF AutoGetSafe, autoParsed
<1> QED
  BY <1>1, <1>2, <1>3, <1>4, <1>5, <1>6, <1>7, <1>8, <1>9, StepShapes

\* The pipeline, step by step.
LEMMA HandlerStep ==
    ASSUME TypeInv, RanInv, ErrorsInv, Handler
    PROVE  RanInv' /\ ErrorsInv'
<1> USE HooksAssumption DEF TypeInv, RanInv, ErrorsInv, steps, Goto, First
<1>1. CASE CallNext
  BY <1>1 DEF CallNext
<1>2. CASE AnswerItself
  BY <1>2 DEF AnswerItself
<1>3. CASE Route
  BY <1>3 DEF Route
<1>4. CASE Message
  BY <1>4 DEF Message
<1>5. CASE Succeeds
  <2>0. /\ Len(ran) = steps /\ errors = 0 /\ closed = 0 /\ UNCHANGED <<errors, closed>>
        /\ stage \in {"before", "function", "after"}
    BY <1>5 DEF Succeeds
  <2>1. <<stage, hook>> = step(Len(ran) + 1)
    <3>1. stage = "before" => step(Len(ran) + 1) = <<"before", hook>>
      BY <2>0 DEF step
    <3>2. stage = "function" => hook = 0 /\ step(Len(ran) + 1) = <<"function", 0>>
      BY <2>0 DEF step
    <3>3. ASSUME stage = "after" PROVE step(Len(ran) + 1) = <<"after", hook>>
      <4>1. hook \in 1..Afters /\ Len(ran) = Befores + hook
        BY <2>0, <3>3
      <4> HIDE DEF TypeInv, RanInv, ErrorsInv, steps
      <4>2. /\ ~(Len(ran) + 1 <= Befores) /\ Len(ran) + 1 # Befores + 1
            /\ Len(ran) + 1 - Befores - 1 = hook
        BY <4>1
      <4> QED
        BY <4>2 DEF step
    <3> QED
      BY <2>0, <3>1, <3>2, <3>3
  <2>2. /\ Len(ran') = Len(ran) + 1
        /\ \A i \in 1..Len(ran') : ran'[i] = step(i)
    <3> HIDE DEF steps
    <3>1. ran' = Append(ran, step(Len(ran) + 1))
      BY <1>5, <2>1 DEF Succeeds
    <3> QED
      BY <3>1
  <2>3. RanInv'
    <3> HIDE DEF RanInv, ErrorsInv
    <3> HIDE DEF steps
    <3>1. CASE stage = "before"
      <4>1. Len(ran) = hook - 1 /\ hook \in 1..Befores /\ errors' = 0
        BY <2>0, <3>1 DEF RanInv, steps
      <4>2. CASE hook < Befores
        <5>1. stage' = "before" /\ hook' = hook + 1
          BY <1>5, <3>1, <4>2 DEF Succeeds
        <5>2. hook' \in 1..Befores /\ Len(ran') = hook' - 1
          BY <2>2, <4>1, <4>2, <5>1
        <5> QED
          BY <2>2, <4>1, <5>1, <5>2 DEF RanInv, steps
      <4>3. CASE hook = Befores
        <5>1. stage' = "function" /\ hook' = 0
          BY <1>5, <3>1, <4>3 DEF Succeeds
        <5>2. Len(ran') = Befores
          BY <2>2, <4>1, <4>3
        <5> QED
          BY <2>2, <4>1, <5>1, <5>2 DEF RanInv, steps
      <4> QED
        BY <4>1, <4>2, <4>3
    <3>2. CASE stage = "function"
      <4>1. Len(ran) = Befores /\ errors' = 0
        BY <2>0, <3>2 DEF RanInv, steps
      <4>2. Len(ran') = Befores + 1
        BY <2>2, <4>1
      <4>3. CASE Afters > 0
        <5>1. stage' = "after" /\ hook' = 1
          BY <1>5, <3>2, <4>3 DEF Succeeds
        <5>2. hook' \in 1..Afters /\ Len(ran') = Befores + hook'
          BY <4>2, <4>3, <5>1
        <5> QED
          BY <2>2, <4>1, <5>1, <5>2 DEF RanInv, steps
      <4>4. CASE Afters = 0
        <5>1. stage' = "returned"
          BY <1>5, <3>2, <4>4 DEF Succeeds
        <5>2. Len(ran') = Befores + 1 + Afters
          BY <4>2, <4>4
        <5> QED
          BY <2>2, <5>1, <5>2 DEF RanInv
      <4> QED
        BY <4>3, <4>4
    <3>3. CASE stage = "after"
      <4>1. Len(ran) = Befores + hook /\ hook \in 1..Afters /\ errors' = 0
        BY <2>0, <3>3 DEF RanInv, steps
      <4>2. CASE hook < Afters
        <5>1. stage' = "after" /\ hook' = hook + 1
          BY <1>5, <3>3, <4>2 DEF Succeeds
        <5>2. hook' \in 1..Afters /\ Len(ran') = Befores + hook'
          BY <2>2, <4>1, <4>2, <5>1
        <5> QED
          BY <2>2, <4>1, <5>1, <5>2 DEF RanInv, steps
      <4>3. CASE hook = Afters
        <5>1. stage' = "returned"
          BY <1>5, <3>3, <4>3 DEF Succeeds
        <5>2. Len(ran') = Befores + 1 + Afters
          BY <2>2, <4>1, <4>3
        <5> QED
          BY <2>2, <5>1, <5>2 DEF RanInv
      <4> QED
        BY <4>1, <4>2, <4>3
    <3> QED
      BY <2>0, <3>1, <3>2, <3>3
  <2>4. stage' \in {"before", "function", "after", "returned"}
    BY <1>5 DEF Succeeds
  <2> QED
    BY <2>0, <2>3, <2>4
<1>6. CASE Fails
  BY <1>6 DEF Fails
<1>7. CASE OnError
  BY <1>7 DEF OnError
<1>8. CASE OnClose
  BY <1>8 DEF OnClose, afterClose
<1> QED
  BY <1>1, <1>2, <1>3, <1>4, <1>5, <1>6, <1>7, <1>8 DEF Handler

\* The whole system's steps change the pipeline by those of the handler only.
LEMMA PipelineStep ==
    ASSUME TypeInv, RanInv, ErrorsInv, [ExchangeNext]_exchangeVars
    PROVE  RanInv' /\ ErrorsInv'
<1>1. CASE UNCHANGED pipeVars
  BY <1>1 DEF RanInv, ErrorsInv, steps, step, pipeVars
<1>2. CASE UNCHANGED <<hook, ran, errors, closed>> /\ stage' \in {"panicked", "nilStore"}
  BY <1>2 DEF RanInv, ErrorsInv, steps, step
<1>3. ASSUME NEW i \in 1..Len(reqs), ClientSends(i) PROVE RanInv' /\ ErrorsInv'
  <2>1. stage = "none" /\ UNCHANGED <<ran, errors, closed>> /\ (Refuse \/ Process)
    BY <1>3 DEF ClientSends, ServeHTTP, Refuse, Process
  <2>2. errors = 0 /\ closed = 0 /\ Len(ran) = 0
    BY <2>1 DEF RanInv, ErrorsInv, steps, TypeInv
  <2> QED
    BY <2>1, <2>2, HooksAssumption
    DEF Refuse, Process, First, Goto, RanInv, ErrorsInv, steps, step, TypeInv
<1>4. ClientBuilds /\ UNCHANGED serverVars => UNCHANGED pipeVars
  BY DEF serverVars
<1>5. ASSUME NEW i \in 1..Len(reqs), ClientPanics(i) PROVE UNCHANGED pipeVars
  BY <1>5 DEF ClientPanics, serverVars
<1>6. UNCHANGED exchangeVars => UNCHANGED pipeVars
  BY DEF exchangeVars, serverVars
<1>7. Parses => UNCHANGED pipeVars
  BY ParsesAre
<1> QED
  BY <1>1, <1>2, <1>3, <1>4, <1>5, <1>6, <1>7, StepShapes, HandlerStep

-----------------------------------------------------------------------------
(* The theorems *)

\* ExchangeInv holds in every state of every behaviour, however many requests were built
\* from the info, and however many middlewares, hooks and calls there are.
THEOREM ExchangeInvariance == ExchangeSpec => []ExchangeInv
<1>1. ExchangeInit => ExchangeInv
  <2>1. ExchangeInit => TypeInv
    <3> SUFFICES ASSUME ExchangeInit PROVE TypeInv
      OBVIOUS
    <3>1. NoHeader \in Header /\ [NoHeader EXCEPT !.type = "form"] \in Header
      <4>1. NoHeader \in Header
        BY ConstantsAssumption DEF NoHeader, Header
      <4>2. "form" \in Types \cup {"none"}
        BY DEF Types
      <4> QED
        BY <4>1, <4>2 DEF Header
    <3>2. header \in Header /\ method \in Methods /\ badUrl \in BOOLEAN /\ reqs = <<>>
      BY <3>1 DEF ExchangeInit, InfoInit
    <3> QED
      BY <3>2, ConstantsAssumption
      DEF ExchangeInit, NewStream, Idle, TypeInv, Store, Stages, UserCode
  <2>2. ExchangeInit => BuiltInv /\ ServedInv /\ ParsedInv /\ AutoGetSafe
    BY DEF ExchangeInit, InfoInit, NewStream, Idle, BuiltInv, ServedInv, Unparsed,
           ParsedInv, AutoGetSafe, autoParsed
  <2>3. ExchangeInit => RanInv /\ ErrorsInv
    BY DEF ExchangeInit, Idle, RanInv, ErrorsInv, steps
  <2> QED
    BY <2>1, <2>2, <2>3 DEF ExchangeInv
<1>2. ExchangeInv /\ [ExchangeNext]_exchangeVars => ExchangeInv'
  BY TypeStep, ServedStep, ParsedStep, SafeStep, PipelineStep DEF ExchangeInv
<1> QED
  BY <1>1, <1>2, PTL DEF ExchangeSpec

\* Whatever is parsed, in whatever order, by whichever callback or hook: once
\* AutoParse was called, AutoGet and String find a store (262-278).
THEOREM AutoGetIsSafe == ExchangeSpec => []AutoGetSafe
  BY ExchangeInvariance, PTL DEF ExchangeInv

\* The parameter that was given to a builder is what the first AutoParse finds,
\* exactly if the client put it where the server looks and as the server reads it,
\* and the headers were not changed since; a file in a multipart body is in Files
\* (info.go 137, do.go 74 and 140-158, http_stream.go 136-153, 220-223, 236-258).
THEOREM ParametersArrive == ExchangeSpec => []ParamsArrive
<1>1. ExchangeInv => ParamsArrive
  <2> SUFFICES ASSUME ExchangeInv, sent # <<>>
               PROVE  LET r == sent[1]
                      IN  /\ r.header.canonical => r.result = "request"
                          /\ calls # <<>> /\ calls[1] = "AutoParse" /\ AsBuilt(r) =>
                                 /\ autoStore = "found" <=> Readable(r)
                                 /\ Uploaded(r) => files = "found"
    BY DEF ParamsArrive
  <2> DEFINE r == sent[1]
  <2>1. r \in Params /\ Consistent(r) /\ r.result # "error"
    BY DEF ExchangeInv, TypeInv, BuiltInv, ServedInv
  <2>2. r.header.canonical => r.result = "request"
    BY <2>1 DEF Params, Consistent
  <2>3. ASSUME calls # <<>>, calls[1] = "AutoParse", AsBuilt(r)
        PROVE  /\ autoStore = "found" <=> Readable(r)
               /\ Uploaded(r) => files = "found"
    <3>1. request = wire(r) /\ header = r.header /\ r.result = "request"
      BY <2>3 DEF ExchangeInv, ServedInv, AsBuilt
    <3>2. /\ autoStore = "found" <=> AutoFound(request)
          /\ FileFound(request) => files = "found"
      BY <2>3 DEF ExchangeInv, ParsedInv
    <3> HIDE DEF r
    <3>3. Divides(request) <=> r.body = "multipart"
      BY <2>1, <3>1 DEF wire, Divides, Consistent
    <3>4. AutoFound(request) <=> Readable(r)
      <4>1. CASE method = "GET"
        BY <3>1, <4>1 DEF wire, AutoFound, Readable
      <4>2. CASE method # "GET" /\ r.body = "multipart"
        BY <2>1, <3>1, <3>3, <4>2 DEF wire, AutoFound, Readable, Told, Consistent
      <4>3. CASE method # "GET" /\ r.body # "multipart"
        BY <2>1, <3>1, <3>3, <4>3 DEF wire, AutoFound, Readable, Told, Params
      <4> QED
        BY <4>1, <4>2, <4>3
    <3>5. Uploaded(r) => FileFound(request)
      BY <3>1, <3>3 DEF Uploaded, FileFound, wire
    <3> QED
      BY <3>2, <3>4, <3>5
  <2> QED
    BY <2>2, <2>3
<1> QED
  BY <1>1, ExchangeInvariance, PTL

\* Of a route, what ran is an initial part of its hooks and its function, and
\* a route that was not ended by an error ran all of them (server.go 85, 101, 113).
THEOREM FailuresEndRequests == ExchangeSpec => []FailureEndsRequest
<1> DEFINE befores   == [i \in 1..Befores |-> <<"before", i>>]
           functions == <<<<"function", 0>>>>
           afters    == [i \in 1..Afters |-> <<"after", i>>]
           Ran      == UserCode \X Nat
<1>1. ASSUME ExchangeInv, Len(ran) = Befores + 1 + Afters
      PROVE  ran = befores \o functions \o afters
  <2>1. /\ befores \in Seq(Ran) /\ Len(befores) = Befores
        /\ \A i \in 1..Befores : befores[i] = <<"before", i>>
    BY HooksAssumption, IsASeq DEF UserCode
  <2>2. /\ functions \in Seq(Ran) /\ Len(functions) = 1
        /\ functions[1] = <<"function", 0>>
    BY DEF UserCode
  <2>3. /\ afters \in Seq(Ran) /\ Len(afters) = Afters
        /\ \A i \in 1..Afters : afters[i] = <<"after", i>>
    BY HooksAssumption, IsASeq DEF UserCode
  <2> HIDE DEF befores, functions, afters, Ran
  <2> DEFINE most == befores \o functions
  <2>4. /\ most \in Seq(Ran) /\ Len(most) = Befores + 1
        /\ \A i \in 1..Befores + 1 :
             most[i] = IF i <= Befores THEN befores[i] ELSE functions[i - Befores]
    <3>1. /\ most \in Seq(Ran) /\ Len(most) = Len(befores) + Len(functions)
          /\ \A i \in 1..Len(befores) + Len(functions) :
               most[i] = IF i <= Len(befores) THEN befores[i]
                         ELSE functions[i - Len(befores)]
      BY <2>1, <2>2, ConcatProperties
    <3> HIDE DEF most
    <3> QED
      BY <2>1, <2>2, <3>1, HooksAssumption
  <2> HIDE DEF most
  <2> DEFINE all == most \o afters
  <2>5. /\ all \in Seq(Ran) /\ Len(all) = Befores + 1 + Afters
        /\ \A i \in 1..Befores + 1 + Afters :
             all[i] = IF i <= Befores + 1 THEN most[i] ELSE afters[i - (Befores + 1)]
    <3>1. /\ all \in Seq(Ran) /\ Len(all) = Len(most) + Len(afters)
          /\ \A i \in 1..Len(most) + Len(afters) :
               all[i] = IF i <= Len(most) THEN most[i] ELSE afters[i - Len(most)]
      BY <2>3, <2>4, ConcatProperties
    <3> HIDE DEF all
    <3> QED
      BY <2>3, <2>4, <3>1, HooksAssumption
  <2> HIDE DEF all
  <2>6. ASSUME NEW i \in 1..Befores + 1 + Afters PROVE all[i] = step(i)
    <3>1. CASE i <= Befores
      BY <3>1, <2>1, <2>4, <2>5, HooksAssumption DEF step
    <3>2. CASE i = Befores + 1
      <4>1. i \in 1..Befores + 1 /\ ~(i <= Befores) /\ i - Befores = 1
        BY <3>2, HooksAssumption
      <4>2. all[i] = functions[1]
        BY <4>1, <3>2, <2>4, <2>5
      <4> QED
        BY <3>2, <4>1, <4>2, <2>2 DEF step
    <3>3. CASE i > Befores + 1
      <4>1. i - (Befores + 1) \in 1..Afters
        BY <3>3, HooksAssumption
      <4>2. all[i] = <<"after", i - (Befores + 1)>>
        BY <3>3, <4>1, <2>3, <2>5, HooksAssumption
      <4>3. step(i) = <<"after", i - Befores - 1>>
        BY <3>3, HooksAssumption DEF step
      <4> QED
        BY <4>2, <4>3, HooksAssumption
    <3> QED
      BY <3>1, <3>2, <3>3, HooksAssumption
  <2>7. ran \in Seq(Ran) /\ \A i \in 1..Len(ran) : ran[i] = step(i)
    BY <1>1 DEF ExchangeInv, TypeInv, RanInv, Ran
  <2>8. ran = all
    BY <1>1, <2>5, <2>6, <2>7, SeqEqual
  <2> QED
    BY <2>8 DEF all, most
<1>2. ExchangeInv => FailureEndsRequest
  <2> SUFFICES ASSUME ExchangeInv PROVE FailureEndsRequest
    OBVIOUS
  <2>1. stage = "returned" /\ errors = 0 /\ ran # <<>> => Len(ran) = Befores + 1 + Afters
    <3>1. ran # <<>> => Len(ran) # 0
      BY DEF ExchangeInv, TypeInv
    <3> QED
      BY <3>1 DEF ExchangeInv, RanInv
  <2>2. /\ errors <= 1 /\ closed <= errors
        /\ errors = 1 => stage \in {"error", "close", "returned", "panicked", "nilStore"}
        /\ stage = "returned" => closed = errors
    BY DEF ExchangeInv, ErrorsInv
  <2> HIDE DEF befores, functions, afters
  <2>3. stage = "returned" /\ errors = 0 /\ ran # <<>> => ran = befores \o functions \o afters
    BY <1>1, <2>1
  <2> QED
    BY <2>2, <2>3, Zenon DEF FailureEndsRequest, befores, functions, afters
<1> QED
  BY <1>2, ExchangeInvariance, PTL

-----------------------------------------------------------------------------
(* Sending, for any requests and infos, and any number of Sends and setters *)

\* Infos ask for values of their own; what a request was built with changes by a
\* setter only.
OptionsInv ==
    /\ \A i \in Infos, s \in Settings : options[i][s] # Default => options[i][s].by = i
    /\ \A r \in Requests :
          params[r] # "no" /\ r \notin touched => given[r] = options[infoOf[r]]

\* The value of a setting is what r may find there.
Owned(r, s) ==
    /\ setting[s] # Default => setting[s].by = infoOf[r]
    /\ r \notin touched => setting[s] = given[r][s]

\* The settings are the defaults, but those that the holder has applied and not
\* restored yet.
SettingsInv ==
    /\ hMux = Nobody \/ phase = "return" => \A s \in Settings : setting[s] = Default
    /\ hMux # Nobody /\ phase = "apply" =>
           /\ applied \in 0..3
           /\ params[hMux] = "nil" => applied = 0
           /\ \A j \in 1..4 : IF j <= applied THEN Owned(hMux, settings[j])
                              ELSE setting[settings[j]] = Default
    /\ hMux # Nobody /\ phase \in {"connect", "do", "restore"} =>
           \A s \in Settings : Owned(hMux, s)

\* Who got a response is cancelled, or holds the mutex on the way to it.
AnsweredInv ==
    \A r \in Requests :
        /\ answered[r] <= 1
        /\ answered[r] = 1 =>
               r \in cancelled \/ (hMux = r /\ phase \in {"restore", "return"})

SendInv == TypeOK /\ OptionsInv /\ SettingsInv /\ AnsweredInv

-----------------------------------------------------------------------------
\* The settings by name and by number.
LEMMA SettingNames ==
    /\ settings[1] = "Timeout" /\ settings[2] = "KeepAlive" /\ settings[3] = "Proxy"
    /\ settings[4] = "DisableCompression"
    /\ \A j \in 1..4 : settings[j] \in Settings
    /\ \A s \in Settings : \E j \in 1..4 : s = settings[j]
    /\ \A j, k \in 1..4 : settings[j] = settings[k] => j = k
<1>1. /\ settings[1] = "Timeout" /\ settings[2] = "KeepAlive" /\ settings[3] = "Proxy"
      /\ settings[4] = "DisableCompression"
  BY DEF settings
<1>2. \A j \in 1..4 : j = 1 \/ j = 2 \/ j = 3 \/ j = 4
  OBVIOUS
<1>3. \A j, k \in 1..4 : settings[j] = settings[k] => j = k
  BY <1>1, <1>2
<1> QED
  BY <1>1, <1>3 DEF Settings

\* The variables keep their types, and only requests that were built wait or run.
LEMMA SendTypeInit == Init => TypeOK
<1> SUFFICES ASSUME Init PROVE TypeOK
  OBVIOUS
<1> USE SendAssumption DEF Init
<1>1. Default \in Values
  BY DEF Values
<1>2. /\ options \in [Infos -> [Settings -> Values]]
      /\ setting \in [Settings -> Values]
      /\ given \in [Requests -> [Settings -> Values]]
  BY <1>1
<1>3. /\ params \in [Requests -> {"no", "yes", "failed", "nil"}]
      /\ waiting \in [Requests -> Nat] /\ sends \in [Requests -> 0..MaxSends]
      /\ answered \in [Requests -> Nat]
      /\ \A r \in Requests : waiting[r] = 0
  OBVIOUS
<1>4. /\ infoOf \in [Requests -> Infos] /\ sets \in 0..MaxSets
      /\ cancelled = {} /\ touched = {} /\ panicked = {}
      /\ hMux = Nobody /\ phase = "return" /\ applied = 0
      /\ dialed = FALSE /\ idle = FALSE
  <2>1. sets = 0 /\ MaxSets \in Nat
    OBVIOUS
  <2>2. sets \in 0..MaxSets
    BY <2>1
  <2> QED
    BY <2>2, Zenon
<1> HIDE DEF Init
<1>5. \A r \in Requests : ~(waiting[r] > 0 \/ hMux = r)
  BY <1>3, <1>4
<1>6. hMux \in Requests \cup {Nobody} /\ dialed \in BOOLEAN /\ idle \in BOOLEAN
  BY <1>4
<1>7. /\ cancelled \subseteq Requests /\ touched \subseteq Requests /\ panicked \subseteq Requests
      /\ phase \in {"apply", "connect", "do", "restore", "return"}
      /\ applied \in 0..4 /\ (phase = "apply" => applied < 4)
      /\ (hMux # Nobody /\ phase # "apply" => params[hMux] = "yes")
      /\ \A r \in panicked : params[r] \in {"failed", "nil"}
  BY <1>4
<1> QED
  BY <1>2, <1>3, <1>4, <1>5, <1>6, <1>7, Zenon DEF TypeOK

\* No step breaks the types.
LEMMA SendTypeStep == TypeOK /\ [Next]_vars => TypeOK'
<1> SUFFICES ASSUME TypeOK, [Next]_vars PROVE TypeOK'
  OBVIOUS
<1> USE SendAssumption DEF optionVars, muxVars
<1>1. ASSUME NEW r \in Requests, NewParams(r) PROVE TypeOK'
  BY <1>1 DEF TypeOK, NewParams, outcomes
<1>2. ASSUME NEW r \in Requests, Send(r) PROVE TypeOK'
  BY <1>2 DEF TypeOK, Send, mayEnter
<1>3. ASSUME NEW r \in Requests, Abort(r) PROVE TypeOK'
  BY <1>3 DEF TypeOK, Abort
<1>4. ASSUME NEW r \in Requests, AbortPanics(r) PROVE TypeOK'
  BY <1>4 DEF TypeOK, AbortPanics
<1>5. ASSUME NEW r \in Requests, Lock(r) PROVE TypeOK'
  BY <1>5 DEF TypeOK, Lock
<1>6. ASSUME NEW r \in Requests, SendPanics(r) PROVE TypeOK'
  BY <1>6 DEF TypeOK, SendPanics, unlock
<1>7. ASSUME NEW r \in Requests, Apply(r) PROVE TypeOK'
  <2>0. applied \in 0..3
    BY <1>7 DEF TypeOK, Apply
  <2>1. settings[applied + 1] \in Settings
    BY <2>0, SettingNames
  <2>2. options[infoOf[r]][settings[applied + 1]] \in Values
    BY <2>1 DEF TypeOK
  <2>3. setting' \in [Settings -> Values]
    BY <1>7, <2>1, <2>2 DEF TypeOK, Apply
  <2>4. applied' \in 0..4 /\ phase' = (IF applied' = 4 THEN "connect" ELSE "apply")
    BY <1>7, <2>0 DEF Apply
  <2> QED
    BY <1>7, <2>3, <2>4 DEF TypeOK, Apply
<1>8. ASSUME NEW r \in Requests, Connect(r) PROVE TypeOK'
  BY <1>8 DEF TypeOK, Connect
<1>9. ASSUME NEW r \in Requests, Response(r) PROVE TypeOK'
  BY <1>9 DEF TypeOK, Response
<1>10. ASSUME NEW r \in Requests, Failure(r) PROVE TypeOK'
  BY <1>10 DEF TypeOK, Failure
<1>11. ASSUME NEW r \in Requests, Restore(r) PROVE TypeOK'
  <2>1. setting' \in [Settings -> Values]
    BY <1>11 DEF TypeOK, Restore, restored, Values
  <2> QED
    BY <1>11, <2>1 DEF TypeOK, Restore
<1>12. ASSUME NEW r \in Requests, Return(r) PROVE TypeOK'
  BY <1>12 DEF TypeOK, Return, cancelDeferred, unlock
<1>13. ASSUME NEW i \in Infos, NEW s \in Settings, NEW v \in Values, SetOption(i, s, v)
       PROVE  TypeOK'
  <2>1. options' \in [Infos -> [Settings -> Values]] /\ sets' \in 0..MaxSets
    BY <1>13 DEF TypeOK, SetOption
  <2> QED
    BY <1>13, <2>1 DEF TypeOK, SetOption
<1>14. CASE UNCHANGED vars
  BY <1>14 DEF TypeOK, vars
<1> QED
  BY <1>1, <1>2, <1>3, <1>4, <1>5, <1>6, <1>7, <1>8, <1>9, <1>10, <1>11, <1>12, <1>13, <1>14
  DEF Next, Step

-----------------------------------------------------------------------------
\* An info is changed by its setters only, which touch all requests built from it.
LEMMA OptionsStep == TypeOK /\ OptionsInv /\ [Next]_vars => OptionsInv'
<1> SUFFICES ASSUME TypeOK, OptionsInv, [Next]_vars PROVE OptionsInv'
  OBVIOUS
<1> USE DEF OptionsInv
<1>1. CASE UNCHANGED <<optionVars, params>>
  BY <1>1 DEF optionVars
<1>2. ASSUME NEW r \in Requests, NewParams(r) PROVE OptionsInv'
  <2>1. /\ UNCHANGED <<options, infoOf, touched>>
        /\ given' = [given EXCEPT ![r] = options[infoOf[r]]]
        /\ \E b \in outcomes : params' = [params EXCEPT ![r] = b]
    BY <1>2 DEF NewParams
  <2>2. ASSUME NEW q \in Requests, q # r PROVE given'[q] = given[q] /\ params'[q] = params[q]
    BY <2>1, <2>2 DEF TypeOK
  <2>3. given'[r] = options[infoOf[r]]
    BY <2>1 DEF TypeOK
  <2> QED
    BY <2>1, <2>2, <2>3
<1>3. ASSUME NEW i \in Infos, NEW s \in Settings, NEW v \in Values, SetOption(i, s, v)
      PROVE  OptionsInv'
  <2>1. /\ v # Default => v.by = i
        /\ options' = [options EXCEPT ![i][s] = v]
        /\ touched' = touched \cup {r \in Requests : infoOf[r] = i /\ params[r] # "no"}
        /\ UNCHANGED <<params, infoOf, given>>
    BY <1>3 DEF SetOption
  <2>2. ASSUME NEW j \in Infos, j # i PROVE options'[j] = options[j]
    BY <2>1, <2>2 DEF TypeOK
  <2>3. ASSUME NEW t \in Settings
        PROVE  options'[i][t] = IF t = s THEN v ELSE options[i][t]
    BY <2>1 DEF TypeOK
  <2>4. ASSUME NEW r \in Requests, params[r] # "no", r \notin touched'
        PROVE  given[r] = options'[infoOf[r]]
    BY <2>1, <2>2, <2>4 DEF TypeOK
  <2> QED
    BY <2>1, <2>2, <2>3, <2>4
<1> QED
  BY <1>1, <1>2, <1>3
  DEF Next, Step, Send, Abort, AbortPanics, Lock, SendPanics, Apply, Connect, Response, Failure,
      Restore, Return, optionVars, vars

\* The next setting becomes the holder's own.
LEMMA ApplyOwns ==
    ASSUME TypeOK, OptionsInv, SettingsInv, NEW r \in Requests, Apply(r)
    PROVE  \A j \in 1..4 : IF j <= applied' THEN Owned(r, settings[j])'
                           ELSE setting'[settings[j]] = Default
<1> DEFINE s == settings[applied + 1]
           v == options[infoOf[r]][s]
<1>1. /\ hMux = r /\ params[r] = "yes" /\ applied \in 0..3 /\ applied' = applied + 1
      /\ UNCHANGED <<infoOf, touched, given>>
      /\ setting' = IF v = Default THEN setting ELSE [setting EXCEPT ![s] = v]
      /\ \A j \in 1..4 : IF j <= applied THEN Owned(r, settings[j])
                         ELSE setting[settings[j]] = Default
  BY SendAssumption DEF Apply, optionVars, SettingsInv
<1>2. s \in Settings /\ applied + 1 \in 1..4
  BY <1>1, SettingNames
<1>3. setting[s] = Default
  BY <1>1, <1>2
<1>4. setting'[s] = v /\ \A t \in Settings : t # s => setting'[t] = setting[t]
  BY <1>1, <1>2, <1>3 DEF TypeOK
<1>5. /\ v # Default => v.by = infoOf[r]
      /\ r \notin touched => v = given[r][s]
  BY <1>1, <1>2 DEF TypeOK, OptionsInv
<1> HIDE DEF s, v
<1> TAKE j \in 1..4
<1>6. CASE j = applied + 1
  <2>1. settings[j] = s
    BY <1>6 DEF s
  <2> QED
    BY <1>1, <1>4, <1>5, <1>6, <2>1 DEF Owned
<1>7. CASE j # applied + 1
  <2>1. settings[j] # s /\ settings[j] \in Settings
    BY <1>2, <1>7, SettingNames DEF s
  <2>2. setting'[settings[j]] = setting[settings[j]] /\ (j <= applied' <=> j <= applied)
    BY <1>1, <1>4, <1>7, <2>1
  <2> QED
    BY <1>1, <2>2 DEF Owned
<1> QED
  BY <1>6, <1>7

\* No step leaves a setting of one request to another.
LEMMA SettingsStep == TypeOK /\ OptionsInv /\ SettingsInv /\ [Next]_vars => SettingsInv'
<1> SUFFICES ASSUME TypeOK, OptionsInv, SettingsInv, [Next]_vars PROVE SettingsInv'
  OBVIOUS
<1> USE SendAssumption
<1>1. CASE UNCHANGED <<setting, hMux, phase, applied, params, infoOf, given, touched>>
  BY <1>1 DEF SettingsInv, Owned
<1>2. ASSUME NEW r \in Requests, NewParams(r) PROVE SettingsInv'
  \* The holder was built before.
  <2>1. /\ UNCHANGED <<setting, hMux, phase, applied, infoOf, touched>>
        /\ \A q \in Requests : q # r => params'[q] = params[q] /\ given'[q] = given[q]
        /\ hMux # r
    BY <1>2 DEF NewParams, muxVars, TypeOK
  <2> QED
    BY <2>1 DEF SettingsInv, Owned, TypeOK
<1>3. ASSUME NEW i \in Infos, NEW s \in Settings, NEW v \in Values, SetOption(i, s, v)
      PROVE  SettingsInv'
  <2>1. UNCHANGED <<setting, hMux, phase, applied, params, infoOf, given>>
        /\ touched \subseteq touched'
    BY <1>3 DEF SetOption, muxVars
  <2> QED
    BY <2>1 DEF SettingsInv, Owned
<1>4. ASSUME NEW r \in Requests, Lock(r) PROVE SettingsInv'
  <2>1. hMux = Nobody /\ hMux' = r /\ phase' = "apply" /\ applied' = 0 /\ setting' = setting
    BY <1>4 DEF Lock
  <2>2. \A s \in Settings : setting[s] = Default
    BY <2>1 DEF SettingsInv
  <2> QED
    BY <2>1, <2>2, SettingNames DEF SettingsInv
<1>5. ASSUME NEW r \in Requests, SendPanics(r) PROVE SettingsInv'
  <2>1. hMux = r /\ phase = "apply" /\ params[r] = "nil" /\ hMux' = Nobody /\ setting' = setting
        /\ phase' = phase
    BY <1>5 DEF SendPanics, unlock
  <2>2. \A j \in 1..4 : setting[settings[j]] = Default
    BY <2>1 DEF SettingsInv
  <2> QED
    BY <2>1, <2>2, SettingNames DEF SettingsInv
<1>6. ASSUME NEW r \in Requests, Apply(r) PROVE SettingsInv'
  <2>1. hMux = r /\ hMux' = r /\ params' = params /\ params[r] = "yes" /\ applied \in 0..3
        /\ applied' = applied + 1
        /\ phase' = IF applied' = 4 THEN "connect" ELSE "apply"
    BY <1>6 DEF Apply, SettingsInv
  <2>2. \A j \in 1..4 : IF j <= applied' THEN Owned(r, settings[j])'
                        ELSE setting'[settings[j]] = Default
    BY <1>6, ApplyOwns
  <2>3. CASE applied' = 4
    <3>1. \A j \in 1..4 : Owned(r, settings[j])'
      BY <2>2, <2>3
    <3>2. \A s \in Settings : Owned(r, s)'
      BY <3>1, SettingNames DEF Owned
    <3> QED
      BY <2>1, <2>3, <3>2 DEF SettingsInv, Owned
  <2>4. CASE applied' # 4
    BY <2>1, <2>2, <2>4 DEF SettingsInv, Owned
  <2> QED
    BY <2>3, <2>4
<1>7. ASSUME NEW r \in Requests, Connect(r) \/ Response(r) \/ Failure(r) PROVE SettingsInv'
  <2>1. /\ phase \in {"connect", "do"} /\ phase' \in {"do", "restore"} /\ hMux = r
        /\ UNCHANGED <<hMux, setting, infoOf, given, touched>>
    BY <1>7 DEF Connect, Response, Failure, optionVars
  <2> QED
    BY <2>1 DEF SettingsInv, Owned
<1>8. ASSUME NEW r \in Requests, Restore(r) PROVE SettingsInv'
  <2>1. phase' = "return" /\ \A s \in Settings : setting'[s] = Default
    BY <1>8 DEF Restore, restored
  <2> QED
    BY <2>1 DEF SettingsInv
<1>9. ASSUME NEW r \in Requests, Return(r) PROVE SettingsInv'
  BY <1>9 DEF Return, unlock, SettingsInv
<1> QED
  BY <1>1, <1>2, <1>3, <1>4, <1>5, <1>6, <1>7, <1>8, <1>9
  DEF Next, Step, Send, Abort, AbortPanics, optionVars, muxVars, vars

\* No step answers a request that has been answered.
LEMMA AnsweredStep == TypeOK /\ AnsweredInv /\ [Next]_vars => AnsweredInv'
<1> SUFFICES ASSUME TypeOK, AnsweredInv, [Next]_vars PROVE AnsweredInv'
  OBVIOUS
<1> USE SendAssumption DEF AnsweredInv, optionVars, muxVars
<1>1. CASE UNCHANGED <<answered, hMux, phase, cancelled>>
  BY <1>1
<1>2. ASSUME NEW r \in Requests, Abort(r) PROVE AnsweredInv'
  BY <1>2 DEF Abort
<1>3. ASSUME NEW r \in Requests, Lock(r) \/ SendPanics(r) PROVE AnsweredInv'
  BY <1>3 DEF Lock, SendPanics, unlock
<1>4. ASSUME NEW r \in Requests, Apply(r) \/ Connect(r) \/ Failure(r) PROVE AnsweredInv'
  BY <1>4 DEF Apply, Connect, Failure
<1>5. ASSUME NEW r \in Requests, Response(r) PROVE AnsweredInv'
  \* The context of r was not cancelled, so that r had no response.
  <2>1. answered[r] = 0
    <3>1. answered[r] \in Nat /\ r # Nobody
      BY DEF TypeOK
    <3> QED
      BY <1>5, <3>1 DEF Response
  <2> QED
    BY <1>5, <2>1 DEF Response, TypeOK
<1>6. ASSUME NEW r \in Requests, Restore(r) PROVE AnsweredInv'
  BY <1>6 DEF Restore
<1>7. ASSUME NEW r \in Requests, Return(r) PROVE AnsweredInv'
  BY <1>7 DEF Return, unlock, cancelDeferred
<1> QED
  BY <1>1, <1>2, <1>3, <1>4, <1>5, <1>6, <1>7
  DEF Next, Step, NewParams, Send, AbortPanics, SetOption, vars

-----------------------------------------------------------------------------
\* The inductive invariant of the HTTP client holds in every state.
THEOREM SendInvariance == Spec => []SendInv
<1>1. Init => SendInv
  <2>1. Init => OptionsInv /\ SettingsInv /\ AnsweredInv
    BY SendAssumption DEF Init, OptionsInv, SettingsInv, AnsweredInv
  <2> QED
    BY <2>1, SendTypeInit DEF SendInv
<1>2. SendInv /\ [Next]_vars => SendInv'
  BY SendTypeStep, OptionsStep, SettingsStep, AnsweredStep DEF SendInv
<1> QED
  BY <1>1, <1>2, PTL DEF Spec

\* The types of HttpSend, for any requests: in particular, what waits for hMux or
\* holds it was built, and without a request nothing comes after the lock (27, 234).
THEOREM SendTypeCorrect == Spec => []TypeOK
<1>1. SendInv => TypeOK
  BY DEF SendInv
<1> QED
  BY <1>1, SendInvariance, PTL

\* However many requests share an info and the http.Client, and whenever the info
\* is set: each runs with settings of its own info and the defaults, and with those
\* it was built with unless the info was set since (250-271).
THEOREM SettingsOwned == Spec => []OwnSettings
<1>1. SendInv => OwnSettings
  BY DEF SendInv, SettingsInv, Owned, OwnSettings
<1> QED
  BY <1>1, SendInvariance, PTL

\* However often a request is sent and aborted, it gets one response (232).
THEOREM OneResponseEach == Spec => []OneResponse
<1>1. SendInv => OneResponse
  BY DEF SendInv, AnsweredInv, OneResponse
<1> QED
  BY <1>1, SendInvariance, PTL
=============================================================================
