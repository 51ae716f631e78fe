------------------------------ MODULE HttpStream ------------------------------
(***************************************************************************)
(* The Stream of http/http_stream.go: ParseQuery, ParseForm and the others *)
(* fill a store when they are first called and return it from then on.     *)
(* They all read one body, by way of net/http, which keeps what it has     *)
(* parsed too: the first call decides what the others still find.          *)
(*                                                                         *)
(* A store is "nil", "empty" or "found": the last if it has the client's   *)
(* parameter, with the value the client gave.                              *)
(* hasParseForm and its like are set together with their stores, so that   *)
(* they are left out: the flag is that the store is not "nil".             *)
(***************************************************************************)
VARIABLES
    request,                   \* what has arrived
    query, form, json, files,  \* the stores of the Stream
    bodyRead,                  \* Request.Body is consumed
    postForm, multipartForm    \* what net/http keeps in the Request

stores     == <<query, form, json, files>>
netVars    == <<bodyRead, postForm, multipartForm>>
streamVars == <<request, stores, netVars>>

Store == {"nil", "empty", "found"}

found(b) == IF b THEN "found" ELSE "empty"

type == request.header.type

-----------------------------------------------------------------------------
(* net/http *)

\* Request.ParseForm looks at the body for some methods and one type only, and
\* keeps what it makes of it.  It unescapes what the client has not escaped
\* (do.go, 144).
readsForm == postForm = "nil" /\ request.method = "POST" /\ type = "form"

hasForm == readsForm /\ ~bodyRead /\ request.body = "form"

formParsed ==
    IF postForm # "nil" THEN postForm ELSE found(hasForm /\ request.value = "plain")

\* It unescapes the URL's query too, and returns an error if it could not; but it
\* does so once only, and has no error to return when it is called again.
formError ==
    postForm = "nil" /\ (request.badUrl \/ (hasForm /\ request.value = "broken"))

parseForm ==
    /\ postForm' = formParsed
    /\ bodyRead' = (bodyRead \/ readsForm)
    /\ UNCHANGED multipartForm

\* Request.ParseMultipartForm parses the form before; of a multipart body it
\* keeps the values, in PostForm too, and the files, unless it fails.
readsMultipart == multipartForm = "nil" /\ type = "multipart" /\ request.header.boundary # 0

multipartParsed ==
    \/ multipartForm = "found"
    \/ /\ readsMultipart /\ ~bodyRead
       /\ request.body = "multipart" /\ request.boundary = request.header.boundary

inValues == multipartParsed /\ request.value # "file"
inFiles  == multipartParsed /\ request.value = "file"

parseParts ==
    /\ multipartForm' = IF multipartParsed THEN "found" ELSE "nil"
    /\ postForm' = IF multipartParsed THEN found(request.value # "file") ELSE formParsed
    /\ bodyRead' = (bodyRead \/ readsForm \/ readsMultipart)

\* An error of ParseForm is returned at once by some versions of Go, and after
\* the body was read by others.
parseMultipartForm == parseParts \/ (formError /\ parseForm)

-----------------------------------------------------------------------------
(* The Stream *)

NewStream(r) ==
    /\ request = r
    /\ query = "nil" /\ form = "nil" /\ json = "nil" /\ files = "nil"
    /\ bodyRead = FALSE /\ postForm = "nil" /\ multipartForm = "nil"

\* A store that was filled is returned as it is.
Cached(store) == store # "nil" /\ UNCHANGED <<stores, netVars>>

ParseQuery ==
    \/ Cached(query)
    \/ /\ query = "nil"
       /\ query' = found(request.query /\ request.value # "file" /\ ~request.badUrl)
       /\ UNCHANGED <<form, json, files, netVars>>

ParseForm ==
    \/ Cached(form)
    \/ /\ form = "nil"
       /\ parseForm
       /\ form' = IF formError THEN "empty" ELSE formParsed
       /\ UNCHANGED <<query, json, files>>

ParseMultipart ==
    \/ Cached(form)
    \/ /\ form = "nil"
       /\ parseMultipartForm
       /\ form' = found(inValues /\ ~formError)
       /\ UNCHANGED <<query, json, files>>

ParseFiles ==
    \/ Cached(files)
    \/ /\ files = "nil"
       /\ parseMultipartForm
       /\ files' = found(inFiles /\ ~formError)
       /\ UNCHANGED <<query, form, json>>

ParseJson ==
    \/ Cached(json)
    \/ /\ json = "nil"
       /\ json' = found(~bodyRead /\ request.body = "json" /\ request.value # "file")
       /\ bodyRead' = TRUE
       /\ UNCHANGED <<query, form, files, postForm, multipartForm>>

\* ParseMultipart and ParseFiles, of which the second finds what the first did,
\* and no error any more.
ParseBoth ==
    \/ /\ form # "nil" \/ files # "nil"
       /\ IF form # "nil" THEN ParseFiles ELSE ParseMultipart
    \/ /\ form = "nil" /\ files = "nil"
       /\ parseParts
       /\ form' = found(inValues /\ ~formError)
       /\ files' = found(inFiles)
       /\ UNCHANGED <<query, json>>

\* Mutated: the values of a multipart body are forgotten.
AutoMultipart_Files == ParseFiles

AutoMultipart == ParseBoth

AutoParse ==
    IF request.method = "GET" THEN ParseQuery
    ELSE CASE type = "multipart" -> AutoMultipart
           [] type = "form"      -> ParseForm
           [] type = "json"      -> ParseJson
           [] OTHER              -> UNCHANGED <<stores, netVars>>

\* The store that AutoGet and String look into; "none" if they return at once.
autoStore ==
    IF request.method = "GET" THEN query
    ELSE CASE type \in {"multipart", "form"} -> form
           [] type = "json"                  -> json
           [] OTHER                          -> "none"
=============================================================================
