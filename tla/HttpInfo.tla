------------------------------- MODULE HttpInfo -------------------------------
(***************************************************************************)
(* How http/client makes requests from an info (info.go, do.go 32-224):    *)
(* Json, Query, Form and Multipart choose the body by the Content-Type     *)
(* that the info has at that moment, and Send adds the headers that the    *)
(* info has then.  Requests built from one info share its headers.         *)
(*                                                                         *)
(* A request carries one parameter.  What matters of it is where it is, in *)
(* the URL or in a body of some type, and its value: a "plain" one stands  *)
(* for itself in a query string; one that is "changed" reads differently   *)
(* when it is unescaped without having been escaped (a+b, x&y=z), and one  *)
(* that is "broken" cannot be unescaped (50%); or it is a *os.File.        *)
(* HttpSend has the sending itself.                                        *)
(***************************************************************************)
EXTENDS Naturals, Sequences

CONSTANTS
    MaxBuilds,   \* bound: requests built from the info
    MaxHeaders,  \* bound: headers the user sets
    UserTypes    \* bound: the types among them

ASSUME ConstantsAssumption ==
    /\ MaxBuilds \in Nat \ {0} /\ MaxHeaders \in Nat
    /\ UserTypes \subseteq {"form", "json", "multipart", "other"}

VARIABLES
    method,   \* of client: Get, Head or Post
    badUrl,   \* its URL has a query that cannot be unescaped
    header,   \* the info's Content-Type
    headers,  \* how often the user has set headers
    reqs      \* what the calls of Json, Query, Form and Multipart returned

infoVars == <<method, badUrl, header, headers, reqs>>

Methods  == {"GET", "HEAD", "POST"}
Builders == {"Json", "Query", "Form", "Multipart"}

ParamValues == {"plain", "changed", "broken", "file"}
Types  == {"form", "json", "multipart", "other"}

\* The header fields Content-Type.  Of the first: its type, "none" if there is no
\* such field; boundary 0 for a multipart type without one; canonical says that
\* its key reads "Content-Type", which SetHeader leaves to the user.  If it does
\* not, second is the type of the first field behind it whose key does.
Header == [type : Types \cup {"none"}, boundary : 0..MaxBuilds, canonical : BOOLEAN,
           second : Types \cup {"none"}]

NoHeader == [type |-> "none", boundary |-> 0, canonical |-> TRUE, second |-> "none"]

InfoInit ==
    /\ method \in Methods /\ badUrl \in BOOLEAN
    /\ header = IF method = "POST" THEN [NoHeader EXCEPT !.type = "form"] ELSE NoHeader
    /\ headers = 0
    /\ reqs = <<>>

\* SetHeader of a Content-Type: the first field keeps its key.
SetHeader(h, type, boundary, canonical) ==
    [type |-> type, boundary |-> boundary,
     canonical |-> IF h.type = "none" THEN canonical ELSE h.canonical,
     second |-> h.second]

\* AddHeader puts a canonical field behind those that are there.
AddHeader(h, type) ==
    IF h.type = "none" THEN SetHeader(h, type, 0, TRUE)
    ELSE IF ~h.canonical /\ h.second = "none" THEN [h EXCEPT !.second = type]
    ELSE h

\* The user sets or adds a Content-Type, or replaces all headers by others.
UserHeader ==
    /\ headers < MaxHeaders
    /\ headers' = headers + 1
    /\ \/ header' = NoHeader
       \/ \E t \in UserTypes :
            header' \in {SetHeader(header, t, 0, c) : c \in BOOLEAN}
                         \cup {AddHeader(header, t), SetHeader(NoHeader, t, 0, TRUE)}
    /\ UNCHANGED <<method, badUrl, reqs>>

\* The four builders; Query leaves the Content-Type as it is.
built(kind) ==
    CASE kind = "Json"      -> SetHeader(header, "json", 0, TRUE)
      [] kind = "Form"      -> SetHeader(header, "form", 0, TRUE)
      [] kind = "Multipart" -> SetHeader(header, "multipart", 0, TRUE)
      [] kind = "Query"     -> header

\* getContentType and the comparison of getRequest, which looks for one spelling
\* of the key and for a value without a boundary.
contentType(h) ==
    IF ~h.canonical THEN h.second
    ELSE IF h.boundary # 0 THEN "none"
    ELSE h.type

\* Mutated: the boundary of the body is not told.
boundaryTold_Not(h, i) == h

\* doPostFormData, line 101.
boundaryTold(h, i) == SetHeader(h, "multipart", i, TRUE)

\* What getRequest returns: an error for a body of the wrong Go type, a request,
\* or, from doUrl (183), neither; and the header that it leaves to the info.
getRequest(kind, value, h, i) ==
    LET type == contentType(h)
        inUrl == type \notin {"json", "form", "multipart"}
        result == IF inUrl THEN IF kind = "Json" THEN "nil" ELSE "request"
                  ELSE IF (kind = "Json") = (type = "json") THEN "request"
                  ELSE "error"
        parts == type = "multipart" /\ result = "request"
    IN  [result |-> result,
         value |-> value,
         query |-> inUrl,
         body |-> IF inUrl THEN "none" ELSE type,
         boundary |-> IF parts THEN i ELSE 0,
         header |-> IF parts THEN boundaryTold(h, i) ELSE h]

Build(kind) ==
    /\ Len(reqs) < MaxBuilds
    /\ \E v \in ParamValues :
         LET r == getRequest(kind, v, built(kind), Len(reqs) + 1)
         IN  header' = r.header /\ reqs' = Append(reqs, r)
    /\ UNCHANGED <<method, badUrl, headers>>

\* The request as send completes it.
wire(r) == [method |-> method, badUrl |-> badUrl, value |-> r.value, query |-> r.query,
            body |-> r.body, boundary |-> r.boundary, header |-> header]

Info == UserHeader \/ \E kind \in Builders : Build(kind)
=============================================================================
