# TLA+ model of kitty

The repository is a Go library (module `github.com/lemoyxk/kitty`) for socket
and HTTP services: servers and clients over TCP, WebSocket and UDP that share
one message format, request/answer calls on top of them, an HTTP router and
server, and an HTTP client. This directory holds TLA+ modules for the parts of
it that have state shared between goroutines, callbacks or calls, the TLC
configurations that check them, and theorems about them that TLAPS checks.

Line numbers below are those of the file named last, under `src/`.

## 1. Inventory

| component | source | state | operations |
|---|---|---|---|
| UDP server | `socket/udp/server/server.go`, `conn.go` | `fd`, `connections`, `addrMap`; per connection `accept`, `close`, `tick`; `processLock`, `mux` | read loop, `process`, timer goroutine, loop goroutine, `onOpen`, `onClose`, `Push`/`Emit*`, `Close`, `Shutdown` |
| TCP server | `socket/tcp/server/*` | `fd`, `connections`; per connection the socket, its read deadline, a write mutex | accept loop, `process`, `onOpen`, `onClose`, `Push`/`Emit*`, `EmitAll`, `Close`, `Shutdown` |
| WebSocket server | `socket/websocket/server/*` | the same, with `http.Server` and an upgrade | the same, with ping handler and messages instead of bytes |
| TCP, WebSocket, UDP clients | `socket/*/client/client.go` | `Conn`, `stopCh`, `isStop`, `heartbeatTicker`, `pongTimer` and the cancel channels | `Connect`, `reconnecting`, heartbeat, pong and reader goroutines, `Close`, `Push`/`Emit*` |
| UDP client handshake | `socket/udp/client/client.go` 195-232 | the socket in `c.Conn`, a timer per attempt | open, wait for the acknowledgement, give up |
| Wire protocol | `socket/*/protocol.go`, `socket_stream.go` | the buffer and `singleMessageLen` of a `Reader` closure | `packBin`, `Decode`, `Reader` |
| Asynchronous calls | `socket/*/client/async.go` | a route in the router and a channel per call | `Emit`, `JsonEmit`, `ProtoBufEmit` |
| Routers | `http/server/router.go`, `socket/*/*/router.go` | hook slices of router, group and route; a prefix tree | `SetGlobalBefore`, `Group`, `Route`, `Before`, `PassBefore`, `ForceBefore`, `Handler`, `Remove`, `getRoute` |
| HTTP client | `http/client/*` | one `http.Client` and `http.Transport`, `hMux`; the headers and the settings of an `info`, shared by its requests; per request a context | `Json`, `Query`, `Form`, `Multipart`, `SetHeader`, `AddHeader`, `Timeout` and other setters, `Send`, `Abort`, settings put in and taken back |
| HTTP server | `http/server/server.go` | none between requests | `ServeHTTP`, the chain of middlewares, `handler` with OnOpen, OnMessage, before, function, after, OnError, OnClose |
| HTTP streams | `http/http_stream.go` | the stores of one request, the flags of what was parsed, what net/http keeps | `ParseQuery`, `ParseForm`, `ParseMultipart`, `ParseFiles`, `ParseJson`, `AutoParse`, `AutoGet` |
| HTTP store, values | `http/store.go`, `value.go`, `json.go`, `files.go`, ... | - | conversions of one value |
| Helpers, examples | `*.go`, `example/` | - | - |

How they interact. A server's `Start` spawns a goroutine per connection (TCP,
WebSocket) or per datagram (UDP). These decode a message with the protocol
module, run middleware and the routes of the router, and answer by `Push`,
which looks the FD up in the registry again. User goroutines call `EmitAll`,
`Emit`, `Close`, `GetConnections` at any time. A client's `Connect` owns a
connection and three goroutines that talk to it over unbuffered channels kept in
fields of the `Client`, fields that the next connection overwrites. An
asynchronous call enters a route into the client's router for the time of the
call; the reader goroutine runs it. The HTTP client's requests all go through
one transport; a request's parameter goes from an `info` over a header and a body
to the stores of the server's stream, and is found if both sides agree on where
it is.

What is hard: the order in which goroutines get a lock; maps that are written
under a lock and read without one; two goroutines that end the same
connection; sends on unbuffered channels whose receiver may be gone, or may be
about to send to the sender; fields read anew after a reconnect; timers that
fire after they were to be stopped; writes to a peer that does not read; bytes
of TCP that arrive in any pieces; slices that share an array; one body that several
methods read. The `hazards` of
`PROJECT.json` list them at their lines with the properties aimed at them.

What makes each part correct:

* servers: a registered FD is a live connection of one peer, is found by what
  the peer sends, is reported to OnClose once it is unregistered and not
  before, and is never given out again; who blocks is freed by a close or by a peer
  that reads; silent peers are dropped;
* clients: one socket at a time; a failed connection is noticed, OnClose is
  called and the client reconnects; only a connection's own reader ends it;
* UDP client and server together: who believes to be connected has a session;
* protocol: what is sent comes out whole and in order however it is cut;
* calls: they return, and with their own answer or an error;
* routers: a route runs the hooks it was registered with, and a request finds
  the route that was registered for it;
* HTTP client: a request runs with the settings of its own info, once, and `Send`
  returns;
* HTTP exchange: what the client gives as a parameter is what the server's
  handlers get; a failing hook ends its request.

## 2. Modules

| module | models | composed with |
|---|---|---|
| `Sessions` | the abstract promise of all servers about FDs | implemented by `UdpServer`, `StreamServer` |
| `UdpServer` | the UDP server | `Sessions` (refinement mapping at its end) |
| `StreamServer` | the TCP and the WebSocket server | `Sessions` |
| `SocketClient` | `Connect` and its goroutines, all three clients | follows `UdpDial` for UDP |
| `UdpDial` | the handshake of the UDP client | ends where `SocketClient` begins |
| `UdpSession` | the network between the two | extends `UdpDial`, instantiates `UdpServer` |
| `Protocol` | the message format: messages and their bytes | used by `TcpFraming` |
| `Delivery` | the abstract promise of a stream of messages | implemented by `TcpFraming` |
| `TcpFraming` | a TCP sender, the byte stream, the `Reader` | extends `Protocol`; `Delivery` (refinement mapping at its end) |
| `Async` | calls, the router entry of each, the reader goroutine | - |
| `RouterHooks` | how a route's hooks are put together, with Go's slices; the routes by path and method | - |
| `HttpSend` | `Send` and `Abort` of the HTTP client | - |
| `HttpInfo` | building requests from an `info` | used by `HttpExchange` |
| `HttpStream` | the Parse methods of a `Stream`, over net/http | used by `HttpServer` |
| `HttpServer` | `ServeHTTP`, middlewares, `handler` with its hooks | extends `HttpStream` |
| `HttpExchange` | a request from its `info` to the hooks that read it | extends `HttpInfo` and `HttpServer` |
| `UdpServerProofs`, `StreamServerProofs`, `SocketClientProofs`, `UdpSessionProofs`, `AsyncProofs`, `RouterHooksProofs`, `TcpFramingProofs`, `HttpProofs` | theorems | extend their component; `UdpSessionProofs` also instantiates `UdpServerProofs` |
| `MC...` | instances for TLC: sets of model values, symmetry | extend their component |

Definitions keep the names of the code where there is one (`addConnect`,
`delConnect`, `OnClose`, `getLen`, `Handler`). An operator whose
name ends in `_Something` and whose comment begins with "Mutated" is not used by
any specification: it is a plausible bug in the operator that follows it, kept
so that one can see that the property it stands for notices. `PROJECT.json`
says which.

### UdpServer

A connection is its FD. `process` is cut where another goroutine can come
between: `Lock` (the goroutine of any waiting datagram gets `processLock`),
then one of `Ignore`, `Deliver` + `AcceptSend`, `Open` + `Opened`, `Close` +
`Closing` + `Report` + `Signal`. `Tick`, `TimerExpire`, `TimerClose`,
`TimerReport`, `TimerSignal` are the timer and its goroutine (350-358),
`LoopReceive`, `LoopPing`, `LoopOther` the loop goroutine (360-375), `UserWrite`
what user code sends. The three lines of `onClose` (208-212) are three steps,
whoever runs it: the `delConnect` (`Closing`, `TimerClose`), the call of OnClose
(`Report`, `TimerReport`) and the send on `conn.close` (`Signal`, `TimerSignal`).
The timer goroutine runs them without `processLock`, so that between its first two
the peer may open its next session, and OnOpen of the new one may come before
OnClose of the old; `OnCloseFollowsEnd` says what is certain.
Datagrams to the peers are the set `sent`, for UDP may lose, repeat and reorder
them. The process may die (`crashed`) in three ways: `MapRace` is Go's answer to
the unlocked map reads; `ShortDatagram` the index 2 of a datagram of fewer than
three bytes (331); `LoopPanics` the slice that `Decode` takes of a message whose
route has 240 bytes or more (46 of `socket/udp/protocol.go`).
Handlers return; what a route does is `LoopOther` and `UserWrite`.

### StreamServer

`pc[c]` is where `process` of connection `c` is. The `Kinds` of messages are
what the two servers treat differently (see the head of the module). A route may
answer on its own connection (`Replies`, `ReplyLock`, `ReplyWritten`) as the ping
handler does (`PongLock`, `PongWritten`). A panic in `process` is of two kinds.
TCP's goroutines recover nothing, so that the server is gone: `SetupPanics` (a
buffer size that cannot be set, 302-310 of `socket/tcp/server/server.go`) and one
outcome of `DecodePanics` (a route of 240 bytes or more). WebSocket's `process`
runs in a handler of net/http, which recovers it: the other outcome is the place
"lost", in which the connection stays registered, its socket open, and OnClose is
never called.
`em[e]` is an `EmitAll` in progress: which FDs the range has yielded and which
connection it waits for. The mutex of `Conn.Write` is `wmux`; `stalled[c]` says
that the peer does not read, so that a write to it lasts. Time is one bit per
connection: `late`, the read deadline has passed. Data races on the fields of
`Conn` other than the map are left out.

### SocketClient, UdpDial and UdpSession

`main` is where `Connect` is, `gen` the number of connections so far; `conn`,
`rd`, `rconn`, `rch` are indexed by it, because a reader started for connection
1 may go on reading connection 2. The three unbuffered rendezvous (`stopCh` and
the two cancel channels) are actions of both partners. `overtaken` is a history
variable: it records that a connection was dialed while an earlier reader was
still in a handler. `stalled` says that the server does not read: `Conn.Write` of
a client has no deadline, so that the heartbeat (`BeatDone`) and a handler that
writes (`WriteReturns`) come back only when the server reads again or the
connection is closed on either side. Panics end the program: of a buffer size
(`DialPanics`), of a ticker of 0 (`SetupPanics`), and in the reader, of `Decode`
or of a datagram of fewer than three bytes (359 of
`socket/udp/client/client.go`; `ReaderPanics`).

`UdpDial` has one socket and one timer per attempt; the function of each timer
closes whatever `c.Conn` is when it runs. It has the client's steps only.
`UdpSession` gives them a network and instantiates `UdpServer` for the other
side, with the attempts as addresses, as every `ListenUDP` of the client gets a
port of its own. The client's socket is bound and not connected (219), so that the
first datagram it reads may be anybody's: `ReceiveStray` brings one of the
`Strays` in place of the server's, and the history variable `strays` has the
attempts it happened to. `toServer` holds what the client has sent and is neither read
nor lost: any of it may be read next, or never. What the server writes may
arrive at any time after. A datagram is delivered once at most here, because
`UdpServer` alone takes any datagram at any time, duplicates included, and the
composition is there to see what a client that behaves as the library's adds to
the server's promises. The client sends an Open once per attempt, Pings while it
is connected, and a Close whenever it closes an open socket.

### Protocol and TcpFraming

Messages are encoded to real bytes, with the arithmetic of the code: byte(len),
PutUint32, the sum of line 44 of `socket/tcp/protocol.go` modulo 256. Route and
body are any bytes, so that they may look like headers. `fits` says that the
header has room for both lengths: a route of 256 bytes and more is written with
its length modulo 256 (167 of the same file), and nothing refuses it. Ids stay
below 2^32. `Read(n)` takes any of the chunk sizes; `WaitHeader`, `BadHeader`,
`ReadHeader`, `WaitBody` and `Complete` are the branches of the `Reader`'s loop.

`Delivery` knows nothing of bytes: a message is delivered when its turn comes,
and the reader is up, failed or panicked. `Complete` implements its `Deliver` or
`Panic`; `BadHeader`, and what `Complete` does once a message whose end cannot be
told has had its turn, are its `Stray`; the rest are stuttering steps of it.

### Async, HttpSend

`Async`: a call goes `Register`, `Send` and `Select` or `SendFails` or
`EncodingFails`, then `Receive` or `Timeout`, then `Remove`; the reader does
`Lookup` and then waits in the route's send until the call receives. There is one
connection, which the server reads from, or not for a while, or which is closed;
`Send` is the write of line 33 of `socket/tcp/client/async.go`, which lasts while
the server does not read and comes before the clock of the timeout (38).

`HttpSend`: `SetOption` is a setter of an info, called at any time; `NewParams` is
the builder, which makes a request, an error for `Send` to return, or neither;
`Lock`, `Apply` (one setting at a time, read from the info), `Connect`, `Response`
or `Failure`, `Restore`, `Return` are the lines of `send` in order. `Connect` is
there for KeepAlive, which the dialer uses: on a connection taken from the pool
the one of an earlier request is in force. `SendPanics` and `AbortPanics` are the
calls of a cancel that is nil (232 of `http/client/do.go`, 34 of
`http/client/params.go`). `given` and `touched` are the history `OwnSettings` is
stated over: what the info asked for when the request was built, and whether it
was set since.

### RouterHooks

`heap` is the arrays allocated, a slice is an array and a length, and `append`
is Go's, with `growslice` for pointers. `tire` (the code's name for its prefix
tree) is a function from a path, as it is formatted for the tree, to the route
inserted there: it is assumed of the tree library that inserting replaces, that
deleting what is absent does nothing, and, as routes here have no parameters or
wildcards, that a lookup finds what was inserted under that very path. `kind`
tells the routers of the clients, which lower the path of `Remove` if case is
ignored, from those of the servers, which do not. `calls` is the history of
`Handler` and `Remove` that the property `RoutesFound` is stated over; `want` and
`keep` are what the hooks of a route were when it was registered, and how many
of them are in an array that nobody else writes to.

### HttpInfo, HttpStream, HttpServer and HttpExchange

A request carries one parameter, which is in the URL or in a body of a type. Its
value is of a class that says what the conversions make of it: "plain" stands for
itself; "changed" (a+b, x&y=z) and "broken" (50%) read differently, or not at all,
when they are unescaped without having been escaped, which is what the form
encoder (140-158 of `http/client/do.go`) and the server's ParseForm do together;
a "file" goes into the `Files` of a multipart body and nowhere else. `badUrl` says
that the URL of the request has a query that cannot be unescaped, with which
ParseForm and ParseMultipartForm fail, too.
`HttpInfo` keeps the `Content-Type` of an `info` (its type, its multipart
boundary, whether its key has the canonical spelling, and what a second field
added by `AddHeader` says) and the requests built so far; `getRequest` returns a
request, an error (a body of the wrong Go type) or neither; `wire` is the request
as it is sent, with the header that the info has at that moment. `HttpStream` has the stores of the stream and what net/http
keeps (`bodyRead`, `postForm`, `multipartForm`: an external part, from how
`ParseForm` and `ParseMultipartForm` are used; versions of Go differ in whether
the second goes on after an error of the first, and the model allows both); each
Parse method is one operator that sets all of them, and an error leaves the store
empty. `HttpServer` is one action per stage of the
pipeline; in any stage that is the user's code the Parse methods may be called,
an error returned or a panic raised. `HttpExchange` builds, sends one request
(`ClientSends`, or `ClientPanics` if there is none to send), and lets the server
run.

## 3. Runs

| run | instance | what it shows |
|---|---|---|
| `udp_sessions` | 2 peers, 5 kinds, 3 datagrams, 3 FDs, accept of 1, the user closes, fair | types and capacity; the two maps agree; no foreign mail; OnClose after the end of each session, and before the next OnOpen if the peer ended it; every connection reachable unless one was closed twice; refinement of `Sessions`; the lock is released, onClose returns, silent peers expire |
| `udp_dial` | 2 attempts of a client, the user closes during the first only, 3 datagrams read or brought by strangers, 2 FDs, the server's user silent, fair to the client | who has read an acknowledgement of the server's has a session; sessions stay reachable; a wrong first datagram is the Close of a session that is over; each handshake ends; leaks and stray timers only as named |
| `stream_safety` | 2 connections, bin/long, 1 message each, 1 emitter | registry exact, one writer, refinement of `Sessions` |
| `stream_live` | 1 connection, all 5 kinds, 2 messages, 2 emitters, fair | closing frees everyone; silent peers are dropped and EmitAll returns if the peer reads in the end |
| `client_reconnects` | 2 connections, heartbeat set or not, fair | no socket leaks; the reader that stops a connection is its own unless a handler was overtaken; failures are noticed; with a server that reads in the end, the stop completes but for one race |
| `client_stuck` | 1 connection, fair | violated: the stop need not complete, though the server reads |
| `framing_chunks` | 3 of 6 messages (routes of 0, 2, 239, 240 and 257 bytes with bodies of up to 260, and a Ping), chunks of 15, 40, 333 bytes, fair | whole, in order and all of them up to the first misfit, which is a Ping or the route of 257; refinement of `Delivery`, so that a proto error comes only after one; a panic only for routes of 240 bytes or more |
| `framing_heartbeat` | 3 Pings, chunks of 1 and 12 bytes | violated: the library's own Pings are a proto error |
| `async_calls` | 3 calls, 2 events, fair | calls return unless the server stops reading; the answer of a lone call finds it |
| `router_hooks` | 2 routes, 2 spellings of a path, GET and POST, 4 arrays, up to 3 hooks of the group, 1 of a route and of the router, 1 Remove | hooks are kept unless append found room in the group's array; a request finds exactly the last route of its path |
| `http_sends` | 2 requests of one info or two, 1 call of a setter, each request sent twice, fair | settings of the own info, as built unless it was set since; one response; Send returns |
| `http_exchange` | 2 requests from one info, 2 headers of the user (a form or another type), 1 middleware, 1 hook before and after, 3 parsing calls | the parameter arrives exactly if it is where the server looks and as it reads it; AutoGet after AutoParse is safe; the first error ends the request |

They reach, in this order and without the two violated ones, some 560,000,
1.8 million, 3.8 million, 480,000 and 130,000 distinct states for the servers and
clients of sockets, and 480,000, 530,000 and 24 million for `async_calls`,
`http_sends` and `http_exchange`.

Why the bounds are enough. The UDP hazards need a connection that is closed
(1 datagram or a timer) and opened again while an old goroutine still works on
it: open, close, open, or open, ping, open with a timer, are three datagrams;
two peers are enough to confuse one with the other; an accept channel of
capacity 1 is full after one message, so that `process` blocks with the lock
held. `MaxFd` is as large as the number of datagrams, so that the bound never
stops `Open`, and liveness is not hurt by it. The user's "bin" writes change
nothing but `sent`, and Pong is handled as Bin is, so that both are left out of
the run; the theorems have them. Two attempts of a UDP client are what a timer or
a late datagram of the first needs to meet the second; 3 reads let the server
see an Open, a Ping or a Close, and the second Open; the 2 FDs are one per
attempt, more are never asked for (`OneOpen` of `UdpSessionProofs`). In
`udp_dial` the server's user neither writes nor closes, and the client's user
closes in its first attempt only (`UserClosed`), for the second has nothing after
it that could be disturbed; a datagram of a stranger takes the place of one that
the server reads (`moreToCome`); the theorems about `UdpSession` have no such
bounds. A stale
reader needs two connections of a client. For
the stream servers two connections show that neither's FD is confused with the
other's; the contention that matters for liveness is on the mutex of one. The
chunk sizes of `framing_chunks` split a header, meet its end, join messages, and
exceed one; message sizes are those at which the length takes a second byte,
`Decode` stops taking the route, and the header stops holding its length; the
payloads have headers in them. In `RouterHooks` three hooks of the group, given
one by one, leave room in its array for a fourth, which is where two routes
meet; two spellings of one path, registered, requested and removed in any
combination, are the cases of `IgnoreCase`. In `HttpSend` one call of a setter
suffices to change an info between build and send, or in the middle of a send; two
requests are of one info or of two. In `HttpExchange` two builds are what it takes
for one to change the header of the other, and two headers of the user are one of
another spelling and one behind it; three parsing calls are one that
comes too early, AutoParse, and one that comes after it; the other stages of the
pipeline differ from each other by their successor alone.

CHECK_DEADLOCK is off where a system may stop: all messages of the bound sent,
the process aborted, the client ended or blocked for ever as its properties
describe, the request answered.

### Fairness

Weak fairness of a goroutine that can run: the Go scheduler is preemptive and
a mutex or a channel with a partner ready is served. `UdpServer` has it for
"some waiting datagram gets the lock", not for each. Timers and deadlines fire.
User callbacks return. Of peers, servers and the network nothing is assumed in the
specifications: they need not send, answer, read or close, and a write to one that
does not read is not fair, as it is not enabled. Where a promise depends on a peer that reads, the
property has that as its premise, "from some time on it is not stalled":
`SilentPeerExpires` and `EmitAllReturns` of `StreamServer`,
`StopCompletesUnlessPongSends` and `StopCompletes` of `SocketClient`, `CallReturns`
of `Async`. `FailureNoticed` and `CloseFrees` need no such premise, as a closed
connection frees its writers.

In `UdpSession` only the client's own steps and its timers are fair. In `Async` the
steps of a call are, from `Register` on; whether one is made, and whether the
reader runs, is left open, for it may be held in another route. Strong
fairness appears in `SocketClient`, for two reasons. The heartbeat and pong
goroutine come back to their `select` again and again, and a select with only the
cancel ready takes it (`CancelHb`, `CancelPong`). And a handler, which may write
any number of times, returns in the end (`Handled` or `HandleFails`). `HttpSend`
relies on the timeout that the client always has. `RouterHooks` and `HttpExchange` state
safety only: registration is the user's, and what ends a request is the end of
its one goroutine.

### What the runs showed about the code

Two statements of the repository are violated (findings of `PROJECT.json`):

* `client_stuck`: the pong goroutine tests `isStop` (247 of
  `socket/tcp/client/client.go`) and then sends on `stopCh`. If `Connect` takes
  the reader's stop in between, it waits at 298 for the pong goroutine, which
  waits at 248 for `Connect`: OnClose is never called and the client does not
  reconnect. The run has a server that reads in the end, as the other way to
  get stuck is its own: the heartbeat's Ping is written without a deadline, so that
  a server that does not read holds the heartbeat, and Connect, which waits for it at
  297 before it closes the connection at 303. `StopCompletesUnlessPongSends` shows
  that, with handlers that return, these two ways are all.
* `framing_heartbeat`: the TCP `PingMessage` and `PongMessage` have 12 bytes
  (22-23 of `socket/tcp/protocol.go`), the header that `Reader` waits for has
  16. After the first one, all messages are cut in the wrong place.
  `ImplementsDelivery` and the theorem about `OnlyMisfitsMisalign` show that,
  but for messages whose lengths do not fit their header, nothing else does that.

The other divergences are part of the models, and a property says how far they
go:

* OnClose of an expired UDP session may come after OnOpen of the peer's next one
  (209-210 of `socket/udp/server/server.go`, without `processLock`). After the peer's
  own Close it comes before (`OnCloseFollowsEnd`).
* UDP connections may be closed twice, once by a Close and once by the timer;
  the second `delConnect` then takes the address entry of the connection that
  the peer opened in between, which nothing can reach any more but its timer
  (`ReachableUnlessDoubleClosed`, `SilentPeerExpires`). With clients of this
  library, none of whose datagrams is duplicated, it does not happen, as they
  take a new port for each attempt (`AlwaysReachable`).
* The `break` at 372 of `socket/udp/server/server.go` leaves the `select` and
  not the `for`, so loop goroutines never end, although the comment at 360 says
  they shall. It is also what lets the second of two `onClose` return: with a
  loop that did end, `CloserReturns` and `LockReleased` are violated (the
  mutant `atSelect_UntilClosed`).
* Datagrams of one address enter `accept` in the order their goroutines get
  the lock, which need not be the order of arrival that 313-315 speak of.
* The server registers a UDP connection and calls OnOpen before it
  acknowledges the Open (377-379). What is sent meanwhile makes the client give
  up (226 of `socket/udp/client/client.go`), leaving socket and timer behind:
  `LeaksOnlyUnclosedFailures`, `StaleTickNeedsFailure`. If the user does not
  write so early, only the Close of a session that has expired comes first
  (`WrongOnlyAfterExpiry`); a Pong never does.
* The UDP client reads its first datagram from anybody (219): an Open that is not
  the server's makes it believe to be connected, and any other ends the attempt. What
  is said of its handshake excepts such attempts (`strays` in `ConnectedWasOpened`
  and `WrongOnlyAfterExpiry`).
* A client with HeartBeatInterval 0 panics in `time.NewTicker` (`SetupPanics`); with
  HeartBeatTimeout 0 its timer is made with 0 and stopped, and a tick sent in
  between ends the new connection (`Setup`).
* A UDP datagram of fewer than three bytes panics server or client (331 of
  `socket/udp/server/server.go`, 359 of `socket/udp/client/client.go`).
* `Decode` panics on routes of 240 to 255 bytes (`PanicsOnLongRoutesOnly`), which
  takes down a client or a TCP or UDP server; a WebSocket server goes on without the
  connection, which stays registered and of which OnClose is never called (`lost`
  in `CloseFrees` and `SilentPeerExpires` of `StreamServer`). Of
  longer ones the header has the length modulo 256, so that the message is cut
  too early and what follows it is read as a header (`whole` in `InOrder`).
* A late answer to an asynchronous call holds the reader goroutine for ever;
  two calls under one event may swap answers or lose their route
  (`AnswerFindsCall` has the condition, `CallReturns` holds without it). The
  timeout of a call covers the wait for the answer and not the write before it.
* A peer that stops reading holds whoever writes to it, as there is no write
  deadline: in a server its own `process`, and an `EmitAll` (`CloseFrees` says what
  ends it); in a client the heartbeat, a handler, an asynchronous call.
* `append(g.before, r.before...)` writes into the group's array if it has
  room; the next route of the group overwrites it (`HooksKept`).
* A GET and a POST route of one path replace each other, and a server that
  ignores case lowers the path of `Handler` but not that of `Remove`: a route
  registered as /A and removed as /A stays (`RoutesFound`).
* Requests built from one `info` are all sent with the headers and the settings
  (250-264 of `http/client/do.go`) that it has at the end: a Timeout set for the
  second is that of the first as well (`touched` in `OwnSettings`). KeepAlive is in
  force on new connections only (`dialed`). A second `Multipart` replaces the boundary that the first body was
  written with (`AsBuilt` in `ParamsArrive`).
* A `Content-Type` set under another spelling of its key is not the one that
  `doUrl` looks for (87, 219 of `http/client/do.go`): it returns neither request
  nor error, and `send` panics on the nil cancel (232). A canonical field that
  `AddHeader` puts behind it is found there, and the server reads the other
  (`Told` in `Readable`). `Abort` of params with an error panics, too.
* `Form` writes its parameters as they are (144) and the server unescapes them: x&y=z
  arrives changed, and 50% makes ParseForm fail, which empties the store
  (220-223 of `http/http_stream.go`), as does a query of the URL that cannot be
  unescaped. `Query` escapes (207). A file of a multipart body is in `Files`, where
  AutoGet does not look (`Readable`, `Uploaded`).
* The server looks for the parameters of a GET in the URL only, for those of
  any other method in the body only, and for a form in the body of a POST only:
  `Query` with HEAD or POST and `Form` with GET are sent and never found
  (`Readable`).
* AutoGet before AutoParse runs into a nil store (`AutoGetSafe`).
* OnClose of the HTTP server is called for requests that fail, and not for
  those that succeed, although OnOpen was called for both
  (`FailureEndsRequest`).

Seen while reading, and not the subject of a property: `hMux` of the HTTP client
is held while a progress callback runs, which waits for itself if it sends a
request (226 of `http/client/do.go`); every reconnect of a socket client is a
stack frame of `Connect` that stays (108 of `socket/tcp/client/client.go`); the
`Data` that a UDP client hands out is a part of the buffer that the next
datagram overwrites (314 of `socket/udp/client/client.go`); OnError is called
with a nil error for a wrong first datagram (227); `Json.Bytes` calls itself
(54 of `http/json.go`); `staticHandler` does not close the file it opens (159
of `http/server/server.go`).

## 4. Theorems

All are for every value of the constants, from the assumptions named
`ConstantsAssumption`, `HooksAssumption`, `SessionAssumption` and
`SendAssumption` of the components (which TLC evaluates on each run), and have no
other premise. Every safety property of a passing run is stated by one of them.

`UdpServerProofs`: `Spec => []Inv`, and from it `TypeOK`, `AddrMapSound`,
`OwnMail`, `OnCloseFollowsEnd`, `ReachableUnlessDoubleClosed`; and `Spec =>
ImplementsSessions`. `Inv` adds four facts that make these inductive:
`UnbornIsInert` (an FD not given out yet has no timer, message, entry or close,
so that `addConnect` does not revive anything; an FD given out has an address);
`LiveUntilEnded` (a session is registered exactly until its first `delConnect`,
which is counted when OnClose was called or is about to be); `NewestInMap` (an
entry of `addrMap` is the newest session of its address)
and `HolderKnowsTarget` (the goroutine with `processLock` works on a connection
of its own datagram's sender, which has no newer one: that is why what it puts into
`accept` is no foreign mail though the registry may change under it, and why
OnClose after a Close comes before the next OnOpen). The proof splits `Inv`
into parts, one lemma each, whose steps are the actions. The interesting one is
`CloseConnKeeps`: `delConnect` of a connection that is already gone may clear the
address of another, but then some connection was closed twice, which is the
premise of `ReachableUnlessDoubleClosed`. `OnCloseFollowsEnd` follows from `LiveUntilEnded`
and, for the order of two sessions of one address, from `HolderKnowsTarget`: the
goroutine with `processLock` reports the newest session of its address only, which
it got from `addrMap` (`NewestInMap`) and which nobody can follow up while it has
the lock. For the refinement, `Open` is `Begin`,
the first `delConnect` of a connection is `End`, and everything else, the second
close included, leaves `status` and `peer` as they are.

`UdpSessionProofs`: `ConnectedWasOpened`, `AlwaysReachable`,
`LeaksOnlyUnclosedFailures`, `StaleTickNeedsFailure` and `WrongOnlyAfterExpiry` of
the composition, for any number of attempts and datagrams and whatever the server's user writes. The
invariant has a part for the client (`TicksSound`: the timer of an attempt
exists once its handshake is read, and outlives it only if the outcome says so)
and three for both: `AckMeansOpened` (every acknowledgement that was written or
read has a connection whose OnOpen has returned), `OneOpen` (the Open of an
address is in one place: unsent, on its way, with a goroutine that waits for
`processLock`, or with the one that has it, and after that there is its
connection; so no address gets two), and from it `AlwaysReachable` is inductive:
a `delConnect`, first or second, can only clear the entry of its own address,
which no other connection has. The server's actions are first sorted by what
these facts see of them (`ServerCases`: a datagram is taken up, a connection is
opened, an acknowledgement is written, or the step is `Calm`).

The composition is also an instance of the server alone: `ImplementsServer` is
`SessionSpec => Alone!Spec`, where `Alone` is `UdpServerProofs` with the attempts
as addresses, and every step of the client is a stutter. So all that is proved of
the server holds in it (`ServerInvariance`), without being proved again.
`WrongOnlyAfterExpiry` follows from that and `CauseInv`, which goes back from a
wrong first datagram to its cause: it was written (`WrongsAreWritten`); a Pong was
written for a Ping, a Close because the session was over or the user closed it,
anything else by the user (`WritesHaveReasons`); and a Ping, in flight, with a
goroutine or in an accept channel, was sent by an attempt that had read its
acknowledgement (`PingsAreEarned`), which a failed attempt has not. Attempts that
read a stranger's datagram are excepted.

`StreamServerProofs`: `Spec => []StreamInv`, and from it `TypeOK`,
`RegistrySound`, `OneWriter`; and `Spec => ImplementsSessions`. `StreamInv` adds
`FdsSound` (the FDs given out are 1..fd, one for each connection that got as far
as `addConnect`, so that `fd` is a cardinality and never exceeds the number of
connections: lemma `RoomForFd`) and `MuxSound` (who holds a connection's mutex
is exactly who is in its Write, which `OneWriter` follows from). Its lemmas go by
part: the registry, which only `Register` and `Unregister` change; the network;
the writers, a route's own among them. In the refinement `Register` is `Begin` and `Unregister` is `End`;
that the other FDs keep their peer needs both that an FD has one connection
(`RegistrySound`) and that each up to `fd` has any (`FdsSound`). The assumption
that there are finitely many connections is what makes `fd` bounded.

`SocketClientProofs`: `TypeOK`, `OldConnsClosed` and `StopIsOwn` for any number
of reconnects. `OldConnsClosed` needs `PhasesSound` (between two connections the
last one is closed); `TypeOK` needs `ReadersStarted` (no reader exists before
its `stopCh` does); `StopIsOwn` needs `ReadersSound`: unless a handler was
overtaken, earlier readers are out or wait on a `stopCh` of their own number.

`AsyncProofs`: `AnswerFindsCall` and the types, for any calls and events.
`RouteInv` (the route under an event belongs to a call of that event), `OwnRoute`
(a call that is alone on its event has its route from before it sends until it
gives up: lemma `AloneBefore`, being alone can only end) and `FlightInv` (the
answer to a call is in one place at most: to be given, on its way, in the route,
or received) make it inductive.

`HttpProofs`, of a request on the client's side: `OwnSettings`, `OneResponse`
and the types, for any number of requests, infos and calls of setters.
`OptionsInv` says that what an info asks for is its own, and what it asked for when
a request was built, unless it was set since. `SettingsInv` says
that the defaults are in force when nobody is in `send`; that the holder's settings
(`Owned`) are, from `Connect` to `Restore`; and between the two, that it has
those which `Apply` is done with and the defaults of the rest: each is read
on its own, and a setter may come between them. `AnsweredInv` says that who got a response is cancelled or
still holds `hMux` on the way to it; together they are `SendInv`.

`RouterHooksProofs`: `RoutesFound`, from `TableInv`: the tree has, under each
key, the route of which the history says that it stands. The lemmas are about
paths (`KeysAreSame`: two paths have one key exactly if they mean the same;
`RemovesUndo`: which keys a Remove clears) and about histories (`StandsAfter`:
what one more call leaves standing). `HooksKept`, from `HeapInv`: the slices
that append is still called for have arrays of their own (`Apart`), a node
shares with the group's slice only the elements it is sure of (`NodesApart`),
and append writes behind the end of its slice or into a new array
(`AppendDoes`). The operators on slices have lemmas of their own.

`HttpProofs`, of the exchange (`ExchangeInv`): `ParamsArrive`, `AutoGetSafe`,
`FailureEndsRequest`, for
any numbers of builds, hooks and calls. The argument follows the parameter: what
a builder puts into a request agrees with the header it leaves (`BuiltInv`), the
server has the request that was sent (`ServedInv`), the first AutoParse finds
what is in it if the server can read it (`AutoParseFinds`, by method and type;
for a request sent as it was built, what the server can read is what `Readable` and
`Uploaded` say of the client's side), and no later
call changes a store that was filled (`ParsesKeep`). `RanInv` says, stage by stage, which hooks have run.

`TcpFramingProofs`: for any messages, chunk sizes and payload bytes, `InOrder`,
`OnlyMisfitsMisalign`, `PanicsOnLongRoutesOnly`, the types, and `Spec =>
ImplementsDelivery` (which has what a proto error means in it, so that the run
checks this and not `OnlyMisfitsMisalign`). `RoundTrip` is about the format alone: of the bytes that
`packBin` makes of a message that fits its header, `Decode` returns the message if
its route has less than 240 bytes, and panics if not. It rests on `Uint32Reads`
(what `PutUint32` wrote), and on `PackBinLayout` (which byte is
where). `FramingInv` says that the reader either has lost its place (`Lost`: the
message whose turn it is, or an earlier one, has an end that cannot be told) or is
`Aligned`: the buffer and the bytes on their way, one after the other, are exactly
the encodings of the messages not delivered yet, and `singleMessageLen` is 0 or
the length of the first of them. "Exactly the encodings" needs no recursion, as
the invariant says that there are positions at which each one begins: it is a
statement about a function from messages to positions, with lemmas for what a
step does to it (`OneMore` appends an encoding, `Drop` removes the first). What
is lost stays lost (`LostStep`), and from an aligned state each branch of the loop
keeps the place (`AlignedStep`). In the refinement, a completed message that is
aligned is the next one sent (`CompleteIsNext`), which is `Deliver`, or `Panic` if
its route is too long.

Only model-checked, as fairness and ENABLED are out of the prover's reach, is
liveness: `LockReleased`, `CloserReturns`, `SilentPeerExpires`, `HandshakeEnds`,
`FailureNoticed`, `StopCompletesUnlessPongSends`, `CloseFrees`, `EmitAllReturns`,
`AllDelivered`, `CallReturns`, `SendReturns`.

## 5. Not modelled

* The prefix tree of the routers, its parameters and wildcards: a library that
  is not in the repository. What is assumed of it is said above. That `Async`
  changes it while the reader looks routes up, without a lock, is a data race
  whose outcomes are the library's.
* HTTP: stores, values, JSON, files, and the End methods of a stream, which
  convert or write one value and keep no state; cookies, credentials, progress
  rates; requests with several parameters (of those in one form, one that cannot be
  unescaped takes the others along); `Start` and
  `Shutdown` of the server,
  which are calls of net/http; static files. A progress callback that sends.
* `UdpSession` duplicates no datagram; `UdpServer` takes any.
* `Async` has one connection, not the next one after a reconnect.
* `Reader` of UDP, which nothing calls; TLS set-up; logging; examples and
  generated code.
* Data races on the fields of a `Conn` or a `Client`, other than those on the
  maps of the servers.
* A crash and restart of a server: nothing is persisted, so that it begins as
  `Init` says, and for its peers it is one of the losses that are modelled.

## 6. Plan

Done, in this order: `Sessions`, `UdpServer`; `SocketClient`; `StreamServer`;
`Protocol`, `TcpFraming`; `UdpDial`; `Async`; `RouterHooks`; `HttpSend`;
`UdpSession`; `HttpInfo`, `HttpStream`, `HttpServer`, `HttpExchange`;
`Delivery`; and theorems about each.

Left:

1. Handlers of a socket client that call `Async` from the reader goroutine:
   `Async` and `SocketClient` composed.
2. The steps below the liveness properties that are safety: that what is waited
   for in `LockReleased` and `CloseFrees` has an owner in every state.
