------------------------------- MODULE HttpSend -------------------------------
(***************************************************************************)
(* The requests of http/client: Query, Form, Json and Multipart build one  *)
(* with a context of its own, Send performs it, Abort cancels it.  All of  *)
(* them go through one http.Client, whose settings send changes for the    *)
(* request at hand and puts back, under the mutex hMux (do.go, 224-301).   *)
(* What it changes them to is read from the info of the request then, and  *)
(* not when the request is built: the requests of one info share it, and   *)
(* its setters take no lock.                                               *)
(*                                                                         *)
(* Callers use a request from several goroutines.  A progress callback     *)
(* runs with hMux held; one that sends would wait for itself, and is not   *)
(* modelled.  A panic is recovered by the caller, as net/http does for a   *)
(* handler; one that does not ends the program.                            *)
(***************************************************************************)
EXTENDS Naturals, Sequences

CONSTANTS
    Requests,  \* requests that are built
    Infos,     \* infos they are built from
    Nobody,
    Default,   \* a setting has its default, or an info leaves it alone
    MaxSends,  \* bound: calls of Send for each request
    MaxSets    \* bound: calls of setters of infos

ASSUME SendAssumption ==
    /\ Nobody \notin Requests
    /\ MaxSends \in Nat /\ MaxSets \in Nat
    /\ Default \notin [by : Infos, n : 1..MaxSets]

\* What an info can change: Timeout, KeepAlive, Proxy, Progress; in the order in
\* which send looks at them.
settings == <<"Timeout", "KeepAlive", "Proxy", "DisableCompression">>
Settings == {settings[j] : j \in 1..4}

\* The value the n-th call of a setter gave to the info `by`.
Values == [by : Infos, n : 1..MaxSets] \cup {Default}

VARIABLES
    params,     \* request -> "no", "yes", "failed" or "nil": what getRequest made
    infoOf,     \* request -> its info
    options,    \* info -> setting -> the value it asks for
    sets,       \* calls of setters so far
    cancelled,  \* requests whose context is cancelled
    setting,    \* setting of the http.Client -> its value
    hMux,       \* the holder of hMux
    waiting,    \* request -> number of its Sends that wait for hMux
    phase,      \* of the holder: "apply", "connect", "do", "restore" or "return"
    applied,    \* in "apply": the settings it is done with
    dialed,     \* it has dialed a connection, not taken an idle one
    idle,       \* there may be idle connections
    sends,      \* request -> calls of Send so far
    answered,   \* request -> responses it got
    \* history
    given,      \* request -> the options of its info when it was built
    touched,    \* requests whose info was set after they were built
    panicked    \* requests of which a Send or an Abort panicked

optionVars == <<infoOf, options, sets, given, touched>>
muxVars  == <<hMux, phase, applied, dialed, idle>>
vars == <<params, optionVars, cancelled, setting, muxVars, waiting, sends, answered, panicked>>

\* A request that holds the mutex was built, without an error at least.
TypeOK ==
    /\ params \in [Requests -> {"no", "yes", "failed", "nil"}]
    /\ infoOf \in [Requests -> Infos]
    /\ options \in [Infos -> [Settings -> Values]]
    /\ sets \in 0..MaxSets
    /\ cancelled \subseteq Requests
    /\ setting \in [Settings -> Values]
    /\ hMux \in Requests \cup {Nobody}
    /\ waiting \in [Requests -> Nat] /\ sends \in [Requests -> 0..MaxSends]
    /\ phase \in {"apply", "connect", "do", "restore", "return"}
    /\ applied \in 0..4 /\ (phase = "apply" => applied < 4)
    /\ dialed \in BOOLEAN /\ idle \in BOOLEAN
    /\ answered \in [Requests -> Nat]
    /\ given \in [Requests -> [Settings -> Values]]
    /\ touched \subseteq Requests /\ panicked \subseteq Requests
    /\ \A r \in Requests : waiting[r] > 0 \/ hMux = r => params[r] \in {"yes", "nil"}
    /\ hMux # Nobody /\ phase # "apply" => params[hMux] = "yes"
    /\ \A r \in panicked : params[r] \in {"failed", "nil"}

Init ==
    /\ params = [r \in Requests |-> "no"]
    /\ infoOf \in [Requests -> Infos]
    /\ options = [i \in Infos |-> [s \in Settings |-> Default]]
    /\ sets = 0
    /\ cancelled = {}
    /\ setting = [s \in Settings |-> Default]
    /\ hMux = Nobody /\ phase = "return" /\ applied = 0
    /\ dialed = FALSE /\ idle = FALSE
    /\ waiting = [r \in Requests |-> 0] /\ sends = [r \in Requests |-> 0]
    /\ answered = [r \in Requests |-> 0]
    /\ given = [r \in Requests |-> [s \in Settings |-> Default]]
    /\ touched = {} /\ panicked = {}

-----------------------------------------------------------------------------
(* The info: Progress, Timeout, Proxy and KeepAlive, at any time *)

SetOption(i, s, v) ==
    /\ sets < MaxSets
    /\ v \in {[by |-> i, n |-> sets + 1], Default}
    /\ s = "Proxy" => v # Default
    /\ sets' = sets + 1
    /\ options' = [options EXCEPT ![i][s] = v]
    /\ touched' = touched \cup {r \in Requests : infoOf[r] = i /\ params[r] # "no"}
    /\ UNCHANGED <<params, infoOf, cancelled, setting, muxVars, waiting, sends, answered,
                   given, panicked>>

-----------------------------------------------------------------------------
(* Building, sending and aborting *)

\* What getRequest makes of a body: a request with its context, an error, or
\* neither (182).
outcomes == {"yes", "failed", "nil"}

\* Json, Query, Form or Multipart, which keep an error for Send to return.
NewParams(r) ==
    /\ params[r] = "no"
    /\ \E b \in outcomes : params' = [params EXCEPT ![r] = b]
    /\ given' = [given EXCEPT ![r] = options[infoOf[r]]]
    /\ UNCHANGED <<infoOf, options, sets, touched, cancelled, setting, muxVars, waiting,
                   sends, answered, panicked>>

\* p.err is nil.
mayEnter(r) == params[r] \in {"yes", "nil"}

\* Send of a request that was built; of a failed one it just returns.
Send(r) ==
    /\ mayEnter(r)
    /\ sends[r] < MaxSends
    /\ sends' = [sends EXCEPT ![r] = @ + 1]
    /\ waiting' = [waiting EXCEPT ![r] = @ + 1]
    /\ UNCHANGED <<params, optionVars, cancelled, setting, muxVars, answered, panicked>>

\* Abort, from any goroutine, at any time.
Abort(r) ==
    /\ params[r] = "yes"
    /\ r \notin cancelled
    /\ cancelled' = cancelled \cup {r}
    /\ UNCHANGED <<params, optionVars, setting, muxVars, waiting, sends, answered, panicked>>

\* Without a request there is no cancel to call.
AbortPanics(r) ==
    /\ params[r] \in {"failed", "nil"}
    /\ panicked' = panicked \cup {r}
    /\ UNCHANGED <<params, optionVars, cancelled, setting, muxVars, waiting, sends, answered>>

-----------------------------------------------------------------------------
(* send *)

Lock(r) ==
    /\ hMux = Nobody
    /\ waiting[r] > 0
    /\ hMux' = r
    /\ waiting' = [waiting EXCEPT ![r] = @ - 1]
    /\ phase' = "apply" /\ applied' = 0
    /\ UNCHANGED <<params, optionVars, cancelled, setting, dialed, idle, sends, answered,
                   panicked>>

\* Mutated: a return without unlocking.
unlock_Not == UNCHANGED hMux

unlock == hMux' = Nobody

\* "invalid request", but the deferred cancel is nil.
SendPanics(r) ==
    /\ hMux = r /\ phase = "apply" /\ params[r] = "nil"
    /\ unlock
    /\ panicked' = panicked \cup {r}
    /\ UNCHANGED <<params, optionVars, cancelled, setting, phase, applied, dialed, idle,
                   waiting, sends, answered>>

\* The next setting, if the info asks for a value now.
Apply(r) ==
    /\ hMux = r /\ phase = "apply" /\ params[r] = "yes"
    /\ LET s == settings[applied + 1]
           v == options[infoOf[r]][s]
       IN  setting' = IF v = Default THEN setting ELSE [setting EXCEPT ![s] = v]
    /\ applied' = applied + 1
    /\ phase' = IF applied' = 4 THEN "connect" ELSE "apply"
    /\ UNCHANGED <<params, optionVars, cancelled, hMux, dialed, idle, waiting, sends, answered,
                   panicked>>

\* The Transport dials, with the KeepAlive of the Dialer, or takes a connection
\* that an earlier request has left, with the KeepAlive it was dialed with.
Connect(r) ==
    /\ hMux = r /\ phase = "connect"
    /\ dialed' \in IF idle THEN BOOLEAN ELSE {TRUE}
    /\ phase' = "do"
    /\ UNCHANGED <<params, optionVars, cancelled, setting, hMux, applied, idle, waiting, sends,
                   answered, panicked>>

\* Do and ReadAll succeed, which they may just before they see a cancellation
\* that comes meanwhile, but not if the context was cancelled before Do.
Response(r) ==
    /\ hMux = r /\ phase = "do"
    /\ r \notin cancelled
    /\ answered' = [answered EXCEPT ![r] = @ + 1]
    /\ idle' = TRUE
    /\ phase' = "restore"
    /\ UNCHANGED <<params, optionVars, cancelled, setting, hMux, applied, dialed, waiting,
                   sends, panicked>>

\* Do or ReadAll fails: the network, a cancelled context, or the client's
\* Timeout, which always has a value.  The connection may stay, as after an answer.
Failure(r) ==
    /\ hMux = r /\ phase = "do"
    /\ idle' \in {idle, TRUE}
    /\ phase' = "restore"
    /\ UNCHANGED <<params, optionVars, cancelled, setting, hMux, applied, dialed, waiting,
                   sends, answered, panicked>>

\* Mutated: the proxy is forgotten.
restored_NotProxy == Settings \ {"Proxy"}

\* The settings the deferred function puts back.
restored == Settings

Restore(r) ==
    /\ hMux = r /\ phase = "restore"
    /\ setting' = [s \in Settings |-> IF s \in restored THEN Default ELSE setting[s]]
    /\ phase' = "return"
    /\ UNCHANGED <<params, optionVars, cancelled, hMux, applied, dialed, idle, waiting, sends,
                   answered, panicked>>

\* Mutated: the context outlives send.
cancelDeferred_Not(r) == UNCHANGED cancelled

\* defer cancel()
cancelDeferred(r) == cancelled' = cancelled \cup {r}

Return(r) ==
    /\ hMux = r /\ phase = "return"
    /\ cancelDeferred(r)
    /\ unlock
    /\ UNCHANGED <<params, optionVars, setting, phase, applied, dialed, idle, waiting, sends,
                   answered, panicked>>

Step(r) ==
    \/ Lock(r) \/ SendPanics(r) \/ Apply(r) \/ Connect(r)
    \/ Response(r) \/ Failure(r) \/ Restore(r) \/ Return(r)

Next ==
    \/ \E r \in Requests : NewParams(r) \/ Send(r) \/ Abort(r) \/ AbortPanics(r) \/ Step(r)
    \/ \E i \in Infos, s \in Settings, v \in Values : SetOption(i, s, v)

Spec == Init /\ [][Next]_vars

\* Goroutines run; Do ends because the client has a timeout.
FairSpec == Spec /\ \A r \in Requests : WF_vars(Step(r))

-----------------------------------------------------------------------------
(* Properties *)

\* While a request is performed, what is in force was asked for by its own info or
\* is the default, never what an earlier request has left; and it is what the info
\* asked for when the request was built, unless the info was set since.  Of
\* KeepAlive this holds if the connection is a new one.
OwnSettings ==
    hMux # Nobody /\ phase = "do" =>
        \A s \in Settings : (s = "KeepAlive" => dialed) =>
            /\ setting[s] # Default => setting[s].by = infoOf[hMux]
            /\ hMux \notin touched => setting[s] = given[hMux][s]

\* Sending a request twice gets one response at most: the first send cancels the
\* context, also when the second has been waiting all the while.
OneResponse == \A r \in Requests : answered[r] <= 1

\* Every Send returns, although they wait for one another, and although one of a
\* request that is neither there nor failed panics.
SendReturns == \A r \in Requests : waiting[r] > 0 ~> (waiting[r] = 0 /\ hMux # r)
=============================================================================
