----------------------------- MODULE RouterHooks -----------------------------
(***************************************************************************)
(* The registration of routes in http/server/router.go; the routers of the *)
(* socket servers and clients have the same lines but for the method of a  *)
(* route, which only HTTP has (the others are the case of one method), and *)
(* for Remove, where the clients look at IgnoreCase and the servers do     *)
(* not.  Routes are kept by path in a prefix tree of a library, here a     *)
(* function of the path.                                                   *)
(*                                                                         *)
(* Hooks that run before a route come from its group, from the route       *)
(* itself and from the router; those that run after it are built alike and *)
(* left out.  All of them are Go slices, and what a slice shares with the  *)
(* one it was appended to is the point here: a slice is a reference to an  *)
(* array and a length, and append writes into the array if it has room.    *)
(***************************************************************************)
EXTENDS Naturals, Sequences, FiniteSets

CONSTANTS
    Routes,     \* routes of one group, each registered once
    Hooks,      \* hook functions
    NoHook,     \* an element of an array not written yet
    Paths,      \* paths, of routes and of requests
    Lower,      \* path -> the path in lower case
    Methods,    \* methods of routes and of requests
    NoRoute,    \* what the tree has where nothing was inserted
    MaxArrays,  \* bound: arrays allocated
    MaxHooks,   \* bound: hooks given to the group
    MaxOwn,     \* bound: hooks given to a route, and to the router
    MaxRemoves  \* bound: calls of Remove

ASSUME ConstantsAssumption ==
    /\ {MaxArrays, MaxHooks, MaxOwn, MaxRemoves} \subseteq Nat
    /\ Lower \in [Paths -> Paths]
    /\ \A p \in Paths : Lower[Lower[p]] = Lower[p]
    /\ NoRoute \notin Routes

VARIABLES
    heap,          \* the arrays allocated: a sequence of sequences of hooks
    globalBefore,  \* the slice of the router
    groupBefore,   \* the slice of the group
    routeBefore,   \* route -> its slice
    mode,          \* route -> "plain", "pass" (PassBefore) or "force"
    nodeBefore,    \* route -> the slice its node holds, once registered
    registered,    \* routes whose Handler was called
    kind,          \* "server" or, of a socket, "client"
    ignoreCase,    \* its field IgnoreCase
    tire,          \* path -> the route inserted there
    at,            \* route -> the path and the method it was registered for
    calls,         \* the calls of Handler and Remove, in order (history)
    want,          \* route -> the hooks it was registered with (history)
    keep           \* route -> how many of these are its own for sure (history)

hookVars == <<globalBefore, groupBefore, routeBefore>>
nodeVars == <<nodeBefore, registered, want, keep>>
tableVars == <<kind, ignoreCase, tire, at, calls>>
vars == <<heap, hookVars, mode, nodeVars, tableVars>>

Nil    == [array |-> 0, len |-> 0]

Arrays == 1..MaxArrays
Slices == [array : 0..MaxArrays, len : Nat]

cap(s) == IF s.array = 0 THEN 0 ELSE Len(heap[s.array])
content(s) == IF s.array = 0 THEN <<>> ELSE SubSeq(heap[s.array], 1, s.len)

\* A slice stays within its array, and its array is allocated.
sliceOK(s) == s \in Slices /\ s.array <= Len(heap) /\ s.len <= cap(s)

TypeOK ==
    /\ Len(heap) <= MaxArrays
    /\ sliceOK(globalBefore) /\ sliceOK(groupBefore)
    /\ \A r \in Routes : sliceOK(routeBefore[r]) /\ sliceOK(nodeBefore[r])
    /\ mode \in [Routes -> {"plain", "pass", "force"}]
    /\ registered \subseteq Routes
    /\ tire \in [Paths -> registered \cup {NoRoute}]

Init ==
    /\ heap = <<>>
    /\ globalBefore = Nil /\ groupBefore = Nil
    /\ routeBefore = [r \in Routes |-> Nil]
    /\ mode = [r \in Routes |-> "plain"]
    /\ nodeBefore = [r \in Routes |-> Nil]
    /\ registered = {}
    /\ want = [r \in Routes |-> <<>>]
    /\ keep = [r \in Routes |-> 0]
    /\ kind \in {"server", "client"}
    /\ ignoreCase \in BOOLEAN
    /\ tire = [p \in Paths |-> NoRoute]
    /\ at = <<>>
    /\ calls = <<>>

-----------------------------------------------------------------------------
(* Go's append *)

\* growslice for elements of eight bytes: what is needed, but at least twice the
\* old capacity, rounded up to a size class of the allocator.
grown(old, needed) ==
    LET n == IF needed > 2 * old THEN needed ELSE 2 * old
    IN  IF n <= 4 THEN n ELSE n + (n % 2)

\* The heap and the slice after append(s, xs...), on heap h.
append(h, s, xs) ==
    LET n == s.len + Len(xs)
        c == IF s.array = 0 THEN 0 ELSE Len(h[s.array])
    IN  IF n <= c
        THEN [heap  |-> IF xs = <<>> THEN h
                        ELSE [h EXCEPT ![s.array] =
                                [i \in 1..c |-> IF i \in s.len + 1..n THEN xs[i - s.len] ELSE @[i]]],
              slice |-> [s EXCEPT !.len = n]]
        ELSE [heap  |-> Append(h, [i \in 1..grown(c, n) |->
                            IF i <= s.len THEN h[s.array][i]
                            ELSE IF i <= n THEN xs[i - s.len] ELSE NoHook]),
              slice |-> [array |-> Len(h) + 1, len |-> n]]

-----------------------------------------------------------------------------
(* The calls a user makes to build his router *)

\* The bound on allocations, on the heap after a call.
Bounded(h) == Len(h) <= MaxArrays

\* Up to two hooks a call.
SomeHooks == {<<x>> : x \in Hooks} \cup {<<x, y>> : x, y \in Hooks}

SetGlobalBefore(xs) ==
    /\ globalBefore.len + Len(xs) <= MaxOwn
    /\ LET a == append(heap, globalBefore, xs)
       IN  Bounded(a.heap) /\ heap' = a.heap /\ globalBefore' = a.slice
    /\ UNCHANGED <<groupBefore, routeBefore, mode, nodeVars, tableVars>>

GroupBefore(xs) ==
    /\ groupBefore.len + Len(xs) <= MaxHooks
    /\ LET a == append(heap, groupBefore, xs)
       IN  Bounded(a.heap) /\ heap' = a.heap /\ groupBefore' = a.slice
    /\ UNCHANGED <<globalBefore, routeBefore, mode, nodeVars, tableVars>>

RouteBefore(r, xs) ==
    /\ r \notin registered
    /\ routeBefore[r].len + Len(xs) <= MaxOwn
    /\ LET a == append(heap, routeBefore[r], xs)
       IN  Bounded(a.heap) /\ heap' = a.heap /\ routeBefore' = [routeBefore EXCEPT ![r] = a.slice]
    /\ UNCHANGED <<globalBefore, groupBefore, mode, nodeVars, tableVars>>

\* PassBefore and ForceBefore set flags; force wins when both are set.
SetMode(r, m) ==
    /\ r \notin registered
    /\ mode[r] = "plain"
    /\ mode' = [mode EXCEPT ![r] = m]
    /\ UNCHANGED <<heap, hookVars, nodeVars, tableVars>>

\* Mutated: passing keeps the array and drops the hooks.
passed_Emptied(s) == [s EXCEPT !.len = 0]

\* PassBefore: nil.
passed(s) == Nil

\* append(g.before, r.before...)
joined(h, r) == append(h, groupBefore, content(routeBefore[r]))

formatPath(p) == IF ignoreCase THEN Lower[p] ELSE p

\* Handler: the joined hooks, unless the flags say otherwise, then the router's;
\* the node goes into the tree and takes the place of what was there, whatever
\* method that was for.
Handler(r, p, m) ==
    /\ r \notin registered
    /\ registered' = registered \cup {r}
    /\ LET j == joined(heap, r)
           own == CASE mode[r] = "plain" -> j.slice
                    [] mode[r] = "pass" -> passed(j.slice)
                    [] mode[r] = "force" -> routeBefore[r]
           a == append(j.heap, own, content(globalBefore))
       IN  /\ Bounded(a.heap)
           /\ heap' = a.heap
           /\ nodeBefore' = [nodeBefore EXCEPT ![r] = a.slice]
           /\ keep' = [keep EXCEPT ![r] =
                         IF a.slice.array # 0 /\ a.slice.array = groupBefore.array
                         THEN groupBefore.len ELSE a.slice.len]
    /\ want' = [want EXCEPT ![r] =
                    CASE mode[r] = "plain" -> content(groupBefore) \o content(routeBefore[r])
                                                \o content(globalBefore)
                      [] mode[r] = "pass" -> content(globalBefore)
                      [] mode[r] = "force" -> content(routeBefore[r]) \o content(globalBefore)]
    /\ at' = [q \in registered' |-> IF q = r THEN [path |-> p, method |-> m] ELSE at[q]]
    /\ tire' = [tire EXCEPT ![formatPath(p)] = r]
    /\ calls' = Append(calls, [call |-> "Handler", path |-> p, route |-> r])
    /\ UNCHANGED <<hookVars, mode, kind, ignoreCase>>

\* Mutated: the clients delete the path as it is given, like the servers.
deleted_Raw(p) == p

\* What Remove deletes: the clients lower the path if they ignore case.
deleted(p) == IF kind = "client" THEN formatPath(p) ELSE p

\* Remove, of the router, the group or the route's handler.  The servers would
\* call the tree before there is one; what it does then is the library's.
Remove(p) ==
    /\ Len(calls) - Cardinality(registered) < MaxRemoves
    /\ registered # {}
    /\ tire' = [tire EXCEPT ![deleted(p)] = NoRoute]
    /\ calls' = Append(calls, [call |-> "Remove", path |-> p, route |-> NoRoute])
    /\ UNCHANGED <<heap, hookVars, mode, nodeVars, kind, ignoreCase, at>>

\* getRoute: the route a request for this path and method gets.
getRoute(m, p) ==
    LET r == tire[formatPath(p)]
    IN  IF r # NoRoute /\ at[r].method # m THEN NoRoute ELSE r

HookCalls ==
    \/ \E xs \in SomeHooks : SetGlobalBefore(xs) \/ GroupBefore(xs)
    \/ \E r \in Routes :
          \/ \E xs \in SomeHooks : RouteBefore(r, xs)
          \/ \E m \in {"pass", "force"} : SetMode(r, m)

RouteCalls ==
    \/ \E r \in Routes, p \in Paths, m \in Methods : Handler(r, p, m)
    \/ \E p \in Paths : Remove(p)

Next == HookCalls \/ RouteCalls

Spec == Init /\ [][Next]_vars

-----------------------------------------------------------------------------
(* Properties *)

\* A route keeps the hooks it was registered with, whatever is registered
\* afterwards, if its node has an array of its own: so with PassBefore, with
\* ForceBefore, and when the group's array was full.  Where append has found
\* room in the array of the group, only the group's hooks are safe: the next
\* route, or the next Before of the group, writes over the rest.
HooksKept ==
    \A r \in registered :
        LET has == content(nodeBefore[r])
        IN  /\ Len(has) = Len(want[r])
            /\ \A i \in DOMAIN has : i <= keep[r] => has[i] = want[r][i]

\* Two paths that mean the same to the router's user.
same(p, q) == p = q \/ (ignoreCase /\ Lower[p] = Lower[q])

\* Whether call j undoes the registration before it of a route for path p: a
\* registration of the same path does, and a Remove of it, which a server that
\* ignores case only understands in lower case.
Undoes(j, p) ==
    /\ same(calls[j].path, p)
    /\ calls[j].call = "Remove" /\ ignoreCase /\ kind # "client"
           => Lower[calls[j].path] = calls[j].path

\* A request gets exactly the route that was registered last for its path, in
\* whatever spelling, if it has the route's method and the route was not removed
\* since.  One path has one method: GET and POST of a path exclude each other.
\* And of a server that ignores case, a route outlives its Remove if the path is
\* given as it was registered, but not in lower case.
RoutesFound ==
    \A p \in Paths, m \in Methods, r \in registered :
        getRoute(m, p) = r <=>
            \E i \in DOMAIN calls :
                /\ calls[i].route = r
                /\ same(calls[i].path, p)
                /\ at[r].method = m
                /\ \A j \in i + 1..Len(calls) : ~Undoes(j, p)
=============================================================================
