--------------------------- MODULE RouterHooksProofs ---------------------------
(***************************************************************************)
(* Proofs about RouterHooks, for any routes, hooks, paths and bounds.      *)
(*                                                                         *)
(* RoutesFound relates the tree to the whole history of the calls.  It is  *)
(* inductive with the routes alone (TableInv), once it is clear that two   *)
(* paths share a key of the tree exactly if the user takes them for the    *)
(* same (KeysAreSame), and which Remove clears which key (RemovesUndo).    *)
(*                                                                         *)
(* HooksKept is about arrays that are written to while others read them.   *)
(* The slices that append is still called for have arrays of their own     *)
(* (Apart); the nodes share with them no more than what comes before their *)
(* ends (NodesApart); and append writes behind the end of its slice, or    *)
(* into an array that is new (AppendDoes).                                 *)
(***************************************************************************)
EXTENDS RouterHooks, SequenceTheorems, TLAPS

Call == [call : {"Handler", "Remove"}, path : Paths, route : Routes \cup {NoRoute}]

TableTypes ==
    /\ registered \subseteq Routes
    /\ ignoreCase \in BOOLEAN
    /\ tire \in [Paths -> Routes \cup {NoRoute}]
    /\ calls \in Seq(Call)
    /\ \A i \in 1..Len(calls) : calls[i].route # NoRoute => calls[i].route \in registered

\* Call i has registered r for p, and no call since has undone that.
Stands(r, p) ==
    \E i \in 1..Len(calls) :
        /\ calls[i].route = r
        /\ same(calls[i].path, p)
        /\ \A j \in i + 1..Len(calls) : ~Undoes(j, p)

\* The tree has the routes that stand.
TableInv ==
    /\ TableTypes
    /\ \A p \in Paths, r \in Routes : tire[formatPath(p)] = r <=> Stands(r, p)

-----------------------------------------------------------------------------
(* Paths *)

\* The tree's keys are as the user understands paths.
LEMMA KeysAreSame ==
    ASSUME NEW p \in Paths, NEW q \in Paths
    PROVE  /\ formatPath(p) \in Paths
           /\ formatPath(p) = formatPath(q) <=> same(p, q)
  BY ConstantsAssumption DEF formatPath, same

\* A call of Remove clears the key of the paths that it undoes, and no other.
LEMMA RemovesUndo ==
    ASSUME NEW p \in Paths, NEW q \in Paths
    PROVE  /\ deleted(q) \in Paths
           /\ deleted(q) = formatPath(p) <=>
                  /\ same(q, p)
                  /\ ignoreCase /\ kind # "client" => Lower[q] = q
<1> USE ConstantsAssumption
<1>1. CASE kind = "client" \/ ~ignoreCase
  BY <1>1, KeysAreSame DEF deleted, formatPath
<1>2. CASE kind # "client" /\ ignoreCase
  <2>1. deleted(q) = q /\ formatPath(p) = Lower[p] /\ Lower[Lower[p]] = Lower[p]
    BY <1>2 DEF deleted, formatPath
  <2> QED
    BY <1>2, <2>1 DEF same
<1> QED
  BY <1>1, <1>2

-----------------------------------------------------------------------------
(* The table's steps *)

\* What a call that is appended to the history leaves standing.
LEMMA StandsAfter ==
    ASSUME TableTypes, NEW c \in Call, calls' = Append(calls, c),
           kind' = kind, ignoreCase' = ignoreCase, NEW r \in Routes, NEW p \in Paths
    PROVE  LET undone == /\ same(c.path, p)
                         /\ c.call = "Remove" /\ ignoreCase /\ kind # "client"
                                => Lower[c.path] = c.path
           IN  Stands(r, p)' <=> \/ c.route = r /\ same(c.path, p)
                                 \/ Stands(r, p) /\ ~undone
<1> DEFINE undone == /\ same(c.path, p)
                     /\ c.call = "Remove" /\ ignoreCase /\ kind # "client"
                            => Lower[c.path] = c.path
           Of(i) == calls[i].route = r /\ same(calls[i].path, p)
<1>1. PICK n \in Nat : n = Len(calls)
  BY DEF TableTypes
<1>2. /\ Len(calls') = n + 1 /\ calls'[n + 1] = c
      /\ \A i \in 1..n : calls'[i] = calls[i]
  BY <1>1 DEF TableTypes
<1>3. \A i \in 1..n : /\ Undoes(i, p)' <=> Undoes(i, p)
                      /\ Of(i)' <=> Of(i)
  BY <1>2 DEF Undoes, same
<1>4. /\ Undoes(n + 1, p)' <=> undone
      /\ Of(n + 1)' <=> c.route = r /\ same(c.path, p)
  BY <1>2 DEF Undoes, same
<1>5. Stands(r, p) <=> \E i \in 1..n : Of(i) /\ \A j \in i + 1..n : ~Undoes(j, p)
  BY <1>1 DEF Stands
<1>6. Stands(r, p)' <=>
          \E i \in 1..n + 1 : Of(i)' /\ \A j \in i + 1..n + 1 : ~Undoes(j, p)'
  BY <1>2 DEF Stands
<1> HIDE DEF undone, Of
<1>7. ASSUME NEW i \in 1..n + 1, Of(i)', \A j \in i + 1..n + 1 : ~Undoes(j, p)'
      PROVE  (c.route = r /\ same(c.path, p)) \/ (Stands(r, p) /\ ~undone)
  <2>1. CASE i = n + 1
    BY <1>4, <1>7, <2>1
  <2>2. CASE i \in 1..n
    <3>1. ~undone
      BY <1>4, <1>7, <2>2
    <3>2. \A j \in i + 1..n : ~Undoes(j, p)
      BY <1>3, <1>7, <2>2
    <3> QED
      BY <1>3, <1>5, <1>7, <2>2, <3>1, <3>2
  <2> QED
    BY <2>1, <2>2
<1>8. c.route = r /\ same(c.path, p) => Stands(r, p)'
  <2>1. n + 1 \in 1..n + 1 /\ \A j \in (n + 1) + 1..n + 1 : FALSE
    OBVIOUS
  <2> QED
    BY <1>4, <1>6, <2>1
<1>9. ASSUME NEW i \in 1..n, Of(i), \A j \in i + 1..n : ~Undoes(j, p), ~undone
      PROVE  Stands(r, p)'
  <2>1. ASSUME NEW j \in i + 1..n + 1 PROVE ~Undoes(j, p)'
    <3>1. CASE j = n + 1
      BY <1>4, <1>9, <3>1
    <3>2. CASE j \in 1..n
      BY <1>3, <1>9, <3>2
    <3> QED
      BY <3>1, <3>2
  <2>2. i \in 1..n + 1 /\ Of(i)'
    BY <1>3, <1>9
  <2> QED
    BY <1>6, <2>1, <2>2
<1> QED
  BY <1>5, <1>6, <1>7, <1>8, <1>9 DEF undone

\* Registering and removing keep the tree as the history says.
LEMMA TableStep ==
    ASSUME TableInv, [Next]_vars
    PROVE  TableInv'
<1> USE ConstantsAssumption DEF TableInv
<1>1. CASE UNCHANGED <<registered, tableVars>>
  <2>1. \A r \in Routes, p \in Paths : Stands(r, p)' <=> Stands(r, p)
    BY <1>1 DEF Stands, Undoes, same, tableVars
  <2>2. \A p \in Paths : formatPath(p)' = formatPath(p)
    BY <1>1 DEF formatPath, tableVars
  <2>3. TableTypes'
    BY <1>1 DEF TableTypes, tableVars
  <2> QED
    BY <1>1, <2>1, <2>2, <2>3 DEF tableVars
<1>2. ASSUME NEW r0 \in Routes, NEW p0 \in Paths, NEW m \in Methods, Handler(r0, p0, m)
      PROVE  TableInv'
  <2> DEFINE c == [call |-> "Handler", path |-> p0, route |-> r0]
  <2>1. /\ calls' = Append(calls, c) /\ registered' = registered \cup {r0}
        /\ tire' = [tire EXCEPT ![formatPath(p0)] = r0]
        /\ UNCHANGED <<kind, ignoreCase>>
    BY <1>2 DEF Handler
  <2>2. c \in Call /\ c.path = p0 /\ c.route = r0 /\ c.call = "Handler"
    BY DEF Call
  <2> HIDE DEF c
  <2>3. TableTypes'
    <3>1. formatPath(p0) \in Paths
      BY KeysAreSame
    <3>2. PICK n \in Nat : n = Len(calls)
      BY DEF TableTypes
    <3>3. /\ calls' \in Seq(Call) /\ Len(calls') = n + 1 /\ calls'[n + 1] = c
          /\ \A i \in 1..n : calls'[i] = calls[i]
      BY <2>1, <2>2, <3>2 DEF TableTypes
    <3>4. \A i \in 1..n + 1 : calls'[i].route # NoRoute => calls'[i].route \in registered'
      BY <2>1, <2>2, <3>2, <3>3 DEF TableTypes
    <3> QED
      BY <2>1, <3>1, <3>3, <3>4 DEF TableTypes
  <2>4. ASSUME NEW p \in Paths, NEW r \in Routes
        PROVE  tire'[formatPath(p)'] = r <=> Stands(r, p)'
    <3>1. Stands(r, p)' <=> \/ r0 = r /\ same(p0, p)
                            \/ Stands(r, p) /\ ~same(p0, p)
      BY <2>1, <2>2, StandsAfter
    <3>2. formatPath(p)' = formatPath(p)
      BY <2>1 DEF formatPath
    <3>3. tire'[formatPath(p)] = IF same(p0, p) THEN r0 ELSE tire[formatPath(p)]
      BY <2>1, KeysAreSame DEF TableTypes
    <3> QED
      BY <3>1, <3>2, <3>3
  <2> QED
    BY <2>3, <2>4
<1>3. ASSUME NEW p0 \in Paths, Remove(p0) PROVE TableInv'
  <2> DEFINE c == [call |-> "Remove", path |-> p0, route |-> NoRoute]
  <2>1. /\ calls' = Append(calls, c)
        /\ tire' = [tire EXCEPT ![deleted(p0)] = NoRoute]
        /\ UNCHANGED <<registered, kind, ignoreCase>>
    BY <1>3 DEF Remove, nodeVars
  <2>2. c \in Call /\ c.path = p0 /\ c.route = NoRoute /\ c.call = "Remove"
    BY DEF Call
  <2> HIDE DEF c
  <2>3. TableTypes'
    <3>1. deleted(p0) \in Paths
      BY RemovesUndo
    <3>2. PICK n \in Nat : n = Len(calls)
      BY DEF TableTypes
    <3>3. /\ calls' \in Seq(Call) /\ Len(calls') = n + 1 /\ calls'[n + 1] = c
          /\ \A i \in 1..n : calls'[i] = calls[i]
      BY <2>1, <2>2, <3>2 DEF TableTypes
    <3>4. \A i \in 1..n + 1 : calls'[i].route # NoRoute => calls'[i].route \in registered'
      BY <2>1, <2>2, <3>2, <3>3 DEF TableTypes
    <3> QED
      BY <2>1, <3>1, <3>3, <3>4 DEF TableTypes
  <2>4. ASSUME NEW p \in Paths, NEW r \in Routes
        PROVE  tire'[formatPath(p)'] = r <=> Stands(r, p)'
    <3> DEFINE undone == same(p0, p) /\ (ignoreCase /\ kind # "client" => Lower[p0] = p0)
    <3>1. Stands(r, p)' <=> Stands(r, p) /\ ~undone
      BY <2>1, <2>2, StandsAfter
    <3>2. formatPath(p)' = formatPath(p)
      BY <2>1 DEF formatPath
    <3>3. formatPath(p) \in Paths
      BY KeysAreSame
    <3>4. tire'[formatPath(p)] = IF undone THEN NoRoute ELSE tire[formatPath(p)]
      BY <2>1, <3>3, RemovesUndo DEF TableTypes
    <3> QED
      BY <3>1, <3>2, <3>4
  <2> QED
    BY <2>3, <2>4
<1>4. HookCalls => UNCHANGED <<registered, tableVars>>
  BY DEF HookCalls, SetGlobalBefore, GroupBefore, RouteBefore, SetMode, nodeVars
<1>5. UNCHANGED vars => UNCHANGED <<registered, tableVars>>
  BY DEF vars, nodeVars
<1> QED
  BY <1>1, <1>2, <1>3, <1>4, <1>5 DEF Next, RouteCalls

-----------------------------------------------------------------------------
(* Slices *)

Elems == Hooks \cup {NoHook}
Heaps == Seq(Seq(Elems))

\* A slice within its array.
In(h, s) ==
    /\ s \in [array : Nat, len : Nat]
    /\ s.array <= Len(h)
    /\ IF s.array = 0 THEN s.len = 0 ELSE s.len <= Len(h[s.array])

\* A slice and what it has.
Holds(h, s, xs) ==
    /\ s.len = Len(xs)
    /\ \A i \in 1..s.len : h[s.array][i] = xs[i]

\* From h to g, only array a was written to, behind its first n elements.
Keeps(h, g, a, n) ==
    /\ Len(g) >= Len(h)
    /\ \A k \in 1..Len(h) :
         /\ Len(g[k]) = Len(h[k])
         /\ \A i \in 1..Len(h[k]) : k # a \/ i <= n => g[k][i] = h[k][i]

\* Slices of different arrays; Nil is one of none.
Differ(s, t) == s.array # t.array \/ s.array = 0

\* growslice allocates what is needed at least.
LEMMA GrownEnough ==
    ASSUME NEW old \in Nat, NEW needed \in Nat
    PROVE  grown(old, needed) \in Nat /\ grown(old, needed) >= needed
  BY DEF grown

\* What a write into an array leaves as it is.
LEMMA WritesKeep ==
    ASSUME NEW h \in Heaps, NEW k \in 1..Len(h), NEW n \in Nat, NEW arr \in Seq(Elems),
           Len(arr) = Len(h[k]), \A i \in 1..Len(arr) : i <= n => arr[i] = h[k][i]
    PROVE  LET g == [h EXCEPT ![k] = arr]
           IN  g \in Heaps /\ Len(g) = Len(h) /\ g[k] = arr /\ Keeps(h, g, k, n)
<1> DEFINE g == [h EXCEPT ![k] = arr]
<1>1. g \in Heaps /\ Len(g) = Len(h) /\ g[k] = arr
      /\ \A j \in 1..Len(h) : j # k => g[j] = h[j]
  BY DEF Heaps
<1> HIDE DEF g
<1>2. Keeps(h, g, k, n)
  <2>1. Len(g) >= Len(h)
    BY <1>1 DEF Heaps
  <2>2. ASSUME NEW j \in 1..Len(h)
        PROVE  /\ Len(g[j]) = Len(h[j])
               /\ \A i \in 1..Len(h[j]) : j # k \/ i <= n => g[j][i] = h[j][i]
    BY <1>1
  <2> QED
    BY <2>1, <2>2 DEF Keeps
<1> QED
  BY <1>1, <1>2 DEF g

\* An array that is new leaves the others as they are.
LEMMA AllocatesKeep ==
    ASSUME NEW h \in Heaps, NEW arr \in Seq(Elems)
    PROVE  LET g == Append(h, arr)
           IN  /\ g \in Heaps /\ Len(g) = Len(h) + 1 /\ g[Len(h) + 1] = arr
               /\ \A k, n : Keeps(h, g, k, n)
  BY DEF Heaps, Keeps

\* append writes behind the slice in its own array, or allocates another, and has
\* what the slice had and then what was appended.
LEMMA AppendDoes ==
    ASSUME NEW h \in Heaps, NEW s, In(h, s), NEW xs \in Seq(Elems)
    PROVE  LET a == append(h, s, xs)
           IN  /\ a.heap \in Heaps
               /\ In(a.heap, a.slice)
               /\ Keeps(h, a.heap, s.array, s.len)
               /\ \/ a.slice.array = s.array
                  \/ a.slice.array = Len(h) + 1
               /\ a.slice.len = s.len + Len(xs)
               /\ \A i \in 1..s.len : a.heap[a.slice.array][i] = h[s.array][i]
               /\ \A i \in 1..Len(xs) : a.heap[a.slice.array][s.len + i] = xs[i]
<1> DEFINE a == append(h, s, xs)
           Does(g, t) ==
              /\ g \in Heaps
              /\ In(g, t)
              /\ Keeps(h, g, s.array, s.len)
              /\ \/ t.array = s.array
                 \/ t.array = Len(h) + 1
              /\ t.len = s.len + Len(xs)
              /\ \A i \in 1..s.len : g[t.array][i] = h[s.array][i]
              /\ \A i \in 1..Len(xs) : g[t.array][s.len + i] = xs[i]
<1>1. PICK A \in Nat, L \in Nat : s = [array |-> A, len |-> L]
  BY DEF In
<1>2. PICK n \in Nat : n = L + Len(xs)
  OBVIOUS
<1>3. PICK c \in Nat : c = IF A = 0 THEN 0 ELSE Len(h[A])
  BY <1>1 DEF In, Heaps
<1>4. /\ s.array = A /\ s.len = L /\ L <= c /\ A <= Len(h) /\ Len(h) \in Nat
      /\ A = 0 => L = 0 /\ c = 0
      /\ A # 0 => A \in 1..Len(h) /\ h[A] \in Seq(Elems) /\ Len(h[A]) = c
  BY <1>1, <1>3 DEF In, Heaps
<1> DEFINE Result(g, t) == a = [heap |-> g, slice |-> t] /\ Does(g, t)
<1>5. ASSUME n <= c, xs = <<>> PROVE \E g, t : Result(g, t)
  <2>1. a = [heap |-> h, slice |-> [array |-> A, len |-> n]]
    BY <1>1, <1>2, <1>3, <1>4, <1>5 DEF append
  <2>2. n = L
    BY <1>2, <1>5
  <2>3. Keeps(h, h, A, L)
    BY DEF Keeps, Heaps
  <2>4. Does(h, s)
    BY <1>1, <1>4, <1>5, <2>3
  <2> QED
    BY <1>1, <2>1, <2>2, <2>4
<1>6. ASSUME n <= c, xs # <<>> PROVE \E g, t : Result(g, t)
  <2> DEFINE arr == [i \in 1..c |-> IF i \in L + 1..n THEN xs[i - L] ELSE h[A][i]]
             g == [h EXCEPT ![A] = arr]
             t == [array |-> A, len |-> n]
  <2>1. a = [heap |-> g, slice |-> t]
    BY <1>1, <1>2, <1>3, <1>4, <1>6 DEF append
  <2>2. A \in 1..Len(h) /\ Len(h[A]) = c
    BY <1>2, <1>4, <1>6
  <2>3. arr \in Seq(Elems) /\ Len(arr) = c
    <3>1. ASSUME NEW i \in 1..c PROVE arr[i] \in Elems
      BY <1>2, <1>4, <2>2
    <3> QED
      BY <3>1, IsASeq
  <2>4. \A i \in 1..c : arr[i] = IF i \in L + 1..n THEN xs[i - L] ELSE h[A][i]
    OBVIOUS
  <2> HIDE DEF arr
  <2>5. \A i \in 1..c : i <= L => arr[i] = h[A][i]
    BY <2>4
  <2>6. ASSUME NEW i \in 1..Len(xs) PROVE arr[L + i] = xs[i]
    <3>1. L + i \in 1..c /\ L + i \in L + 1..n /\ (L + i) - L = i
      BY <1>2, <1>6
    <3>2. arr[L + i] = xs[(L + i) - L]
      BY <2>4, <3>1
    <3> QED
      BY <3>1, <3>2
  <2>7. g \in Heaps /\ Len(g) = Len(h) /\ g[A] = arr /\ Keeps(h, g, A, L)
    BY <2>2, <2>3, <2>5, WritesKeep
  <2> HIDE DEF g
  <2>8. In(g, t)
    BY <1>6, <2>2, <2>3, <2>7 DEF In
  <2>9. \A i \in 1..L : g[A][i] = h[A][i]
    BY <1>4, <2>5, <2>7
  <2>10. Does(g, t)
    BY <1>2, <1>4, <2>6, <2>7, <2>8, <2>9
  <2> QED
    BY <2>1, <2>10
<1>7. ASSUME n > c PROVE \E g, t : Result(g, t)
  <2>1. PICK m \in Nat : m = grown(c, n) /\ m >= n
    BY GrownEnough
  <2> DEFINE arr == [i \in 1..m |-> IF i <= L THEN h[A][i]
                                    ELSE IF i <= n THEN xs[i - L] ELSE NoHook]
             g == Append(h, arr)
             t == [array |-> Len(h) + 1, len |-> n]
  <2>2. a = [heap |-> g, slice |-> t]
    BY <1>1, <1>2, <1>3, <1>4, <1>7, <2>1 DEF append
  <2>3. arr \in Seq(Elems) /\ Len(arr) = m
    <3>1. ASSUME NEW i \in 1..m PROVE arr[i] \in Elems
      BY <1>2, <1>4 DEF Elems
    <3> QED
      BY <3>1, IsASeq
  <2>4. \A i \in 1..m : arr[i] = IF i <= L THEN h[A][i]
                                 ELSE IF i <= n THEN xs[i - L] ELSE NoHook
    OBVIOUS
  <2> HIDE DEF arr
  <2>5. \A i \in 1..L : arr[i] = h[A][i]
    BY <1>2, <2>1, <2>4
  <2>6. ASSUME NEW i \in 1..Len(xs) PROVE arr[L + i] = xs[i]
    <3>1. L + i \in 1..m /\ ~(L + i <= L) /\ L + i <= n /\ (L + i) - L = i
      BY <1>2, <2>1
    <3>2. arr[L + i] = xs[(L + i) - L]
      BY <2>4, <3>1
    <3> QED
      BY <3>1, <3>2
  <2>7. g \in Heaps /\ Len(g) = Len(h) + 1 /\ g[Len(h) + 1] = arr /\ Keeps(h, g, A, L)
    BY <2>3, AllocatesKeep
  <2> HIDE DEF g
  <2>8. In(g, t)
    BY <1>4, <2>1, <2>3, <2>7 DEF In
  <2>9. Does(g, t)
    BY <1>2, <1>4, <2>5, <2>6, <2>7, <2>8
  <2> QED
    BY <2>2, <2>9
<1>8. PICK g, t : Result(g, t)
  BY <1>5, <1>6, <1>7
<1>9. a.heap = g /\ a.slice = t
  BY <1>8
<1> QED
  BY <1>8, <1>9

\* The same, of the sequences that slices stand for.
LEMMA AppendHolds ==
    ASSUME NEW h \in Heaps, NEW s, In(h, s), NEW xs \in Seq(Elems), NEW ys \in Seq(Elems),
           Holds(h, s, ys)
    PROVE  LET a == append(h, s, xs) IN Holds(a.heap, a.slice, ys \o xs)
<1> DEFINE a == append(h, s, xs)
<1>1. /\ a.slice.len = s.len + Len(xs)
      /\ \A i \in 1..s.len : a.heap[a.slice.array][i] = h[s.array][i]
      /\ \A i \in 1..Len(xs) : a.heap[a.slice.array][s.len + i] = xs[i]
  BY AppendDoes
<1> HIDE DEF a
<1>2. PICK m \in Nat, n \in Nat : m = Len(ys) /\ n = Len(xs)
  OBVIOUS
<1>3. s.len = m /\ \A i \in 1..m : h[s.array][i] = ys[i]
  BY <1>2 DEF Holds
<1>4. /\ Len(ys \o xs) = m + n
      /\ \A i \in 1..m + n : (ys \o xs)[i] = IF i <= m THEN ys[i] ELSE xs[i - m]
  BY <1>2, ConcatProperties
<1>5. ASSUME NEW i \in 1..m + n PROVE a.heap[a.slice.array][i] = (ys \o xs)[i]
  <2>1. CASE i <= m
    BY <1>1, <1>3, <1>4, <2>1
  <2>2. CASE i > m
    <3>1. i - m \in 1..n /\ m + (i - m) = i
      BY <2>2
    <3>2. a.heap[a.slice.array][m + (i - m)] = xs[i - m]
      BY <1>1, <1>2, <1>3, <3>1
    <3> QED
      BY <1>4, <2>2, <3>1, <3>2
  <2>3. i <= m \/ i > m
    OBVIOUS
  <2> QED
    BY <2>1, <2>2, <2>3
<1> QED
  BY <1>1, <1>2, <1>3, <1>4, <1>5 DEF Holds, a

\* A slice has its content.
LEMMA ContentHolds ==
    ASSUME heap \in Heaps, NEW s, In(heap, s)
    PROVE  content(s) \in Seq(Elems) /\ Holds(heap, s, content(s))
<1>1. CASE s.array = 0
  BY <1>1 DEF In, content, Holds
<1>2. CASE s.array # 0
  <2>1. PICK A \in 1..Len(heap), L \in Nat : s.array = A /\ s.len = L /\ L <= Len(heap[A])
    BY <1>2 DEF In, Heaps
  <2>2. heap[A] \in Seq(Elems)
    BY DEF Heaps
  <2>3. content(s) = SubSeq(heap[A], 1, L)
    BY <1>2, <2>1 DEF content
  <2>4. /\ SubSeq(heap[A], 1, L) \in Seq(Elems)
        /\ Len(SubSeq(heap[A], 1, L)) = L
        /\ \A i \in 1..L : SubSeq(heap[A], 1, L)[i] = heap[A][i]
    BY <2>1, <2>2
  <2> QED
    BY <2>1, <2>3, <2>4 DEF Holds
<1> QED
  BY <1>1, <1>2

\* A slice in another array than the one written to, or whose elements come before
\* what was written, has what it had.
LEMMA KeepsHold ==
    ASSUME NEW h \in Heaps, NEW g \in Heaps, NEW a, NEW n \in Nat, Keeps(h, g, a, n),
           NEW s, In(h, s)
    PROVE  /\ In(g, s)
           /\ \A i \in 1..s.len : s.array # a \/ i <= n => g[s.array][i] = h[s.array][i]
           /\ \A xs : Holds(h, s, xs) /\ (s.array # a \/ s.array = 0) => Holds(g, s, xs)
<1>1. PICK A \in Nat, L \in Nat : s.array = A /\ s.len = L
  BY DEF In
<1>2. CASE A = 0
  BY <1>1, <1>2 DEF In, Holds, Heaps
<1>3. CASE A # 0
  <2>1. A \in 1..Len(h) /\ L <= Len(h[A]) /\ A <= Len(g)
    BY <1>1, <1>3 DEF In, Keeps, Heaps
  <2>2. Len(g[A]) = Len(h[A]) /\ \A i \in 1..Len(h[A]) : A # a \/ i <= n => g[A][i] = h[A][i]
    BY <2>1 DEF Keeps
  <2>3. Len(h[A]) \in Nat
    BY <2>1 DEF Heaps
  <2>4. \A i \in 1..L : i \in 1..Len(h[A])
    BY <2>1, <2>3
  <2> QED
    BY <1>1, <1>3, <2>1, <2>2, <2>3, <2>4 DEF In, Holds
<1> QED
  BY <1>2, <1>3

-----------------------------------------------------------------------------
(* Whose array is whose *)

Slice == [array : Nat, len : Nat]

HeapTypes ==
    /\ heap \in Heaps
    /\ registered \subseteq Routes
    /\ mode \in [Routes -> {"plain", "pass", "force"}]
    /\ routeBefore \in [Routes -> Slice] /\ nodeBefore \in [Routes -> Slice]
    /\ want \in [Routes -> Seq(Elems)] /\ keep \in [Routes -> Nat]

\* All slices are within their arrays.
AllIn ==
    /\ In(heap, globalBefore) /\ In(heap, groupBefore)
    /\ \A r \in Routes : In(heap, routeBefore[r]) /\ In(heap, nodeBefore[r])

\* The slices that append is still called for have arrays of their own.
Apart ==
    /\ Differ(groupBefore, globalBefore) /\ Differ(globalBefore, groupBefore)
    /\ \A r \in Routes \ registered :
         /\ Differ(routeBefore[r], groupBefore) /\ Differ(groupBefore, routeBefore[r])
         /\ Differ(routeBefore[r], globalBefore) /\ Differ(globalBefore, routeBefore[r])
         /\ \A q \in Routes \ registered : q # r => Differ(routeBefore[r], routeBefore[q])

\* A node shares its array with none of them but the group's slice, and with that
\* no more than the elements it is sure of.
NodesApart ==
    \A r \in registered :
        /\ Differ(nodeBefore[r], globalBefore)
        /\ \A q \in Routes \ registered : Differ(nodeBefore[r], routeBefore[q])
        /\ ~Differ(nodeBefore[r], groupBefore) => keep[r] <= groupBefore.len

NodesKept ==
    \A r \in registered :
        /\ nodeBefore[r].len = Len(want[r])
        /\ \A i \in 1..nodeBefore[r].len :
             i <= keep[r] => heap[nodeBefore[r].array][i] = want[r][i]

HeapInv == HeapTypes /\ AllIn /\ Apart /\ NodesApart /\ NodesKept

\* What a write to one of these slices leaves as it was.
LEMMA WriteKeeps ==
    ASSUME HeapInv, NEW w, In(heap, w), NEW g \in Heaps, Keeps(heap, g, w.array, w.len)
    PROVE  /\ In(g, globalBefore) /\ In(g, groupBefore)
           /\ \A r \in Routes : In(g, routeBefore[r]) /\ In(g, nodeBefore[r])
           /\ \A r \in registered, i \in Nat \ {0} :
                /\ i <= nodeBefore[r].len
                /\ Differ(nodeBefore[r], w) \/ i <= w.len
                => g[nodeBefore[r].array][i] = heap[nodeBefore[r].array][i]
<1>1. w.len \in Nat /\ heap \in Heaps
  BY DEF In, HeapInv, HeapTypes
<1>2. In(g, globalBefore) /\ In(g, groupBefore)
  BY <1>1, KeepsHold DEF HeapInv, AllIn
<1>3. ASSUME NEW r \in Routes PROVE In(g, routeBefore[r]) /\ In(g, nodeBefore[r])
  BY <1>1, KeepsHold DEF HeapInv, AllIn
<1>4. ASSUME NEW r \in registered, NEW i \in Nat \ {0}, i <= nodeBefore[r].len,
             Differ(nodeBefore[r], w) \/ i <= w.len
      PROVE  g[nodeBefore[r].array][i] = heap[nodeBefore[r].array][i]
  <2>1. In(heap, nodeBefore[r])
    BY DEF HeapInv, HeapTypes, AllIn
  <2>2. i \in 1..nodeBefore[r].len /\ nodeBefore[r].array # 0
    BY <1>4, <2>1 DEF In
  <2> QED
    BY <1>1, <1>4, <2>1, <2>2, KeepsHold DEF Differ
<1> QED
  BY <1>2, <1>3, <1>4

\* The array that append returns for a slice is that of no other slice, if it was not.
LEMMA StaysApart ==
    ASSUME NEW h \in Heaps, NEW s, NEW t, NEW u, In(h, s), In(h, t),
           u.array = s.array \/ u.array = Len(h) + 1
    PROVE  /\ Differ(s, t) => Differ(u, t)
           /\ Differ(t, s) => Differ(t, u)
           /\ ~Differ(t, u) => ~Differ(t, s) /\ u.array = s.array
<1>1. Len(h) \in Nat /\ t.array \in Nat /\ t.array <= Len(h) /\ s.array \in Nat /\ s.array <= Len(h)
  BY DEF In, Heaps
<1> QED
  BY <1>1 DEF Differ

\* What an append to one of these slices does to the nodes and to the slices.
LEMMA AppendKeeps ==
    ASSUME HeapInv, NEW w, In(heap, w), NEW xs \in Seq(Elems)
    PROVE  LET a == append(heap, w, xs)
           IN  /\ a.heap \in Heaps
               /\ In(a.heap, a.slice) /\ a.slice \in Slice
               /\ a.slice.len >= w.len
               /\ a.slice.array = w.array \/ a.slice.array = Len(heap) + 1
               /\ In(a.heap, globalBefore) /\ In(a.heap, groupBefore)
               /\ \A r \in Routes : In(a.heap, routeBefore[r]) /\ In(a.heap, nodeBefore[r])
               /\ \A r \in registered, i \in Nat \ {0} :
                    /\ i <= nodeBefore[r].len
                    /\ Differ(nodeBefore[r], w) \/ i <= w.len
                    => a.heap[nodeBefore[r].array][i] = heap[nodeBefore[r].array][i]
<1> DEFINE a == append(heap, w, xs)
<1>1. heap \in Heaps /\ w.len \in Nat /\ Len(xs) \in Nat
  BY DEF HeapInv, HeapTypes, In
<1>2. /\ a.heap \in Heaps
      /\ In(a.heap, a.slice)
      /\ Keeps(heap, a.heap, w.array, w.len)
      /\ a.slice.array = w.array \/ a.slice.array = Len(heap) + 1
      /\ a.slice.len = w.len + Len(xs)
  BY <1>1, AppendDoes
<1> HIDE DEF a
<1>3. a.slice \in Slice /\ a.slice.len >= w.len
  BY <1>1, <1>2 DEF In, Slice
<1>4. /\ In(a.heap, globalBefore) /\ In(a.heap, groupBefore)
      /\ \A r \in Routes : In(a.heap, routeBefore[r]) /\ In(a.heap, nodeBefore[r])
      /\ \A r \in registered, i \in Nat \ {0} :
           /\ i <= nodeBefore[r].len
           /\ Differ(nodeBefore[r], w) \/ i <= w.len
           => a.heap[nodeBefore[r].array][i] = heap[nodeBefore[r].array][i]
  BY <1>2, WriteKeeps
<1> QED
  BY <1>2, <1>3, <1>4 DEF a

\* The router's slice has an array of its own.
LEMMA SetGlobalBeforeKeeps ==
    ASSUME HeapInv, NEW xs \in Seq(Elems), SetGlobalBefore(xs)
    PROVE  HeapInv'
<1> DEFINE w == globalBefore
           a == append(heap, w, xs)
<1>1. /\ heap' = a.heap /\ globalBefore' = a.slice
      /\ UNCHANGED <<groupBefore, routeBefore, mode, nodeBefore, registered, want, keep>>
  BY DEF SetGlobalBefore, nodeVars
<1>2. In(heap, w) /\ heap \in Heaps
  BY DEF HeapInv, HeapTypes, AllIn
<1>3. /\ a.heap \in Heaps
      /\ In(a.heap, a.slice) /\ a.slice \in Slice
      /\ a.slice.array = w.array \/ a.slice.array = Len(heap) + 1
      /\ In(a.heap, groupBefore)
      /\ \A r \in Routes : In(a.heap, routeBefore[r]) /\ In(a.heap, nodeBefore[r])
      /\ \A r \in registered, i \in Nat \ {0} :
           /\ i <= nodeBefore[r].len
           /\ Differ(nodeBefore[r], w) \/ i <= w.len
           => a.heap[nodeBefore[r].array][i] = heap[nodeBefore[r].array][i]
  BY <1>2, AppendKeeps
<1> HIDE DEF a
<1>4. ASSUME NEW t, In(heap, t)
      PROVE  /\ Differ(w, t) => Differ(a.slice, t)
             /\ Differ(t, w) => Differ(t, a.slice)
  BY <1>2, <1>3, <1>4, StaysApart
<1>5. HeapTypes' /\ AllIn'
  BY <1>1, <1>3 DEF HeapInv, HeapTypes, AllIn
<1>6. Apart'
  BY <1>1, <1>4 DEF HeapInv, Apart, AllIn
<1>7. NodesApart'
  BY <1>1, <1>4 DEF HeapInv, NodesApart, AllIn, HeapTypes
<1>8. NodesKept'
  <2> SUFFICES ASSUME NEW r \in registered
               PROVE  /\ nodeBefore[r].len = Len(want[r])
                      /\ \A i \in 1..nodeBefore[r].len :
                           i <= keep[r] => a.heap[nodeBefore[r].array][i] = want[r][i]
    BY <1>1 DEF NodesKept
  <2>1. Differ(nodeBefore[r], w) /\ nodeBefore[r].len \in Nat
    BY DEF HeapInv, NodesApart, HeapTypes, Slice
  <2> QED
    BY <1>3, <2>1 DEF HeapInv, NodesKept
<1> QED
  BY <1>5, <1>6, <1>7, <1>8 DEF HeapInv

\* The group's slice grows in the array that nodes share with it, behind what they
\* are sure of, or into another.
LEMMA GroupBeforeKeeps ==
    ASSUME HeapInv, NEW xs \in Seq(Elems), GroupBefore(xs)
    PROVE  HeapInv'
<1> DEFINE w == groupBefore
           a == append(heap, w, xs)
<1>1. /\ heap' = a.heap /\ groupBefore' = a.slice
      /\ UNCHANGED <<globalBefore, routeBefore, mode, nodeBefore, registered, want, keep>>
  BY DEF GroupBefore, nodeVars
<1>2. In(heap, w) /\ heap \in Heaps
  BY DEF HeapInv, HeapTypes, AllIn
<1>3. /\ a.heap \in Heaps
      /\ In(a.heap, a.slice) /\ a.slice \in Slice
      /\ a.slice.len >= w.len
      /\ a.slice.array = w.array \/ a.slice.array = Len(heap) + 1
      /\ In(a.heap, globalBefore)
      /\ \A r \in Routes : In(a.heap, routeBefore[r]) /\ In(a.heap, nodeBefore[r])
      /\ \A r \in registered, i \in Nat \ {0} :
           /\ i <= nodeBefore[r].len
           /\ Differ(nodeBefore[r], w) \/ i <= w.len
           => a.heap[nodeBefore[r].array][i] = heap[nodeBefore[r].array][i]
  BY <1>2, AppendKeeps
<1> HIDE DEF a
<1>4. ASSUME NEW t, In(heap, t)
      PROVE  /\ Differ(w, t) => Differ(a.slice, t)
             /\ Differ(t, w) => Differ(t, a.slice)
  BY <1>2, <1>3, <1>4, StaysApart
<1>5. HeapTypes' /\ AllIn'
  BY <1>1, <1>3 DEF HeapInv, HeapTypes, AllIn
<1>6. Apart'
  BY <1>1, <1>4 DEF HeapInv, Apart, AllIn
<1>7. NodesApart'
  <2>1. ASSUME NEW r \in registered, ~Differ(nodeBefore[r], a.slice)
        PROVE  keep[r] <= a.slice.len
    <3>1. ~Differ(nodeBefore[r], w)
      BY <1>4, <2>1 DEF HeapInv, HeapTypes, AllIn
    <3>2. keep[r] \in Nat /\ w.len \in Nat /\ a.slice.len \in Nat /\ keep[r] <= w.len
      BY <1>2, <1>3, <3>1 DEF HeapInv, HeapTypes, NodesApart, Slice, In
    <3> QED
      BY <1>3, <3>2
  <2> QED
    BY <1>1, <2>1 DEF HeapInv, NodesApart
<1>8. NodesKept'
  <2> SUFFICES ASSUME NEW r \in registered
               PROVE  /\ nodeBefore[r].len = Len(want[r])
                      /\ \A i \in 1..nodeBefore[r].len :
                           i <= keep[r] => a.heap[nodeBefore[r].array][i] = want[r][i]
    BY <1>1 DEF NodesKept
  <2>1. /\ nodeBefore[r].len \in Nat /\ keep[r] \in Nat /\ w.len \in Nat
        /\ Differ(nodeBefore[r], w) \/ keep[r] <= w.len
    BY <1>2 DEF HeapInv, NodesApart, HeapTypes, Slice, In
  <2>2. ASSUME NEW i \in 1..nodeBefore[r].len, i <= keep[r]
        PROVE  a.heap[nodeBefore[r].array][i] = want[r][i]
    <3>1. Differ(nodeBefore[r], w) \/ i <= w.len
      BY <2>1, <2>2
    <3> QED
      BY <1>3, <2>1, <2>2, <3>1 DEF HeapInv, NodesKept
  <2> QED
    BY <2>2 DEF HeapInv, NodesKept
<1> QED
  BY <1>5, <1>6, <1>7, <1>8 DEF HeapInv

\* A route that is not registered yet has an array of its own.
LEMMA RouteBeforeKeeps ==
    ASSUME HeapInv, NEW p \in Routes, NEW xs \in Seq(Elems), RouteBefore(p, xs)
    PROVE  HeapInv'
<1> DEFINE w == routeBefore[p]
           a == append(heap, w, xs)
<1>1. /\ p \notin registered
      /\ heap' = a.heap /\ routeBefore' = [routeBefore EXCEPT ![p] = a.slice]
      /\ UNCHANGED <<globalBefore, groupBefore, mode, nodeBefore, registered, want, keep>>
  BY DEF RouteBefore, nodeVars
<1>2. In(heap, w) /\ heap \in Heaps
  BY DEF HeapInv, HeapTypes, AllIn
<1>3. /\ a.heap \in Heaps
      /\ In(a.heap, a.slice) /\ a.slice \in Slice
      /\ a.slice.array = w.array \/ a.slice.array = Len(heap) + 1
      /\ In(a.heap, globalBefore) /\ In(a.heap, groupBefore)
      /\ \A r \in Routes : In(a.heap, routeBefore[r]) /\ In(a.heap, nodeBefore[r])
      /\ \A r \in registered, i \in Nat \ {0} :
           /\ i <= nodeBefore[r].len
           /\ Differ(nodeBefore[r], w) \/ i <= w.len
           => a.heap[nodeBefore[r].array][i] = heap[nodeBefore[r].array][i]
  BY <1>2, AppendKeeps
<1> HIDE DEF a
<1>4. ASSUME NEW t, In(heap, t)
      PROVE  /\ Differ(w, t) => Differ(a.slice, t)
             /\ Differ(t, w) => Differ(t, a.slice)
  BY <1>2, <1>3, <1>4, StaysApart
<1>5. /\ routeBefore'[p] = a.slice
      /\ \A r \in Routes : r # p => routeBefore'[r] = routeBefore[r]
  BY <1>1 DEF HeapInv, HeapTypes
<1>6. HeapTypes' /\ AllIn'
  BY <1>1, <1>3, <1>5 DEF HeapInv, HeapTypes, AllIn
<1>7. Apart'
  <2>1. ASSUME NEW r \in Routes \ registered, NEW q \in Routes \ registered, q # r
        PROVE  Differ(routeBefore'[r], routeBefore'[q])
    BY <1>1, <1>4, <1>5, <2>1 DEF HeapInv, Apart, AllIn
  <2>2. ASSUME NEW r \in Routes \ registered, NEW t \in {groupBefore, globalBefore}
        PROVE  Differ(routeBefore'[r], t) /\ Differ(t, routeBefore'[r])
    BY <1>1, <1>4, <1>5 DEF HeapInv, Apart, AllIn
  <2> QED
    BY <1>1, <2>1, <2>2 DEF HeapInv, Apart
<1>8. NodesApart'
  <2>1. ASSUME NEW r \in registered, NEW q \in Routes \ registered
        PROVE  Differ(nodeBefore[r], routeBefore'[q])
    BY <1>1, <1>4, <1>5 DEF HeapInv, NodesApart, AllIn, HeapTypes
  <2> QED
    BY <1>1, <2>1 DEF HeapInv, NodesApart
<1>9. NodesKept'
  <2> SUFFICES ASSUME NEW r \in registered
               PROVE  /\ nodeBefore[r].len = Len(want[r])
                      /\ \A i \in 1..nodeBefore[r].len :
                           i <= keep[r] => a.heap[nodeBefore[r].array][i] = want[r][i]
    BY <1>1 DEF NodesKept
  <2>1. Differ(nodeBefore[r], w) /\ nodeBefore[r].len \in Nat
    BY <1>1 DEF HeapInv, NodesApart, HeapTypes, Slice
  <2> QED
    BY <1>3, <2>1 DEF HeapInv, NodesKept
<1> QED
  BY <1>6, <1>7, <1>8, <1>9 DEF HeapInv

\* Handler appends twice: the route's hooks to the group's, in the group's array if
\* that has room, whether or not the route wants them; then the router's.
LEMMA HandlerKeeps ==
    ASSUME HeapInv, NEW r \in Routes, NEW p, NEW m, Handler(r, p, m)
    PROVE  HeapInv'
<1> DEFINE x == content(routeBefore[r])
           y == content(globalBefore)
           z == content(groupBefore)
           j == joined(heap, r)
           own == CASE mode[r] = "plain" -> j.slice
                    [] mode[r] = "pass" -> passed(j.slice)
                    [] mode[r] = "force" -> routeBefore[r]
           ys == CASE mode[r] = "plain" -> z \o x
                   [] mode[r] = "pass" -> <<>>
                   [] mode[r] = "force" -> x
           a == append(j.heap, own, y)
<1> USE DEF HeapInv
<1>1. /\ r \notin registered /\ registered' = registered \cup {r}
      /\ heap' = a.heap
      /\ nodeBefore' = [nodeBefore EXCEPT ![r] = a.slice]
      /\ keep' = [keep EXCEPT ![r] =
                    IF a.slice.array # 0 /\ a.slice.array = groupBefore.array
                    THEN groupBefore.len ELSE a.slice.len]
      /\ UNCHANGED <<globalBefore, groupBefore, routeBefore, mode>>
  BY DEF Handler, hookVars
<1>2. want' = [want EXCEPT ![r] = ys \o y]
  <2>1. mode[r] \in {"plain", "pass", "force"}
    BY DEF HeapTypes
  <2>2. y \in Seq(Elems)
    BY ContentHolds DEF HeapTypes, AllIn
  <2>3. <<>> \o y = y
    BY <2>2, ConcatEmptySeq
  <2>4. CASE mode[r] = "plain"
    BY <2>4 DEF Handler
  <2>5. CASE mode[r] = "pass"
    BY <2>3, <2>5 DEF Handler
  <2>6. CASE mode[r] = "force"
    BY <2>6 DEF Handler
  <2> QED
    BY <2>1, <2>4, <2>5, <2>6
<1>3. /\ heap \in Heaps /\ Len(heap) \in Nat
      /\ In(heap, groupBefore) /\ In(heap, globalBefore) /\ In(heap, routeBefore[r])
      /\ x \in Seq(Elems) /\ y \in Seq(Elems) /\ z \in Seq(Elems)
      /\ Holds(heap, groupBefore, z) /\ Holds(heap, routeBefore[r], x)
  BY ContentHolds DEF HeapTypes, AllIn, Heaps
<1> HIDE DEF x, y, z
\* The first append.
<1>4. /\ j.heap \in Heaps /\ Len(j.heap) \in Nat /\ Len(j.heap) >= Len(heap)
      /\ In(j.heap, j.slice)
      /\ Keeps(heap, j.heap, groupBefore.array, groupBefore.len)
      /\ j.slice.array = groupBefore.array \/ j.slice.array = Len(heap) + 1
      /\ j.slice.len >= groupBefore.len
      /\ Holds(j.heap, j.slice, z \o x)
  <2>1. j = append(heap, groupBefore, x)
    BY DEF joined, x
  <2> HIDE DEF j
  <2>2. groupBefore.len \in Nat /\ Len(x) \in Nat
    BY <1>3 DEF In
  <2> QED
    <3>1. Holds(j.heap, j.slice, z \o x)
      BY <1>3, <2>1, AppendHolds
    <3>2. /\ j.heap \in Heaps
          /\ In(j.heap, j.slice)
          /\ Keeps(heap, j.heap, groupBefore.array, groupBefore.len)
          /\ j.slice.array = groupBefore.array \/ j.slice.array = Len(heap) + 1
          /\ j.slice.len = groupBefore.len + Len(x)
      BY <1>3, <2>1, AppendDoes
    <3>3. j.slice.len >= groupBefore.len
      BY <2>2, <3>2
    <3>4. Len(j.heap) \in Nat /\ Len(j.heap) >= Len(heap)
      BY <3>2 DEF Heaps, Keeps
    <3> QED
      BY <3>1, <3>2, <3>3, <3>4
<1> HIDE DEF j
\* The slice that the second appends to: a part of no slice of others but the group's.
<1>5. /\ In(j.heap, own) /\ ys \in Seq(Elems) /\ Holds(j.heap, own, ys)
      /\ \/ own.array \in {0, Len(heap) + 1}
         \/ own.array = groupBefore.array /\ own.len >= groupBefore.len
         \/ own.array = routeBefore[r].array
  <2>1. CASE mode[r] = "plain"
    BY <1>3, <1>4, <2>1
  <2>2. CASE mode[r] = "pass"
    <3>1. own = Nil /\ ys = <<>>
      BY <2>2 DEF passed
    <3>2. Nil.array = 0 /\ Nil.len = 0 /\ Nil \in [array : Nat, len : Nat]
      BY DEF Nil
    <3> HIDE DEF own, ys
    <3> QED
      BY <1>4, <3>1, <3>2 DEF In, Holds
  <2>3. CASE mode[r] = "force"
    <3>1. own = routeBefore[r] /\ ys = x
      BY <2>3
    <3> HIDE DEF own, ys
    <3>2. Differ(routeBefore[r], groupBefore) /\ groupBefore.len \in Nat
      BY <1>1, <1>3 DEF Apart, In
    <3> QED
      BY <1>3, <1>4, <3>1, <3>2, KeepsHold DEF Differ
  <2>4. mode[r] \in {"plain", "pass", "force"}
    BY DEF HeapTypes
  <2> QED
    BY <2>1, <2>2, <2>3, <2>4
<1> HIDE DEF own, ys
\* The second append.
<1>6. /\ a.heap \in Heaps
      /\ In(a.heap, a.slice) /\ a.slice \in Slice
      /\ Keeps(j.heap, a.heap, own.array, own.len)
      /\ a.slice.array = own.array \/ a.slice.array = Len(j.heap) + 1
      /\ Holds(a.heap, a.slice, ys \o y)
      /\ own.len \in Nat /\ own.array \in Nat
  <2>1. Holds(a.heap, a.slice, ys \o y)
    BY <1>3, <1>4, <1>5, AppendHolds
  <2>2. /\ a.heap \in Heaps
        /\ In(a.heap, a.slice)
        /\ Keeps(j.heap, a.heap, own.array, own.len)
        /\ a.slice.array = own.array \/ a.slice.array = Len(j.heap) + 1
    BY <1>3, <1>4, <1>5, AppendDoes
  <2> HIDE DEF a
  <2>3. a.slice \in Slice
    BY <2>2 DEF In, Slice
  <2>4. own.len \in Nat /\ own.array \in Nat
    BY <1>5 DEF In
  <2> QED
    BY <2>1, <2>2, <2>3, <2>4
<1> HIDE DEF a
\* What both have left as it was.
<1>7. ASSUME NEW t, In(heap, t)
      PROVE  /\ In(a.heap, t)
             /\ \A i \in 1..t.len :
                  /\ Differ(t, groupBefore) \/ i <= groupBefore.len
                  /\ Differ(t, routeBefore[r])
                  => a.heap[t.array][i] = heap[t.array][i]
             /\ Differ(groupBefore, t) /\ Differ(routeBefore[r], t) => Differ(a.slice, t)
             /\ Differ(t, groupBefore) /\ Differ(t, routeBefore[r]) => Differ(t, a.slice)
  <2>1. /\ t.array \in Nat /\ t.len \in Nat /\ t.array <= Len(heap)
        /\ t.array = 0 => t.len = 0
        /\ groupBefore.len \in Nat /\ groupBefore.array \in Nat
    BY <1>3, <1>7 DEF In
  <2>2. /\ In(j.heap, t)
        /\ \A i \in 1..t.len : t.array # groupBefore.array \/ i <= groupBefore.len
                => j.heap[t.array][i] = heap[t.array][i]
    BY <1>3, <1>4, <1>7, <2>1, KeepsHold
  <2>3. /\ In(a.heap, t)
        /\ \A i \in 1..t.len : t.array # own.array \/ i <= own.len
                => a.heap[t.array][i] = j.heap[t.array][i]
    BY <1>4, <1>6, <2>2, KeepsHold
  <2>4. ASSUME NEW i \in 1..t.len,
               Differ(t, groupBefore) \/ i <= groupBefore.len, Differ(t, routeBefore[r])
        PROVE  a.heap[t.array][i] = heap[t.array][i]
    <3>1. t.array # 0
      BY <2>1, <2>4
    <3>2. t.array # groupBefore.array \/ i <= groupBefore.len
      BY <2>4, <3>1 DEF Differ
    <3>3. t.array # own.array \/ i <= own.len
      BY <1>3, <1>5, <1>6, <2>1, <2>4, <3>1, <3>2 DEF Differ
    <3> QED
      BY <2>2, <2>3, <2>4, <3>2, <3>3
  <2>5. t.array # Len(heap) + 1 /\ t.array # Len(j.heap) + 1
    BY <1>3, <1>4, <2>1
  <2>6. /\ Differ(groupBefore, t) /\ Differ(routeBefore[r], t) => Differ(a.slice, t)
        /\ Differ(t, groupBefore) /\ Differ(t, routeBefore[r]) => Differ(t, a.slice)
    BY <1>5, <1>6, <2>1, <2>5 DEF Differ
  <2> QED
    BY <2>3, <2>4, <2>6
<1>8. /\ nodeBefore'[r] = a.slice
      /\ \A q \in Routes : q # r => nodeBefore'[q] = nodeBefore[q]
      /\ want'[r] = ys \o y
      /\ \A q \in Routes : q # r => want'[q] = want[q]
      /\ keep'[r] = IF a.slice.array # 0 /\ a.slice.array = groupBefore.array
                    THEN groupBefore.len ELSE a.slice.len
      /\ \A q \in Routes : q # r => keep'[q] = keep[q]
  BY <1>1, <1>2 DEF HeapTypes
<1>9. HeapTypes' /\ AllIn'
  <2>1. want'[r] \in Seq(Elems)
    BY <1>3, <1>5, <1>8, ConcatProperties
  <2>2. keep'[r] \in Nat
    BY <1>3, <1>6, <1>8 DEF In, Slice
  <2>3. HeapTypes'
    BY <1>1, <1>2, <1>6, <1>8, <2>1, <2>2 DEF HeapTypes
  <2>4. AllIn'
    BY <1>1, <1>6, <1>7, <1>8 DEF AllIn
  <2> QED
    BY <2>3, <2>4
<1>10. Apart'
  BY <1>1 DEF Apart
<1>11. NodesApart'
  <2>1. ASSUME NEW q \in registered, NEW t \in Routes \ registered'
        PROVE  /\ Differ(nodeBefore'[q], globalBefore)
               /\ Differ(nodeBefore'[q], routeBefore[t])
               /\ ~Differ(nodeBefore'[q], groupBefore) => keep'[q] <= groupBefore.len
    BY <1>1, <1>8 DEF NodesApart, HeapTypes
  <2>2. Differ(a.slice, globalBefore)
    BY <1>1, <1>3, <1>7 DEF Apart
  <2>3. ASSUME NEW t \in Routes \ registered' PROVE Differ(a.slice, routeBefore[t])
    BY <1>1, <1>7 DEF Apart, AllIn
  <2>4. ~Differ(a.slice, groupBefore) => keep'[r] <= groupBefore.len
    BY <1>3, <1>8 DEF Differ, In
  <2>5. \A q \in registered : /\ Differ(nodeBefore'[q], globalBefore)
                              /\ ~Differ(nodeBefore'[q], groupBefore) => keep'[q] <= groupBefore.len
    BY <1>1, <1>8 DEF NodesApart, HeapTypes
  <2> QED
    BY <1>1, <1>8, <2>1, <2>2, <2>3, <2>4, <2>5 DEF NodesApart
<1>12. NodesKept'
  <2>1. ASSUME NEW q \in registered
        PROVE  /\ nodeBefore'[q].len = Len(want'[q])
               /\ \A i \in 1..nodeBefore'[q].len :
                    i <= keep'[q] => a.heap[nodeBefore'[q].array][i] = want'[q][i]
    <3>1. /\ q \in Routes /\ q # r
          /\ nodeBefore'[q] = nodeBefore[q] /\ want'[q] = want[q] /\ keep'[q] = keep[q]
      BY <1>1, <1>8 DEF HeapTypes
    <3>2. /\ In(heap, nodeBefore[q]) /\ Differ(nodeBefore[q], routeBefore[r])
          /\ Differ(nodeBefore[q], groupBefore) \/ keep[q] <= groupBefore.len
          /\ keep[q] \in Nat /\ groupBefore.len \in Nat
      BY <1>1, <1>3, <3>1 DEF AllIn, NodesApart, HeapTypes, In
    <3>3. ASSUME NEW i \in 1..nodeBefore[q].len, i <= keep[q]
          PROVE  a.heap[nodeBefore[q].array][i] = want[q][i]
      <4>1. Differ(nodeBefore[q], groupBefore) \/ i <= groupBefore.len
        BY <3>2, <3>3 DEF In
      <4>2. a.heap[nodeBefore[q].array][i] = heap[nodeBefore[q].array][i]
        BY <1>7, <3>2, <4>1
      <4> QED
        BY <3>3, <4>2 DEF NodesKept
    <3> QED
      BY <3>1, <3>3 DEF NodesKept
  <2>2. /\ nodeBefore'[r].len = Len(want'[r])
        /\ \A i \in 1..nodeBefore'[r].len : a.heap[nodeBefore'[r].array][i] = want'[r][i]
    BY <1>6, <1>8 DEF Holds
  <2> QED
    BY <1>1, <2>1, <2>2 DEF NodesKept
<1> QED
  BY <1>9, <1>10, <1>11, <1>12

\* Every call keeps the arrays apart and the nodes' hooks as they were.
LEMMA HeapStep ==
    ASSUME HeapInv, [Next]_vars
    PROVE  HeapInv'
<1>1. CASE UNCHANGED <<heap, hookVars, nodeVars>> /\ mode' \in [Routes -> {"plain", "pass", "force"}]
  BY <1>1 DEF HeapInv, HeapTypes, AllIn, Apart, NodesApart, NodesKept, In, Differ, hookVars, nodeVars
<1>2. SomeHooks \subseteq Seq(Elems)
  <2>1. \A e \in Hooks : <<e>> \in Seq(Elems)
    BY DEF Elems
  <2>2. \A e, f \in Hooks : <<e, f>> \in Seq(Elems)
    BY DEF Elems
  <2>3. ASSUME NEW xs \in SomeHooks PROVE xs \in Seq(Elems)
    <3>1. \/ \E e \in Hooks : xs = <<e>>
          \/ \E e, f \in Hooks : xs = <<e, f>>
      BY <2>3 DEF SomeHooks
    <3> QED
      BY <2>1, <2>2, <3>1
  <2> QED
    BY <2>3
<1>3. CASE HookCalls
  <2>1. ASSUME NEW xs \in SomeHooks, SetGlobalBefore(xs) \/ GroupBefore(xs) PROVE HeapInv'
    BY <1>2, <2>1, SetGlobalBeforeKeeps, GroupBeforeKeeps
  <2>2. ASSUME NEW r \in Routes, NEW xs \in SomeHooks, RouteBefore(r, xs) PROVE HeapInv'
    BY <1>2, <2>2, RouteBeforeKeeps
  <2>3. ASSUME NEW r \in Routes, NEW m \in {"pass", "force"}, SetMode(r, m) PROVE HeapInv'
    BY <1>1, <2>3 DEF SetMode, HeapInv, HeapTypes
  <2> QED
    BY <1>3, <2>1, <2>2, <2>3 DEF HookCalls
<1>4. CASE RouteCalls
  <2>1. ASSUME NEW p \in Paths, Remove(p) PROVE HeapInv'
    BY <1>1, <2>1 DEF Remove, HeapInv, HeapTypes
  <2> QED
    BY <1>4, <2>1, HandlerKeeps DEF RouteCalls
<1>5. CASE UNCHANGED vars
  BY <1>1, <1>5 DEF vars, HeapInv, HeapTypes
<1> QED
  BY <1>3, <1>4, <1>5 DEF Next

-----------------------------------------------------------------------------
(* The theorems *)

\* A request gets the route that was registered last for its path, if it has the
\* route's method and the route was not removed since in a spelling that the
\* router understands; whatever was registered and removed before.
THEOREM RequestsFindRoutes == Spec => []RoutesFound
<1>1. Init => TableInv
  <2>1. Init => TableTypes
    BY DEF Init, TableTypes
  <2>2. Init => \A p \in Paths, r \in Routes : ~Stands(r, p)
    BY DEF Init, Stands
  <2>3. ASSUME Init, NEW p \in Paths PROVE tire[formatPath(p)] = NoRoute
    BY <2>3, KeysAreSame DEF Init
  <2> QED
    BY <2>1, <2>2, <2>3, ConstantsAssumption DEF TableInv
<1>2. TableInv /\ [Next]_vars => TableInv'
  BY TableStep
<1>3. TableInv => RoutesFound
  <2> SUFFICES ASSUME TableInv, NEW p \in Paths, NEW m \in Methods, NEW r \in registered
               PROVE  getRoute(m, p) = r <=>
                        \E i \in DOMAIN calls :
                          /\ calls[i].route = r
                          /\ same(calls[i].path, p)
                          /\ at[r].method = m
                          /\ \A j \in i + 1..Len(calls) : ~Undoes(j, p)
    BY DEF RoutesFound
  <2>1. r \in Routes /\ r # NoRoute
    BY ConstantsAssumption DEF TableInv, TableTypes
  <2>2. getRoute(m, p) = r <=> tire[formatPath(p)] = r /\ at[r].method = m
    BY <2>1 DEF getRoute
  <2>3. DOMAIN calls = 1..Len(calls)
    BY DEF TableInv, TableTypes
  <2> QED
    BY <2>1, <2>2, <2>3 DEF TableInv, Stands
<1> QED
  BY <1>1, <1>2, <1>3, PTL DEF Spec

\* A route keeps the hooks it was registered with, whatever is registered before and
\* after it, but for those that append put behind the group's in the group's array
\* (router.go 163).
THEOREM NodesKeepHooks == Spec => []HooksKept
<1>1. Init => HeapInv
  <2>1. Nil \in Slice /\ Nil.array = 0 /\ Nil.len = 0 /\ In(<<>>, Nil)
    BY DEF Nil, Slice, In
  <2> QED
    BY <2>1 DEF Init, HeapInv, HeapTypes, Heaps, AllIn, Apart, NodesApart, NodesKept, Differ
<1>2. HeapInv /\ [Next]_vars => HeapInv'
  BY HeapStep
<1>3. HeapInv => HooksKept
  <2> SUFFICES ASSUME HeapInv, NEW r \in registered
               PROVE  /\ Len(content(nodeBefore[r])) = Len(want[r])
                      /\ \A i \in DOMAIN content(nodeBefore[r]) :
                           i <= keep[r] => content(nodeBefore[r])[i] = want[r][i]
    BY DEF HooksKept
  <2> DEFINE has == content(nodeBefore[r])
  <2>1. has \in Seq(Elems) /\ Holds(heap, nodeBefore[r], has)
    BY ContentHolds DEF HeapInv, HeapTypes, AllIn
  <2> HIDE DEF has
  <2>2. DOMAIN has = 1..nodeBefore[r].len
    BY <2>1 DEF Holds
  <2> QED
    BY <2>1, <2>2 DEF Holds, HeapInv, NodesKept, has
<1> QED
  BY <1>1, <1>2, <1>3, PTL DEF Spec
=============================================================================
