----------------------------- MODULE PrepProofs -----------------------------
(***************************************************************************)
(* The preprocessing of every query on every graph, and what it is for.    *)
(*                                                                         *)
(* The searches: after each layer the two distances are exact up to that   *)
(* layer and the frontier is the vertices at that distance (SearchInv, one *)
(* case for every phase).  The answer: an edge on a path of the query is   *)
(* kept (Kept), the new numbers tell vertices apart, and the rows handed   *)
(* over are the kept edges under their new numbers (AnswerInv).            *)
(*                                                                         *)
(* The last part proves the promise of the engines, PathPool, and joins    *)
(* the two: the number an engine reports of the job made here is the       *)
(* number of paths of the query (QueryIsAnswered).                         *)
(***************************************************************************)
EXTENDS Prep, PathPool, HopPathsProofs, WellFoundedInduction

-----------------------------------------------------------------------------
(* Induction over the natural numbers, stated for sets: the theorems of    *)
(* the library that take a predicate as a parameter cannot be applied.     *)

LEMMA LeastOfSet ==
    ASSUME NEW S, S \subseteq Nat, S # {}
    PROVE  \E n \in S : \A m \in S : n <= m
<1>1. IsWellFoundedOn({ p \in Nat \X Nat : p[1] < p[2] }, Nat)
  BY NatLessThanWellFounded DEF OpToRel
<1>2. \E n \in S : \A m \in S :
        ~ (<<m, n>> \in { p \in Nat \X Nat : p[1] < p[2] })
  BY <1>1, WFMin
<1>3. \E n \in S : \A m \in S : ~ (m < n)
  BY <1>2
<1>4. QED  BY <1>3

LEMMA SetInduction ==
    ASSUME NEW S, 0 \in S, \A n \in Nat : n \in S => n + 1 \in S
    PROVE  \A n \in Nat : n \in S
<1> SUFFICES ASSUME Nat \ S # {} PROVE FALSE
  OBVIOUS
<1>1. PICK n \in Nat \ S : \A m \in Nat \ S : n <= m
  BY LeastOfSet
<1>2. n # 0 /\ n - 1 \in Nat /\ n - 1 \in S
  BY <1>1
<1>3. QED  BY <1>1, <1>2

(* A set of numbers with a bound has a largest member.                     *)
LEMMA LargestOfSet ==
    ASSUME NEW S, S \subseteq Nat, S # {}, NEW b \in Nat, \A n \in S : n <= b
    PROVE  \E n \in S : \A m \in S : m <= n
<1> DEFINE D == { b - n : n \in S }
<1>1. D \subseteq Nat /\ D # {}
  <2>1. \A n \in S : b - n \in Nat
    OBVIOUS
  <2>2. QED  BY <2>1
<1>2. PICK d \in D : \A e \in D : d <= e
  BY <1>1, LeastOfSet
<1>3. PICK n \in S : d = b - n
  BY <1>2
<1>4. \A m \in S : b - n <= b - m
  BY <1>2, <1>3
<1>5. QED  BY <1>3, <1>4

(* A function defined by recursion on 0 .. k exists.  F is the step of the *)
(* recursion, as a function on X.                                          *)
Recursive(f, k, x, F) ==
    f[0] = x /\ \A n \in 1 .. k : f[n] = F[f[n - 1]]

LEMMA RecursionExists ==
    ASSUME NEW X, NEW x \in X, NEW F \in [X -> X], NEW k \in Nat
    PROVE  \E f \in [0 .. k -> X] : Recursive(f, k, x, F)
<1> DEFINE Good == { m \in Nat : \E f \in [0 .. m -> X] :
                       /\ f[0] = x
                       /\ \A n \in 1 .. m : f[n] = F[f[n - 1]] }
<1>1. 0 \in Good
  <2> DEFINE g == [n \in 0 .. 0 |-> x]
  <2>1. g \in [0 .. 0 -> X] /\ g[0] = x /\ \A n \in 1 .. 0 : g[n] = F[g[n - 1]]
    OBVIOUS
  <2> HIDE DEF g
  <2>2. QED  BY <2>1
<1>2. ASSUME NEW m \in Nat, m \in Good PROVE m + 1 \in Good
  <2>1. PICK f \in [0 .. m -> X] :
               f[0] = x /\ \A n \in 1 .. m : f[n] = F[f[n - 1]]
    BY <1>2
  <2> DEFINE g == [n \in 0 .. m + 1 |-> IF n <= m THEN f[n] ELSE F[f[m]]]
  <2>2. g \in [0 .. m + 1 -> X]
    BY <2>1
  <2>3. g[0] = x
    BY <2>1
  <2>4. ASSUME NEW n \in 1 .. m + 1 PROVE g[n] = F[g[n - 1]]
    <3>1. CASE n <= m
      BY <3>1, <2>1
    <3>2. CASE n = m + 1
      BY <3>2, <2>1
    <3>3. QED  BY <3>1, <3>2
  <2> HIDE DEF g
  <2>5. m + 1 \in Nat /\ \A n \in 1 .. m + 1 : g[n] = F[g[n - 1]]
    BY <2>4
  <2>6. QED  BY <2>2, <2>3, <2>5
<1>3. \A m \in Nat : m \in Good
  <2> HIDE DEF Good
  <2>1. QED  BY <1>1, <1>2, SetInduction
<1>4. QED  BY <1>3 DEF Recursive

-----------------------------------------------------------------------------
(* The reference distances.  Within(out, from, k)[n] is what lies at most  *)
(* n hops away.                                                            *)

(* No edge leads out of V.                                                 *)
Closed(V, out) == \A v \in V : out[v] \subseteq V

LEMMA WithinUnfolds ==
    ASSUME NEW V, NEW out, Closed(V, out), NEW from \in V, NEW k \in Nat
    PROVE  /\ Within(out, from, k) \in [0 .. k -> SUBSET V]
           /\ Within(out, from, k)[0] = {from}
           /\ \A n \in 1 .. k :
                Within(out, from, k)[n] = Grown(out, Within(out, from, k)[n - 1])
<1> DEFINE F == [R \in SUBSET V |-> Grown(out, R)]
<1> DEFINE IsIt(f) == f = [n \in 0 .. k |-> IF n = 0 THEN {from} ELSE Grown(out, f[n - 1])]
<1>1. F \in [SUBSET V -> SUBSET V]
  BY DEF Closed, Grown
<1>2. {from} \in SUBSET V
  OBVIOUS
<1>3. PICK f \in [0 .. k -> SUBSET V] : Recursive(f, k, {from}, F)
  <2> HIDE DEF F
  <2>1. QED  BY <1>1, <1>2, RecursionExists
<1>4. IsIt(f)
  <2>1. \A n \in 1 .. k : F[f[n - 1]] = Grown(out, f[n - 1])
    OBVIOUS
  <2> HIDE DEF F
  <2>2. \A n \in 0 .. k : f[n] = IF n = 0 THEN {from} ELSE Grown(out, f[n - 1])
    BY <1>3, <2>1 DEF Recursive
  <2>3. QED  BY <2>2
<1>5. Within(out, from, k) = CHOOSE g : IsIt(g)
  BY DEF Within
<1>6. IsIt(Within(out, from, k))
  <2> HIDE DEF IsIt
  <2>1. QED  BY <1>4, <1>5
<1> DEFINE W == Within(out, from, k)
<1>7. W = [n \in 0 .. k |-> IF n = 0 THEN {from} ELSE Grown(out, W[n - 1])]
  BY <1>6
<1> HIDE DEF W
<1> DEFINE G == [n \in 0 .. k |-> IF n = 0 THEN {from} ELSE Grown(out, W[n - 1])]
<1>8. /\ DOMAIN W = 0 .. k /\ W[0] = {from}
      /\ \A n \in 1 .. k : W[n] = Grown(out, W[n - 1])
  <2>1. DOMAIN G = 0 .. k /\ G[0] = {from}
    OBVIOUS
  <2>2. \A n \in 1 .. k : G[n] = Grown(out, W[n - 1])
    OBVIOUS
  <2>3. W = G
    BY <1>7
  <2> HIDE DEF G
  <2>4. QED  BY <2>1, <2>2, <2>3
<1> DEFINE A == { n \in Nat : n <= k => W[n] \subseteq V }
<1>9. 0 \in A
  BY <1>8
<1>10. ASSUME NEW n \in Nat, n \in A PROVE n + 1 \in A
  <2>1. CASE n + 1 <= k
    <3>1. W[n] \subseteq V /\ W[n + 1] = Grown(out, W[n])
      BY <2>1, <1>8, <1>10
    <3>2. QED  BY <3>1 DEF Grown, Closed
  <2>2. QED  BY <2>1
<1>11. \A n \in Nat : n \in A
  <2> HIDE DEF A
  <2>1. QED  BY <1>9, <1>10, SetInduction
<1>12. W \in [0 .. k -> SUBSET V]
  <2>1. \A n \in 0 .. k : W[n] \in SUBSET V
    BY <1>11
  <2>2. W = [n \in 0 .. k |-> W[n]]
    BY <1>7
  <2>3. QED  BY <2>1, <2>2
<1>13. QED  BY <1>8, <1>12 DEF W

LEMMA WithinGrows ==
    ASSUME NEW V, NEW out, Closed(V, out), NEW from \in V, NEW k \in Nat,
           NEW n \in 0 .. k, NEW m \in 0 .. n
    PROVE  Within(out, from, k)[m] \subseteq Within(out, from, k)[n]
<1> DEFINE W == Within(out, from, k)
<1>1. \A i \in 1 .. k : W[i] = Grown(out, W[i - 1])
  BY WithinUnfolds
<1> HIDE DEF W
<1> DEFINE A == { i \in Nat : i <= k /\ m <= i => W[m] \subseteq W[i] }
<1>2. 0 \in A
  OBVIOUS
<1>3. ASSUME NEW i \in Nat, i \in A PROVE i + 1 \in A
  <2>1. CASE i + 1 <= k /\ m <= i
    BY <2>1, <1>1, <1>3 DEF Grown
  <2>2. CASE ~ (i + 1 <= k /\ m <= i)
    <3>1. i + 1 <= k /\ m <= i + 1 => m = i + 1
      BY <2>2
    <3>2. QED  BY <3>1
  <2>3. QED  BY <2>1, <2>2
<1>4. \A i \in Nat : i \in A
  <2> HIDE DEF A
  <2>1. QED  BY <1>2, <1>3, SetInduction
<1>5. QED  BY <1>4 DEF W

(* Looked at from the other end: one more hop at the start.                *)
LEMMA WithinFirstHop ==
    ASSUME NEW V, NEW out, Closed(V, out), NEW from \in V, NEW k \in Nat,
           NEW n \in Nat, n < k
    PROVE  Within(out, from, k)[n + 1]
             = {from} \cup UNION { Within(out, v, k)[n] : v \in out[from] }
<1> DEFINE W(v) == Within(out, v, k)
<1>1. \A v \in V : /\ W(v)[0] = {v}
                   /\ \A i \in 1 .. k : W(v)[i] = Grown(out, W(v)[i - 1])
  BY WithinUnfolds
<1>2. out[from] \subseteq V
  BY DEF Closed
<1> HIDE DEF W
<1> DEFINE A == { i \in Nat : i < k =>
                    W(from)[i + 1] = {from} \cup UNION { W(v)[i] : v \in out[from] } }
<1>3. 0 \in A
  <2>1. ASSUME 0 < k
        PROVE  W(from)[1] = {from} \cup UNION { W(v)[0] : v \in out[from] }
    <3>1. W(from)[1] = {from} \cup out[from]
      BY <1>1, <2>1 DEF Grown
    <3>2. UNION { W(v)[0] : v \in out[from] } = out[from]
      BY <1>1, <1>2
    <3>3. QED  BY <3>1, <3>2
  <2>2. QED  BY <2>1
<1>4. ASSUME NEW i \in Nat, i \in A PROVE i + 1 \in A
  <2>1. ASSUME i + 1 < k
        PROVE  W(from)[i + 2] = {from} \cup UNION { W(v)[i + 1] : v \in out[from] }
    <3>1. W(from)[i + 1] = {from} \cup UNION { W(v)[i] : v \in out[from] }
      BY <2>1, <1>4
    <3>2. W(from)[i + 2] = Grown(out, W(from)[i + 1])
      BY <2>1, <1>1
    <3>3. \A v \in out[from] : W(v)[i + 1] = Grown(out, W(v)[i])
      BY <2>1, <1>1, <1>2
    <3>4. \A v \in out[from] : v \in W(v)[i + 1]
      <4>1. \A v \in V : W(v)[0] \subseteq W(v)[i + 1]
        BY <2>1, WithinGrows DEF W
      <4>2. QED  BY <4>1, <1>1, <1>2
    <3>5. QED  BY <3>1, <3>2, <3>3, <3>4 DEF Grown
  <2>2. QED  BY <2>1
<1>5. \A i \in Nat : i \in A
  <2> HIDE DEF A
  <2>1. QED  BY <1>3, <1>4, SetInduction
<1>6. QED  BY <1>5 DEF W
(* The number of hops, MaxDist where k do not do.                          *)
LEMMA QueryFacts ==
    ASSUME NEW i \in QueryId
    PROVE  /\ Vertex(Query[i]) \subseteq Nat /\ IsFiniteSet(Vertex(Query[i]))
           /\ Query[i].src \in Vertex(Query[i]) /\ Query[i].dst \in Vertex(Query[i])
           /\ Query[i].src # Query[i].dst
           /\ Closed(Vertex(Query[i]), Query[i].out)
           /\ Query[i].k \in 1 .. MaxK
           /\ Query[i].k \in Nat /\ Query[i].k >= 1 /\ Query[i].k < MaxDist
<1>1. Query[i].k \in 1 .. MaxK
  BY QueriesAssumption
<1>2. Query[i].k \in Nat /\ Query[i].k >= 1 /\ Query[i].k < MaxDist
  BY <1>1 DEF MaxK, MaxDist
<1>3. QED  BY <1>1, <1>2, QueriesAssumption DEF Closed

(* d is the least number in P, MaxDist when none up to k is: P is closed   *)
(* upwards.                                                                *)
Least(d, P, k) ==
    /\ d \in 0 .. k \cup {MaxDist}
    /\ \A n \in 0 .. k : n \in P <=> d <= n

LEMMA HopsLeast ==
    ASSUME NEW i \in QueryId, NEW u \in Vertex(Query[i]), NEW v \in Vertex(Query[i])
    PROVE  Least(Hops(i, u, v),
                 { n \in 0 .. Query[i].k :
                     v \in Within(Query[i].out, u, Query[i].k)[n] },
                 Query[i].k)
<1> DEFINE V == Vertex(Query[i])
           k == Query[i].k
           W == Within(Query[i].out, u, k)
           P == { n \in 0 .. k : v \in W[n] }
<1>1. k \in Nat /\ k < MaxDist /\ Closed(V, Query[i].out)
  BY QueryFacts
<1>2. \A n \in 0 .. k : \A m \in 0 .. n : W[m] \subseteq W[n]
  <2> HIDE DEF k, V
  <2>1. u \in V
    BY DEF V
  <2>2. QED  BY <1>1, <2>1, WithinGrows
<1>3. Hops(i, u, v)
        = IF v \in W[k]
          THEN CHOOSE n \in 0 .. k : v \in W[n] /\ \A m \in 0 .. n - 1 : v \notin W[m]
          ELSE MaxDist
  BY DEF Hops
<1> HIDE DEF W, k
<1>4. CASE v \in W[k]
  <2>1. PICK n \in P : \A m \in P : n <= m
    <3>1. P \subseteq Nat /\ k \in P
      BY <1>1, <1>4
    <3> HIDE DEF P
    <3>2. QED  BY <3>1, LeastOfSet
  <2>2. \E l \in 0 .. k : v \in W[l] /\ \A m \in 0 .. l - 1 : v \notin W[m]
    <3>1. n \in 0 .. k /\ v \in W[n]
      BY <2>1
    <3>2. \A m \in 0 .. n - 1 : m \in 0 .. k /\ ~ (n <= m)
      BY <3>1, <1>1
    <3>3. \A m \in 0 .. n - 1 : v \notin W[m]
      BY <3>2, <2>1
    <3>4. QED  BY <3>1, <3>3
  <2> DEFINE d == Hops(i, u, v)
  <2>3. d \in 0 .. k /\ v \in W[d] /\ \A m \in 0 .. d - 1 : v \notin W[m]
    BY <2>2, <1>3, <1>4
  <2> HIDE DEF d
  <2>4. \A m \in 0 .. k : v \in W[m] <=> d <= m
    <3>1. ASSUME NEW m \in 0 .. k, d <= m PROVE v \in W[m]
      <4>1. d \in 0 .. m
        BY <3>1, <2>3
      <4>2. QED  BY <4>1, <2>3, <1>2
    <3>2. ASSUME NEW m \in 0 .. k, ~ (d <= m) PROVE v \notin W[m]
      <4>1. m \in 0 .. d - 1
        BY <3>2, <2>3, <1>1
      <4>2. QED  BY <4>1, <2>3
    <3>3. QED  BY <3>1, <3>2
  <2>5. Least(d, P, k)
    BY <2>3, <2>4 DEF Least
  <2>6. QED  BY <2>5 DEF d, W, k
<1>5. CASE v \notin W[k]
  <2>1. Hops(i, u, v) = MaxDist
    BY <1>3, <1>5
  <2>2. \A m \in 0 .. k : v \notin W[m] /\ ~ (MaxDist <= m)
    <3>1. \A m \in 0 .. k : m \in 0 .. k /\ W[m] \subseteq W[k] /\ ~ (MaxDist <= m)
      <4>1. k \in 0 .. k
        BY <1>1
      <4>2. \A m \in 0 .. k : ~ (MaxDist <= m)
        BY <1>1 DEF MaxDist
      <4>3. QED  BY <4>1, <4>2, <1>2
    <3>2. QED  BY <3>1, <1>5
  <2>3. Least(MaxDist, P, k)
    BY <2>2 DEF Least
  <2>4. QED  BY <2>1, <2>3 DEF W, k
<1>6. QED  BY <1>4, <1>5

-----------------------------------------------------------------------------
(* What the searches need to know of a distance d from c along the edges   *)
(* nb, cut off at k: it grows by at most one along an edge, and every      *)
(* vertex but c has a predecessor that is one nearer.                      *)

Steps(V, nb, d, k) ==
    \A u \in V : \A v \in nb[u] : d[u] < k => d[v] <= d[u] + 1
Steepest(V, nb, d, k) ==
    \A v \in V : d[v] # 0 /\ d[v] <= k =>
                   \E u \in V : v \in nb[u] /\ d[u] = d[v] - 1
Metric(V, nb, c, d, k) ==
    /\ d \in [V -> 0 .. MaxDist]
    /\ \A v \in V : d[v] <= k \/ d[v] = MaxDist
    /\ \A v \in V : d[v] = 0 <=> v = c
    /\ Steps(V, nb, d, k)
    /\ Steepest(V, nb, d, k)

FromSrc(i) == [v \in Vertex(Query[i]) |-> Hops(i, Query[i].src, v)]
ToDst(i)   == [v \in Vertex(Query[i]) |-> Hops(i, v, Query[i].dst)]
InMap(i)   == [v \in Vertex(Query[i]) |->
                 { u \in Vertex(Query[i]) : v \in Query[i].out[u] }]

LEMMA LeastElim ==
    ASSUME NEW d, NEW P, NEW k \in Nat, k < MaxDist, Least(d, P, k)
    PROVE  /\ d \in 0 .. MaxDist /\ (d <= k \/ d = MaxDist)
           /\ \A n \in 0 .. k : n \in P <=> d <= n
           /\ d <= k => d \in 0 .. k /\ d \in P
           /\ \A n \in 0 .. k : n < d => n \notin P
<1>1. d \in 0 .. k \/ d = MaxDist
  BY DEF Least
<1>2. \A n \in 0 .. k : n \in P <=> d <= n
  BY DEF Least
<1>3. d \in 0 .. MaxDist /\ (d <= k \/ d = MaxDist) /\ (d <= k => d \in 0 .. k)
  BY <1>1 DEF MaxDist
<1>4. QED  BY <1>2, <1>3

LEMMA FromSrcMetric ==
    ASSUME NEW i \in QueryId
    PROVE  Metric(Vertex(Query[i]), Query[i].out, Query[i].src, FromSrc(i),
                  Query[i].k)
<1> DEFINE V == Vertex(Query[i])
           k == Query[i].k
           c == Query[i].src
           out == Query[i].out
           W == Within(out, c, k)
           d == FromSrc(i)
<1>1. k \in Nat /\ k >= 1 /\ k < MaxDist /\ Closed(V, out) /\ c \in V
  BY QueryFacts
<1>2. d = [v \in V |-> Hops(i, c, v)]
  BY DEF FromSrc
<1>3. \A v \in V : Least(Hops(i, c, v), { n \in 0 .. k : v \in W[n] }, k)
  BY <1>1, HopsLeast
<1>4. W[0] = {c} /\ \A n \in 1 .. k : W[n] = Grown(out, W[n - 1])
  <2> HIDE DEF V, k, c, out
  <2>1. QED  BY <1>1, WithinUnfolds
<1>12. \A n \in 0 .. k : W[n] \subseteq V
  <2> HIDE DEF V, k, c, out
  <2>1. W \in [0 .. k -> SUBSET V]
    BY <1>1, WithinUnfolds
  <2>2. QED  BY <2>1
<1> HIDE DEF V, k, c, out, W, d
<1>5. ASSUME NEW v \in V
      PROVE  /\ d[v] \in 0 .. MaxDist /\ (d[v] <= k \/ d[v] = MaxDist)
             /\ \A n \in 0 .. k : v \in W[n] <=> d[v] <= n
  <2> DEFINE P == { n \in 0 .. k : v \in W[n] }
  <2>1. Least(d[v], P, k)
    BY <1>2, <1>3
  <2>2. \A n \in 0 .. k : n \in P <=> v \in W[n]
    OBVIOUS
  <2> HIDE DEF P
  <2>3. /\ d[v] \in 0 .. MaxDist /\ (d[v] <= k \/ d[v] = MaxDist)
        /\ \A n \in 0 .. k : n \in P <=> d[v] <= n
    BY <2>1, <1>1, LeastElim
  <2>4. QED  BY <2>2, <2>3
<1>6. d \in [V -> 0 .. MaxDist]
  BY <1>2, <1>5
<1>7. \A v \in V : d[v] = 0 <=> v = c
  <2>1. \A v \in V : v \in W[0] <=> d[v] <= 0
    BY <1>1, <1>5
  <2>2. \A v \in V : d[v] \in 0 .. MaxDist
    BY <1>5
  <2>3. QED  BY <2>1, <2>2, <1>4
<1>8. Steps(V, out, d, k)
  <2> SUFFICES ASSUME NEW u \in V, NEW v \in out[u], d[u] < k
               PROVE  d[v] <= d[u] + 1
    BY DEF Steps
  <2>1. v \in V
    BY <1>1 DEF Closed
  <2> DEFINE n == d[u]
  <2>2. n \in 0 .. k /\ n + 1 \in 1 .. k /\ n + 1 \in 0 .. k
    BY <1>1, <1>5
  <2>3. u \in W[n]
    BY <2>2, <1>5
  <2>4. W[n + 1] = Grown(out, W[n])
    BY <2>2, <1>4
  <2>5. v \in W[n + 1]
    BY <2>3, <2>4 DEF Grown
  <2>6. QED  BY <2>1, <2>2, <2>5, <1>5
<1>9. Steepest(V, out, d, k)
  <2> SUFFICES ASSUME NEW v \in V, d[v] # 0, d[v] <= k
               PROVE  \E u \in V : v \in out[u] /\ d[u] = d[v] - 1
    BY DEF Steepest
  <2> DEFINE n == d[v] - 1
  <2>1. n \in 0 .. k /\ n + 1 \in 1 .. k /\ n + 1 = d[v] /\ ~ (d[v] <= n)
    BY <1>1, <1>5
  <2>2. v \in W[n + 1] /\ v \notin W[n]
    BY <2>1, <1>5
  <2>3. W[n + 1] = Grown(out, W[n])
    BY <2>1, <1>4
  <2>4. PICK u \in W[n] : v \in out[u]
    BY <2>2, <2>3 DEF Grown
  <2>5. u \in V
    BY <2>1, <2>4, <1>12
  <2>6. d[u] <= n /\ d[u] \in 0 .. MaxDist
    BY <2>1, <2>4, <2>5, <1>5
  <2>7. ~ (d[u] < n)
    <3> SUFFICES ASSUME d[u] < n PROVE FALSE
      OBVIOUS
    <3>1. d[u] < k
      BY <2>1, <2>6, <1>1, <1>5
    <3>2. d[v] <= d[u] + 1
      BY <3>1, <2>4, <2>5, <1>8 DEF Steps
    <3>3. QED  BY <3>2, <2>1, <2>6
  <2>8. d[u] = n
    BY <2>1, <2>6, <2>7
  <2>9. QED  BY <2>4, <2>5, <2>8
<1>10. Metric(V, out, c, d, k)
  BY <1>5, <1>6, <1>7, <1>8, <1>9 DEF Metric
<1>11. QED  BY <1>10 DEF V, out, c, d, k

LEMMA ToDstMetric ==
    ASSUME NEW i \in QueryId
    PROVE  Metric(Vertex(Query[i]), InMap(i), Query[i].dst, ToDst(i), Query[i].k)
<1> DEFINE V == Vertex(Query[i])
           k == Query[i].k
           c == Query[i].dst
           out == Query[i].out
           W(v) == Within(out, v, k)
           d == ToDst(i)
           in == InMap(i)
<1>1. k \in Nat /\ k >= 1 /\ k < MaxDist /\ Closed(V, out) /\ c \in V
  BY QueryFacts
<1>2. /\ d = [v \in V |-> Hops(i, v, c)]
      /\ in = [v \in V |-> { u \in V : v \in out[u] }]
  BY DEF ToDst, InMap
<1>3. \A v \in V : Least(Hops(i, v, c), { n \in 0 .. k : c \in W(v)[n] }, k)
  BY <1>1, HopsLeast
<1>4. \A v \in V : W(v)[0] = {v}
  <2> HIDE DEF V, k, out
  <2>1. QED  BY <1>1, WithinUnfolds
<1>12. \A v \in V : \A n \in Nat : n < k =>
         W(v)[n + 1] = {v} \cup UNION { W(u)[n] : u \in out[v] }
  <2> HIDE DEF V, k, out
  <2>1. QED  BY <1>1, WithinFirstHop
<1> HIDE DEF V, k, c, out, W, d, in
<1>5. ASSUME NEW v \in V
      PROVE  /\ d[v] \in 0 .. MaxDist /\ (d[v] <= k \/ d[v] = MaxDist)
             /\ \A n \in 0 .. k : c \in W(v)[n] <=> d[v] <= n
  <2> DEFINE P == { n \in 0 .. k : c \in W(v)[n] }
  <2>1. Least(d[v], P, k)
    BY <1>2, <1>3
  <2>2. \A n \in 0 .. k : n \in P <=> c \in W(v)[n]
    OBVIOUS
  <2> HIDE DEF P
  <2>3. /\ d[v] \in 0 .. MaxDist /\ (d[v] <= k \/ d[v] = MaxDist)
        /\ \A n \in 0 .. k : n \in P <=> d[v] <= n
    BY <2>1, <1>1, LeastElim
  <2>4. QED  BY <2>2, <2>3
<1>6. d \in [V -> 0 .. MaxDist]
  BY <1>2, <1>5
<1>7. \A v \in V : d[v] = 0 <=> v = c
  <2>1. \A v \in V : c \in W(v)[0] <=> d[v] <= 0
    BY <1>1, <1>5
  <2>2. \A v \in V : d[v] \in 0 .. MaxDist
    BY <1>5
  <2>3. QED  BY <2>1, <2>2, <1>4
<1>8. Steps(V, in, d, k)
  <2> SUFFICES ASSUME NEW u \in V, NEW v \in in[u], d[u] < k
               PROVE  d[v] <= d[u] + 1
    BY DEF Steps
  <2>1. v \in V /\ u \in out[v]
    BY <1>2
  <2> DEFINE n == d[u]
  <2>2. n \in 0 .. k /\ n + 1 \in 0 .. k /\ n \in Nat /\ n < k
    BY <1>1, <1>5
  <2>3. c \in W(u)[n]
    BY <2>2, <1>5
  <2>4. W(v)[n + 1] = {v} \cup UNION { W(w)[n] : w \in out[v] }
    BY <2>1, <2>2, <1>12
  <2>5. c \in W(v)[n + 1]
    BY <2>1, <2>3, <2>4
  <2>6. QED  BY <2>1, <2>2, <2>5, <1>5
<1>9. Steepest(V, in, d, k)
  <2> SUFFICES ASSUME NEW v \in V, d[v] # 0, d[v] <= k
               PROVE  \E u \in V : v \in in[u] /\ d[u] = d[v] - 1
    BY DEF Steepest
  <2> DEFINE n == d[v] - 1
  <2>1. n \in 0 .. k /\ n + 1 \in 0 .. k /\ n + 1 = d[v] /\ n \in Nat /\ n < k
    BY <1>1, <1>5
  <2>2. c \in W(v)[n + 1] /\ v # c
    BY <2>1, <1>5, <1>7
  <2>3. W(v)[n + 1] = {v} \cup UNION { W(w)[n] : w \in out[v] }
    BY <2>1, <1>12
  <2>4. PICK u \in out[v] : c \in W(u)[n]
    BY <2>2, <2>3
  <2>5. u \in V /\ v \in in[u]
    BY <1>1, <1>2, <2>4 DEF Closed
  <2>6. d[u] <= n /\ d[u] \in 0 .. MaxDist
    BY <2>1, <2>4, <2>5, <1>5
  <2>7. ~ (d[u] < n)
    <3> SUFFICES ASSUME d[u] < n PROVE FALSE
      OBVIOUS
    <3>1. d[u] < k
      BY <2>1, <2>6, <1>1, <1>5
    <3>2. d[v] <= d[u] + 1
      BY <3>1, <2>5, <1>8 DEF Steps
    <3>3. QED  BY <3>2, <2>1, <2>6
  <2>8. d[u] = n
    BY <2>1, <2>6, <2>7
  <2>9. QED  BY <2>5, <2>8
<1>10. Metric(V, in, c, d, k)
  BY <1>5, <1>6, <1>7, <1>8, <1>9 DEF Metric
<1>11. QED  BY <1>10 DEF V, in, c, d, k

-----------------------------------------------------------------------------
(* The searches.  The first two know every distance up to the layer (Known)*)
(* and go on from the vertices at exactly that distance (Ring).  The other *)
(* two go on from layer h, to vertices that are near enough by the other   *)
(* distance o (Extended, Frontier).                                        *)

(* The distances d as a search has them after layer n, and its frontier.   *)
Known(d, n) == [v \in DOMAIN d |-> IF d[v] <= n THEN d[v] ELSE MaxDist]
Ring(d, n)  == { v \in DOMAIN d : d[v] = n }

(* The second searches go on to a vertex beyond layer h only when both its *)
(* distances fit the hop bound.                                            *)
Useful(d, o, h, k, v) == h < d[v] /\ d[v] + o[v] <= k
Extended(d, o, h, k, n) ==
    [v \in DOMAIN d |-> IF d[v] <= h \/ (d[v] <= n /\ Useful(d, o, h, k, v))
                        THEN d[v] ELSE MaxDist]
Frontier(d, o, h, k, n) ==
    { v \in Ring(d, n) : n = h \/ Useful(d, o, h, k, v) }

(* One layer of any of the four: what is found gets the layer's number.    *)
Marked(dist, found, n) ==
    [v \in DOMAIN dist |-> IF v \in found THEN n ELSE dist[v]]

(* A useful vertex is found from one that is useful too or at layer h.     *)
Feeds(V, nb, d, o, h, k) ==
    \A u \in V : \A v \in nb[u] :
      h < d[u] /\ d[v] = d[u] + 1 /\ d[v] + o[v] <= k => d[u] + o[u] <= k

LEMMA HalfLayer ==
    ASSUME NEW V, NEW nb, NEW c, NEW d, NEW k \in Nat, k < MaxDist,
           Metric(V, nb, c, d, k), Closed(V, nb), NEW n \in Nat, n < k,
           NEW found, found = New(Known(d, n), UNION { nb[u] : u \in Ring(d, n) })
    PROVE  /\ found = Ring(d, n + 1)
           /\ Marked(Known(d, n), found, n + 1) = Known(d, n + 1)
<1>1. /\ d \in [V -> 0 .. MaxDist] /\ \A v \in V : d[v] <= k \/ d[v] = MaxDist
      /\ Steps(V, nb, d, k) /\ Steepest(V, nb, d, k)
  BY DEF Metric
<1>2. DOMAIN d = V /\ \A v \in V : d[v] \in 0 .. MaxDist
  BY <1>1
<1>3. ASSUME NEW v \in found PROVE v \in Ring(d, n + 1)
  <2>1. PICK u \in Ring(d, n) : v \in nb[u]
    BY DEF New
  <2>2. u \in V /\ d[u] = n /\ v \in V
    BY <2>1, <1>2 DEF Ring, Closed
  <2>3. d[v] <= n + 1
    BY <2>1, <2>2, <1>1 DEF Steps
  <2>4. Known(d, n)[v] = MaxDist
    BY DEF New
  <2>5. ~ (d[v] <= n)
    BY <2>2, <2>4, <1>2 DEF Known
  <2>6. d[v] = n + 1
    BY <2>2, <2>3, <2>5, <1>2
  <2>7. QED  BY <2>2, <2>6, <1>2 DEF Ring
<1>4. ASSUME NEW v \in Ring(d, n + 1) PROVE v \in found
  <2>1. v \in V /\ d[v] = n + 1
    BY <1>2 DEF Ring
  <2>2. d[v] # 0 /\ d[v] <= k /\ d[v] - 1 = n
    BY <2>1
  <2>3. PICK u \in V : v \in nb[u] /\ d[u] = n
    BY <2>1, <2>2, <1>1 DEF Steepest
  <2>4. u \in Ring(d, n)
    BY <2>3, <1>2 DEF Ring
  <2>5. Known(d, n)[v] = MaxDist
    BY <2>1, <1>2 DEF Known
  <2>6. QED  BY <2>3, <2>4, <2>5 DEF New
<1>5. found = Ring(d, n + 1)
  BY <1>3, <1>4
<1>6. \A v \in V : (IF v \in Ring(d, n + 1) THEN n + 1 ELSE Known(d, n)[v])
                     = Known(d, n + 1)[v]
  BY <1>2 DEF Ring, Known
<1>7. DOMAIN Known(d, n) = V /\ DOMAIN Known(d, n + 1) = V
  BY <1>2 DEF Known
<1>8. Known(d, n + 1) = [v \in V |-> Known(d, n + 1)[v]]
  BY <1>2 DEF Known
<1>9. QED  BY <1>5, <1>6, <1>7, <1>8 DEF Marked

(* A search that finds nothing more has found all there is.                *)
LEMMA HalfDone ==
    ASSUME NEW V, NEW nb, NEW c, NEW d, NEW k \in Nat, k < MaxDist,
           Metric(V, nb, c, d, k), NEW n \in Nat, Ring(d, n) = {}
    PROVE  \A v \in V : n <= d[v] => d[v] = MaxDist
<1>1. /\ d \in [V -> 0 .. MaxDist] /\ \A v \in V : d[v] <= k \/ d[v] = MaxDist
      /\ Steepest(V, nb, d, k)
  BY DEF Metric
<1>2. DOMAIN d = V /\ \A v \in V : d[v] \in 0 .. MaxDist
  BY <1>1
<1> DEFINE F == { d[v] : v \in { w \in V : n <= d[w] /\ d[w] <= k } }
<1>3. SUFFICES ASSUME F # {} PROVE FALSE
  BY <1>1
<1>4. F \subseteq Nat
  BY <1>2
<1>5. PICK l \in F : \A m \in F : l <= m
  <2> HIDE DEF F
  <2>1. QED  BY <1>3, <1>4, LeastOfSet
<1>6. PICK v \in V : l = d[v] /\ n <= d[v] /\ d[v] <= k
  BY <1>5
<1>7. d[v] # n
  BY <1>6, <1>2 DEF Ring
<1>8. d[v] # 0
  BY <1>6, <1>7, <1>2
<1>9. PICK u \in V : d[u] = d[v] - 1
  BY <1>6, <1>8, <1>1 DEF Steepest
<1>10. d[u] \in F
  BY <1>6, <1>7, <1>9, <1>2
<1> HIDE DEF F
<1>11. l <= d[u]
  BY <1>5, <1>10
<1>12. QED  BY <1>6, <1>9, <1>11, <1>2

LEMMA ExtendedLayer ==
    ASSUME NEW V, NEW nb, NEW c, NEW d, NEW k \in Nat, k < MaxDist,
           Metric(V, nb, c, d, k), Closed(V, nb), NEW o \in [V -> Nat],
           NEW h \in Nat, Feeds(V, nb, d, o, h, k), NEW n \in Nat, h <= n,
           NEW found,
           found = { v \in New(Extended(d, o, h, k, n),
                               UNION { nb[u] : u \in Frontier(d, o, h, k, n) }) :
                       o[v] + n + 1 <= k }
    PROVE  /\ found = Frontier(d, o, h, k, n + 1)
           /\ found = { v \in Ring(d, n + 1) : Useful(d, o, h, k, v) }
           /\ Marked(Extended(d, o, h, k, n), found, n + 1)
                = Extended(d, o, h, k, n + 1)
<1>1. /\ d \in [V -> 0 .. MaxDist] /\ \A v \in V : d[v] <= k \/ d[v] = MaxDist
      /\ Steps(V, nb, d, k) /\ Steepest(V, nb, d, k)
  BY DEF Metric
<1>2. DOMAIN d = V /\ \A v \in V : d[v] \in 0 .. MaxDist /\ o[v] \in Nat
  BY <1>1
<1>3. ASSUME NEW v \in found
      PROVE  v \in Ring(d, n + 1) /\ Useful(d, o, h, k, v)
  <2>1. PICK u \in Frontier(d, o, h, k, n) : v \in nb[u]
    BY DEF New
  <2>2. u \in V /\ d[u] = n /\ v \in V
    BY <2>1, <1>2 DEF Frontier, Ring, Closed
  <2>3. o[v] + n + 1 <= k /\ Extended(d, o, h, k, n)[v] = MaxDist
    BY DEF New
  <2>4. n < k
    BY <2>2, <2>3, <1>2
  <2>5. d[v] <= n + 1
    BY <2>1, <2>2, <2>4, <1>1 DEF Steps
  <2>6. ~ (d[v] <= h)
    <3>1. d[v] <= h => Extended(d, o, h, k, n)[v] = d[v]
      BY <2>2, <1>2 DEF Extended
    <3>2. d[v] # MaxDist
      BY <2>2, <2>4, <2>5, <1>2
    <3>3. QED  BY <3>1, <3>2, <2>3
  <2>7. ~ (d[v] <= n)
    <3>1. d[v] <= n => d[v] + o[v] <= k
      BY <2>2, <2>3, <1>2
    <3>2. d[v] <= n => Useful(d, o, h, k, v)
      BY <3>1, <2>2, <2>6, <1>2 DEF Useful
    <3>3. d[v] <= n => Extended(d, o, h, k, n)[v] = d[v]
      BY <3>2, <2>2, <1>2 DEF Extended
    <3>4. d[v] # MaxDist
      BY <2>2, <2>4, <2>5, <1>2
    <3>5. QED  BY <3>3, <3>4, <2>3
  <2>8. d[v] = n + 1
    BY <2>2, <2>5, <2>7, <1>2
  <2>9. d[v] + o[v] <= k /\ h < d[v]
    BY <2>2, <2>3, <2>8, <1>2
  <2>10. QED  BY <2>2, <2>8, <2>9, <1>2 DEF Ring, Useful
<1>4. ASSUME NEW v \in Ring(d, n + 1), Useful(d, o, h, k, v) PROVE v \in found
  <2>1. v \in V /\ d[v] = n + 1 /\ d[v] + o[v] <= k
    BY <1>2, <1>4 DEF Ring, Useful
  <2>2. d[v] # 0 /\ d[v] <= k /\ d[v] - 1 = n /\ o[v] + n + 1 <= k
    BY <2>1, <1>2
  <2>3. PICK u \in V : v \in nb[u] /\ d[u] = n
    BY <2>1, <2>2, <1>1 DEF Steepest
  <2>4. u \in Frontier(d, o, h, k, n)
    <3>1. u \in Ring(d, n)
      BY <2>3, <1>2 DEF Ring
    <3>2. n = h \/ h < d[u]
      BY <2>3
    <3>3. h < d[u] => d[u] + o[u] <= k
      BY <2>1, <2>3 DEF Feeds
    <3>4. QED  BY <3>1, <3>2, <3>3 DEF Frontier, Useful
  <2>5. Extended(d, o, h, k, n)[v] = MaxDist
    BY <2>1, <1>2 DEF Extended
  <2>6. QED  BY <2>2, <2>3, <2>4, <2>5 DEF New
<1>5. found = { v \in Ring(d, n + 1) : Useful(d, o, h, k, v) }
  <2>1. \A v \in found : v \in Ring(d, n + 1) /\ Useful(d, o, h, k, v)
    BY <1>3
  <2>2. \A v \in Ring(d, n + 1) : Useful(d, o, h, k, v) => v \in found
    BY <1>4
  <2>3. QED  BY <2>1, <2>2
<1>6. Frontier(d, o, h, k, n + 1) = { v \in Ring(d, n + 1) : Useful(d, o, h, k, v) }
  BY DEF Frontier
<1>7. \A v \in V : (IF v \in found THEN n + 1 ELSE Extended(d, o, h, k, n)[v])
                     = Extended(d, o, h, k, n + 1)[v]
  <2> SUFFICES ASSUME NEW v \in V
               PROVE  (IF v \in found THEN n + 1 ELSE Extended(d, o, h, k, n)[v])
                        = Extended(d, o, h, k, n + 1)[v]
    OBVIOUS
  <2>1. v \in found <=> d[v] = n + 1 /\ Useful(d, o, h, k, v)
    BY <1>5, <1>2 DEF Ring
  <2>2. d[v] <= n + 1 <=> d[v] <= n \/ d[v] = n + 1
    BY <1>2
  <2>3. Useful(d, o, h, k, v) => ~ (d[v] <= h)
    BY <1>2 DEF Useful
  <2>4. \A m \in Nat : Extended(d, o, h, k, m)[v]
          = IF d[v] <= h \/ (d[v] <= m /\ Useful(d, o, h, k, v)) THEN d[v] ELSE MaxDist
    BY <1>2 DEF Extended
  <2>5. d[v] = n + 1 => ~ (d[v] <= n)
    OBVIOUS
  <2>6. QED  BY <2>1, <2>2, <2>3, <2>4, <2>5
<1>8. DOMAIN Extended(d, o, h, k, n) = V /\ DOMAIN Extended(d, o, h, k, n + 1) = V
  BY <1>2 DEF Extended
<1>9. Extended(d, o, h, k, n + 1) = [v \in V |-> Extended(d, o, h, k, n + 1)[v]]
  BY <1>2 DEF Extended
<1>10. QED  BY <1>5, <1>6, <1>7, <1>8, <1>9 DEF Marked

LEMMA ExtendedDone ==
    ASSUME NEW V, NEW nb, NEW c, NEW d, NEW k \in Nat, k < MaxDist,
           Metric(V, nb, c, d, k), Closed(V, nb), NEW o \in [V -> Nat],
           NEW h \in Nat, Feeds(V, nb, d, o, h, k), NEW n \in Nat, h <= n,
           Frontier(d, o, h, k, n) = {}
    PROVE  \A v \in V : Useful(d, o, h, k, v) => d[v] < n
<1>1. /\ d \in [V -> 0 .. MaxDist] /\ Steepest(V, nb, d, k)
  BY DEF Metric
<1>2. DOMAIN d = V /\ \A v \in V : d[v] \in 0 .. MaxDist /\ o[v] \in Nat
  BY <1>1
<1> DEFINE F == { d[v] : v \in { w \in V : n <= d[w] /\ Useful(d, o, h, k, w) } }
<1>3. SUFFICES ASSUME F # {} PROVE FALSE
  <2>1. SUFFICES ASSUME NEW v \in V, Useful(d, o, h, k, v) PROVE d[v] < n
    OBVIOUS
  <2>2. d[v] \notin F
    BY <1>3
  <2>3. ~ (n <= d[v])
    BY <2>1, <2>2
  <2>4. QED  BY <2>1, <2>3, <1>2
<1>4. F \subseteq Nat
  BY <1>2
<1>5. PICK l \in F : \A m \in F : l <= m
  <2> HIDE DEF F
  <2>1. QED  BY <1>3, <1>4, LeastOfSet
<1>6. PICK v \in V : l = d[v] /\ n <= d[v] /\ Useful(d, o, h, k, v)
  BY <1>5
<1>7. d[v] # n
  BY <1>6, <1>2 DEF Ring, Frontier
<1>8. n < d[v] /\ d[v] # 0 /\ d[v] <= k /\ d[v] + o[v] <= k
  BY <1>6, <1>7, <1>2 DEF Useful
<1>9. PICK u \in V : v \in nb[u] /\ d[u] = d[v] - 1
  BY <1>8, <1>1 DEF Steepest
<1>10. n <= d[u] /\ d[v] = d[u] + 1
  BY <1>8, <1>9, <1>2
<1>11. CASE h < d[u]
  <2>1. d[u] + o[u] <= k
    BY <1>8, <1>9, <1>10, <1>11 DEF Feeds
  <2>2. d[u] \in F
    BY <2>1, <1>10, <1>11 DEF Useful
  <2> HIDE DEF F
  <2>3. l <= d[u]
    BY <2>2, <1>5
  <2>4. QED  BY <2>3, <1>6, <1>10, <1>2
<1>12. CASE ~ (h < d[u])
  <2>1. d[u] = n /\ n = h
    BY <1>10, <1>12, <1>2
  <2>2. u \in Frontier(d, o, h, k, n)
    BY <2>1, <1>2 DEF Frontier, Ring
  <2>3. QED  BY <2>2
<1>13. QED  BY <1>11, <1>12

-----------------------------------------------------------------------------
(* o is exact up to b, and never wrong.                                    *)
Exact(V, o, d, b) ==
    /\ o \in [V -> 0 .. MaxDist]
    /\ \A v \in V : o[v] = d[v] \/ o[v] = MaxDist
    /\ \A v \in V : d[v] <= b => o[v] = d[v]

LEMMA ExactFeeds ==
    ASSUME NEW V, NEW nb, NEW bn, NEW c, NEW e, NEW d, NEW f, NEW o,
           NEW k \in Nat, k < MaxDist, Closed(V, nb),
           Metric(V, nb, c, d, k), Metric(V, bn, e, f, k),
           \A u \in V : \A v \in nb[u] : u \in bn[v],
           NEW h \in Nat, NEW b \in Nat, k <= h + b, Exact(V, o, f, b)
    PROVE  o \in [V -> Nat] /\ Feeds(V, nb, d, o, h, k)
<1>1. \A v \in V : d[v] \in Nat /\ f[v] \in Nat /\ o[v] \in 0 .. MaxDist
  BY DEF Metric, Exact, MaxDist
<1>2. o \in [V -> Nat]
  BY <1>1 DEF Exact
<1>3. ASSUME NEW u \in V, NEW v \in nb[u], h < d[u], d[v] = d[u] + 1,
             d[v] + o[v] <= k
      PROVE  d[u] + o[u] <= k
  <2>1. v \in V
    BY DEF Closed
  <2>2. o[v] = f[v] /\ f[v] < k /\ f[v] + d[u] + 1 <= k
    <3>1. o[v] < k /\ o[v] # MaxDist
      BY <2>1, <1>1, <1>3
    <3>2. o[v] = f[v]
      BY <3>1, <2>1 DEF Exact
    <3>3. QED  BY <3>1, <3>2, <2>1, <1>1, <1>3
  <2>3. f[u] <= f[v] + 1
    BY <2>1, <2>2 DEF Metric, Steps
  <2>4. f[u] <= b /\ d[u] + f[u] <= k
    BY <2>1, <2>2, <2>3, <1>1, <1>3
  <2>5. o[u] = f[u]
    BY <2>4 DEF Exact
  <2>6. QED  BY <2>4, <2>5
<1>4. QED  BY <1>2, <1>3 DEF Feeds

LEMMA KnownExact ==
    ASSUME NEW V, NEW d \in [V -> 0 .. MaxDist], NEW n \in Nat
    PROVE  Exact(V, Known(d, n), d, n)
<1>1. \A v \in V : MaxDist \in 0 .. MaxDist
  BY DEF MaxDist
<1>2. QED  BY <1>1 DEF Known, Exact

LEMMA ExtendedExact ==
    ASSUME NEW V, NEW d \in [V -> 0 .. MaxDist], NEW o, NEW h \in Nat, NEW k,
           NEW n
    PROVE  Exact(V, Extended(d, o, h, k, n), d, h)
<1>1. \A v \in V : MaxDist \in 0 .. MaxDist
  BY DEF MaxDist
<1>2. QED  BY <1>1 DEF Extended, Exact

(* The second searches start where the first two stopped.                  *)
LEMMA ExtendedStart ==
    ASSUME NEW V, NEW d \in [V -> 0 .. MaxDist], NEW o, NEW h \in Nat, NEW k
    PROVE  /\ Extended(d, o, h, k, h) = Known(d, h)
           /\ Frontier(d, o, h, k, h) = Ring(d, h)
<1>1. \A v \in V : Extended(d, o, h, k, h)[v] = Known(d, h)[v]
  BY DEF Extended, Known
<1>2. /\ Extended(d, o, h, k, h) = [v \in V |-> Extended(d, o, h, k, h)[v]]
      /\ Known(d, h) = [v \in V |-> Known(d, h)[v]]
  BY DEF Extended, Known
<1>3. QED  BY <1>1, <1>2 DEF Frontier

-----------------------------------------------------------------------------
(* The invariant, phase by phase.                                          *)

Vs == Vertex(Query[qid])
DistS == FromSrc(qid)
DistT == ToDst(qid)

(* The backward search goes at least one layer; the second searches stop   *)
(* one layer before the hop bound, but go one layer in any case.           *)
BackDepth == IF HalfDown >= 1 THEN HalfDown ELSE 1
Last(h)   == IF h + 1 >= K - 1 THEN h + 1 ELSE K - 1

HalfTo  == Known(DistT, BackDepth)
FullSds == Extended(DistS, HalfTo, HalfUp, K, Last(HalfUp))

(* What a search that meets the other one puts into induce.                *)
Met       == { v \in Vs : DistT[v] \in 1 .. layer /\ DistS[v] <= HalfUp }
MetAll    == { v \in Vs : DistT[v] \in 1 .. BackDepth /\ DistS[v] <= HalfUp }
AheadTo(n) == { v \in Vs : DistS[v] <= n /\ Useful(DistS, HalfTo, HalfUp, K, v) }
BackTo(n)  == { v \in Vs : DistT[v] <= n /\ Useful(DistT, FullSds, HalfDown, K, v) }

(* Half of the hops forward from the source ...                            *)
InForward ==
    /\ layer \in 0 .. HalfUp /\ (stop <=> layer >= HalfUp)
    /\ sds = Known(DistS, layer) /\ hfnodes = Ring(DistS, layer)
    /\ sdt = Known(DistT, 0) /\ hbnodes = Ring(DistT, 0)
    /\ induce = {}

(* ... and backward from the target, ...                                   *)
InBackward ==
    /\ layer \in 0 .. BackDepth /\ (stop <=> layer >= BackDepth)
    /\ sds = Known(DistS, HalfUp) /\ hfnodes = Ring(DistS, HalfUp)
    /\ sdt = Known(DistT, layer) /\ hbnodes = Ring(DistT, layer)
    /\ induce = Met

(* ... then forward as far as what was found backward allows, and backward *)
(* as far as what is now known forward allows.                             *)
InForwardOn ==
    /\ layer \in HalfUp .. Last(HalfUp) /\ (stop <=> layer >= Last(HalfUp))
    /\ sds = Extended(DistS, HalfTo, HalfUp, K, layer)
    /\ hfnodes = Frontier(DistS, HalfTo, HalfUp, K, layer)
    /\ sdt = HalfTo /\ hbnodes = Ring(DistT, BackDepth)
    /\ induce = MetAll \cup AheadTo(layer)

(* With k = 1 the backward search has gone one layer and is taken up again *)
(* at layer 0: the source may be marked 1 without being next to the target.*)
InBackwardOn ==
    /\ layer \in HalfDown .. Last(HalfDown) /\ (stop <=> layer >= Last(HalfDown))
    /\ sds = FullSds
    /\ K > 1 => /\ sdt = Extended(DistT, FullSds, HalfDown, K, layer)
                /\ hbnodes = Frontier(DistT, FullSds, HalfDown, K, layer)
                /\ induce = MetAll \cup AheadTo(Last(HalfUp)) \cup BackTo(layer)
    /\ K = 1 => /\ sdt \in [Vs -> 0 .. MaxDist] /\ sdt[Src] # 0 /\ sdt[Dst] = 0
                /\ \A v \in Vs \ {Src} : sdt[v] = HalfTo[v]
                /\ hbnodes \subseteq Vs /\ induce \subseteq Vs

(* What the pruning starts from.                                           *)
Measured(hs, ht) ==
    /\ Exact(Vs, hs, DistS, 0) /\ ht \in [Vs -> 0 .. MaxDist]
    /\ \A v \in Vs : ht[v] = DistT[v] \/ ht[v] = MaxDist \/ (v = Src /\ K = 1)
    /\ ht[Dst] = 0 /\ ht[Src] # 0
    /\ induce \subseteq Vs /\ {Src, Dst} \subseteq induce
    /\ \A v \in Vs \ {Src, Dst} :
         DistS[v] + DistT[v] <= K => v \in induce /\ hs[v] = DistS[v] /\ ht[v] = DistT[v]

SearchInv ==
    /\ qid \in QueryId
    /\ pc = "forward"   => InForward
    /\ pc = "backward"  => InBackward
    /\ pc = "forward+"  => InForwardOn
    /\ pc = "backward+" => InBackwardOn
    /\ pc \in {"prune", "number"} => Measured(sds, sdt)
    /\ pc \in {"forward", "backward", "forward+", "backward+"} =>
         edges = {} /\ nodemap = << >> /\ adj = << >>

LEMMA Halves ==
    ASSUME qid \in QueryId
    PROVE  /\ K \in Nat /\ K >= 1 /\ K < MaxDist
           /\ HalfUp \in Nat /\ HalfDown \in Nat /\ HalfUp + HalfDown = K
           /\ HalfUp >= 1 /\ HalfUp <= K
           /\ BackDepth \in Nat /\ BackDepth >= 1 /\ BackDepth <= K
           /\ HalfDown <= BackDepth
           /\ K > 1 => BackDepth = HalfDown /\ HalfDown >= 1
           /\ K = 1 => BackDepth = 1 /\ HalfDown = 0 /\ HalfUp = 1
<1>1. K \in Nat /\ K >= 1 /\ K < MaxDist
  BY QueryFacts DEF K
<1> DEFINE a == K \div 2
           b == (K + 1) \div 2
<1>2. a \in Nat /\ b \in Nat /\ a + b = K /\ a <= b /\ b <= a + 1
  BY <1>1
<1>3. HalfUp = b /\ HalfDown = a
  BY DEF HalfUp, HalfDown
<1> HIDE DEF a, b
<1>4. BackDepth = IF a >= 1 THEN a ELSE 1
  BY <1>3 DEF BackDepth
<1>5. QED  BY <1>1, <1>2, <1>3, <1>4

LEMMA LastOfHalf ==
    ASSUME qid \in QueryId, NEW h \in Nat, h <= K
    PROVE  /\ Last(h) \in Nat /\ h + 1 <= Last(h) /\ K - 1 <= Last(h)
           /\ Last(h) <= K + 1
           /\ \A n \in Nat : n >= Last(h) <=> n >= h + 1 /\ n >= K - 1
<1>1. K \in Nat
  BY Halves
<1>2. QED  BY <1>1 DEF Last

LEMMA QueryMetrics ==
    ASSUME qid \in QueryId
    PROVE  /\ Metric(Vs, Query[qid].out, Src, DistS, K)
           /\ Metric(Vs, InMap(qid), Dst, DistT, K)
           /\ Closed(Vs, Query[qid].out) /\ Closed(Vs, InMap(qid))
           /\ \A u \in Vs : \A v \in Query[qid].out[u] : u \in InMap(qid)[v]
           /\ \A u \in Vs : \A v \in InMap(qid)[u] : u \in Query[qid].out[v]
           /\ DistS \in [Vs -> 0 .. MaxDist] /\ DistT \in [Vs -> 0 .. MaxDist]
           /\ Src \in Vs /\ Dst \in Vs /\ Src # Dst
           /\ \A v \in Vs : In(v) = InMap(qid)[v] /\ Out(v) = Query[qid].out[v]
<1>1. Closed(Vs, Query[qid].out)
  BY QueryFacts DEF Vs
<1>2. Closed(Vs, InMap(qid))
  BY DEF Closed, InMap, Vs
<1>3. /\ \A u \in Vs : \A v \in Query[qid].out[u] : u \in InMap(qid)[v]
      /\ \A u \in Vs : \A v \in InMap(qid)[u] : u \in Query[qid].out[v]
      /\ \A v \in Vs : In(v) = InMap(qid)[v] /\ Out(v) = Query[qid].out[v]
  BY <1>1 DEF InMap, Vs, In, Out, Closed
<1>4. /\ Metric(Vs, Query[qid].out, Src, DistS, K)
      /\ Metric(Vs, InMap(qid), Dst, DistT, K)
  BY FromSrcMetric, ToDstMetric DEF Vs, Src, Dst, K, DistS, DistT
<1>5. DistS \in [Vs -> 0 .. MaxDist] /\ DistT \in [Vs -> 0 .. MaxDist]
  BY <1>4 DEF Metric
<1>6. Src \in Vs /\ Dst \in Vs /\ Src # Dst
  BY QueryFacts DEF Src, Dst, Vs
<1>7. QED  BY <1>1, <1>2, <1>3, <1>4, <1>5, <1>6

LEMMA SameQuery ==
    ASSUME qid' = qid
    PROVE  /\ K' = K /\ Src' = Src /\ Dst' = Dst /\ Vs' = Vs
           /\ DistS' = DistS /\ DistT' = DistT
           /\ HalfUp' = HalfUp /\ HalfDown' = HalfDown /\ BackDepth' = BackDepth
           /\ HalfTo' = HalfTo /\ FullSds' = FullSds /\ MetAll' = MetAll
           /\ \A n : AheadTo(n)' = AheadTo(n) /\ BackTo(n)' = BackTo(n)
           /\ \A n : Last(n)' = Last(n)
<1>1. /\ K' = K /\ Src' = Src /\ Dst' = Dst /\ Vs' = Vs
      /\ DistS' = DistS /\ DistT' = DistT
  BY DEF K, Src, Dst, Vs, DistS, DistT
<1>2. /\ HalfUp' = HalfUp /\ HalfDown' = HalfDown /\ BackDepth' = BackDepth
      /\ \A n : Last(n)' = Last(n)
  BY <1>1 DEF HalfUp, HalfDown, BackDepth, Last
<1>3. HalfTo' = HalfTo /\ MetAll' = MetAll
  BY <1>1, <1>2 DEF HalfTo, MetAll
<1>4. FullSds' = FullSds
  BY <1>1, <1>2, <1>3 DEF FullSds
<1>5. \A n : AheadTo(n)' = AheadTo(n) /\ BackTo(n)' = BackTo(n)
  BY <1>1, <1>2, <1>3, <1>4 DEF AheadTo, BackTo
<1>6. QED  BY <1>1, <1>2, <1>3, <1>4, <1>5

LEMMA SearchInit == Init => SearchInv
<1> SUFFICES ASSUME Init PROVE SearchInv
  OBVIOUS
<1>1. /\ qid \in QueryId /\ pc = "forward"
      /\ sds = [[v \in Vs |-> MaxDist] EXCEPT ![Src] = 0]
      /\ sdt = [[v \in Vs |-> MaxDist] EXCEPT ![Dst] = 0]
      /\ hfnodes = {Src} /\ hbnodes = {Dst} /\ layer = 0 /\ stop = FALSE
      /\ induce = {} /\ edges = {} /\ nodemap = << >> /\ adj = << >>
  BY DEF Init, Unknown, Vs, Src, Dst
<1>2. HalfUp \in Nat /\ HalfUp >= 1
  BY <1>1, Halves
<1>3. /\ DistS \in [Vs -> 0 .. MaxDist] /\ DistT \in [Vs -> 0 .. MaxDist]
      /\ Src \in Vs /\ Dst \in Vs
      /\ \A v \in Vs : DistS[v] = 0 <=> v = Src
      /\ \A v \in Vs : DistT[v] = 0 <=> v = Dst
  BY <1>1, QueryMetrics DEF Metric
<1>4. \A v \in Vs : /\ DistS[v] \in 0 .. MaxDist /\ (DistS[v] <= 0 <=> v = Src)
                    /\ DistT[v] \in 0 .. MaxDist /\ (DistT[v] <= 0 <=> v = Dst)
  BY <1>3
<1>5. sds = Known(DistS, 0) /\ sdt = Known(DistT, 0)
  <2>1. \A v \in Vs : sds[v] = Known(DistS, 0)[v] /\ sdt[v] = Known(DistT, 0)[v]
    BY <1>1, <1>3, <1>4 DEF Known
  <2>2. /\ DOMAIN sds = Vs /\ sds = [v \in Vs |-> sds[v]]
        /\ DOMAIN sdt = Vs /\ sdt = [v \in Vs |-> sdt[v]]
    BY <1>1
  <2>3. /\ Known(DistS, 0) = [v \in Vs |-> Known(DistS, 0)[v]]
        /\ Known(DistT, 0) = [v \in Vs |-> Known(DistT, 0)[v]]
    BY <1>3 DEF Known
  <2>4. QED  BY <2>1, <2>2, <2>3
<1>6. hfnodes = Ring(DistS, 0) /\ hbnodes = Ring(DistT, 0)
  BY <1>1, <1>3 DEF Ring
<1>7. InForward
  <2>1. layer \in 0 .. HalfUp /\ ~ (layer >= HalfUp)
    BY <1>1, <1>2
  <2>2. (stop <=> layer >= HalfUp)
    BY <1>1, <2>1
  <2>3. QED  BY <1>1, <1>5, <1>6, <2>1, <2>2 DEF InForward
<1>8. QED  BY <1>1, <1>7 DEF SearchInv
(* A layer of a search changes neither the query nor the phase.            *)
LEMMA ForwardKeeps == SearchInv /\ Forward => SearchInv'
<1> SUFFICES ASSUME SearchInv, Forward PROVE SearchInv'
  OBVIOUS
<1>1. /\ qid \in QueryId /\ pc = "forward" /\ InForward /\ ~ stop
      /\ edges = {} /\ nodemap = << >> /\ adj = << >>
  BY DEF SearchInv, Forward, Searching
<1>2. /\ qid' = qid /\ pc' = pc /\ layer' = layer + 1
      /\ stop' = (layer + 1 >= HalfUp)
      /\ UNCHANGED <<sdt, hbnodes, induce, edges, nodemap, adj>>
      /\ hfnodes' = New(sds, UNION { Out(v) : v \in hfnodes })
      /\ sds' = Mark(sds, hfnodes')
  BY DEF Forward
<1>3. K \in Nat /\ K < MaxDist /\ HalfUp \in Nat /\ HalfUp <= K
  BY <1>1, Halves
<1>4. /\ layer \in Nat /\ layer < HalfUp /\ layer + 1 \in 0 .. HalfUp
      /\ layer < K
  BY <1>1, <1>3 DEF InForward
<1>5. sds = Known(DistS, layer) /\ hfnodes = Ring(DistS, layer)
  BY <1>1 DEF InForward
<1>6. /\ Metric(Vs, Query[qid].out, Src, DistS, K) /\ Closed(Vs, Query[qid].out)
      /\ DistS \in [Vs -> 0 .. MaxDist]
      /\ \A v \in Vs : Out(v) = Query[qid].out[v]
  BY <1>1, QueryMetrics
<1>7. UNION { Out(v) : v \in hfnodes } = UNION { Query[qid].out[v] : v \in hfnodes }
  <2>1. hfnodes \subseteq Vs
    BY <1>5, <1>6 DEF Ring
  <2>2. QED  BY <2>1, <1>6
<1>8. /\ hfnodes' = Ring(DistS, layer + 1)
      /\ Marked(sds, hfnodes', layer + 1) = Known(DistS, layer + 1)
  BY <1>2, <1>3, <1>4, <1>5, <1>6, <1>7, HalfLayer
<1>9. sds' = Known(DistS, layer + 1)
  BY <1>2, <1>8 DEF Mark, Marked
<1>10. InForward'
  <2>1. HalfUp' = HalfUp /\ DistS' = DistS /\ DistT' = DistT
    BY <1>2, SameQuery
  <2>2. sdt' = Known(DistT, 0) /\ hbnodes' = Ring(DistT, 0) /\ induce' = {}
    BY <1>1, <1>2 DEF InForward
  <2>3. QED  BY <1>2, <1>4, <1>8, <1>9, <2>1, <2>2 DEF InForward
<1>11. QED  BY <1>1, <1>2, <1>10 DEF SearchInv

LEMMA BackwardKeeps == SearchInv /\ Backward => SearchInv'
<1> SUFFICES ASSUME SearchInv, Backward PROVE SearchInv'
  OBVIOUS
<1>1. /\ qid \in QueryId /\ pc = "backward" /\ InBackward /\ ~ stop
      /\ edges = {} /\ nodemap = << >> /\ adj = << >>
  BY DEF SearchInv, Backward, Searching
<1>2. /\ qid' = qid /\ pc' = pc /\ layer' = layer + 1
      /\ stop' = (layer + 1 >= HalfDown)
      /\ UNCHANGED <<sds, hfnodes, edges, nodemap, adj>>
      /\ hbnodes' = New(sdt, UNION { In(v) : v \in hbnodes })
      /\ sdt' = Mark(sdt, hbnodes')
      /\ induce' = induce \cup { v \in hbnodes' : sds[v] # MaxDist }
  BY DEF Backward
<1>3. /\ K \in Nat /\ K < MaxDist /\ HalfDown \in Nat /\ BackDepth \in Nat
      /\ BackDepth >= 1 /\ BackDepth <= K /\ HalfUp \in Nat /\ HalfUp <= K
      /\ BackDepth = IF HalfDown >= 1 THEN HalfDown ELSE 1
  BY <1>1, Halves DEF BackDepth
<1>4. /\ layer \in Nat /\ layer < BackDepth /\ layer + 1 \in 0 .. BackDepth
      /\ layer < K
  BY <1>1, <1>3 DEF InBackward
<1>5. sdt = Known(DistT, layer) /\ hbnodes = Ring(DistT, layer)
  BY <1>1 DEF InBackward
<1>6. /\ Metric(Vs, InMap(qid), Dst, DistT, K) /\ Closed(Vs, InMap(qid))
      /\ DistT \in [Vs -> 0 .. MaxDist] /\ DistS \in [Vs -> 0 .. MaxDist]
      /\ \A v \in Vs : In(v) = InMap(qid)[v]
  BY <1>1, QueryMetrics
<1>7. UNION { In(v) : v \in hbnodes } = UNION { InMap(qid)[v] : v \in hbnodes }
  <2>1. hbnodes \subseteq Vs
    BY <1>5, <1>6 DEF Ring
  <2>2. QED  BY <2>1, <1>6
<1>8. /\ hbnodes' = Ring(DistT, layer + 1)
      /\ Marked(sdt, hbnodes', layer + 1) = Known(DistT, layer + 1)
  BY <1>2, <1>3, <1>4, <1>5, <1>6, <1>7, HalfLayer
<1>9. sdt' = Known(DistT, layer + 1)
  BY <1>2, <1>8 DEF Mark, Marked
<1>10. stop' = (layer + 1 >= BackDepth)
  <2>1. (layer + 1 >= HalfDown) <=> (layer + 1 >= BackDepth)
    BY <1>3, <1>4
  <2>2. QED  BY <2>1, <1>2
<1>11. induce' = { v \in Vs : DistT[v] \in 1 .. layer + 1 /\ DistS[v] <= HalfUp }
  <2>1. induce = { v \in Vs : DistT[v] \in 1 .. layer /\ DistS[v] <= HalfUp }
    BY <1>1 DEF InBackward, Met
  <2>2. \A v \in Vs : sds[v] # MaxDist <=> DistS[v] <= HalfUp
    <3>1. sds = Known(DistS, HalfUp)
      BY <1>1 DEF InBackward
    <3>2. \A v \in Vs : DistS[v] \in 0 .. MaxDist
      BY <1>6
    <3>3. \A v \in Vs : sds[v] = IF DistS[v] <= HalfUp THEN DistS[v] ELSE MaxDist
      BY <3>1, <1>6 DEF Known
    <3>4. HalfUp < MaxDist /\ MaxDist \in Nat
      BY <1>3 DEF MaxDist
    <3>5. QED  BY <3>2, <3>3, <3>4, <1>3
  <2>3. \A v \in Vs : v \in hbnodes' <=> DistT[v] = layer + 1
    BY <1>6, <1>8 DEF Ring
  <2>4. hbnodes' \subseteq Vs
    BY <1>6, <1>8 DEF Ring
  <2>5. \A v \in Vs : DistT[v] \in 1 .. layer + 1
                        <=> DistT[v] \in 1 .. layer \/ DistT[v] = layer + 1
    BY <1>4, <1>6
  <2>6. QED  BY <1>2, <2>1, <2>2, <2>3, <2>4, <2>5
<1>12. InBackward'
  <2>1. /\ HalfUp' = HalfUp /\ DistS' = DistS /\ DistT' = DistT
        /\ BackDepth' = BackDepth /\ Vs' = Vs
    BY <1>2, SameQuery
  <2>2. sds' = Known(DistS, HalfUp) /\ hfnodes' = Ring(DistS, HalfUp)
    BY <1>1, <1>2 DEF InBackward
  <2>3. induce' = Met'
    BY <1>2, <1>11, <2>1 DEF Met
  <2>4. QED  BY <1>2, <1>4, <1>8, <1>9, <1>10, <2>1, <2>2, <2>3 DEF InBackward
<1>13. QED  BY <1>1, <1>2, <1>12 DEF SearchInv

LEMMA QueryFeeds ==
    ASSUME qid \in QueryId
    PROVE  /\ Exact(Vs, HalfTo, DistT, BackDepth) /\ HalfTo \in [Vs -> Nat]
           /\ Feeds(Vs, Query[qid].out, DistS, HalfTo, HalfUp, K)
           /\ Exact(Vs, FullSds, DistS, HalfUp) /\ FullSds \in [Vs -> Nat]
           /\ Feeds(Vs, InMap(qid), DistT, FullSds, HalfDown, K)
<1>1. /\ K \in Nat /\ K < MaxDist /\ HalfUp \in Nat /\ HalfDown \in Nat
      /\ BackDepth \in Nat /\ K <= HalfUp + BackDepth /\ K <= HalfDown + HalfUp
  BY Halves
<1>2. /\ Metric(Vs, Query[qid].out, Src, DistS, K)
      /\ Metric(Vs, InMap(qid), Dst, DistT, K)
      /\ Closed(Vs, Query[qid].out) /\ Closed(Vs, InMap(qid))
      /\ \A u \in Vs : \A v \in Query[qid].out[u] : u \in InMap(qid)[v]
      /\ \A u \in Vs : \A v \in InMap(qid)[u] : u \in Query[qid].out[v]
      /\ DistS \in [Vs -> 0 .. MaxDist] /\ DistT \in [Vs -> 0 .. MaxDist]
  BY QueryMetrics
<1>3. Exact(Vs, HalfTo, DistT, BackDepth)
  BY <1>1, <1>2, KnownExact DEF HalfTo
<1>4. HalfTo \in [Vs -> Nat] /\ Feeds(Vs, Query[qid].out, DistS, HalfTo, HalfUp, K)
  BY <1>1, <1>2, <1>3, ExactFeeds
<1>5. Exact(Vs, FullSds, DistS, HalfUp)
  BY <1>1, <1>2, ExtendedExact DEF FullSds
<1>6. FullSds \in [Vs -> Nat] /\ Feeds(Vs, InMap(qid), DistT, FullSds, HalfDown, K)
  BY <1>1, <1>2, <1>5, ExactFeeds
<1>7. QED  BY <1>3, <1>4, <1>5, <1>6

LEMMA ForwardOnKeeps == SearchInv /\ ForwardOn => SearchInv'
<1> SUFFICES ASSUME SearchInv, ForwardOn PROVE SearchInv'
  OBVIOUS
<1>1. /\ qid \in QueryId /\ pc = "forward+" /\ InForwardOn /\ ~ stop
      /\ edges = {} /\ nodemap = << >> /\ adj = << >>
  BY DEF SearchInv, ForwardOn, Searching
<1>2. /\ qid' = qid /\ pc' = pc /\ layer' = layer + 1
      /\ stop' = (layer + 1 >= K - 1)
      /\ UNCHANGED <<sdt, hbnodes, edges, nodemap, adj>>
      /\ hfnodes' = { v \in New(sds, UNION { Out(u) : u \in hfnodes }) :
                        sdt[v] + layer + 1 <= K }
      /\ sds' = Mark(sds, hfnodes')
      /\ induce' = induce \cup hfnodes'
  BY DEF ForwardOn, Reaches
<1>3. K \in Nat /\ K < MaxDist /\ HalfUp \in Nat /\ HalfUp <= K
  BY <1>1, Halves
<1>4. /\ Last(HalfUp) \in Nat
      /\ \A n \in Nat : n >= Last(HalfUp) <=> n >= HalfUp + 1 /\ n >= K - 1
  BY <1>1, <1>3, LastOfHalf
<1>5. /\ layer \in Nat /\ HalfUp <= layer /\ layer < Last(HalfUp)
      /\ layer + 1 \in HalfUp .. Last(HalfUp)
  BY <1>1, <1>3, <1>4 DEF InForwardOn
<1>6. /\ sds = Extended(DistS, HalfTo, HalfUp, K, layer) /\ sdt = HalfTo
      /\ hfnodes = Frontier(DistS, HalfTo, HalfUp, K, layer)
      /\ hbnodes = Ring(DistT, BackDepth) /\ induce = MetAll \cup AheadTo(layer)
  BY <1>1 DEF InForwardOn
<1>7. /\ Metric(Vs, Query[qid].out, Src, DistS, K) /\ Closed(Vs, Query[qid].out)
      /\ DistS \in [Vs -> 0 .. MaxDist]
      /\ \A v \in Vs : Out(v) = Query[qid].out[v]
      /\ HalfTo \in [Vs -> Nat]
      /\ Feeds(Vs, Query[qid].out, DistS, HalfTo, HalfUp, K)
  BY <1>1, QueryMetrics, QueryFeeds
<1>8. UNION { Out(v) : v \in hfnodes } = UNION { Query[qid].out[v] : v \in hfnodes }
  <2>1. hfnodes \subseteq Vs
    BY <1>6, <1>7 DEF Ring, Frontier
  <2>2. QED  BY <2>1, <1>7
<1>9. /\ hfnodes' = Frontier(DistS, HalfTo, HalfUp, K, layer + 1)
      /\ hfnodes' = { v \in Ring(DistS, layer + 1) : Useful(DistS, HalfTo, HalfUp, K, v) }
      /\ Marked(sds, hfnodes', layer + 1)
           = Extended(DistS, HalfTo, HalfUp, K, layer + 1)
  <2>1. hfnodes' = { v \in New(Extended(DistS, HalfTo, HalfUp, K, layer),
                         UNION { Query[qid].out[u] :
                                 u \in Frontier(DistS, HalfTo, HalfUp, K, layer) }) :
                       HalfTo[v] + layer + 1 <= K }
    BY <1>2, <1>6, <1>8
  <2>2. /\ hfnodes' = Frontier(DistS, HalfTo, HalfUp, K, layer + 1)
        /\ hfnodes' = { v \in Ring(DistS, layer + 1) : Useful(DistS, HalfTo, HalfUp, K, v) }
        /\ Marked(Extended(DistS, HalfTo, HalfUp, K, layer), hfnodes', layer + 1)
             = Extended(DistS, HalfTo, HalfUp, K, layer + 1)
    BY <2>1, <1>3, <1>5, <1>7, ExtendedLayer
  <2>3. QED  BY <2>2, <1>6
<1>10. sds' = Extended(DistS, HalfTo, HalfUp, K, layer + 1)
  BY <1>2, <1>9 DEF Mark, Marked
<1>11. stop' = (layer + 1 >= Last(HalfUp))
  <2>1. (layer + 1 >= K - 1) <=> (layer + 1 >= Last(HalfUp))
    BY <1>3, <1>4, <1>5
  <2>2. QED  BY <2>1, <1>2
<1>12. induce' = MetAll \cup AheadTo(layer + 1)
  <2>1. \A v \in Vs : DistS[v] <= layer + 1 <=> DistS[v] <= layer \/ DistS[v] = layer + 1
    BY <1>5, <1>7
  <2>2. AheadTo(layer + 1) = AheadTo(layer) \cup hfnodes'
    BY <2>1, <1>7, <1>9 DEF AheadTo, Ring
  <2>3. QED  BY <2>2, <1>2, <1>6
<1>13. InForwardOn'
  <2>1. /\ HalfUp' = HalfUp /\ DistS' = DistS /\ DistT' = DistT /\ K' = K
        /\ BackDepth' = BackDepth /\ HalfTo' = HalfTo /\ MetAll' = MetAll
        /\ \A n : AheadTo(n)' = AheadTo(n) /\ Last(n)' = Last(n)
    BY <1>2, SameQuery
  <2>2. Last(HalfUp)' = Last(HalfUp)
    BY <2>1 DEF Last
  <2>3. AheadTo(layer)' = AheadTo(layer + 1)
    BY <1>2, <2>1, SameQuery DEF AheadTo
  <2>4. QED  BY <1>2, <1>5, <1>6, <1>9, <1>10, <1>11, <1>12, <2>1, <2>2, <2>3
             DEF InForwardOn
<1>14. QED  BY <1>1, <1>2, <1>13 DEF SearchInv

LEMMA BackwardOnKeeps == SearchInv /\ BackwardOn => SearchInv'
<1> SUFFICES ASSUME SearchInv, BackwardOn PROVE SearchInv'
  OBVIOUS
<1>1. /\ qid \in QueryId /\ pc = "backward+" /\ InBackwardOn /\ ~ stop
      /\ edges = {} /\ nodemap = << >> /\ adj = << >>
  BY DEF SearchInv, BackwardOn, Searching
<1>2. /\ qid' = qid /\ pc' = pc /\ layer' = layer + 1
      /\ stop' = (layer + 1 >= K - 1)
      /\ UNCHANGED <<sds, hfnodes, edges, nodemap, adj>>
      /\ hbnodes' = { v \in New(sdt, UNION { In(u) : u \in hbnodes }) :
                        sds[v] + layer + 1 <= K }
      /\ sdt' = Mark(sdt, hbnodes')
      /\ induce' = induce \cup hbnodes'
  BY DEF BackwardOn, Reaches
<1>3. /\ K \in Nat /\ K >= 1 /\ K < MaxDist /\ HalfDown \in Nat /\ HalfDown <= K
      /\ K = 1 => HalfDown = 0 /\ HalfUp = 1 /\ BackDepth = 1
  BY <1>1, Halves
<1>4. /\ Last(HalfDown) \in Nat
      /\ \A n \in Nat : n >= Last(HalfDown) <=> n >= HalfDown + 1 /\ n >= K - 1
  BY <1>1, <1>3, LastOfHalf
<1>5. /\ layer \in Nat /\ HalfDown <= layer /\ layer < Last(HalfDown)
      /\ layer + 1 \in HalfDown .. Last(HalfDown)
  BY <1>1, <1>3, <1>4 DEF InBackwardOn
<1>6. /\ Metric(Vs, InMap(qid), Dst, DistT, K) /\ Closed(Vs, InMap(qid))
      /\ DistT \in [Vs -> 0 .. MaxDist]
      /\ \A v \in Vs : In(v) = InMap(qid)[v]
      /\ FullSds \in [Vs -> Nat]
      /\ Feeds(Vs, InMap(qid), DistT, FullSds, HalfDown, K)
  BY <1>1, QueryMetrics, QueryFeeds
<1>7. stop' = (layer + 1 >= Last(HalfDown))
  <2>1. (layer + 1 >= K - 1) <=> (layer + 1 >= Last(HalfDown))
    BY <1>3, <1>4, <1>5
  <2>2. QED  BY <2>1, <1>2
<1>8. /\ HalfUp' = HalfUp /\ DistS' = DistS /\ DistT' = DistT /\ K' = K
      /\ HalfDown' = HalfDown /\ Vs' = Vs /\ Src' = Src /\ Dst' = Dst
      /\ HalfTo' = HalfTo /\ MetAll' = MetAll /\ FullSds' = FullSds
  BY <1>2, SameQuery
<1>9. Last(HalfDown)' = Last(HalfDown) /\ Last(HalfUp)' = Last(HalfUp)
  BY <1>8 DEF Last
<1>10. sds' = FullSds
  BY <1>1, <1>2 DEF InBackwardOn
<1>11. CASE K > 1
  <2>1. /\ sds = FullSds
        /\ sdt = Extended(DistT, FullSds, HalfDown, K, layer)
        /\ hbnodes = Frontier(DistT, FullSds, HalfDown, K, layer)
        /\ induce = MetAll \cup AheadTo(Last(HalfUp)) \cup BackTo(layer)
    BY <1>1, <1>11 DEF InBackwardOn
  <2>2. UNION { In(v) : v \in hbnodes } = UNION { InMap(qid)[v] : v \in hbnodes }
    <3>1. hbnodes \subseteq Vs
      BY <2>1, <1>6 DEF Ring, Frontier
    <3>2. QED  BY <3>1, <1>6
  <2>3. hbnodes' = { v \in New(Extended(DistT, FullSds, HalfDown, K, layer),
                         UNION { InMap(qid)[u] :
                                 u \in Frontier(DistT, FullSds, HalfDown, K, layer) }) :
                       FullSds[v] + layer + 1 <= K }
    BY <1>2, <2>1, <2>2
  <2>4. /\ hbnodes' = Frontier(DistT, FullSds, HalfDown, K, layer + 1)
        /\ hbnodes' = { v \in Ring(DistT, layer + 1) : Useful(DistT, FullSds, HalfDown, K, v) }
        /\ Marked(Extended(DistT, FullSds, HalfDown, K, layer), hbnodes', layer + 1)
             = Extended(DistT, FullSds, HalfDown, K, layer + 1)
    BY <2>3, <1>3, <1>5, <1>6, ExtendedLayer
  <2>5. sdt' = Extended(DistT, FullSds, HalfDown, K, layer + 1)
    BY <1>2, <2>1, <2>4 DEF Mark, Marked
  <2>6. induce' = MetAll \cup AheadTo(Last(HalfUp)) \cup BackTo(layer + 1)
    <3>1. \A v \in Vs : DistT[v] <= layer + 1 <=> DistT[v] <= layer \/ DistT[v] = layer + 1
      BY <1>5, <1>6
    <3>2. BackTo(layer + 1) = BackTo(layer) \cup hbnodes'
      BY <3>1, <1>6, <2>4 DEF BackTo, Ring
    <3>3. QED  BY <3>2, <1>2, <2>1
  <2>7. /\ AheadTo(Last(HalfUp))' = AheadTo(Last(HalfUp))
        /\ BackTo(layer)' = BackTo(layer + 1)
    BY <1>2, <1>8, <1>9 DEF AheadTo, BackTo
  <2>8. ~ (K = 1)
    BY <1>3, <1>11
  <2>9. InBackwardOn'
    BY <1>2, <1>5, <1>7, <1>8, <1>9, <1>10, <1>11, <2>4, <2>5, <2>6, <2>7, <2>8
       DEF InBackwardOn
  <2>10. QED  BY <1>1, <1>2, <2>9 DEF SearchInv
<1>12. CASE K = 1
  <2>1. /\ sds = FullSds /\ sdt \in [Vs -> 0 .. MaxDist] /\ sdt[Src] # 0 /\ sdt[Dst] = 0
        /\ \A v \in Vs \ {Src} : sdt[v] = HalfTo[v]
        /\ hbnodes \subseteq Vs /\ induce \subseteq Vs
    BY <1>1, <1>12 DEF InBackwardOn
  <2>2. layer = 0
    BY <1>3, <1>5, <1>12 DEF Last
  <2>3. \A v \in Vs : DistS[v] \in Nat /\ (DistS[v] = 0 <=> v = Src) /\ Src # Dst
    BY <1>1, QueryMetrics DEF Metric
  <2>4. hbnodes' \subseteq {Src} \cap Vs
    <3> SUFFICES ASSUME NEW v \in hbnodes' PROVE v = Src /\ v \in Vs
      OBVIOUS
    <3>1. PICK u \in hbnodes : v \in In(u)
      BY <1>2 DEF New
    <3>2. v \in Vs
      BY <3>1 DEF In, Vs
    <3>3. FullSds[v] + 0 + 1 <= 1 /\ FullSds[v] \in Nat
      BY <1>2, <2>1, <2>2, <1>6, <1>12, <3>2
    <3>4. FullSds[v] = 0
      BY <3>3
    <3>5. FullSds[v] = DistS[v] \/ FullSds[v] = MaxDist
      BY <1>1, <3>2, QueryFeeds DEF Exact
    <3>6. v = Src
      BY <2>3, <3>2, <3>4, <3>5 DEF MaxDist
    <3>7. QED  BY <3>2, <3>6
  <2>5. /\ sdt' \in [Vs -> 0 .. MaxDist] /\ sdt'[Src] # 0
        /\ \A v \in Vs \ {Src} : sdt'[v] = sdt[v]
    <3>1. sdt' = [v \in Vs |-> IF v \in hbnodes' THEN 1 ELSE sdt[v]]
      BY <1>2, <2>1, <2>2 DEF Mark
    <3>2. 1 \in 0 .. MaxDist /\ Src \in Vs
      BY <1>1, QueryMetrics DEF MaxDist
    <3>3. QED  BY <3>1, <3>2, <2>1, <2>4
  <2>6. sdt'[Dst] = 0
    BY <2>1, <2>5, <1>1, QueryMetrics
  <2>7. hbnodes' \subseteq Vs /\ induce' \subseteq Vs
    BY <1>2, <2>1, <2>4
  <2>8. ~ (K > 1)
    BY <1>12
  <2>9. InBackwardOn'
    BY <1>2, <1>5, <1>7, <1>8, <1>9, <1>10, <1>12, <2>1, <2>5, <2>6, <2>7, <2>8
       DEF InBackwardOn
  <2>10. QED  BY <1>1, <1>2, <2>9 DEF SearchInv
<1>13. QED  BY <1>3, <1>11, <1>12

LEMMA HalfStops ==
    ASSUME NEW V, NEW nb, NEW c, NEW d, NEW k \in Nat, k < MaxDist,
           Metric(V, nb, c, d, k), NEW n \in Nat, Ring(d, n) = {},
           NEW h \in Nat, n <= h, h <= k
    PROVE  Known(d, n) = Known(d, h) /\ Ring(d, h) = {}
<1>1. \A v \in V : n <= d[v] => d[v] = MaxDist
  BY HalfDone
<1>2. d \in [V -> 0 .. MaxDist] /\ DOMAIN d = V /\ h < MaxDist
  BY DEF Metric, MaxDist
<1>3. \A v \in V : d[v] \in Nat /\ (d[v] <= n \/ n <= d[v]) /\ (d[v] <= n => d[v] <= h)
  BY <1>2
<1>4. \A v \in V : Known(d, n)[v] = Known(d, h)[v]
  BY <1>1, <1>2, <1>3 DEF Known
<1>5. Known(d, n) = [v \in V |-> Known(d, n)[v]] /\ Known(d, h) = [v \in V |-> Known(d, h)[v]]
  BY <1>2 DEF Known
<1>6. \A v \in V : d[v] # h
  BY <1>1, <1>2
<1>7. QED  BY <1>2, <1>4, <1>5, <1>6 DEF Ring

LEMMA ForwardEndKeeps == SearchInv /\ ForwardEnd => SearchInv'
<1> SUFFICES ASSUME SearchInv, ForwardEnd PROVE SearchInv'
  OBVIOUS
<1>1. /\ qid \in QueryId /\ pc = "forward" /\ InForward /\ (hfnodes = {} \/ stop)
      /\ edges = {} /\ nodemap = << >> /\ adj = << >>
  BY DEF SearchInv, ForwardEnd, Searched
<1>2. /\ qid' = qid /\ pc' = "backward" /\ layer' = 0 /\ stop' = FALSE
      /\ UNCHANGED <<sds, sdt, hfnodes, hbnodes, edges, nodemap, adj, induce>>
  BY DEF ForwardEnd, Searched
<1>3. /\ K \in Nat /\ K < MaxDist /\ HalfUp \in Nat /\ HalfUp <= K
      /\ BackDepth \in Nat /\ BackDepth >= 1
  BY <1>1, Halves
<1>4. /\ Metric(Vs, Query[qid].out, Src, DistS, K) /\ DistT \in [Vs -> 0 .. MaxDist]
  BY <1>1, QueryMetrics
<1>5. sds = Known(DistS, HalfUp) /\ hfnodes = Ring(DistS, HalfUp)
  <2>1. /\ layer \in Nat /\ layer <= HalfUp /\ (stop => layer = HalfUp)
        /\ sds = Known(DistS, layer) /\ hfnodes = Ring(DistS, layer)
    BY <1>1, <1>3 DEF InForward
  <2>2. CASE stop
    BY <2>1, <2>2
  <2>3. CASE hfnodes = {}
    <3>1. Known(DistS, layer) = Known(DistS, HalfUp) /\ Ring(DistS, HalfUp) = {}
      BY <2>1, <2>3, <1>3, <1>4, HalfStops
    <3>2. QED  BY <3>1, <2>1, <2>3
  <2>4. QED  BY <2>2, <2>3, <1>1
<1>6. InBackward'
  <2>1. /\ HalfUp' = HalfUp /\ DistS' = DistS /\ DistT' = DistT
        /\ BackDepth' = BackDepth /\ Vs' = Vs
    BY <1>2, SameQuery
  <2>2. Met' = {}
    BY <1>2 DEF Met
  <2>3. 0 \in 0 .. BackDepth /\ ~ (0 >= BackDepth)
    BY <1>3
  <2>4. sdt = Known(DistT, 0) /\ hbnodes = Ring(DistT, 0) /\ induce = {}
    BY <1>1 DEF InForward
  <2>5. QED  BY <1>2, <1>5, <2>1, <2>2, <2>3, <2>4 DEF InBackward
<1>7. QED  BY <1>1, <1>2, <1>6 DEF SearchInv

(* What the backward search leaves.                                        *)
LEMMA BackwardLeaves ==
    ASSUME SearchInv, pc = "backward", hbnodes = {} \/ stop
    PROVE  sdt = HalfTo /\ hbnodes = Ring(DistT, BackDepth) /\ induce = MetAll
<1>1. qid \in QueryId /\ InBackward
  BY DEF SearchInv
<1>2. /\ K \in Nat /\ K < MaxDist /\ HalfUp \in Nat /\ HalfUp <= K
      /\ BackDepth \in Nat /\ BackDepth <= K
  BY <1>1, Halves
<1>3. Metric(Vs, InMap(qid), Dst, DistT, K) /\ DistT \in [Vs -> 0 .. MaxDist]
  BY <1>1, QueryMetrics
<1>4. /\ layer \in Nat /\ layer <= BackDepth /\ (stop => layer = BackDepth)
      /\ sdt = Known(DistT, layer) /\ hbnodes = Ring(DistT, layer)
      /\ induce = Met
  BY <1>1, <1>2 DEF InBackward
<1>5. CASE stop
  BY <1>4, <1>5 DEF Met, MetAll, HalfTo
<1>6. CASE hbnodes = {}
  <2>1. Known(DistT, layer) = HalfTo /\ Ring(DistT, BackDepth) = {}
    BY <1>2, <1>3, <1>4, <1>6, HalfStops DEF HalfTo
  <2>2. \A v \in Vs : layer <= DistT[v] => DistT[v] = MaxDist
    BY <1>2, <1>3, <1>4, <1>6, HalfDone
  <2>3. \A v \in Vs : DistT[v] \in 1 .. layer <=> DistT[v] \in 1 .. BackDepth
    <3>1. \A v \in Vs : DistT[v] \in Nat
      BY <1>3
    <3>2. BackDepth < MaxDist /\ MaxDist \in Nat
      BY <1>2 DEF MaxDist
    <3>3. QED  BY <2>2, <3>1, <3>2, <1>2, <1>4
  <2>4. Met = MetAll
    BY <2>3 DEF Met, MetAll
  <2>5. QED  BY <2>1, <2>4, <1>4, <1>6
<1>7. QED  BY <1>5, <1>6

LEMMA BackwardEndKeeps == SearchInv /\ BackwardEnd => SearchInv'
<1> SUFFICES ASSUME SearchInv, BackwardEnd PROVE SearchInv'
  OBVIOUS
<1>1. /\ qid \in QueryId /\ pc = "backward" /\ InBackward /\ (hbnodes = {} \/ stop)
      /\ edges = {} /\ nodemap = << >> /\ adj = << >>
  BY DEF SearchInv, BackwardEnd, Searched
<1>2. /\ qid' = qid /\ layer' = HalfUp /\ stop' = FALSE
      /\ pc' = "empty" \/ pc' = "forward+"
      /\ UNCHANGED <<sds, sdt, hfnodes, hbnodes, edges, nodemap, adj, induce>>
  BY DEF BackwardEnd, Searched
<1>3. HalfUp \in Nat /\ HalfUp <= K /\ K \in Nat
  BY <1>1, Halves
<1>4. DistS \in [Vs -> 0 .. MaxDist]
  BY <1>1, QueryMetrics
<1>5. Last(HalfUp) \in Nat /\ HalfUp + 1 <= Last(HalfUp)
  BY <1>1, <1>3, LastOfHalf
<1>6. InForwardOn'
  <2>1. /\ HalfUp' = HalfUp /\ DistS' = DistS /\ DistT' = DistT /\ K' = K
        /\ BackDepth' = BackDepth /\ HalfTo' = HalfTo /\ MetAll' = MetAll
    BY <1>2, SameQuery
  <2>2. Last(HalfUp)' = Last(HalfUp)
    BY <2>1 DEF Last
  <2>3. AheadTo(layer)' = {}
    <3>1. AheadTo(layer)' = { v \in Vs : DistS[v] <= HalfUp /\ Useful(DistS, HalfTo, HalfUp, K, v) }
      BY <1>2, <2>1, SameQuery DEF AheadTo
    <3>2. \A v \in Vs : Useful(DistS, HalfTo, HalfUp, K, v) => ~ (DistS[v] <= HalfUp)
      BY <1>3, <1>4 DEF Useful
    <3>3. QED  BY <3>1, <3>2
  <2>4. sdt = HalfTo /\ hbnodes = Ring(DistT, BackDepth) /\ induce = MetAll
    BY <1>1, BackwardLeaves
  <2>5. /\ sds = Extended(DistS, HalfTo, HalfUp, K, HalfUp)
        /\ hfnodes = Frontier(DistS, HalfTo, HalfUp, K, HalfUp)
    BY <1>1, <1>3, <1>4, ExtendedStart DEF InBackward
  <2>6. HalfUp \in HalfUp .. Last(HalfUp) /\ ~ (HalfUp >= Last(HalfUp))
    BY <1>3, <1>5
  <2>7. QED  BY <1>2, <2>1, <2>2, <2>3, <2>4, <2>5, <2>6 DEF InForwardOn
<1>7. QED  BY <1>1, <1>2, <1>6 DEF SearchInv
(* What the second forward search leaves.                                  *)
LEMMA ForwardOnLeaves ==
    ASSUME SearchInv, pc = "forward+", hfnodes = {} \/ stop
    PROVE  sds = FullSds /\ AheadTo(layer) = AheadTo(Last(HalfUp))
<1>1. qid \in QueryId /\ InForwardOn
  BY DEF SearchInv
<1>2. K \in Nat /\ K < MaxDist /\ HalfUp \in Nat /\ HalfUp <= K
  BY <1>1, Halves
<1>3. Last(HalfUp) \in Nat /\ HalfUp <= Last(HalfUp)
  BY <1>1, <1>2, LastOfHalf
<1>4. /\ layer \in Nat /\ HalfUp <= layer /\ layer <= Last(HalfUp)
      /\ stop => layer = Last(HalfUp)
      /\ sds = Extended(DistS, HalfTo, HalfUp, K, layer)
      /\ hfnodes = Frontier(DistS, HalfTo, HalfUp, K, layer)
  BY <1>1, <1>2, <1>3 DEF InForwardOn
<1>5. CASE stop
  BY <1>4, <1>5 DEF FullSds
<1>6. CASE hfnodes = {}
  <2>1. /\ Metric(Vs, Query[qid].out, Src, DistS, K) /\ Closed(Vs, Query[qid].out)
        /\ HalfTo \in [Vs -> Nat] /\ DistS \in [Vs -> 0 .. MaxDist]
        /\ Feeds(Vs, Query[qid].out, DistS, HalfTo, HalfUp, K)
    BY <1>1, QueryMetrics, QueryFeeds
  <2>2. \A v \in Vs : Useful(DistS, HalfTo, HalfUp, K, v) => DistS[v] < layer
    BY <2>1, <1>2, <1>4, <1>6, ExtendedDone
  <2>3. \A v \in Vs : Useful(DistS, HalfTo, HalfUp, K, v) =>
                        DistS[v] <= layer /\ DistS[v] <= Last(HalfUp)
    BY <2>1, <2>2, <1>3, <1>4
  <2>4. AheadTo(layer) = AheadTo(Last(HalfUp))
    BY <2>3 DEF AheadTo
  <2>5. Extended(DistS, HalfTo, HalfUp, K, layer)
          = Extended(DistS, HalfTo, HalfUp, K, Last(HalfUp))
    BY <2>1, <2>3 DEF Extended
  <2>6. QED  BY <2>4, <2>5, <1>4 DEF FullSds
<1>7. QED  BY <1>5, <1>6

LEMMA ForwardOnEndKeeps == SearchInv /\ ForwardOnEnd => SearchInv'
<1> SUFFICES ASSUME SearchInv, ForwardOnEnd PROVE SearchInv'
  OBVIOUS
<1>1. /\ qid \in QueryId /\ pc = "forward+" /\ InForwardOn /\ (hfnodes = {} \/ stop)
      /\ edges = {} /\ nodemap = << >> /\ adj = << >>
  BY DEF SearchInv, ForwardOnEnd, Searched
<1>2. /\ qid' = qid /\ pc' = "backward+" /\ layer' = HalfDown /\ stop' = FALSE
      /\ UNCHANGED <<sds, sdt, hfnodes, hbnodes, edges, nodemap, adj, induce>>
  BY DEF ForwardOnEnd, Searched
<1>3. /\ K \in Nat /\ K < MaxDist /\ HalfDown \in Nat /\ HalfDown <= K
      /\ K > 1 => BackDepth = HalfDown
      /\ BackDepth \in Nat
  BY <1>1, Halves
<1>4. Last(HalfDown) \in Nat /\ HalfDown + 1 <= Last(HalfDown)
  BY <1>1, <1>3, LastOfHalf
<1>5. /\ DistT \in [Vs -> 0 .. MaxDist] /\ DistS \in [Vs -> 0 .. MaxDist]
      /\ Src \in Vs /\ Dst \in Vs /\ Src # Dst
      /\ \A v \in Vs : DistT[v] = 0 <=> v = Dst
  BY <1>1, QueryMetrics DEF Metric
<1>6. /\ sdt = HalfTo /\ hbnodes = Ring(DistT, BackDepth)
      /\ induce = MetAll \cup AheadTo(layer)
  BY <1>1 DEF InForwardOn
<1>7. sds = FullSds /\ AheadTo(layer) = AheadTo(Last(HalfUp))
  BY <1>1, ForwardOnLeaves
<1>8. /\ HalfUp' = HalfUp /\ DistS' = DistS /\ DistT' = DistT /\ K' = K
      /\ HalfDown' = HalfDown /\ Vs' = Vs /\ Src' = Src /\ Dst' = Dst
      /\ HalfTo' = HalfTo /\ MetAll' = MetAll /\ FullSds' = FullSds
  BY <1>2, SameQuery
<1>9. /\ Last(HalfDown)' = Last(HalfDown) /\ Last(HalfUp)' = Last(HalfUp)
      /\ AheadTo(Last(HalfUp))' = AheadTo(Last(HalfUp))
  BY <1>8 DEF Last, AheadTo
<1>10. BackTo(layer)' = {}
  <2>1. BackTo(layer)' = { v \in Vs : DistT[v] <= HalfDown /\ Useful(DistT, FullSds, HalfDown, K, v) }
    BY <1>2, <1>8 DEF BackTo
  <2>2. \A v \in Vs : Useful(DistT, FullSds, HalfDown, K, v) => ~ (DistT[v] <= HalfDown)
    BY <1>3, <1>5 DEF Useful
  <2>3. QED  BY <2>1, <2>2
<1>11. HalfDown \in HalfDown .. Last(HalfDown) /\ ~ (HalfDown >= Last(HalfDown))
  BY <1>3, <1>4
<1>12. ASSUME K > 1
       PROVE  /\ sdt = Extended(DistT, FullSds, HalfDown, K, HalfDown)
              /\ hbnodes = Frontier(DistT, FullSds, HalfDown, K, HalfDown)
  <2>1. sdt = Known(DistT, HalfDown) /\ hbnodes = Ring(DistT, HalfDown)
    BY <1>3, <1>6, <1>12 DEF HalfTo
  <2>2. QED  BY <2>1, <1>3, <1>5, ExtendedStart
<1>13. /\ sdt \in [Vs -> 0 .. MaxDist] /\ sdt[Src] # 0 /\ sdt[Dst] = 0
       /\ \A v \in Vs \ {Src} : sdt[v] = HalfTo[v]
  <2>1. Exact(Vs, HalfTo, DistT, BackDepth)
    BY <1>1, QueryFeeds
  <2>2. DistT[Src] # 0 /\ DistT[Dst] = 0
    BY <1>5
  <2>3. HalfTo[Src] # 0
    BY <2>1, <2>2, <1>5 DEF Exact, MaxDist
  <2>4. HalfTo[Dst] = 0
    BY <2>1, <2>2, <1>3, <1>5 DEF Exact
  <2>5. QED  BY <2>1, <2>3, <2>4, <1>6 DEF Exact
<1>14. hbnodes \subseteq Vs /\ induce \subseteq Vs
  BY <1>5, <1>6 DEF Ring, MetAll, AheadTo
<1>15. InBackwardOn'
  BY <1>2, <1>6, <1>7, <1>8, <1>9, <1>10, <1>11, <1>12, <1>13, <1>14 DEF InBackwardOn
<1>16. QED  BY <1>1, <1>2, <1>15 DEF SearchInv
(* What the second backward search leaves.                                 *)
LEMMA BackwardOnLeaves ==
    ASSUME SearchInv, pc = "backward+", hbnodes = {} \/ stop, K > 1
    PROVE  /\ sdt = Extended(DistT, FullSds, HalfDown, K, Last(HalfDown))
           /\ BackTo(layer) = BackTo(Last(HalfDown))
<1>1. qid \in QueryId /\ InBackwardOn
  BY DEF SearchInv
<1>2. K \in Nat /\ K < MaxDist /\ HalfDown \in Nat /\ HalfDown <= K
  BY <1>1, Halves
<1>3. Last(HalfDown) \in Nat /\ HalfDown <= Last(HalfDown)
  BY <1>1, <1>2, LastOfHalf
<1>4. /\ layer \in Nat /\ HalfDown <= layer /\ layer <= Last(HalfDown)
      /\ stop => layer = Last(HalfDown)
      /\ sdt = Extended(DistT, FullSds, HalfDown, K, layer)
      /\ hbnodes = Frontier(DistT, FullSds, HalfDown, K, layer)
  BY <1>1, <1>2, <1>3 DEF InBackwardOn
<1>5. CASE stop
  BY <1>4, <1>5
<1>6. CASE hbnodes = {}
  <2>1. /\ Metric(Vs, InMap(qid), Dst, DistT, K) /\ Closed(Vs, InMap(qid))
        /\ FullSds \in [Vs -> Nat] /\ DistT \in [Vs -> 0 .. MaxDist]
        /\ Feeds(Vs, InMap(qid), DistT, FullSds, HalfDown, K)
    BY <1>1, QueryMetrics, QueryFeeds
  <2>2. \A v \in Vs : Useful(DistT, FullSds, HalfDown, K, v) => DistT[v] < layer
    BY <2>1, <1>2, <1>4, <1>6, ExtendedDone
  <2>3. \A v \in Vs : Useful(DistT, FullSds, HalfDown, K, v) =>
                        DistT[v] <= layer /\ DistT[v] <= Last(HalfDown)
    BY <2>1, <2>2, <1>3, <1>4
  <2>4. BackTo(layer) = BackTo(Last(HalfDown))
    BY <2>3 DEF BackTo
  <2>5. Extended(DistT, FullSds, HalfDown, K, layer)
          = Extended(DistT, FullSds, HalfDown, K, Last(HalfDown))
    BY <2>1, <2>3 DEF Extended
  <2>6. QED  BY <2>4, <2>5, <1>4
<1>7. QED  BY <1>5, <1>6

(* A vertex on a short enough way has both distances known in the end:     *)
(* one of them is within its half, and the other is then useful to know.   *)
LEMMA ShortWayKnown ==
    ASSUME qid \in QueryId, NEW v \in Vs \ {Src, Dst}, DistS[v] + DistT[v] <= K,
           NEW ht, ht = Extended(DistT, FullSds, HalfDown, K, Last(HalfDown)), K > 1
    PROVE  /\ v \in MetAll \cup AheadTo(Last(HalfUp)) \cup BackTo(Last(HalfDown))
           /\ FullSds[v] = DistS[v] /\ ht[v] = DistT[v]
<1>1. /\ K \in Nat /\ K < MaxDist /\ HalfUp \in Nat /\ HalfDown \in Nat
      /\ HalfUp <= K /\ HalfDown <= K /\ HalfUp + HalfDown = K
      /\ BackDepth = HalfDown
  BY Halves
<1>2. /\ Last(HalfUp) \in Nat /\ K - 1 <= Last(HalfUp)
      /\ Last(HalfDown) \in Nat /\ K - 1 <= Last(HalfDown)
  BY <1>1, LastOfHalf
<1>3. /\ DistS \in [Vs -> 0 .. MaxDist] /\ DistT \in [Vs -> 0 .. MaxDist]
      /\ \A u \in Vs : DistS[u] = 0 <=> u = Src
      /\ \A u \in Vs : DistT[u] = 0 <=> u = Dst
  BY QueryMetrics DEF Metric
<1>4. /\ v \in Vs /\ DistS[v] \in Nat /\ DistT[v] \in Nat
      /\ DistS[v] >= 1 /\ DistT[v] >= 1
      /\ DistS[v] <= K - 1 /\ DistT[v] <= K - 1
  BY <1>1, <1>3
<1>5. /\ Exact(Vs, HalfTo, DistT, HalfDown) /\ Exact(Vs, FullSds, DistS, HalfUp)
      /\ Exact(Vs, ht, DistT, HalfDown)
  BY <1>1, <1>3, QueryFeeds, ExtendedExact
<1>6. /\ FullSds[v] = IF DistS[v] <= HalfUp
                         \/ (DistS[v] <= Last(HalfUp) /\ Useful(DistS, HalfTo, HalfUp, K, v))
                      THEN DistS[v] ELSE MaxDist
      /\ ht[v] = IF DistT[v] <= HalfDown
                    \/ (DistT[v] <= Last(HalfDown) /\ Useful(DistT, FullSds, HalfDown, K, v))
                 THEN DistT[v] ELSE MaxDist
  BY <1>3, <1>4 DEF FullSds, Extended
<1>7. CASE DistS[v] > HalfUp
  <2>1. DistT[v] <= HalfDown
    BY <1>1, <1>4, <1>7
  <2>2. HalfTo[v] = DistT[v]
    BY <2>1, <1>4, <1>5 DEF Exact
  <2>3. Useful(DistS, HalfTo, HalfUp, K, v) /\ DistS[v] <= Last(HalfUp)
    BY <2>2, <1>1, <1>2, <1>4, <1>7 DEF Useful
  <2>4. v \in AheadTo(Last(HalfUp))
    BY <2>3, <1>4 DEF AheadTo
  <2>5. QED  BY <2>1, <2>3, <2>4, <1>6
<1>8. CASE DistS[v] <= HalfUp /\ DistT[v] <= HalfDown
  <2>1. v \in MetAll
    BY <1>1, <1>4, <1>8 DEF MetAll
  <2>2. QED  BY <2>1, <1>6, <1>8
<1>9. CASE DistT[v] > HalfDown
  <2>1. DistS[v] <= HalfUp
    BY <1>1, <1>4, <1>9
  <2>2. FullSds[v] = DistS[v]
    BY <2>1, <1>4, <1>5 DEF Exact
  <2>3. Useful(DistT, FullSds, HalfDown, K, v) /\ DistT[v] <= Last(HalfDown)
    BY <2>2, <1>1, <1>2, <1>4, <1>9 DEF Useful
  <2>4. v \in BackTo(Last(HalfDown))
    BY <2>3, <1>4 DEF BackTo
  <2>5. QED  BY <2>2, <2>3, <2>4, <1>6
<1>10. QED  BY <1>1, <1>4, <1>7, <1>8, <1>9

LEMMA BackwardOnEndKeeps == SearchInv /\ BackwardOnEnd => SearchInv'
<1> SUFFICES ASSUME SearchInv, BackwardOnEnd PROVE SearchInv'
  OBVIOUS
<1>1. /\ qid \in QueryId /\ pc = "backward+" /\ InBackwardOn /\ (hbnodes = {} \/ stop)
  BY DEF SearchInv, BackwardOnEnd, Searched
<1>2. /\ qid' = qid /\ pc' = "prune" /\ induce' = induce \cup {Src, Dst}
      /\ UNCHANGED <<sds, sdt>>
  BY DEF BackwardOnEnd, Searched
<1>3. K \in Nat /\ K >= 1 /\ HalfUp \in Nat /\ HalfDown \in Nat
  BY <1>1, Halves
<1>4. /\ DistT \in [Vs -> 0 .. MaxDist] /\ DistS \in [Vs -> 0 .. MaxDist]
      /\ Src \in Vs /\ Dst \in Vs /\ Src # Dst
      /\ \A v \in Vs : DistT[v] = 0 <=> v = Dst
      /\ \A v \in Vs : DistS[v] = 0 <=> v = Src
  BY <1>1, QueryMetrics DEF Metric
<1>5. sds = FullSds /\ Exact(Vs, sds, DistS, HalfUp) /\ Exact(Vs, HalfTo, DistT, BackDepth)
  BY <1>1, QueryFeeds DEF InBackwardOn
<1>6. Exact(Vs, sds, DistS, 0)
  BY <1>3, <1>4, <1>5 DEF Exact
<1>7. /\ sdt \in [Vs -> 0 .. MaxDist]
      /\ \A v \in Vs : sdt[v] = DistT[v] \/ sdt[v] = MaxDist \/ (v = Src /\ K = 1)
      /\ sdt[Dst] = 0 /\ sdt[Src] # 0
      /\ induce' \subseteq Vs
      /\ \A v \in Vs \ {Src, Dst} :
           DistS[v] + DistT[v] <= K =>
             v \in induce' /\ sds[v] = DistS[v] /\ sdt[v] = DistT[v]
  <2>1. CASE K > 1
    <3>1. /\ sdt = Extended(DistT, FullSds, HalfDown, K, Last(HalfDown))
          /\ BackTo(layer) = BackTo(Last(HalfDown))
      BY <1>1, <2>1, BackwardOnLeaves
    <3>2. Exact(Vs, sdt, DistT, HalfDown)
      BY <3>1, <1>3, <1>4, ExtendedExact
    <3>3. induce = MetAll \cup AheadTo(Last(HalfUp)) \cup BackTo(layer)
      BY <1>1, <2>1 DEF InBackwardOn
    <3>4. induce' \subseteq Vs
      BY <3>3, <1>2, <1>4 DEF MetAll, AheadTo, BackTo
    <3>5. DistT[Dst] = 0 /\ DistT[Src] # 0
      BY <1>4
    <3>6. sdt[Dst] = 0
      BY <3>2, <3>5, <1>3, <1>4 DEF Exact
    <3>7. sdt[Src] # 0
      BY <3>2, <3>5, <1>4 DEF Exact, MaxDist
    <3>8. ASSUME NEW v \in Vs \ {Src, Dst}, DistS[v] + DistT[v] <= K
          PROVE  v \in induce' /\ sds[v] = DistS[v] /\ sdt[v] = DistT[v]
      <4>1. /\ v \in MetAll \cup AheadTo(Last(HalfUp)) \cup BackTo(Last(HalfDown))
            /\ FullSds[v] = DistS[v] /\ sdt[v] = DistT[v]
        BY <3>1, <3>8, <1>1, <2>1, ShortWayKnown
      <4>2. QED  BY <4>1, <3>1, <3>3, <1>2, <1>5
    <3>9. QED  BY <3>2, <3>4, <3>6, <3>7, <3>8 DEF Exact
  <2>2. CASE K = 1
    <3>1. /\ sdt \in [Vs -> 0 .. MaxDist] /\ sdt[Src] # 0 /\ sdt[Dst] = 0
          /\ \A v \in Vs \ {Src} : sdt[v] = HalfTo[v]
          /\ induce \subseteq Vs
      BY <1>1, <2>2 DEF InBackwardOn
    <3>2. induce' \subseteq Vs
      BY <3>1, <1>2, <1>4
    <3>3. \A v \in Vs : sdt[v] = DistT[v] \/ sdt[v] = MaxDist \/ (v = Src /\ K = 1)
      BY <3>1, <1>5, <2>2 DEF Exact
    <3>4. \A v \in Vs \ {Src, Dst} : ~ (DistS[v] + DistT[v] <= K)
      <4>1. \A v \in Vs \ {Src, Dst} : DistS[v] \in Nat /\ DistT[v] \in Nat
                                       /\ DistS[v] # 0 /\ DistT[v] # 0
        BY <1>4
      <4>2. QED  BY <4>1, <2>2
    <3>5. QED  BY <3>1, <3>2, <3>3, <3>4
  <2>3. QED  BY <1>3, <2>1, <2>2
<1>8. Measured(sds, sdt)'
  <2>1. /\ K' = K /\ Vs' = Vs /\ DistS' = DistS /\ DistT' = DistT
        /\ Src' = Src /\ Dst' = Dst /\ sds' = sds /\ sdt' = sdt
    BY <1>2, SameQuery
  <2>2. {Src, Dst} \subseteq induce'
    BY <1>2
  <2>3. QED  BY <1>6, <1>7, <2>1, <2>2 DEF Measured
<1>9. QED  BY <1>1, <1>2, <1>8 DEF SearchInv

LEMMA PassesKeep ==
    SearchInv /\ (Prune \/ Number \/ CreateCSR \/ Ended \/ UNCHANGED vars) => SearchInv'
<1> SUFFICES ASSUME SearchInv,
                    Prune \/ Number \/ CreateCSR \/ Ended \/ UNCHANGED vars
             PROVE  SearchInv'
  OBVIOUS
<1>1. qid' = qid /\ qid \in QueryId
  BY DEF SearchInv, Prune, Number, CreateCSR, Ended, vars
<1>2. /\ K' = K /\ Vs' = Vs /\ DistS' = DistS /\ DistT' = DistT
      /\ Src' = Src /\ Dst' = Dst /\ HalfUp' = HalfUp /\ HalfDown' = HalfDown
  BY <1>1, SameQuery
<1>3. CASE Prune
  <2>1. /\ Measured(sds, sdt) /\ sds' = sds /\ sdt' = sdt /\ induce' = induce
        /\ pc' = "number"
    BY <1>3 DEF SearchInv, Prune
  <2>2. Measured(sds, sdt)'
    BY <1>2, <2>1 DEF Measured
  <2>3. QED  BY <1>1, <2>1, <2>2 DEF SearchInv
<1>4. CASE Number
  BY <1>1, <1>4 DEF SearchInv, Number
<1>5. CASE CreateCSR
  BY <1>1, <1>5 DEF SearchInv, CreateCSR
<1>6. CASE Ended \/ UNCHANGED vars
  <2>1. /\ qid' = qid /\ pc' = pc /\ sds' = sds /\ sdt' = sdt
        /\ hfnodes' = hfnodes /\ hbnodes' = hbnodes /\ layer' = layer
        /\ stop' = stop /\ induce' = induce /\ edges' = edges
        /\ nodemap' = nodemap /\ adj' = adj
    BY <1>6 DEF Ended, vars
  <2>2. SearchInv' <=> SearchInv
    BY <2>1, SMTT(30) DEF SearchInv, InForward, InBackward, InForwardOn, InBackwardOn, Measured,
         Met, MetAll, AheadTo, BackTo, HalfTo, FullSds, Last, BackDepth, HalfUp,
         HalfDown, K, Src, Dst, DistS, DistT, Vs
  <2>3. QED  BY <2>2
<1>7. QED  BY <1>3, <1>4, <1>5, <1>6

LEMMA SearchStep == SearchInv /\ [Next]_vars => SearchInv'
BY ForwardKeeps, ForwardEndKeeps, BackwardKeeps, BackwardEndKeeps, ForwardOnKeeps,
   ForwardOnEndKeeps, BackwardOnKeeps, BackwardOnEndKeeps, PassesKeep
   DEF Next

LEMMA SearchInvariance == Spec => []SearchInv
BY SearchInit, SearchStep, PTL DEF Spec

(* The half searches leave exact distances of every vertex on a short      *)
(* enough way, on every graph, whatever was not searched.                  *)
THEOREM DistancesAreExact == Spec => []DistancesExact
<1>1. SearchInv => DistancesExact
  <2> SUFFICES ASSUME SearchInv, pc = "prune", NEW v \in Vertex(Query[qid]) \ {Src, Dst},
                      HopsOf[qid][<<Src, v>>] + HopsOf[qid][<<v, Dst>>] <= K
               PROVE  /\ v \in induce /\ sds[v] = HopsOf[qid][<<Src, v>>]
                      /\ sdt[v] = HopsOf[qid][<<v, Dst>>]
    BY DEF DistancesExact
  <2>1. qid \in QueryId /\ Measured(sds, sdt) /\ v \in Vs \ {Src, Dst}
    BY DEF SearchInv, Vs
  <2>2. Src \in Vs /\ Dst \in Vs
    BY <2>1, QueryMetrics
  <2>3. HopsOf[qid][<<Src, v>>] = DistS[v] /\ HopsOf[qid][<<v, Dst>>] = DistT[v]
    BY <2>1, <2>2 DEF HopsOf, DistS, DistT, FromSrc, ToDst, Src, Dst, Vs
  <2>4. QED  BY <2>1, <2>3 DEF Measured
<1>2. QED  BY <1>1, SearchInvariance, PTL

-----------------------------------------------------------------------------
(* The reference paths: those of PathsByHops(..)[n] are the simple walks   *)
(* of n hops from src that have not passed dst.                            *)

(* A walk of n hops still under way, and a whole path of at most k hops.   *)
OpenWalk(V, out, src, dst, n, p) ==
    /\ p \in Seq(V) /\ Len(p) = n + 1 /\ p[1] = src
    /\ Simple(p)
    /\ \A i \in 1 .. n : p[i + 1] \in out[p[i]]
    /\ \A i \in 1 .. n : p[i] # dst
OpenWalks(V, out, src, dst, n) ==
    { p \in Seq(V) : OpenWalk(V, out, src, dst, n, p) }

FullPath(V, out, src, dst, k, p) ==
    /\ p \in Seq(V) /\ Len(p) \in 2 .. k + 1
    /\ p[1] = src /\ End(p) = dst
    /\ Simple(p)
    /\ \A i \in 1 .. Len(p) - 1 : p[i + 1] \in out[p[i]]

LEMMA PathsUnfold ==
    ASSUME NEW V, NEW out, Closed(V, out), NEW src \in V, NEW dst, NEW k \in Nat
    PROVE  /\ PathsByHops(out, src, dst, k)[0] = { <<src>> }
           /\ \A n \in 1 .. k :
                PathsByHops(out, src, dst, k)[n]
                  = Prolonged(out, dst, PathsByHops(out, src, dst, k)[n - 1])
<1> DEFINE X == SUBSET (Seq(V) \ { << >> })
           F == [R \in X |-> Prolonged(out, dst, R)]
           IsIt(f) == f = [n \in 0 .. k |-> IF n = 0 THEN { <<src>> }
                                            ELSE Prolonged(out, dst, f[n - 1])]
<1>1. F \in [X -> X]
  <2>1. ASSUME NEW R \in X PROVE Prolonged(out, dst, R) \in X
    <3>1. SUFFICES ASSUME NEW q \in Prolonged(out, dst, R)
                   PROVE  q \in Seq(V) /\ q # << >>
      OBVIOUS
    <3>9. PICK p \in R : \E v \in out[End(p)] : q = Append(p, v)
      BY <3>1 DEF Prolonged
    <3>2. PICK v \in out[End(p)] : q = Append(p, v)
      BY <3>9
    <3>3. p \in Seq(V) /\ p # << >>
      OBVIOUS
    <3>4. End(p) \in V
      BY <3>3, EmptySeq, LenProperties, ElementOfSeq DEF End
    <3>5. v \in V
      BY <3>4 DEF Closed
    <3>6. q \in Seq(V) /\ Len(q) = Len(p) + 1 /\ Len(p) \in Nat
      BY <3>2, <3>3, <3>5, AppendProperties, LenProperties
    <3>7. Len(<< >>) = 0
      OBVIOUS
    <3>8. QED  BY <3>6, <3>7
  <2> HIDE DEF X
  <2>2. QED  BY <2>1
<1>2. { <<src>> } \in X
  OBVIOUS
<1>3. PICK f \in [0 .. k -> X] : Recursive(f, k, { <<src>> }, F)
  <2> HIDE DEF F, X
  <2>1. QED  BY <1>1, <1>2, RecursionExists
<1>4. IsIt(f)
  <2> HIDE DEF X
  <2>1. \A n \in 1 .. k : F[f[n - 1]] = Prolonged(out, dst, f[n - 1])
    OBVIOUS
  <2> HIDE DEF F
  <2>2. \A n \in 0 .. k : f[n] = IF n = 0 THEN { <<src>> } ELSE Prolonged(out, dst, f[n - 1])
    BY <1>3, <2>1 DEF Recursive
  <2>3. QED  BY <2>2
<1>5. PathsByHops(out, src, dst, k) = CHOOSE g : IsIt(g)
  BY DEF PathsByHops
<1>6. IsIt(PathsByHops(out, src, dst, k))
  <2> HIDE DEF IsIt
  <2>1. QED  BY <1>4, <1>5
<1> DEFINE P == PathsByHops(out, src, dst, k)
           G == [n \in 0 .. k |-> IF n = 0 THEN { <<src>> } ELSE Prolonged(out, dst, P[n - 1])]
<1>7. P = G
  BY <1>6
<1> HIDE DEF P
<1>8. G[0] = { <<src>> } /\ \A n \in 1 .. k : G[n] = Prolonged(out, dst, P[n - 1])
  OBVIOUS
<1> HIDE DEF G
<1>9. P[0] = { <<src>> } /\ \A n \in 1 .. k : P[n] = Prolonged(out, dst, P[n - 1])
  BY <1>7, <1>8
<1>10. QED  BY <1>9 DEF P

(* One hop more.                                                           *)
LEMMA WalkProlonged ==
    ASSUME NEW V, NEW out, Closed(V, out), NEW src \in V, NEW dst, NEW n \in Nat
    PROVE  Prolonged(out, dst, OpenWalks(V, out, src, dst, n))
             = OpenWalks(V, out, src, dst, n + 1)
<1>1. ASSUME NEW q \in Prolonged(out, dst, OpenWalks(V, out, src, dst, n))
      PROVE  OpenWalk(V, out, src, dst, n + 1, q)
  <2>1. PICK p \in OpenWalks(V, out, src, dst, n) :
               End(p) # dst /\ \E v \in out[End(p)] \ Range(p) : q = Append(p, v)
    BY DEF Prolonged
  <2>2. PICK v \in out[End(p)] \ Range(p) : q = Append(p, v)
    BY <2>1
  <2>3. /\ p \in Seq(V) /\ Len(p) = n + 1 /\ p[1] = src /\ Simple(p)
        /\ \A i \in 1 .. n : p[i + 1] \in out[p[i]]
        /\ \A i \in 1 .. n : p[i] # dst
    BY <2>1 DEF OpenWalks, OpenWalk
  <2>4. End(p) = p[n + 1] /\ p[n + 1] \in V
    BY <2>3, RangeMember DEF End
  <2>5. v \in V
    BY <2>4 DEF Closed
  <2>6. /\ q \in Seq(V) /\ Len(q) = n + 2 /\ q[n + 2] = v
        /\ \A i \in 1 .. n + 1 : q[i] = p[i]
    BY <2>2, <2>3, <2>5, AppendProperties
  <2>7. \A i \in 1 .. n + 1 : p[i] # v
    BY <2>3, RangeMember
  <2>8. Simple(q)
    <3> SUFFICES ASSUME NEW a \in 1 .. n + 2, NEW b \in 1 .. n + 2, q[a] = q[b]
                 PROVE  a = b
      BY <2>6 DEF Simple
    <3>1. CASE a <= n + 1 /\ b <= n + 1
      <4>1. a \in 1 .. n + 1 /\ b \in 1 .. n + 1
        BY <3>1
      <4>2. p[a] = p[b]
        BY <4>1, <2>6
      <4>3. QED  BY <4>1, <4>2, <2>3 DEF Simple
    <3>2. CASE a = n + 2 /\ b <= n + 1
      <4>1. b \in 1 .. n + 1
        BY <3>2
      <4>2. QED  BY <4>1, <3>2, <2>6, <2>7
    <3>3. CASE b = n + 2 /\ a <= n + 1
      <4>1. a \in 1 .. n + 1
        BY <3>3
      <4>2. QED  BY <4>1, <3>3, <2>6, <2>7
    <3>4. QED  BY <3>1, <3>2, <3>3
  <2>9. \A i \in 1 .. n + 1 : q[i + 1] \in out[q[i]] /\ q[i] # dst
    <3> SUFFICES ASSUME NEW i \in 1 .. n + 1
                 PROVE  q[i + 1] \in out[q[i]] /\ q[i] # dst
      OBVIOUS
    <3>1. CASE i <= n
      <4>1. i \in 1 .. n /\ i + 1 \in 1 .. n + 1
        BY <3>1
      <4>2. QED  BY <4>1, <2>3, <2>6
    <3>2. CASE i = n + 1
      BY <3>2, <2>1, <2>2, <2>4, <2>6
    <3>3. QED  BY <3>1, <3>2
  <2>10. q[1] = src
    BY <2>3, <2>6
  <2>11. QED  BY <2>6, <2>8, <2>9, <2>10 DEF OpenWalk
<1>2. ASSUME NEW q \in OpenWalks(V, out, src, dst, n + 1)
      PROVE  q \in Prolonged(out, dst, OpenWalks(V, out, src, dst, n))
  <2>1. /\ q \in Seq(V) /\ Len(q) = n + 2 /\ q[1] = src /\ Simple(q)
        /\ \A i \in 1 .. n + 1 : q[i + 1] \in out[q[i]]
        /\ \A i \in 1 .. n + 1 : q[i] # dst
    BY DEF OpenWalks, OpenWalk
  <2> DEFINE p == SubSeq(q, 1, n + 1)
  <2>2. n + 1 \in 1 .. Len(q)
    BY <2>1
  <2>3. p \in Seq(V) /\ Len(p) = n + 1 /\ \A i \in 1 .. n + 1 : p[i] = q[i]
    BY <2>1, <2>2, CutAt
  <2> HIDE DEF p
  <2>4. OpenWalk(V, out, src, dst, n, p)
    <3>1. \A i \in 1 .. n : i \in 1 .. n + 1 /\ i + 1 \in 1 .. n + 1
      OBVIOUS
    <3>2. /\ p[1] = src
          /\ \A i \in 1 .. n : p[i + 1] \in out[p[i]] /\ p[i] # dst
      BY <3>1, <2>1, <2>3
    <3>3. Simple(p)
      <4> SUFFICES ASSUME NEW a \in 1 .. n + 1, NEW b \in 1 .. n + 1, p[a] = p[b]
                   PROVE  a = b
        BY <2>3 DEF Simple
      <4>1. q[a] = q[b] /\ a \in 1 .. Len(q) /\ b \in 1 .. Len(q)
        BY <2>1, <2>3
      <4>2. QED  BY <4>1, <2>1 DEF Simple
    <3>4. QED  BY <2>3, <3>2, <3>3 DEF OpenWalk
  <2>5. End(p) = q[n + 1] /\ End(p) # dst /\ q[n + 2] \in out[End(p)]
    BY <2>1, <2>3 DEF End
  <2>6. q[n + 2] \notin Range(p)
    <3> SUFFICES ASSUME q[n + 2] \in Range(p) PROVE FALSE
      OBVIOUS
    <3>1. PICK i \in 1 .. n + 1 : q[n + 2] = p[i]
      BY <2>3, RangeMember
    <3>2. q[i] = q[n + 2] /\ i \in 1 .. Len(q) /\ n + 2 \in 1 .. Len(q)
      BY <2>1, <2>3, <3>1
    <3>3. i = n + 2
      BY <3>2, <2>1 DEF Simple
    <3>4. QED  BY <3>1, <3>3
  <2>7. q = Append(p, q[n + 2])
    <3> DEFINE r == Append(p, q[n + 2])
    <3>1. q[n + 2] \in V
      BY <2>1, RangeMember
    <3>2. /\ r \in Seq(V) /\ Len(r) = n + 2 /\ r[n + 2] = q[n + 2]
          /\ \A i \in 1 .. n + 1 : r[i] = p[i]
      BY <3>1, <2>3, AppendProperties
    <3> HIDE DEF r
    <3>3. \A i \in 1 .. n + 2 : r[i] = q[i]
      BY <3>2, <2>3
    <3>4. r = q
      BY <3>2, <3>3, <2>1, SeqEqual
    <3>5. QED  BY <3>4 DEF r
  <2>8. p \in OpenWalks(V, out, src, dst, n)
    BY <2>3, <2>4 DEF OpenWalks
  <2>9. QED  BY <2>5, <2>6, <2>7, <2>8 DEF Prolonged
<1>3. \A q \in Prolonged(out, dst, OpenWalks(V, out, src, dst, n)) :
        q \in OpenWalks(V, out, src, dst, n + 1)
  BY <1>1 DEF OpenWalks, OpenWalk
<1>4. QED  BY <1>2, <1>3

LEMMA HopsOfWalks ==
    ASSUME NEW V, NEW out, Closed(V, out), NEW src \in V, NEW dst, NEW k \in Nat,
           NEW n \in 0 .. k
    PROVE  PathsByHops(out, src, dst, k)[n] = OpenWalks(V, out, src, dst, n)
<1> DEFINE P == PathsByHops(out, src, dst, k)
           A == { m \in Nat : m <= k => P[m] = OpenWalks(V, out, src, dst, m) }
<1>1. P[0] = { <<src>> } /\ \A m \in 1 .. k : P[m] = Prolonged(out, dst, P[m - 1])
  BY PathsUnfold
<1> HIDE DEF P
<1>2. 0 \in A
  <2>1. OpenWalk(V, out, src, dst, 0, <<src>>)
    BY DEF OpenWalk, Simple
  <2>2. ASSUME NEW p \in OpenWalks(V, out, src, dst, 0) PROVE p = <<src>>
    <3>1. p \in Seq(V) /\ Len(p) = 1 /\ p[1] = src
      BY DEF OpenWalks, OpenWalk
    <3>2. <<src>> \in Seq(V) /\ Len(<<src>>) = 1 /\ <<src>>[1] = src
      OBVIOUS
    <3>3. \A i \in 1 .. 1 : p[i] = <<src>>[i]
      BY <3>1
    <3>4. QED  BY <3>1, <3>2, <3>3, SeqEqual
  <2>3. <<src>> \in OpenWalks(V, out, src, dst, 0)
    <3>1. <<src>> \in Seq(V)
      BY <2>1 DEF OpenWalk
    <3> HIDE DEF A
    <3>2. QED  BY ONLY <2>1, <3>1 DEF OpenWalks
  <2>5. OpenWalks(V, out, src, dst, 0) = { <<src>> }
    BY <2>2, <2>3
  <2>4. QED  BY <2>5, <1>1
<1>3. ASSUME NEW m \in Nat, m \in A PROVE m + 1 \in A
  <2>1. CASE m + 1 <= k
    <3>1. P[m] = OpenWalks(V, out, src, dst, m)
      BY <2>1, <1>3
    <3>2. m + 1 \in 1 .. k /\ m + 1 - 1 = m
      BY <2>1
    <3>3. P[m + 1] = Prolonged(out, dst, P[m])
      BY <3>2, <1>1
    <3>4. Prolonged(out, dst, OpenWalks(V, out, src, dst, m))
            = OpenWalks(V, out, src, dst, m + 1)
      BY WalkProlonged
    <3>5. QED  BY <3>1, <3>3, <3>4
  <2>2. CASE ~ (m + 1 <= k)
    BY <2>2
  <2>3. QED  BY <2>1, <2>2
<1>4. \A m \in Nat : m \in A
  <2> HIDE DEF A
  <2>1. QED  BY <1>2, <1>3, SetInduction
<1>5. QED  BY <1>4 DEF P

LEMMA SimplePathsAre ==
    ASSUME NEW V, NEW out, Closed(V, out), NEW src \in V, NEW dst, NEW k \in Nat, NEW p
    PROVE  p \in SimplePaths(out, src, dst, k) <=> FullPath(V, out, src, dst, k, p)
<1>1. \A n \in 1 .. k :
        PathsByHops(out, src, dst, k)[n] = OpenWalks(V, out, src, dst, n)
  <2>1. \A n \in 1 .. k : n \in 0 .. k
    OBVIOUS
  <2>2. QED  BY <2>1, HopsOfWalks
<1>2. p \in SimplePaths(out, src, dst, k)
        <=> End(p) = dst /\ \E n \in 1 .. k : p \in OpenWalks(V, out, src, dst, n)
  BY <1>1 DEF SimplePaths
<1>3. ASSUME NEW n \in 1 .. k, p \in OpenWalks(V, out, src, dst, n), End(p) = dst
      PROVE  FullPath(V, out, src, dst, k, p)
  <2>1. /\ p \in Seq(V) /\ Len(p) = n + 1 /\ p[1] = src /\ Simple(p)
        /\ \A i \in 1 .. n : p[i + 1] \in out[p[i]]
    BY <1>3 DEF OpenWalks, OpenWalk
  <2>2. Len(p) \in 2 .. k + 1 /\ Len(p) - 1 = n
    BY <2>1
  <2>3. QED  BY <2>1, <2>2, <1>3 DEF FullPath
<1>4. ASSUME FullPath(V, out, src, dst, k, p)
      PROVE  End(p) = dst /\ \E n \in 1 .. k : p \in OpenWalks(V, out, src, dst, n)
  <2> DEFINE n == Len(p) - 1
  <2>1. /\ p \in Seq(V) /\ Len(p) \in 2 .. k + 1 /\ p[1] = src /\ End(p) = dst
        /\ Simple(p) /\ \A i \in 1 .. n : p[i + 1] \in out[p[i]]
    BY <1>4 DEF FullPath
  <2>2. n \in 1 .. k /\ Len(p) = n + 1
    BY <2>1
  <2>3. \A i \in 1 .. n : p[i] # dst
    <3> SUFFICES ASSUME NEW i \in 1 .. n, p[i] = dst PROVE FALSE
      OBVIOUS
    <3>1. p[i] = p[n + 1] /\ i \in 1 .. Len(p) /\ n + 1 \in 1 .. Len(p)
      BY <2>1, <2>2 DEF End
    <3>2. i = n + 1
      BY <3>1, <2>1 DEF Simple
    <3>3. QED  BY <3>1, <3>2, <2>2
  <2> HIDE DEF n
  <2>4. OpenWalk(V, out, src, dst, n, p)
    BY <2>1, <2>2, <2>3 DEF OpenWalk
  <2>5. QED  BY <2>1, <2>2, <2>4 DEF OpenWalks
<1>5. QED  BY <1>2, <1>3, <1>4

-----------------------------------------------------------------------------
(* A path of the query keeps to the distances of both ends.                *)

QueryPath(p) == FullPath(Vs, Query[qid].out, Src, Dst, K, p)

LEMMA QueryPaths ==
    ASSUME qid \in QueryId, NEW p
    PROVE  p \in PathsOf[qid] <=> QueryPath(p)
<1>1. /\ Closed(Vs, Query[qid].out) /\ Src \in Vs /\ K \in Nat
  BY QueryMetrics, Halves
<1>2. PathsOf[qid] = SimplePaths(Query[qid].out, Src, Dst, K)
  BY DEF PathsOf, Src, Dst, K
<1>3. p \in SimplePaths(Query[qid].out, Src, Dst, K) <=> QueryPath(p)
  BY <1>1, SimplePathsAre DEF QueryPath
<1>4. QED  BY <1>2, <1>3

LEMMA QueryPathElim ==
    ASSUME qid \in QueryId, NEW p, QueryPath(p)
    PROVE  /\ p \in Seq(Vs) /\ Len(p) \in 2 .. K + 1 /\ Len(p) \in Nat
           /\ p[1] = Src /\ p[Len(p)] = Dst
           /\ \A i \in 1 .. Len(p) : p[i] \in Vs
           /\ \A i \in 1 .. Len(p) - 1 : p[i + 1] \in Query[qid].out[p[i]]
           /\ \A a, b \in 1 .. Len(p) : p[a] = p[b] => a = b
<1>1. /\ p \in Seq(Vs) /\ Len(p) \in 2 .. K + 1
      /\ p[1] = Src /\ p[Len(p)] = Dst /\ Simple(p)
      /\ \A i \in 1 .. Len(p) - 1 : p[i + 1] \in Query[qid].out[p[i]]
  BY DEF QueryPath, FullPath, End
<1>2. \A i \in 1 .. Len(p) : p[i] \in Vs
  BY <1>1, RangeMember
<1>3. QED  BY <1>1, <1>2 DEF Simple

LEMMA PathBounds ==
    ASSUME qid \in QueryId, NEW p, QueryPath(p)
    PROVE  /\ \A i \in 1 .. Len(p) : DistS[p[i]] <= i - 1
           /\ \A i \in 1 .. Len(p) : DistT[p[i]] <= Len(p) - i
<1> DEFINE n == Len(p)
<1>1. /\ p \in Seq(Vs) /\ n \in 2 .. K + 1 /\ n \in Nat
      /\ p[1] = Src /\ p[n] = Dst
      /\ \A i \in 1 .. n : p[i] \in Vs
      /\ \A i \in 1 .. n - 1 : p[i + 1] \in Query[qid].out[p[i]]
  BY QueryPathElim
<1>2. /\ K \in Nat /\ DistS[Src] = 0 /\ DistT[Dst] = 0
      /\ \A v \in Vs : DistS[v] \in Nat /\ DistT[v] \in Nat
      /\ \A u \in Vs : \A v \in Query[qid].out[u] :
           /\ DistS[u] < K => DistS[v] <= DistS[u] + 1
           /\ v \in Vs /\ (DistT[v] < K => DistT[u] <= DistT[v] + 1)
  <2>1. Src \in Vs /\ Dst \in Vs
    BY QueryMetrics
  <2>2. K \in Nat /\ DistS[Src] = 0 /\ DistT[Dst] = 0
    BY <2>1, Halves, QueryMetrics DEF Metric
  <2>3. \A v \in Vs : DistS[v] \in Nat /\ DistT[v] \in Nat
    BY QueryMetrics DEF MaxDist
  <2>4. /\ Steps(Vs, Query[qid].out, DistS, K) /\ Steps(Vs, InMap(qid), DistT, K)
        /\ Closed(Vs, Query[qid].out)
        /\ \A u \in Vs : \A v \in Query[qid].out[u] : u \in InMap(qid)[v]
    BY QueryMetrics DEF Metric
  <2>5. QED  BY <2>2, <2>3, <2>4 DEF Steps, Closed
<1> HIDE DEF n
<1>3. \A i \in 1 .. n : DistS[p[i]] <= i - 1
  <2> DEFINE A == { i \in Nat : i + 1 <= n => DistS[p[i + 1]] <= i }
  <2>1. 0 \in A
    BY <1>1, <1>2
  <2>2. ASSUME NEW i \in Nat, i \in A PROVE i + 1 \in A
    <3>1. CASE i + 2 <= n
      <4>1. i + 1 \in 1 .. n - 1 /\ i + 1 \in 1 .. n /\ i + 1 + 1 \in 1 .. n
        BY <3>1, <1>1
      <4>2. DistS[p[i + 1]] <= i /\ i < K
        BY <3>1, <2>2, <1>1, <1>2
      <4>3. p[i + 1] \in Vs /\ p[i + 1 + 1] \in Query[qid].out[p[i + 1]] /\ p[i + 1 + 1] \in Vs
        BY <4>1, <1>1
      <4>4. DistS[p[i + 1]] \in Nat /\ DistS[p[i + 1 + 1]] \in Nat
        BY <4>3, <1>2
      <4>5. DistS[p[i + 1 + 1]] <= DistS[p[i + 1]] + 1
        BY <4>2, <4>3, <4>4, <1>2
      <4>6. DistS[p[i + 1 + 1]] <= i + 1
        BY <4>2, <4>4, <4>5
      <4>7. QED  BY <4>6
    <3>2. CASE ~ (i + 2 <= n)
      BY <3>2, <1>1
    <3>3. QED  BY <3>1, <3>2
  <2>3. \A i \in Nat : i \in A
    <3> HIDE DEF A
    <3>1. QED  BY <2>1, <2>2, SetInduction
  <2>4. ASSUME NEW i \in 1 .. n PROVE DistS[p[i]] <= i - 1
    <3>1. i - 1 \in A /\ i - 1 + 1 = i /\ i <= n
      BY <2>3, <1>1
    <3>2. QED  BY <3>1
  <2>5. QED  BY <2>4
<1>4. \A i \in 1 .. n : DistT[p[i]] <= n - i
  <2> DEFINE A == { j \in Nat : j < n => DistT[p[n - j]] <= j }
  <2>1. 0 \in A
    BY <1>1, <1>2
  <2>2. ASSUME NEW j \in Nat, j \in A PROVE j + 1 \in A
    <3>1. CASE j + 1 < n
      <4> DEFINE a == n - (j + 1)
      <4>1. a \in 1 .. n - 1 /\ a \in 1 .. n /\ a + 1 \in 1 .. n /\ a + 1 = n - j
        BY <3>1, <1>1
      <4>2. DistT[p[a + 1]] <= j /\ j < K
        BY <3>1, <4>1, <2>2, <1>1, <1>2
      <4> HIDE DEF a
      <4>3. p[a] \in Vs /\ p[a + 1] \in Query[qid].out[p[a]] /\ p[a + 1] \in Vs
        BY <4>1, <1>1
      <4>4. DistT[p[a]] \in Nat /\ DistT[p[a + 1]] \in Nat
        BY <4>3, <1>2
      <4>5. DistT[p[a]] <= DistT[p[a + 1]] + 1
        BY <4>2, <4>3, <4>4, <1>2
      <4>6. DistT[p[a]] <= j + 1
        BY <4>2, <4>4, <4>5
      <4>7. QED  BY <4>6 DEF a
    <3>2. CASE ~ (j + 1 < n)
      BY <3>2, <1>1
    <3>3. QED  BY <3>1, <3>2
  <2>3. \A j \in Nat : j \in A
    <3> HIDE DEF A
    <3>1. QED  BY <2>1, <2>2, SetInduction
  <2>4. ASSUME NEW i \in 1 .. n PROVE DistT[p[i]] <= n - i
    <3>1. n - i \in A /\ n - (n - i) = i /\ n - i < n
      BY <2>3, <1>1
    <3>2. QED  BY <3>1
  <2>5. QED  BY <2>4
<1>5. QED  BY <1>3, <1>4 DEF n

(* When the first two searches do not meet there is nothing to find.       *)
LEMMA NothingMet ==
    ASSUME qid \in QueryId, MetAll = {}
    PROVE  PathsOf[qid] = {}
<1> SUFFICES ASSUME NEW p, QueryPath(p) PROVE FALSE
  BY QueryPaths
<1> DEFINE n == Len(p)
           i == IF n > BackDepth THEN n - BackDepth ELSE 1
<1>1. /\ n \in 2 .. K + 1 /\ n \in Nat /\ p[n] = Dst
      /\ \A a \in 1 .. n : p[a] \in Vs
      /\ \A a, b \in 1 .. n : p[a] = p[b] => a = b
  BY QueryPathElim
<1>2. /\ \A a \in 1 .. n : DistS[p[a]] <= a - 1
      /\ \A a \in 1 .. n : DistT[p[a]] <= n - a
  BY PathBounds
<1>3. /\ K \in Nat /\ BackDepth \in Nat /\ BackDepth >= 1 /\ HalfDown <= BackDepth
      /\ HalfUp \in Nat /\ HalfDown \in Nat /\ HalfUp + HalfDown = K
  BY Halves
<1>4. /\ \A v \in Vs : DistS[v] \in Nat /\ DistT[v] \in Nat
      /\ \A v \in Vs : DistT[v] = 0 => v = Dst
  <2>1. Metric(Vs, InMap(qid), Dst, DistT, K)
    BY QueryMetrics
  <2>2. \A v \in Vs : DistT[v] = 0 => v = Dst
    BY <2>1 DEF Metric
  <2>3. QED  BY <2>2, QueryMetrics DEF MaxDist
<1> HIDE DEF n
<1>5. i \in 1 .. n /\ i < n /\ n - i <= BackDepth /\ i - 1 <= HalfUp
  BY <1>1, <1>3
<1> HIDE DEF i
<1>6. p[i] \in Vs /\ p[i] # Dst
  <2>1. n \in 1 .. n
    BY <1>1
  <2>2. p[i] # p[n]
    BY <2>1, <1>1, <1>5
  <2>3. QED  BY <2>2, <1>1, <1>5
<1>7. DistS[p[i]] <= i - 1 /\ DistT[p[i]] <= n - i
  BY <1>2, <1>5
<1>8. DistS[p[i]] \in Nat /\ DistT[p[i]] \in Nat /\ DistT[p[i]] # 0
  BY <1>4, <1>6
<1>9. DistS[p[i]] <= HalfUp /\ DistT[p[i]] \in 1 .. BackDepth
  BY <1>1, <1>3, <1>5, <1>7, <1>8
<1>10. p[i] \in MetAll
  BY <1>6, <1>9 DEF MetAll
<1>11. QED  BY <1>10

-----------------------------------------------------------------------------
(* What pruning keeps.                                                     *)

(* The edges the pruning leaves, as it tests them.                         *)
Kept == { e \in induce \X induce :
            /\ Stays(e[1]) /\ e[1] # Dst
            /\ e[2] \in Out(e[1])
            /\ sds[e[1]] + 1 + sdt[e[2]] <= K }

(* Of the edges E and the distances t, over the vertices B that get a      *)
(* number: only the source may be left without one.                        *)
KeptEdges(E, B) ==
    \A e \in E : /\ e \in Vs \X Vs /\ e[2] \in Query[qid].out[e[1]]
                 /\ e[1] # Dst /\ e[2] \in B /\ (e[1] \in B \/ e[1] = Src)
KeptEnds(E, B) ==
    /\ B \subseteq Vs /\ Dst \in B
    /\ Src \in B => \E e \in E : e[1] = Src
KeptPaths(E) ==
    \A p : QueryPath(p) => \A i \in 1 .. Len(p) - 1 : <<p[i], p[i + 1]>> \in E
KeptDists(E, B, t) ==
    /\ t \in [Vs -> 0 .. MaxDist] /\ t[Dst] = 0
    /\ \A v \in B : /\ t[v] < K
                    /\ t[v] = 0 => v = Dst
                    /\ t[v] = 1 => <<v, Dst>> \in E
    /\ \A e \in E : e[1] \in B => t[e[1]] <= t[e[2]] + 1

(* What is known of the distances at that point.                           *)
LEMMA MeasuredElim ==
    ASSUME qid \in QueryId, Measured(sds, sdt)
    PROVE  /\ sds \in [Vs -> 0 .. MaxDist] /\ sdt \in [Vs -> 0 .. MaxDist]
           /\ \A v \in Vs : sds[v] \in Nat /\ sdt[v] \in Nat
           /\ \A v \in Vs : DistS[v] \in Nat /\ DistT[v] \in Nat
           /\ \A v \in Vs : sds[v] = DistS[v] \/ sds[v] = MaxDist
           /\ \A v \in Vs : sdt[v] = DistT[v] \/ sdt[v] = MaxDist \/ (v = Src /\ K = 1)
           /\ sds[Src] = 0 /\ DistS[Src] = 0 /\ sdt[Dst] = 0 /\ DistT[Dst] = 0 /\ sdt[Src] # 0
           /\ \A v \in Vs : v # Src => DistS[v] # 0
           /\ \A v \in Vs : v # Dst => DistT[v] # 0
           /\ induce \subseteq Vs /\ Src \in induce /\ Dst \in induce
           /\ \A v \in Vs : v # Src /\ v # Dst /\ DistS[v] + DistT[v] <= K =>
                v \in induce /\ sds[v] = DistS[v] /\ sdt[v] = DistT[v]
<1>1. /\ Metric(Vs, Query[qid].out, Src, DistS, K)
      /\ Metric(Vs, InMap(qid), Dst, DistT, K)
      /\ DistS \in [Vs -> 0 .. MaxDist] /\ DistT \in [Vs -> 0 .. MaxDist]
      /\ Src \in Vs /\ Dst \in Vs
  BY QueryMetrics
<1>2. /\ \A v \in Vs : DistS[v] = 0 <=> v = Src
      /\ \A v \in Vs : DistT[v] = 0 <=> v = Dst
  BY <1>1 DEF Metric
<1>3. sds \in [Vs -> 0 .. MaxDist] /\ sdt \in [Vs -> 0 .. MaxDist]
  BY DEF Measured, Exact
<1>4. /\ \A v \in Vs : sds[v] \in Nat /\ sdt[v] \in Nat
      /\ \A v \in Vs : DistS[v] \in Nat /\ DistT[v] \in Nat
  BY <1>1, <1>3 DEF MaxDist
<1>5. /\ \A v \in Vs : sds[v] = DistS[v] \/ sds[v] = MaxDist
      /\ sds[Src] = DistS[Src]
  BY <1>1, <1>2 DEF Measured, Exact
<1>6. QED  BY <1>1, <1>2, <1>3, <1>4, <1>5 DEF Measured

LEMMA StepsOfQuery ==
    ASSUME qid \in QueryId
    PROVE  \A u \in Vs : \A v \in Query[qid].out[u] :
             /\ v \in Vs
             /\ DistS[u] < K => DistS[v] <= DistS[u] + 1
             /\ DistT[v] < K => DistT[u] <= DistT[v] + 1
<1>1. /\ Steps(Vs, Query[qid].out, DistS, K) /\ Steps(Vs, InMap(qid), DistT, K)
      /\ Closed(Vs, Query[qid].out)
      /\ \A u \in Vs : \A v \in Query[qid].out[u] : u \in InMap(qid)[v]
  BY QueryMetrics DEF Metric
<1>2. QED  BY <1>1 DEF Steps, Closed

LEMMA KeptEdge ==
    ASSUME qid \in QueryId, Measured(sds, sdt), NEW e \in Kept
    PROVE  /\ e \in Vs \X Vs /\ e[2] \in Query[qid].out[e[1]]
           /\ e[1] # Dst /\ e[2] \in Bucketed /\ (e[1] \in Bucketed \/ e[1] = Src)
           /\ sds[e[1]] + 1 + sdt[e[2]] <= K
           /\ e[2] # Src => sdt[e[2]] = DistT[e[2]]
<1> DEFINE a == e[1]
           b == e[2]
<1>0. /\ K \in Nat /\ K >= 1 /\ K < MaxDist
  BY Halves
<1>1. /\ a \in induce /\ b \in induce /\ a # Dst /\ Stays(a) /\ b \in Out(a)
      /\ sds[a] + 1 + sdt[b] <= K /\ e \in induce \X induce
  BY DEF Kept
<1>2. /\ a \in Vs /\ b \in Vs /\ e \in Vs \X Vs
      /\ sds[a] \in Nat /\ sds[b] \in Nat /\ sdt[a] \in Nat /\ sdt[b] \in Nat
      /\ DistS[a] \in Nat /\ DistS[b] \in Nat /\ DistT[b] \in Nat
  BY <1>1, MeasuredElim
<1>3. b \in Query[qid].out[a]
  BY <1>1 DEF Out
<1> HIDE DEF a, b
<1>4. sds[a] < K /\ sdt[b] < K /\ sds[a] = DistS[a]
  <2>1. sds[a] < K /\ sdt[b] < K
    BY <1>0, <1>1, <1>2
  <2>2. sds[a] # MaxDist
    BY <2>1, <1>0 DEF MaxDist
  <2>3. QED  BY <2>1, <2>2, <1>2, MeasuredElim
<1>5. b # Src => sdt[b] = DistT[b]
  <2>1. sdt[b] # MaxDist
    BY <1>4, <1>0 DEF MaxDist
  <2>2. QED  BY <2>1, <1>2, MeasuredElim
<1>6. Stays(b)
  <2>1. CASE b \in {Src, Dst}
    BY <2>1 DEF Stays
  <2>2. CASE b \notin {Src, Dst}
    <3>1. b # Src /\ b # Dst
      BY <2>2
    <3>2. DistS[b] <= DistS[a] + 1
      BY <1>2, <1>3, <1>4, StepsOfQuery
    <3>3. DistS[b] + DistT[b] <= K
      BY <3>1, <3>2, <1>0, <1>1, <1>2, <1>4, <1>5
    <3>4. sds[b] = DistS[b] /\ sdt[b] = DistT[b]
      BY <3>1, <3>3, <1>2, MeasuredElim
    <3>5. QED  BY <3>3, <3>4 DEF Stays
  <2>3. QED  BY <2>1, <2>2
<1>7. b \in Bucketed
  BY <1>1, <1>4, <1>6 DEF Bucketed
<1>8. a # Src => a \in Bucketed
  <2> SUFFICES ASSUME a # Src PROVE a \in Bucketed
    OBVIOUS
  <2>1. sds[a] + sdt[a] <= K
    BY <1>1 DEF Stays
  <2>2. sds[a] # 0
    BY <1>2, <1>4, MeasuredElim
  <2>3. sdt[a] < K
    BY <2>1, <2>2, <1>0, <1>2
  <2>4. QED  BY <2>3, <1>1 DEF Bucketed
<1>9. QED
  BY <1>1, <1>2, <1>3, <1>5, <1>7, <1>8 DEF a, b

(* A bucketed vertex other than the ends lies on a short enough walk.      *)
LEMMA BucketedFacts ==
    ASSUME qid \in QueryId, Measured(sds, sdt), NEW v \in Bucketed
    PROVE  /\ v \in Vs /\ v \in induce /\ Stays(v)
           /\ sdt[v] < K /\ sdt[v] \in Nat /\ sdt[v] = DistT[v]
<1>0. /\ K \in Nat /\ K >= 1 /\ K < MaxDist
  BY Halves
<1>1. v \in induce /\ Stays(v) /\ sdt[v] < K
  BY DEF Bucketed
<1>2. v \in Vs /\ sdt[v] \in Nat /\ (v = Src => sdt[v] # 0)
  BY <1>1, MeasuredElim
<1>3. sdt[v] # MaxDist
  BY <1>0, <1>1 DEF MaxDist
<1>4. ~ (v = Src /\ K = 1)
  BY <1>1, <1>2
<1>5. sdt[v] = DistT[v]
  BY <1>2, <1>3, <1>4, MeasuredElim
<1>6. QED  BY <1>1, <1>2, <1>5
(* Bucketed vertices are near enough for their last edge to be kept, and   *)
(* the source, if it has a number, for its first.                          *)
LEMMA KeptHolds ==
    ASSUME qid \in QueryId, Measured(sds, sdt)
    PROVE  /\ KeptEdges(Kept, Bucketed) /\ KeptEnds(Kept, Bucketed)
           /\ KeptPaths(Kept) /\ KeptDists(Kept, Bucketed, sdt)
<1>0. /\ K \in Nat /\ K >= 1 /\ K < MaxDist
  BY Halves
<1>1. KeptEdges(Kept, Bucketed)
  BY KeptEdge DEF KeptEdges
<1>2. Bucketed \subseteq Vs
  BY BucketedFacts
<1>3. Dst \in Bucketed
  <2>1. Dst \in induce /\ sdt[Dst] = 0
    BY MeasuredElim
  <2>2. QED  BY <2>1, <1>0 DEF Bucketed, Stays
<1>4. /\ sds[Src] = 0 /\ sdt[Dst] = 0 /\ Src \in induce /\ Dst \in induce /\ sdt[Src] # 0
      /\ Src \in Vs /\ Dst \in Vs /\ Src # Dst
      /\ \A v \in Vs : sds[v] \in Nat /\ sdt[v] \in Nat
      /\ \A v \in Vs : DistS[v] \in Nat /\ DistT[v] \in Nat
      /\ \A v \in Vs : v # Src /\ v # Dst /\ DistS[v] + DistT[v] <= K =>
           v \in induce /\ sds[v] = DistS[v] /\ sdt[v] = DistT[v]
  BY MeasuredElim, QueryMetrics
<1>5. DistS[Src] = 0 /\ DistT[Dst] = 0
      /\ (\A v \in Vs : v # Dst => DistT[v] # 0)
      /\ (\A v \in Vs : v # Src => DistS[v] # 0)
  BY MeasuredElim
<1>6. ASSUME NEW a \in Vs, NEW b \in Vs, b \in Query[qid].out[a], a \in induce,
             b \in induce, a # Dst, Stays(a), sds[a] + 1 + sdt[b] <= K
      PROVE  <<a, b>> \in Kept
  BY <1>6 DEF Kept, Out
(* the successor of a vertex towards the target                            *)
<1>7. ASSUME NEW a \in Vs, DistT[a] # 0, DistT[a] <= K
      PROVE  \E b \in Vs : b \in Query[qid].out[a] /\ DistT[b] = DistT[a] - 1
  <2>1. Steepest(Vs, InMap(qid), DistT, K)
        /\ \A u \in Vs : \A v \in InMap(qid)[u] : u \in Query[qid].out[v]
    BY QueryMetrics DEF Metric
  <2>2. PICK b \in Vs : a \in InMap(qid)[b] /\ DistT[b] = DistT[a] - 1
    BY <1>7, <2>1 DEF Steepest
  <2>3. b \in Query[qid].out[a]
    BY <2>1, <2>2
  <2>4. QED  BY <2>2, <2>3
<1>8. Src \in Bucketed => \E e \in Kept : e[1] = Src
  <2> SUFFICES ASSUME Src \in Bucketed PROVE \E e \in Kept : e[1] = Src
    OBVIOUS
  <2>1. sdt[Src] < K /\ sdt[Src] = DistT[Src] /\ sdt[Src] \in Nat
    BY BucketedFacts
  <2>2. PICK b \in Vs : b \in Query[qid].out[Src] /\ DistT[b] = DistT[Src] - 1
    BY <2>1, <1>0, <1>4, <1>7
  <2>3. b # Src
    BY <2>1, <2>2, <1>4
  <2>4. DistS[b] <= 1
    BY <2>2, <1>0, <1>4, <1>5, StepsOfQuery
  <2>5. b \in induce /\ sdt[b] = DistT[b]
    <3>1. CASE b = Dst
      BY <3>1, <1>4, <1>5
    <3>2. CASE b # Dst
      <4>1. DistS[b] + DistT[b] <= K
        BY <2>1, <2>2, <2>4, <1>0, <1>4
      <4>2. QED  BY <4>1, <3>2, <2>2, <2>3, <1>4
    <3>3. QED  BY <3>1, <3>2
  <2>6. sds[Src] + 1 + sdt[b] <= K
    BY <2>1, <2>2, <2>5, <1>0, <1>4
  <2>7. <<Src, b>> \in Kept
    BY <2>2, <2>5, <2>6, <1>4, <1>6 DEF Stays
  <2>8. QED  BY <2>7
<1>9. KeptPaths(Kept)
  <2> SUFFICES ASSUME NEW p, QueryPath(p), NEW i \in 1 .. Len(p) - 1
               PROVE  <<p[i], p[i + 1]>> \in Kept
    BY DEF KeptPaths
  <2> DEFINE n == Len(p)
             a == p[i]
             b == p[i + 1]
  <2>1. /\ n \in 2 .. K + 1 /\ n \in Nat /\ p[1] = Src /\ p[n] = Dst
        /\ \A x \in 1 .. n : p[x] \in Vs
        /\ \A x, y \in 1 .. n : p[x] = p[y] => x = y
        /\ b \in Query[qid].out[a]
    BY QueryPathElim
  <2>2. i \in 1 .. n /\ i + 1 \in 1 .. n /\ 1 \in 1 .. n /\ n \in 1 .. n /\ i < n
    BY <2>1
  <2>3. ASSUME NEW j \in 1 .. n
        PROVE  /\ p[j] \in induce
               /\ j < n => /\ sds[p[j]] <= j - 1 /\ Stays(p[j]) /\ p[j] # Dst
               /\ j > 1 => sdt[p[j]] <= n - j
    <3>1. DistS[p[j]] <= j - 1 /\ DistT[p[j]] <= n - j /\ p[j] \in Vs
      BY PathBounds, <2>1
    <3>2. CASE p[j] = Src
      <4>1. j = 1
        BY <3>2, <2>1, <2>2
      <4>2. QED  BY <4>1, <3>2, <1>4 DEF Stays
    <3>3. CASE p[j] = Dst
      <4>1. j = n
        BY <3>3, <2>1, <2>2
      <4>2. QED  BY <4>1, <3>3, <1>4
    <3>4. CASE p[j] # Src /\ p[j] # Dst
      <4>1. DistS[p[j]] + DistT[p[j]] <= K
        BY <3>1, <2>1, <1>0, <1>4, SMTT(30)
      <4>2. p[j] \in induce /\ sds[p[j]] = DistS[p[j]] /\ sdt[p[j]] = DistT[p[j]]
        BY <4>1, <3>1, <3>4, <1>4
      <4>3. Stays(p[j])
        BY <4>1, <4>2 DEF Stays
      <4>4. QED  BY <4>2, <4>3, <3>1, <3>4
    <3>5. QED  BY <3>2, <3>3, <3>4
  <2>4. a \in induce /\ sds[a] <= i - 1 /\ Stays(a) /\ a # Dst
    BY <2>2, <2>3
  <2>5. b \in induce /\ sdt[b] <= n - (i + 1)
    <3>1. i + 1 > 1
      OBVIOUS
    <3>2. QED  BY <3>1, <2>2, <2>3
  <2>6. a \in Vs /\ b \in Vs
    BY <2>1, <2>2
  <2> HIDE DEF n, a, b
  <2>7. sds[a] \in Nat /\ sdt[b] \in Nat
    BY <2>6, <1>4
  <2>8. sds[a] + 1 + sdt[b] <= K
    BY <2>1, <2>2, <2>4, <2>5, <2>7, <1>0
  <2>9. <<a, b>> \in Kept
    BY <2>1, <2>4, <2>5, <2>6, <2>8, <1>6
  <2>10. QED  BY <2>9 DEF a, b
<1>10. KeptDists(Kept, Bucketed, sdt)
  <2>1. sdt \in [Vs -> 0 .. MaxDist]
    BY MeasuredElim
  <2>2. ASSUME NEW v \in Bucketed
        PROVE  /\ sdt[v] < K
               /\ sdt[v] = 0 => v = Dst
               /\ sdt[v] = 1 => <<v, Dst>> \in Kept
    <3>1. v \in Vs /\ v \in induce /\ Stays(v)
          /\ sdt[v] < K /\ sdt[v] \in Nat /\ sdt[v] = DistT[v]
      BY BucketedFacts
    <3>2. sdt[v] = 0 => v = Dst
      BY <3>1, <1>5
    <3>3. ASSUME sdt[v] = 1 PROVE <<v, Dst>> \in Kept
      <4>1. v # Dst
        BY <3>3, <1>4
      <4>2. sds[v] + 1 <= K
        <5>1. CASE v = Src
          BY <5>1, <1>0, <1>4
        <5>2. CASE v # Src
          <6>1. sds[v] + sdt[v] <= K
            BY <3>1, <4>1, <5>2 DEF Stays
          <6>2. QED  BY <6>1, <3>3
        <5>3. QED  BY <5>1, <5>2
      <4>3. PICK b \in Vs : b \in Query[qid].out[v] /\ DistT[b] = 0
        <5>1. DistT[v] # 0 /\ DistT[v] <= K /\ DistT[v] - 1 = 0
          BY <3>1, <3>3, <1>0
        <5>2. QED  BY <5>1, <3>1, <1>7
      <4>4. b = Dst
        BY <4>3, <1>5
      <4>5. sds[v] + 1 + sdt[Dst] <= K
        BY <4>2, <1>4, <3>1
      <4>6. QED  BY <3>1, <4>1, <4>3, <4>4, <4>5, <1>4, <1>6
    <3>4. QED  BY <3>1, <3>2, <3>3
  <2>3. ASSUME NEW e \in Kept, e[1] \in Bucketed
        PROVE  sdt[e[1]] <= sdt[e[2]] + 1
    <3>1. /\ e \in Vs \X Vs /\ e[2] \in Query[qid].out[e[1]]
          /\ e[2] \in Bucketed
      BY KeptEdge
    <3>2. sdt[e[1]] = DistT[e[1]] /\ sdt[e[2]] = DistT[e[2]] /\ sdt[e[2]] < K
      BY <2>3, <3>1, BucketedFacts
    <3>3. e[1] \in Vs /\ e[2] \in Vs
      BY <3>1
    <3>4. QED  BY <3>1, <3>2, <3>3, StepsOfQuery
  <2>4. QED  BY <2>1, <2>2, <2>3, <1>4 DEF KeptDists
<1>11. QED  BY <1>1, <1>2, <1>3, <1>8, <1>9, <1>10 DEF KeptEnds

-----------------------------------------------------------------------------
(* What the new numbers carry over of the edges E.                         *)

Used(E) == {Src, Dst} \cup { e[1] : e \in E } \cup { e[2] : e \in E }

(* No two vertices in use get the same number, the target gets one, the    *)
(* source only when an edge leaves it.                                     *)
RenamedIds(E) ==
    /\ Cardinality(induce) \in Nat
    /\ nodemap \in [Vs -> 0 .. Cardinality(induce)]
    /\ \A u, v \in Used(E) : nodemap[u] = nodemap[v] => u = v
    /\ nodemap[Dst] # 0
    /\ nodemap[Src] # 0 => \E e \in E : e[1] = Src
(* The edges are those of E, none goes to 0, to a source without a number, *)
(* or out of the target.                                                   *)
RenamedEdges(E) ==
    /\ E # {} /\ E \subseteq Vs \X Vs
    /\ edges = { <<nodemap[e[1]], nodemap[e[2]]>> : e \in E }
    /\ \A e \in E : /\ e[2] \in Query[qid].out[e[1]] /\ e[1] # Dst
                    /\ nodemap[e[2]] # 0 /\ nodemap[Dst] <= nodemap[e[2]]
(* The distances under the new numbers, as feed_stream_data uses them.     *)
RenamedDists(E) ==
    /\ sdt \in [0 .. Cardinality(induce) -> 0 .. MaxDist]
    /\ sdt[nodemap[Dst]] = 0
    /\ \A x \in 0 .. Cardinality(induce) :
         /\ sdt[x] = 0 => x = nodemap[Dst]
         /\ sdt[x] = 1 => <<x, nodemap[Dst]>> \in edges
    /\ \A e \in E :
         /\ sdt[nodemap[e[2]]] <= K
         /\ nodemap[e[1]] # 0 => sdt[nodemap[e[1]]] <= sdt[nodemap[e[2]]] + 1
Renaming(E) ==
    RenamedIds(E) /\ RenamedEdges(E) /\ RenamedDists(E) /\ KeptPaths(E)
Carried == \E E : Renaming(E)

LEMMA NumberedDist ==
    ASSUME NEW map, NEW dist, NEW v \in Bucketed,
           \A a, b \in Bucketed : map[a] = map[b] => a = b,
           map[v] \in 0 .. Cardinality(induce)
    PROVE  ById(map, dist)[map[v]] = dist[v]
<1>1. ById(map, dist)[map[v]] = dist[CHOOSE w \in Bucketed : map[w] = map[v]]
  BY DEF ById
<1>2. (CHOOSE w \in Bucketed : map[w] = map[v]) = v
  OBVIOUS
<1>3. QED  BY <1>1, <1>2

LEMMA UnnumberedDist ==
    ASSUME NEW map, NEW dist, NEW i \in 0 .. Cardinality(induce),
           \A v \in Bucketed : map[v] # i
    PROVE  ById(map, dist)[i] = MaxDist
BY DEF ById

LEMMA CountOfInduce ==
    ASSUME qid \in QueryId, induce \subseteq Vs
    PROVE  /\ IsFiniteSet(induce) /\ Cardinality(induce) \in Nat
           /\ Cardinality(Bucketed) \in Nat
           /\ Cardinality(Bucketed) <= Cardinality(induce)
<1>1. IsFiniteSet(induce)
  BY QueryFacts, FS_Subset DEF Vs
<1>2. Bucketed \subseteq induce
  BY DEF Bucketed
<1>3. QED  BY <1>1, <1>2, FS_Subset, FS_CardinalityType
(* What a numbering does.                                                  *)
LEMMA NumberingFacts ==
    ASSUME qid \in QueryId, Measured(sds, sdt), NEW map \in Numberings
    PROVE  /\ map \in [Bucketed -> 1 .. Cardinality(induce)]
           /\ \A v \in Bucketed : map[v] \in 0 .. Cardinality(induce) /\ map[v] # 0
           /\ \A a, b \in Bucketed : map[a] = map[b] => a = b
           /\ \A v \in Bucketed : map[Dst] <= map[v]
<1>1. induce \subseteq Vs /\ Dst \in Bucketed
  BY MeasuredElim, KeptHolds DEF KeptEnds
<1>2. /\ Cardinality(induce) \in Nat /\ Cardinality(Bucketed) \in Nat
      /\ Cardinality(Bucketed) <= Cardinality(induce)
  BY <1>1, CountOfInduce
<1>3. /\ map \in Injection(Bucketed, Ids)
      /\ \A a, b \in Bucketed : map[a] < map[b] => Before(a, b)
  BY DEF Numberings
<1>4. map \in [Bucketed -> Ids] /\ \A a, b \in Bucketed : map[a] = map[b] => a = b
  BY <1>3 DEF Injection, IsInjective
<1>5. \A i \in Ids : i \in 1 .. Cardinality(induce)
  BY <1>2 DEF Ids, FirstId
<1>6. map \in [Bucketed -> 1 .. Cardinality(induce)]
  BY <1>4, <1>5
<1>7. \A v \in Bucketed : map[v] \in Nat /\ map[v] \in 0 .. Cardinality(induce) /\ map[v] # 0
  <2>1. ASSUME NEW v \in Bucketed PROVE map[v] \in 1 .. Cardinality(induce)
    BY <1>6
  <2>2. QED  BY <2>1, <1>2
<1>8. ASSUME NEW v \in Bucketed PROVE map[Dst] <= map[v]
  <2> SUFFICES ASSUME map[v] < map[Dst] PROVE FALSE
    BY <1>1, <1>7
  <2>1. Before(v, Dst)
    BY <1>1, <1>3
  <2>2. sdt[v] \in Nat /\ sdt[Dst] = 0
    BY BucketedFacts, MeasuredElim
  <2>3. sdt[v] = 0
    BY <2>1, <2>2 DEF Before
  <2>4. v = Dst
    <3>1. v \in Vs /\ sdt[v] = DistT[v] /\ sdt[v] = 0
      BY <2>3, BucketedFacts
    <3>2. QED  BY <3>1, MeasuredElim
  <2>5. map[v] = map[Dst]
    BY <2>4
  <2>6. QED  BY <2>5, <1>1, <1>7
<1>9. QED  BY <1>4, <1>6, <1>7, <1>8

LEMMA SamePaths ==
    ASSUME qid' = qid, NEW E
    PROVE  /\ \A p : QueryPath(p)' <=> QueryPath(p)
           /\ KeptPaths(E)' <=> KeptPaths(E)
           /\ PathsOf[qid]' = PathsOf[qid]
<1>1. K' = K /\ Src' = Src /\ Dst' = Dst /\ Vs' = Vs
  BY SameQuery
<1>2. \A p : QueryPath(p)' <=> QueryPath(p)
  BY <1>1 DEF QueryPath
<1>3. KeptPaths(E)' <=> KeptPaths(E)
  BY <1>2 DEF KeptPaths
<1>4. QED  BY <1>2, <1>3

LEMMA NumberCarries ==
    ASSUME qid \in QueryId, Measured(sds, sdt), edges = Kept, Number,
           NEW E, E = Kept
    PROVE  /\ E = {} => PathsOf[qid] = {}
           /\ E # {} => Renaming(E)'
<1>1. PICK map \in Numberings :
        /\ nodemap' = [v \in Vertex(Query[qid]) |-> NewId(map, v)]
        /\ edges' = { <<NewId(map, e[1]), NewId(map, e[2])>> : e \in edges }
        /\ sdt' = ById(map, sdt)
  BY DEF Number
<1> DEFINE n == Cardinality(induce)
           B == Bucketed
<1>2. qid' = qid /\ induce' = induce
  BY DEF Number
<1>3. /\ K' = K /\ Src' = Src /\ Dst' = Dst /\ Vs' = Vs /\ n' = n
  BY <1>2, SameQuery
<1>4. KeptEdges(E, B) /\ KeptEnds(E, B) /\ KeptPaths(E) /\ KeptDists(E, B, sdt)
  BY KeptHolds
<1>5. /\ map \in [B -> 1 .. n]
      /\ \A v \in B : map[v] \in 0 .. n /\ map[v] # 0
      /\ \A a, b \in B : map[a] = map[b] => a = b
      /\ \A v \in B : map[Dst] <= map[v]
  BY NumberingFacts
<1>6. n \in Nat
  BY MeasuredElim, CountOfInduce
<1>7. /\ B \subseteq Vs /\ Dst \in B
      /\ Src \in B => \E e \in E : e[1] = Src
  BY <1>4 DEF KeptEnds
<1>8. \A e \in E : /\ e \in Vs \X Vs /\ e[2] \in Query[qid].out[e[1]]
                   /\ e[1] # Dst /\ e[2] \in B /\ (e[1] \in B \/ e[1] = Src)
  BY <1>4 DEF KeptEdges
<1>9. /\ Src \in Vs /\ Dst \in Vs /\ Src # Dst /\ K \in Nat /\ K < MaxDist /\ K >= 1
  BY QueryMetrics, Halves
<1>10. E = {} => PathsOf[qid] = {}
  <2> SUFFICES ASSUME NEW p, QueryPath(p), E = {} PROVE FALSE
    BY QueryPaths
  <2>1. Len(p) \in 2 .. K + 1
    BY QueryPathElim
  <2>2. 1 \in 1 .. Len(p) - 1
    BY <2>1
  <2>3. <<p[1], p[1 + 1]>> \in E
    BY <2>2, <1>4 DEF KeptPaths
  <2>4. QED  BY <2>3
<1> HIDE DEF B, n
<1>11. /\ \A v \in B : nodemap'[v] = map[v]
       /\ \A v \in Vs : v \notin B => nodemap'[v] = 0
       /\ nodemap' \in [Vs -> 0 .. n]
  <2>1. nodemap' = [v \in Vs |-> NewId(map, v)]
    BY <1>1 DEF Vs
  <2>2. DOMAIN map = B
    BY <1>5
  <2>3. \A v \in Vs : NewId(map, v) \in 0 .. n
    BY <2>2, <1>5, <1>6 DEF NewId
  <2>4. nodemap' \in [Vs -> 0 .. n]
    BY <2>1, <2>3
  <2>5. \A v \in Vs : nodemap'[v] = IF v \in B THEN map[v] ELSE 0
    BY <2>1, <2>2 DEF NewId
  <2>6. QED  BY <2>4, <2>5, <1>7
<1>12. edges' = { <<nodemap'[e[1]], nodemap'[e[2]]>> : e \in E }
  <2>1. DOMAIN map = B
    BY <1>5
  <2>2. \A v \in Vs : nodemap'[v] = NewId(map, v)
    BY <2>1, <1>11 DEF NewId
  <2>3. \A e \in E : e[1] \in Vs /\ e[2] \in Vs
    BY <1>8
  <2>4. edges' = { <<NewId(map, e[1]), NewId(map, e[2])>> : e \in E }
    BY <1>1
  <2>5. QED  BY <2>2, <2>3, <2>4
<1>13. RenamedIds(E)'
  <2>1. \A v \in Used(E) : v \in B \/ v = Src
    BY <1>7, <1>8 DEF Used
  <2>2. \A u, v \in Used(E) : nodemap'[u] = nodemap'[v] => u = v
    <3> SUFFICES ASSUME NEW u \in Used(E), NEW v \in Used(E), nodemap'[u] = nodemap'[v]
                 PROVE  u = v
      OBVIOUS
    <3>1. CASE u \in B /\ v \in B
      BY <3>1, <1>5, <1>11
    <3>2. CASE u \in B /\ v \notin B
      BY <3>2, <2>1, <1>5, <1>9, <1>11
    <3>3. CASE u \notin B /\ v \in B
      BY <3>3, <2>1, <1>5, <1>9, <1>11
    <3>4. CASE u \notin B /\ v \notin B
      BY <3>4, <2>1
    <3>5. QED  BY <3>1, <3>2, <3>3, <3>4
  <2>3. nodemap'[Dst] # 0
    BY <1>5, <1>7, <1>11
  <2>4. nodemap'[Src] # 0 => \E e \in E : e[1] = Src
    BY <1>7, <1>9, <1>11
  <2>5. Used(E)' = Used(E)
    BY <1>3 DEF Used
  <2>6. Cardinality(induce)' = n
    BY <1>2 DEF n
  <2> HIDE DEF n
  <2>7. /\ Cardinality(induce)' \in Nat
        /\ nodemap' \in [Vs' -> 0 .. Cardinality(induce)']
    BY <2>6, <1>3, <1>6, <1>11
  <2>8. /\ \A u, v \in Used(E)' : nodemap'[u] = nodemap'[v] => u = v
        /\ nodemap'[Dst'] # 0
        /\ nodemap'[Src'] # 0 => \E e \in E : e[1] = Src'
    BY <2>2, <2>3, <2>4, <2>5, <1>3
  <2>9. QED
    BY <2>7, <2>8 DEF RenamedIds
<1>14. ASSUME E # {} PROVE RenamedEdges(E)'
  <2>1. E \subseteq Vs \X Vs
    BY <1>8
  <2>2. ASSUME NEW e \in E
        PROVE  /\ e[2] \in Query[qid].out[e[1]] /\ e[1] # Dst
               /\ nodemap'[e[2]] # 0 /\ nodemap'[Dst] <= nodemap'[e[2]]
    BY <1>5, <1>7, <1>8, <1>11
  <2>3. QED
    BY <1>14, <2>1, <2>2, <1>2, <1>3, <1>12 DEF RenamedEdges
<1>15. RenamedDists(E)'
  <2>1. sdt' = ById(map, sdt)
    BY <1>1
  <2>2. \A v \in B : sdt'[nodemap'[v]] = sdt[v]
    <3>1. \A v \in B : map[v] \in 0 .. Cardinality(induce)
      BY <1>5 DEF n
    <3>2. \A v \in Bucketed : ById(map, sdt)[map[v]] = sdt[v]
      BY <3>1, <1>5, NumberedDist DEF B
    <3>3. QED  BY <3>2, <2>1, <1>11 DEF B
  <2>3. \A i \in 0 .. n : (\A v \in B : map[v] # i) => sdt'[i] = MaxDist
    BY <2>1, UnnumberedDist DEF n, B
  <2>4. /\ sdt \in [Vs -> 0 .. MaxDist] /\ sdt[Dst] = 0
        /\ \A v \in B : /\ sdt[v] < K
                        /\ sdt[v] = 0 => v = Dst
                        /\ sdt[v] = 1 => <<v, Dst>> \in E
        /\ \A e \in E : e[1] \in B => sdt[e[1]] <= sdt[e[2]] + 1
    BY <1>4 DEF KeptDists
  <2>5. ASSUME NEW i \in 0 .. n
        PROVE  /\ sdt'[i] \in 0 .. MaxDist
               /\ sdt'[i] = 0 => i = nodemap'[Dst]
               /\ sdt'[i] = 1 => <<i, nodemap'[Dst]>> \in edges'
    <3>1. CASE \A v \in B : map[v] # i
      <4>1. sdt'[i] = MaxDist
        BY <3>1, <2>3
      <4>2. QED  BY <4>1 DEF MaxDist
    <3>2. CASE \E v \in B : map[v] = i
      <4>1. PICK v \in B : map[v] = i
        BY <3>2
      <4>2. sdt'[i] = sdt[v] /\ nodemap'[v] = i /\ v \in Vs
        BY <4>1, <2>2, <1>7, <1>11
      <4>3. sdt'[i] \in 0 .. MaxDist
        BY <4>2, <2>4
      <4>4. sdt'[i] = 0 => i = nodemap'[Dst]
        BY <4>2, <2>4
      <4>5. sdt'[i] = 1 => <<i, nodemap'[Dst]>> \in edges'
        <5> SUFFICES ASSUME sdt'[i] = 1 PROVE <<i, nodemap'[Dst]>> \in edges'
          OBVIOUS
        <5>1. <<v, Dst>> \in E
          BY <4>2, <2>4
        <5>2. <<nodemap'[v], nodemap'[Dst]>> \in edges'
          BY <5>1, <1>12
        <5>3. QED  BY <5>2, <4>2
      <4>6. QED  BY <4>3, <4>4, <4>5
    <3>3. QED  BY <3>1, <3>2
  <2>6. sdt' \in [0 .. n -> 0 .. MaxDist]
    <3>1. sdt' = [i \in 0 .. n |-> sdt'[i]]
      BY <2>1 DEF ById, n
    <3>2. QED  BY <3>1, <2>5
  <2>7. sdt'[nodemap'[Dst]] = 0
    BY <2>2, <2>4, <1>7
  <2>8. ASSUME NEW e \in E
        PROVE  /\ sdt'[nodemap'[e[2]]] <= K
               /\ nodemap'[e[1]] # 0 => sdt'[nodemap'[e[1]]] <= sdt'[nodemap'[e[2]]] + 1
    <3>1. e[1] \in Vs /\ e[2] \in Vs /\ e[2] \in B
      BY <1>8
    <3>2. sdt'[nodemap'[e[2]]] = sdt[e[2]] /\ sdt[e[2]] < K /\ sdt[e[2]] \in 0 .. MaxDist
      BY <3>1, <2>2, <2>4
    <3>3. sdt'[nodemap'[e[2]]] <= K
      BY <3>2, <1>9
    <3>4. ASSUME nodemap'[e[1]] # 0
          PROVE  sdt'[nodemap'[e[1]]] <= sdt'[nodemap'[e[2]]] + 1
      <4>1. e[1] \in B
        BY <3>1, <3>4, <1>11
      <4>2. sdt'[nodemap'[e[1]]] = sdt[e[1]]
        BY <4>1, <2>2
      <4>3. QED  BY <3>2, <4>1, <4>2, <2>4
    <3>5. QED  BY <3>3, <3>4
  <2>9. Cardinality(induce)' = n
    BY <1>2 DEF n
  <2> HIDE DEF n
  <2>10. /\ sdt' \in [0 .. Cardinality(induce)' -> 0 .. MaxDist]
         /\ sdt'[nodemap'[Dst']] = 0
         /\ \A x \in 0 .. Cardinality(induce)' :
              /\ sdt'[x] = 0 => x = nodemap'[Dst']
              /\ sdt'[x] = 1 => <<x, nodemap'[Dst']>> \in edges'
    BY <2>5, <2>6, <2>7, <2>9, <1>3
  <2>11. \A e \in E :
           /\ sdt'[nodemap'[e[2]]] <= K'
           /\ nodemap'[e[1]] # 0 => sdt'[nodemap'[e[1]]] <= sdt'[nodemap'[e[2]]] + 1
    BY <2>8, <1>3
  <2>12. QED  BY <2>10, <2>11 DEF RenamedDists
<1>16. KeptPaths(E)'
  BY <1>2, <1>4, SamePaths
<1>17. QED  BY <1>10, <1>13, <1>14, <1>15, <1>16 DEF Renaming

-----------------------------------------------------------------------------
(* A row of CreateSubGraphCSR2 lists its set, each member once, the nearest*)
(* to the target first.                                                    *)

RowOf(r, S) ==
    /\ r \in Seq(S) /\ Simple(r) /\ Range(r) = S
    /\ \A a, b \in 1 .. Len(r) : a <= b => sdt[r[a]] <= sdt[r[b]]

LEMMA SortedRowIs ==
    ASSUME NEW S, S \subseteq Nat, IsFiniteSet(S), \A w \in S : sdt[w] \in Nat
    PROVE  RowOf(SortedRow(S), S)
<1> DEFINE n == Cardinality(S)
           Up(w) == { u \in S : u = w \/ Nearer(u, w) }
           f == [w \in S |-> Place(w, S)]
           r == SortedRow(S)
<1>1. n \in Nat
  BY FS_CardinalityType
<1>2. ASSUME NEW w \in S
      PROVE  IsFiniteSet(Up(w)) /\ Cardinality(Up(w)) \in 1 .. n
  <2>1. Up(w) \subseteq S /\ w \in Up(w)
    OBVIOUS
  <2> HIDE DEF Up
  <2>2. IsFiniteSet(Up(w)) /\ Cardinality(Up(w)) <= n
    BY <2>1, FS_Subset
  <2>3. Cardinality(Up(w)) \in Nat /\ Cardinality(Up(w)) # 0
    BY <2>1, <2>2, FS_CardinalityType, FS_EmptySet
  <2>4. QED  BY <2>2, <2>3, <1>1
<1>3. ASSUME NEW u \in S, NEW w \in S, Nearer(u, w)
      PROVE  Cardinality(Up(u)) < Cardinality(Up(w))
  <2>1. /\ u \in Nat /\ w \in Nat /\ sdt[u] \in Nat /\ sdt[w] \in Nat
    OBVIOUS
  <2>2. ASSUME NEW x \in S, Nearer(x, u) PROVE Nearer(x, w)
    <3>1. x \in Nat /\ sdt[x] \in Nat
      OBVIOUS
    <3>2. QED  BY <3>1, <2>1, <2>2, <1>3 DEF Nearer
  <2>3. Up(u) \subseteq Up(w)
    BY <2>2, <1>3
  <2>4. w \in Up(w)
    OBVIOUS
  <2>5. w \notin Up(u)
    BY <2>1, <1>3 DEF Nearer
  <2>6. /\ IsFiniteSet(Up(u)) /\ Cardinality(Up(u)) \in 1 .. n
        /\ IsFiniteSet(Up(w)) /\ Cardinality(Up(w)) \in 1 .. n
    BY <1>2
  <2> HIDE DEF Up, n
  <2>7. /\ Cardinality(Up(u)) <= Cardinality(Up(w))
        /\ Cardinality(Up(w)) = Cardinality(Up(u)) => Up(w) = Up(u)
    BY <2>3, <2>6, FS_Subset
  <2>8. Cardinality(Up(w)) # Cardinality(Up(u))
    BY <2>4, <2>5, <2>7
  <2>9. QED  BY <2>6, <2>7, <2>8, <1>1
<1>4. \A w \in S : Place(w, S) = Cardinality(Up(w))
  BY DEF Place
<1>5. f \in [S -> 1 .. n]
  BY <1>2, <1>4
<1>6. ASSUME NEW u \in S, NEW w \in S
      PROVE  u = w \/ Nearer(u, w) \/ Nearer(w, u)
  BY DEF Nearer
<1> HIDE DEF Up, n
<1>7. /\ \A w \in S : f[w] = Place(w, S) /\ f[w] \in 1 .. n /\ f[w] = Cardinality(Up(w))
  BY <1>4, <1>5
<1> HIDE DEF f
<1>8. \A u, w \in S : f[u] = f[w] => u = w
  <2> SUFFICES ASSUME NEW u \in S, NEW w \in S, f[u] = f[w] PROVE u = w
    OBVIOUS
  <2>1. f[u] \in Nat /\ f[w] \in Nat
    BY <1>1, <1>7
  <2>2. Nearer(u, w) => f[u] < f[w]
    BY <1>3, <1>7
  <2>3. Nearer(w, u) => f[w] < f[u]
    BY <1>3, <1>7
  <2>4. QED  BY <2>1, <2>2, <2>3, <1>6
<1>9. f \in Surjection(S, 1 .. n)
  <2>1. f \in Injection(S, 1 .. n)
    BY <1>5, <1>8 DEF Injection, IsInjective
  <2>2. IsFiniteSet(1 .. n) /\ Cardinality(1 .. n) = n
    BY <1>1, FS_Interval
  <2>3. Cardinality(S) = n
    BY DEF n
  <2>4. QED  BY <2>1, <2>2, <2>3, FS_Injection
<1>10. \A i \in 1 .. n : \E w \in S : f[w] = i
  BY <1>9 DEF Surjection
<1>11. r = [i \in 1 .. n |-> CHOOSE w \in S : Place(w, S) = i]
  BY DEF SortedRow, n
<1> HIDE DEF r
<1>12. ASSUME NEW i \in 1 .. n PROVE r[i] \in S /\ f[r[i]] = i
  <2>1. \E w \in S : Place(w, S) = i
    BY <1>7, <1>10
  <2>2. r[i] = CHOOSE w \in S : Place(w, S) = i
    BY <1>11
  <2>3. r[i] \in S /\ Place(r[i], S) = i
    BY <2>1, <2>2
  <2>4. QED  BY <2>3, <1>7
<1>13. r \in [1 .. n -> S]
  BY <1>11, <1>12
<1>14. r \in Seq(S) /\ Len(r) = n
  BY <1>1, <1>13
<1>15. Simple(r)
  <2>1. \A a, b \in 1 .. n : r[a] = r[b] => a = b
    BY <1>12
  <2>2. QED  BY <2>1, <1>14 DEF Simple
<1>16. \A w \in S : r[f[w]] = w
  BY <1>7, <1>8, <1>12
<1>17. Range(r) = S
  <2>1. \A w \in S : w \in Range(r)
    BY <1>7, <1>14, <1>16, RangeMember
  <2>2. Range(r) \subseteq S
    BY <1>14, RangeMember
  <2>3. QED  BY <2>1, <2>2
<1>18. ASSUME NEW a \in 1 .. n, NEW b \in 1 .. n, a <= b
       PROVE  sdt[r[a]] <= sdt[r[b]]
  <2>1. /\ r[a] \in S /\ r[b] \in S /\ f[r[a]] = a /\ f[r[b]] = b
        /\ sdt[r[a]] \in Nat /\ sdt[r[b]] \in Nat
    BY <1>12
  <2>2. CASE r[a] = r[b]
    BY <2>1, <2>2
  <2>3. CASE Nearer(r[a], r[b])
    BY <2>1, <2>3 DEF Nearer
  <2>4. CASE Nearer(r[b], r[a])
    <3>1. f[r[b]] < f[r[a]]
      BY <2>1, <2>4, <1>3, <1>7
    <3>2. QED  BY <3>1, <2>1, <1>18, <1>1
  <2>5. QED  BY <2>1, <2>2, <2>3, <2>4, <1>6
<1>19. RowOf(r, S)
  BY <1>14, <1>15, <1>17, <1>18 DEF RowOf
<1>20. QED  BY <1>19 DEF r

-----------------------------------------------------------------------------
(* The edges after renumbering, the largest id in use, and the rows.       *)

Edge(a, b) == <<a, b>> \in edges
RowSet(v)  == { w \in 0 .. MaxVerId : Edge(v, w) }
IsCSR == adj = [v \in 0 .. MaxVerId |-> SortedRow(RowSet(v))]

LEMMA NewEdges ==
    ASSUME qid \in QueryId, NEW E, Renaming(E)
    PROVE  /\ Cardinality(induce) \in Nat
           /\ edges \subseteq (0 .. Cardinality(induce)) \X (1 .. Cardinality(induce))
           /\ edges # {}
           /\ \A a, b : Edge(a, b) =>
                /\ b # 0 /\ nodemap[Dst] <= b
                /\ \E e \in E : nodemap[e[1]] = a /\ nodemap[e[2]] = b
                /\ sdt[b] <= K
                /\ a # 0 => sdt[a] <= sdt[b] + 1
           /\ \A e \in E : Edge(nodemap[e[1]], nodemap[e[2]])
<1> DEFINE n == Cardinality(induce)
<1>1. n \in Nat /\ nodemap \in [Vs -> 0 .. n]
  BY DEF Renaming, RenamedIds
<1>2. /\ E # {} /\ E \subseteq Vs \X Vs
      /\ edges = { <<nodemap[e[1]], nodemap[e[2]]>> : e \in E }
      /\ \A e \in E : nodemap[e[2]] # 0 /\ nodemap[Dst] <= nodemap[e[2]]
  BY DEF Renaming, RenamedEdges
<1>3. \A e \in E : /\ sdt[nodemap[e[2]]] <= K
                   /\ nodemap[e[1]] # 0 =>
                        sdt[nodemap[e[1]]] <= sdt[nodemap[e[2]]] + 1
  BY DEF Renaming, RenamedDists
<1> HIDE DEF n
<1>4. ASSUME NEW e \in E
      PROVE  <<nodemap[e[1]], nodemap[e[2]]>> \in (0 .. n) \X (1 .. n)
  <2>1. e[1] \in Vs /\ e[2] \in Vs
    BY <1>2
  <2>2. nodemap[e[1]] \in 0 .. n /\ nodemap[e[2]] \in 0 .. n /\ nodemap[e[2]] # 0
    BY <2>1, <1>1, <1>2
  <2>3. nodemap[e[2]] \in 1 .. n
    BY <2>2, <1>1
  <2>4. QED  BY <2>2, <2>3
<1>5. edges \subseteq (0 .. n) \X (1 .. n) /\ edges # {}
  BY <1>2, <1>4
<1>6. ASSUME NEW a, NEW b, Edge(a, b)
      PROVE  /\ b # 0 /\ nodemap[Dst] <= b
             /\ \E e \in E : nodemap[e[1]] = a /\ nodemap[e[2]] = b
             /\ sdt[b] <= K
             /\ a # 0 => sdt[a] <= sdt[b] + 1
  <2>1. PICK e \in E : <<a, b>> = <<nodemap[e[1]], nodemap[e[2]]>>
    BY <1>2, <1>6 DEF Edge
  <2>2. a = nodemap[e[1]] /\ b = nodemap[e[2]]
    BY <2>1
  <2>3. QED  BY <2>2, <1>2, <1>3
<1>7. \A e \in E : Edge(nodemap[e[1]], nodemap[e[2]])
  BY <1>2 DEF Edge
<1>8. QED  BY <1>1, <1>5, <1>6, <1>7 DEF n

LEMMA LargestId ==
    ASSUME qid \in QueryId, NEW E, Renaming(E)
    PROVE  /\ MaxVerId \in Nat /\ MaxVerId <= Cardinality(induce)
           /\ \A a, b : Edge(a, b) => a \in 0 .. MaxVerId /\ b \in 0 .. MaxVerId
           /\ nodemap[Dst] \in 0 .. MaxVerId /\ nodemap[Dst] # 0
           /\ nodemap[Src] \in 0 .. MaxVerId
           /\ nodemap[Src] # nodemap[Dst]
<1> DEFINE n == Cardinality(induce)
<1>1. /\ n \in Nat /\ edges \subseteq (0 .. n) \X (1 .. n) /\ edges # {}
  BY NewEdges
<1>2. Ends \subseteq 0 .. n
  <2>1. \A e \in edges : e[1] \in 0 .. n /\ e[2] \in 0 .. n
    <3>1. ASSUME NEW e \in edges PROVE e[1] \in 0 .. n /\ e[2] \in 1 .. n
      BY <1>1
    <3>2. \A x \in 1 .. n : x \in 0 .. n
      OBVIOUS
    <3>3. QED  BY <3>1, <3>2
  <2>2. QED  BY <2>1 DEF Ends
<1>3. Ends # {}
  BY <1>1 DEF Ends
<1> HIDE DEF n
<1>4. \E m \in Ends : \A x \in Ends : x <= m
  <2>1. Ends \subseteq Nat /\ \A x \in Ends : x <= n
    BY <1>1, <1>2
  <2>2. QED  BY <2>1, <1>1, <1>3, LargestOfSet
<1>5. MaxVerId \in Ends /\ \A x \in Ends : x <= MaxVerId
  BY <1>4 DEF MaxVerId
<1>6. MaxVerId \in Nat /\ MaxVerId <= n
  BY <1>1, <1>2, <1>5
<1>7. \A a, b : Edge(a, b) => a \in 0 .. MaxVerId /\ b \in 0 .. MaxVerId
  <2> SUFFICES ASSUME NEW a, NEW b, Edge(a, b)
               PROVE  a \in 0 .. MaxVerId /\ b \in 0 .. MaxVerId
    OBVIOUS
  <2>1. <<a, b>> \in edges /\ <<a, b>>[1] = a /\ <<a, b>>[2] = b
    BY DEF Edge
  <2>2. a \in Ends /\ b \in Ends
    BY <2>1 DEF Ends
  <2>3. QED  BY <2>2, <1>1, <1>2, <1>5, <1>6
<1>8. /\ nodemap \in [Vs -> 0 .. n] /\ nodemap[Dst] # 0
      /\ nodemap[Src] # 0 => \E e \in E : e[1] = Src
      /\ \A u, v \in Used(E) : nodemap[u] = nodemap[v] => u = v
  BY DEF Renaming, RenamedIds, n
<1>9. Src \in Vs /\ Dst \in Vs /\ Src # Dst
  BY QueryMetrics
<1>10. nodemap[Src] # nodemap[Dst]
  BY <1>8, <1>9 DEF Used
<1>11. nodemap[Src] \in 0 .. MaxVerId
  <2>1. CASE nodemap[Src] = 0
    BY <2>1, <1>6
  <2>2. CASE nodemap[Src] # 0
    <3>1. PICK e \in E : e[1] = Src
      BY <2>2, <1>8
    <3>2. Edge(nodemap[Src], nodemap[e[2]])
      BY <3>1, NewEdges
    <3>3. QED  BY <3>2, <1>7
  <2>3. QED  BY <2>1, <2>2
<1>12. nodemap[Dst] \in 0 .. MaxVerId
  <2>1. PICK e \in edges : TRUE
    BY <1>1
  <2>2. e[1] \in 0 .. n /\ e[2] \in 1 .. n /\ Edge(e[1], e[2])
    BY <1>1 DEF Edge
  <2>3. nodemap[Dst] <= e[2] /\ e[2] \in 0 .. MaxVerId
    BY <2>2, <1>7, NewEdges
  <2>4. nodemap[Dst] \in 0 .. n
    BY <1>8, <1>9
  <2>5. QED  BY <2>3, <2>4, <1>1, <1>6
<1>13. QED  BY <1>6, <1>7, <1>8, <1>10, <1>11, <1>12 DEF n

LEMMA RowsListed ==
    ASSUME qid \in QueryId, NEW E, Renaming(E)
    PROVE  \A v : RowOf(SortedRow(RowSet(v)), RowSet(v)) /\ RowSet(v) \subseteq Nat
<1>1. MaxVerId \in Nat /\ MaxVerId <= Cardinality(induce)
  BY LargestId
<1>2. sdt \in [0 .. Cardinality(induce) -> 0 .. MaxDist] /\ Cardinality(induce) \in Nat
  BY DEF Renaming, RenamedDists, RenamedIds
<1>3. SUFFICES ASSUME NEW v
               PROVE  RowOf(SortedRow(RowSet(v)), RowSet(v)) /\ RowSet(v) \subseteq Nat
  OBVIOUS
<1>4. RowSet(v) \subseteq 0 .. MaxVerId
  BY DEF RowSet
<1>5. IsFiniteSet(0 .. MaxVerId)
  BY <1>1, FS_Interval
<1>6. IsFiniteSet(RowSet(v)) /\ RowSet(v) \subseteq Nat
  BY <1>4, <1>5, <1>1, FS_Subset
<1>7. \A w \in RowSet(v) : sdt[w] \in Nat
  <2>1. \A w \in 0 .. MaxVerId : w \in 0 .. Cardinality(induce)
    BY <1>1, <1>2
  <2>2. \A w \in RowSet(v) : sdt[w] \in 0 .. MaxDist
    BY <1>4, <2>1, <1>2
  <2>3. QED  BY <2>2 DEF MaxDist
<1>8. QED  BY <1>6, <1>7, SortedRowIs

LEMMA RowFacts ==
    ASSUME qid \in QueryId, NEW E, Renaming(E), IsCSR
    PROVE  /\ DOMAIN adj = 0 .. MaxVerId
           /\ \A v \in 0 .. MaxVerId : RowOf(adj[v], RowSet(v))
           /\ \A v \in 0 .. MaxVerId : \A w :
                w \in Range(adj[v]) <=> Edge(v, w)
<1>1. \A a, b : Edge(a, b) => a \in 0 .. MaxVerId /\ b \in 0 .. MaxVerId
  BY LargestId
<1>2. /\ DOMAIN adj = 0 .. MaxVerId
      /\ \A v \in 0 .. MaxVerId : adj[v] = SortedRow(RowSet(v))
  BY DEF IsCSR
<1>3. \A v \in 0 .. MaxVerId : RowOf(adj[v], RowSet(v))
  BY <1>2, RowsListed
<1>4. \A v \in 0 .. MaxVerId : Range(adj[v]) = RowSet(v)
  BY <1>3 DEF RowOf
<1>5. \A v \in 0 .. MaxVerId : \A w : w \in Range(adj[v]) <=> Edge(v, w)
  BY <1>1, <1>4 DEF RowSet
<1>6. QED  BY <1>2, <1>3, <1>5

-----------------------------------------------------------------------------
(* The job meets the contract of the kernel.                               *)

LEMMA JobFields ==
    /\ OutJob.adj = adj /\ OutJob.k = K /\ OutJob.dst = nodemap[Dst]
    /\ OutJob.sdt = [v \in DOMAIN adj |-> sdt[v]]
    /\ OutJob.tasks = << <<nodemap[Src]>> >>
    /\ Node(OutJob) = DOMAIN adj
    /\ \A v : Nbrs(OutJob, v) = Range(adj[v])
BY DEF OutJob, Node, Nbrs

LEMMA GraphIsOK ==
    ASSUME qid \in QueryId, NEW E, Renaming(E), IsCSR
    PROVE  GraphOK(OutJob) /\ RowsSorted
<1>1. /\ MaxVerId \in Nat
      /\ nodemap[Dst] \in 0 .. MaxVerId /\ nodemap[Dst] # 0
  BY LargestId
<1>2. /\ DOMAIN adj = 0 .. MaxVerId
      /\ \A v \in 0 .. MaxVerId : RowOf(adj[v], RowSet(v))
  BY RowFacts
<1>3. K \in 1 .. MaxK
  BY QueryFacts DEF K
<1>4. IsFiniteSet(0 .. MaxVerId) /\ 0 .. MaxVerId \subseteq Nat
  BY <1>1, FS_Interval
<1>5. ASSUME NEW v \in 0 .. MaxVerId
      PROVE  adj[v] \in Seq((0 .. MaxVerId) \ {0}) /\ Simple(adj[v])
  <2>1. adj[v] \in Seq(RowSet(v)) /\ Simple(adj[v])
    BY <1>2 DEF RowOf
  <2>2. RowSet(v) \subseteq (0 .. MaxVerId) \ {0}
    BY NewEdges DEF RowSet
  <2>3. adj[v] \in Seq((0 .. MaxVerId) \ {0})
    <3> HIDE DEF RowSet
    <3>1. Len(adj[v]) \in Nat /\ \A i \in 1 .. Len(adj[v]) : adj[v][i] \in RowSet(v)
      BY <2>1, RangeMember
    <3>2. adj[v] \in [1 .. Len(adj[v]) -> RowSet(v)]
      BY <2>1, LenProperties
    <3>3. adj[v] \in [1 .. Len(adj[v]) -> (0 .. MaxVerId) \ {0}]
      BY <3>2, <2>2
    <3>4. QED  BY <3>1, <3>3
  <2>4. QED  BY <2>1, <2>3
<1>6. GraphOK(OutJob)
  BY <1>1, <1>2, <1>3, <1>4, <1>5, JobFields DEF GraphOK
<1>7. RowsSorted
  BY <1>2 DEF RowOf, RowsSorted
<1>8. QED  BY <1>6, <1>7

LEMMA TaskIsOK ==
    ASSUME qid \in QueryId, NEW E, Renaming(E), IsCSR
    PROVE  TasksOK(OutJob)
<1> DEFINE t == <<nodemap[Src]>>
           N == 0 .. MaxVerId
           ts == <<t>>
<1>1. nodemap[Src] \in N /\ nodemap[Src] # nodemap[Dst] /\ DOMAIN adj = N
  BY LargestId, RowFacts
<1>2. t \in Seq(N) /\ Len(t) = 1 /\ t[1] = nodemap[Src]
  BY <1>1
<1>3. \A i \in 1 .. Len(t) : i = 1
  BY <1>2
<1>4. ts \in Seq(Seq(N)) /\ Len(ts) = 1 /\ ts[1] = t
  BY <1>2
<1> HIDE DEF t
<1>5. TaskOK(OutJob, t)
  <2>1. IsWalk(OutJob, t)
    BY <1>2 DEF IsWalk
  <2>2. Simple(t)
    BY <1>2 DEF Simple
  <2>3. \A i \in 1 .. Len(t) : t[i] # OutJob.dst
    BY <1>1, <1>2, JobFields
  <2>4. t \in Seq(Node(OutJob))
    BY <1>1, <1>2, JobFields
  <2>5. QED  BY <2>1, <2>2, <2>3, <2>4, <1>2 DEF TaskOK
<1>6. OutJob.tasks = ts /\ Node(OutJob) = N
  BY <1>1, JobFields DEF t
<1> HIDE DEF ts, N
<1>7. \A i \in 1 .. Len(ts) : i = 1
  BY <1>4
<1>8. \A i \in 1 .. Len(ts) : TaskOK(OutJob, ts[i])
  BY <1>4, <1>5, <1>7
<1>9. \A a, b \in 1 .. Len(ts) : a = b
  BY <1>7
<1>10. QED  BY <1>4, <1>6, <1>8, <1>9 DEF TasksOK

LEMMA DistsAreOK ==
    ASSUME qid \in QueryId, NEW E, Renaming(E), IsCSR
    PROVE  SdtOK(OutJob)
<1> DEFINE J == OutJob
           N == 0 .. MaxVerId
           d == nodemap[Dst]
<1>1. /\ MaxVerId \in Nat /\ MaxVerId <= Cardinality(induce)
      /\ d \in N /\ K \in Nat
      /\ \A a, b : Edge(a, b) => a \in N /\ b \in N
  BY LargestId, Halves
<1>2. /\ \A a, b : Edge(a, b) => /\ b # 0 /\ sdt[b] <= K
                                 /\ a # 0 => sdt[a] <= sdt[b] + 1
  BY NewEdges
<1>3. /\ DOMAIN adj = N
      /\ \A v \in N : \A w : w \in Range(adj[v]) <=> Edge(v, w)
  BY RowFacts
<1>4. /\ Cardinality(induce) \in Nat
      /\ sdt \in [0 .. Cardinality(induce) -> 0 .. MaxDist] /\ sdt[d] = 0
      /\ \A x \in 0 .. Cardinality(induce) :
           /\ sdt[x] = 0 => x = d
           /\ sdt[x] = 1 => <<x, d>> \in edges
  BY DEF Renaming, RenamedDists, RenamedIds
<1>5. /\ J.k = K /\ J.dst = d /\ Node(J) = N
      /\ J.sdt = [v \in N |-> sdt[v]]
      /\ \A v \in N : \A w : w \in Nbrs(J, v) <=> Edge(v, w)
  BY <1>3, JobFields
<1> HIDE DEF J, d
<1>6. \A x \in N : x \in 0 .. Cardinality(induce)
  BY <1>1, <1>4
<1> HIDE DEF N
<1>7. \A v \in N : sdt[v] \in Nat /\ J.sdt[v] = sdt[v]
  <2>1. \A v \in N : sdt[v] \in 0 .. MaxDist
    BY <1>4, <1>6
  <2>2. QED  BY <2>1, <1>5 DEF MaxDist
<1>8. J.sdt \in [N -> Nat]
  BY <1>5, <1>7
<1>9. ASSUME NEW v \in N, NEW w \in Nbrs(J, v) PROVE J.sdt[w] <= J.k
  <2>1. Edge(v, w)
    BY <1>5
  <2>2. QED  BY <2>1, <1>1, <1>2, <1>5, <1>7
<1>10. ASSUME NEW v \in N
       PROVE  /\ J.sdt[v] = 0 => v = J.dst
              /\ J.sdt[v] = 1 => J.dst \in Nbrs(J, v)
  BY <1>4, <1>5, <1>6, <1>7 DEF Edge
<1>11. ASSUME NEW q \in Results(J)
       PROVE  \A i \in 2 .. Len(q) : J.sdt[q[i]] + i <= Len(q)
  <2> DEFINE m == Len(q)
             A == { l \in Nat : l + 2 <= m => sdt[q[m - l]] <= l }
  <2>1. q \in Seq(N) /\ m \in 2 .. K + 1 /\ IsResult(J, q)
    BY <1>1, <1>5, ResultElim
  <2>2. m \in Nat /\ \A i \in 1 .. m : q[i] \in N
    BY <2>1, RangeMember
  <2>3. q[m] = d
    BY <2>1, <1>5 DEF IsResult, End
  <2>4. \A i \in 1 .. m - 1 : Edge(q[i], q[i + 1])
    <3>1. \A i \in 1 .. m - 1 : q[i + 1] \in Nbrs(J, q[i])
      BY <2>1 DEF IsResult, IsWalk
    <3>2. \A i \in 1 .. m - 1 : i \in 1 .. m
      BY <2>2
    <3>3. QED  BY <3>1, <3>2, <2>2, <1>5
  <2> HIDE DEF m
  <2>5. 0 \in A
    BY <2>2, <2>3, <1>4
  <2>6. ASSUME NEW l \in Nat, l \in A PROVE l + 1 \in A
    <3>1. CASE l + 3 <= m
      <4> DEFINE i == m - (l + 1)
      <4>1. /\ i \in 1 .. m - 1 /\ i - 1 \in 1 .. m - 1 /\ i + 1 = m - l
            /\ i \in 1 .. m /\ i + 1 \in 1 .. m /\ i - 1 + 1 = i
        BY <3>1, <2>2
      <4> HIDE DEF i
      <4>2. sdt[q[i + 1]] <= l
        BY <4>1, <3>1, <2>6, <2>2
      <4>3. Edge(q[i], q[i + 1]) /\ Edge(q[i - 1], q[i])
        <5>1. Edge(q[i - 1], q[i - 1 + 1])
          BY <4>1, <2>4
        <5>2. QED  BY <5>1, <4>1, <2>4
      <4>4. q[i] # 0
        BY <4>3, <1>2
      <4>5. sdt[q[i]] <= sdt[q[i + 1]] + 1
        BY <4>3, <4>4, <1>2
      <4>6. sdt[q[i]] \in Nat /\ sdt[q[i + 1]] \in Nat
        BY <4>1, <2>2, <1>7
      <4>7. sdt[q[i]] <= l + 1
        BY <4>2, <4>5, <4>6
      <4>8. QED  BY <4>7 DEF i
    <3>2. CASE ~ (l + 3 <= m)
      BY <3>2, <2>2
    <3>3. QED  BY <3>1, <3>2
  <2>7. \A l \in Nat : l \in A
    <3> HIDE DEF A
    <3>1. QED  BY <2>5, <2>6, SetInduction
  <2>8. ASSUME NEW i \in 2 .. m PROVE J.sdt[q[i]] + i <= m
    <3>1. m - i \in A /\ m - (m - i) = i /\ m - i + 2 <= m /\ i \in 1 .. m
      BY <2>2, <2>7
    <3>2. sdt[q[i]] <= m - i
      BY <3>1
    <3>3. J.sdt[q[i]] = sdt[q[i]] /\ sdt[q[i]] \in Nat
      BY <3>1, <2>2, <1>7
    <3>4. QED  BY <3>2, <3>3, <2>2
  <2>9. QED  BY <2>8 DEF m
<1>12. SdtOK(J)
  BY <1>5, <1>8, <1>9, <1>10, <1>11 DEF SdtOK
<1>13. QED  BY <1>12 DEF J

-----------------------------------------------------------------------------
(* The answer, forwards and backwards through the numbers.                 *)

NewOut == [v \in DOMAIN adj |-> Range(adj[v])]
NewPath(q) == FullPath(DOMAIN adj, NewOut, nodemap[Src], nodemap[Dst], K, q)

LEMMA NewPathIs ==
    ASSUME qid \in QueryId, NEW E, Renaming(E), IsCSR, NEW q
    PROVE  NewPath(q) <=>
             /\ q \in Seq(0 .. MaxVerId) /\ Len(q) \in 2 .. K + 1
             /\ q[1] = nodemap[Src] /\ End(q) = nodemap[Dst]
             /\ Simple(q)
             /\ \A i \in 1 .. Len(q) - 1 : Edge(q[i], q[i + 1])
<1>1. /\ DOMAIN adj = 0 .. MaxVerId
      /\ \A v \in 0 .. MaxVerId : \A w : w \in NewOut[v] <=> Edge(v, w)
  BY RowFacts DEF NewOut
<1>2. ASSUME q \in Seq(0 .. MaxVerId)
      PROVE  (\A i \in 1 .. Len(q) - 1 : q[i + 1] \in NewOut[q[i]])
               <=> (\A i \in 1 .. Len(q) - 1 : Edge(q[i], q[i + 1]))
  <2>1. Len(q) \in Nat /\ \A i \in 1 .. Len(q) : q[i] \in 0 .. MaxVerId
    BY <1>2, RangeMember
  <2>2. \A i \in 1 .. Len(q) - 1 : i \in 1 .. Len(q)
    BY <2>1
  <2>3. QED  BY <1>1, <2>1, <2>2
<1>3. QED  BY <1>1, <1>2 DEF NewPath, FullPath

LEMMA NewPathsAre ==
    ASSUME qid \in QueryId, NEW E, Renaming(E), IsCSR, NEW q
    PROVE  q \in SimplePaths(NewOut, nodemap[Src], nodemap[Dst], K) <=> NewPath(q)
<1>1. /\ DOMAIN adj = 0 .. MaxVerId
      /\ \A v \in 0 .. MaxVerId : \A w : w \in NewOut[v] <=> Edge(v, w)
  BY RowFacts DEF NewOut
<1>2. /\ MaxVerId \in Nat /\ nodemap[Src] \in DOMAIN adj /\ K \in Nat
      /\ \A a, b : Edge(a, b) => a \in 0 .. MaxVerId /\ b \in 0 .. MaxVerId
  BY <1>1, LargestId, Halves
<1>3. Closed(DOMAIN adj, NewOut)
  BY <1>1, <1>2 DEF Closed
<1>4. QED  BY <1>2, <1>3, SimplePathsAre DEF NewPath

LEMMA Carries ==
    ASSUME qid \in QueryId, NEW E, Renaming(E), IsCSR, NEW p, QueryPath(p)
    PROVE  NewPath(Renumbered(p))
<1> DEFINE n == Len(p)
           r == Renumbered(p)
<1>1. /\ p \in Seq(Vs) /\ n \in 2 .. K + 1 /\ n \in Nat
      /\ p[1] = Src /\ p[n] = Dst
      /\ \A i \in 1 .. n : p[i] \in Vs
      /\ \A a, b \in 1 .. n : p[a] = p[b] => a = b
  BY QueryPathElim
<1>2. \A i \in 1 .. n - 1 : <<p[i], p[i + 1]>> \in E
  BY DEF Renaming, KeptPaths
<1>3. /\ \A u, v \in Used(E) : nodemap[u] = nodemap[v] => u = v
  BY DEF Renaming, RenamedIds
<1>4. \A a, b : Edge(a, b) => a \in 0 .. MaxVerId /\ b \in 0 .. MaxVerId
  BY LargestId
<1>5. r = [i \in 1 .. n |-> nodemap[p[i]]]
  BY DEF Renumbered
<1> HIDE DEF n, r
<1>6. \A i \in 1 .. n : p[i] \in Used(E)
  <2> SUFFICES ASSUME NEW i \in 1 .. n PROVE p[i] \in Used(E)
    OBVIOUS
  <2>1. CASE i = n
    BY <2>1, <1>1 DEF Used
  <2>2. CASE i # n
    <3>1. i \in 1 .. n - 1
      BY <2>2, <1>1
    <3>2. <<p[i], p[i + 1]>> \in E
      BY <3>1, <1>2
    <3>3. <<p[i], p[i + 1]>>[1] = p[i]
      OBVIOUS
    <3>4. QED  BY <3>2, <3>3 DEF Used
  <2>3. QED  BY <2>1, <2>2
<1>7. \A i \in 1 .. n : r[i] = nodemap[p[i]]
  BY <1>5
<1>8. \A i \in 1 .. n - 1 : Edge(r[i], r[i + 1])
  <2> SUFFICES ASSUME NEW i \in 1 .. n - 1 PROVE Edge(r[i], r[i + 1])
    OBVIOUS
  <2>1. i \in 1 .. n /\ i + 1 \in 1 .. n
    BY <1>1
  <2>2. <<p[i], p[i + 1]>> \in E
    BY <1>2
  <2>3. Edge(nodemap[<<p[i], p[i + 1]>>[1]], nodemap[<<p[i], p[i + 1]>>[2]])
    BY <2>2, NewEdges
  <2>4. QED  BY <2>1, <2>3, <1>7
<1>9. \A i \in 1 .. n : r[i] \in 0 .. MaxVerId
  <2> SUFFICES ASSUME NEW i \in 1 .. n PROVE r[i] \in 0 .. MaxVerId
    OBVIOUS
  <2>1. CASE i = n
    <3>1. n - 1 \in 1 .. n - 1 /\ n - 1 + 1 = n
      BY <1>1
    <3>2. Edge(r[n - 1], r[n])
      BY <3>1, <1>8
    <3>3. QED  BY <3>2, <2>1, <1>4
  <2>2. CASE i # n
    <3>1. i \in 1 .. n - 1
      BY <2>2, <1>1
    <3>2. QED  BY <3>1, <1>4, <1>8
  <2>3. QED  BY <2>1, <2>2
<1>10. r \in Seq(0 .. MaxVerId) /\ Len(r) = n
  <2> DEFINE h == [i \in 1 .. n |-> nodemap[p[i]]]
             N == 0 .. MaxVerId
  <2>1. \A i \in 1 .. n : nodemap[p[i]] \in N
    BY <1>7, <1>9
  <2> HIDE DEF N
  <2>2. h \in [1 .. n -> N]
    BY <2>1
  <2>3. r = h
    BY <1>5
  <2> HIDE DEF h
  <2>4. h \in Seq(N) /\ Len(h) = n
    BY <1>1, <2>2
  <2>5. QED  BY <2>3, <2>4 DEF N
<1>11. Simple(r)
  <2>1. \A a, b \in 1 .. n : r[a] = r[b] => a = b
    BY <1>1, <1>3, <1>6, <1>7
  <2>2. QED  BY <2>1, <1>10 DEF Simple
<1>12. r[1] = nodemap[Src] /\ End(r) = nodemap[Dst]
  <2>1. 1 \in 1 .. n /\ n \in 1 .. n
    BY <1>1
  <2>2. QED  BY <2>1, <1>1, <1>7, <1>10 DEF End
<1>13. NewPath(r)
  BY <1>1, <1>8, <1>10, <1>11, <1>12, NewPathIs
<1>14. QED  BY <1>13 DEF r

LEMMA CarriedBack ==
    ASSUME qid \in QueryId, NEW E, Renaming(E), IsCSR, NEW q, NewPath(q)
    PROVE  \E p : QueryPath(p) /\ Renumbered(p) = q
<1> DEFINE m == Len(q)
           Back(x) == CHOOSE v \in Used(E) : nodemap[v] = x
           p == [i \in 1 .. m |-> Back(q[i])]
<1>1. /\ q \in Seq(0 .. MaxVerId) /\ m \in 2 .. K + 1
      /\ q[1] = nodemap[Src] /\ q[m] = nodemap[Dst]
      /\ \A a, b \in 1 .. m : q[a] = q[b] => a = b
      /\ \A i \in 1 .. m - 1 : Edge(q[i], q[i + 1])
  BY NewPathIs DEF Simple, End
<1>2. m \in Nat
  BY <1>1, LenProperties
<1>3. \A u, v \in Used(E) : nodemap[u] = nodemap[v] => u = v
  BY DEF Renaming, RenamedIds
<1>4. /\ E \subseteq Vs \X Vs
      /\ \A e \in E : e[2] \in Query[qid].out[e[1]]
  BY DEF Renaming, RenamedEdges
<1>5. \A v \in Used(E) : Back(nodemap[v]) = v
  <2> SUFFICES ASSUME NEW v \in Used(E) PROVE Back(nodemap[v]) = v
    OBVIOUS
  <2>1. \E w \in Used(E) : nodemap[w] = nodemap[v]
    OBVIOUS
  <2>2. Back(nodemap[v]) \in Used(E) /\ nodemap[Back(nodemap[v])] = nodemap[v]
    BY <2>1
  <2> HIDE DEF Back
  <2>3. QED  BY <2>2, <1>3
<1>6. \A e \in E : e[1] \in Used(E) /\ e[2] \in Used(E) /\ e[1] \in Vs /\ e[2] \in Vs
  BY <1>4 DEF Used
<1>7. Src \in Used(E) /\ Dst \in Used(E)
  BY DEF Used
<1>8. ASSUME NEW a, NEW b, Edge(a, b)
      PROVE  /\ Back(a) \in Vs /\ Back(b) \in Vs
             /\ nodemap[Back(a)] = a /\ nodemap[Back(b)] = b
             /\ Back(b) \in Query[qid].out[Back(a)]
  <2>1. PICK e \in E : nodemap[e[1]] = a /\ nodemap[e[2]] = b
    BY <1>8, NewEdges
  <2>2. Back(a) = e[1] /\ Back(b) = e[2]
    BY <2>1, <1>5, <1>6
  <2>3. QED  BY <2>1, <2>2, <1>4, <1>6
<1> HIDE DEF m, Back
<1>9. ASSUME NEW i \in 1 .. m
      PROVE  Back(q[i]) \in Vs /\ nodemap[Back(q[i])] = q[i]
  <2>1. CASE i = m
    <3>1. m - 1 \in 1 .. m - 1 /\ m - 1 + 1 = m
      BY <1>1, <1>2
    <3>2. Edge(q[m - 1], q[m])
      BY <3>1, <1>1
    <3>3. QED  BY <3>2, <2>1, <1>8
  <2>2. CASE i # m
    <3>1. i \in 1 .. m - 1
      BY <2>2, <1>2
    <3>2. QED  BY <3>1, <1>1, <1>8
  <2>3. QED  BY <2>1, <2>2
<1>10. \A i \in 1 .. m : p[i] = Back(q[i])
  OBVIOUS
<1>11. p \in Seq(Vs) /\ Len(p) = m
  <2>1. p \in [1 .. m -> Vs]
    BY <1>9
  <2> HIDE DEF p
  <2>2. QED  BY <2>1, <1>2
<1>12. DOMAIN p = 1 .. m
  OBVIOUS
<1> HIDE DEF p
<1>13. \A i \in 1 .. m : nodemap[p[i]] = q[i]
  BY <1>9, <1>10
<1>14. QueryPath(p)
  <2>1. 1 \in 1 .. m /\ m \in 1 .. m
    BY <1>1, <1>2
  <2>2. p[1] = Src /\ p[m] = Dst
    BY <2>1, <1>1, <1>5, <1>7, <1>10
  <2>3. Simple(p)
    <3>1. \A a, b \in 1 .. m : p[a] = p[b] => a = b
      BY <1>1, <1>13
    <3>2. QED  BY <3>1, <1>11 DEF Simple
  <2>4. \A i \in 1 .. m - 1 : p[i + 1] \in Query[qid].out[p[i]]
    <3>1. \A i \in 1 .. m - 1 : i \in 1 .. m /\ i + 1 \in 1 .. m
      BY <1>2
    <3>2. QED  BY <3>1, <1>1, <1>8, <1>10, SMTT(30)
  <2>5. QED  BY <2>2, <2>3, <2>4, <1>1, <1>11 DEF QueryPath, FullPath, End
<1>15. Renumbered(p) = q
  <2>1. Renumbered(p) = [i \in 1 .. m |-> q[i]]
    BY <1>11, <1>13 DEF Renumbered
  <2>2. q = [i \in 1 .. m |-> q[i]]
    BY <1>1 DEF m
  <2>3. QED  BY <2>1, <2>2
<1>16. QED  BY <1>14, <1>15

LEMMA AnswerCarried ==
    ASSUME qid \in QueryId, NEW E, Renaming(E), IsCSR
    PROVE  SimplePaths(NewOut, nodemap[Src], nodemap[Dst], K)
             = { Renumbered(p) : p \in PathsOf[qid] }
<1>1. \A q : q \in SimplePaths(NewOut, nodemap[Src], nodemap[Dst], K) <=> NewPath(q)
  BY NewPathsAre
<1>2. \A p : p \in PathsOf[qid] <=> QueryPath(p)
  BY QueryPaths
<1>3. \A p : QueryPath(p) => NewPath(Renumbered(p))
  BY Carries
<1>4. \A q : NewPath(q) => \E p : QueryPath(p) /\ Renumbered(p) = q
  BY CarriedBack
<1>5. QED  BY <1>1, <1>2, <1>3, <1>4

-----------------------------------------------------------------------------
(* The invariant of the passes after the searches: the edges are the kept  *)
(* ones, then those of some E under the new numbers, then in rows; only a  *)
(* query without paths is turned away.                                     *)

AnswerInv ==
    /\ pc = "number" => edges = Kept
    /\ pc \in {"rows", "done"} => Carried
    /\ pc = "done" => IsCSR
    /\ pc = "empty" => PathsOf[qid] = {}

LEMMA SameRenaming ==
    ASSUME UNCHANGED <<qid, nodemap, edges, sdt, induce>>
    PROVE  Carried' <=> Carried
<1>1. K' = K /\ Src' = Src /\ Dst' = Dst /\ Vs' = Vs
  BY SameQuery
<1>2. ASSUME NEW E PROVE Renaming(E)' <=> Renaming(E)
  <2>1. KeptPaths(E)' <=> KeptPaths(E)
    BY SamePaths
  <2>2. RenamedIds(E)' <=> RenamedIds(E)
    BY <1>1 DEF RenamedIds, Used
  <2>3. RenamedEdges(E)' <=> RenamedEdges(E)
    BY <1>1 DEF RenamedEdges
  <2>4. RenamedDists(E)' <=> RenamedDists(E)
    BY <1>1 DEF RenamedDists
  <2>5. QED  BY <2>1, <2>2, <2>3, <2>4 DEF Renaming
<1>3. QED  BY <1>2 DEF Carried

LEMMA SameRows ==
    ASSUME UNCHANGED <<edges, sdt>>
    PROVE  /\ MaxVerId' = MaxVerId
           /\ \A v : SortedRow(RowSet(v))' = SortedRow(RowSet(v))
<1>1. Ends' = Ends
  BY DEF Ends
<1>2. MaxVerId' = MaxVerId
  BY <1>1 DEF MaxVerId
<1>3. \A v : RowSet(v)' = RowSet(v)
  BY <1>2 DEF RowSet, Edge
<1>4. \A u, w : Nearer(u, w)' <=> Nearer(u, w)
  BY DEF Nearer
<1>5. \A S : SortedRow(S)' = SortedRow(S)
  <2>1. \A w, S : Place(w, S)' = Place(w, S)
    BY <1>4 DEF Place
  <2>2. QED  BY <2>1 DEF SortedRow
<1>6. ASSUME NEW v PROVE SortedRow(RowSet(v))' = SortedRow(RowSet(v))
  <2>1. PICK S : S = RowSet(v)
    OBVIOUS
  <2>2. SortedRow(RowSet(v)) = SortedRow(S) /\ RowSet(v)' = S
    BY <2>1, <1>3
  <2>3. SortedRow(RowSet(v))' = SortedRow(S)'
    BY <2>2 DEF SortedRow, Place
  <2>4. QED  BY <2>2, <2>3, <1>5
<1>7. QED  BY <1>2, <1>6

LEMMA AnswerStep == SearchInv /\ AnswerInv /\ [Next]_vars => AnswerInv'
<1> SUFFICES ASSUME SearchInv, AnswerInv, [Next]_vars PROVE AnswerInv'
  OBVIOUS
<1>0. qid \in QueryId
  BY DEF SearchInv
<1>1. CASE Forward \/ ForwardOn \/ Backward \/ BackwardOn
  BY <1>1 DEF Forward, ForwardOn, Backward, BackwardOn, Searching, AnswerInv
<1>2. CASE ForwardEnd \/ ForwardOnEnd \/ BackwardOnEnd
  BY <1>2 DEF ForwardEnd, ForwardOnEnd, BackwardOnEnd, Searched, AnswerInv
<1>3. CASE BackwardEnd
  <2>1. /\ pc' = IF induce = {} THEN "empty" ELSE "forward+"
        /\ qid' = qid
    BY <1>3 DEF BackwardEnd, Searched
  <2>2. ASSUME induce = {} PROVE PathsOf[qid] = {}
    <3>1. pc = "backward" /\ (hbnodes = {} \/ stop)
      BY <1>3 DEF BackwardEnd, Searched
    <3>2. MetAll = {}
      BY <3>1, <2>2, BackwardLeaves
    <3>3. QED  BY <3>2, <1>0, NothingMet
  <2>3. QED  BY <2>1, <2>2 DEF AnswerInv
<1>4. CASE Prune
  <2>1. /\ pc' = "number" /\ edges' = Kept
        /\ UNCHANGED <<qid, sds, sdt, induce>>
    BY <1>4 DEF Prune, Kept
  <2>2. K' = K /\ Src' = Src /\ Dst' = Dst
    BY <2>1, SameQuery
  <2>3. \A v : (Stays(v)' <=> Stays(v)) /\ Out(v)' = Out(v)
    BY <2>1, <2>2 DEF Stays, Out
  <2>4. Kept' = Kept
    BY <2>1, <2>2, <2>3 DEF Kept
  <2>5. QED  BY <2>1, <2>4 DEF AnswerInv
<1>5. CASE Number
  <2>1. /\ pc = "number" /\ qid' = qid
        /\ pc' = IF edges = {} THEN "empty" ELSE "rows"
    BY <1>5 DEF Number
  <2>2. Measured(sds, sdt) /\ edges = Kept
    BY <2>1 DEF SearchInv, AnswerInv
  <2>3. PICK E : E = Kept
    OBVIOUS
  <2>4. /\ E = {} => PathsOf[qid] = {}
        /\ E # {} => Renaming(E)'
    BY <1>0, <1>5, <2>2, <2>3, NumberCarries
  <2>5. E # {} => Carried'
    BY <2>4 DEF Carried
  <2>6. QED  BY <2>1, <2>2, <2>3, <2>4, <2>5 DEF AnswerInv
<1>6. CASE CreateCSR
  <2>1. /\ pc = "rows" /\ pc' = "done"
        /\ UNCHANGED <<qid, nodemap, edges, sdt, induce>>
        /\ adj' = [v \in 0 .. MaxVerId |-> SortedRow(RowSet(v))]
    BY <1>6 DEF CreateCSR, RowSet, Edge
  <2>2. Carried'
    BY <2>1, SameRenaming DEF AnswerInv
  <2>3. IsCSR'
    <3>1. /\ MaxVerId' = MaxVerId
          /\ \A v : SortedRow(RowSet(v))' = SortedRow(RowSet(v))
      BY <2>1, SameRows
    <3>2. QED  BY <2>1, <3>1 DEF IsCSR
  <2>4. QED  BY <2>1, <2>2, <2>3 DEF AnswerInv
<1>7. CASE Ended \/ UNCHANGED vars
  <2>1. UNCHANGED <<qid, pc, sds, sdt, induce, edges, nodemap, adj>>
    BY <1>7 DEF Ended, vars
  <2>2. Carried' <=> Carried
    BY <2>1, SameRenaming
  <2>3. Kept' = Kept
    <3>1. K' = K /\ Src' = Src /\ Dst' = Dst
      BY <2>1, SameQuery
    <3>2. \A v : (Stays(v)' <=> Stays(v)) /\ Out(v)' = Out(v)
      BY <2>1, <3>1 DEF Stays, Out
    <3>3. QED  BY <2>1, <3>1, <3>2 DEF Kept
  <2>4. IsCSR' <=> IsCSR
    BY <2>1, SameRows DEF IsCSR
  <2>5. QED  BY <2>1, <2>2, <2>3, <2>4 DEF AnswerInv
<1>8. QED  BY <1>1, <1>2, <1>3, <1>4, <1>5, <1>6, <1>7 DEF Next

LEMMA AnswerInvariance == Spec => [](SearchInv /\ AnswerInv)
<1>1. Init => AnswerInv
  BY DEF Init, AnswerInv
<1>2. QED  BY <1>1, SearchInit, SearchStep, AnswerStep, PTL DEF Spec

(* Two half searches, pruning and renumbering: whatever the graph, the     *)
(* results of the job are the simple paths of the query, each under its    *)
(* new numbers, and a query that is turned away has none.                  *)
THEOREM AnswerIsKept == Spec => []SameAnswer
<1>1. SearchInv /\ AnswerInv => SameAnswer
  <2> SUFFICES ASSUME SearchInv, AnswerInv PROVE SameAnswer
    OBVIOUS
  <2>1. qid \in QueryId
    BY DEF SearchInv
  <2>2. ASSUME pc = "done"
        PROVE  SimplePaths(NewOut, nodemap[Src], nodemap[Dst], K)
                 = { Renumbered(p) : p \in PathsOf[qid] }
    <3>1. IsCSR /\ \E E : Renaming(E)
      BY <2>2 DEF AnswerInv, Carried
    <3>2. QED  BY <2>1, <3>1, AnswerCarried
  <2>3. QED  BY <2>2 DEF SameAnswer, AnswerInv, NewOut
<1>2. QED  BY <1>1, AnswerInvariance, PTL

(* The job that Excute hands on is one that the kernel and the CPU         *)
(* searches may be given: what their own theorems assume of a job.         *)
THEOREM JobIsValid == Spec => []JobContract
<1>1. SearchInv /\ AnswerInv => JobContract
  <2> SUFFICES ASSUME SearchInv, AnswerInv, pc = "done"
               PROVE  GraphOK(OutJob) /\ SdtOK(OutJob) /\ TasksOK(OutJob) /\ RowsSorted
    BY DEF JobContract
  <2>1. qid \in QueryId
    BY DEF SearchInv
  <2>2. IsCSR /\ \E E : Renaming(E)
    BY DEF AnswerInv, Carried
  <2>3. QED  BY <2>1, <2>2, GraphIsOK, DistsAreOK, TaskIsOK
<1>2. QED  BY <1>1, AnswerInvariance, PTL

-----------------------------------------------------------------------------
(* The types.  What no pass has written yet is still empty.                *)

TypeInv == TypeOK /\ (pc \in {"forward", "backward", "forward+", "backward+",
                              "prune", "number"} => DOMAIN sds = Vs)
           /\ (pc \in {"forward", "backward", "forward+", "backward+"} =>
                 edges = {} /\ nodemap = << >> /\ adj = << >>)
           /\ (pc \in {"prune", "number"} => nodemap = << >> /\ adj = << >>)
           /\ (pc \in {"rows", "empty"} => adj = << >>)

LEMMA TypeInit == Init => TypeInv
<1> SUFFICES ASSUME Init PROVE TypeInv
  OBVIOUS
<1>1. /\ qid \in QueryId /\ pc = "forward" /\ layer = 0 /\ stop = FALSE
      /\ induce = {} /\ edges = {} /\ nodemap = << >> /\ adj = << >>
      /\ hfnodes = {Src} /\ hbnodes = {Dst}
  BY DEF Init, Src, Dst
<1>2. /\ Src \in Vs /\ Dst \in Vs /\ K \in Nat
  BY <1>1, QueryMetrics, Halves
<1>3. sds \in [Vs -> 0 .. MaxDist] /\ sdt \in [Vs -> 0 .. MaxDist]
  BY <1>2 DEF Init, Unknown, Vs, Src, Dst, MaxDist
<1>4. DOMAIN << >> = {} /\ \A v \in {} : FALSE
  OBVIOUS
<1>5. layer \in 0 .. K + 1
  BY <1>1, <1>2
<1>6. DOMAIN sds = Vs
  BY <1>3
<1>7. /\ \A v \in DOMAIN nodemap : nodemap[v] \in 0 .. Cardinality(induce)
      /\ \A v \in DOMAIN adj : adj[v] \in Seq(Nat)
  BY <1>1, <1>4
<1>8. TypeOK
  BY <1>1, <1>2, <1>3, <1>5, <1>6, <1>7 DEF TypeOK, Vs
<1>9. QED  BY <1>1, <1>6, <1>8 DEF TypeInv

(* What the searches keep in their types.                                  *)
SearchTypes ==
    /\ qid \in QueryId /\ sds \in [Vs -> 0 .. MaxDist] /\ sdt \in [Vs -> 0 .. MaxDist]
    /\ hfnodes \subseteq Vs /\ hbnodes \subseteq Vs /\ induce \subseteq Vs
    /\ layer \in 0 .. K + 1 /\ stop \in BOOLEAN

LEMMA SearchTypesSuffice ==
    ASSUME SearchTypes', edges' \subseteq Nat \X Nat,
           nodemap' = << >>, adj' = << >>,
           pc' \in {"forward", "backward", "forward+", "backward+",
                    "prune", "number", "empty"},
           pc' \in {"forward", "backward", "forward+", "backward+"} => edges' = {}
    PROVE  TypeInv'
<1>1. DOMAIN << >> = {} /\ DOMAIN sds' = Vs'
  BY DEF SearchTypes
<1>2. /\ \A v \in DOMAIN nodemap' : nodemap'[v] \in 0 .. Cardinality(induce')
      /\ \A v \in DOMAIN adj' : adj'[v] \in Seq(Nat)
  BY <1>1
<1>3. TypeOK'
  BY <1>1, <1>2 DEF TypeOK, SearchTypes, Vs
<1>4. QED  BY <1>1, <1>3 DEF TypeInv

LEMMA SearchTypesHold ==
    ASSUME SearchInv, TypeInv,
           pc \in {"forward", "backward", "forward+", "backward+", "prune", "number"}
    PROVE  SearchTypes /\ nodemap = << >> /\ adj = << >>
<1>1. DOMAIN sds = Vs /\ TypeOK /\ nodemap = << >> /\ adj = << >>
  BY DEF TypeInv
<1>2. QED  BY <1>1 DEF TypeOK, SearchTypes, Vs

(* A search that goes on has not reached its last layer.                   *)
LEMMA LayerBound ==
    ASSUME SearchInv, ~ stop,
           pc \in {"forward", "backward", "forward+", "backward+"}
    PROVE  layer \in Nat /\ layer + 1 <= K + 1
<1>1. qid \in QueryId
  BY DEF SearchInv
<1>2. /\ K \in Nat /\ HalfUp \in Nat /\ HalfDown \in Nat /\ BackDepth \in Nat
      /\ HalfUp <= K /\ HalfDown <= K /\ BackDepth <= K
      /\ HalfUp + HalfDown = K
  BY <1>1, Halves
<1>3. /\ Last(HalfUp) \in Nat /\ Last(HalfUp) <= K + 1
      /\ Last(HalfDown) \in Nat /\ Last(HalfDown) <= K + 1
  BY <1>1, <1>2, LastOfHalf
<1>4. CASE pc = "forward"
  <2>1. layer \in 0 .. HalfUp
    BY <1>4 DEF SearchInv, InForward
  <2>2. QED  BY <2>1, <1>2
<1>5. CASE pc = "backward"
  <2>1. layer \in 0 .. BackDepth
    BY <1>5 DEF SearchInv, InBackward
  <2>2. QED  BY <2>1, <1>2
<1>6. CASE pc = "forward+"
  <2>1. layer \in HalfUp .. Last(HalfUp) /\ (stop <=> layer >= Last(HalfUp))
    BY <1>6 DEF SearchInv, InForwardOn
  <2>2. layer < Last(HalfUp) /\ layer \in Nat
    BY <2>1, <1>2, <1>3
  <2>3. QED  BY <2>2, <1>2, <1>3
<1>7. CASE pc = "backward+"
  <2>1. layer \in HalfDown .. Last(HalfDown) /\ (stop <=> layer >= Last(HalfDown))
    BY <1>7 DEF SearchInv, InBackwardOn
  <2>2. layer < Last(HalfDown) /\ layer \in Nat
    BY <2>1, <1>2, <1>3
  <2>3. QED  BY <2>2, <1>2, <1>3
<1>8. QED  BY <1>4, <1>5, <1>6, <1>7

LEMMA MarkTyped ==
    ASSUME qid \in QueryId, NEW dist \in [Vs -> 0 .. MaxDist], NEW found,
           layer \in Nat, layer + 1 <= K + 1
    PROVE  Mark(dist, found) \in [Vs -> 0 .. MaxDist]
<1>1. K \in Nat /\ K < MaxDist
  BY Halves
<1>2. layer + 1 \in 0 .. MaxDist
  BY <1>1 DEF MaxDist
<1>3. QED  BY <1>2 DEF Mark

LEMMA NeighboursTyped ==
    ASSUME qid \in QueryId, NEW S, S \subseteq Vs
    PROVE  /\ UNION { Out(v) : v \in S } \subseteq Vs
           /\ UNION { In(v) : v \in S } \subseteq Vs
<1>1. Closed(Vs, Query[qid].out)
  BY QueryMetrics
<1>2. \A v \in S : Out(v) \subseteq Vs /\ In(v) \subseteq Vs
  BY <1>1 DEF Closed, Out, In, Vs
<1>3. QED  BY <1>2

LEMMA SearchingTypes ==
    ASSUME SearchInv, TypeInv, Forward \/ Backward \/ ForwardOn \/ BackwardOn
    PROVE  TypeInv'
<1>1. /\ pc \in {"forward", "backward", "forward+", "backward+"} /\ ~ stop
      /\ UNCHANGED <<qid, pc, edges, nodemap, adj>> /\ layer' = layer + 1
  BY DEF Forward, Backward, ForwardOn, BackwardOn, Searching
<1>2. SearchTypes /\ nodemap = << >> /\ adj = << >> /\ edges = {}
  BY <1>1, SearchTypesHold DEF TypeInv
<1>3. /\ qid \in QueryId /\ sds \in [Vs -> 0 .. MaxDist] /\ sdt \in [Vs -> 0 .. MaxDist]
      /\ hfnodes \subseteq Vs /\ hbnodes \subseteq Vs /\ induce \subseteq Vs
  BY <1>2 DEF SearchTypes
<1>4. layer \in Nat /\ layer + 1 <= K + 1 /\ K \in Nat
  BY <1>1, <1>3, LayerBound, Halves
<1>5. Vs' = Vs /\ K' = K
  BY <1>1, SameQuery
<1>6. layer' \in 0 .. K' + 1
  BY <1>1, <1>4, <1>5
<1>7. /\ UNION { Out(v) : v \in hfnodes } \subseteq Vs
      /\ UNION { In(v) : v \in hbnodes } \subseteq Vs
  BY <1>3, NeighboursTyped
<1>8. \A dist \in [Vs -> 0 .. MaxDist] : \A found :
        Mark(dist, found) \in [Vs -> 0 .. MaxDist]
  BY <1>3, <1>4, MarkTyped
<1>9. /\ sds' \in [Vs -> 0 .. MaxDist] /\ sdt' \in [Vs -> 0 .. MaxDist]
      /\ hfnodes' \subseteq Vs /\ hbnodes' \subseteq Vs /\ induce' \subseteq Vs
      /\ stop' \in BOOLEAN
  <2>1. CASE Forward
    <3>1. /\ hfnodes' \subseteq UNION { Out(v) : v \in hfnodes }
          /\ sds' = Mark(sds, hfnodes') /\ UNCHANGED <<sdt, hbnodes, induce>>
          /\ stop' = (layer + 1 >= HalfUp)
      BY <2>1 DEF Forward, New
    <3>2. QED  BY <3>1, <1>3, <1>7, <1>8
  <2>2. CASE Backward
    <3>1. /\ hbnodes' \subseteq UNION { In(v) : v \in hbnodes }
          /\ sdt' = Mark(sdt, hbnodes') /\ UNCHANGED <<sds, hfnodes>>
          /\ induce' \subseteq induce \cup hbnodes'
          /\ stop' = (layer + 1 >= HalfDown)
      BY <2>2 DEF Backward, New
    <3>2. QED  BY <3>1, <1>3, <1>7, <1>8
  <2>3. CASE ForwardOn
    <3>1. /\ hfnodes' \subseteq UNION { Out(v) : v \in hfnodes }
          /\ sds' = Mark(sds, hfnodes') /\ UNCHANGED <<sdt, hbnodes>>
          /\ induce' = induce \cup hfnodes'
          /\ stop' = (layer + 1 >= K - 1)
      BY <2>3 DEF ForwardOn, New
    <3>2. QED  BY <3>1, <1>3, <1>7, <1>8
  <2>4. CASE BackwardOn
    <3>1. /\ hbnodes' \subseteq UNION { In(v) : v \in hbnodes }
          /\ sdt' = Mark(sdt, hbnodes') /\ UNCHANGED <<sds, hfnodes>>
          /\ induce' = induce \cup hbnodes'
          /\ stop' = (layer + 1 >= K - 1)
      BY <2>4 DEF BackwardOn, New
    <3>2. QED  BY <3>1, <1>3, <1>7, <1>8
  <2>5. QED  BY <2>1, <2>2, <2>3, <2>4
<1>10. SearchTypes'
  BY <1>1, <1>3, <1>5, <1>6, <1>9 DEF SearchTypes
<1>11. /\ edges' = {} /\ nodemap' = << >> /\ adj' = << >>
       /\ pc' \in {"forward", "backward", "forward+", "backward+"}
  BY <1>1, <1>2
<1>12. edges' \subseteq Nat \X Nat
  BY <1>11
<1>13. QED  BY <1>10, <1>11, <1>12, SearchTypesSuffice

LEMMA EndingTypes ==
    ASSUME SearchInv, TypeInv,
           ForwardEnd \/ BackwardEnd \/ ForwardOnEnd \/ BackwardOnEnd \/ Prune
    PROVE  TypeInv'
<1>1. /\ pc \in {"forward", "backward", "forward+", "backward+", "prune"}
      /\ pc' \in {"backward", "empty", "forward+", "backward+", "prune", "number"}
      /\ UNCHANGED <<qid, sds, sdt, hfnodes, hbnodes, nodemap, adj>>
  BY DEF ForwardEnd, BackwardEnd, ForwardOnEnd, BackwardOnEnd, Searched, Prune
<1>2. SearchTypes /\ nodemap = << >> /\ adj = << >>
  BY <1>1, SearchTypesHold
<1>3. /\ qid \in QueryId /\ sds \in [Vs -> 0 .. MaxDist] /\ sdt \in [Vs -> 0 .. MaxDist]
      /\ hfnodes \subseteq Vs /\ hbnodes \subseteq Vs /\ induce \subseteq Vs
      /\ layer \in 0 .. K + 1 /\ stop \in BOOLEAN
  BY <1>2 DEF SearchTypes
<1>4. Vs' = Vs /\ K' = K
  BY <1>1, SameQuery
<1>5. /\ layer' \in 0 .. K + 1 /\ stop' \in BOOLEAN
  <2>1. layer' \in {0, HalfUp, HalfDown, layer} /\ stop' \in {FALSE, stop}
    BY DEF ForwardEnd, BackwardEnd, ForwardOnEnd, BackwardOnEnd, Searched, Prune
  <2>2. /\ K \in Nat /\ HalfUp \in Nat /\ HalfDown \in Nat
        /\ HalfUp <= K /\ HalfDown <= K
    <3>1. /\ K \in Nat /\ HalfUp \in Nat /\ HalfDown \in Nat /\ HalfUp + HalfDown = K
      BY <1>3, Halves
    <3>2. QED  BY <3>1
  <2>3. 0 \in 0 .. K + 1 /\ HalfUp \in 0 .. K + 1 /\ HalfDown \in 0 .. K + 1
    BY <2>2
  <2>4. QED  BY <2>1, <2>3, <1>3
<1>6. induce' \subseteq Vs
  <2>1. induce' \subseteq induce \cup {Src, Dst}
    BY DEF ForwardEnd, BackwardEnd, ForwardOnEnd, BackwardOnEnd, Searched, Prune
  <2>2. QED  BY <2>1, <1>3, QueryMetrics
<1>7. SearchTypes'
  BY <1>1, <1>3, <1>4, <1>5, <1>6 DEF SearchTypes
<1>8. CASE Prune
  <2>1. edges' \subseteq induce \X induce /\ pc' = "number"
    BY <1>8 DEF Prune
  <2>2. Vs \subseteq Nat
    BY <1>3, QueryFacts DEF Vs
  <2>3. edges' \subseteq Nat \X Nat
    BY <2>1, <2>2, <1>3
  <2>4. QED  BY <2>1, <2>3, <1>1, <1>2, <1>7, SearchTypesSuffice
<1>9. CASE ~ Prune
  <2>1. edges' = edges /\ pc # "prune"
        /\ pc \in {"forward", "backward", "forward+", "backward+"}
    BY <1>9 DEF ForwardEnd, BackwardEnd, ForwardOnEnd, BackwardOnEnd, Searched
  <2>2. edges' = {}
    BY <2>1 DEF TypeInv
  <2>3. edges' \subseteq Nat \X Nat
    BY <2>2
  <2>4. QED  BY <2>2, <2>3, <1>1, <1>2, <1>7, SearchTypesSuffice
<1>10. QED  BY <1>8, <1>9

LEMMA NumberTypes ==
    ASSUME SearchInv, TypeInv, AnswerInv, Number
    PROVE  TypeInv'
<1>1. /\ pc = "number" /\ pc' \in {"empty", "rows"}
      /\ UNCHANGED <<qid, hfnodes, hbnodes, layer, stop, induce, adj>>
  BY DEF Number
<1>2. PICK map \in Numberings :
        /\ nodemap' = [v \in Vertex(Query[qid]) |-> NewId(map, v)]
        /\ edges' = { <<NewId(map, e[1]), NewId(map, e[2])>> : e \in edges }
        /\ sds' = ById(map, sds) /\ sdt' = ById(map, sdt)
  BY DEF Number
<1>3. SearchTypes /\ adj = << >>
  BY <1>1, SearchTypesHold
<1>4. /\ qid \in QueryId /\ sds \in [Vs -> 0 .. MaxDist] /\ sdt \in [Vs -> 0 .. MaxDist]
      /\ hfnodes \subseteq Vs /\ hbnodes \subseteq Vs /\ induce \subseteq Vs
      /\ layer \in 0 .. K + 1 /\ stop \in BOOLEAN
  BY <1>3 DEF SearchTypes
<1>5. Vs' = Vs /\ K' = K
  BY <1>1, SameQuery
<1>6. Measured(sds, sdt)
  BY <1>1 DEF SearchInv
<1>7. /\ map \in [Bucketed -> 1 .. Cardinality(induce)]
      /\ \A v \in Bucketed : map[v] \in 0 .. Cardinality(induce)
  BY <1>4, <1>6, NumberingFacts
<1>8. Cardinality(induce) \in Nat
  BY <1>4, CountOfInduce
<1>9. \A v : NewId(map, v) \in 0 .. Cardinality(induce)
  <2>1. DOMAIN map = Bucketed /\ 0 \in 0 .. Cardinality(induce)
    BY <1>7, <1>8
  <2>2. QED  BY <2>1, <1>7 DEF NewId
<1>10. Bucketed \subseteq Vs
  BY <1>4, <1>6, BucketedFacts
<1>11. ASSUME NEW dist \in [Vs -> 0 .. MaxDist]
       PROVE  ById(map, dist) \in [0 .. Cardinality(induce) -> 0 .. MaxDist]
  <2>1. ASSUME NEW i \in 0 .. Cardinality(induce)
        PROVE  (IF \E v \in Bucketed : map[v] = i
                THEN dist[CHOOSE v \in Bucketed : map[v] = i] ELSE MaxDist)
                 \in 0 .. MaxDist
    <3>1. CASE \E v \in Bucketed : map[v] = i
      <4>1. (CHOOSE v \in Bucketed : map[v] = i) \in Bucketed
        BY <3>1
      <4>2. dist[CHOOSE v \in Bucketed : map[v] = i] \in 0 .. MaxDist
        BY <4>1, <1>10
      <4>3. QED  BY <3>1, <4>2
    <3>2. CASE ~ \E v \in Bucketed : map[v] = i
      BY <3>2 DEF MaxDist
    <3>3. QED  BY <3>1, <3>2
  <2>2. QED  BY <2>1 DEF ById
<1>12. /\ sds' \in [0 .. Cardinality(induce) -> 0 .. MaxDist]
       /\ sdt' \in [0 .. Cardinality(induce) -> 0 .. MaxDist]
  BY <1>2, <1>4, <1>11
<1>13. /\ sds' \in [DOMAIN sds' -> 0 .. MaxDist]
       /\ sdt' \in [DOMAIN sds' -> 0 .. MaxDist]
  <2>1. DOMAIN sds' = 0 .. Cardinality(induce)
    BY <1>12
  <2>2. QED  BY <2>1, <1>12
<1>14. \A v \in DOMAIN nodemap' : nodemap'[v] \in 0 .. Cardinality(induce')
  BY <1>1, <1>2, <1>9
<1>15. edges' \subseteq Nat \X Nat
  <2>1. \A v : NewId(map, v) \in Nat
    BY <1>8, <1>9
  <2>2. QED  BY <2>1, <1>2
<1>16. \A v \in DOMAIN adj' : adj'[v] \in Seq(Nat)
  BY <1>1, <1>3
<1>17. TypeOK'
  BY <1>1, <1>4, <1>5, <1>13, <1>14, <1>15, <1>16 DEF TypeOK, Vs
<1>18. QED  BY <1>1, <1>3, <1>17 DEF TypeInv

LEMMA CreateTypes ==
    ASSUME SearchInv, TypeInv, AnswerInv, CreateCSR
    PROVE  TypeInv'
<1>1. /\ pc = "rows" /\ pc' = "done"
      /\ UNCHANGED <<qid, sds, sdt, hfnodes, hbnodes, layer, stop, induce,
                     edges, nodemap>>
      /\ adj' = [v \in 0 .. MaxVerId |-> SortedRow(RowSet(v))]
  BY DEF CreateCSR, RowSet, Edge
<1>2. qid \in QueryId
  BY DEF SearchInv
<1>3. \A v : RowOf(SortedRow(RowSet(v)), RowSet(v)) /\ RowSet(v) \subseteq Nat
  BY <1>1, <1>2, RowsListed DEF AnswerInv, Carried
<1>4. ASSUME NEW r, NEW S, RowOf(r, S), S \subseteq Nat PROVE r \in Seq(Nat)
  <2>1. r \in Seq(S)
    BY <1>4 DEF RowOf
  <2>2. Len(r) \in Nat /\ r \in [1 .. Len(r) -> S]
    BY <2>1, LenProperties
  <2>3. r \in [1 .. Len(r) -> Nat]
    BY <2>2, <1>4
  <2>4. QED  BY <2>2, <2>3
<1>5. \A v \in DOMAIN adj' : adj'[v] \in Seq(Nat)
  BY <1>1, <1>3, <1>4
<1>6. Vs' = Vs /\ K' = K
  BY <1>1, SameQuery
<1>7. TypeOK
  BY DEF TypeInv
<1>8. TypeOK'
  BY <1>1, <1>5, <1>6, <1>7 DEF TypeOK, Vs
<1>9. QED  BY <1>1, <1>8 DEF TypeInv

LEMMA TypeStep == SearchInv /\ AnswerInv /\ TypeInv /\ [Next]_vars => TypeInv'
<1> SUFFICES ASSUME SearchInv, AnswerInv, TypeInv, [Next]_vars PROVE TypeInv'
  OBVIOUS
<1>1. CASE Ended \/ UNCHANGED vars
  <2>1. UNCHANGED <<qid, pc, sds, sdt, hfnodes, hbnodes, layer, stop, induce,
                    edges, nodemap, adj>>
    BY <1>1 DEF Ended, vars
  <2>2. Vs' = Vs /\ K' = K
    BY <2>1, SameQuery
  <2>3. TypeOK'
    BY <2>1, <2>2 DEF TypeInv, TypeOK
  <2>4. QED  BY <2>1, <2>2, <2>3 DEF TypeInv
<1>2. QED
  BY <1>1, SearchingTypes, EndingTypes, NumberTypes, CreateTypes DEF Next

(* Every new id is an index of sdut and sdus, every layer fits, in every   *)
(* pass over every graph.                                                  *)
THEOREM TypeCorrect == Spec => []TypeOK
<1>1. TypeInv => TypeOK
  BY DEF TypeInv
<1>2. QED  BY <1>1, TypeInit, TypeStep, SearchInit, SearchStep, AnswerInvariance, PTL DEF Spec

-----------------------------------------------------------------------------
(* The pool of the engines: every result is counted exactly once.  The sum *)
(* of the counter and the results still covered is constant; for that to   *)
(* be inductive the pending paths must be viable prefixes of results, and  *)
(* none may continue another.                                              *)

PoolInv ==
    /\ jid \in JobId
    /\ status \in {"run", "complete", "error"}
    /\ Accounts(ThisJob, pending, ans)
    /\ status = "complete" => pending = {}

(* The invariant holds at the start: every result is covered by its task.  *)
LEMMA PoolInitInv == PoolInit => PoolInv
<1> SUFFICES ASSUME PoolInit PROVE PoolInv
  OBVIOUS
<1>1. /\ jid \in JobId /\ pending = Range(ThisJob.tasks)
      /\ ans = 0 /\ status = "run"
  BY DEF PoolInit, ThisJob
<1>2. JobOK(ThisJob)
  BY <1>1, JobsAssumption DEF ThisJob
<1>3. Accounts(ThisJob, pending, ans)
  BY <1>1, <1>2, TasksAccount
<1>4. QED  BY <1>1, <1>3 DEF PoolInv

(* No step of the pool loses a result or counts one twice.                 *)
LEMMA PoolStepInv == PoolInv /\ [PoolNext]_poolVars => PoolInv'
<1> SUFFICES ASSUME PoolInv, [PoolNext]_poolVars PROVE PoolInv'
  OBVIOUS
<1>1. /\ jid \in JobId /\ status \in {"run", "complete", "error"}
      /\ Accounts(ThisJob, pending, ans)
      /\ status = "complete" => pending = {}
  BY DEF PoolInv
<1>2. JobOK(ThisJob)
  BY <1>1, JobsAssumption DEF ThisJob
<1>3. jid' = jid /\ ThisJob' = ThisJob
  BY DEF PoolNext, Expand, Emit, Finish, Abort, Stopped, poolVars, ThisJob
<1>4. SUFFICES /\ status' \in {"run", "complete", "error"}
               /\ Accounts(ThisJob, pending', ans')
               /\ status' = "complete" => pending' = {}
  BY <1>1, <1>3 DEF PoolInv
<1>5. CASE \E S \in SUBSET pending : Expand(S)
  <2>1. PICK S \in SUBSET pending : Expand(S)
    BY <1>5
  <2>2. /\ ans' = ans /\ status' = status /\ status = "run"
        /\ \A p \in S : ~ Closing(ThisJob, p)
        /\ pending' = Expanded(ThisJob, pending, S)
    BY <2>1 DEF Expand, Expanded
  <2>3. Accounts(ThisJob, pending', ans')
    BY <1>1, <1>2, <2>2, ExpandAccounts
  <2>4. QED  BY <2>2, <2>3
<1>6. CASE \E p \in pending : Emit(p)
  <2>1. PICK p \in pending : Emit(p)
    BY <1>6
  <2>2. /\ ans' = ans + 1 /\ status' = status /\ status = "run"
        /\ Closing(ThisJob, p) /\ pending' = pending \ {p}
    BY <2>1 DEF Emit
  <2>3. Accounts(ThisJob, pending', ans')
    BY <1>1, <1>2, <2>2, EmitAccounts
  <2>4. QED  BY <2>2, <2>3
<1>7. CASE Finish
  BY <1>1, <1>7 DEF Finish
<1>8. CASE Abort
  BY <1>1, <1>8 DEF Abort
<1>9. CASE Stopped \/ UNCHANGED poolVars
  BY <1>1, <1>9 DEF Stopped, poolVars
<1>10. QED  BY <1>5, <1>6, <1>7, <1>8, <1>9 DEF PoolNext

LEMMA PoolInvariance == PoolSpec => []PoolInv
BY PoolInitInv, PoolStepInv, PTL DEF PoolSpec

(* Every result is counted or covered by exactly one pending path, in      *)
(* every job that meets JobOK, whatever its size.                          *)
THEOREM ResultsConserved == PoolSpec => [](NoOverlap /\ Conservation)
<1>1. PoolInv => NoOverlap /\ Conservation
  BY DEF PoolInv, Accounts, AntiChain, NoOverlap, Conservation, Covered,
         CoveredBy, ResultsOf, ThisJob
<1>2. QED  BY <1>1, PoolInvariance, PTL

(* An enumeration that ends without an error is exact: the reason why      *)
(* ans_paths_num with bufferDebug[0] = 0 can be trusted.                   *)
THEOREM CompletionExact == PoolSpec => []CompleteIsExact
<1>1. PoolInv => CompleteIsExact
  <2> SUFFICES ASSUME PoolInv, status = "complete"
               PROVE  ans = Cardinality(ResultsOf[jid])
    BY DEF CompleteIsExact
  <2>1. Accounts(ThisJob, {}, ans) /\ jid \in JobId
    BY DEF PoolInv
  <2>2. QED  BY <2>1, EmptyAccount DEF ResultsOf, ThisJob
<1>2. QED  BY <1>1, PoolInvariance, PTL

-----------------------------------------------------------------------------
(* From the query to the count: the results of the job are the paths of    *)
(* the query under their new numbers, and none falls on another.           *)

LEMMA ResultIsPath ==
    ASSUME qid \in QueryId, NEW E, Renaming(E), IsCSR, NEW q
    PROVE  q \in Results(OutJob) <=> NewPath(q)
<1> DEFINE J == OutJob
           N == 0 .. MaxVerId
           t == <<nodemap[Src]>>
           ts == <<t>>
<1>1. /\ J.k = K /\ J.dst = nodemap[Dst] /\ Node(J) = N /\ K \in Nat
      /\ J.tasks = ts
      /\ \A v \in N : \A w : w \in Nbrs(J, v) <=> Edge(v, w)
  BY RowFacts, JobFields, Halves
<1>2. Len(t) = 1 /\ t[1] = nodemap[Src] /\ Len(ts) = 1 /\ ts[1] = t
  OBVIOUS
<1> HIDE DEF J, N, t, ts
<1>3. ASSUME q \in Seq(N), Len(q) \in 2 .. K + 1
      PROVE  IsResult(J, q) <=> /\ q[1] = nodemap[Src] /\ End(q) = nodemap[Dst]
                                /\ Simple(q)
                                /\ \A i \in 1 .. Len(q) - 1 : Edge(q[i], q[i + 1])
  <2>1. Len(q) \in Nat /\ \A i \in 1 .. Len(q) : q[i] \in N
    BY <1>3, RangeMember
  <2>2. (\E i \in 1 .. Len(ts) : Prefix(ts[i], q)) <=> q[1] = nodemap[Src]
    <3>1. Prefix(t, q) <=> q[1] = nodemap[Src]
      <4>1. Prefix(t, q) <=> \A i \in 1 .. 1 : t[i] = q[i]
        BY <1>2, <1>3, <2>1 DEF Prefix
      <4>2. QED  BY <4>1, <1>2
    <3>2. (\E i \in 1 .. Len(ts) : Prefix(ts[i], q)) <=> Prefix(t, q)
      BY <1>2
    <3>3. QED  BY <3>1, <3>2
  <2>3. IsWalk(J, q) <=> \A i \in 1 .. Len(q) - 1 : Edge(q[i], q[i + 1])
    <3>1. \A i \in 1 .. Len(q) - 1 : i \in 1 .. Len(q)
      BY <2>1
    <3>2. QED  BY <3>1, <2>1, <1>1 DEF IsWalk
  <2>4. QED  BY <2>2, <2>3, <1>1 DEF IsResult
<1>4. NewPath(q) <=> /\ q \in Seq(N) /\ Len(q) \in 2 .. K + 1
                     /\ q[1] = nodemap[Src] /\ End(q) = nodemap[Dst]
                     /\ Simple(q)
                     /\ \A i \in 1 .. Len(q) - 1 : Edge(q[i], q[i + 1])
  BY NewPathIs DEF N
<1>5. q \in Results(J) <=> q \in Seq(N) /\ Len(q) \in 2 .. K + 1 /\ IsResult(J, q)
  <2>1. q \in Results(J) => q \in Seq(N) /\ Len(q) \in 2 .. K + 1 /\ IsResult(J, q)
    BY <1>1, ResultElim
  <2>2. q \in Seq(N) /\ Len(q) \in 2 .. K + 1 /\ IsResult(J, q) => q \in Results(J)
    BY <1>1, ResultIntro
  <2>3. QED  BY <2>1, <2>2
<1>6. q \in Results(J) <=> NewPath(q)
  BY <1>3, <1>4, <1>5
<1>7. QED  BY <1>6 DEF J

(* The new numbers tell the vertices of paths apart.                       *)
LEMMA RenumberedApart ==
    ASSUME qid \in QueryId, NEW E, Renaming(E), NEW p, QueryPath(p),
           NEW r, QueryPath(r), Renumbered(p) = Renumbered(r)
    PROVE  p = r
<1>1. /\ p \in Seq(Vs) /\ Len(p) \in Nat /\ p[Len(p)] = Dst
      /\ r \in Seq(Vs) /\ Len(r) \in Nat /\ r[Len(r)] = Dst
  BY QueryPathElim
<1>2. \A u, v \in Used(E) : nodemap[u] = nodemap[v] => u = v
  BY DEF Renaming, RenamedIds
<1>3. ASSUME NEW s, QueryPath(s), NEW i \in 1 .. Len(s) PROVE s[i] \in Used(E)
  <2>1. Len(s) \in Nat /\ s[Len(s)] = Dst
    BY <1>3, QueryPathElim
  <2>2. CASE i = Len(s)
    BY <2>1, <2>2 DEF Used
  <2>3. CASE i # Len(s)
    <3>1. i \in 1 .. Len(s) - 1
      BY <2>1, <2>3
    <3>2. <<s[i], s[i + 1]>> \in E
      BY <1>3, <3>1 DEF Renaming, KeptPaths
    <3>3. <<s[i], s[i + 1]>>[1] = s[i]
      OBVIOUS
    <3>4. QED  BY <3>2, <3>3 DEF Used
  <2>4. QED  BY <2>2, <2>3
<1>4. /\ Renumbered(p) = [i \in 1 .. Len(p) |-> nodemap[p[i]]]
      /\ Renumbered(r) = [i \in 1 .. Len(r) |-> nodemap[r[i]]]
  BY DEF Renumbered
<1>5. Len(p) = Len(r)
  <2>1. /\ DOMAIN Renumbered(p) = 1 .. Len(p)
        /\ DOMAIN Renumbered(r) = 1 .. Len(r)
    BY <1>4
  <2>2. 1 .. Len(p) = 1 .. Len(r)
    BY <2>1
  <2>3. QED  BY <2>2, <1>1
<1>6. \A i \in 1 .. Len(p) : nodemap[p[i]] = nodemap[r[i]]
  <2>1. \A i \in 1 .. Len(p) : Renumbered(p)[i] = nodemap[p[i]]
    BY <1>4
  <2>2. \A i \in 1 .. Len(r) : Renumbered(r)[i] = nodemap[r[i]]
    BY <1>4
  <2>3. QED  BY <2>1, <2>2, <1>5
<1>7. \A i \in 1 .. Len(p) : p[i] = r[i]
  BY <1>2, <1>3, <1>5, <1>6
<1>8. QED  BY <1>1, <1>5, <1>7, SeqEqual

LEMMA SameNumber ==
    ASSUME qid \in QueryId, NEW E, Renaming(E), IsCSR, JobOK(OutJob)
    PROVE  Cardinality(Results(OutJob)) = Cardinality(PathsOf[qid])
<1> DEFINE P == PathsOf[qid]
           R == Results(OutJob)
           f == [p \in P |-> Renumbered(p)]
<1>1. \A p : p \in P <=> QueryPath(p)
  BY QueryPaths
<1>2. \A q : q \in R <=> NewPath(q)
  BY ResultIsPath
<1>3. /\ \A p : QueryPath(p) => NewPath(Renumbered(p))
      /\ \A q : NewPath(q) => \E p : QueryPath(p) /\ Renumbered(p) = q
  BY Carries, CarriedBack
<1>4. \A p, r \in P : Renumbered(p) = Renumbered(r) => p = r
  BY <1>1, RenumberedApart
<1>5. IsFiniteSet(R)
  BY ResultsFinite
<1> HIDE DEF P, R
<1>6. /\ f \in [P -> R] /\ \A p \in P : f[p] = Renumbered(p)
      /\ \A q \in R : \E p \in P : Renumbered(p) = q
  BY <1>1, <1>2, <1>3
<1> HIDE DEF f
<1>7. f \in Injection(P, R) /\ f \in Surjection(P, R)
  BY <1>4, <1>6 DEF Injection, IsInjective, Surjection
<1>8. Cardinality(P) = Cardinality(R)
  BY <1>5, <1>7, FS_Injection
<1>9. QED  BY <1>8 DEF P, R

(* The whole way: the preprocessing of a query and an engine that keeps    *)
(* the promise of PathPool, side by side.  If the engine completes the job *)
(* that the preprocessing has made, the number it reports is the number of *)
(* simple paths of at most k hops from the source to the target, for every *)
(* graph and every order of work.                                          *)
THEOREM QueryIsAnswered ==
    Spec /\ PoolSpec =>
      [](pc = "done" /\ ThisJob = OutJob /\ status = "complete"
           => ans = Cardinality(PathsOf[qid]))
<1>1. SearchInv /\ AnswerInv /\ PoolInv =>
        (pc = "done" /\ ThisJob = OutJob /\ status = "complete"
           => ans = Cardinality(PathsOf[qid]))
  <2> SUFFICES ASSUME SearchInv, AnswerInv, PoolInv, pc = "done",
                      ThisJob = OutJob, status = "complete"
               PROVE  ans = Cardinality(PathsOf[qid])
    OBVIOUS
  <2>1. qid \in QueryId
    BY DEF SearchInv
  <2>2. IsCSR /\ \E E : Renaming(E)
    BY DEF AnswerInv, Carried
  <2>3. PICK E : Renaming(E)
    BY <2>2
  <2>4. JobOK(OutJob)
    BY <2>1, <2>2, <2>3, GraphIsOK, DistsAreOK, TaskIsOK DEF JobOK
  <2>5. Cardinality(Results(OutJob)) = Cardinality(PathsOf[qid])
    BY <2>1, <2>2, <2>3, <2>4, SameNumber
  <2>6. ans = Cardinality(Results(ThisJob))
    <3>1. Accounts(ThisJob, {}, ans) /\ jid \in JobId
      BY DEF PoolInv
    <3>2. QED  BY <3>1, EmptyAccount
  <2>7. QED  BY <2>5, <2>6
<1>2. QED  BY <1>1, AnswerInvariance, PoolInvariance, PTL
=============================================================================
