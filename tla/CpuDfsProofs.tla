---------------------------- MODULE CpuDfsProofs ----------------------------
(***************************************************************************)
(* The CPU search implements the pool of PathPool, for every job.          *)
(*                                                                         *)
(* What the search has to get right is a stack that means two things at    *)
(* once: an entry that arrVisited_ marks is a vertex of the current path,  *)
(* any other is a sibling to be tried after the marked entries below it.   *)
(* The first lemmas say which path a stack spells out and what visiting,   *)
(* popping and pushing do to it.  The invariant CInv then says that the    *)
(* marks are those of a simple walk (Marked), that each sibling stands for *)
(* a path of its own that continues the task at hand and does not close    *)
(* (Siblings), that while a row is read its vertex is the last one marked  *)
(* and what has been offered of it lies above (RowRead), and that the      *)
(* paths pending account for the results not counted yet (Accounts).       *)
(***************************************************************************)
EXTENDS CpuDfs, HopPathsProofs

-----------------------------------------------------------------------------
(* The path a stack spells out, as an operator of the stack, of the marks  *)
(* in arrVisited_ and of the path given.                                   *)
MarkAt(st, vis, t)  == /\ st[t] \in vis
                       /\ \A u \in t + 1 .. Len(st) : st[u] # st[t]
MarksIn(st, vis, s) == { t \in 1 .. s - 1 : MarkAt(st, vis, t) }
Spelled(st, vis, s) ==
    [n \in 1 .. Cardinality(MarksIn(st, vis, s)) |->
       st[CHOOSE t \in MarksIn(st, vis, s) :
            Cardinality(MarksIn(st, vis, t)) = n - 1]]
PathIn(g, st, vis, s) == g \o Spelled(st, vis, s)

(* The marks below an entry are finitely many, and fewer than the marks    *)
(* below a later mark.                                                     *)
LEMMA MarksCounted ==
    ASSUME NEW st, NEW vis, NEW s \in Nat
    PROVE  /\ IsFiniteSet(MarksIn(st, vis, s))
           /\ Cardinality(MarksIn(st, vis, s)) \in Nat
           /\ \A t \in Nat : t <= s =>
                /\ MarksIn(st, vis, t) \subseteq MarksIn(st, vis, s)
                /\ Cardinality(MarksIn(st, vis, t))
                     <= Cardinality(MarksIn(st, vis, s))
           /\ \A t \in MarksIn(st, vis, s) :
                /\ t \in Nat /\ t < s /\ Cardinality(MarksIn(st, vis, t)) \in Nat
                /\ Cardinality(MarksIn(st, vis, t))
                     < Cardinality(MarksIn(st, vis, s))
<1> DEFINE M(t) == MarksIn(st, vis, t)
<1>1. ASSUME NEW t \in Nat PROVE IsFiniteSet(M(t)) /\ Cardinality(M(t)) \in Nat
  <2>1. IsFiniteSet(1 .. t - 1)
    BY FS_Interval
  <2>2. M(t) \in SUBSET (1 .. t - 1)
    BY DEF MarksIn
  <2>3. QED  BY <2>1, <2>2, FS_Subset, FS_CardinalityType
<1>2. ASSUME NEW t \in Nat, t <= s
      PROVE  M(t) \subseteq M(s) /\ Cardinality(M(t)) <= Cardinality(M(s))
  <2>1. M(t) \in SUBSET M(s)
    BY <1>2 DEF MarksIn
  <2>2. QED  BY <1>1, <2>1, FS_Subset
<1>3. ASSUME NEW t \in M(s)
      PROVE  /\ t \in Nat /\ t < s /\ Cardinality(M(t)) \in Nat
             /\ Cardinality(M(t)) < Cardinality(M(s))
  <2>1. t \in Nat /\ t < s /\ t \notin M(t)
    BY DEF MarksIn
  <2>2. M(t) \cup {t} \in SUBSET M(s)
    BY <2>1 DEF MarksIn
  <2> HIDE DEF M
  <2>3. Cardinality(M(t) \cup {t}) = Cardinality(M(t)) + 1
    BY <1>1, <2>1, FS_AddElement
  <2>4. Cardinality(M(t) \cup {t}) <= Cardinality(M(s))
    BY <1>1, <2>2, FS_Subset
  <2>5. QED  BY <1>1, <2>1, <2>3, <2>4
<1>4. QED  BY <1>1, <1>2, <1>3

(* Each mark has a place of its own in the path, and no place is empty.    *)
LEMMA MarksRanked ==
    ASSUME NEW st, NEW vis, NEW s \in Nat,
           NEW n \in 1 .. Cardinality(MarksIn(st, vis, s))
    PROVE  /\ \E t \in MarksIn(st, vis, s) :
                Cardinality(MarksIn(st, vis, t)) = n - 1
           /\ \A t, u \in MarksIn(st, vis, s) :
                Cardinality(MarksIn(st, vis, t)) = Cardinality(MarksIn(st, vis, u))
                  => t = u
<1> DEFINE M(t) == MarksIn(st, vis, t)
           c == Cardinality(M(s))
           f == [t \in M(s) |-> Cardinality(M(t)) + 1]
<1>1. IsFiniteSet(M(s)) /\ c \in Nat
  BY MarksCounted
<1>2. ASSUME NEW t \in M(s)
      PROVE  t \in Nat /\ Cardinality(M(t)) \in Nat /\ Cardinality(M(t)) < c
  BY MarksCounted
<1>3. ASSUME NEW t \in M(s), NEW u \in M(s), t < u
      PROVE  Cardinality(M(t)) < Cardinality(M(u))
  <2>1. t \in M(u)
    BY <1>3 DEF MarksIn
  <2>2. QED  BY <1>2, <2>1, MarksCounted
<1>4. ASSUME NEW t \in M(s), NEW u \in M(s),
             Cardinality(M(t)) = Cardinality(M(u))
      PROVE  t = u
  <2> HIDE DEF M
  <2>1. ~ (t < u) /\ ~ (u < t)
    BY <1>2, <1>3, <1>4
  <2>2. QED  BY <1>2, <2>1
<1>5. IsFiniteSet(1 .. c) /\ Cardinality(1 .. c) = c
  BY <1>1, FS_Interval
<1> HIDE DEF M, c
<1>6. f \in Injection(M(s), 1 .. c)
  <2>1. f \in [M(s) -> 1 .. c]
    BY <1>1, <1>2
  <2>2. ASSUME NEW t \in M(s), NEW u \in M(s), f[t] = f[u] PROVE t = u
    <3>1. Cardinality(M(t)) = Cardinality(M(u))
      BY <1>2, <2>2
    <3>2. QED  BY <1>4, <3>1
  <2>3. QED  BY <2>1, <2>2 DEF Injection, IsInjective
<1>7. f \in Surjection(M(s), 1 .. c)
  BY <1>5, <1>6, FS_Injection DEF c
<1>8. PICK t \in M(s) : f[t] = n
  BY <1>7 DEF Surjection, c, M
<1>9. Cardinality(M(t)) = n - 1
  BY <1>2, <1>8
<1>10. QED  BY <1>4, <1>9 DEF M
(* The vertex at a place is that of the mark with so many marks below it.  *)
LEMMA SpelledAt ==
    ASSUME NEW S, NEW st \in Seq(S), NEW vis, NEW s \in 1 .. Len(st) + 1
    PROVE  /\ Spelled(st, vis, s) \in Seq(S)
           /\ Len(Spelled(st, vis, s)) = Cardinality(MarksIn(st, vis, s))
           /\ \A t \in MarksIn(st, vis, s) :
                /\ Cardinality(MarksIn(st, vis, t)) + 1
                     \in 1 .. Cardinality(MarksIn(st, vis, s))
                /\ Spelled(st, vis, s)[Cardinality(MarksIn(st, vis, t)) + 1] = st[t]
           /\ \A n \in 1 .. Cardinality(MarksIn(st, vis, s)) :
                \E t \in MarksIn(st, vis, s) :
                  /\ Cardinality(MarksIn(st, vis, t)) = n - 1
                  /\ Spelled(st, vis, s)[n] = st[t]
<1> DEFINE M(t) == MarksIn(st, vis, t)
           c == Cardinality(M(s))
           h == Spelled(st, vis, s)
           At(n) == CHOOSE t \in M(s) : Cardinality(M(t)) = n - 1
<1>1. s \in Nat /\ Len(st) \in Nat /\ DOMAIN st = 1 .. Len(st)
  BY LenProperties
<1>2. c \in Nat /\ \A t \in M(s) : /\ t \in Nat /\ Cardinality(M(t)) \in Nat
                                   /\ Cardinality(M(t)) < c
  BY <1>1, MarksCounted
<1>3. h = [n \in 1 .. c |-> st[At(n)]]
  BY DEF Spelled
<1>4. ASSUME NEW n \in 1 .. c
      PROVE  At(n) \in M(s) /\ Cardinality(M(At(n))) = n - 1
  <2>1. \E t \in M(s) : Cardinality(M(t)) = n - 1
    BY <1>1, MarksRanked
  <2>2. QED  BY <2>1
<1>5. \A t \in M(s) : st[t] \in S
  BY <1>1, ElementOfSeq DEF MarksIn
<1> HIDE DEF M, c, h, At
<1>6. h \in [1 .. c -> S]
  BY <1>3, <1>4, <1>5
<1>7. h \in Seq(S) /\ Len(h) = c
  <2>1. h \in Seq(S)
    BY <1>2, <1>6, SeqDef
  <2>2. QED  BY <1>2, <1>6, <2>1, LenProperties
<1>8. ASSUME NEW t \in M(s)
      PROVE  Cardinality(M(t)) + 1 \in 1 .. c /\ h[Cardinality(M(t)) + 1] = st[t]
  <2> DEFINE n == Cardinality(M(t)) + 1
  <2>1. n \in 1 .. c /\ n - 1 = Cardinality(M(t))
    BY <1>2
  <2> HIDE DEF n
  <2>2. At(n) \in M(s) /\ Cardinality(M(At(n))) = Cardinality(M(t))
    BY <1>4, <2>1
  <2>3. At(n) = t
    BY <1>1, <2>1, <2>2, MarksRanked DEF M, c
  <2>4. QED  BY <1>3, <2>1, <2>3 DEF n
<1>9. ASSUME NEW n \in 1 .. c
      PROVE  \E t \in M(s) : Cardinality(M(t)) = n - 1 /\ h[n] = st[t]
  BY <1>3, <1>4
<1>10. QED  BY <1>7, <1>8, <1>9 DEF M, c, h

(* The path up to an entry begins the path up to a later one.              *)
LEMMA SpelledPrefix ==
    ASSUME NEW S, NEW st \in Seq(S), NEW vis,
           NEW u \in 1 .. Len(st) + 1, NEW s \in 1 .. u
    PROVE  Prefix(Spelled(st, vis, s), Spelled(st, vis, u))
<1> DEFINE M(t) == MarksIn(st, vis, t)
           c(t) == Cardinality(M(t))
           a == Spelled(st, vis, s)
           b == Spelled(st, vis, u)
<1>1. s \in Nat /\ u \in Nat /\ s <= u /\ s \in 1 .. Len(st) + 1
  BY LenProperties
<1>2. M(s) \subseteq M(u) /\ c(s) <= c(u) /\ c(s) \in Nat /\ c(u) \in Nat
  BY <1>1, MarksCounted
<1>3. Len(a) = c(s) /\ Len(b) = c(u)
  BY <1>1, SpelledAt
<1>4. ASSUME NEW n \in 1 .. c(s) PROVE a[n] = b[n]
  <2>1. PICK t \in M(s) : c(t) = n - 1 /\ a[n] = st[t]
    BY <1>1, SpelledAt
  <2>2. \A r \in M(u) : b[c(r) + 1] = st[r]
    BY SpelledAt
  <2> HIDE DEF M, c, a, b
  <2>3. c(t) + 1 = n /\ t \in M(u)
    BY <1>2, <2>1
  <2>4. b[n] = st[t]
    BY <2>2, <2>3, ZenonT(60)
  <2>5. QED  BY <2>1, <2>4
<1>5. QED  BY <1>2, <1>3, <1>4 DEF Prefix

(* Passing an entry appends its vertex to the path if it is a mark, and    *)
(* leaves the path alone if not.                                           *)
LEMMA SpelledNext ==
    ASSUME NEW S, NEW st \in Seq(S), NEW vis, NEW s \in 1 .. Len(st)
    PROVE  Spelled(st, vis, s + 1) =
             IF MarkAt(st, vis, s) THEN Append(Spelled(st, vis, s), st[s])
                                   ELSE Spelled(st, vis, s)
<1> DEFINE M(t) == MarksIn(st, vis, t)
           c(t) == Cardinality(M(t))
           a == Spelled(st, vis, s)
           b == Spelled(st, vis, s + 1)
<1>1. /\ s \in Nat /\ s + 1 \in Nat /\ s <= s + 1 /\ Len(st) \in Nat
      /\ s \in 1 .. Len(st) + 1 /\ s + 1 \in 1 .. Len(st) + 1
      /\ s \in 1 .. s + 1 /\ s \in 1 .. (s + 1) - 1
      /\ \A t \in Nat : t \in 1 .. (s + 1) - 1 <=> t \in 1 .. s - 1 \/ t = s
  BY LenProperties
<1>2. CASE ~ MarkAt(st, vis, s)
  <2>1. \A t : t \in 1 .. (s + 1) - 1 <=> t \in 1 .. s - 1 \/ t = s
    BY <1>1
  <2>2. M(s + 1) = M(s)
    BY <1>2, <2>1 DEF MarksIn
  <2>3. a \in Seq(S) /\ b \in Seq(S) /\ Len(a) = c(s) /\ Len(b) = c(s)
    BY <1>1, <2>2, SpelledAt
  <2>4. Prefix(a, b)
    BY <1>1, SpelledPrefix
  <2> HIDE DEF M, c, a, b
  <2>5. a = b
    BY <2>3, <2>4, PrefixSameLength
  <2>6. QED  BY <1>2, <2>5 DEF a, b
<1>3. CASE MarkAt(st, vis, s)
  <2>1. \A t : t \in 1 .. (s + 1) - 1 <=> t \in 1 .. s - 1 \/ t = s
    BY <1>1
  <2>2. M(s + 1) = M(s) \cup {s} /\ s \notin M(s)
    BY <1>1, <1>3, <2>1 DEF MarksIn
  <2>3. IsFiniteSet(M(s)) /\ c(s) \in Nat
    BY <1>1, MarksCounted
  <2>4. c(s + 1) = c(s) + 1
    BY <2>2, <2>3, FS_AddElement
  <2>5. /\ a \in Seq(S) /\ Len(a) = c(s)
        /\ b \in Seq(S) /\ Len(b) = c(s) + 1
        /\ b[c(s) + 1] = st[s]
    BY <1>1, <2>2, <2>4, SpelledAt
  <2>6. \A n \in 1 .. Len(a) : a[n] = b[n]
    BY <1>1, SpelledPrefix DEF Prefix
  <2>7. st[s] \in S
    BY ElementOfSeq
  <2> HIDE DEF M, c, a, b
  <2>8. /\ Append(a, st[s]) \in Seq(S) /\ Len(Append(a, st[s])) = Len(a) + 1
        /\ \A n \in 1 .. Len(a) : Append(a, st[s])[n] = a[n]
        /\ Append(a, st[s])[Len(a) + 1] = st[s]
    BY <2>5, <2>7, AppendProperties
  <2>9. ASSUME NEW n \in 1 .. Len(b) PROVE b[n] = Append(a, st[s])[n]
    <3>1. n \in 1 .. Len(a) \/ n = Len(a) + 1
      BY <2>3, <2>5
    <3>2. QED  BY <2>5, <2>6, <2>8, <3>1
  <2>10. b = Append(a, st[s])
    BY <2>5, <2>8, <2>9, SeqEqual
  <2>11. QED  BY <1>3, <2>10 DEF a, b
<1>4. QED  BY <1>2, <1>3
LEMMA PathNext ==
    ASSUME NEW S, NEW g \in Seq(S), NEW st \in Seq(S), NEW vis,
           NEW s \in 1 .. Len(st)
    PROVE  /\ MarkAt(st, vis, s) => PathIn(g, st, vis, s + 1)
                                     = Append(PathIn(g, st, vis, s), st[s])
           /\ ~ MarkAt(st, vis, s) => PathIn(g, st, vis, s + 1)
                                       = PathIn(g, st, vis, s)
<1> DEFINE h(n) == Spelled(st, vis, n)
<1>1. h(s + 1) = IF MarkAt(st, vis, s) THEN Append(h(s), st[s]) ELSE h(s)
  BY SpelledNext
<1>2. s \in 1 .. Len(st) + 1 /\ st[s] \in S
  BY ElementOfSeq, LenProperties
<1>3. h(s) \in Seq(S)
  BY <1>2, SpelledAt
<1> HIDE DEF h
<1>4. g \o Append(h(s), st[s]) = Append(g \o h(s), st[s])
  <2> DEFINE x == h(s)
  <2>1. x \in Seq(S)
    BY <1>3
  <2> HIDE DEF x
  <2>2. g \o Append(x, st[s]) = Append(g \o x, st[s])
    BY <1>2, <2>1
  <2>3. QED  BY <2>2 DEF x
<1>5. QED  BY <1>1, <1>4 DEF PathIn, h

LEMMA PathGrows ==
    ASSUME NEW S, NEW g \in Seq(S), NEW st \in Seq(S), NEW vis
    PROVE  /\ \A s \in 1 .. Len(st) + 1 : PathIn(g, st, vis, s) \in Seq(S)
           /\ \A s \in 1 .. Len(st) :
                PathIn(g, st, vis, s + 1) =
                  IF MarkAt(st, vis, s)
                  THEN Append(PathIn(g, st, vis, s), st[s])
                  ELSE PathIn(g, st, vis, s)
           /\ \A u \in 1 .. Len(st) + 1 : \A s \in 1 .. u :
                Prefix(PathIn(g, st, vis, s), PathIn(g, st, vis, u))
           /\ PathIn(g, st, vis, 1) = g
<1> DEFINE h(s) == Spelled(st, vis, s)
<1>1. ASSUME NEW s \in 1 .. Len(st) + 1
      PROVE  h(s) \in Seq(S) /\ PathIn(g, st, vis, s) \in Seq(S)
  <2>1. h(s) \in Seq(S)
    BY SpelledAt
  <2>2. QED  BY <2>1, ConcatProperties DEF PathIn
<1>2. \A s \in 1 .. Len(st) :
        PathIn(g, st, vis, s + 1) =
          IF MarkAt(st, vis, s)
          THEN Append(PathIn(g, st, vis, s), st[s])
          ELSE PathIn(g, st, vis, s)
  BY PathNext, ZenonT(60)
<1>3. ASSUME NEW u \in 1 .. Len(st) + 1, NEW s \in 1 .. u
      PROVE  Prefix(PathIn(g, st, vis, s), PathIn(g, st, vis, u))
  <2>1. s \in 1 .. Len(st) + 1
    BY LenProperties
  <2>2. h(s) \in Seq(S) /\ h(u) \in Seq(S) /\ Prefix(h(s), h(u))
    BY <1>1, <2>1, SpelledPrefix
  <2> DEFINE a == h(s)
             b == h(u)
  <2>3. a \in Seq(S) /\ b \in Seq(S) /\ Prefix(a, b)
    BY <2>2
  <2> HIDE DEF a, b, h
  <2>4. /\ Len(g \o a) = Len(g) + Len(a) /\ Len(g \o b) = Len(g) + Len(b)
        /\ Len(g) \in Nat /\ Len(a) \in Nat /\ Len(b) \in Nat /\ Len(a) <= Len(b)
        /\ \A i \in 1 .. Len(g) + Len(a) :
             (g \o a)[i] = IF i <= Len(g) THEN g[i] ELSE a[i - Len(g)]
        /\ \A i \in 1 .. Len(g) + Len(b) :
             (g \o b)[i] = IF i <= Len(g) THEN g[i] ELSE b[i - Len(g)]
        /\ \A i \in 1 .. Len(a) : a[i] = b[i]
    BY <2>3, ConcatProperties, LenProperties DEF Prefix
  <2>5. Prefix(g \o a, g \o b)
    <3>1. ASSUME NEW i \in 1 .. Len(g) + Len(a)
          PROVE  (g \o a)[i] = (g \o b)[i]
      <4>1. i \in 1 .. Len(g) + Len(b)
        BY <2>4
      <4>2. CASE i <= Len(g)
        BY <2>4, <4>1, <4>2
      <4>3. CASE ~ (i <= Len(g))
        <5>1. i - Len(g) \in 1 .. Len(a)
          BY <2>4, <4>3
        <5>2. QED  BY <2>4, <4>1, <4>3, <5>1
      <4>4. QED  BY <4>2, <4>3
    <3>2. QED  BY <2>4, <3>1 DEF Prefix
  <2>6. QED  BY <2>5 DEF PathIn, a, b, h
<1>4. PathIn(g, st, vis, 1) = g
  <2>1. /\ h(1) \in Seq(S) /\ Len(h(1)) = Cardinality(MarksIn(st, vis, 1))
    BY SpelledAt, LenProperties
  <2>2. MarksIn(st, vis, 1) = {}
    BY DEF MarksIn
  <2>3. h(1) = << >>
    BY <2>1, <2>2, FS_EmptySet, EmptySeq
  <2>4. QED  BY <2>3, ConcatEmptySeq DEF PathIn
<1>5. QED  BY <1>1, <1>2, <1>3, <1>4

(* The path up to an entry depends on the entries below and their marks.   *)
LEMMA PathKept ==
    ASSUME NEW S, NEW g, NEW st \in Seq(S), NEW su \in Seq(S),
           NEW vis, NEW vjs, NEW s \in 1 .. Len(st) + 1, s \in 1 .. Len(su) + 1,
           \A t \in 1 .. s - 1 :
             /\ su[t] = st[t]
             /\ MarkAt(su, vjs, t) <=> MarkAt(st, vis, t)
    PROVE  PathIn(g, su, vjs, s) = PathIn(g, st, vis, s)
<1> DEFINE M(t) == MarksIn(st, vis, t)
           N(t) == MarksIn(su, vjs, t)
           a == Spelled(st, vis, s)
           b == Spelled(su, vjs, s)
           c == Cardinality(M(s))
<1>1. s \in Nat
  OBVIOUS
<1>2. ASSUME NEW t \in 1 .. s PROVE M(t) = N(t)
  <2>1. 1 .. t - 1 \subseteq 1 .. s - 1
    BY <1>1
  <2>2. QED  BY <2>1 DEF MarksIn
<1>3. M(s) = N(s) /\ s \in 1 .. s
  BY <1>1, <1>2
<1>4. /\ a \in Seq(S) /\ Len(a) = c
      /\ b \in Seq(S) /\ Len(b) = c
  BY <1>3, SpelledAt
<1>5. ASSUME NEW n \in 1 .. c PROVE a[n] = b[n]
  <2>1. PICK t \in M(s) : Cardinality(M(t)) = n - 1 /\ a[n] = st[t]
    BY SpelledAt
  <2>2. t \in 1 .. s /\ su[t] = st[t] /\ t \in N(s)
    BY <1>1, <1>3 DEF MarksIn
  <2>3. Cardinality(N(t)) = n - 1
    BY <1>2, <2>1, <2>2
  <2>4. b[Cardinality(N(t)) + 1] = su[t]
    BY <2>2, SpelledAt
  <2> HIDE DEF M, N, a, b, c
  <2>5. (n - 1) + 1 = n
    OBVIOUS
  <2>6. QED  BY <2>1, <2>2, <2>3, <2>4, <2>5
<1> HIDE DEF a, b, c
<1>6. a = b
  BY <1>4, <1>5, SeqEqual
<1>7. QED  BY <1>6 DEF PathIn, a, b

(* Marking the top of the stack lengthens the path by it.                  *)
LEMMA AfterVisit ==
    ASSUME NEW S, NEW g \in Seq(S), NEW st \in Seq(S), st # << >>, NEW vis,
           End(st) \notin vis
    PROVE  /\ \A t \in 1 .. Len(st) - 1 :
                MarkAt(st, vis \cup {End(st)}, t) <=> MarkAt(st, vis, t)
           /\ MarkAt(st, vis \cup {End(st)}, Len(st)) /\ ~ MarkAt(st, vis, Len(st))
           /\ \A s \in 1 .. Len(st) :
                PathIn(g, st, vis \cup {End(st)}, s) = PathIn(g, st, vis, s)
           /\ PathIn(g, st, vis \cup {End(st)}, Len(st) + 1)
                = Append(PathIn(g, st, vis, Len(st)), End(st))
           /\ PathIn(g, st, vis, Len(st) + 1) = PathIn(g, st, vis, Len(st))
<1> DEFINE L == Len(st)
           wis == vis \cup {End(st)}
<1>1. L \in Nat /\ L >= 1 /\ L \in 1 .. L /\ st[L] = End(st)
  BY EmptySeq, LenProperties DEF End
<1>2. ASSUME NEW t \in 1 .. L - 1
      PROVE  MarkAt(st, wis, t) <=> MarkAt(st, vis, t)
  <2>1. L \in t + 1 .. L
    BY <1>1
  <2>2. st[t] = End(st) => ~ MarkAt(st, wis, t) /\ ~ MarkAt(st, vis, t)
    BY <1>1, <2>1 DEF MarkAt
  <2>3. st[t] # End(st) => (st[t] \in wis <=> st[t] \in vis)
    OBVIOUS
  <2>4. QED  BY <2>2, <2>3 DEF MarkAt
<1>3. MarkAt(st, wis, L) /\ ~ MarkAt(st, vis, L)
  <2>1. ~ \E u \in L + 1 .. L : TRUE
    BY <1>1
  <2>2. QED  BY <1>1, <2>1 DEF MarkAt
<1>4. ASSUME NEW s \in 1 .. L
      PROVE  PathIn(g, st, wis, s) = PathIn(g, st, vis, s)
  <2>1. s \in 1 .. L + 1 /\ \A t \in 1 .. s - 1 : t \in 1 .. L - 1
    BY <1>1
  <2>2. \A t \in 1 .. s - 1 : MarkAt(st, wis, t) <=> MarkAt(st, vis, t)
    BY <1>2, <2>1
  <2> HIDE DEF wis
  <2>3. QED  BY <2>1, <2>2, PathKept
<1>5. /\ PathIn(g, st, wis, L + 1) = Append(PathIn(g, st, wis, L), st[L])
      /\ PathIn(g, st, vis, L + 1) = PathIn(g, st, vis, L)
  <2>1. L \in 1 .. Len(st)
    BY <1>1
  <2> HIDE DEF L, wis
  <2>2. PathIn(g, st, wis, L + 1) = Append(PathIn(g, st, wis, L), st[L])
    BY <1>3, <2>1, PathNext
  <2>3. PathIn(g, st, vis, L + 1) = PathIn(g, st, vis, L)
    BY <1>3, <2>1, PathNext
  <2>4. QED  BY <2>2, <2>3
<1>6. QED  BY <1>1, <1>2, <1>3, <1>4, <1>5

(* Pushing a vertex that is not marked leaves the path alone.              *)
LEMMA AfterPush ==
    ASSUME NEW S, NEW g \in Seq(S), NEW st \in Seq(S), NEW v \in S, NEW vis,
           v \notin vis
    PROVE  /\ Append(st, v) \in Seq(S) /\ Len(Append(st, v)) = Len(st) + 1
           /\ \A t \in 1 .. Len(st) :
                /\ Append(st, v)[t] = st[t]
                /\ MarkAt(Append(st, v), vis, t) <=> MarkAt(st, vis, t)
           /\ Append(st, v)[Len(st) + 1] = v
           /\ ~ MarkAt(Append(st, v), vis, Len(st) + 1)
           /\ \A s \in 1 .. Len(st) + 1 :
                PathIn(g, Append(st, v), vis, s) = PathIn(g, st, vis, s)
           /\ PathIn(g, Append(st, v), vis, (Len(st) + 1) + 1)
                = PathIn(g, st, vis, Len(st) + 1)
<1> DEFINE L == Len(st)
           su == Append(st, v)
<1>1. /\ L \in Nat /\ su \in Seq(S) /\ Len(su) = L + 1
      /\ \A t \in 1 .. L : su[t] = st[t]
      /\ su[L + 1] = v
  BY AppendProperties, LenProperties
<1> HIDE DEF su
<1>2. ASSUME NEW t \in 1 .. L
      PROVE  MarkAt(su, vis, t) <=> MarkAt(st, vis, t)
  <2>1. su[t] = st[t] /\ \A u : u \in t + 1 .. L + 1 <=> u \in t + 1 .. L \/ u = L + 1
    BY <1>1
  <2>2. \A u \in t + 1 .. L : su[u] = st[u]
    BY <1>1
  <2>3. st[t] \in vis => (\A u \in t + 1 .. L + 1 : su[u] # su[t])
                           <=> (\A u \in t + 1 .. L : st[u] # st[t])
    BY <1>1, <2>1, <2>2
  <2>4. QED  BY <1>1, <2>1, <2>3 DEF MarkAt
<1>3. ~ MarkAt(su, vis, L + 1)
  BY <1>1 DEF MarkAt
<1>4. ASSUME NEW s \in 1 .. L + 1
      PROVE  PathIn(g, su, vis, s) = PathIn(g, st, vis, s)
  <2>1. s \in 1 .. Len(su) + 1 /\ \A t \in 1 .. s - 1 : t \in 1 .. L
    BY <1>1
  <2>2. QED  BY <1>1, <1>2, <2>1, PathKept
<1>5. L + 1 \in 1 .. Len(su) /\ L + 1 \in 1 .. L + 1
  BY <1>1
<1>6. PathIn(g, su, vis, (L + 1) + 1) = PathIn(g, su, vis, L + 1)
  BY <1>1, <1>3, <1>5, PathNext
<1>7. PathIn(g, su, vis, (L + 1) + 1) = PathIn(g, st, vis, L + 1)
  BY <1>4, <1>5, <1>6
<1>8. QED  BY <1>1, <1>2, <1>3, <1>4, <1>7 DEF su

(* What is left of a stack that is popped.                                 *)
LEMMA Shorter ==
    ASSUME NEW S, NEW st \in Seq(S), st # << >>
    PROVE  /\ SubSeq(st, 1, Len(st) - 1) \in Seq(S)
           /\ Len(SubSeq(st, 1, Len(st) - 1)) = Len(st) - 1
           /\ \A t \in 1 .. Len(st) - 1 : SubSeq(st, 1, Len(st) - 1)[t] = st[t]
<1> DEFINE m == Len(st) - 1
<1>1. Len(st) \in Nat /\ Len(st) >= 1
  BY EmptySeq, LenProperties
<1>2. m \in Nat /\ 1 \in Int /\ m \in Int /\ m - 1 + 1 = m
      /\ \A t \in 1 .. m : 1 + t - 1 = t
  BY <1>1
<1>3. \A t \in 1 .. m : st[t] \in S
  BY <1>1, ElementOfSeq
<1> HIDE DEF m
<1>4. /\ SubSeq(st, 1, m) \in Seq(S)
      /\ Len(SubSeq(st, 1, m)) = IF 1 <= m THEN m - 1 + 1 ELSE 0
      /\ \A t \in 1 .. m - 1 + 1 : SubSeq(st, 1, m)[t] = st[1 + t - 1]
  BY <1>2, <1>3, SubSeqProperties
<1>5. Len(SubSeq(st, 1, m)) = m
  BY <1>2, <1>4
<1>6. \A t \in 1 .. m : SubSeq(st, 1, m)[t] = st[t]
  BY <1>2, <1>4
<1>7. QED  BY <1>4, <1>5, <1>6 DEF m

-----------------------------------------------------------------------------
(* The siblings yet to be tried: each stands for a path of its own, which  *)
(* continues the task of the call and does not close.                      *)
Extension(g, st, vis, s) == Append(PathIn(g, st, vis, s), st[s])
OffPath(st, vis)         == { s \in 1 .. Len(st) : ~ MarkAt(st, vis, s) }
UntriedIn(g, st, vis)    == { Extension(g, st, vis, s) : s \in OffPath(st, vis) }

SiblingsIn(j, root, g, st, vis) ==
    /\ \A s \in 1 .. Len(st) : Prefix(root, Extension(g, st, vis, s))
    /\ \A s \in OffPath(st, vis) : ~ Closing(j, Extension(g, st, vis, s))
    /\ \A s, u \in OffPath(st, vis) :
         Extension(g, st, vis, s) = Extension(g, st, vis, u) => s = u

(* What visiting the top, popping a marked top and pushing a vertex do.    *)
VisitTo(j, root, g, st, vis) ==
    LET wis == vis \cup {End(st)}
        c   == Append(PathIn(g, st, vis, Len(st) + 1), End(st))
    IN  /\ SiblingsIn(j, root, g, st, wis)
        /\ PathIn(g, st, wis, Len(st) + 1) = c
        /\ c \in UntriedIn(g, st, vis)
        /\ c = Extension(g, st, vis, Len(st))
        /\ ~ Closing(j, c)
        /\ UntriedIn(g, st, wis) = UntriedIn(g, st, vis) \ {c}

PopTo(j, root, g, st, vis, su, wis) ==
    /\ SiblingsIn(j, root, g, su, wis)
    /\ PathIn(g, st, vis, Len(st) + 1)
         = Append(PathIn(g, su, wis, Len(su) + 1), End(st))
    /\ UntriedIn(g, su, wis) = UntriedIn(g, st, vis)

PushTo(j, root, g, st, vis, su, c) ==
    /\ SiblingsIn(j, root, g, su, vis)
    /\ PathIn(g, su, vis, Len(su) + 1) = PathIn(g, st, vis, Len(st) + 1)
    /\ UntriedIn(g, su, vis) = UntriedIn(g, st, vis) \cup {c}

(* Visiting the top of the stack takes just its path off the siblings.     *)
LEMMA VisitSiblings ==
    ASSUME NEW j, NEW S, NEW g \in Seq(S), NEW st \in Seq(S), st # << >>, NEW vis,
           End(st) \notin vis, NEW root, SiblingsIn(j, root, g, st, vis)
    PROVE  VisitTo(j, root, g, st, vis)
<1> DEFINE L == Len(st)
           wis == vis \cup {End(st)}
           c == Append(PathIn(g, st, vis, L + 1), End(st))
           E(s) == Extension(g, st, vis, s)
           F(s) == Extension(g, st, wis, s)
           A == OffPath(st, vis)
           B == OffPath(st, wis)
<1>1. /\ \A t \in 1 .. L - 1 : MarkAt(st, wis, t) <=> MarkAt(st, vis, t)
      /\ MarkAt(st, wis, L) /\ ~ MarkAt(st, vis, L)
      /\ \A s \in 1 .. L : PathIn(g, st, wis, s) = PathIn(g, st, vis, s)
      /\ PathIn(g, st, wis, L + 1) = Append(PathIn(g, st, vis, L), End(st))
      /\ PathIn(g, st, vis, L + 1) = PathIn(g, st, vis, L)
  BY AfterVisit
<1>2. /\ L \in Nat /\ L \in 1 .. L /\ End(st) = st[L]
      /\ \A s \in 1 .. L : s \in 1 .. L - 1 \/ s = L
      /\ L \notin 1 .. L - 1 /\ \A s \in 1 .. L - 1 : s \in 1 .. L
  BY EmptySeq, LenProperties DEF End
<1>3. A = B \cup {L} /\ L \notin B /\ B \subseteq 1 .. L
  BY <1>1, <1>2 DEF OffPath
<1>4. \A s \in 1 .. L : F(s) = E(s)
  BY <1>1 DEF Extension
<1>5. c = E(L)
  BY <1>1, <1>2 DEF Extension
<1>6. /\ \A s \in 1 .. L : Prefix(root, E(s))
      /\ \A s \in A : ~ Closing(j, E(s))
      /\ \A s, u \in A : E(s) = E(u) => s = u
  BY DEF SiblingsIn
<1> HIDE DEF wis, c, E, F, A, B
<1>7. /\ \A s \in 1 .. L : Prefix(root, F(s))
      /\ \A s \in B : ~ Closing(j, F(s))
      /\ \A s, u \in B : F(s) = F(u) => s = u
  BY <1>3, <1>4, <1>6
<1>8. SiblingsIn(j, root, g, st, wis)
  BY <1>7 DEF SiblingsIn, F, B
<1>9. UntriedIn(g, st, vis) = { E(s) : s \in A }
      /\ UntriedIn(g, st, wis) = { F(s) : s \in B }
  BY DEF UntriedIn, E, F, A, B
<1>10. { F(s) : s \in B } = { E(s) : s \in A } \ {c}
  BY <1>2, <1>3, <1>4, <1>5, <1>6
<1>11. c \in { E(s) : s \in A } /\ ~ Closing(j, c)
  BY <1>3, <1>5, <1>6
<1>12. PathIn(g, st, wis, L + 1) = c
  BY <1>1 DEF c
<1>13. QED
  BY <1>5, <1>8, <1>9, <1>10, <1>11, <1>12 DEF c, wis, E, VisitTo

(* Popping a marked top leaves the siblings as they were.                  *)
LEMMA PopSiblings ==
    ASSUME NEW j, NEW S, NEW g \in Seq(S), NEW st \in Seq(S), st # << >>, NEW vis,
           End(st) \in vis,
           NEW su \in Seq(S), Len(su) = Len(st) - 1,
           \A t \in 1 .. Len(st) - 1 : su[t] = st[t],
           NEW wis, \A v : v \in wis <=> v \in vis /\ v # End(st),
           NEW root, SiblingsIn(j, root, g, st, vis)
    PROVE  PopTo(j, root, g, st, vis, su, wis)
<1> DEFINE L == Len(st)
           E(s) == Extension(g, st, vis, s)
           F(s) == Extension(g, su, wis, s)
           A == OffPath(st, vis)
           B == OffPath(su, wis)
<1>1. L \in Nat /\ L >= 1 /\ L \in 1 .. L /\ st[L] = End(st) /\ L - 1 \in 0 .. L
  BY EmptySeq, LenProperties DEF End
<1>2. Len(su) = L - 1 /\ \A t \in 1 .. L - 1 : su[t] = st[t]
  OBVIOUS
<1>3. ASSUME NEW t \in 1 .. L - 1
      PROVE  MarkAt(su, wis, t) <=> MarkAt(st, vis, t)
  <2>1. su[t] = st[t] /\ L \in t + 1 .. L
        /\ \A u : u \in t + 1 .. L <=> u \in t + 1 .. L - 1 \/ u = L
    BY <1>1, <1>2
  <2>2. \A u \in t + 1 .. L - 1 : su[u] = st[u]
    BY <1>2
  <2>3. CASE st[t] = End(st)
    BY <1>1, <2>1, <2>3 DEF MarkAt
  <2>4. CASE st[t] # End(st)
    <3>1. st[t] \in wis <=> st[t] \in vis
      BY <2>4
    <3>2. (\A u \in t + 1 .. L : st[u] # st[t])
            <=> (\A u \in t + 1 .. L - 1 : su[u] # su[t])
      BY <1>1, <2>1, <2>2, <2>4
    <3>3. QED  BY <1>2, <2>1, <3>1, <3>2 DEF MarkAt
  <2>5. QED  BY <2>3, <2>4
<1>4. MarkAt(st, vis, L)
  <2>1. ~ \E u \in L + 1 .. L : TRUE
    BY <1>1
  <2>2. QED  BY <1>1, <2>1 DEF MarkAt
<1>5. ASSUME NEW s \in 1 .. L
      PROVE  PathIn(g, su, wis, s) = PathIn(g, st, vis, s)
  <2>1. /\ s \in 1 .. L + 1 /\ s \in 1 .. Len(su) + 1
        /\ \A t \in 1 .. s - 1 : t \in 1 .. L - 1
    BY <1>1, <1>2
  <2>2. \A t \in 1 .. s - 1 :
          su[t] = st[t] /\ (MarkAt(su, wis, t) <=> MarkAt(st, vis, t))
    BY <1>2, <1>3, <2>1
  <2>3. QED  BY <1>2, <2>1, <2>2, PathKept
<1>6. PathIn(g, st, vis, L + 1) = Append(PathIn(g, st, vis, L), st[L])
  BY <1>1, <1>4, PathGrows
<1>7. /\ L \in Nat /\ L \in 1 .. L /\ Len(su) + 1 = L
      /\ \A s \in 1 .. L : s \in 1 .. L - 1 \/ s = L
      /\ \A s \in 1 .. L - 1 : s \in 1 .. L
  BY EmptySeq, LenProperties
<1>8. A = B /\ B \subseteq 1 .. L - 1
  BY <1>2, <1>3, <1>4, <1>7 DEF OffPath
<1>9. \A s \in 1 .. L - 1 : F(s) = E(s)
  BY <1>2, <1>5, <1>7 DEF Extension
<1>10. /\ \A s \in 1 .. L : Prefix(root, E(s))
       /\ \A s \in A : ~ Closing(j, E(s))
       /\ \A s, u \in A : E(s) = E(u) => s = u
  BY DEF SiblingsIn
<1> HIDE DEF E, F, A, B
<1>11. /\ \A s \in 1 .. L - 1 : Prefix(root, F(s))
       /\ \A s \in B : ~ Closing(j, F(s))
       /\ \A s, u \in B : F(s) = F(u) => s = u
  BY <1>7, <1>8, <1>9, <1>10
<1>12. SiblingsIn(j, root, g, su, wis)
  BY <1>11 DEF SiblingsIn, F, B
<1>13. UntriedIn(g, st, vis) = { E(s) : s \in A }
      /\ UntriedIn(g, su, wis) = { F(s) : s \in B }
  BY DEF UntriedIn, E, F, A, B
<1>14. { F(s) : s \in B } = { E(s) : s \in A }
  BY <1>8, <1>9
<1>15. QED  BY <1>1, <1>2, <1>5, <1>6, <1>7, <1>12, <1>13, <1>14 DEF PopTo

(* A vertex pushed is a sibling more.                                      *)
LEMMA PushSiblings ==
    ASSUME NEW j, NEW S, NEW g \in Seq(S), NEW st \in Seq(S), NEW vis,
           NEW v \in S, v \notin vis, NEW root, SiblingsIn(j, root, g, st, vis),
           NEW c, c = Append(PathIn(g, st, vis, Len(st) + 1), v),
           Prefix(root, c), ~ Closing(j, c), c \notin UntriedIn(g, st, vis)
    PROVE  PushTo(j, root, g, st, vis, Append(st, v), c)
<1> DEFINE L == Len(st)
           su == Append(st, v)
           E(s) == Extension(g, st, vis, s)
           F(s) == Extension(g, su, vis, s)
           A == OffPath(st, vis)
           B == OffPath(su, vis)
<1>1. /\ Len(su) = L + 1
      /\ \A t \in 1 .. L : /\ su[t] = st[t]
                           /\ MarkAt(su, vis, t) <=> MarkAt(st, vis, t)
      /\ su[L + 1] = v
      /\ ~ MarkAt(su, vis, L + 1)
      /\ \A s \in 1 .. L + 1 : PathIn(g, su, vis, s) = PathIn(g, st, vis, s)
      /\ PathIn(g, su, vis, (L + 1) + 1) = PathIn(g, st, vis, L + 1)
  BY AfterPush
<1>2. /\ L \in Nat /\ L + 1 \in 1 .. L + 1 /\ L + 1 \notin 1 .. L
      /\ \A s : s \in 1 .. L + 1 <=> s \in 1 .. L \/ s = L + 1
  BY LenProperties
<1> HIDE DEF su
<1>3. B = A \cup {L + 1} /\ A \subseteq 1 .. L
  BY <1>1, <1>2 DEF OffPath
<1>4. (\A s \in 1 .. L : F(s) = E(s)) /\ F(L + 1) = c
  BY <1>1, <1>2 DEF Extension
<1>5. /\ \A s \in 1 .. L : Prefix(root, E(s))
      /\ \A s \in A : ~ Closing(j, E(s))
      /\ \A s, u \in A : E(s) = E(u) => s = u
  BY DEF SiblingsIn
<1> HIDE DEF E, F, A, B
<1>6. UntriedIn(g, st, vis) = { E(s) : s \in A }
      /\ UntriedIn(g, su, vis) = { F(s) : s \in B }
  BY DEF UntriedIn, E, F, A, B
<1>7. \A s \in A : E(s) # c
  BY <1>6
<1>8. /\ \A s \in 1 .. L + 1 : Prefix(root, F(s))
      /\ \A s \in B : ~ Closing(j, F(s))
  <2>1. Prefix(root, F(L + 1)) /\ ~ Closing(j, F(L + 1))
    BY <1>4
  <2>2. ASSUME NEW s \in 1 .. L
        PROVE  Prefix(root, F(s)) /\ (s \in A => ~ Closing(j, F(s)))
    BY <1>4, <1>5
  <2>3. QED  BY <1>2, <1>3, <2>1, <2>2
<1>9. ASSUME NEW s \in B, NEW u \in B, F(s) = F(u) PROVE s = u
  <2>1. \A t \in B : t = L + 1 \/ (t \in A /\ F(t) = E(t))
    BY <1>3, <1>4
  <2>2. F(L + 1) = c
    BY <1>4
  <2>3. (s = L + 1 /\ u = L + 1) \/ (s \in A /\ u \in A)
    BY <1>7, <1>9, <2>1, <2>2, ZenonT(60)
  <2>4. CASE s = L + 1 /\ u = L + 1
    BY <2>4
  <2>5. CASE s \in A /\ u \in A
    <3>1. E(s) = E(u)
      BY <1>3, <1>4, <1>9, <2>5, ZenonT(60)
    <3>2. QED  BY <1>5, <2>5, <3>1
  <2>6. QED  BY <2>3, <2>4, <2>5
<1>10. SiblingsIn(j, root, g, su, vis)
  BY <1>1, <1>8, <1>9 DEF SiblingsIn, F, B
<1>11. { F(s) : s \in B } = { E(s) : s \in A } \cup {c}
  BY <1>2, <1>3, <1>4
<1>12. QED  BY <1>1, <1>6, <1>10, <1>11 DEF su, PushTo
-----------------------------------------------------------------------------
(* The row being read: it is that of the last mark, whose vertex ends the  *)
(* path, and the entries above are vertices of the row already looked at.  *)
IsLast(st, vis, m) ==
    /\ m \in 1 .. Len(st) /\ st[m] \in vis
    /\ \A t \in m + 1 .. Len(st) : st[t] \notin vis

LastIn(st, vis) ==
    CHOOSE s \in 1 .. Len(st) :
      /\ st[s] \in vis
      /\ \A t \in s + 1 .. Len(st) : st[t] \notin vis

RowIn(j, g, st, vis, n, m) ==
    /\ IsLast(st, vis, m)
    /\ PathIn(g, st, vis, Len(st) + 1) = Append(PathIn(g, st, vis, m), st[m])
    /\ \A t \in m + 1 .. Len(st) :
         \E i \in 1 .. n : i <= Len(j.adj[st[m]]) /\ st[t] = j.adj[st[m]][i]

(* What a row still has to offer after its first n vertices.               *)
OfferedIn(j, p, row, n) ==
    { c \in Children(j, p) : \E i \in n + 1 .. Len(row) : End(c) = row[i] }

LEMMA LastIsOne ==
    ASSUME NEW st, Len(st) \in Nat, NEW vis, NEW m, IsLast(st, vis, m)
    PROVE  LastIn(st, vis) = m
<1> DEFINE P(s) == /\ st[s] \in vis
                   /\ \A t \in s + 1 .. Len(st) : st[t] \notin vis
<1>1. m \in 1 .. Len(st) /\ P(m)
  BY DEF IsLast
<1>2. ASSUME NEW s \in 1 .. Len(st), P(s) PROVE s = m
  <2>1. CASE s < m
    <3>1. m \in s + 1 .. Len(st)
      BY <1>1, <2>1
    <3>2. QED  BY <1>1, <1>2, <3>1
  <2>2. CASE m < s
    <3>1. s \in m + 1 .. Len(st)
      BY <1>1, <2>2
    <3>2. QED  BY <1>1, <1>2, <3>1
  <2>3. QED  BY <1>1, <2>1, <2>2
<1>3. LastIn(st, vis) = CHOOSE s \in 1 .. Len(st) : P(s)
  BY DEF LastIn
<1> HIDE DEF P
<1>4. QED  BY <1>1, <1>2, <1>3

(* Looking at a vertex takes its path out of the offer.                    *)
LEMMA OfferNext ==
    ASSUME NEW j, GraphOK(j), NEW p \in Seq(Node(j)), Len(p) >= 1,
           End(p) \in Node(j), NEW n \in Nat, n < Len(j.adj[End(p)])
    PROVE  LET row == j.adj[End(p)]
               c   == Append(p, row[n + 1])
           IN  /\ row[n + 1] \in Nbrs(j, End(p)) /\ row[n + 1] \in Node(j)
               /\ OfferedIn(j, p, row, n + 1) = OfferedIn(j, p, row, n) \ {c}
               /\ c \in Children(j, p) => c \in OfferedIn(j, p, row, n)
               /\ End(c) = row[n + 1]
<1> DEFINE row == j.adj[End(p)]
           c   == Append(p, row[n + 1])
<1>1. /\ row \in Seq(Node(j)) /\ Simple(row)
      /\ Len(row) \in Nat /\ Nbrs(j, End(p)) = Range(row)
  <2>1. row \in Seq(Node(j) \ {0}) /\ Simple(row)
    BY DEF GraphOK
  <2>2. row \in Seq(Node(j))
    BY <2>1, SeqMonotonic
  <2>3. QED  BY <2>1, <2>2, LenProperties DEF Nbrs
<1> HIDE DEF row
<1>2. /\ n + 1 \in 1 .. Len(row) /\ n + 1 \in n + 1 .. Len(row)
      /\ \A i : i \in n + 1 .. Len(row) <=> i = n + 1 \/ i \in (n + 1) + 1 .. Len(row)
      /\ n + 1 \notin (n + 1) + 1 .. Len(row)
      /\ \A i \in (n + 1) + 1 .. Len(row) : i \in 1 .. Len(row)
  BY <1>1 DEF row
<1>3. row[n + 1] \in Range(row) /\ row[n + 1] \in Node(j)
  BY <1>1, <1>2, RangeMember
<1>4. ASSUME NEW v \in Node(j) PROVE End(Append(p, v)) = v
  BY AppendProperties, LenProperties DEF End
<1>5. ASSUME NEW d \in Children(j, p)
      PROVE  \E v \in Node(j) : d = Append(p, v) /\ End(d) = v
  <2>1. PICK v \in Nbrs(j, End(p)) : d = Append(p, v)
    BY DEF Children
  <2>2. v \in Node(j)
    BY <1>1, RangeMember
  <2>3. QED  BY <1>4, <2>1, <2>2
<1>6. \A d \in Children(j, p) : End(d) = row[n + 1] <=> d = c
  BY <1>3, <1>4, <1>5
<1>7. \A i \in (n + 1) + 1 .. Len(row) : row[i] # row[n + 1]
  BY <1>1, <1>2 DEF Simple
<1> HIDE DEF c
<1>8. OfferedIn(j, p, row, n + 1) = OfferedIn(j, p, row, n) \ {c}
  <2>1. ASSUME NEW d \in Children(j, p)
        PROVE  d \in OfferedIn(j, p, row, n + 1)
                 <=> d \in OfferedIn(j, p, row, n) /\ d # c
    <3>1. d \in OfferedIn(j, p, row, n + 1)
            <=> \E i \in (n + 1) + 1 .. Len(row) : End(d) = row[i]
      BY DEF OfferedIn
    <3>2. d \in OfferedIn(j, p, row, n)
            <=> \E i \in n + 1 .. Len(row) : End(d) = row[i]
      BY DEF OfferedIn
    <3>3. QED  BY <1>2, <1>6, <1>7, <3>1, <3>2
  <2>2. /\ OfferedIn(j, p, row, n + 1) \subseteq Children(j, p)
        /\ OfferedIn(j, p, row, n) \subseteq Children(j, p)
    BY DEF OfferedIn
  <2>3. QED  BY <2>1, <2>2
<1>9. c \in Children(j, p) => c \in OfferedIn(j, p, row, n)
  BY <1>2, <1>6 DEF OfferedIn
<1>10. QED  BY <1>1, <1>3, <1>4, <1>8, <1>9 DEF row, c

(* Before the first vertex everything is on offer, after the last nothing. *)
LEMMA OfferAll ==
    ASSUME NEW j, GraphOK(j), NEW p \in Seq(Node(j)), Len(p) >= 1,
           End(p) \in Node(j)
    PROVE  OfferedIn(j, p, j.adj[End(p)], 0) = Children(j, p)
<1> DEFINE row == j.adj[End(p)]
<1>1. /\ row \in Seq(Node(j)) /\ Len(row) \in Nat /\ Nbrs(j, End(p)) = Range(row)
  <2>1. row \in Seq(Node(j) \ {0})
    BY DEF GraphOK
  <2>2. row \in Seq(Node(j))
    BY <2>1, SeqMonotonic
  <2>3. QED  BY <2>2, LenProperties DEF Nbrs
<1> HIDE DEF row
<1>2. ASSUME NEW d \in Children(j, p)
      PROVE  \E i \in 0 + 1 .. Len(row) : End(d) = row[i]
  <2>1. PICK v \in Nbrs(j, End(p)) : d = Append(p, v)
    BY DEF Children
  <2>2. v \in Node(j) /\ \E i \in 1 .. Len(row) : v = row[i]
    BY <1>1, RangeMember
  <2>3. End(d) = v
    BY <2>1, <2>2, AppendProperties, LenProperties DEF End
  <2>4. QED  BY <2>2, <2>3
<1>3. QED  BY <1>2 DEF OfferedIn, row

(* A vertex more at the end of a path.                                     *)
LEMMA AppendParts ==
    ASSUME NEW S, NEW a \in Seq(S), NEW v \in S
    PROVE  /\ Append(a, v) \in Seq(S) /\ Len(Append(a, v)) = Len(a) + 1
           /\ Len(a) \in Nat /\ End(Append(a, v)) = v
           /\ Simple(Append(a, v)) =>
                /\ Simple(a) /\ v \notin Range(a)
                /\ Range(a) = Range(Append(a, v)) \ {v}
           /\ \A j : IsWalk(j, Append(a, v)) => IsWalk(j, a)
<1> DEFINE c == Append(a, v)
           n == Len(a)
<1>1. /\ c \in Seq(S) /\ Len(c) = n + 1 /\ n \in Nat
      /\ \A i \in 1 .. n : c[i] = a[i]
      /\ c[n + 1] = v
  BY AppendProperties, LenProperties
<1>2. End(c) = v
  BY <1>1 DEF End
<1>3. ASSUME Simple(c) PROVE Simple(a) /\ v \notin Range(a)
  <2>1. \A x, y \in 1 .. n + 1 : c[x] = c[y] => x = y
    BY <1>1, <1>3 DEF Simple
  <2>2. Simple(a)
    BY <1>1, <2>1 DEF Simple
  <2>3. ASSUME v \in Range(a) PROVE FALSE
    <3>1. PICK i \in 1 .. n : v = a[i]
      BY <2>3, RangeMember
    <3>2. i \in 1 .. n + 1 /\ n + 1 \in 1 .. n + 1 /\ i # n + 1
      BY <1>1
    <3>3. c[i] = c[n + 1]
      BY <1>1, <3>1
    <3>4. QED  BY <2>1, <3>2, <3>3
  <2>4. QED  BY <2>2, <2>3
<1>4. ASSUME Simple(c) PROVE Range(a) = Range(c) \ {v}
  BY <1>3, <1>4, PushStack
<1>5. ASSUME NEW j, IsWalk(j, c) PROVE IsWalk(j, a)
  <2>1. ASSUME NEW i \in 1 .. n - 1 PROVE a[i + 1] \in Nbrs(j, a[i])
    <3>1. i \in 1 .. (n + 1) - 1 /\ i \in 1 .. n /\ i + 1 \in 1 .. n
      BY <1>1
    <3>2. c[i + 1] \in Nbrs(j, c[i])
      BY <1>1, <1>5, <3>1 DEF IsWalk
    <3>3. QED  BY <1>1, <3>1, <3>2
  <2>2. QED  BY <2>1 DEF IsWalk
<1>6. QED  BY <1>1, <1>2, <1>3, <1>4, <1>5
-----------------------------------------------------------------------------
(* The invariant.                                                          *)
Root == ThisJob.tasks[task]

Types ==
    /\ jid \in JobId
    /\ task \in 0 .. Len(ThisJob.tasks)
    /\ pc \in {"head", "row", "done"}
    /\ staDFS \in Seq(Node(ThisJob) \ {ThisJob.dst})
    /\ nbr \in Nat /\ bTag \in BOOLEAN /\ ans \in Nat /\ gexit \in BOOLEAN
    /\ status \in {"run", "complete", "exit"}
    /\ pc = "done" <=> status # "run"
    /\ task = 0 => staDFS = << >> /\ pc # "row"
    /\ status = "exit" => gexit
    /\ status = "complete" => staDFS = << >> /\ task = Len(ThisJob.tasks)

Marked ==
    /\ visited = Range(Path) /\ len = Len(Path)
    /\ Simple(Path) /\ IsWalk(ThisJob, Path)
    /\ len <= 1 \/ len < K

Siblings == SiblingsIn(ThisJob, Root, Given, staDFS, visited)

RowRead ==
    pc = "row" =>
      /\ \E m \in 1 .. Len(staDFS) :
           /\ RowIn(ThisJob, Given, staDFS, visited, nbr, m)
           /\ bTag \/ m = Len(staDFS)
      /\ Viable(ThisJob, Path) /\ ~ Closing(ThisJob, Path)

Shape == Types /\ Marked /\ Siblings /\ RowRead
CInv  == Shape /\ Accounts(ThisJob, Pending, ans)

(* The module's operators on the state are those above.                    *)
Read ==
    /\ Path = PathIn(Given, staDFS, visited, Len(staDFS) + 1)
    /\ Untried = UntriedIn(Given, staDFS, visited)
    /\ LastMark = LastIn(staDFS, visited)
    /\ Unread = IF pc # "row" THEN {} ELSE OfferedIn(ThisJob, Path, Row, nbr)

LEMMA StateRead == Read
<1>1. \A s : MarksBelow(s) = MarksIn(staDFS, visited, s)
  BY DEF MarksBelow, OnPath, MarksIn, MarkAt
<1>2. \A s : PathBelow(s) = PathIn(Given, staDFS, visited, s)
  BY DEF PathBelow, MarksBelow, OnPath, PathIn, Spelled, MarksIn, MarkAt
<1>3. Path = PathIn(Given, staDFS, visited, Len(staDFS) + 1)
  BY <1>2 DEF Path
<1>4. \A s : OnPath(s) <=> MarkAt(staDFS, visited, s)
  BY DEF OnPath, MarkAt
<1>5. { t \in 1 .. Len(staDFS) : ~ OnPath(t) } = OffPath(staDFS, visited)
  BY <1>4 DEF OffPath
<1>6. \A s : Append(PathBelow(s), staDFS[s]) = Extension(Given, staDFS, visited, s)
  BY <1>2 DEF Extension
<1>7. Untried = UntriedIn(Given, staDFS, visited)
  BY <1>5, <1>6 DEF Untried, UntriedIn
<1>8. LastMark = LastIn(staDFS, visited)
  BY DEF LastMark, LastIn
<1>9. Unread = IF pc # "row" THEN {} ELSE OfferedIn(ThisJob, Path, Row, nbr)
  BY DEF Unread, OfferedIn
<1>10. QED  BY <1>3, <1>7, <1>8, <1>9 DEF Read

(* What the host guarantees of the job at hand.                            *)
LEMMA JobFacts ==
    ASSUME Types
    PROVE  /\ JobOK(ThisJob) /\ GraphOK(ThisJob) /\ K \in Nat /\ K >= 1
           /\ ThisJob.tasks \in Seq(Seq(Node(ThisJob)))
           /\ Len(ThisJob.tasks) \in Nat
           /\ \A t \in 1 .. Len(ThisJob.tasks) :
                /\ TaskOK(ThisJob, ThisJob.tasks[t])
                /\ ThisJob.tasks[t] \in Seq(Node(ThisJob))
           /\ \A s, t \in 1 .. Len(ThisJob.tasks) :
                Prefix(ThisJob.tasks[s], ThisJob.tasks[t]) => s = t
           /\ Len(staDFS) \in Nat
           /\ staDFS \in Seq(Node(ThisJob))
           /\ task \in Nat
<1>1. JobOK(ThisJob)
  BY JobsAssumption DEF Types, ThisJob
<1>2. GraphOK(ThisJob) /\ TasksOK(ThisJob)
  BY <1>1 DEF JobOK
<1>3. K \in Nat /\ K >= 1
  BY <1>2 DEF GraphOK, K
<1>4. /\ ThisJob.tasks \in Seq(Seq(Node(ThisJob)))
      /\ \A t \in 1 .. Len(ThisJob.tasks) : TaskOK(ThisJob, ThisJob.tasks[t])
      /\ \A s, t \in 1 .. Len(ThisJob.tasks) :
           Prefix(ThisJob.tasks[s], ThisJob.tasks[t]) => s = t
  BY <1>2 DEF TasksOK
<1>5. Len(ThisJob.tasks) \in Nat
  BY <1>4, LenProperties
<1>6. \A t \in 1 .. Len(ThisJob.tasks) : ThisJob.tasks[t] \in Seq(Node(ThisJob))
  BY <1>4 DEF TaskOK
<1>7. staDFS \in Seq(Node(ThisJob) \ {ThisJob.dst}) /\ task \in 0 .. Len(ThisJob.tasks)
  BY DEF Types
<1>8. staDFS \in Seq(Node(ThisJob))
  BY <1>7, SeqMonotonic
<1>9. Len(staDFS) \in Nat
  BY <1>8, LenProperties
<1>10. task \in Nat
  BY <1>5, <1>7
<1>11. QED  BY <1>1, <1>2, <1>3, <1>4, <1>5, <1>6, <1>8, <1>9, <1>10

(* A task without its last vertex.                                         *)
LEMMA BaseOfTask ==
    ASSUME Types, NEW t \in 1 .. Len(ThisJob.tasks)
    PROVE  LET p == ThisJob.tasks[t]
           IN  /\ p \in Seq(Node(ThisJob)) /\ Len(p) \in Nat /\ Len(p) >= 1
               /\ Base(p) \in Seq(Node(ThisJob)) /\ End(p) \in Node(ThisJob)
               /\ End(p) # ThisJob.dst
               /\ p = Append(Base(p), End(p))
               /\ Len(Base(p)) = Len(p) - 1
               /\ Simple(p) /\ IsWalk(ThisJob, p)
               /\ Len(p) = 1 \/ Len(p) < K
               /\ ~ Closing(ThisJob, p)
<1> DEFINE p == ThisJob.tasks[t]
           N == Node(ThisJob)
<1>1. JobOK(ThisJob) /\ TaskOK(ThisJob, p) /\ p \in Seq(N)
  BY JobFacts
<1>2. /\ Len(p) = 1 \/ (Len(p) >= 1 /\ Len(p) < K)
      /\ IsWalk(ThisJob, p) /\ Simple(p)
      /\ \A i \in 1 .. Len(p) : p[i] # ThisJob.dst
  BY <1>1 DEF TaskOK, K
<1>3. ~ Closing(ThisJob, p)
  BY <1>1, TaskIsOpen
<1>10. Len(p) \in Nat /\ Len(p) >= 1
  <2>1. p \in Range(ThisJob.tasks)
    BY JobFacts, RangeMember
  <2>2. QED  BY <1>1, <2>1, TaskLength
<1> HIDE DEF p, N
<1>4. Len(p) \in Nat /\ Len(p) >= 1 /\ Len(p) \in 1 .. Len(p) /\ p # << >>
  BY <1>10, EmptySeq
<1>5. End(p) \in N /\ End(p) # ThisJob.dst
  BY <1>1, <1>2, <1>4, ElementOfSeq DEF End
<1>6. /\ Base(p) \in Seq(N) /\ Len(Base(p)) = Len(p) - 1
      /\ \A i \in 1 .. Len(p) - 1 : Base(p)[i] = p[i]
  BY <1>1, <1>4, Shorter DEF Base
<1>7. p = Append(Base(p), End(p))
  <2> DEFINE b == Base(p)
             e == End(p)
  <2>1. b \in Seq(N) /\ e \in N /\ Len(b) = Len(p) - 1
        /\ (\A i \in 1 .. Len(p) - 1 : b[i] = p[i]) /\ e = p[Len(p)]
    BY <1>5, <1>6 DEF End
  <2> HIDE DEF b, e
  <2>2. /\ Append(b, e) \in Seq(N) /\ Len(Append(b, e)) = Len(b) + 1
        /\ \A i \in 1 .. Len(b) : Append(b, e)[i] = b[i]
        /\ Append(b, e)[Len(b) + 1] = e
    BY <2>1, AppendProperties
  <2>3. ASSUME NEW i \in 1 .. Len(p) PROVE p[i] = Append(b, e)[i]
    <3>1. i \in 1 .. Len(p) - 1 \/ i = Len(p)
      BY <1>4
    <3>2. QED  BY <1>4, <2>1, <2>2, <3>1
  <2>4. Len(Append(b, e)) = Len(p)
    BY <1>4, <2>1, <2>2
  <2>5. p = Append(b, e)
    BY <1>1, <2>2, <2>3, <2>4, SeqEqual
  <2>6. QED  BY <2>5 DEF b, e
<1>8. Len(p) = 1 \/ Len(p) < K
  BY <1>2
<1>9. QED  BY <1>1, <1>2, <1>3, <1>4, <1>5, <1>6, <1>7, <1>8 DEF p, N

LEMMA PathFacts ==
    ASSUME Types
    PROVE  /\ Given \in Seq(Node(ThisJob))
           /\ Path \in Seq(Node(ThisJob)) /\ Len(Path) \in Nat
           /\ \A s \in 1 .. Len(staDFS) + 1 :
                PathIn(Given, staDFS, visited, s) \in Seq(Node(ThisJob))
           /\ staDFS # << >> =>
                /\ task \in 1 .. Len(ThisJob.tasks)
                /\ Len(staDFS) >= 1 /\ Len(staDFS) \in 1 .. Len(staDFS)
                /\ Top = staDFS[Len(staDFS)] /\ Top \in Node(ThisJob)
<1>1. Given \in Seq(Node(ThisJob))
  <2>1. CASE task = 0
    BY <2>1, EmptySeq DEF Given
  <2>2. CASE task # 0
    <3>1. task \in 1 .. Len(ThisJob.tasks)
      BY <2>2, JobFacts DEF Types
    <3>2. QED  BY <2>2, <3>1, BaseOfTask DEF Given
  <2>3. QED  BY <2>1, <2>2
<1>2. staDFS \in Seq(Node(ThisJob)) /\ Len(staDFS) \in Nat
  BY JobFacts
<1>3. \A s \in 1 .. Len(staDFS) + 1 :
        PathIn(Given, staDFS, visited, s) \in Seq(Node(ThisJob))
  BY <1>1, <1>2, PathGrows
<1>4. Len(staDFS) + 1 \in 1 .. Len(staDFS) + 1
  BY <1>2
<1>5. Path \in Seq(Node(ThisJob))
  BY <1>3, <1>4, StateRead DEF Read
<1>6. ASSUME staDFS # << >>
      PROVE  /\ task \in 1 .. Len(ThisJob.tasks)
             /\ Len(staDFS) >= 1 /\ Len(staDFS) \in 1 .. Len(staDFS)
             /\ Top = staDFS[Len(staDFS)] /\ Top \in Node(ThisJob)
  <2>1. task \in 0 .. Len(ThisJob.tasks) /\ task # 0
    BY <1>6 DEF Types
  <2>2. Len(staDFS) \in Nat /\ Len(staDFS) # 0 /\ Len(ThisJob.tasks) \in Nat
    BY <1>2, <1>6, EmptySeq, JobFacts
  <2>3. Len(staDFS) >= 1 /\ Len(staDFS) \in 1 .. Len(staDFS)
    BY <2>2
  <2>4. Top = staDFS[Len(staDFS)] /\ Top \in Node(ThisJob)
    BY <1>2, <2>3, ElementOfSeq DEF Top, End
  <2>5. QED  BY <2>1, <2>2, <2>3, <2>4
<1>7. QED  BY <1>1, <1>3, <1>5, <1>6, LenProperties
-----------------------------------------------------------------------------
(* One lemma for each action: it keeps the shape of the state, and on the  *)
(* paths pending it is one of these steps.                                 *)
Busy == status = "run" /\ status' = "run" /\ jid' = jid

ExpandStep ==
    /\ Busy /\ ans' = ans
    /\ \E c \in Pending : /\ ~ Closing(ThisJob, c)
                          /\ Pending' = Expanded(ThisJob, Pending, {c})
EmitStep ==
    /\ Busy /\ ans' = ans + 1
    /\ \E p \in Pending : Closing(ThisJob, p) /\ Pending' = Pending \ {p}
EndStep ==
    /\ status = "run" /\ jid' = jid /\ ans' = ans /\ Pending' = Pending
    /\ status' = "exit" \/ (status' = "complete" /\ Pending = {})
QuietStep ==
    jid' = jid /\ ans' = ans /\ Pending' = Pending /\ status' = status

PoolStep == ExpandStep \/ EmitStep \/ EndStep \/ QuietStep

LEMMA VisitStep ==
    ASSUME CInv, Visit PROVE Shape' /\ PoolStep
<1> DEFINE L == Len(staDFS)
           c == Append(Path, Top)
           N == Node(ThisJob)
<1>1. /\ Types /\ Marked /\ Siblings /\ Accounts(ThisJob, Pending, ans)
      /\ Read /\ Read'
  BY StateRead, PTL DEF CInv, Shape
<1>2. /\ pc = "head" /\ staDFS # << >> /\ Top \notin visited
      /\ visited' = visited \cup {Top} /\ len' = len + 1
      /\ nbr' = 0 /\ bTag' = FALSE /\ pc' = "row"
      /\ jid' = jid /\ task' = task /\ staDFS' = staDFS
      /\ ans' = ans /\ gexit' = gexit /\ status' = status
  BY DEF Visit, AtHead
<1>3. ThisJob' = ThisJob /\ Given' = Given /\ Root' = Root /\ K' = K
  BY <1>2 DEF ThisJob, Given, Root, K
<1>4. /\ Given \in Seq(N) /\ Path \in Seq(N) /\ staDFS \in Seq(N)
      /\ Len(Path) \in Nat /\ L \in Nat /\ L \in 1 .. L
      /\ Top = staDFS[L] /\ Top \in N /\ End(staDFS) = Top
      /\ task \in 1 .. Len(ThisJob.tasks)
      /\ JobOK(ThisJob) /\ GraphOK(ThisJob)
  BY <1>1, <1>2, PathFacts, JobFacts DEF Top
<1>5. Path = PathIn(Given, staDFS, visited, L + 1)
      /\ Untried = UntriedIn(Given, staDFS, visited)
  BY <1>1 DEF Read
<1>6. /\ SiblingsIn(ThisJob, Root, Given, staDFS, visited')
      /\ PathIn(Given, staDFS, visited', L + 1) = c
      /\ c \in Untried /\ c = Extension(Given, staDFS, visited, L)
      /\ ~ Closing(ThisJob, c)
      /\ UntriedIn(Given, staDFS, visited') = Untried \ {c}
  <2> DEFINE e == End(staDFS)
             d == Append(PathIn(Given, staDFS, visited, L + 1), e)
  <2>1. /\ End(staDFS) \notin visited
        /\ SiblingsIn(ThisJob, Root, Given, staDFS, visited)
    BY <1>1, <1>2, <1>4 DEF Siblings
  <2>2. /\ SiblingsIn(ThisJob, Root, Given, staDFS, visited \cup {e})
        /\ PathIn(Given, staDFS, visited \cup {e}, L + 1) = d
        /\ d \in UntriedIn(Given, staDFS, visited)
        /\ d = Extension(Given, staDFS, visited, L)
        /\ ~ Closing(ThisJob, d)
        /\ UntriedIn(Given, staDFS, visited \cup {e}) =
             UntriedIn(Given, staDFS, visited) \ {d}
    <3>1. VisitTo(ThisJob, Root, Given, staDFS, visited)
      BY <1>2, <1>4, <2>1, VisitSiblings
    <3>2. QED  BY <3>1 DEF VisitTo
  <2>3. d = c /\ visited \cup {e} = visited'
    BY <1>2, <1>4, <1>5
  <2> HIDE DEF c, d, e
  <2>4. QED  BY <1>5, <2>2, <2>3
<1>7. Path' = c /\ Untried' = Untried \ {c}
  BY <1>1, <1>2, <1>3, <1>6 DEF Read
<1>8. Siblings'
  BY <1>2, <1>3, <1>6 DEF Siblings
<1>9. Viable(ThisJob, c) /\ c \in Seq(N)
  BY <1>1, <1>6 DEF Accounts, ViableAll, Pending, Viable
<1>10. Marked'
  <2>1. /\ visited = Range(Path) /\ len = Len(Path) /\ Simple(Path)
    BY <1>1 DEF Marked
  <2>2. Range(c) = Range(Path) \cup {Top} /\ Len(c) = Len(Path) + 1
    BY <1>2, <1>4, <2>1, PushStack, AppendParts
  <2>3. Simple(c) /\ IsWalk(ThisJob, c)
    BY <1>9 DEF Viable
  <2>4. Len(c) <= 1 \/ Len(c) < K
    BY <1>4, <1>6, <1>9, OpenIsShort DEF K
  <2>5. QED  BY <1>2, <1>3, <1>7, <2>1, <2>2, <2>3, <2>4 DEF Marked
<1>11. Types'
  <2>1. status = "run"
    BY <1>1, <1>2 DEF Types
  <2>2. 0 \in Nat /\ FALSE \in BOOLEAN
    OBVIOUS
  <2>3. task # 0
    BY <1>4
  <2>4. /\ jid \in JobId /\ task \in 0 .. Len(ThisJob.tasks)
        /\ staDFS \in Seq(Node(ThisJob) \ {ThisJob.dst})
        /\ ans \in Nat /\ gexit \in BOOLEAN
    BY <1>1 DEF Types
  <2>5. QED  BY <1>2, <1>3, <2>1, <2>2, <2>3, <2>4 DEF Types
<1>12. IsLast(staDFS, visited', L)
  <2>1. ~ \E t \in L + 1 .. L : TRUE
    BY <1>4
  <2>2. QED  BY <1>2, <1>4, <2>1 DEF IsLast
<1>13. RowIn(ThisJob, Given, staDFS, visited', 0, L)
  <2>1. /\ PathIn(Given, staDFS, visited', L) = PathIn(Given, staDFS, visited, L)
        /\ PathIn(Given, staDFS, visited', L + 1)
             = Append(PathIn(Given, staDFS, visited, L), Top)
    <3> DEFINE e == End(staDFS)
    <3>1. End(staDFS) \notin visited
      BY <1>2, <1>4
    <3>2. /\ PathIn(Given, staDFS, visited \cup {e}, L)
               = PathIn(Given, staDFS, visited, L)
          /\ PathIn(Given, staDFS, visited \cup {e}, L + 1)
               = Append(PathIn(Given, staDFS, visited, L), e)
      BY <1>2, <1>4, <3>1, AfterVisit, ZenonT(60)
    <3>3. visited \cup {e} = visited' /\ e = Top
      BY <1>2, <1>4
    <3> HIDE DEF e
    <3>4. QED  BY <3>2, <3>3
  <2>2. ~ \E t \in L + 1 .. L : TRUE
    BY <1>4
  <2>3. QED  BY <1>4, <1>12, <2>1, <2>2 DEF RowIn
<1>14. RowRead'
  BY <1>2, <1>3, <1>4, <1>6, <1>7, <1>9, <1>13 DEF RowRead
<1>15. Unread = {} /\ Unread' = Children(ThisJob, c)
  <2>1. LastMark' = L
    BY <1>1, <1>2, <1>4, <1>12, LastIsOne DEF Read
  <2>2. /\ Len(c) >= 1 /\ End(c) = Top
    BY <1>4, AppendParts
  <2>3. Row' = ThisJob.adj[End(c)]
    BY <1>2, <1>3, <1>4, <2>1, <2>2 DEF Row
  <2>4. Unread' = OfferedIn(ThisJob, c, ThisJob.adj[End(c)], 0)
    BY <1>1, <1>2, <1>3, <1>7, <2>3 DEF Read
  <2>5. Unread' = Children(ThisJob, c)
    BY <1>4, <1>9, <2>2, <2>4, OfferAll
  <2>6. QED  BY <1>2, <2>5 DEF Unread
<1>16. ToCall' = ToCall
  BY <1>2, <1>3 DEF ToCall
<1>17. c \notin ToCall
  <2>1. SUFFICES ASSUME NEW t \in task + 1 .. Len(ThisJob.tasks),
                        c = ThisJob.tasks[t]
                 PROVE  FALSE
    BY DEF ToCall
  <2>2. t \in 1 .. Len(ThisJob.tasks) /\ t # task
    BY <1>1, <1>4, <2>1, JobFacts
  <2>3. Prefix(Root, c)
    BY <1>1, <1>4, <1>6 DEF Siblings, SiblingsIn
  <2>4. QED  BY <1>1, <1>4, <2>1, <2>2, <2>3, JobFacts DEF Root
<1>18. Pending' = Expanded(ThisJob, Pending, {c}) /\ c \in Pending
  <2>1. Pending' = (Untried \ {c}) \cup Children(ThisJob, c) \cup ToCall
    BY <1>7, <1>15, <1>16 DEF Pending
  <2>2. UNION { Children(ThisJob, p) : p \in {c} } = Children(ThisJob, c)
    OBVIOUS
  <2>3. Pending = Untried \cup ToCall
    BY <1>15 DEF Pending
  <2>4. QED  BY <1>6, <1>17, <2>1, <2>2, <2>3 DEF Expanded
<1>19. Busy
  BY <1>1, <1>2 DEF Busy, Types
<1>20. QED
  BY <1>2, <1>6, <1>8, <1>10, <1>11, <1>14, <1>18, <1>19
  DEF Shape, PoolStep, ExpandStep

LEMMA PopKeeps ==
    ASSUME Types, Marked, Siblings, staDFS # << >>, Top \in visited, Pop,
           jid' = jid, task' = task
    PROVE  /\ Marked' /\ Siblings' /\ Untried' = Untried /\ ToCall' = ToCall
           /\ staDFS' \in Seq(Node(ThisJob)' \ {ThisJob'.dst})
           /\ ThisJob' = ThisJob
<1> DEFINE N == Node(ThisJob)
<1>1. Read /\ Read'
  BY StateRead, PTL
<1>2. /\ staDFS' = SubSeq(staDFS, 1, Len(staDFS) - 1)
      /\ visited' = visited \ {Top} /\ len' = len - 1
  BY DEF Pop, Popped, Unmarked
<1>3. ThisJob' = ThisJob /\ Given' = Given /\ Root' = Root /\ K' = K
  BY DEF ThisJob, Given, Root, K
<1>4. /\ Given \in Seq(N) /\ staDFS \in Seq(N) /\ Top \in N /\ End(staDFS) = Top
      /\ Len(staDFS) \in Nat /\ Len(staDFS) >= 1
      /\ \A s \in 1 .. Len(staDFS) + 1 : PathIn(Given, staDFS, visited, s) \in Seq(N)
  BY PathFacts, JobFacts DEF Top
<1>5. /\ staDFS' \in Seq(N) /\ Len(staDFS') = Len(staDFS) - 1
      /\ \A t \in 1 .. Len(staDFS) - 1 : staDFS'[t] = staDFS[t]
  BY <1>2, <1>4, Shorter
<1>6. \A v : v \in visited' <=> v \in visited /\ v # End(staDFS)
  BY <1>2, <1>4
<1>7. /\ SiblingsIn(ThisJob, Root, Given, staDFS', visited')
      /\ PathIn(Given, staDFS, visited, Len(staDFS) + 1)
           = Append(PathIn(Given, staDFS', visited', Len(staDFS') + 1), End(staDFS))
      /\ UntriedIn(Given, staDFS', visited') = UntriedIn(Given, staDFS, visited)
  <2>1. /\ staDFS # << >> /\ End(staDFS) \in visited
        /\ SiblingsIn(ThisJob, Root, Given, staDFS, visited)
    BY <1>4 DEF Siblings
  <2> DEFINE su == staDFS'
             wis == visited'
  <2>2. /\ su \in Seq(N) /\ Len(su) = Len(staDFS) - 1
        /\ \A t \in 1 .. Len(staDFS) - 1 : su[t] = staDFS[t]
        /\ \A v : v \in wis <=> v \in visited /\ v # End(staDFS)
    BY <1>5, <1>6
  <2> HIDE DEF su, wis
  <2>3. /\ SiblingsIn(ThisJob, Root, Given, su, wis)
        /\ PathIn(Given, staDFS, visited, Len(staDFS) + 1)
             = Append(PathIn(Given, su, wis, Len(su) + 1), End(staDFS))
        /\ UntriedIn(Given, su, wis) = UntriedIn(Given, staDFS, visited)
    <3>1. PopTo(ThisJob, Root, Given, staDFS, visited, su, wis)
      BY <1>4, <2>1, <2>2, PopSiblings
    <3>2. QED  BY <3>1 DEF PopTo
  <2>4. QED  BY <2>3 DEF su, wis
<1>8. Path = Append(Path', Top) /\ Untried' = Untried
  BY <1>1, <1>3, <1>4, <1>7 DEF Read
<1>9. Path' \in Seq(N)
  <2>1. Len(staDFS') + 1 \in 1 .. Len(staDFS') + 1
    BY <1>4, <1>5
  <2>2. PathIn(Given, staDFS', visited', Len(staDFS') + 1) \in Seq(N)
    BY <1>4, <1>5, <2>1, PathGrows
  <2>3. QED  BY <1>1, <1>3, <2>2 DEF Read
<1>10. Marked'
  <2>1. /\ visited = Range(Path) /\ len = Len(Path) /\ Simple(Path)
        /\ IsWalk(ThisJob, Path)
        /\ len <= 1 \/ len < K
    BY DEF Marked
  <2>2. /\ Simple(Path') /\ Range(Path') = Range(Path) \ {Top}
        /\ IsWalk(ThisJob, Path') /\ Len(Path) = Len(Path') + 1
        /\ Len(Path') \in Nat
    <3> DEFINE a == Path'
               x == Append(a, Top)
    <3>1. a \in Seq(N) /\ Path = x
      BY <1>8, <1>9
    <3> HIDE DEF a
    <3>2. /\ Len(x) = Len(a) + 1 /\ Len(a) \in Nat
          /\ Simple(x) => Simple(a)
          /\ Simple(x) => Range(a) = Range(x) \ {Top}
      BY <1>4, <3>1, AppendParts
    <3>3. \A j : IsWalk(j, x) => IsWalk(j, a)
      BY <1>4, <3>1, AppendParts
    <3> HIDE DEF x
    <3>4. /\ Simple(a) /\ Range(a) = Range(Path) \ {Top}
          /\ IsWalk(ThisJob, a) /\ Len(Path) = Len(a) + 1 /\ Len(a) \in Nat
      BY <2>1, <3>1, <3>2, <3>3
    <3>5. QED  BY <3>4 DEF a
  <2>3. K \in Nat /\ Len(Path) \in Nat
    BY JobFacts, PathFacts
  <2>4. len' = Len(Path') /\ (len' <= 1 \/ len' < K)
    <3> DEFINE x == Len(Path')
    <3>1. x \in Nat /\ len = x + 1 /\ len' = len - 1 /\ (len <= 1 \/ len < K)
      BY <1>2, <2>1, <2>2
    <3> HIDE DEF x
    <3>2. len' = x /\ (len' <= 1 \/ len' < K)
      BY <2>3, <3>1
    <3>3. QED  BY <3>2 DEF x
  <2>5. QED  BY <1>2, <1>3, <2>1, <2>2, <2>4 DEF Marked
<1>11. staDFS' \in Seq(Node(ThisJob) \ {ThisJob.dst})
  BY <1>2, Shorter DEF Types
<1>12. Siblings'
  BY <1>3, <1>7 DEF Siblings
<1>13. ToCall' = ToCall
  BY <1>3 DEF ToCall
<1>14. Node(ThisJob)' = Node(ThisJob) /\ ThisJob'.dst = ThisJob.dst
  BY <1>3 DEF Node
<1>15. QED  BY <1>3, <1>8, <1>10, <1>11, <1>12, <1>13, <1>14

LEMMA BacktrackStep ==
    ASSUME CInv, Backtrack PROVE Shape' /\ PoolStep
<1>1. /\ Types /\ Marked /\ Siblings
      /\ pc = "head" /\ staDFS # << >> /\ Top \in visited /\ Pop
      /\ jid' = jid /\ task' = task /\ pc' = pc /\ nbr' = nbr /\ bTag' = bTag
      /\ ans' = ans /\ gexit' = gexit /\ status' = status
  BY DEF CInv, Shape, Backtrack, AtHead
<1>2. /\ Marked' /\ Siblings' /\ Untried' = Untried /\ ToCall' = ToCall
      /\ staDFS' \in Seq(Node(ThisJob)' \ {ThisJob'.dst})
      /\ ThisJob' = ThisJob
  BY <1>1, PopKeeps
<1>3. Types'
  <2>1. task # 0 /\ status = "run"
    BY <1>1 DEF Types
  <2>2. /\ jid \in JobId /\ task \in 0 .. Len(ThisJob.tasks)
        /\ nbr \in Nat /\ bTag \in BOOLEAN /\ ans \in Nat /\ gexit \in BOOLEAN
    BY <1>1 DEF Types
  <2>3. QED  BY <1>1, <1>2, <2>1, <2>2 DEF Types
<1>4. RowRead' /\ Unread = {} /\ Unread' = {}
  BY <1>1 DEF RowRead, Unread
<1>5. Pending' = Pending
  BY <1>2, <1>4 DEF Pending
<1>6. QED  BY <1>1, <1>2, <1>3, <1>4, <1>5 DEF Shape, PoolStep, QuietStep
(* While a row is read, its vertex ends the path.                          *)
LEMMA RowFacts ==
    ASSUME CInv, pc = "row"
    PROVE  /\ LastMark \in 1 .. Len(staDFS)
           /\ RowIn(ThisJob, Given, staDFS, visited, nbr, LastMark)
           /\ bTag \/ LastMark = Len(staDFS)
           /\ Path \in Seq(Node(ThisJob)) /\ Len(Path) \in Nat /\ Len(Path) >= 1
           /\ End(Path) = staDFS[LastMark] /\ End(Path) \in Node(ThisJob)
           /\ Path = Extension(Given, staDFS, visited, LastMark)
           /\ Row = ThisJob.adj[End(Path)] /\ Len(Row) \in Nat
           /\ Nbrs(ThisJob, End(Path)) = Range(Row)
           /\ Row \in Seq(Node(ThisJob)) /\ Simple(Row)
           /\ Unread = OfferedIn(ThisJob, Path, Row, nbr)
           /\ staDFS # << >> /\ task \in 1 .. Len(ThisJob.tasks) /\ status = "run"
           /\ Viable(ThisJob, Path) /\ ~ Closing(ThisJob, Path)
           /\ Prefix(Root, Path)
<1> DEFINE N == Node(ThisJob)
<1>1. Types /\ Marked /\ Siblings /\ RowRead /\ Read
  BY StateRead DEF CInv, Shape
<1>2. PICK m \in 1 .. Len(staDFS) :
        /\ RowIn(ThisJob, Given, staDFS, visited, nbr, m)
        /\ bTag \/ m = Len(staDFS)
  BY <1>1 DEF RowRead
<1>3. /\ staDFS \in Seq(N) /\ Len(staDFS) \in Nat /\ GraphOK(ThisJob)
      /\ Path \in Seq(N) /\ Len(Path) \in Nat
      /\ \A s \in 1 .. Len(staDFS) + 1 : PathIn(Given, staDFS, visited, s) \in Seq(N)
  BY <1>1, JobFacts, PathFacts
<1>4. /\ IsLast(staDFS, visited, m)
      /\ Path = Append(PathIn(Given, staDFS, visited, m), staDFS[m])
  BY <1>1, <1>2 DEF RowIn, Read
<1>5. LastMark = m
  BY <1>1, <1>3, <1>4, LastIsOne DEF Read
<1>6. /\ staDFS[m] \in N /\ PathIn(Given, staDFS, visited, m) \in Seq(N)
  <2>1. m \in 1 .. Len(staDFS) + 1
    BY <1>3
  <2>2. QED  BY <1>3, <2>1, ElementOfSeq
<1>7. End(Path) = staDFS[m] /\ Len(Path) >= 1
  <2> DEFINE a == PathIn(Given, staDFS, visited, m)
             x == Append(a, staDFS[m])
  <2>1. End(x) = staDFS[m] /\ Len(x) = Len(a) + 1 /\ Len(a) \in Nat
    BY <1>6, AppendParts
  <2>2. Path = x
    BY <1>4
  <2> HIDE DEF x, a
  <2>3. QED  BY <2>1, <2>2
<1>8. Path = Extension(Given, staDFS, visited, m)
  BY <1>4 DEF Extension
<1>9. Row = ThisJob.adj[End(Path)]
  BY <1>5, <1>7 DEF Row
<1>10. /\ Row \in Seq(N) /\ Simple(Row) /\ Len(Row) \in Nat
       /\ Nbrs(ThisJob, End(Path)) = Range(Row)
  <2>1. Row \in Seq(N \ {0}) /\ Simple(Row)
    BY <1>3, <1>6, <1>7, <1>9 DEF GraphOK
  <2>2. Row \in Seq(N)
    BY <2>1, SeqMonotonic
  <2>3. Len(Row) \in Nat
    BY <2>2, LenProperties
  <2>4. Nbrs(ThisJob, End(Path)) = Range(Row)
    BY <1>9 DEF Nbrs
  <2>5. QED  BY <2>1, <2>2, <2>3, <2>4
<1>11. Unread = OfferedIn(ThisJob, Path, Row, nbr)
  BY <1>1 DEF Read
<1>12. staDFS # << >>
  BY <1>2, EmptySeq
<1>13. task \in 1 .. Len(ThisJob.tasks) /\ status = "run"
  BY <1>1, <1>12, PathFacts DEF Types
<1>14. Viable(ThisJob, Path) /\ ~ Closing(ThisJob, Path)
  BY <1>1 DEF RowRead
<1>15. Prefix(Root, Path)
  BY <1>1, <1>2, <1>8 DEF Siblings, SiblingsIn
<1>16. QED
  BY <1>2, <1>3, <1>5, <1>6, <1>7, <1>8, <1>9, <1>10, <1>11, <1>12, <1>13,
     <1>14, <1>15

(* The tests of the loop are those of the pool.                            *)
LEMMA NbrTests ==
    ASSUME CInv, pc = "row", NEW v \in Nbrs(ThisJob, End(Path))
    PROVE  /\ v \in Node(ThisJob) /\ ThisJob.sdt[v] \in Nat
           /\ NotVisited(Path, v) <=> v \notin visited
           /\ Admits(ThisJob, Path, v) <=> Near(v)
           /\ Closing(ThisJob, Append(Path, v)) <=> Counts(v)
           /\ Append(Path, v) \in Children(ThisJob, Path)
                <=> v \notin visited /\ Near(v)
<1>1. /\ JobOK(ThisJob) /\ K \in Nat /\ Marked
  BY JobFacts DEF CInv, Shape
<1>2. /\ Path \in Seq(Node(ThisJob)) /\ Len(Path) \in Nat /\ Len(Path) >= 1
      /\ Viable(ThisJob, Path) /\ ~ Closing(ThisJob, Path)
  BY RowFacts
<1>3. visited = Range(Path) /\ len = Len(Path)
  BY <1>1 DEF Marked
<1>4. /\ v \in Node(ThisJob) /\ ThisJob.sdt[v] \in Nat
      /\ Admits(ThisJob, Path, v) <=> Len(Path) + ThisJob.sdt[v] <= ThisJob.k
  BY <1>1, <1>2, AdmitsExact
<1>5. Admits(ThisJob, Path, v) <=> Near(v)
  BY <1>3, <1>4 DEF Near, K
<1>6. NotVisited(Path, v) <=> v \notin visited
  <2>1. v \in Range(Path) <=> \E i \in 1 .. Len(Path) : Path[i] = v
    BY <1>2, RangeMember
  <2>2. QED  BY <1>3, <2>1 DEF NotVisited
<1>7. Closing(ThisJob, Append(Path, v)) <=> Counts(v)
  <2> DEFINE c == Append(Path, v)
             n == Len(Path)
  <2>1. End(c) = v /\ Len(c) = n + 1
    BY <1>2, <1>4, AppendParts
  <2> HIDE DEF c
  <2>2. Closing(ThisJob, c) <=> v = ThisJob.dst \/ (n + 1 >= 2 /\ n + 1 = K)
    BY <2>1 DEF Closing, K
  <2>3. n \in Nat /\ n >= 1 /\ len = n
    BY <1>2, <1>3
  <2> HIDE DEF n
  <2>4. (n + 1 >= 2 /\ n + 1 = K) <=> len = K - 1
    BY <1>1, <2>3
  <2>5. QED  BY <2>2, <2>4 DEF Counts, c
<1>8. Append(Path, v) \in Children(ThisJob, Path)
        <=> Admits(ThisJob, Path, v) /\ NotVisited(Path, v)
  <2>1. ASSUME NEW w \in Nbrs(ThisJob, End(Path)), Append(Path, v) = Append(Path, w)
        PROVE  v = w
    <3>1. w \in Node(ThisJob)
      BY <1>1, <1>2, AdmitsExact
    <3>2. QED  BY <1>2, <1>4, <2>1, <3>1, AppendBoth
  <2>2. QED  BY <2>1 DEF Children
<1>9. QED  BY <1>4, <1>5, <1>6, <1>7, <1>8

(* The vertex looked at.                                                   *)
LEMMA NextVertex ==
    ASSUME CInv, pc = "row", nbr < Len(Row)
    PROVE  /\ V \in Nbrs(ThisJob, End(Path)) /\ V \in Node(ThisJob)
           /\ OfferedIn(ThisJob, Path, Row, nbr + 1)
                = Unread \ {Append(Path, V)}
           /\ V \notin visited /\ Near(V) => Append(Path, V) \in Unread
           /\ V \in visited \/ ~ Near(V) => Append(Path, V) \notin Unread
           /\ V = Row[nbr + 1] /\ nbr + 1 \in 1 .. Len(Row) /\ nbr \in Nat
<1>1. /\ GraphOK(ThisJob) /\ nbr \in Nat
  BY JobFacts DEF CInv, Shape, Types
<1>2. /\ Path \in Seq(Node(ThisJob)) /\ Len(Path) >= 1
      /\ End(Path) \in Node(ThisJob) /\ Row = ThisJob.adj[End(Path)]
      /\ Len(Row) \in Nat
      /\ Unread = OfferedIn(ThisJob, Path, Row, nbr)
  BY RowFacts
<1>3. V = Row[nbr + 1] /\ nbr + 1 \in 1 .. Len(Row)
  BY <1>1, <1>2 DEF V
<1>4. /\ V \in Nbrs(ThisJob, End(Path)) /\ V \in Node(ThisJob)
      /\ OfferedIn(ThisJob, Path, Row, nbr + 1)
           = OfferedIn(ThisJob, Path, Row, nbr) \ {Append(Path, V)}
      /\ Append(Path, V) \in Children(ThisJob, Path) =>
           Append(Path, V) \in OfferedIn(ThisJob, Path, Row, nbr)
  BY <1>1, <1>2, <1>3, OfferNext
<1>5. Append(Path, V) \in Children(ThisJob, Path) <=> V \notin visited /\ Near(V)
  BY <1>4, NbrTests
<1>6. Unread \subseteq Children(ThisJob, Path)
  BY DEF Unread
<1>7. QED  BY <1>1, <1>2, <1>3, <1>4, <1>5, <1>6
(* What reading on leaves as it was, the stack and the marks being kept.   *)
LEMMA ReadOn ==
    ASSUME CInv, pc = "row", nbr < Len(Row),
           pc' = "row", nbr' = nbr + 1, jid' = jid, task' = task,
           staDFS' = staDFS, visited' = visited, len' = len, bTag' = bTag
    PROVE  /\ Marked' /\ Siblings' /\ RowRead'
           /\ Untried' = Untried /\ ToCall' = ToCall
           /\ Unread' = Unread \ {Append(Path, V)}
           /\ ThisJob' = ThisJob
<1>1. /\ Types /\ Marked /\ Siblings /\ RowRead /\ Read /\ Read'
  BY StateRead, PTL DEF CInv, Shape
<1>2. ThisJob' = ThisJob /\ Given' = Given /\ Root' = Root /\ K' = K
  BY DEF ThisJob, Given, Root, K
<1>3. Path' = Path /\ Untried' = Untried /\ LastMark' = LastMark
  BY <1>1, <1>2 DEF Read
<1>4. Marked' /\ Siblings'
  BY <1>1, <1>2, <1>3 DEF Marked, Siblings
<1>5. Row' = Row
  BY <1>2, <1>3 DEF Row
<1>6. Unread' = Unread \ {Append(Path, V)}
  <2>1. Unread' = OfferedIn(ThisJob, Path, Row, nbr + 1)
    BY <1>1, <1>2, <1>3, <1>5 DEF Read
  <2>2. QED  BY <2>1, NextVertex
<1>7. ToCall' = ToCall
  BY <1>2 DEF ToCall
<1>8. RowIn(ThisJob, Given, staDFS, visited, nbr + 1, LastMark)
  <2>1. /\ RowIn(ThisJob, Given, staDFS, visited, nbr, LastMark)
        /\ nbr \in Nat
    BY <1>1, RowFacts DEF Types
  <2>2. 1 .. nbr \subseteq 1 .. nbr + 1
    BY <2>1
  <2>3. QED  BY <2>1, <2>2 DEF RowIn
<1>9. RowRead'
  <2>1. /\ LastMark \in 1 .. Len(staDFS) /\ Viable(ThisJob, Path)
        /\ bTag \/ LastMark = Len(staDFS)
        /\ ~ Closing(ThisJob, Path)
    BY RowFacts
  <2>2. QED  BY <1>2, <1>3, <1>8, <2>1 DEF RowRead
<1>10. QED  BY <1>2, <1>3, <1>4, <1>6, <1>7, <1>9

LEMMA NbrVisitedStep ==
    ASSUME CInv, NbrVisited PROVE Shape' /\ PoolStep
<1>1. /\ pc = "row" /\ nbr < Len(Row) /\ V \in visited
      /\ nbr' = nbr + 1 /\ jid' = jid /\ task' = task /\ pc' = "row"
      /\ visited' = visited /\ len' = len /\ staDFS' = staDFS /\ bTag' = bTag
      /\ ans' = ans /\ gexit' = gexit /\ status' = status
  BY DEF NbrVisited, Reading
<1>2. /\ Marked' /\ Siblings' /\ RowRead'
      /\ Untried' = Untried /\ ToCall' = ToCall
      /\ Unread' = Unread \ {Append(Path, V)}
      /\ ThisJob' = ThisJob
  BY <1>1, ReadOn
<1>3. Unread' = Unread
  BY <1>1, <1>2, NextVertex
<1>4. Pending' = Pending
  BY <1>2, <1>3 DEF Pending
<1>5. Types'
  <2>1. Types
    BY DEF CInv, Shape
  <2>2. nbr' \in Nat
    BY <1>1, <2>1 DEF Types
  <2>3. QED  BY <1>1, <1>2, <2>1, <2>2 DEF Types
<1>6. QED  BY <1>1, <1>2, <1>4, <1>5 DEF Shape, PoolStep, QuietStep

LEMMA NbrCountStep ==
    ASSUME CInv, NbrCount PROVE Shape' /\ PoolStep
<1> DEFINE c == Append(Path, V)
<1>1. /\ pc = "row" /\ nbr < Len(Row)
      /\ V \notin visited /\ Near(V) /\ Counts(V)
      /\ ans' = ans + 1
      /\ nbr' = nbr + 1 /\ jid' = jid /\ task' = task /\ pc' = "row"
      /\ visited' = visited /\ len' = len /\ staDFS' = staDFS /\ bTag' = bTag
      /\ gexit' = gexit /\ status' = status
  BY DEF NbrCount, Reading
<1>2. /\ Marked' /\ Siblings' /\ RowRead'
      /\ Untried' = Untried /\ ToCall' = ToCall
      /\ Unread' = Unread \ {c}
      /\ ThisJob' = ThisJob
  BY <1>1, ReadOn
<1>3. Types
  BY DEF CInv, Shape
<1>4. c \in Unread /\ Closing(ThisJob, c)
  <2>1. c \in Unread /\ V \in Nbrs(ThisJob, End(Path))
    BY <1>1, NextVertex
  <2>2. QED  BY <1>1, <2>1, NbrTests
<1>5. c \notin Untried
  <2>1. Untried = UntriedIn(Given, staDFS, visited)
    BY StateRead DEF Read
  <2>2. \A s \in OffPath(staDFS, visited) :
          ~ Closing(ThisJob, Extension(Given, staDFS, visited, s))
    BY DEF CInv, Shape, Siblings, SiblingsIn
  <2>3. \A p \in Untried : ~ Closing(ThisJob, p)
    BY <2>1, <2>2 DEF UntriedIn
  <2>4. QED  BY <1>4, <2>3
<1>6. c \notin ToCall
  <2>1. SUFFICES ASSUME NEW t \in task + 1 .. Len(ThisJob.tasks),
                        c = ThisJob.tasks[t]
                 PROVE  FALSE
    BY DEF ToCall
  <2>2. t \in 1 .. Len(ThisJob.tasks)
    BY <1>3, <2>1, JobFacts
  <2>3. ~ Closing(ThisJob, ThisJob.tasks[t])
    BY <1>3, <2>2, BaseOfTask
  <2>4. QED  BY <1>4, <2>1, <2>3
<1> HIDE DEF c
<1>7. Pending' = Pending \ {c} /\ c \in Pending
  <2>1. Pending = Untried \cup Unread \cup ToCall
    BY DEF Pending
  <2>2. Pending' = Untried \cup (Unread \ {c}) \cup ToCall
    BY <1>2 DEF Pending
  <2>3. QED  BY <1>4, <1>5, <1>6, <2>1, <2>2
<1>8. Types'
  <2>1. nbr' \in Nat /\ ans' \in Nat
    BY <1>1, <1>3 DEF Types
  <2>2. QED  BY <1>1, <1>2, <1>3, <2>1 DEF Types
<1>9. Busy
  BY <1>1, <1>3 DEF Busy, Types
<1>10. QED
  BY <1>1, <1>2, <1>4, <1>7, <1>8, <1>9 DEF Shape, PoolStep, EmitStep

LEMMA NbrPushStep ==
    ASSUME CInv, NbrPush PROVE Shape' /\ PoolStep
<1> DEFINE L == Len(staDFS)
           N == Node(ThisJob)
           m == LastMark
           c == Append(Path, V)
           su == Append(staDFS, V)
<1>1. /\ pc = "row" /\ nbr < Len(Row)
      /\ V \notin visited /\ Near(V) /\ ~ Counts(V)
      /\ staDFS' = su /\ bTag' = TRUE
      /\ nbr' = nbr + 1 /\ jid' = jid /\ task' = task /\ pc' = "row"
      /\ visited' = visited /\ len' = len /\ ans' = ans
      /\ gexit' = gexit /\ status' = status
  BY DEF NbrPush, Reading
<1>2. /\ Types /\ Marked /\ Siblings /\ Read /\ Read'
  BY StateRead, PTL DEF CInv, Shape
<1>3. ThisJob' = ThisJob /\ Given' = Given /\ Root' = Root /\ K' = K
  BY <1>1 DEF ThisJob, Given, Root, K
<1>4. /\ Given \in Seq(N) /\ staDFS \in Seq(N) /\ L \in Nat
      /\ \A s \in 1 .. L + 1 : PathIn(Given, staDFS, visited, s) \in Seq(N)
      /\ V \in Nbrs(ThisJob, End(Path)) /\ V \in N
      /\ V = Row[nbr + 1] /\ nbr + 1 \in 1 .. Len(Row) /\ nbr \in Nat
      /\ c \in Unread
  BY <1>1, <1>2, JobFacts, PathFacts, NextVertex
<1>5. /\ m \in 1 .. L /\ RowIn(ThisJob, Given, staDFS, visited, nbr, m)
      /\ Path \in Seq(N) /\ Len(Path) \in Nat
      /\ End(Path) = staDFS[m] /\ Row = ThisJob.adj[End(Path)]
      /\ Path = Extension(Given, staDFS, visited, m)
      /\ Row \in Seq(N) /\ Simple(Row) /\ Len(Row) \in Nat
      /\ Viable(ThisJob, Path) /\ ~ Closing(ThisJob, Path)
      /\ Prefix(Root, Path) /\ staDFS # << >> /\ task # 0 /\ status = "run"
  BY <1>1, RowFacts
<1>6. ~ Closing(ThisJob, c)
  BY <1>1, <1>4, NbrTests
<1>7. Prefix(Root, c)
  <2>1. /\ \A i \in 1 .. Len(Path) : c[i] = Path[i]
        /\ Len(c) = Len(Path) + 1
    BY <1>4, <1>5, AppendProperties
  <2>2. Len(Root) <= Len(Path) /\ Len(Root) \in Nat
    <3>1. Root \in Seq(N)
      BY <1>2, <1>5, JobFacts, PathFacts DEF Root
    <3>2. QED  BY <1>5, <3>1, LenProperties DEF Prefix
  <2>3. QED  BY <1>5, <2>1, <2>2 DEF Prefix
<1>8. c \notin UntriedIn(Given, staDFS, visited)
  <2>1. SUFFICES ASSUME NEW s \in 1 .. L, ~ MarkAt(staDFS, visited, s),
                        c = Extension(Given, staDFS, visited, s)
                 PROVE  FALSE
    BY DEF UntriedIn, OffPath
  <2>2. s \in 1 .. L + 1 /\ m \in 1 .. L + 1 /\ staDFS[s] \in N
    BY <1>4, <1>5, ElementOfSeq
  <2>3. Path = PathIn(Given, staDFS, visited, s) /\ V = staDFS[s]
    <3> DEFINE a == PathIn(Given, staDFS, visited, s)
               b == Path
               e == staDFS[s]
               v == V
    <3>1. /\ a \in Seq(N) /\ e \in N /\ b \in Seq(N) /\ v \in N
          /\ Append(b, v) = Append(a, e)
      BY <1>4, <1>5, <2>1, <2>2 DEF Extension
    <3> HIDE DEF a, b, e, v
    <3>2. b = a /\ v = e
      BY <3>1, AppendBoth
    <3>3. QED  BY <3>2 DEF a, b, e, v
  <2>4. CASE s <= m
    <3> DEFINE a == PathIn(Given, staDFS, visited, s)
               b == PathIn(Given, staDFS, visited, m)
    <3>1. a \in Seq(N) /\ b \in Seq(N) /\ staDFS[m] \in N
      BY <1>4, <1>5, <2>2, ElementOfSeq
    <3>2. Prefix(a, b)
      <4>1. s \in 1 .. m
        BY <1>4, <1>5, <2>4
      <4>2. QED  BY <1>4, <2>2, <4>1, PathGrows
    <3>3. a = Append(b, staDFS[m])
      BY <1>5, <2>3 DEF Extension
    <3> HIDE DEF a, b
    <3>4. Len(a) = Len(b) + 1 /\ Len(b) \in Nat
      BY <3>1, <3>3, AppendParts
    <3>5. QED  BY <3>2, <3>4 DEF Prefix
  <2>5. CASE ~ (s <= m)
    <3>1. s \in m + 1 .. L
      BY <1>4, <1>5, <2>5
    <3>2. PICK i \in 1 .. nbr : i <= Len(Row) /\ staDFS[s] = Row[i]
      BY <1>5, <3>1 DEF RowIn
    <3>3. i \in 1 .. Len(Row) /\ i # nbr + 1
      BY <1>4, <1>5, <3>2
    <3>4. Row[i] = Row[nbr + 1]
      BY <1>4, <2>3, <3>2
    <3>5. QED  BY <1>4, <1>5, <3>3, <3>4 DEF Simple
  <2>6. QED  BY <2>4, <2>5
<1>9. /\ SiblingsIn(ThisJob, Root, Given, su, visited)
      /\ PathIn(Given, su, visited, Len(su) + 1) = Path
      /\ UntriedIn(Given, su, visited) = Untried \cup {c}
  <2>1. /\ c = Append(PathIn(Given, staDFS, visited, Len(staDFS) + 1), V)
        /\ SiblingsIn(ThisJob, Root, Given, staDFS, visited)
    BY <1>2 DEF Siblings, Read
  <2> HIDE DEF c
  <2>2. PushTo(ThisJob, Root, Given, staDFS, visited, su, c)
    BY <1>1, <1>4, <1>6, <1>7, <1>8, <2>1, PushSiblings
  <2>3. QED  BY <1>2, <2>2 DEF PushTo, Read
<1>10. Path' = Path /\ Untried' = Untried \cup {c}
  BY <1>1, <1>2, <1>3, <1>9 DEF Read
<1>11. Siblings' /\ Marked'
  <2>1. Siblings'
    BY <1>1, <1>3, <1>9 DEF Siblings
  <2>2. Marked'
    BY <1>1, <1>2, <1>3, <1>10 DEF Marked
  <2>3. QED  BY <2>1, <2>2
<1>12. /\ Len(su) = L + 1 /\ su[L + 1] = V
       /\ \A t \in 1 .. L : su[t] = staDFS[t]
       /\ PathIn(Given, su, visited, m) = PathIn(Given, staDFS, visited, m)
  <2>1. m \in 1 .. L + 1
    BY <1>4, <1>5
  <2>2. \A s \in 1 .. L + 1 :
          PathIn(Given, su, visited, s) = PathIn(Given, staDFS, visited, s)
    BY <1>1, <1>4, AfterPush
  <2>3. /\ Len(su) = L + 1 /\ su[L + 1] = V
        /\ \A t \in 1 .. L : su[t] = staDFS[t]
    BY <1>4, AppendProperties
  <2>4. QED  BY <2>1, <2>2, <2>3
<1>13. IsLast(su, visited, m)
  <2>1. \A t \in m + 1 .. L + 1 : t \in m + 1 .. L \/ t = L + 1
    <3>1. m \in Nat /\ L \in Nat
      BY <1>4, <1>5
    <3> HIDE DEF m, L
    <3>2. QED  BY <3>1
  <2>2. /\ staDFS[m] \in visited
        /\ \A t \in m + 1 .. L : staDFS[t] \notin visited
    BY <1>5 DEF RowIn, IsLast
  <2>3. m \in 1 .. L + 1 /\ \A t \in m + 1 .. L : t \in 1 .. L
    BY <1>4, <1>5
  <2> HIDE DEF su, m
  <2>4. QED  BY <1>1, <1>5, <1>12, <2>1, <2>2, <2>3 DEF IsLast
<1>14. RowIn(ThisJob, Given, su, visited, nbr + 1, m)
  <2>1. su[m] = staDFS[m] /\ m \in Nat
    BY <1>4, <1>5, <1>12
  <2>2. PathIn(Given, su, visited, Len(su) + 1)
          = Append(PathIn(Given, su, visited, m), su[m])
    BY <1>5, <1>9, <1>12, <2>1 DEF Extension
  <2>3. ASSUME NEW t \in m + 1 .. Len(su)
        PROVE  \E i \in 1 .. nbr + 1 : i <= Len(Row) /\ su[t] = Row[i]
    <3>1. CASE t = L + 1
      BY <1>4, <1>12, <3>1
    <3>2. CASE t # L + 1
      <4>9. t \in m + 1 .. L + 1 /\ m \in Nat /\ L \in Nat
        BY <1>4, <1>5, <1>12
      <4>1. t \in m + 1 .. L /\ t \in 1 .. L
        BY <3>2, <4>9
      <4>2. PICK i \in 1 .. nbr : i <= Len(Row) /\ staDFS[t] = Row[i]
        BY <1>5, <4>1 DEF RowIn
      <4>3. i \in 1 .. nbr + 1 /\ su[t] = Row[i]
        BY <1>4, <1>12, <4>1, <4>2
      <4>4. QED  BY <4>2, <4>3
    <3>3. QED  BY <3>1, <3>2
  <2>4. Row = ThisJob.adj[su[m]]
    BY <1>5, <2>1
  <2> HIDE DEF su, m
  <2>5. QED  BY <1>13, <2>2, <2>3, <2>4 DEF RowIn
<1>15. RowRead'
  <2>1. m \in 1 .. Len(staDFS')
    BY <1>1, <1>4, <1>5, <1>12
  <2>2. RowIn(ThisJob, Given, staDFS', visited', nbr', m)
    BY <1>1, <1>14
  <2>3. QED  BY <1>1, <1>3, <1>5, <1>10, <2>1, <2>2 DEF RowRead
<1>16. Unread' = Unread \ {c}
  <2>1. LastMark' = m
    <3>1. Len(su) \in Nat
      BY <1>4, <1>12
    <3>2. LastIn(su, visited) = m
      BY <1>13, <3>1, LastIsOne
    <3>3. QED  BY <1>1, <1>2, <3>2 DEF Read
  <2>2. staDFS'[m] = staDFS[m]
    BY <1>1, <1>5, <1>12
  <2>3. Row' = Row
    BY <1>3, <1>5, <2>1, <2>2 DEF Row
  <2>4. Unread' = OfferedIn(ThisJob, Path, Row, nbr + 1)
    BY <1>1, <1>2, <1>3, <1>10, <2>3 DEF Read
  <2>5. QED  BY <1>1, <2>4, NextVertex
<1>17. ToCall' = ToCall
  BY <1>1, <1>3 DEF ToCall
<1>18. Pending' = Pending
  <2>1. Pending' = (Untried \cup {c}) \cup (Unread \ {c}) \cup ToCall
    BY <1>10, <1>16, <1>17 DEF Pending
  <2>2. Pending = Untried \cup Unread \cup ToCall
    BY DEF Pending
  <2> HIDE DEF c
  <2>3. QED  BY <1>4, <2>1, <2>2
<1>19. Types'
  <2>1. V # ThisJob.dst
    BY <1>1 DEF Counts
  <2>2. staDFS' \in Seq(N \ {ThisJob.dst})
    BY <1>1, <1>2, <1>4, <2>1, AppendProperties DEF Types
  <2>3. nbr' \in Nat /\ bTag' \in BOOLEAN
    BY <1>1, <1>4
  <2>4. QED  BY <1>1, <1>2, <1>3, <1>5, <2>2, <2>3 DEF Types
<1>20. QED
  BY <1>1, <1>11, <1>15, <1>18, <1>19 DEF Shape, PoolStep, QuietStep
(* When a row ends, nothing of it is left to offer: the vertices after one *)
(* that is too far are no nearer.                                          *)
LEMMA NothingLeft ==
    ASSUME CInv, RowDone PROVE pc = "row" /\ Unread = {}
<1>1. pc = "row" /\ Types
  BY DEF RowDone, CInv, Shape
<1>2. /\ Path \in Seq(Node(ThisJob)) /\ End(Path) \in Node(ThisJob)
      /\ Row = ThisJob.adj[End(Path)] /\ Len(Row) \in Nat
      /\ Nbrs(ThisJob, End(Path)) = Range(Row)
      /\ Unread = OfferedIn(ThisJob, Path, Row, nbr)
      /\ Len(Path) \in Nat
  BY <1>1, RowFacts
<1>3. nbr \in Nat /\ jid \in JobId /\ K \in Nat /\ len \in Nat
  BY <1>1, <1>2, JobFacts DEF Types, CInv, Shape, Marked
<1>4. CASE ~ (nbr < Len(Row))
  <2>1. ~ \E i \in nbr + 1 .. Len(Row) : TRUE
    BY <1>2, <1>3, <1>4
  <2>2. QED  BY <1>1, <1>2, <2>1 DEF OfferedIn
<1>5. CASE nbr < Len(Row)
  <2>1. ~ Near(V) /\ V \in Nbrs(ThisJob, End(Path)) /\ V = Row[nbr + 1]
    BY <1>1, <1>5, NextVertex DEF RowDone, Breaks
  <2>2. SUFFICES ASSUME NEW p \in Unread PROVE FALSE
    BY <1>1
  <2>3. PICK i \in nbr + 1 .. Len(Row) : End(p) = Row[i]
    BY <1>2, <2>2 DEF OfferedIn
  <2>4. p \in Children(ThisJob, Path)
    BY <1>2, <2>2 DEF OfferedIn
  <2>5. PICK v \in Nbrs(ThisJob, End(Path)) :
               Admits(ThisJob, Path, v) /\ p = Append(Path, v)
    BY <2>4 DEF Children
  <2>6. v \in Node(ThisJob) /\ ThisJob.sdt[v] \in Nat /\ Near(v)
    BY <1>1, <2>5, NbrTests
  <2>7. End(p) = v
    BY <1>2, <2>5, <2>6, AppendParts
  <2>8. ThisJob.sdt[V] <= ThisJob.sdt[v]
    <3>1. /\ nbr + 1 \in 1 .. Len(Row) /\ i \in 1 .. Len(Row) /\ nbr + 1 <= i
      BY <1>2, <1>3, <1>5
    <3>2. \A a, b \in 1 .. Len(Row) :
            a <= b => ThisJob.sdt[Row[a]] <= ThisJob.sdt[Row[b]]
      BY <1>2, <1>3, RowsAssumption DEF ThisJob
    <3>3. ThisJob.sdt[Row[nbr + 1]] <= ThisJob.sdt[Row[i]]
      BY <3>1, <3>2
    <3>4. QED  BY <2>1, <2>3, <2>7, <3>3
  <2>9. ThisJob.sdt[V] \in Nat
    BY <1>1, <2>1, NbrTests
  <2>10. QED  BY <1>3, <2>1, <2>6, <2>8, <2>9, SMTT(30) DEF Near
<1>6. QED  BY <1>4, <1>5

LEMMA RowEndPushedStep ==
    ASSUME CInv, RowEndPushed PROVE Shape' /\ PoolStep
<1>1. /\ RowDone /\ pc' = "head" /\ jid' = jid /\ task' = task
      /\ visited' = visited /\ len' = len /\ staDFS' = staDFS
      /\ nbr' = nbr /\ bTag' = bTag
      /\ ans' = ans /\ gexit' = gexit /\ status' = status
  BY DEF RowEndPushed
<1>2. /\ Types /\ Marked /\ Siblings /\ Read /\ Read'
  BY StateRead, PTL DEF CInv, Shape
<1>3. ThisJob' = ThisJob /\ Given' = Given /\ Root' = Root /\ K' = K
  BY <1>1 DEF ThisJob, Given, Root, K
<1>4. Path' = Path /\ Untried' = Untried
  BY <1>1, <1>2, <1>3 DEF Read
<1>5. Marked' /\ Siblings'
  BY <1>1, <1>2, <1>3, <1>4 DEF Marked, Siblings
<1>6. RowRead' /\ Unread' = {}
  BY <1>1 DEF RowRead, Unread
<1>7. Unread = {} /\ pc = "row"
  BY <1>1, NothingLeft
<1>8. Pending' = Pending
  <2>1. ToCall' = ToCall
    BY <1>1, <1>3 DEF ToCall
  <2>2. QED  BY <1>4, <1>6, <1>7, <2>1 DEF Pending
<1>9. Types'
  <2>1. status = "run"
    BY <1>2, <1>7 DEF Types
  <2>2. QED  BY <1>1, <1>2, <1>3, <2>1 DEF Types
<1>10. QED
  BY <1>1, <1>5, <1>6, <1>8, <1>9 DEF Shape, PoolStep, QuietStep

LEMMA RowEndLeafStep ==
    ASSUME CInv, RowEndLeaf PROVE Shape' /\ PoolStep
<1>1. /\ RowDone /\ ~ bTag /\ Pop /\ pc' = "head"
      /\ jid' = jid /\ task' = task /\ nbr' = nbr /\ bTag' = bTag
      /\ ans' = ans /\ gexit' = gexit /\ status' = status
  BY DEF RowEndLeaf
<1>2. Types /\ Marked /\ Siblings
  BY DEF CInv, Shape
<1>3. Unread = {} /\ pc = "row"
  BY <1>1, NothingLeft
<1>4. staDFS # << >> /\ Top \in visited
  <2>1. /\ staDFS # << >> /\ LastMark = Len(staDFS)
        /\ RowIn(ThisJob, Given, staDFS, visited, nbr, LastMark)
    BY <1>1, <1>3, RowFacts
  <2>2. staDFS[LastMark] \in visited
    BY <2>1 DEF RowIn, IsLast
  <2>3. QED  BY <2>1, <2>2 DEF Top, End
<1>5. /\ Marked' /\ Siblings' /\ Untried' = Untried /\ ToCall' = ToCall
      /\ staDFS' \in Seq(Node(ThisJob)' \ {ThisJob'.dst})
      /\ ThisJob' = ThisJob
  BY <1>1, <1>2, <1>4, PopKeeps
<1>6. Types'
  <2>1. task # 0 /\ status = "run"
    BY <1>2, <1>3, <1>4 DEF Types
  <2>2. /\ jid \in JobId /\ task \in 0 .. Len(ThisJob.tasks)
        /\ nbr \in Nat /\ bTag \in BOOLEAN /\ ans \in Nat /\ gexit \in BOOLEAN
    BY <1>2 DEF Types
  <2>3. QED  BY <1>1, <1>5, <2>1, <2>2 DEF Types
<1>7. RowRead' /\ Unread' = {}
  BY <1>1 DEF RowRead, Unread
<1>8. Pending' = Pending
  BY <1>3, <1>5, <1>7 DEF Pending
<1>9. QED  BY <1>1, <1>5, <1>6, <1>7, <1>8 DEF Shape, PoolStep, QuietStep

(* A call starts with its task as the only sibling.                        *)
CallTo(j, p, g, st, vis) ==
    /\ SiblingsIn(j, p, g, st, vis)
    /\ PathIn(g, st, vis, Len(st) + 1) = g
    /\ UntriedIn(g, st, vis) = {p}

LEMMA CallSiblings ==
    ASSUME NEW j, NEW S, NEW g \in Seq(S), NEW e \in S, e \notin Range(g),
           NEW p \in Seq(S), p = Append(g, e), ~ Closing(j, p)
    PROVE  CallTo(j, p, g, <<e>>, Range(g))
<1> DEFINE st == <<e>>
           vis == Range(g)
<1>1. st \in Seq(S) /\ Len(st) = 1 /\ st[1] = e
  OBVIOUS
<1> HIDE DEF st
<1>2. 1 \in 1 .. Len(st) /\ \A s \in 1 .. Len(st) : s = 1
  BY <1>1
<1>3. ~ MarkAt(st, vis, 1)
  BY <1>1 DEF MarkAt
<1> HIDE DEF vis
<1>4. PathIn(g, st, vis, 1) = g
  BY <1>1, PathGrows
<1>5. PathIn(g, st, vis, 1 + 1) = PathIn(g, st, vis, 1)
  BY <1>1, <1>2, <1>3, PathNext, ZenonT(60)
<1>6. Extension(g, st, vis, 1) = p
  BY <1>1, <1>4 DEF Extension
<1>7. OffPath(st, vis) = {1}
  BY <1>2, <1>3 DEF OffPath
<1>8. UntriedIn(g, st, vis) = {p}
  BY <1>6, <1>7 DEF UntriedIn
<1>9. Prefix(p, p)
  BY LenProperties DEF Prefix
<1>10. SiblingsIn(j, p, g, st, vis)
  BY <1>2, <1>6, <1>7, <1>9 DEF SiblingsIn
<1>11. PathIn(g, st, vis, Len(st) + 1) = g
  BY <1>1, <1>4, <1>5
<1>12. QED  BY <1>8, <1>10, <1>11 DEF CallTo, st, vis

LEMMA NextCallStep ==
    ASSUME CInv, NextCall PROVE Shape' /\ PoolStep
<1> DEFINE N == Node(ThisJob)
           p == ThisJob.tasks[task + 1]
           b == Base(p)
           e == End(p)
<1>1. /\ pc = "head" /\ staDFS = << >> /\ task < Len(ThisJob.tasks)
      /\ task' = task + 1 /\ visited' = Range(b) /\ len' = Len(p) - 1
      /\ staDFS' = <<e>> /\ jid' = jid /\ pc' = pc /\ nbr' = nbr /\ bTag' = bTag
      /\ ans' = ans /\ gexit' = gexit /\ status' = status
  BY DEF NextCall, Called, Marks
<1>2. Types /\ Read /\ Read'
  BY StateRead, PTL DEF CInv, Shape
<1>3. task \in Nat /\ Len(ThisJob.tasks) \in Nat /\ K \in Nat
  BY <1>2, JobFacts
<1>4. task + 1 \in 1 .. Len(ThisJob.tasks) /\ task + 1 # 0
  BY <1>1, <1>3
<1>5. /\ p \in Seq(N) /\ Len(p) \in Nat /\ Len(p) >= 1
      /\ b \in Seq(N) /\ e \in N /\ e # ThisJob.dst
      /\ p = Append(b, e) /\ Len(b) = Len(p) - 1
      /\ Simple(p) /\ IsWalk(ThisJob, p)
      /\ Len(p) = 1 \/ Len(p) < K
      /\ ~ Closing(ThisJob, p)
  BY <1>2, <1>4, BaseOfTask
<1>6. /\ ThisJob' = ThisJob /\ K' = K /\ Given' = b /\ Root' = p
  <2>1. ThisJob' = ThisJob
    BY <1>1 DEF ThisJob
  <2>2. QED  BY <1>1, <1>4, <2>1 DEF K, Given, Root
<1> HIDE DEF p, b, e
<1>7. Simple(b) /\ e \notin Range(b) /\ IsWalk(ThisJob, b)
  <2> DEFINE x == Append(b, e)
  <2>1. /\ Simple(x) => Simple(b)
        /\ Simple(x) => e \notin Range(b)
    BY <1>5, AppendParts
  <2>2. \A j : IsWalk(j, x) => IsWalk(j, b)
    BY <1>5, AppendParts
  <2>3. p = x
    BY <1>5
  <2> HIDE DEF x
  <2>4. QED  BY <1>5, <2>1, <2>2, <2>3
<1>8. CallTo(ThisJob, p, b, <<e>>, Range(b))
  BY <1>5, <1>7, CallSiblings
<1>9. Path' = b /\ Untried' = {p}
  BY <1>1, <1>2, <1>6, <1>8 DEF CallTo, Read
<1>10. Siblings'
  BY <1>1, <1>6, <1>8 DEF CallTo, Siblings
<1>11. Marked'
  <2>1. len' <= 1 \/ len' < K
    <3> DEFINE n == Len(p)
    <3>1. n \in Nat /\ len' = n - 1 /\ (n <= 1 \/ n < K)
      BY <1>1, <1>5
    <3> HIDE DEF n
    <3>2. QED  BY <1>3, <3>1
  <2>2. QED  BY <1>1, <1>5, <1>6, <1>7, <1>9, <2>1 DEF Marked
<1>12. Types'
  <2>1. staDFS' \in Seq(N \ {ThisJob.dst})
    BY <1>1, <1>5
  <2>2. status = "run" /\ task' \in 0 .. Len(ThisJob.tasks) /\ task' # 0
    BY <1>1, <1>2, <1>3, <1>4 DEF Types
  <2>3. /\ jid \in JobId /\ nbr \in Nat /\ bTag \in BOOLEAN
        /\ ans \in Nat /\ gexit \in BOOLEAN
    BY <1>2 DEF Types
  <2>4. QED  BY <1>1, <1>6, <2>1, <2>2, <2>3 DEF Types
<1>13. RowRead' /\ Unread = {} /\ Unread' = {}
  BY <1>1 DEF RowRead, Unread
<1>14. Untried = {}
  <2>1. Len(staDFS) = 0
    BY <1>1, EmptySeq
  <2>2. QED  BY <2>1 DEF Untried
<1>15. ToCall = {p} \cup ToCall'
  <2>1. \A t : t \in task + 1 .. Len(ThisJob.tasks)
                 <=> t = task + 1 \/ t \in (task + 1) + 1 .. Len(ThisJob.tasks)
    BY <1>3, <1>4
  <2>2. ToCall' = { ThisJob.tasks[t] :
                      t \in (task + 1) + 1 .. Len(ThisJob.tasks) }
    BY <1>1, <1>6 DEF ToCall
  <2>3. ToCall = { ThisJob.tasks[t] : t \in task + 1 .. Len(ThisJob.tasks) }
    BY DEF ToCall
  <2>4. QED  BY <2>1, <2>2, <2>3 DEF p
<1>16. Pending' = Pending
  BY <1>9, <1>13, <1>14, <1>15 DEF Pending
<1>17. QED
  BY <1>1, <1>10, <1>11, <1>12, <1>13, <1>16 DEF Shape, PoolStep, QuietStep

(* Ends, the time limit and stuttering leave the stack alone.              *)
LEMMA OtherSteps ==
    ASSUME CInv, \/ Exit \/ Complete \/ TimeOut \/ Returned \/ UNCHANGED vars
    PROVE  Shape' /\ PoolStep
<1>1. /\ jid' = jid /\ task' = task /\ visited' = visited /\ len' = len
      /\ staDFS' = staDFS /\ nbr' = nbr /\ bTag' = bTag /\ ans' = ans
  BY DEF Exit, Complete, TimeOut, Returned, vars
<1>2. /\ \/ pc' = pc /\ status' = status /\ (gexit' = gexit \/ gexit' = TRUE)
         \/ /\ pc = "head" /\ pc' = "done" /\ gexit' = gexit
            /\ \/ status' = "exit" /\ gexit
               \/ /\ status' = "complete"
                  /\ staDFS = << >> /\ task = Len(ThisJob.tasks)
  BY DEF Exit, Complete, TimeOut, Returned, vars, AtHead, Called
<1>3. /\ Types /\ Marked /\ Siblings /\ RowRead /\ Read /\ Read'
  BY StateRead, PTL DEF CInv, Shape
<1>4. ThisJob' = ThisJob /\ Given' = Given /\ Root' = Root /\ K' = K
  BY <1>1 DEF ThisJob, Given, Root, K
<1>5. Path' = Path /\ Untried' = Untried /\ ToCall' = ToCall
  BY <1>1, <1>3, <1>4 DEF Read, ToCall
<1>6. Marked' /\ Siblings'
  BY <1>1, <1>3, <1>4, <1>5 DEF Marked, Siblings
<1>7. RowRead'
  BY <1>1, <1>2, <1>3, <1>4, <1>5 DEF RowRead
<1>8. Unread' = Unread
  <2>1. CASE pc' = pc
    <3>1. Row' = Row
      BY <1>1, <1>3, <1>4 DEF Row, Read
    <3>2. QED  BY <1>1, <1>3, <1>4, <1>5, <2>1, <3>1 DEF Read
  <2>2. CASE pc' # pc
    BY <1>2, <2>2 DEF Unread
  <2>3. QED  BY <2>1, <2>2
<1>9. Pending' = Pending
  BY <1>5, <1>8 DEF Pending
<1>10. Types'
  <2>1. gexit' \in BOOLEAN
    <3>1. gexit \in BOOLEAN
      BY <1>3 DEF Types
    <3>2. QED  BY <1>2, <3>1
  <2>2. /\ jid \in JobId /\ task \in 0 .. Len(ThisJob.tasks)
        /\ staDFS \in Seq(Node(ThisJob) \ {ThisJob.dst})
        /\ nbr \in Nat /\ bTag \in BOOLEAN /\ ans \in Nat
    BY <1>3 DEF Types
  <2>3. /\ pc' \in {"head", "row", "done"}
        /\ status' \in {"run", "complete", "exit"}
        /\ pc' = "done" <=> status' # "run"
        /\ task = 0 => staDFS = << >> /\ pc' # "row"
        /\ status' = "complete" => staDFS = << >> /\ task = Len(ThisJob.tasks)
    BY <1>2, <1>3 DEF Types
  <2>4. status' = "exit" => gexit'
    BY <1>2, <1>3, Zenon DEF Types
  <2>5. QED  BY <1>1, <1>4, <2>1, <2>2, <2>3, <2>4 DEF Types
<1>11. PoolStep
  <2>1. CASE status' = status
    BY <1>1, <1>9, <2>1 DEF PoolStep, QuietStep
  <2>2. CASE status' # status
    <3>1. status = "run" /\ pc = "head"
      BY <1>2, <1>3, <2>2 DEF Types
    <3>2. ASSUME status' = "complete" PROVE Pending = {}
      <4>1. staDFS = << >> /\ task = Len(ThisJob.tasks)
        BY <1>2, <2>2, <3>2
      <4>2. Len(staDFS) = 0 /\ task \in Nat
        BY <1>3, <4>1, EmptySeq, JobFacts
      <4>3. Untried = {} /\ Unread = {}
        BY <3>1, <4>2 DEF Untried, Unread
      <4>4. ToCall = {}
        BY <4>1, <4>2 DEF ToCall
      <4>5. QED  BY <4>3, <4>4 DEF Pending
    <3>3. status' = "exit" \/ status' = "complete"
      BY <1>2, <2>2
    <3>4. QED  BY <1>1, <1>9, <3>1, <3>2, <3>3 DEF PoolStep, EndStep
  <2>3. QED  BY <2>1, <2>2
<1>12. QED  BY <1>6, <1>7, <1>10, <1>11 DEF Shape
-----------------------------------------------------------------------------
(* Before the first call all tasks are still to be handed over.            *)
LEMMA InitStep == Init => CInv /\ Pending = Range(ThisJob.tasks)
<1>1. SUFFICES ASSUME Init PROVE CInv /\ Pending = Range(ThisJob.tasks)
  OBVIOUS
<1>2. /\ jid \in JobId /\ task = 0 /\ pc = "head" /\ visited = {} /\ len = 0
      /\ staDFS = << >> /\ nbr = 0 /\ bTag = FALSE
      /\ ans = 0 /\ gexit = FALSE /\ status = "run"
  BY <1>1 DEF Init
<1>3. JobOK(ThisJob)
  BY <1>2, JobsAssumption DEF ThisJob
<1>4. /\ ThisJob.tasks \in Seq(Seq(Node(ThisJob))) /\ Len(ThisJob.tasks) \in Nat
      /\ << >> \in Seq(Node(ThisJob)) /\ << >> \in Seq(Node(ThisJob) \ {ThisJob.dst})
      /\ Len(<< >>) = 0 /\ Len(staDFS) = 0
  BY <1>2, <1>3, LenProperties, EmptySeq DEF JobOK, TasksOK
<1>5. Types
  <2>1. /\ staDFS \in Seq(Node(ThisJob) \ {ThisJob.dst})
        /\ task \in 0 .. Len(ThisJob.tasks)
    BY <1>2, <1>4
  <2>2. /\ pc \in {"head", "row", "done"} /\ nbr \in Nat /\ ans \in Nat
        /\ status \in {"run", "complete", "exit"}
    BY <1>2
  <2>3. bTag \in BOOLEAN /\ gexit \in BOOLEAN
    BY <1>2
  <2>4. /\ pc = "done" <=> status # "run"
        /\ task = 0 => staDFS = << >> /\ pc # "row"
        /\ status = "exit" => gexit
        /\ status = "complete" => staDFS = << >> /\ task = Len(ThisJob.tasks)
    BY <1>2
  <2>5. QED  BY <1>2, <2>1, <2>2, <2>3, <2>4 DEF Types
<1>6. Path = << >>
  <2>1. Given = << >>
    BY <1>2 DEF Given
  <2>2. PathIn(Given, staDFS, visited, 1) = Given
    <3>1. Given \in Seq(Node(ThisJob)) /\ staDFS \in Seq(Node(ThisJob))
      BY <1>2, <1>4, <2>1
    <3>2. QED  BY <3>1, PathGrows
  <2>3. Path = PathIn(Given, staDFS, visited, Len(staDFS) + 1)
    BY StateRead DEF Read
  <2>4. Len(staDFS) + 1 = 1
    BY <1>4
  <2>5. QED  BY <2>1, <2>2, <2>3, <2>4
<1>7. Marked
  <2>1. Range(Path) = {} /\ Simple(Path) /\ Len(Path) = 0
    BY <1>4, <1>6, EmptyStack
  <2>2. IsWalk(ThisJob, Path)
    BY <2>1 DEF IsWalk
  <2>3. QED  BY <1>2, <2>1, <2>2 DEF Marked
<1>8. Siblings
  <2>1. 1 .. Len(staDFS) = {}
    BY <1>4
  <2>2. OffPath(staDFS, visited) = {}
    BY <2>1 DEF OffPath
  <2>3. QED  BY <2>1, <2>2 DEF Siblings, SiblingsIn
<1>9. RowRead
  BY <1>2 DEF RowRead
<1>10. Pending = Range(ThisJob.tasks)
  <2>1. Untried = {}
    BY <1>4 DEF Untried
  <2>2. Unread = {}
    BY <1>2 DEF Unread
  <2>3. ToCall = { ThisJob.tasks[t] : t \in 1 .. Len(ThisJob.tasks) }
    BY <1>2 DEF ToCall
  <2>4. DOMAIN ThisJob.tasks = 1 .. Len(ThisJob.tasks)
    BY <1>4, LenProperties
  <2>5. QED  BY <2>1, <2>2, <2>3, <2>4 DEF Pending, Range
<1>11. Accounts(ThisJob, Pending, ans)
  BY <1>2, <1>3, <1>10, TasksAccount
<1>12. QED  BY <1>5, <1>7, <1>8, <1>9, <1>10, <1>11 DEF CInv, Shape

(* What the steps of the pool do to the account.                           *)
LEMMA AccountStep ==
    ASSUME CInv, PoolStep
    PROVE  Accounts(ThisJob, Pending, ans)'
<1>1. Accounts(ThisJob, Pending, ans) /\ JobOK(ThisJob)
  BY JobFacts DEF CInv, Shape
<1>2. ThisJob' = ThisJob
  BY DEF PoolStep, ExpandStep, EmitStep, EndStep, QuietStep, Busy, ThisJob
<1>3. CASE ExpandStep
  <2>1. PICK c \in Pending : /\ ~ Closing(ThisJob, c)
                             /\ Pending' = Expanded(ThisJob, Pending, {c})
    BY <1>3 DEF ExpandStep
  <2>2. Accounts(ThisJob, Expanded(ThisJob, Pending, {c}), ans)
    BY <1>1, <2>1, ExpandAccounts
  <2>3. QED  BY <1>2, <1>3, <2>1, <2>2 DEF ExpandStep
<1>4. CASE EmitStep
  <2>1. PICK p \in Pending : Closing(ThisJob, p) /\ Pending' = Pending \ {p}
    BY <1>4 DEF EmitStep
  <2>2. Accounts(ThisJob, Pending \ {p}, ans + 1)
    BY <1>1, <2>1, EmitAccounts
  <2>3. QED  BY <1>2, <1>4, <2>1, <2>2 DEF EmitStep
<1>5. CASE EndStep
  BY <1>1, <1>2, <1>5 DEF EndStep
<1>6. CASE QuietStep
  BY <1>1, <1>2, <1>6 DEF QuietStep
<1>7. QED  BY <1>3, <1>4, <1>5, <1>6 DEF PoolStep

LEMMA NextStep == CInv /\ [Next]_vars => CInv' /\ PoolStep
<1>1. SUFFICES ASSUME CInv, [Next]_vars PROVE Shape' /\ PoolStep
  BY AccountStep DEF CInv
<1>2. CASE Search
  BY <1>1, <1>2, OtherSteps, VisitStep, BacktrackStep, NbrVisitedStep,
     NbrCountStep, NbrPushStep, RowEndPushedStep, RowEndLeafStep,
     NextCallStep DEF Search
<1>3. CASE TimeOut \/ Returned \/ UNCHANGED vars
  BY <1>1, <1>3, OtherSteps
<1>4. QED  BY <1>1, <1>2, <1>3 DEF Next

LEMMA CInvariant == Spec => []CInv
BY InitStep, NextStep, PTL DEF Spec

-----------------------------------------------------------------------------
(* The marks and the stack of MYDFSPathEnumCSR never come apart: through   *)
(* visits, pops of leaves, backtracking and the next call, arrVisited_     *)
(* marks just the vertices of a simple walk that the stack spells out      *)
(* after the path given, and iVisitedLen is its length.                    *)
THEOREM TypeCorrect == Spec => []TypeOK
<1>1. CInv => TypeOK
  BY DEF CInv, Shape, Types, Marked, TypeOK
<1>2. QED  BY <1>1, CInvariant, PTL

(* The steps of the pool, in the words of PathPool.                        *)
LEMMA PoolWords ==
    /\ Pool!ThisJob = ThisJob
    /\ \A p : Pool!Closing(ThisJob, p) <=> Closing(ThisJob, p)
    /\ \A p : Pool!Children(ThisJob, p) = Children(ThisJob, p)
<1>1. Pool!ThisJob = ThisJob
  BY DEF Pool!ThisJob, ThisJob
<1>2. \A p : Pool!Closing(ThisJob, p) <=> Closing(ThisJob, p)
  BY DEF Pool!Closing, Closing, Pool!End, End
<1>3. \A p : Pool!Nbrs(ThisJob, End(p)) = Nbrs(ThisJob, End(p))
  BY NbrsListed DEF Pool!Nbrs, Pool!Range
<1>4. \A p : Pool!Children(ThisJob, p) = Children(ThisJob, p)
  BY <1>3
     DEF Pool!Children, Children, Pool!Admits, Admits, Pool!Layer, Layer,
         Pool!LayerMod, LayerMod, Pool!NotVisited, NotVisited, Pool!End, End
<1>5. QED  BY <1>1, <1>2, <1>4

LEMMA InitMaps == Init => Pool!PoolInit
<1>1. SUFFICES ASSUME Init PROVE Pool!PoolInit
  OBVIOUS
<1>2. /\ jid \in JobId /\ ans = 0 /\ status = "run"
      /\ Pending = Range(ThisJob.tasks)
  BY <1>1, InitStep DEF Init
<1>3. QED  BY <1>2 DEF Pool!PoolInit, ThisJob, Pool!Range, Range

LEMMA StepMaps == CInv /\ [Next]_vars => [Pool!PoolNext]_(Pool!poolVars)
<1>1. SUFFICES ASSUME PoolStep PROVE [Pool!PoolNext]_(Pool!poolVars)
  BY NextStep
<1>2. CASE ExpandStep
  <2>1. PICK c \in Pending : /\ ~ Closing(ThisJob, c)
                             /\ Pending' = Expanded(ThisJob, Pending, {c})
    BY <1>2 DEF ExpandStep
  <2>2. Pool!Expand({c})
    BY <1>2, <2>1, PoolWords DEF Pool!Expand, Expanded, ExpandStep, Busy
  <2>3. {c} \in SUBSET Pending
    BY <2>1
  <2>4. QED  BY <2>2, <2>3 DEF Pool!PoolNext
<1>3. CASE EmitStep
  <2>1. PICK p \in Pending : Closing(ThisJob, p) /\ Pending' = Pending \ {p}
    BY <1>3 DEF EmitStep
  <2>2. Pool!Emit(p)
    BY <1>3, <2>1, PoolWords DEF Pool!Emit, EmitStep, Busy
  <2>3. QED  BY <2>2 DEF Pool!PoolNext
<1>4. CASE EndStep
  BY <1>4 DEF EndStep, Pool!PoolNext, Pool!Finish, Pool!Abort
<1>5. CASE QuietStep
  BY <1>5 DEF QuietStep, Pool!poolVars
<1>6. QED  BY <1>1, <1>2, <1>3, <1>4, <1>5 DEF PoolStep

(* Over all its calls for the tasks that stay on the CPU, the search       *)
(* expands every pending path once or counts it once: a sibling left on    *)
(* staDFS is tried with the path it was pushed for, and the neighbours the *)
(* break of a row leaves out would not have been admitted.                 *)
THEOREM SearchImplementsPool == Spec => ImplementsPool
BY InitMaps, InitStep, NextStep, StepMaps, PTL
   DEF Spec, ImplementsPool, Pool!PoolSpec

(* The CPU's share of FAPE is exact unless the main thread set g_exit: a   *)
(* search that returns before that has counted every path of its tasks     *)
(* once, and one that stopped has counted none too many.                   *)
THEOREM ExactUnlessStopped == Spec => []ExactUnlessExit
<1>1. CInv => ExactUnlessExit
  <2>1. SUFFICES ASSUME CInv PROVE ExactUnlessExit
    OBVIOUS
  <2>2. /\ Types /\ jid \in JobId /\ JobOK(ThisJob)
        /\ Accounts(ThisJob, Pending, ans)
    BY <2>1, JobFacts DEF CInv, Shape, Types
  <2>3. ResultsOf[jid] = Results(ThisJob)
    BY <2>2 DEF ResultsOf, ThisJob
  <2>4. ASSUME status = "complete" PROVE ans = Cardinality(Results(ThisJob))
    <3>1. staDFS = << >> /\ task = Len(ThisJob.tasks) /\ pc # "row"
      BY <2>2, <2>4 DEF Types
    <3>2. Len(staDFS) = 0 /\ task \in Nat
      BY <2>2, <3>1, EmptySeq, JobFacts
    <3>3. Untried = {} /\ Unread = {}
      BY <3>1, <3>2 DEF Untried, Unread
    <3>4. ToCall = {}
      BY <3>1, <3>2 DEF ToCall
    <3>5. Pending = {}
      BY <3>3, <3>4 DEF Pending
    <3>6. QED  BY <2>2, <3>5, EmptyAccount
  <2>5. ans <= Cardinality(Results(ThisJob))
    <3>1. Cardinality(CoveredBy(ThisJob, Pending)) \in Nat
      BY <2>2, CoveredFinite
    <3>2. /\ ans \in Nat
          /\ ans + Cardinality(CoveredBy(ThisJob, Pending))
               = Cardinality(Results(ThisJob))
      BY <2>2 DEF Accounts
    <3>3. QED  BY <3>1, <3>2
  <2>6. status = "exit" => gexit
    BY <2>2 DEF Types
  <2>7. QED  BY <2>3, <2>4, <2>5, <2>6 DEF ExactUnlessExit
<1>2. QED  BY <1>1, CInvariant, PTL
=============================================================================
