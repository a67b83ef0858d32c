--------------------------- MODULE HopPathsProofs ---------------------------
(***************************************************************************)
(* Lemmas about jobs, paths and pools of paths.  They concern no state: a  *)
(* component that keeps paths of a job in whatever form cites them for the *)
(* set of paths it still has to deal with.                                 *)
(*                                                                         *)
(* A pool of pending paths accounts for a job (Accounts) when its paths    *)
(* are viable prefixes of results, none continues another, and the results *)
(* counted and those still covered are all results.  Expanding paths and   *)
(* counting one that closes keep the account.                              *)
(***************************************************************************)
EXTENDS HopPaths, FiniteSetTheorems, SequenceTheorems, TLAPS

Viable(j, p) ==
    /\ p \in Seq(Node(j)) /\ Len(p) >= 1
    /\ IsWalk(j, p) /\ Simple(p)
    /\ \A i \in 1 .. Len(p) - 1 : p[i] # j.dst
    /\ \E i \in 1 .. Len(j.tasks) : Prefix(j.tasks[i], p)
    /\ Len(p) = 1 \/ Len(p) <= j.k \/ End(p) = j.dst
    /\ Closing(j, p) => Len(p) + j.sdt[End(p)] <= j.k + 1

-----------------------------------------------------------------------------
(* Stacks: sequences in which nothing occurs twice.                        *)

LEMMA RangeMember ==
    ASSUME NEW S, NEW s \in Seq(S)
    PROVE  /\ Len(s) \in Nat
           /\ \A x \in Range(s) : \E i \in 1 .. Len(s) : x = s[i]
           /\ \A i \in 1 .. Len(s) : s[i] \in Range(s) /\ s[i] \in S
           /\ Range(s) \subseteq S
<1>1. Range(s) = { s[i] : i \in 1 .. Len(s) }
  BY RangeEquality
<1>2. \A x \in Range(s) : \E i \in 1 .. Len(s) : x = s[i]
  BY <1>1
<1>3. \A i \in 1 .. Len(s) : s[i] \in Range(s)
  BY <1>1
<1>4. QED  BY <1>2, <1>3, LenProperties, ElementOfSeq, RangeOfSeq

(* A sequence has no more members than positions.                          *)
LEMMA RangeCounted ==
    ASSUME NEW S, NEW s \in Seq(S)
    PROVE  /\ IsFiniteSet(Range(s)) /\ Len(s) \in Nat
           /\ Cardinality(Range(s)) <= Len(s)
           /\ Simple(s) => Cardinality(Range(s)) = Len(s)
<1>1. Len(s) \in Nat /\ s \in [1 .. Len(s) -> S] /\ DOMAIN s = 1 .. Len(s)
  BY LenProperties
<1>2. s \in [1 .. Len(s) -> Range(s)]
  BY <1>1, RangeMember
<1>3. s \in Surjection(1 .. Len(s), Range(s))
  BY <1>2, RangeMember DEF Surjection
<1>4. IsFiniteSet(1 .. Len(s)) /\ Cardinality(1 .. Len(s)) = Len(s)
  BY <1>1, FS_Interval
<1>5. /\ IsFiniteSet(Range(s)) /\ Cardinality(Range(s)) <= Len(s)
      /\ s \in Injection(1 .. Len(s), Range(s)) => Cardinality(Range(s)) = Len(s)
  BY <1>3, <1>4, FS_Surjection
<1>6. Simple(s) => s \in Injection(1 .. Len(s), Range(s))
  BY <1>1, <1>2 DEF Simple, Injection, IsInjective
<1>7. QED  BY <1>1, <1>5, <1>6

LEMMA EmptyStack ==
    /\ Range(<< >>) = {} /\ Simple(<< >>)
    /\ \A S : \A s \in Seq(S) : Range(s) = {} => s = << >>
<1>1. << >> \in Seq({}) /\ Len(<< >>) = 0
  BY EmptySeq
<1>2. Range(<< >>) = {} /\ Simple(<< >>)
  <2>1. DOMAIN << >> = {}
    BY <1>1, LenProperties
  <2>2. Range(<< >>) = {}
    BY <2>1 DEF Range
  <2>3. QED  BY <1>1, <2>2 DEF Simple
<1>3. ASSUME NEW S, NEW s \in Seq(S), Range(s) = {}
      PROVE  s = << >>
  <2>1. SUFFICES ASSUME s # << >> PROVE FALSE
    OBVIOUS
  <2>2. Len(s) \in Nat \ {0}
    BY <2>1, EmptySeq
  <2>3. s[1] \in Range(s)
    BY <2>2, RangeMember
  <2>4. QED  BY <1>3, <2>3
<1>4. QED  BY <1>2, <1>3

(* Putting one stack on another.                                           *)
LEMMA JoinStacks ==
    ASSUME NEW S, NEW s \in Seq(S), NEW t \in Seq(S), Simple(s), Simple(t),
           Range(s) \cap Range(t) = {}
    PROVE  /\ s \o t \in Seq(S) /\ Simple(s \o t)
           /\ Range(s \o t) = Range(s) \cup Range(t)
<1> DEFINE u == s \o t
<1>1. /\ u \in Seq(S) /\ Len(u) = Len(s) + Len(t)
      /\ \A i \in 1 .. Len(s) + Len(t) :
           u[i] = IF i <= Len(s) THEN s[i] ELSE t[i - Len(s)]
      /\ Len(s) \in Nat /\ Len(t) \in Nat
      /\ Range(u) = Range(s) \cup Range(t)
  BY ConcatProperties, LenProperties, RangeConcatenation
<1> HIDE DEF u
<1>2. /\ \A i \in 1 .. Len(s) : s[i] \in Range(s)
      /\ \A i \in 1 .. Len(t) : t[i] \in Range(t)
  BY RangeMember
<1>3. ASSUME NEW a \in 1 .. Len(s) + Len(t), NEW b \in 1 .. Len(s) + Len(t),
             u[a] = u[b]
      PROVE  a = b
  <2>1. CASE a <= Len(s) /\ b <= Len(s)
    BY <1>1, <1>3, <2>1 DEF Simple
  <2>2. CASE a > Len(s) /\ b > Len(s)
    <3>1. a - Len(s) \in 1 .. Len(t) /\ b - Len(s) \in 1 .. Len(t)
      BY <1>1, <2>2
    <3>2. t[a - Len(s)] = t[b - Len(s)]
      BY <1>1, <1>3, <2>2
    <3>3. a - Len(s) = b - Len(s)
      BY <3>1, <3>2 DEF Simple
    <3>4. QED  BY <1>1, <3>3
  <2>3. CASE a <= Len(s) /\ b > Len(s)
    <3>1. a \in 1 .. Len(s) /\ b - Len(s) \in 1 .. Len(t)
      BY <1>1, <2>3
    <3>2. s[a] = t[b - Len(s)]
      BY <1>1, <1>3, <2>3
    <3>3. QED  BY <1>2, <3>1, <3>2
  <2>4. CASE b <= Len(s) /\ a > Len(s)
    <3>1. b \in 1 .. Len(s) /\ a - Len(s) \in 1 .. Len(t)
      BY <1>1, <2>4
    <3>2. s[b] = t[a - Len(s)]
      BY <1>1, <1>3, <2>4
    <3>3. QED  BY <1>2, <3>1, <3>2
  <2>5. QED  BY <1>1, <2>1, <2>2, <2>3, <2>4
<1>4. Simple(u)
  BY <1>1, <1>3 DEF Simple
<1>5. QED  BY <1>1, <1>4 DEF u

(* The two parts of a stack share nothing.                                 *)
LEMMA SplitStack ==
    ASSUME NEW S, NEW s \in Seq(S), NEW t \in Seq(S), Simple(s \o t)
    PROVE  /\ Simple(s) /\ Simple(t)
           /\ Range(s) \cap Range(t) = {}
<1> DEFINE u == s \o t
<1>1. /\ u \in Seq(S) /\ Len(u) = Len(s) + Len(t)
      /\ \A i \in 1 .. Len(s) + Len(t) :
           u[i] = IF i <= Len(s) THEN s[i] ELSE t[i - Len(s)]
      /\ Len(s) \in Nat /\ Len(t) \in Nat
  BY ConcatProperties, LenProperties
<1>2. \A a, b \in 1 .. Len(s) + Len(t) : u[a] = u[b] => a = b
  BY <1>1 DEF Simple
<1> HIDE DEF u
<1>3. ASSUME NEW i \in 1 .. Len(s)
      PROVE  i \in 1 .. Len(s) + Len(t) /\ u[i] = s[i]
  BY <1>1
<1>4. ASSUME NEW i \in 1 .. Len(t)
      PROVE  Len(s) + i \in 1 .. Len(s) + Len(t) /\ u[Len(s) + i] = t[i]
  <2>1. /\ Len(s) + i \in 1 .. Len(s) + Len(t)
        /\ ~ (Len(s) + i <= Len(s)) /\ (Len(s) + i) - Len(s) = i
    BY <1>1
  <2>2. u[Len(s) + i] = t[(Len(s) + i) - Len(s)]
    BY <1>1, <2>1
  <2>3. QED  BY <2>1, <2>2
<1>5. Simple(s)
  BY <1>2, <1>3 DEF Simple
<1>6. Simple(t)
  <2>1. SUFFICES ASSUME NEW a \in 1 .. Len(t), NEW b \in 1 .. Len(t),
                        t[a] = t[b]
                 PROVE  a = b
    BY DEF Simple
  <2>2. Len(s) + a = Len(s) + b
    BY <1>2, <1>4, <2>1
  <2>3. QED  BY <1>1, <2>2
<1>7. Range(s) \cap Range(t) = {}
  <2>1. SUFFICES ASSUME NEW x \in Range(s), x \in Range(t) PROVE FALSE
    OBVIOUS
  <2>2. PICK a \in 1 .. Len(s) : x = s[a]
    BY RangeMember
  <2>3. PICK b \in 1 .. Len(t) : x = t[b]
    BY <2>1, RangeMember
  <2>4. a = Len(s) + b
    BY <1>2, <1>3, <1>4, <2>2, <2>3, ZenonT(60)
  <2>5. QED  BY <1>1, <2>4
<1>8. QED  BY <1>5, <1>6, <1>7

(* Cutting a stack in two.                                                 *)
LEMMA CutStack ==
    ASSUME NEW S, NEW s \in Seq(S), Simple(s), NEW m \in 0 .. Len(s)
    PROVE  /\ SubSeq(s, 1, m) \in Seq(S) /\ Simple(SubSeq(s, 1, m))
           /\ SubSeq(s, m + 1, Len(s)) \in Seq(S)
           /\ Simple(SubSeq(s, m + 1, Len(s)))
           /\ Range(SubSeq(s, 1, m)) \cup Range(SubSeq(s, m + 1, Len(s)))
                = Range(s)
           /\ Range(SubSeq(s, 1, m)) \cap Range(SubSeq(s, m + 1, Len(s)))
                = {}
<1>1. Len(s) \in Nat /\ \A i \in 1 .. Len(s) : s[i] \in S
  BY RangeMember
<1>2. m \in Nat /\ m <= Len(s)
  BY <1>1
<1>3. SubSeq(s, 1, m) \in Seq(S) /\ SubSeq(s, m + 1, Len(s)) \in Seq(S)
  <2>1. /\ 1 \in Int /\ m \in Int /\ m + 1 \in Int /\ Len(s) \in Int
        /\ \A i \in 1 .. m : s[i] \in S
        /\ \A i \in m + 1 .. Len(s) : s[i] \in S
    BY <1>1, <1>2
  <2>2. SubSeq(s, 1, m) \in Seq(S)
    BY <2>1, SubSeqProperties
  <2>3. SubSeq(s, m + 1, Len(s)) \in Seq(S)
    BY <2>1, SubSeqProperties
  <2>4. QED  BY <2>2, <2>3
<1>4. SubSeq(s, 1, m) \o SubSeq(s, m + 1, Len(s)) = s
  <2>1. /\ 1 \in 1 .. Len(s) + 1 /\ m \in 1 - 1 .. Len(s)
        /\ Len(s) \in m .. Len(s)
    BY <1>1, <1>2
  <2>2. SubSeq(s, 1, m) \o SubSeq(s, m + 1, Len(s)) = SubSeq(s, 1, Len(s))
    BY <2>1, ConcatAdjacentSubSeq
  <2>3. QED  BY <2>2, SubSeqFull
<1> DEFINE lo == SubSeq(s, 1, m)
           hi == SubSeq(s, m + 1, Len(s))
<1>5. lo \in Seq(S) /\ hi \in Seq(S) /\ lo \o hi = s
  BY <1>3, <1>4
<1> HIDE DEF lo, hi
<1>6. /\ Simple(lo) /\ Simple(hi) /\ Range(lo) \cap Range(hi) = {}
      /\ Range(lo) \cup Range(hi) = Range(s)
  BY <1>5, SplitStack, RangeConcatenation
<1>7. QED  BY <1>5, <1>6 DEF lo, hi

(* What the upper part holds.                                              *)
LEMMA TopOfStack ==
    ASSUME NEW S, NEW s \in Seq(S), NEW m \in 0 .. Len(s)
    PROVE  /\ \A i \in m + 1 .. Len(s) :
                s[i] \in Range(SubSeq(s, m + 1, Len(s)))
           /\ \A x \in Range(SubSeq(s, m + 1, Len(s))) :
                \E i \in m + 1 .. Len(s) : x = s[i]
<1>1. Len(s) \in Nat /\ \A i \in 1 .. Len(s) : s[i] \in S
  BY RangeMember
<1>2. m \in Nat /\ m <= Len(s)
  BY <1>1
<1> DEFINE hi == SubSeq(s, m + 1, Len(s))
<1>3. /\ hi \in Seq(S) /\ Len(hi) = Len(s) - m
      /\ \A i \in 1 .. Len(s) - m : hi[i] = s[m + i]
  <2>1. /\ m + 1 \in Int /\ Len(s) \in Int
        /\ \A i \in m + 1 .. Len(s) : s[i] \in S
    BY <1>1, <1>2
  <2>2. /\ hi \in Seq(S)
        /\ Len(hi) = IF m + 1 <= Len(s) THEN Len(s) - (m + 1) + 1 ELSE 0
        /\ \A i \in 1 .. Len(s) - (m + 1) + 1 : hi[i] = s[m + 1 + i - 1]
    BY <2>1, SubSeqProperties
  <2>3. Len(hi) = Len(s) - m
    BY <1>1, <1>2, <2>2
  <2>4. ASSUME NEW i \in 1 .. Len(s) - m PROVE hi[i] = s[m + i]
    <3>1. i \in 1 .. Len(s) - (m + 1) + 1 /\ m + 1 + i - 1 = m + i
      BY <1>1, <1>2, <2>4
    <3>2. QED  BY <2>2, <3>1
  <2>5. QED  BY <2>2, <2>3, <2>4
<1> HIDE DEF hi
<1>4. /\ \A i \in 1 .. Len(s) - m : hi[i] \in Range(hi)
      /\ \A x \in Range(hi) : \E i \in 1 .. Len(s) - m : x = hi[i]
  BY <1>3, RangeMember
<1>5. ASSUME NEW x \in Range(hi)
      PROVE  \E a \in m + 1 .. Len(s) : x = s[a]
  <2>1. PICK i \in 1 .. Len(s) - m : x = hi[i]
    BY <1>4
  <2>2. m + i \in m + 1 .. Len(s) /\ x = s[m + i]
    BY <1>1, <1>2, <1>3, <2>1
  <2>3. QED  BY <2>2
<1>6. ASSUME NEW a \in m + 1 .. Len(s)
      PROVE  s[a] \in Range(hi)
  <2>1. a - m \in 1 .. Len(s) - m /\ m + (a - m) = a
    BY <1>1, <1>2
  <2>2. hi[a - m] = s[a]
    BY <1>3, <2>1
  <2>3. QED  BY <1>4, <2>1, <2>2
<1>7. QED  BY <1>5, <1>6 DEF hi

(* Putting a new element on a stack.                                       *)
LEMMA PushStack ==
    ASSUME NEW S, NEW s \in Seq(S), Simple(s), NEW e \in S, e \notin Range(s)
    PROVE  /\ Append(s, e) \in Seq(S) /\ Simple(Append(s, e))
           /\ Range(Append(s, e)) = Range(s) \cup {e}
<1> DEFINE t == Append(s, e)
<1>1. /\ t \in Seq(S) /\ Len(t) = Len(s) + 1 /\ Len(s) \in Nat
      /\ \A i \in 1 .. Len(s) : t[i] = s[i]
      /\ t[Len(s) + 1] = e
  BY AppendProperties, LenProperties
<1> HIDE DEF t
<1>2. /\ \A i \in 1 .. Len(s) + 1 : t[i] \in Range(t)
      /\ \A x \in Range(t) : \E i \in 1 .. Len(s) + 1 : x = t[i]
  BY <1>1, RangeMember
<1>3. /\ \A i \in 1 .. Len(s) : s[i] \in Range(s)
      /\ \A x \in Range(s) : \E i \in 1 .. Len(s) : x = s[i]
  BY RangeMember
<1>4. \A i \in 1 .. Len(s) + 1 : i \in 1 .. Len(s) \/ i = Len(s) + 1
  BY <1>1
<1>5. /\ \A i \in 1 .. Len(s) : i \in 1 .. Len(s) + 1
      /\ Len(s) + 1 \in 1 .. Len(s) + 1
  BY <1>1
<1>6. Range(t) = Range(s) \cup {e}
  BY <1>1, <1>2, <1>3, <1>4, <1>5, SMTT(30)
<1>7. Simple(t)
  <2>1. SUFFICES ASSUME NEW a \in 1 .. Len(s) + 1, NEW b \in 1 .. Len(s) + 1,
                        t[a] = t[b]
                 PROVE  a = b
    BY <1>1 DEF Simple
  <2>2. \A i \in 1 .. Len(s) : t[i] # e
    BY <1>1, <1>3
  <2>3. CASE a \in 1 .. Len(s) /\ b \in 1 .. Len(s)
    BY <1>1, <2>1, <2>3 DEF Simple
  <2>4. CASE a = Len(s) + 1 \/ b = Len(s) + 1
    BY <1>1, <1>4, <2>1, <2>2, <2>4
  <2>5. QED  BY <1>4, <2>3, <2>4
<1>8. QED  BY <1>1, <1>6, <1>7 DEF t

(* Taking the top off a stack.                                             *)
LEMMA PopStack ==
    ASSUME NEW S, NEW s \in Seq(S), Simple(s), s # << >>
    PROVE  /\ SubSeq(s, 1, Len(s) - 1) \in Seq(S)
           /\ Simple(SubSeq(s, 1, Len(s) - 1))
           /\ s[Len(s)] \in Range(s)
           /\ Range(SubSeq(s, 1, Len(s) - 1)) = Range(s) \ {s[Len(s)]}
<1>1. Len(s) \in Nat \ {0}
  BY EmptySeq
<1> DEFINE m  == Len(s) - 1
           lo == SubSeq(s, 1, m)
           hi == SubSeq(s, m + 1, Len(s))
<1>2. m \in 0 .. Len(s)
  BY <1>1
<1>3. /\ lo \in Seq(S) /\ Simple(lo)
      /\ Range(lo) \cup Range(hi) = Range(s)
      /\ Range(lo) \cap Range(hi) = {}
  BY <1>2, CutStack
<1>4. /\ \A i \in m + 1 .. Len(s) : s[i] \in Range(hi)
      /\ \A x \in Range(hi) : \E i \in m + 1 .. Len(s) : x = s[i]
  BY <1>2, TopOfStack
<1>5. \A i : i \in m + 1 .. Len(s) <=> i = Len(s)
  BY <1>1
<1> HIDE DEF m, lo, hi
<1>6. Range(hi) = {s[Len(s)]}
  BY <1>4, <1>5
<1>7. QED  BY <1>3, <1>6 DEF lo, m

-----------------------------------------------------------------------------
(* Prefixes of one path are comparable.                                    *)
LEMMA PrefixComparable ==
    ASSUME NEW S, NEW a \in Seq(S), NEW b \in Seq(S), NEW q \in Seq(S),
           Prefix(a, q), Prefix(b, q), Len(a) <= Len(b)
    PROVE  Prefix(a, b)
<1>1. Len(a) \in Nat /\ Len(b) \in Nat /\ Len(q) \in Nat
  BY LenProperties
<1>2. QED  BY <1>1 DEF Prefix

(* A path and a prefix of the same length are equal.                       *)
LEMMA PrefixSameLength ==
    ASSUME NEW S, NEW a \in Seq(S), NEW b \in Seq(S),
           Prefix(a, b), Len(a) = Len(b)
    PROVE  a = b
<1>1. \A i \in 1 .. Len(a) : a[i] = b[i]
  BY DEF Prefix
<1>2. QED  BY <1>1, SeqEqual

LEMMA AppendBoth ==
    ASSUME NEW S, NEW a \in Seq(S), NEW b \in Seq(S), NEW u \in S, NEW v \in S,
           Append(a, u) = Append(b, v)
    PROVE  a = b /\ u = v
BY AppendInjective

(* The neighbours of a vertex are what its adjacency list holds.           *)
LEMMA NbrsListed ==
    ASSUME NEW j, NEW v
    PROVE  /\ Nbrs(j, v) = Range(j.adj[v])
           /\ Nbrs(j, v) = { j.adj[v][i] : i \in DOMAIN j.adj[v] }
BY DEF Nbrs, Range

(* Extending a path by a vertex.                                           *)
LEMMA AppendPrefix ==
    ASSUME NEW S, NEW a \in Seq(S), NEW v \in S, NEW q \in Seq(S)
    PROVE  /\ Prefix(a, Append(a, v))
           /\ Prefix(Append(a, v), q) =>
                Prefix(a, q) /\ Len(a) < Len(q) /\ q[Len(a) + 1] = v
           /\ Prefix(a, q) /\ Len(a) < Len(q) /\ q[Len(a) + 1] = v =>
                Prefix(Append(a, v), q)
           /\ Prefix(q, Append(a, v)) =>
                Prefix(q, a) \/ q = Append(a, v)
<1> DEFINE c == Append(a, v)
<1>1. /\ c \in Seq(S) /\ Len(c) = Len(a) + 1
      /\ \A i \in 1 .. Len(a) : c[i] = a[i]
      /\ c[Len(a) + 1] = v
  BY AppendProperties
<1>2. Len(a) \in Nat /\ Len(q) \in Nat
  BY LenProperties
<1> HIDE DEF c
<1>3. Prefix(a, c)
  BY <1>1, <1>2 DEF Prefix
<1>4. ASSUME Prefix(c, q)
      PROVE  Prefix(a, q) /\ Len(a) < Len(q) /\ q[Len(a) + 1] = v
  <2>1. Len(c) <= Len(q) /\ \A i \in 1 .. Len(c) : c[i] = q[i]
    BY <1>4 DEF Prefix
  <2>2. Len(a) < Len(q)
    BY <1>1, <1>2, <2>1
  <2>3. \A i \in 1 .. Len(a) : a[i] = q[i]
    BY <1>1, <1>2, <2>1
  <2>4. q[Len(a) + 1] = v
    BY <1>1, <1>2, <2>1
  <2>5. QED  BY <1>2, <2>2, <2>3, <2>4 DEF Prefix
<1>5. ASSUME Prefix(a, q), Len(a) < Len(q), q[Len(a) + 1] = v
      PROVE  Prefix(c, q)
  BY <1>1, <1>2, <1>5 DEF Prefix
<1>6. ASSUME Prefix(q, c) PROVE Prefix(q, a) \/ q = c
  <2>1. CASE Len(q) <= Len(a)
    BY <1>1, <1>2, <1>6, <2>1 DEF Prefix
  <2>2. CASE Len(q) > Len(a)
    <3>1. Len(q) = Len(c)
      BY <1>1, <1>2, <1>6, <2>2 DEF Prefix
    <3>2. QED  BY <1>1, <1>6, <3>1, PrefixSameLength
  <2>3. QED  BY <1>2, <2>1, <2>2
<1>7. QED  BY <1>3, <1>4, <1>5, <1>6 DEF c

-----------------------------------------------------------------------------
(* What membership in Results means.                                       *)
LEMMA ResultElim ==
    ASSUME NEW j, j.k \in Nat, NEW q \in Results(j)
    PROVE  /\ q \in Seq(Node(j)) /\ Len(q) \in 2 .. j.k + 1
           /\ IsResult(j, q)
<1>1. PICK n \in 2 .. j.k + 1 : q \in [1 .. n -> Node(j)] /\ IsResult(j, q)
  BY DEF Results
<1>2. n \in Nat
  BY <1>1
<1>3. q = [i \in 1 .. n |-> q[i]] /\ \A i \in 1 .. n : q[i] \in Node(j)
  BY <1>1
<1>4. q \in Seq(Node(j))
  BY <1>2, <1>3, IsASeq
<1>5. Len(q) = n
  BY <1>1, <1>2, <1>4, LenProperties
<1>6. QED  BY <1>1, <1>4, <1>5

LEMMA ResultIntro ==
    ASSUME NEW j, j.k \in Nat, NEW q \in Seq(Node(j)),
           Len(q) \in 2 .. j.k + 1, IsResult(j, q)
    PROVE  q \in Results(j)
<1>1. q \in [1 .. Len(q) -> Node(j)]
  BY LenProperties
<1>2. q \in { r \in [1 .. Len(q) -> Node(j)] : IsResult(j, r) }
  BY <1>1
<1>3. QED  BY <1>2 DEF Results

(* A viable path still to be expanded is shorter than k, or a root.        *)
LEMMA OpenIsShort ==
    ASSUME NEW j, JobOK(j), NEW p, Viable(j, p), ~ Closing(j, p)
    PROVE  /\ p \in Seq(Node(j)) /\ Len(p) \in Nat /\ Len(p) >= 1
           /\ End(p) \in Node(j) /\ End(p) # j.dst
           /\ j.k \in Nat /\ j.k <= 8 /\ j.k >= 1
           /\ Len(p) = 1 \/ Len(p) < j.k
<1>1. p \in Seq(Node(j)) /\ Len(p) >= 1
  BY DEF Viable
<1>2. Len(p) \in Nat
  BY <1>1, LenProperties
<1>3. j.k \in 1 .. 8
  BY DEF JobOK, GraphOK, MaxK
<1>4. End(p) \in Node(j)
  BY <1>1, <1>2, ElementOfSeq DEF End
<1>5. End(p) # j.dst /\ ~ (Len(p) >= 2 /\ Len(p) = j.k)
  BY DEF Closing
<1>6. Len(p) = 1 \/ Len(p) <= j.k
  BY <1>5 DEF Viable
<1>7. Len(p) = 1 \/ Len(p) < j.k
  <2>1. \A n, k \in Nat :
          n >= 1 /\ ~ (n >= 2 /\ n = k) /\ (n = 1 \/ n <= k)
            => n = 1 \/ n < k
    OBVIOUS
  <2>2. j.k \in Nat
    BY <1>3
  <2>3. QED  BY <1>1, <1>2, <1>5, <1>6, <2>1, <2>2, Zenon
<1>8. QED  BY <1>1, <1>2, <1>3, <1>4, <1>5, <1>7

(* The 4-bit sum of feed_stream_data does not wrap on a path that is still *)
(* to be expanded.                                                         *)
LEMMA AdmitsExact ==
    ASSUME NEW j, JobOK(j), NEW p, Viable(j, p), ~ Closing(j, p),
           NEW v \in Nbrs(j, End(p))
    PROVE  /\ v \in Node(j) /\ j.sdt[v] \in Nat /\ Len(p) \in Nat
           /\ Admits(j, p, v) <=> Len(p) + j.sdt[v] <= j.k
<1>1. /\ Len(p) \in Nat /\ Len(p) >= 1
      /\ Len(p) = 1 \/ Len(p) < j.k
      /\ j.k \in Nat /\ j.k <= 8 /\ j.k >= 1
  BY OpenIsShort
<1>2. End(p) \in Node(j)
  BY OpenIsShort
<1>3. j.adj[End(p)] \in Seq(Node(j))
  BY <1>2 DEF JobOK, GraphOK
<1>4. v \in Node(j)
  BY <1>3, RangeOfSeq DEF Nbrs
<1>5. j.sdt[v] \in Nat /\ j.sdt[v] <= j.k
  <2>1. j.sdt[v] \in Nat
    BY <1>4 DEF JobOK, SdtOK
  <2>2. j.sdt[v] <= j.k
    BY <1>2 DEF JobOK, SdtOK
  <2>3. QED  BY <2>1, <2>2
<1>6. Len(p) - 1 + j.sdt[v] \in 0 .. 15
  <2>1. \A n, k, s \in Nat :
          n >= 1 /\ (n = 1 \/ n < k) /\ k <= 8 /\ k >= 1 /\ s <= k
            => n - 1 + s \in 0 .. 15
    OBVIOUS
  <2>2. QED  BY <1>1, <1>5, <2>1, Zenon
<1>7. (Len(p) - 1 + j.sdt[v]) % 16 = Len(p) - 1 + j.sdt[v]
  BY <1>6
<1>8. Admits(j, p, v) <=> Len(p) - 1 + j.sdt[v] < j.k
  BY <1>7 DEF Admits, Layer, LayerMod
<1>9. QED  BY <1>1, <1>4, <1>5, <1>8

(* A result that continues a path to be expanded continues a child of it.  *)
LEMMA ChildCovers ==
    ASSUME NEW j, JobOK(j), NEW p, Viable(j, p), ~ Closing(j, p),
           NEW q \in Results(j), Prefix(p, q)
    PROVE  \E c \in Children(j, p) : Prefix(c, q)
<1> DEFINE n == Len(p)
           v == q[n + 1]
<1>1. /\ p \in Seq(Node(j)) /\ n \in Nat /\ n >= 1
      /\ End(p) # j.dst
      /\ j.k \in Nat
  BY LenProperties DEF Viable, Closing, JobOK, GraphOK
<1>2. /\ q \in Seq(Node(j)) /\ Len(q) \in 2 .. j.k + 1
      /\ IsWalk(j, q) /\ Simple(q) /\ q[Len(q)] = j.dst
  BY <1>1, ResultElim DEF IsResult, End
<1>3. n <= Len(q) /\ \A i \in 1 .. n : p[i] = q[i]
  BY DEF Prefix
<1>4. n < Len(q)
  BY <1>1, <1>2, <1>3 DEF End
<1>5. v \in Nbrs(j, End(p))
  <2>1. n \in 1 .. Len(q) - 1
    BY <1>1, <1>2, <1>4
  <2>2. q[n + 1] \in Nbrs(j, q[n])
    BY <1>2, <2>1 DEF IsWalk
  <2>3. q[n] = End(p)
    BY <1>1, <1>3 DEF End
  <2>4. QED  BY <2>2, <2>3
<1>6. NotVisited(p, v)
  <2>1. SUFFICES ASSUME NEW i \in 1 .. n, p[i] = v PROVE FALSE
    BY DEF NotVisited
  <2>2. q[i] = q[n + 1] /\ i \in 1 .. Len(q) /\ n + 1 \in 1 .. Len(q)
    BY <1>1, <1>2, <1>3, <1>4, <2>1
  <2>3. i = n + 1
    BY <1>2, <2>2 DEF Simple
  <2>4. QED  BY <1>1, <2>3
<1>7. Admits(j, p, v)
  <2>1. n + 1 \in 2 .. Len(q)
    BY <1>1, <1>2, <1>4
  <2>2. j.sdt[v] + (n + 1) <= Len(q)
    BY <2>1 DEF JobOK, SdtOK
  <2>3. n + j.sdt[v] <= j.k
    <3>1. j.sdt[v] \in Nat
      BY <1>5, AdmitsExact
    <3>2. QED  BY <1>1, <1>2, <2>2, <3>1
  <2>4. QED  BY <1>5, <2>3, AdmitsExact
<1>8. Append(p, v) \in Children(j, p)
  BY <1>5, <1>6, <1>7 DEF Children
<1>9. Prefix(Append(p, v), q)
  <2>1. v \in Node(j)
    BY <1>5, AdmitsExact
  <2>2. QED  BY <1>1, <1>2, <1>4, <2>1, AppendPrefix
<1>10. QED  BY <1>8, <1>9

(* Children of viable paths are viable.                                    *)
LEMMA ChildViable ==
    ASSUME NEW j, JobOK(j), NEW p, Viable(j, p), ~ Closing(j, p),
           NEW c \in Children(j, p)
    PROVE  /\ Viable(j, c)
           /\ \E v \in Node(j) : c = Append(p, v)
<1>1. PICK v \in Nbrs(j, End(p)) :
        Admits(j, p, v) /\ NotVisited(p, v) /\ c = Append(p, v)
  BY DEF Children
<1>2. /\ v \in Node(j) /\ j.sdt[v] \in Nat /\ Len(p) \in Nat
      /\ Len(p) + j.sdt[v] <= j.k
  BY <1>1, AdmitsExact
<1>3. /\ p \in Seq(Node(j)) /\ Len(p) >= 1
      /\ IsWalk(j, p) /\ Simple(p)
      /\ \A i \in 1 .. Len(p) - 1 : p[i] # j.dst
      /\ p[Len(p)] # j.dst
      /\ Len(p) = 1 \/ Len(p) < j.k
      /\ j.k \in Nat
  <2>1. /\ p \in Seq(Node(j)) /\ Len(p) >= 1
        /\ IsWalk(j, p) /\ Simple(p)
        /\ \A i \in 1 .. Len(p) - 1 : p[i] # j.dst
    BY DEF Viable
  <2>2. QED  BY <2>1, OpenIsShort DEF End
<1>4. /\ c \in Seq(Node(j)) /\ Len(c) = Len(p) + 1
      /\ \A i \in 1 .. Len(p) : c[i] = p[i]
      /\ c[Len(p) + 1] = v
  BY <1>1, <1>2, <1>3, AppendProperties
<1>5. IsWalk(j, c)
  <2>1. SUFFICES ASSUME NEW i \in 1 .. Len(p)
                 PROVE  c[i + 1] \in Nbrs(j, c[i])
    BY <1>2, <1>4 DEF IsWalk
  <2>2. CASE i = Len(p)
    BY <1>1, <1>2, <1>3, <1>4, <2>1, <2>2 DEF End
  <2>3. CASE i # Len(p)
    <3>1. i \in 1 .. Len(p) - 1 /\ i + 1 \in 1 .. Len(p)
      BY <1>2, <2>1, <2>3
    <3>2. p[i + 1] \in Nbrs(j, p[i])
      BY <1>3, <3>1 DEF IsWalk
    <3>3. QED  BY <1>4, <2>1, <3>1, <3>2
  <2>4. QED  BY <2>2, <2>3
<1>6. Simple(c)
  <2>1. SUFFICES ASSUME NEW a \in 1 .. Len(p) + 1, NEW b \in 1 .. Len(p) + 1,
                        c[a] = c[b]
                 PROVE  a = b
    BY <1>4 DEF Simple
  <2>2. \A i \in 1 .. Len(p) : c[i] # v
    BY <1>1, <1>4 DEF NotVisited
  <2>3. CASE a <= Len(p) /\ b <= Len(p)
    <3>1. a \in 1 .. Len(p) /\ b \in 1 .. Len(p)
      BY <1>2, <2>1, <2>3
    <3>2. p[a] = p[b]
      BY <1>4, <2>1, <3>1
    <3>3. QED  BY <1>3, <3>1, <3>2 DEF Simple
  <2>4. CASE a = Len(p) + 1 \/ b = Len(p) + 1
    BY <1>2, <1>4, <2>1, <2>2, <2>4
  <2>5. QED  BY <1>2, <2>1, <2>3, <2>4
<1>7. \A i \in 1 .. Len(c) - 1 : c[i] # j.dst
  <2>1. \A i \in 1 .. Len(p) : p[i] # j.dst
    BY <1>2, <1>3
  <2>2. QED  BY <1>2, <1>4, <2>1
<1>8. \E i \in 1 .. Len(j.tasks) : Prefix(j.tasks[i], c)
  <2>1. PICK i \in 1 .. Len(j.tasks) : Prefix(j.tasks[i], p)
    BY DEF Viable
  <2>2. j.tasks[i] \in Seq(Node(j))
    BY DEF JobOK, TasksOK, TaskOK
  <2>3. Len(j.tasks[i]) \in Nat
    BY <2>2, LenProperties
  <2>4. Prefix(j.tasks[i], c)
    BY <1>2, <1>4, <2>1, <2>3 DEF Prefix
  <2>5. QED  BY <2>4
<1>9. End(c) = v
  BY <1>4 DEF End
<1>10. Len(c) <= j.k \/ End(c) = j.dst
  <2>1. CASE j.sdt[v] = 0
    BY <1>2, <1>9, <2>1 DEF JobOK, SdtOK
  <2>2. CASE j.sdt[v] # 0
    BY <1>2, <1>3, <1>4, <2>2
  <2>3. QED  BY <2>1, <2>2
<1>11. Len(c) + j.sdt[End(c)] <= j.k + 1
  BY <1>2, <1>3, <1>4, <1>9
<1>12. Len(c) >= 1
  BY <1>2, <1>4
<1>13. Viable(j, c)
  BY <1>4, <1>5, <1>6, <1>7, <1>8, <1>10, <1>11, <1>12 DEF Viable
<1>14. QED  BY <1>1, <1>2, <1>13

(* A path that closes stands for exactly one result.                       *)
LEMMA ClosingOne ==
    ASSUME NEW j, JobOK(j), NEW p, Viable(j, p), Closing(j, p)
    PROVE  \E q \in Results(j) :
             /\ Prefix(p, q)
             /\ \A r \in Results(j) : Prefix(p, r) => r = q
<1>1. /\ p \in Seq(Node(j)) /\ Len(p) \in Nat /\ Len(p) >= 1
      /\ IsWalk(j, p) /\ Simple(p)
      /\ \A i \in 1 .. Len(p) - 1 : p[i] # j.dst
      /\ Len(p) + j.sdt[End(p)] <= j.k + 1
      /\ j.k \in Nat /\ j.k >= 1
  BY LenProperties DEF Viable, JobOK, GraphOK
<1>2. End(p) = p[Len(p)] /\ End(p) \in Node(j) /\ j.sdt[End(p)] \in Nat
  <2>1. End(p) \in Node(j)
    BY <1>1, ElementOfSeq DEF End
  <2>2. QED  BY <2>1 DEF End, JobOK, SdtOK
<1>3. PICK t \in 1 .. Len(j.tasks) : Prefix(j.tasks[t], p)
  BY DEF Viable
<1>4. TaskOK(j, j.tasks[t])
  BY DEF JobOK, TasksOK
<1>5. /\ j.tasks[t] \in Seq(Node(j)) /\ Len(j.tasks[t]) \in Nat
      /\ \A i \in 1 .. Len(j.tasks[t]) : j.tasks[t][i] # j.dst
      /\ Len(j.tasks[t]) # 0
  <2>1. j.tasks[t] \in Seq(Node(j))
    BY <1>4 DEF TaskOK
  <2>2. Len(j.tasks[t]) \in Nat
    BY <2>1, LenProperties
  <2>3. \A n \in Nat : (n = 1 \/ n >= 1) => n # 0
    OBVIOUS
  <2>4. Len(j.tasks[t]) = 1 \/ Len(j.tasks[t]) >= 1
    BY <1>4 DEF TaskOK
  <2>5. Len(j.tasks[t]) # 0
    BY <2>2, <2>3, <2>4, Zenon
  <2>6. QED  BY <1>4, <2>1, <2>2, <2>5 DEF TaskOK
<1>6. CASE End(p) = j.dst
  <2>1. Len(p) # Len(j.tasks[t]) /\ Len(j.tasks[t]) <= Len(p)
    <3>1. Len(j.tasks[t]) <= Len(p)
      BY <1>3 DEF Prefix
    <3>2. ASSUME Len(p) = Len(j.tasks[t]) PROVE FALSE
      <4>1. Len(p) \in 1 .. Len(j.tasks[t])
        BY <1>1, <3>2
      <4>2. j.tasks[t][Len(p)] = p[Len(p)]
        BY <1>3, <4>1 DEF Prefix
      <4>3. QED  BY <1>2, <1>5, <1>6, <4>1, <4>2
    <3>3. QED  BY <3>1, <3>2
  <2>2. Len(p) \in 2 .. j.k + 1
    <3>1. \A n, l, d, k \in Nat :
            l # 0 /\ n # l /\ l <= n /\ n + d <= k + 1 => n \in 2 .. k + 1
      OBVIOUS
    <3>2. QED  BY <1>1, <1>2, <1>5, <2>1, <3>1, Zenon
  <2>3. IsResult(j, p)
    BY <1>1, <1>3, <1>6 DEF IsResult
  <2>4. p \in Results(j)
    BY <1>1, <2>2, <2>3, ResultIntro
  <2>5. Prefix(p, p)
    BY <1>1 DEF Prefix
  <2>6. ASSUME NEW r \in Results(j), Prefix(p, r) PROVE r = p
    <3>1. /\ r \in Seq(Node(j)) /\ Len(r) \in 2 .. j.k + 1
          /\ Simple(r) /\ r[Len(r)] = j.dst
      BY <1>1, ResultElim DEF IsResult, End
    <3>2. Len(p) <= Len(r) /\ r[Len(p)] = j.dst
      <4>1. Len(p) <= Len(r) /\ \A i \in 1 .. Len(p) : p[i] = r[i]
        BY <2>6 DEF Prefix
      <4>2. Len(p) \in 1 .. Len(p)
        BY <1>1
      <4>3. QED  BY <1>2, <1>6, <4>1, <4>2
    <3>3. Len(p) = Len(r)
      <4>1. Len(p) \in 1 .. Len(r) /\ Len(r) \in 1 .. Len(r)
        BY <1>1, <3>1, <3>2
      <4>2. QED  BY <3>1, <3>2, <4>1 DEF Simple
    <3>4. QED  BY <1>1, <2>6, <3>1, <3>3, PrefixSameLength
  <2>7. QED  BY <2>4, <2>5, <2>6
<1>7. CASE End(p) # j.dst
  <2> DEFINE q == Append(p, j.dst)
  <2>1. Len(p) = j.k /\ Len(p) >= 2
    BY <1>7 DEF Closing
  <2>2. j.dst \in Nbrs(j, End(p)) /\ j.dst \in Node(j)
    <3>1. j.sdt[End(p)] = 0 \/ j.sdt[End(p)] = 1
      BY <1>1, <1>2, <2>1
    <3>2. QED  BY <1>2, <1>7, <3>1 DEF JobOK, SdtOK, GraphOK
  <2>3. /\ q \in Seq(Node(j)) /\ Len(q) = Len(p) + 1
        /\ \A i \in 1 .. Len(p) : q[i] = p[i]
        /\ q[Len(p) + 1] = j.dst
    BY <1>1, <2>2, AppendProperties
  <2> HIDE DEF q
  <2>4. \A i \in 1 .. Len(p) : p[i] # j.dst
    BY <1>1, <1>2, <1>7
  <2>5. IsWalk(j, q)
    <3>1. SUFFICES ASSUME NEW i \in 1 .. Len(p)
                   PROVE  q[i + 1] \in Nbrs(j, q[i])
      BY <1>1, <2>3 DEF IsWalk
    <3>2. CASE i = Len(p)
      BY <1>1, <1>2, <2>2, <2>3, <3>1, <3>2
    <3>3. CASE i # Len(p)
      <4>1. i \in 1 .. Len(p) - 1 /\ i + 1 \in 1 .. Len(p)
        BY <1>1, <3>1, <3>3
      <4>2. p[i + 1] \in Nbrs(j, p[i])
        BY <1>1, <4>1 DEF IsWalk
      <4>3. QED  BY <2>3, <3>1, <4>1, <4>2
    <3>4. QED  BY <3>2, <3>3
  <2>6. Simple(q)
    <3>1. SUFFICES ASSUME NEW a \in 1 .. Len(p) + 1,
                          NEW b \in 1 .. Len(p) + 1, q[a] = q[b]
                   PROVE  a = b
      BY <2>3 DEF Simple
    <3>2. CASE a <= Len(p) /\ b <= Len(p)
      <4>1. a \in 1 .. Len(p) /\ b \in 1 .. Len(p)
        BY <1>1, <3>1, <3>2
      <4>2. p[a] = p[b]
        BY <2>3, <3>1, <4>1
      <4>3. QED  BY <1>1, <4>1, <4>2 DEF Simple
    <3>3. CASE a = Len(p) + 1 \/ b = Len(p) + 1
      BY <1>1, <2>3, <2>4, <3>1, <3>3
    <3>4. QED  BY <1>1, <3>1, <3>2, <3>3
  <2>7. Prefix(p, q)
    BY <1>1, <2>3 DEF Prefix
  <2>8. Prefix(j.tasks[t], q)
    <3>1. /\ Len(j.tasks[t]) <= Len(p)
          /\ \A i \in 1 .. Len(j.tasks[t]) : j.tasks[t][i] = p[i]
      BY <1>3 DEF Prefix
    <3>2. Len(j.tasks[t]) <= Len(q)
      BY <1>1, <1>5, <2>3, <3>1
    <3>3. \A i \in 1 .. Len(j.tasks[t]) : j.tasks[t][i] = q[i]
      <4>1. SUFFICES ASSUME NEW i \in 1 .. Len(j.tasks[t])
                     PROVE  j.tasks[t][i] = q[i]
        OBVIOUS
      <4>2. i \in 1 .. Len(p)
        BY <1>1, <1>5, <3>1, <4>1
      <4>3. QED  BY <2>3, <3>1, <4>1, <4>2
    <3>4. QED  BY <3>2, <3>3 DEF Prefix
  <2>9. q \in Results(j)
    <3>1. IsResult(j, q)
      BY <2>3, <2>5, <2>6, <2>8 DEF IsResult, End
    <3>2. Len(q) \in 2 .. j.k + 1
      BY <1>1, <2>1, <2>3
    <3>3. QED  BY <1>1, <2>3, <3>1, <3>2, ResultIntro
  <2>10. ASSUME NEW r \in Results(j), Prefix(p, r) PROVE r = q
    <3>1. /\ r \in Seq(Node(j)) /\ Len(r) \in 2 .. j.k + 1
          /\ r[Len(r)] = j.dst
      BY <1>1, ResultElim DEF IsResult, End
    <3>2. Len(p) <= Len(r) /\ \A i \in 1 .. Len(p) : p[i] = r[i]
      BY <2>10 DEF Prefix
    <3>3. Len(r) = Len(p) + 1
      BY <1>1, <2>1, <2>4, <3>1, <3>2
    <3>4. \A i \in 1 .. Len(q) : q[i] = r[i]
      BY <1>1, <2>3, <3>1, <3>2, <3>3, SMTT(30)
    <3>5. QED  BY <2>3, <3>1, <3>3, <3>4, SeqEqual
  <2>11. QED  BY <2>7, <2>9, <2>10
<1>8. QED  BY <1>6, <1>7

-----------------------------------------------------------------------------
(* Pools of paths: what they stand for, and when they stand for it once.   *)
ViableAll(j, P)  == \A p \in P : Viable(j, p)
AntiChain(P)     == \A p, q \in P : Prefix(p, q) => p = q
CoveredBy(j, P)  == { q \in Results(j) : \E p \in P : Prefix(p, q) }
Expanded(j, P, S) == (P \ S) \cup UNION { Children(j, p) : p \in S }

(* Two prefixes of one path that do not continue one another are equal.    *)
LEMMA SharedResult ==
    ASSUME NEW j, NEW P, ViableAll(j, P), AntiChain(P),
           NEW a \in P, NEW b \in P,
           NEW q \in Seq(Node(j)), Prefix(a, q), Prefix(b, q)
    PROVE  a = b
<1>1. a \in Seq(Node(j)) /\ b \in Seq(Node(j))
  BY DEF ViableAll, Viable
<1>2. Len(a) \in Nat /\ Len(b) \in Nat
  BY <1>1, LenProperties
<1>3. Prefix(a, b) \/ Prefix(b, a)
  <2>1. CASE Len(a) <= Len(b)
    BY <1>1, <2>1, PrefixComparable
  <2>2. CASE Len(b) <= Len(a)
    BY <1>1, <2>2, PrefixComparable
  <2>3. QED  BY <1>2, <2>1, <2>2
<1>4. QED  BY <1>3 DEF AntiChain

(* A prefix of a path of the pool that is itself in the pool.              *)
LEMMA ExpandAntiChain ==
    ASSUME NEW j, JobOK(j), NEW P, ViableAll(j, P), AntiChain(P),
           NEW S \in SUBSET P, \A p \in S : ~ Closing(j, p)
    PROVE  AntiChain(Expanded(j, P, S))
<1>1. SUFFICES ASSUME NEW c \in Expanded(j, P, S),
                      NEW d \in Expanded(j, P, S), Prefix(c, d)
               PROVE  c = d
  BY DEF AntiChain
<1>2. \A x \in P : x \in Seq(Node(j)) /\ Viable(j, x)
  BY DEF ViableAll, Viable
<1>3. ASSUME NEW p \in S, NEW x \in Children(j, p)
      PROVE  \E v \in Node(j) : x = Append(p, v)
  BY <1>2, ChildViable
<1>4. CASE c \in P \ S /\ d \in P \ S
  BY <1>1, <1>4 DEF AntiChain
<1>5. ASSUME NEW p \in S, c \in Children(j, p), d \in P \ S
      PROVE  FALSE
  <2>1. PICK v \in Node(j) : c = Append(p, v)
    BY <1>3, <1>5
  <2>2. Prefix(p, d)
    BY <1>1, <1>2, <1>5, <2>1, AppendPrefix
  <2>3. QED  BY <1>5, <2>2 DEF AntiChain
<1>6. ASSUME NEW p \in S, d \in Children(j, p), c \in P \ S
      PROVE  c = d
  <2>1. PICK v \in Node(j) : d = Append(p, v)
    BY <1>3, <1>6
  <2>2. Prefix(c, p) \/ c = Append(p, v)
    BY <1>1, <1>2, <1>6, <2>1, AppendPrefix
  <2>3. ~ Prefix(c, p)
    BY <1>6 DEF AntiChain
  <2>4. QED  BY <2>1, <2>2, <2>3
<1>7. ASSUME NEW p \in S, NEW r \in S,
             c \in Children(j, p), d \in Children(j, r)
      PROVE  c = d
  <2>1. PICK v \in Node(j) : c = Append(p, v)
    BY <1>3, <1>7
  <2>2. PICK w \in Node(j) : d = Append(r, w)
    BY <1>3, <1>7
  <2>3. p \in Seq(Node(j)) /\ r \in Seq(Node(j)) /\ c \in Seq(Node(j))
    BY <1>2, <2>1, AppendProperties
  <2>4. d \in Seq(Node(j))
    BY <2>2, <2>3, AppendProperties
  <2>5. Prefix(p, d) /\ Prefix(r, d)
    <3>1. Prefix(p, d)
      BY <1>1, <2>1, <2>3, <2>4, AppendPrefix
    <3>2. Prefix(r, d)
      BY <2>2, <2>3, <2>4, AppendPrefix
    <3>3. QED  BY <3>1, <3>2
  <2>6. p = r
    BY <2>4, <2>5, SharedResult
  <2>7. Len(c) = Len(p) + 1 /\ Len(d) = Len(p) + 1
    BY <2>1, <2>2, <2>3, <2>6, AppendProperties
  <2>8. QED  BY <1>1, <2>3, <2>4, <2>7, PrefixSameLength
<1>8. QED  BY <1>4, <1>5, <1>6, <1>7 DEF Expanded

(* Expanding paths loses no result and adds none.                          *)
LEMMA ExpandCovers ==
    ASSUME NEW j, JobOK(j), NEW P, ViableAll(j, P),
           NEW S \in SUBSET P, \A p \in S : ~ Closing(j, p)
    PROVE  /\ CoveredBy(j, Expanded(j, P, S)) = CoveredBy(j, P)
           /\ ViableAll(j, Expanded(j, P, S))
<1>1. \A p \in P : Viable(j, p) /\ p \in Seq(Node(j))
  BY DEF ViableAll, Viable
<1>2. j.k \in Nat
  BY DEF JobOK, GraphOK
<1>3. ASSUME NEW q \in CoveredBy(j, P)
      PROVE  q \in CoveredBy(j, Expanded(j, P, S))
  <2>1. PICK p \in P : q \in Results(j) /\ Prefix(p, q)
    BY <1>3 DEF CoveredBy
  <2>2. CASE p \in S
    <3>1. PICK c \in Children(j, p) : Prefix(c, q)
      BY <1>1, <2>1, <2>2, ChildCovers
    <3>2. QED  BY <2>1, <2>2, <3>1 DEF CoveredBy, Expanded
  <2>3. CASE p \notin S
    BY <2>1, <2>3 DEF CoveredBy, Expanded
  <2>4. QED  BY <2>2, <2>3
<1>4. ASSUME NEW q \in CoveredBy(j, Expanded(j, P, S))
      PROVE  q \in CoveredBy(j, P)
  <2>1. PICK c \in Expanded(j, P, S) : q \in Results(j) /\ Prefix(c, q)
    BY <1>4 DEF CoveredBy
  <2>2. CASE c \in P
    BY <2>1, <2>2 DEF CoveredBy
  <2>3. CASE c \notin P
    <3>1. PICK p \in S : c \in Children(j, p)
      BY <2>3 DEF Expanded
    <3>2. PICK v \in Node(j) : c = Append(p, v)
      BY <1>1, <3>1, ChildViable
    <3>3. q \in Seq(Node(j))
      BY <1>2, <2>1, ResultElim
    <3>4. Prefix(p, q)
      BY <1>1, <2>1, <3>2, <3>3, AppendPrefix
    <3>5. QED  BY <2>1, <3>4 DEF CoveredBy
  <2>4. QED  BY <2>2, <2>3
<1>5. ViableAll(j, Expanded(j, P, S))
  BY <1>1, ChildViable DEF ViableAll, Expanded
<1>6. QED  BY <1>3, <1>4, <1>5

(* Dropping a path that closes drops exactly one result.                   *)
LEMMA EmitOne ==
    ASSUME NEW j, JobOK(j), NEW P, ViableAll(j, P), AntiChain(P),
           NEW p \in P, Closing(j, p)
    PROVE  \E q \in CoveredBy(j, P) :
             CoveredBy(j, P \ {p}) = CoveredBy(j, P) \ {q}
<1>1. Viable(j, p) /\ j.k \in Nat
  BY DEF ViableAll, JobOK, GraphOK
<1>2. PICK q \in Results(j) :
        /\ Prefix(p, q)
        /\ \A r \in Results(j) : Prefix(p, r) => r = q
  BY <1>1, ClosingOne
<1>3. q \in CoveredBy(j, P)
  BY <1>2 DEF CoveredBy
<1>4. q \in Seq(Node(j))
  BY <1>1, ResultElim
<1>5. \A r \in P : Prefix(r, q) => r = p
  BY <1>2, <1>4, SharedResult
<1>6. CoveredBy(j, P \ {p}) = CoveredBy(j, P) \ {q}
  BY <1>2, <1>5 DEF CoveredBy
<1>7. QED  BY <1>3, <1>6

(* The tasks of a job are viable, do not overlap and cover every result.   *)
LEMMA TasksCover ==
    ASSUME NEW j, JobOK(j)
    PROVE  /\ ViableAll(j, Range(j.tasks)) /\ AntiChain(Range(j.tasks))
           /\ CoveredBy(j, Range(j.tasks)) = Results(j)
<1>1. /\ j.tasks \in Seq(Seq(Node(j)))
      /\ DOMAIN j.tasks = 1 .. Len(j.tasks)
      /\ j.k \in Nat
  BY LenProperties DEF JobOK, GraphOK, TasksOK
<1>2. \A p \in Range(j.tasks) :
        \E i \in 1 .. Len(j.tasks) : p = j.tasks[i] /\ TaskOK(j, j.tasks[i])
  BY <1>1 DEF Range, JobOK, TasksOK
<1>3. ASSUME NEW p \in Range(j.tasks)
      PROVE  Viable(j, p)
  <2>1. PICK i \in 1 .. Len(j.tasks) : p = j.tasks[i] /\ TaskOK(j, p)
    BY <1>2
  <2>2. /\ p \in Seq(Node(j)) /\ Len(p) \in Nat
        /\ IsWalk(j, p) /\ Simple(p)
        /\ \A a \in 1 .. Len(p) : p[a] # j.dst
    BY <2>1, LenProperties DEF TaskOK
  <2>3. Len(p) = 1 \/ (Len(p) >= 1 /\ Len(p) < j.k)
    BY <2>1 DEF TaskOK
  <2>4. Len(p) >= 1 /\ (Len(p) = 1 \/ Len(p) <= j.k) /\
        ~ (Len(p) >= 2 /\ Len(p) = j.k)
    <3>1. \A n, k \in Nat :
            n = 1 \/ (n >= 1 /\ n < k) =>
              n >= 1 /\ (n = 1 \/ n <= k) /\ ~ (n >= 2 /\ n = k)
      OBVIOUS
    <3>2. QED  BY <1>1, <2>2, <2>3, <3>1, Zenon
  <2>5. \A a \in 1 .. Len(p) - 1 : p[a] # j.dst
    BY <2>2
  <2>6. ~ Closing(j, p)
    <3>1. Len(p) \in 1 .. Len(p)
      BY <2>2, <2>4
    <3>2. QED  BY <2>2, <2>4, <3>1 DEF Closing, End
  <2>7. Prefix(j.tasks[i], p)
    BY <2>1, <2>2 DEF Prefix
  <2>8. QED  BY <2>1, <2>2, <2>4, <2>5, <2>6, <2>7 DEF Viable
<1>4. AntiChain(Range(j.tasks))
  <2>1. SUFFICES ASSUME NEW p \in Range(j.tasks), NEW q \in Range(j.tasks),
                        Prefix(p, q)
                 PROVE  p = q
    BY DEF AntiChain
  <2>2. PICK a \in 1 .. Len(j.tasks), b \in 1 .. Len(j.tasks) :
          p = j.tasks[a] /\ q = j.tasks[b]
    BY <1>2
  <2>3. QED  BY <2>1, <2>2 DEF JobOK, TasksOK
<1>5. CoveredBy(j, Range(j.tasks)) = Results(j)
  <2>1. SUFFICES ASSUME NEW q \in Results(j)
                 PROVE  \E p \in Range(j.tasks) : Prefix(p, q)
    BY DEF CoveredBy
  <2>2. PICK i \in 1 .. Len(j.tasks) : Prefix(j.tasks[i], q)
    BY <1>1, ResultElim DEF IsResult
  <2>3. j.tasks[i] \in Range(j.tasks)
    BY <1>1 DEF Range
  <2>4. QED  BY <2>2, <2>3
<1>6. QED  BY <1>3, <1>4, <1>5 DEF ViableAll

-----------------------------------------------------------------------------
(* There are finitely many paths of bounded length: each is given by the   *)
(* set of its positions with their vertices.                               *)
LEMMA PathsFinite ==
    ASSUME NEW S, IsFiniteSet(S), NEW m \in Nat
    PROVE  IsFiniteSet(UNION { [1 .. n -> S] : n \in 1 .. m })
<1> DEFINE D == UNION { [1 .. n -> S] : n \in 1 .. m }
           Cells == SUBSET ((1 .. m) \X S)
           cells == [p \in D |-> { <<i, p[i]>> : i \in DOMAIN p }]
<1>1. IsFiniteSet(Cells)
  <2>1. IsFiniteSet(1 .. m)
    BY FS_Interval
  <2>2. QED  BY <2>1, FS_Product, FS_SUBSET
<1>2. \A p \in D : \E n \in 1 .. m : p \in [1 .. n -> S]
  OBVIOUS
<1>3. ASSUME NEW p \in D
      PROVE  /\ DOMAIN p \subseteq 1 .. m
             /\ p = [i \in DOMAIN p |-> p[i]]
             /\ \A i \in DOMAIN p : p[i] \in S
  <2>1. PICK n \in 1 .. m : p \in [1 .. n -> S]
    BY <1>2
  <2>2. DOMAIN p = 1 .. n
    BY <2>1
  <2>3. QED  BY <2>1, <2>2
<1> HIDE DEF D
<1>4. cells \in [D -> Cells]
  <2>1. ASSUME NEW p \in D PROVE { <<i, p[i]>> : i \in DOMAIN p } \in Cells
    BY <1>3
  <2>2. QED  BY <2>1
<1>5. ASSUME NEW p \in D, NEW q \in D, cells[p] = cells[q] PROVE p = q
  <2>1. \A i \in DOMAIN p : <<i, p[i]>> \in cells[q]
    BY <1>5
  <2>2. \A i \in DOMAIN q : <<i, q[i]>> \in cells[p]
    BY <1>5
  <2>3. \A i \in DOMAIN p : i \in DOMAIN q /\ p[i] = q[i]
    BY <2>1
  <2>4. \A i \in DOMAIN q : i \in DOMAIN p
    BY <2>2
  <2>5. DOMAIN p = DOMAIN q
    BY <2>3, <2>4
  <2>6. QED  BY <1>3, <2>3, <2>5
<1>6. cells \in Injection(D, Cells)
  BY <1>4, <1>5 DEF Injection, IsInjective
<1>7. IsFiniteSet(D)
  BY <1>1, <1>6, FS_Injection
<1>8. QED  BY <1>7 DEF D

LEMMA ResultsFinite ==
    ASSUME NEW j, JobOK(j) PROVE IsFiniteSet(Results(j))
<1>1. j.k \in Nat /\ IsFiniteSet(Node(j))
  BY DEF JobOK, GraphOK
<1>2. Results(j) \subseteq UNION { [1 .. n -> Node(j)] : n \in 1 .. j.k + 1 }
  <2>1. ASSUME NEW q \in Results(j)
        PROVE  q \in UNION { [1 .. n -> Node(j)] : n \in 1 .. j.k + 1 }
    <3>1. PICK n \in 2 .. j.k + 1 : q \in [1 .. n -> Node(j)]
      BY DEF Results
    <3>2. n \in 1 .. j.k + 1
      BY <1>1
    <3>3. QED  BY <3>1, <3>2
  <2>2. QED  BY <2>1
<1>3. IsFiniteSet(UNION { [1 .. n -> Node(j)] : n \in 1 .. j.k + 1 })
  BY <1>1, PathsFinite
<1>4. QED  BY <1>2, <1>3, FS_Subset

-----------------------------------------------------------------------------
(* Counted and covered results are all results, each once.                 *)
Accounts(j, P, n) ==
    /\ ViableAll(j, P) /\ AntiChain(P)
    /\ n \in Nat
    /\ n + Cardinality(CoveredBy(j, P)) = Cardinality(Results(j))

(* What a pool covers is finite.                                           *)
LEMMA CoveredFinite ==
    ASSUME NEW j, JobOK(j), NEW P
    PROVE  /\ IsFiniteSet(CoveredBy(j, P))
           /\ Cardinality(CoveredBy(j, P)) \in Nat
<1>1. IsFiniteSet(CoveredBy(j, P))
  BY ResultsFinite, FS_Subset DEF CoveredBy
<1>2. QED  BY <1>1, FS_CardinalityType

(* At the start the tasks account for the job.                             *)
LEMMA TasksAccount ==
    ASSUME NEW j, JobOK(j)
    PROVE  Accounts(j, Range(j.tasks), 0)
<1>1. Cardinality(Results(j)) \in Nat
  BY ResultsFinite, FS_CardinalityType
<1>2. QED  BY <1>1, TasksCover DEF Accounts

(* Expanding paths keeps the account.                                      *)
LEMMA ExpandAccounts ==
    ASSUME NEW j, JobOK(j), NEW P, NEW n, Accounts(j, P, n),
           NEW S \in SUBSET P, \A p \in S : ~ Closing(j, p)
    PROVE  Accounts(j, Expanded(j, P, S), n)
<1>1. ViableAll(j, P) /\ AntiChain(P)
  BY DEF Accounts
<1>2. AntiChain(Expanded(j, P, S))
  BY <1>1, ExpandAntiChain
<1>3. /\ ViableAll(j, Expanded(j, P, S))
      /\ CoveredBy(j, Expanded(j, P, S)) = CoveredBy(j, P)
  BY <1>1, ExpandCovers
<1>4. QED  BY <1>2, <1>3 DEF Accounts

(* So does counting a path that closes.                                    *)
LEMMA EmitAccounts ==
    ASSUME NEW j, JobOK(j), NEW P, NEW n, Accounts(j, P, n),
           NEW p \in P, Closing(j, p)
    PROVE  Accounts(j, P \ {p}, n + 1)
<1>1. ViableAll(j, P) /\ AntiChain(P)
  BY DEF Accounts
<1>2. PICK q \in CoveredBy(j, P) :
        CoveredBy(j, P \ {p}) = CoveredBy(j, P) \ {q}
  BY <1>1, EmitOne
<1>3. IsFiniteSet(CoveredBy(j, P)) /\ Cardinality(CoveredBy(j, P)) \in Nat
  BY CoveredFinite
<1>4. Cardinality(CoveredBy(j, P \ {p})) = Cardinality(CoveredBy(j, P)) - 1
  BY <1>2, <1>3, FS_RemoveElement
<1>5. ViableAll(j, P \ {p}) /\ AntiChain(P \ {p})
  BY <1>1 DEF ViableAll, AntiChain
<1>6. QED  BY <1>3, <1>4, <1>5 DEF Accounts

(* With no path left, every result is counted.                             *)
LEMMA EmptyAccount ==
    ASSUME NEW j, NEW n, Accounts(j, {}, n)
    PROVE  n = Cardinality(Results(j))
<1>1. CoveredBy(j, {}) = {}
  BY DEF CoveredBy
<1>2. Cardinality(CoveredBy(j, {})) = 0
  BY <1>1, FS_EmptySet
<1>3. QED  BY <1>2 DEF Accounts

(* The paths that may wait are those the host may hand over as tasks.      *)
LEMMA TaskIsOpen ==
    ASSUME NEW j, JobOK(j), NEW p, TaskOK(j, p)
    PROVE  ~ Closing(j, p)
<1>1. /\ p \in Seq(Node(j)) /\ Len(p) \in Nat
      /\ j.k \in Nat
      /\ \A a \in 1 .. Len(p) : p[a] # j.dst
      /\ Len(p) = 1 \/ (Len(p) >= 1 /\ Len(p) < j.k)
  BY LenProperties DEF TaskOK, JobOK, GraphOK
<1>2. Len(p) >= 1 /\ ~ (Len(p) >= 2 /\ Len(p) = j.k)
  <2>1. \A n, k \in Nat :
          n = 1 \/ (n >= 1 /\ n < k) => n >= 1 /\ ~ (n >= 2 /\ n = k)
    OBVIOUS
  <2>2. QED  BY <1>1, <2>1, Zenon
<1>3. Len(p) \in 1 .. Len(p)
  BY <1>1, <1>2
<1>4. QED  BY <1>1, <1>2, <1>3 DEF Closing, End

LEMMA OpenIsTask ==
    ASSUME NEW j, JobOK(j), NEW p, Viable(j, p), ~ Closing(j, p)
    PROVE  TaskOK(j, p)
<1>1. /\ p \in Seq(Node(j)) /\ Len(p) \in Nat /\ Len(p) >= 1
      /\ End(p) # j.dst
      /\ Len(p) = 1 \/ Len(p) < j.k
  BY OpenIsShort
<1>2. /\ IsWalk(j, p) /\ Simple(p)
      /\ \A i \in 1 .. Len(p) - 1 : p[i] # j.dst
  BY DEF Viable
<1>3. \A i \in 1 .. Len(p) : p[i] # j.dst
  BY <1>1, <1>2 DEF End
<1>4. Len(p) = 1 \/ (Len(p) >= 1 /\ Len(p) < j.k)
  BY <1>1, Zenon
<1>5. QED  BY <1>1, <1>2, <1>3, <1>4, Zenon DEF TaskOK
-----------------------------------------------------------------------------
(* The work of an engine.  What a pool P still stands for is the part of   *)
(* Expandable(j) that continues its paths.                                 *)
Work(j, P)       == { p \in Expandable(j) : \E q \in P : Prefix(q, p) }
SpawnedAll(j, P) == \A p \in P : Spawned(j, p)

(* The first n vertices of a path.                                         *)
LEMMA CutAt ==
    ASSUME NEW S, NEW p \in Seq(S), NEW n \in 1 .. Len(p)
    PROVE  /\ SubSeq(p, 1, n) \in Seq(S) /\ Len(SubSeq(p, 1, n)) = n
           /\ \A i \in 1 .. n : SubSeq(p, 1, n)[i] = p[i]
           /\ \A q \in Seq(S) : Prefix(q, p) /\ Len(q) = n => q = SubSeq(p, 1, n)
<1>1. Len(p) \in Nat /\ \A i \in 1 .. Len(p) : p[i] \in S
  BY RangeMember
<1>2. n \in Int /\ 1 \in Int /\ n >= 1 /\ \A i \in 1 .. n : p[i] \in S
  BY <1>1
<1> DEFINE c == SubSeq(p, 1, n)
<1>3. /\ c \in Seq(S) /\ Len(c) = n
      /\ \A i \in 1 .. n : c[i] = p[i]
  <2>1. /\ c \in Seq(S) /\ Len(c) = IF 1 <= n THEN n - 1 + 1 ELSE 0
        /\ \A i \in 1 .. n - 1 + 1 : c[i] = p[1 + i - 1]
    BY <1>2, SubSeqProperties
  <2> HIDE DEF c
  <2>2. \A i \in 1 .. n : 1 + i - 1 = i /\ i \in 1 .. n - 1 + 1
    BY <1>2
  <2>3. QED  BY <1>2, <2>1, <2>2
<1> HIDE DEF c
<1>4. ASSUME NEW q \in Seq(S), Prefix(q, p), Len(q) = n PROVE q = c
  <2>1. Prefix(q, c)
    BY <1>3, <1>4 DEF Prefix
  <2>2. QED  BY <1>3, <1>4, <2>1, PrefixSameLength
<1>5. QED  BY <1>3, <1>4 DEF c

LEMMA TaskSpawned ==
    ASSUME NEW j, JobOK(j), NEW t \in Range(j.tasks)
    PROVE  Spawned(j, t)
<1>1. PICK i \in 1 .. Len(j.tasks) : t = j.tasks[i]
  BY RangeMember DEF JobOK, TasksOK
<1>2. t \in Seq(Node(j)) /\ Len(t) \in Nat
  BY <1>1, LenProperties DEF JobOK, TasksOK, TaskOK
<1>3. Prefix(t, t)
  BY <1>2 DEF Prefix
<1>4. \A n \in Len(t) .. Len(t) - 1 : FALSE
  BY <1>2
<1>5. QED  BY <1>3, <1>4 DEF Spawned

LEMMA TaskLength ==
    ASSUME NEW j, JobOK(j), NEW t \in Range(j.tasks)
    PROVE  t \in Seq(Node(j)) /\ Len(t) \in Nat /\ Len(t) >= 1
<1>1. PICK i \in 1 .. Len(j.tasks) : t = j.tasks[i]
  BY RangeMember DEF JobOK, TasksOK
<1>2. TaskOK(j, t)
  BY <1>1 DEF JobOK, TasksOK
<1>3. t \in Seq(Node(j)) /\ Len(t) \in Nat
  BY <1>2, LenProperties DEF TaskOK
<1>4. Len(t) = 1 \/ Len(t) >= 1
  BY <1>2 DEF TaskOK
<1>5. \A n \in Nat : n = 1 \/ n >= 1 => n >= 1
  OBVIOUS
<1>6. QED  BY <1>3, <1>4, <1>5, Zenon

LEMMA ChildSpawned ==
    ASSUME NEW j, JobOK(j), NEW p \in Seq(Node(j)), Spawned(j, p),
           ~ Closing(j, p), NEW c \in Children(j, p), c \in Seq(Node(j))
    PROVE  Spawned(j, c)
<1>1. PICK v \in Nbrs(j, End(p)) : c = Append(p, v)
  BY DEF Children
<1>2. PICK t \in Range(j.tasks) :
        /\ Prefix(t, p)
        /\ \A n \in Len(t) .. Len(p) - 1 :
             /\ ~ Closing(j, SubSeq(p, 1, n))
             /\ SubSeq(p, 1, n + 1) \in Children(j, SubSeq(p, 1, n))
  BY DEF Spawned
<1>3. t \in Seq(Node(j)) /\ Len(t) \in Nat /\ Len(t) >= 1
  BY TaskLength
<1>4. /\ Len(p) \in Nat /\ Len(t) <= Len(p) /\ Len(c) = Len(p) + 1
      /\ \A i \in 1 .. Len(p) : c[i] = p[i]
  <2>1. /\ Len(p) \in Nat /\ Len(c) = Len(p) + 1
        /\ \A i \in 1 .. Len(p) : c[i] = p[i]
    BY <1>1, LenProperties, AppendProperties
  <2>2. QED  BY <1>2, <2>1 DEF Prefix
<1>5. Prefix(t, c)
  BY <1>2, <1>3, <1>4 DEF Prefix
<1>6. ASSUME NEW n \in 1 .. Len(p) PROVE SubSeq(c, 1, n) = SubSeq(p, 1, n)
  <2>1. n \in 1 .. Len(c) /\ n \in Nat
    BY <1>4
  <2>2. /\ SubSeq(p, 1, n) \in Seq(Node(j)) /\ Len(SubSeq(p, 1, n)) = n
        /\ \A i \in 1 .. n : SubSeq(p, 1, n)[i] = p[i]
    BY CutAt
  <2>3. Prefix(SubSeq(p, 1, n), c)
    BY <1>4, <2>1, <2>2 DEF Prefix
  <2>4. QED  BY <2>1, <2>2, <2>3, CutAt
<1>7. SubSeq(p, 1, Len(p)) = p /\ SubSeq(c, 1, Len(c)) = c
  BY SubSeqFull
<1>8. ASSUME NEW n \in Len(t) .. Len(c) - 1
      PROVE  /\ ~ Closing(j, SubSeq(c, 1, n))
             /\ SubSeq(c, 1, n + 1) \in Children(j, SubSeq(c, 1, n))
  <2>1. n \in 1 .. Len(p)
    BY <1>3, <1>4
  <2>2. SubSeq(c, 1, n) = SubSeq(p, 1, n)
    BY <1>6, <2>1
  <2>3. CASE n = Len(p)
    BY <1>4, <1>7, <2>2, <2>3
  <2>4. CASE n # Len(p)
    <3>1. n \in Len(t) .. Len(p) - 1 /\ n + 1 \in 1 .. Len(p)
      BY <1>3, <1>4, <2>4
    <3>2. SubSeq(c, 1, n + 1) = SubSeq(p, 1, n + 1)
      BY <1>6, <3>1
    <3>3. QED  BY <1>2, <2>2, <3>1, <3>2
  <2>5. QED  BY <2>3, <2>4
<1>9. QED  BY <1>5, <1>8 DEF Spawned

(* A spawned path passes through every shorter one it continues.           *)
LEMMA SpawnedThrough ==
    ASSUME NEW j, JobOK(j), NEW p \in Seq(Node(j)), Spawned(j, p),
           NEW q \in Seq(Node(j)), Spawned(j, q), Prefix(q, p), q # p
    PROVE  /\ ~ Closing(j, q) /\ Len(q) < Len(p)
           /\ \E c \in Children(j, q) : Prefix(c, p)
<1>1. PICK t \in Range(j.tasks) :
        /\ Prefix(t, p)
        /\ \A n \in Len(t) .. Len(p) - 1 :
             /\ ~ Closing(j, SubSeq(p, 1, n))
             /\ SubSeq(p, 1, n + 1) \in Children(j, SubSeq(p, 1, n))
  BY DEF Spawned
<1>2. PICK u \in Range(j.tasks) : Prefix(u, q)
  BY DEF Spawned
<1>3. /\ t \in Seq(Node(j)) /\ Len(t) \in Nat
      /\ u \in Seq(Node(j)) /\ Len(u) \in Nat /\ Len(u) >= 1
      /\ Len(p) \in Nat /\ Len(q) \in Nat
  BY TaskLength, LenProperties
<1>4. Len(q) < Len(p) /\ Len(u) <= Len(q)
  <2>1. Len(q) <= Len(p) /\ Len(u) <= Len(q)
    BY <1>2 DEF Prefix
  <2>2. Len(q) # Len(p)
    BY PrefixSameLength
  <2>3. QED  BY <1>3, <2>1, <2>2
<1>5. t = u
  <2>1. Prefix(u, p)
    BY <1>2, <1>3, <1>4 DEF Prefix
  <2>2. Prefix(t, u) \/ Prefix(u, t)
    <3>1. CASE Len(t) <= Len(u)
      BY <1>1, <1>3, <2>1, <3>1, PrefixComparable
    <3>2. CASE Len(u) <= Len(t)
      BY <1>1, <1>3, <2>1, <3>2, PrefixComparable
    <3>3. QED  BY <1>3, <3>1, <3>2
  <2>3. PICK a \in 1 .. Len(j.tasks) : t = j.tasks[a]
    BY RangeMember DEF JobOK, TasksOK
  <2>4. PICK b \in 1 .. Len(j.tasks) : u = j.tasks[b]
    BY RangeMember DEF JobOK, TasksOK
  <2>5. QED  BY <2>2, <2>3, <2>4 DEF JobOK, TasksOK
<1>6. /\ Len(q) \in Len(t) .. Len(p) - 1
      /\ Len(q) \in 1 .. Len(p) /\ Len(q) + 1 \in 1 .. Len(p)
  BY <1>3, <1>4, <1>5
<1>7. q = SubSeq(p, 1, Len(q))
  BY <1>6, CutAt
<1> DEFINE c == SubSeq(p, 1, Len(q) + 1)
<1>8. ~ Closing(j, q) /\ c \in Children(j, q)
  BY <1>1, <1>6, <1>7
<1>9. Prefix(c, p)
  <2>1. Len(c) = Len(q) + 1 /\ \A i \in 1 .. Len(q) + 1 : c[i] = p[i]
    BY <1>6, CutAt
  <2> HIDE DEF c
  <2>2. QED  BY <1>3, <1>4, <2>1 DEF Prefix
<1>10. QED  BY <1>4, <1>8, <1>9

(* Membership in Expandable.                                               *)
LEMMA ExpandableElim ==
    ASSUME NEW j, j.k \in Nat, NEW p \in Expandable(j)
    PROVE  p \in Seq(Node(j)) /\ Spawned(j, p) /\ ~ Closing(j, p)
<1>1. PICK n \in 1 .. j.k :
        p \in [1 .. n -> Node(j)] /\ Spawned(j, p) /\ ~ Closing(j, p)
  BY DEF Expandable
<1>2. n \in Nat /\ p = [i \in 1 .. n |-> p[i]] /\ \A i \in 1 .. n : p[i] \in Node(j)
  BY <1>1
<1>3. p \in Seq(Node(j))
  BY <1>2, IsASeq
<1>4. QED  BY <1>1, <1>3

LEMMA ExpandableIntro ==
    ASSUME NEW j, JobOK(j), NEW p, Viable(j, p), ~ Closing(j, p), Spawned(j, p)
    PROVE  p \in Expandable(j)
<1>1. /\ p \in Seq(Node(j)) /\ Len(p) \in Nat /\ Len(p) >= 1
      /\ j.k \in Nat /\ j.k >= 1
      /\ Len(p) = 1 \/ Len(p) < j.k
  BY OpenIsShort
<1>2. Len(p) \in 1 .. j.k
  <2>1. \A n, k \in Nat :
          n >= 1 /\ k >= 1 /\ (n = 1 \/ n < k) => n \in 1 .. k
    OBVIOUS
  <2>2. QED  BY <1>1, <2>1, Zenon
<1>3. p \in [1 .. Len(p) -> Node(j)]
  BY <1>1, LenProperties
<1>4. p \in { q \in [1 .. Len(p) -> Node(j)] : Spawned(j, q) /\ ~ Closing(j, q) }
  BY <1>3
<1>5. QED  BY <1>2, <1>4 DEF Expandable

LEMMA ExpandableFinite ==
    ASSUME NEW j, JobOK(j) PROVE IsFiniteSet(Expandable(j))
<1>1. j.k \in Nat /\ IsFiniteSet(Node(j))
  BY DEF JobOK, GraphOK
<1>2. Expandable(j) \subseteq UNION { [1 .. n -> Node(j)] : n \in 1 .. j.k }
  BY DEF Expandable
<1>3. IsFiniteSet(UNION { [1 .. n -> Node(j)] : n \in 1 .. j.k })
  BY <1>1, PathsFinite
<1>4. QED  BY <1>2, <1>3, FS_Subset

LEMMA DemandFinite ==
    ASSUME NEW j, JobOK(j), NEW E, IsFiniteSet(E)
    PROVE  IsFiniteSet(Demand(j, E))
<1>1. IsFiniteSet(Node(j))
  BY DEF JobOK, GraphOK
<1>2. IsFiniteSet(E \X Node(j))
  BY <1>1, FS_Product
<1>3. Demand(j, E) \subseteq E \X Node(j)
  BY DEF Demand
<1>4. QED  BY <1>2, <1>3, FS_Subset

(* Expanding the paths S takes just these off the work.                    *)
LEMMA WorkExpanded ==
    ASSUME NEW j, JobOK(j), NEW P, ViableAll(j, P), AntiChain(P),
           SpawnedAll(j, P), NEW S \in SUBSET P, \A p \in S : ~ Closing(j, p)
    PROVE  /\ S \subseteq Work(j, P)
           /\ Work(j, Expanded(j, P, S)) = Work(j, P) \ S
           /\ SpawnedAll(j, Expanded(j, P, S))
<1>1. j.k \in Nat /\ \A p \in P : p \in Seq(Node(j)) /\ Prefix(p, p)
  <2>1. j.k \in Nat
    BY DEF JobOK, GraphOK
  <2>2. \A p \in P : p \in Seq(Node(j))
    BY DEF ViableAll, Viable
  <2>3. \A p \in P : Len(p) \in Nat
    BY <2>2, LenProperties
  <2>4. QED  BY <2>1, <2>2, <2>3 DEF Prefix
<1>2. ASSUME NEW s \in S PROVE s \in Work(j, P)
  <2>1. s \in Expandable(j)
    BY ExpandableIntro DEF ViableAll, SpawnedAll
  <2>2. QED  BY <1>1, <2>1 DEF Work
<1>3. ASSUME NEW s \in S, NEW c \in Children(j, s)
      PROVE  /\ c \in Seq(Node(j)) /\ Spawned(j, c)
             /\ \A p \in Seq(Node(j)) : Prefix(c, p) => Prefix(s, p) /\ s # p
  <2>1. PICK v \in Nbrs(j, End(s)) : c = Append(s, v)
    BY DEF Children
  <2>2. s \in Seq(Node(j)) /\ v \in Node(j)
    BY <1>1, AdmitsExact DEF ViableAll
  <2>3. c \in Seq(Node(j))
    BY <2>1, <2>2, AppendProperties
  <2>4. Spawned(j, c)
    BY <2>2, <2>3, ChildSpawned DEF SpawnedAll
  <2>5. ASSUME NEW p \in Seq(Node(j)), Prefix(c, p) PROVE Prefix(s, p) /\ s # p
    <3>1. Prefix(s, p) /\ Len(s) < Len(p)
      BY <2>1, <2>2, <2>5, AppendPrefix
    <3>2. Len(s) \in Nat /\ Len(p) \in Nat
      BY <2>2, LenProperties
    <3>3. QED  BY <3>1, <3>2
  <2>6. QED  BY <2>3, <2>4, <2>5
<1>4. ASSUME NEW p \in Work(j, Expanded(j, P, S)) PROVE p \in Work(j, P) \ S
  <2>1. PICK q \in Expanded(j, P, S) : p \in Expandable(j) /\ Prefix(q, p)
    BY DEF Work
  <2>2. p \in Seq(Node(j))
    BY <1>1, <2>1, ExpandableElim
  <2>3. CASE q \in P \ S
    <3>1. p \in S => p = q
      BY <2>1, <2>3 DEF AntiChain
    <3>2. QED  BY <2>1, <2>3, <3>1 DEF Work
  <2>4. CASE q \notin P \ S
    <3>1. PICK s \in S : q \in Children(j, s)
      BY <2>1, <2>4 DEF Expanded
    <3>2. Prefix(s, p) /\ s # p
      BY <1>3, <2>1, <2>2, <3>1
    <3>3. p \notin S
      BY <3>2 DEF AntiChain
    <3>4. QED  BY <2>1, <3>2, <3>3 DEF Work
  <2>5. QED  BY <2>3, <2>4
<1>5. ASSUME NEW p \in Work(j, P) \ S PROVE p \in Work(j, Expanded(j, P, S))
  <2>1. PICK q \in P : p \in Expandable(j) /\ Prefix(q, p)
    BY DEF Work
  <2>2. CASE q \notin S
    BY <2>1, <2>2 DEF Work, Expanded
  <2>3. CASE q \in S
    <3>1. p \in Seq(Node(j)) /\ Spawned(j, p) /\ Spawned(j, q) /\ q # p
      BY <1>1, <1>5, <2>1, <2>3, ExpandableElim DEF SpawnedAll
    <3>2. PICK c \in Children(j, q) : Prefix(c, p)
      BY <1>1, <2>1, <3>1, SpawnedThrough
    <3>3. c \in Expanded(j, P, S)
      BY <2>3, <3>2 DEF Expanded
    <3>4. QED  BY <2>1, <3>2, <3>3 DEF Work
  <2>4. QED  BY <2>2, <2>3
<1>6. SpawnedAll(j, Expanded(j, P, S))
  BY <1>3 DEF SpawnedAll, Expanded
<1>7. QED  BY <1>2, <1>4, <1>5, <1>6

(* A path that closes is no work.                                          *)
LEMMA WorkEmitted ==
    ASSUME NEW j, JobOK(j), NEW P, ViableAll(j, P), SpawnedAll(j, P),
           NEW p \in P, Closing(j, p)
    PROVE  Work(j, P \ {p}) = Work(j, P) /\ SpawnedAll(j, P \ {p})
<1>1. j.k \in Nat /\ p \in Seq(Node(j)) /\ Spawned(j, p)
  BY DEF JobOK, GraphOK, ViableAll, Viable, SpawnedAll
<1>2. ASSUME NEW q \in Expandable(j) PROVE ~ Prefix(p, q)
  <2>1. q \in Seq(Node(j)) /\ Spawned(j, q) /\ ~ Closing(j, q)
    BY <1>1, ExpandableElim
  <2>2. QED  BY <1>1, <2>1, SpawnedThrough
<1>3. QED  BY <1>2 DEF Work, SpawnedAll

(* At the start everything is still to be done.                            *)
LEMMA WorkOfTasks ==
    ASSUME NEW j, JobOK(j)
    PROVE  /\ Work(j, Range(j.tasks)) = Expandable(j)
           /\ SpawnedAll(j, Range(j.tasks))
<1>1. SpawnedAll(j, Range(j.tasks))
  BY TaskSpawned DEF SpawnedAll
<1>2. ASSUME NEW p \in Expandable(j)
      PROVE  \E q \in Range(j.tasks) : Prefix(q, p)
  <2>1. Spawned(j, p)
    BY ExpandableElim DEF JobOK, GraphOK
  <2>2. QED  BY <2>1 DEF Spawned
<1>3. QED  BY <1>1, <1>2 DEF Work

(***************************************************************************)
(* The account of the work: n paths have been expanded, m neighbours been  *)
(* looked at, and what the pool P stands for is the rest.                  *)
(***************************************************************************)
Spent(j, P, n, m) ==
    /\ SpawnedAll(j, P) /\ n \in Nat /\ m \in Nat
    /\ n + Cardinality(Work(j, P)) = Cardinality(Expandable(j))
    /\ m + Cardinality(Demand(j, Work(j, P)))
         = Cardinality(Demand(j, Expandable(j)))

LEMMA WorkFinite ==
    ASSUME NEW j, JobOK(j), NEW P
    PROVE  /\ IsFiniteSet(Work(j, P)) /\ Cardinality(Work(j, P)) \in Nat
           /\ IsFiniteSet(Demand(j, Work(j, P)))
           /\ Cardinality(Demand(j, Work(j, P))) \in Nat
           /\ Cardinality(Expandable(j)) \in Nat
           /\ Cardinality(Demand(j, Expandable(j))) \in Nat
<1>1. IsFiniteSet(Expandable(j)) /\ IsFiniteSet(Demand(j, Expandable(j)))
  BY ExpandableFinite, DemandFinite
<1>2. Work(j, P) \subseteq Expandable(j)
  BY DEF Work
<1>3. IsFiniteSet(Work(j, P))
  BY <1>1, <1>2, FS_Subset
<1>4. IsFiniteSet(Demand(j, Work(j, P)))
  BY <1>3, DemandFinite
<1>5. QED  BY <1>1, <1>3, <1>4, FS_CardinalityType

(* A part taken out of a finite set.                                       *)
LEMMA TakenOut ==
    ASSUME NEW A, IsFiniteSet(A), NEW B \in SUBSET A
    PROVE  /\ Cardinality(A) \in Nat /\ Cardinality(B) \in Nat
           /\ Cardinality(A \ B) \in Nat
           /\ Cardinality(A) = Cardinality(A \ B) + Cardinality(B)
<1>1. IsFiniteSet(B) /\ IsFiniteSet(A \ B)
  BY FS_Subset
<1>2. A \cap B = B
  OBVIOUS
<1>3. Cardinality(A \ B) = Cardinality(A) - Cardinality(B)
  BY <1>2, FS_Difference
<1>4. QED  BY <1>1, <1>3, FS_CardinalityType

LEMMA ExpandSpends ==
    ASSUME NEW j, JobOK(j), NEW P, NEW n, NEW m, Spent(j, P, n, m),
           ViableAll(j, P), AntiChain(P),
           NEW S \in SUBSET P, \A p \in S : ~ Closing(j, p)
    PROVE  Spent(j, Expanded(j, P, S), n + Cardinality(S),
                 m + Cardinality(Demand(j, S)))
<1> DEFINE W == Work(j, P)
           Q == Expanded(j, P, S)
<1>1. S \subseteq W /\ Work(j, Q) = W \ S /\ SpawnedAll(j, Q)
  BY WorkExpanded DEF Spent
<1>2. /\ n \in Nat /\ n + Cardinality(W) = Cardinality(Expandable(j))
      /\ m \in Nat
      /\ m + Cardinality(Demand(j, W)) = Cardinality(Demand(j, Expandable(j)))
  BY DEF Spent
<1>3. /\ IsFiniteSet(W) /\ IsFiniteSet(Demand(j, W))
      /\ Cardinality(Expandable(j)) \in Nat
      /\ Cardinality(Demand(j, Expandable(j))) \in Nat
  BY WorkFinite
<1> HIDE DEF W, Q
<1>4. /\ Demand(j, S) \subseteq Demand(j, W)
      /\ Demand(j, W \ S) = Demand(j, W) \ Demand(j, S)
  BY <1>1 DEF Demand
<1>5. /\ Cardinality(W) \in Nat /\ Cardinality(S) \in Nat
      /\ Cardinality(W \ S) \in Nat
      /\ Cardinality(W) = Cardinality(W \ S) + Cardinality(S)
  BY <1>1, <1>3, TakenOut
<1>6. /\ Cardinality(Demand(j, W)) \in Nat /\ Cardinality(Demand(j, S)) \in Nat
      /\ Cardinality(Demand(j, W \ S)) \in Nat
      /\ Cardinality(Demand(j, W))
           = Cardinality(Demand(j, W \ S)) + Cardinality(Demand(j, S))
  BY <1>3, <1>4, TakenOut
<1>7. (n + Cardinality(S)) + Cardinality(W \ S) = Cardinality(Expandable(j))
  BY <1>2, <1>3, <1>5
<1>8. (m + Cardinality(Demand(j, S))) + Cardinality(Demand(j, W \ S))
        = Cardinality(Demand(j, Expandable(j)))
  BY <1>2, <1>3, <1>6
<1>9. n + Cardinality(S) \in Nat /\ m + Cardinality(Demand(j, S)) \in Nat
  BY <1>2, <1>5, <1>6
<1>10. QED  BY <1>1, <1>7, <1>8, <1>9 DEF Spent, Q

LEMMA EmitSpends ==
    ASSUME NEW j, JobOK(j), NEW P, NEW n, NEW m, Spent(j, P, n, m),
           ViableAll(j, P), NEW p \in P, Closing(j, p)
    PROVE  Spent(j, P \ {p}, n, m)
BY WorkEmitted DEF Spent

LEMMA TasksSpend ==
    ASSUME NEW j, JobOK(j) PROVE Spent(j, Range(j.tasks), 0, 0)
<1>1. /\ Cardinality(Expandable(j)) \in Nat
      /\ Cardinality(Demand(j, Expandable(j))) \in Nat
  BY WorkFinite
<1>2. QED  BY <1>1, WorkOfTasks DEF Spent

(* With no path left, all the work is done; before, no more than that.     *)
LEMMA SpentBounds ==
    ASSUME NEW j, JobOK(j), NEW P, NEW n, NEW m, Spent(j, P, n, m)
    PROVE  /\ n \in Nat /\ n <= Cardinality(Expandable(j))
           /\ m \in Nat /\ m <= Cardinality(Demand(j, Expandable(j)))
           /\ P = {} => /\ n = Cardinality(Expandable(j))
                        /\ m = Cardinality(Demand(j, Expandable(j)))
<1>1. /\ Cardinality(Work(j, P)) \in Nat
      /\ Cardinality(Demand(j, Work(j, P))) \in Nat
      /\ Cardinality(Expandable(j)) \in Nat
      /\ Cardinality(Demand(j, Expandable(j))) \in Nat
  BY WorkFinite
<1>2. P = {} => Work(j, P) = {} /\ Demand(j, Work(j, P)) = {}
  BY DEF Work, Demand
<1>3. P = {} => Cardinality(Work(j, P)) = 0 /\ Cardinality(Demand(j, Work(j, P))) = 0
  BY <1>2, FS_EmptySet
<1>4. /\ n \in Nat /\ n + Cardinality(Work(j, P)) = Cardinality(Expandable(j))
      /\ m \in Nat
      /\ m + Cardinality(Demand(j, Work(j, P)))
           = Cardinality(Demand(j, Expandable(j)))
  BY DEF Spent
<1>5. \A a, b, c \in Nat : a + b = c => a <= c /\ (b = 0 => a = c)
  OBVIOUS
<1>6. QED  BY <1>1, <1>3, <1>4, <1>5, Zenon
=============================================================================
