--------------------------- MODULE RplRootProofs ---------------------------
(***************************************************************************)
(* Proofs about the RPL root, for every set of nodes and every database of  *)
(* transits that DAOs can build: the topological sort ends with every       *)
(* target in the list once, every edge it keeps leads forward in the list,  *)
(* and breaking loops disconnects nobody; so the walk over first transits   *)
(* ends at the root.  And where there is no loop no edge is given up, every *)
(* parent's cost is final before it is passed on, and the costs are those   *)
(* of the cheapest paths.                                                   *)
(***************************************************************************)
EXTENDS RplRoot, NatInductionLemmas, FiniteSetTheorems, SequenceTheorems

-----------------------------------------------------------------------------
(* The invariants.                                                         *)

Nodes == Node \cup {Root}

\* C holds the children of the root and those of its own members.
Closed(C, kids) == Range(kids[Root]) \subseteq C /\ \A p \in C : Range(kids[p]) \subseteq C
\* The same, by the transits of the targets in L.
DbClosed(D, L, tg) == \A x \in L : (\E p \in D \cup {Root} : HasTransit(tg[x], p)) => x \in D

\* What the child lists reach is all that the transits of the database reach.
Spans(L, tg, kids) ==
    \A C \in SUBSET Node : Closed(C, kids) => \E D \in SUBSET C : DbClosed(D, L, tg)

\* The child lists hold transits of the database, each once; those of the root all.
Children(L, tg, kids) ==
    /\ \A p \in Nodes : IsInjective(kids[p]) /\ \A x \in Range(kids[p]) : x \in L /\ HasTransit(tg[x], p)
    /\ \A x \in L : HasTransit(tg[x], Root) => x \in Range(kids[Root])
    /\ \A p \in Node : p \notin L => kids[p] = <<>>

Forward(s, kids) == \A p \in Node : \A x \in Range(kids[p]) : Before(s, p, x)

TopoOK(lst, tg, kids) ==
    /\ Children(Range(lst), tg, kids)
    /\ Forward(lst, kids)
    /\ Spans(Range(lst), tg, kids)

\* No loop: every set of targets has one without a parent in it.
Acyclic(L, tg) == \A S \in SUBSET L : S # {} => \E x \in S : \A p \in S : ~HasTransit(tg[x], p)
\* The child lists hold all transits of the database to the root and to targets.
Full(L, tg, kids) == \A x \in L, p \in L \cup {Root} : HasTransit(tg[x], p) => x \in Range(kids[p])

\* The first transit of a connected target leads to the root or to a connected
\* target before it.
Rooted(lst, tg, conn) ==
    \A x \in conn : /\ x \in Range(lst) /\ tg[x].transits # <<>>
                    /\ LET p == Head(tg[x].transits).via
                       IN  p = Root \/ (p \in conn /\ Before(lst, p, x))

-----------------------------------------------------------------------------
(* Sequences.                                                              *)

LEMMA RangeFacts ==
    ASSUME NEW S, NEW q \in Seq(S)
    PROVE  /\ Range(q) \subseteq S /\ DOMAIN q = 1..Len(q)
           /\ \A i \in 1..Len(q) : q[i] \in Range(q)
           /\ \A x \in Range(q) : \E i \in 1..Len(q) : q[i] = x
           /\ q = <<>> <=> Range(q) = {}
           /\ Len(q) \in Nat
<1>1. DOMAIN q = 1..Len(q) /\ Len(q) \in Nat /\ \A i \in 1..Len(q) : q[i] \in S  OBVIOUS
<1>2. /\ \A i \in 1..Len(q) : q[i] \in Range(q)
      /\ \A x \in Range(q) : \E i \in 1..Len(q) : q[i] = x
  BY <1>1 DEF Range
<1>3. Range(q) \subseteq S  BY <1>1, <1>2
<1>4. q = <<>> => Range(q) = {}
  <2>1. q = <<>> => Len(q) = 0  OBVIOUS
  <2> QED  BY <1>1, <1>2, <2>1
<1>5. q # <<>> => Range(q) # {}
  <2>1. q # <<>> => 1 \in 1..Len(q)  OBVIOUS
  <2> QED  BY <1>2, <2>1
<1> QED  BY <1>1, <1>2, <1>3, <1>4, <1>5

LEMMA EmptyFacts == /\ Range(<<>>) = {} /\ IsInjective(<<>>) /\ \A S : <<>> \in Seq(S)
  BY DEF Range, IsInjective

LEMMA AppendFacts ==
    ASSUME NEW S, NEW q \in Seq(S), NEW x \in S
    PROVE  LET r == Append(q, x)
           IN  /\ r \in Seq(S) /\ Len(r) = Len(q) + 1
               /\ Range(r) = Range(q) \cup {x}
               /\ (IsInjective(q) /\ x \notin Range(q)) => IsInjective(r)
               /\ \A i \in 1..Len(q) : r[i] = q[i]
               /\ r[Len(q) + 1] = x
<1> DEFINE r == Append(q, x)
           n == Len(q)
<1>1. n \in Nat /\ DOMAIN q = 1..n  OBVIOUS
<1>2. /\ r \in Seq(S) /\ Len(r) = n + 1 /\ DOMAIN r = 1..(n + 1)
      /\ \A i \in 1..n : r[i] = q[i]
      /\ r[n + 1] = x
  OBVIOUS
<1> HIDE DEF r, n
<1>3. \A i \in 1..(n + 1) : i \in 1..n \/ i = n + 1  BY <1>1
<1>4. n + 1 \in 1..(n + 1) /\ \A i \in 1..n : i \in 1..(n + 1)  BY <1>1
<1>5. Range(r) = Range(q) \cup {x}
  <2>1. \A y \in Range(r) : y \in Range(q) \cup {x}  BY <1>1, <1>2, <1>3 DEF Range
  <2>2. \A y \in Range(q) : y \in Range(r)  BY <1>1, <1>2, <1>4 DEF Range
  <2>3. x \in Range(r)  BY <1>2, <1>4 DEF Range
  <2> QED  BY <2>1, <2>2, <2>3
<1>6. ASSUME IsInjective(q), x \notin Range(q) PROVE IsInjective(r)
  <2>1. \A i \in 1..n : q[i] # x  BY <1>1, <1>6 DEF Range
  <2>2. \A i, j \in 1..n : q[i] = q[j] => i = j  BY <1>1, <1>6 DEF IsInjective
  <2> QED  BY <1>2, <1>3, <2>1, <2>2 DEF IsInjective
<1> QED  BY <1>2, <1>5, <1>6 DEF r, n

LEMMA ConcatFacts ==
    ASSUME NEW S, NEW q \in Seq(S), NEW r \in Seq(S)
    PROVE  LET c == q \o r
           IN  /\ c \in Seq(S) /\ Len(c) = Len(q) + Len(r)
               /\ Range(c) = Range(q) \cup Range(r)
               /\ (IsInjective(q) /\ IsInjective(r) /\ Range(q) \cap Range(r) = {}) => IsInjective(c)
               /\ q # <<>> => c # <<>> /\ Head(c) = q[1]
               /\ \A i \in 1..Len(q) : c[i] = q[i]
               /\ \A i \in 1..Len(r) : c[Len(q) + i] = r[i]
<1> DEFINE c == q \o r
           m == Len(q)
           n == Len(r)
<1>1. m \in Nat /\ DOMAIN q = 1..m /\ n \in Nat /\ DOMAIN r = 1..n  OBVIOUS
<1>2. /\ c \in Seq(S) /\ Len(c) = m + n
      /\ \A i \in 1..(m + n) : c[i] = IF i <= m THEN q[i] ELSE r[i - m]
  BY ConcatProperties
<1>3. DOMAIN c = 1..(m + n)  BY <1>2
<1> HIDE DEF c, m, n
<1>4. \A i \in 1..m : i \in 1..(m + n) /\ c[i] = q[i]  BY <1>1, <1>2
<1>5. ASSUME NEW i \in 1..n PROVE m + i \in 1..(m + n) /\ c[m + i] = r[i]
  <2>1. m + i \in 1..(m + n) /\ ~(m + i <= m) /\ (m + i) - m = i  BY <1>1
  <2> QED  BY <1>2, <2>1
<1>6. ASSUME NEW i \in 1..(m + n)
      PROVE  (i \in 1..m /\ c[i] = q[i]) \/ (i - m \in 1..n /\ c[i] = r[i - m])
  <2>1. CASE i <= m
    <3>1. i \in 1..m  BY <1>1, <2>1
    <3> QED  BY <1>4, <3>1
  <2>2. CASE ~(i <= m)
    <3>1. i - m \in 1..n  BY <1>1, <2>2
    <3> QED  BY <1>2, <2>2, <3>1
  <2> QED  BY <2>1, <2>2
<1>7. Range(c) = Range(q) \cup Range(r)
  <2>1. \A y \in Range(c) : y \in Range(q) \cup Range(r)  BY <1>1, <1>3, <1>6 DEF Range
  <2>2. \A y \in Range(q) : y \in Range(c)  BY <1>1, <1>3, <1>4 DEF Range
  <2>3. \A y \in Range(r) : y \in Range(c)  BY <1>1, <1>3, <1>5 DEF Range
  <2> QED  BY <2>1, <2>2, <2>3
<1>8. ASSUME IsInjective(q), IsInjective(r), Range(q) \cap Range(r) = {} PROVE IsInjective(c)
  <2> SUFFICES ASSUME NEW i \in 1..(m + n), NEW j \in 1..(m + n), c[i] = c[j] PROVE i = j
    BY <1>3 DEF IsInjective
  <2>1. \A a, b \in 1..m : q[a] = q[b] => a = b  BY <1>1, <1>8 DEF IsInjective
  <2>2. \A a, b \in 1..n : r[a] = r[b] => a = b  BY <1>1, <1>8 DEF IsInjective
  <2>3. \A a \in 1..m, b \in 1..n : q[a] # r[b]  BY <1>1, <1>8 DEF Range
  <2>4. CASE i \in 1..m /\ c[i] = q[i]
    <3>1. j \in 1..m /\ c[j] = q[j]  BY <1>6, <2>3, <2>4
    <3> QED  BY <2>1, <2>4, <3>1
  <2>5. CASE i - m \in 1..n /\ c[i] = r[i - m]
    <3>1. j - m \in 1..n /\ c[j] = r[j - m]  BY <1>6, <2>3, <2>5
    <3>2. i - m = j - m  BY <2>2, <2>5, <3>1
    <3> QED  BY <1>1, <3>2
  <2> QED  BY <1>6, <2>4, <2>5
<1>9. ASSUME q # <<>> PROVE c # <<>> /\ Head(c) = q[1]
  <2>1. m >= 1  BY <1>1, <1>9 DEF m
  <2>2. 1 \in 1..m /\ Len(c) >= 1  BY <1>1, <1>2, <2>1
  <2>3. c # <<>> /\ Head(c) = c[1]  BY <1>2, <2>2
  <2> QED  BY <1>4, <2>2, <2>3
<1> QED  BY <1>2, <1>4, <1>5, <1>7, <1>8, <1>9 DEF c, m, n

LEMMA TailFacts ==
    ASSUME NEW S, NEW q \in Seq(S), q # <<>>
    PROVE  /\ Head(q) \in S /\ Head(q) = q[1] /\ Head(q) \in Range(q) /\ Tail(q) \in Seq(S)
           /\ Range(q) = Range(Tail(q)) \cup {Head(q)}
           /\ IsInjective(q) => IsInjective(Tail(q)) /\ Head(q) \notin Range(Tail(q))
<1> DEFINE r == Tail(q)
           n == Len(q)
<1>1. n \in Nat /\ n >= 1 /\ DOMAIN q = 1..n  OBVIOUS
<1>2. /\ r \in Seq(S) /\ Len(r) = n - 1 /\ DOMAIN r = 1..(n - 1)
      /\ \A i \in 1..(n - 1) : r[i] = q[i + 1]
  OBVIOUS
<1>3. Head(q) = q[1] /\ 1 \in 1..n  BY <1>1
<1> HIDE DEF r, n
<1>4. \A i \in 1..(n - 1) : i + 1 \in 1..n /\ i + 1 # 1  BY <1>1
<1>5. \A i \in 1..n : i = 1 \/ (i - 1 \in 1..(n - 1) /\ r[i - 1] = q[i])
  <2> SUFFICES ASSUME NEW i \in 1..n, i # 1 PROVE i - 1 \in 1..(n - 1) /\ r[i - 1] = q[i]  OBVIOUS
  <2>1. i - 1 \in 1..(n - 1) /\ (i - 1) + 1 = i  BY <1>1
  <2> QED  BY <1>2, <2>1
<1>6. Range(q) = Range(r) \cup {q[1]}
  <2>1. ASSUME NEW y \in Range(q) PROVE y \in Range(r) \cup {q[1]}
    <3>1. PICK i \in 1..n : y = q[i]  BY <1>1 DEF Range
    <3>2. CASE i = 1  BY <3>1, <3>2
    <3>3. CASE i - 1 \in 1..(n - 1) /\ r[i - 1] = q[i]  BY <1>2, <3>1, <3>3 DEF Range
    <3> QED  BY <1>5, <3>2, <3>3
  <2>2. \A y \in Range(r) : y \in Range(q)  BY <1>1, <1>2, <1>4 DEF Range
  <2>3. q[1] \in Range(q)  BY <1>1, <1>3 DEF Range
  <2> QED  BY <2>1, <2>2, <2>3
<1>7. ASSUME IsInjective(q) PROVE IsInjective(r) /\ q[1] \notin Range(r)
  <2>1. \A i, j \in 1..n : q[i] = q[j] => i = j  BY <1>1, <1>7 DEF IsInjective
  <2>2. IsInjective(r)
    <3> SUFFICES ASSUME NEW i \in 1..(n - 1), NEW j \in 1..(n - 1), r[i] = r[j] PROVE i = j
      BY <1>2 DEF IsInjective
    <3>1. i + 1 = j + 1  BY <1>2, <1>4, <2>1
    <3> QED  BY <3>1
  <2>3. q[1] \notin Range(r)
    <3>1. \A i \in 1..(n - 1) : r[i] # q[1]  BY <1>2, <1>3, <1>4, <2>1
    <3> QED  BY <1>2, <3>1 DEF Range
  <2> QED  BY <2>2, <2>3
<1>8. q[1] \in S  BY <1>1, <1>3
<1> QED  BY <1>2, <1>3, <1>6, <1>7, <1>8 DEF r

\* What the filter has kept of the first k elements.
Kept(A, s, S, k) ==
    {r \in Seq(A) : /\ Range(r) = {s[j] : j \in 1..k} \cap S
                    /\ IsInjective(s) => IsInjective(r)}

LEMMA OnlyFacts ==
    ASSUME NEW A, NEW s \in Seq(A), NEW S
    PROVE  LET r == Only(s, S)
           IN  /\ r \in Seq(A) /\ Range(r) = Range(s) \cap S
               /\ IsInjective(s) => IsInjective(r)
<1> DEFINE N == Len(s)
           base == <<>>
           Op(t, k) == IF s[k] \in S THEN Append(t, s[k]) ELSE t
           I == [k \in 0..N |-> Kept(A, s, S, k)]
           step == [k \in 1..N |-> [t \in I[k - 1] |-> Op(t, k)]]
           Eq(f) == f = [k \in 0..N |-> IF k = 0 THEN base ELSE Op(f[k - 1], k)]
           loop == CHOOSE f : Eq(f)
<1>1. N \in Nat  OBVIOUS
<1>2. base \in I[0]
  <2>1. 0 \in 0..N  BY <1>1
  <2>2. base \in Kept(A, s, S, 0)
    <3>1. {s[j] : j \in 1..0} = {}  OBVIOUS
    <3> QED  BY <3>1, EmptyFacts DEF Kept
  <2> QED  BY <2>1, <2>2
<1>3. ASSUME NEW k \in 1..N, NEW t \in I[k - 1] PROVE Op(t, k) \in I[k]
  <2>1. k \in 0..N /\ k - 1 \in 0..N /\ s[k] \in A  BY <1>1
  <2>2. t \in Kept(A, s, S, k - 1)  BY <2>1
  <2>3. {s[j] : j \in 1..k} = {s[j] : j \in 1..(k - 1)} \cup {s[k]}
    <3>1. \A j \in 1..k : j \in 1..(k - 1) \/ j = k  BY <1>1
    <3>2. \A j \in 1..(k - 1) : j \in 1..k  BY <1>1
    <3>3. k \in 1..k  BY <1>1
    <3> QED  BY <3>1, <3>2, <3>3
  <2>4. IsInjective(s) => s[k] \notin {s[j] : j \in 1..(k - 1)}
    <3> SUFFICES ASSUME IsInjective(s), NEW j \in 1..(k - 1) PROVE s[j] # s[k]  OBVIOUS
    <3>1. j \in DOMAIN s /\ k \in DOMAIN s /\ j # k  BY <1>1
    <3> QED  BY <3>1 DEF IsInjective
  <2>5. Op(t, k) \in Kept(A, s, S, k)
    <3>1. CASE s[k] \in S
      <4>1. Op(t, k) = Append(t, s[k])  BY <3>1
      <4> HIDE DEF Op
      <4>2. t \in Seq(A)  BY <2>2 DEF Kept
      <4>3. /\ Append(t, s[k]) \in Seq(A) /\ Range(Append(t, s[k])) = Range(t) \cup {s[k]}
            /\ (IsInjective(t) /\ s[k] \notin Range(t)) => IsInjective(Append(t, s[k]))
        BY <2>1, <4>2, AppendFacts
      <4> QED  BY <2>2, <2>3, <2>4, <3>1, <4>1, <4>3 DEF Kept
    <3>2. CASE s[k] \notin S
      <4>1. Op(t, k) = t  BY <3>2
      <4> HIDE DEF Op
      <4> QED  BY <2>2, <2>3, <3>2, <4>1 DEF Kept
    <3> QED  BY <3>1, <3>2
  <2> HIDE DEF Op
  <2> QED  BY <2>1, <2>5
<1>4. Rounds(step, I, N)
  <2> HIDE DEF I, Op, N
  <2> QED  BY <1>3 DEF Rounds
<1>5. PICK g : LoopRun(g, N, base, step, I)
  <2> HIDE DEF I, step, N, base, Op
  <2> QED  BY <1>1, <1>2, <1>4, LoopInvariant
<1>6. Eq(g)
  <2> HIDE DEF I, N, base, Op
  <2>1. /\ g = [k \in 0..N |-> g[k]] /\ g[0] = base /\ \A k \in 0..N : g[k] \in I[k]
        /\ \A k \in 1..N : g[k] = step[k][g[k - 1]]
    <3> HIDE DEF step
    <3> QED  BY <1>5 DEF LoopRun
  <2>2. ASSUME NEW k \in 1..N PROVE g[k] = Op(g[k - 1], k)
    <3>1. k - 1 \in 0..N  BY <1>1
    <3>2. g[k - 1] \in I[k - 1]  BY <2>1, <3>1
    <3> QED  BY <2>1, <3>2
  <2> DEFINE h == [k \in 0..N |-> IF k = 0 THEN base ELSE Op(g[k - 1], k)]
  <2> HIDE DEF step
  <2>3. ASSUME NEW k \in 0..N PROVE g[k] = h[k]
    <3>1. CASE k = 0  BY <2>1, <3>1
    <3>2. CASE k # 0
      <4>1. k \in 1..N  BY <1>1, <3>2
      <4> QED  BY <2>2, <3>2, <4>1
    <3> QED  BY <3>1, <3>2
  <2>4. [k \in 0..N |-> g[k]] = h  BY <2>3
  <2> QED  BY <2>1, <2>4
<1>7. Eq(loop)
  <2> HIDE DEF Eq
  <2> QED  BY <1>6
<1> HIDE DEF loop
<1>8. loop[0] = base /\ \A k \in 1..N : loop[k] = Op(loop[k - 1], k)
  <2> HIDE DEF N, base, Op
  <2> QED  BY <1>1, <1>7
<1>9. \A k \in 1..N : loop[k - 1] \in I[k - 1] => loop[k] \in I[k]
  <2> HIDE DEF I, N, Op, Eq, step, base
  <2> QED  BY <1>3, <1>8
<1>10. loop[N] \in I[N]
  <2> HIDE DEF Op, Eq, step
  <2>1. loop[0] \in I[0]  BY <1>2, <1>8
  <2> HIDE DEF I, N, base
  <2> QED  BY <1>1, <1>9, <2>1, LoopEnd
<1>11. Only(s, S) = loop[N]  BY DEF Only, loop
<1>12. Only(s, S) \in Kept(A, s, S, N)
  <2>1. N \in 0..N  BY <1>1
  <2> HIDE DEF N
  <2> QED  BY <1>10, <1>11, <2>1
<1>13. {s[j] : j \in 1..N} = Range(s)  BY DEF Range
<1> QED  BY <1>12, <1>13 DEF Kept

-----------------------------------------------------------------------------
(* The transits of a target.                                               *)

\* No two transits to one parent.
Uniq(l) == IsInjective(l) /\ \A e, f \in Range(l) : e.via = f.via => e = f

LEMMA UniqIs ==
    ASSUME NEW t, t.transits \in Seq(Transit)
    PROVE  OnePerVia(t) <=> Uniq(t.transits)
<1> DEFINE l == t.transits
<1>1. DOMAIN l = 1..Len(l)  OBVIOUS
<1>2. OnePerVia(t) <=> \A i, j \in DOMAIN l : l[i].via = l[j].via => i = j  BY DEF OnePerVia
<1> HIDE DEF l
<1>3. (\A i, j \in DOMAIN l : l[i].via = l[j].via => i = j) => Uniq(l)
  BY DEF Uniq, IsInjective, Range
<1>4. ASSUME Uniq(l), NEW i \in DOMAIN l, NEW j \in DOMAIN l, l[i].via = l[j].via PROVE i = j
  <2>1. l[i] \in Range(l) /\ l[j] \in Range(l)  BY DEF Range
  <2>2. l[i] = l[j]  BY <1>4, <2>1 DEF Uniq
  <2> QED  BY <1>4, <2>2 DEF Uniq, IsInjective
<1> QED  BY <1>2, <1>3, <1>4 DEF l

LEMMA WithoutViaFacts ==
    ASSUME NEW l \in Seq(Transit), Uniq(l), NEW via
    PROVE  /\ WithoutVia(l, via) \in Seq(Transit) /\ Uniq(WithoutVia(l, via))
           /\ Range(WithoutVia(l, via)) = {e \in Range(l) : e.via # via}
           /\ WithVia(l, via) \in Seq(Transit) /\ IsInjective(WithVia(l, via))
           /\ Range(WithVia(l, via)) = {e \in Range(l) : e.via = via}
<1> DEFINE S == {e \in Range(l) : e.via # via}
           T == {e \in Range(l) : e.via = via}
<1>1. IsInjective(l)  BY DEF Uniq
<1>2. /\ Only(l, S) \in Seq(Transit) /\ IsInjective(Only(l, S)) /\ Range(Only(l, S)) = Range(l) \cap S
      /\ Only(l, T) \in Seq(Transit) /\ IsInjective(Only(l, T)) /\ Range(Only(l, T)) = Range(l) \cap T
  <2> HIDE DEF S, T
  <2> QED  BY <1>1, OnlyFacts
<1>3. Range(Only(l, S)) = S /\ Range(Only(l, T)) = T  BY <1>2
<1>4. Uniq(Only(l, S))  BY <1>2, <1>3 DEF Uniq
<1> QED  BY <1>2, <1>3, <1>4 DEF WithoutVia, WithVia

LEMMA FirstFacts ==
    ASSUME NEW l \in Seq(Transit), Uniq(l), NEW via
    PROVE  /\ First(l, via) \in Seq(Transit) /\ Uniq(First(l, via)) /\ Range(First(l, via)) = Range(l)
           /\ (\E e \in Range(l) : e.via = via) => First(l, via) # <<>> /\ Head(First(l, via)).via = via
<1> DEFINE w == WithVia(l, via)
           o == WithoutVia(l, via)
<1>1. /\ w \in Seq(Transit) /\ IsInjective(w) /\ Range(w) = {e \in Range(l) : e.via = via}
      /\ o \in Seq(Transit) /\ IsInjective(o) /\ Range(o) = {e \in Range(l) : e.via # via}
  BY WithoutViaFacts DEF Uniq
<1>2. First(l, via) = w \o o  BY DEF First
<1> HIDE DEF w, o
<1>3. Range(w) \cap Range(o) = {}  BY <1>1
<1>4. /\ w \o o \in Seq(Transit) /\ Range(w \o o) = Range(w) \cup Range(o) /\ IsInjective(w \o o)
      /\ w # <<>> => w \o o # <<>> /\ Head(w \o o) = w[1]
  <2>1. /\ w \o o \in Seq(Transit) /\ Range(w \o o) = Range(w) \cup Range(o)
        /\ (IsInjective(w) /\ IsInjective(o) /\ Range(w) \cap Range(o) = {}) => IsInjective(w \o o)
        /\ w # <<>> => w \o o # <<>> /\ Head(w \o o) = w[1]
    <3>1. w \in Seq(Transit) /\ o \in Seq(Transit)  BY <1>1
    <3> QED  BY <3>1, ConcatFacts
  <2> QED  BY <1>1, <1>3, <2>1
<1>5. Range(w \o o) = Range(l)  BY <1>1, <1>4
<1>6. ASSUME \E e \in Range(l) : e.via = via PROVE w # <<>> /\ w[1].via = via
  <2>1. w # <<>>  BY <1>1, <1>6, RangeFacts
  <2>2. w[1] \in Range(w)  BY <1>1, <2>1, TailFacts
  <2> QED  BY <1>1, <2>1, <2>2
<1> QED  BY <1>2, <1>4, <1>5, <1>6 DEF Uniq

LEMMA CostViaFacts ==
    ASSUME NEW tg, NEW x, NEW p, tg[x].transits \in Seq(Transit), HasTransit(tg[x], p)
    PROVE  CostVia(tg, x, p) \in 1..(CostMod - 1)
<1>1. \E e \in Range(tg[x].transits) : e.via = p  BY DEF HasTransit
<1>2. Range(tg[x].transits) \subseteq Transit  BY RangeFacts
<1> QED  BY <1>1, <1>2 DEF CostVia, Transit

LEMMA TargetFields ==
    ASSUME NEW t \in Target
    PROVE  /\ t.seq \in 0..(SeqTop - 1) /\ t.life \in 0..Life /\ t.transits \in Seq(Transit)
           /\ t = [seq |-> t.seq, life |-> t.life, transits |-> t.transits]
  BY DEF Target

LEMMA MinFacts ==
    ASSUME NEW S, S \subseteq Nat, S # {}
    PROVE  Min(S) \in S /\ \A y \in S : Min(S) <= y
<1>1. \E x \in S : \A y \in S : x <= y  BY LeastNat
<1> QED  BY <1>1 DEF Min

Parent == [via : Nodes, cost : 1..4]

LEMMA AddTransitFacts ==
    ASSUME NEW t \in Target, OnePerVia(t), NEW e \in Parent
    PROVE  LET u == AddTransit(t, e)
           IN  /\ u \in Target /\ OnePerVia(u) /\ u.seq = t.seq /\ u.life = t.life
               /\ \A v : HasTransit(u, v) <=> v = e.via \/ HasTransit(t, v)
<1> DEFINE l == t.transits
           M == {e.cost} \cup {o.pref : o \in Range(WithVia(l, e.via))}
           pref == Min(M)
           o == WithoutVia(l, e.via)
           n == [via |-> e.via, pref |-> pref, cost |-> pref]
           u == AddTransit(t, e)
<1>1. l \in Seq(Transit) /\ Uniq(l)  BY UniqIs, TargetFields
<1>2. e.via \in Nodes /\ e.cost \in 1..4  BY DEF Parent
<1>3. /\ o \in Seq(Transit) /\ Uniq(o) /\ Range(o) = {d \in Range(l) : d.via # e.via}
      /\ WithVia(l, e.via) \in Seq(Transit)
  <2> HIDE DEF l
  <2> QED  BY <1>1, WithoutViaFacts
<1>4. pref \in 1..4
  <2>1. Range(WithVia(l, e.via)) \subseteq Transit
    <3> HIDE DEF l
    <3> QED  BY <1>3, RangeFacts
  <2>2. M \subseteq 1..4 /\ M # {}
    <3>1. \A d \in Range(WithVia(l, e.via)) : d.pref \in 1..4  BY <2>1 DEF Transit
    <3> HIDE DEF l
    <3> QED  BY <1>2, <3>1
  <2>3. M \subseteq Nat
    <3> HIDE DEF M
    <3> QED  BY <2>2
  <2>4. Min(M) \in M
    <3> HIDE DEF M
    <3> QED  BY <2>2, <2>3, MinFacts
  <2> HIDE DEF M
  <2> QED  BY <2>2, <2>4
<1>5. u = [t EXCEPT !.transits = Append(o, n)]  BY DEF AddTransit
<1> HIDE DEF u, pref, o
<1>6. n \in Transit
  <2>1. pref \in 1..(CostMod - 1)  BY <1>4, CostAssumption
  <2> QED  BY <1>2, <1>4, <2>1 DEF Transit, Nodes
<1>7. n.via = e.via /\ n \notin Range(o)  BY <1>3
<1> HIDE DEF n
<1>8. Append(o, n) \in Seq(Transit) /\ Range(Append(o, n)) = Range(o) \cup {n} /\ IsInjective(Append(o, n))
  BY <1>3, <1>6, <1>7, AppendFacts DEF Uniq
<1>9. Uniq(Append(o, n))  BY <1>3, <1>7, <1>8 DEF Uniq
<1>10. /\ u \in Target /\ u.seq = t.seq /\ u.life = t.life /\ u.transits = Append(o, n)
  BY <1>5, <1>8 DEF Target
<1>11. OnePerVia(u)  BY <1>8, <1>9, <1>10, UniqIs
<1>12. ASSUME NEW v PROVE HasTransit(u, v) <=> v = e.via \/ HasTransit(t, v)
  <2>1. HasTransit(u, v) <=> \E d \in Range(o) \cup {n} : d.via = v  BY <1>8, <1>10 DEF HasTransit
  <2>2. HasTransit(t, v) <=> \E d \in Range(l) : d.via = v  BY DEF HasTransit
  <2> HIDE DEF l
  <2> QED  BY <1>3, <1>7, <2>1, <2>2
<1> QED  BY <1>10, <1>11, <1>12 DEF u

\* A target that is in the list.
Valid(t) == t \in Target /\ OnePerVia(t) /\ t.seq \in Seqs /\ t.life # 0
SameVias(t, u) == \A v : HasTransit(t, v) <=> HasTransit(u, v)

\* What is known of target t0, where some of the transits of a DAO were processed:
\* without a flag raised nothing has changed, and transits are new or gone only
\* with the flag of the topological sort.
Got(t0, known) ==
    {s \in [t : Target, new : BOOLEAN, upd : BOOLEAN] :
        /\ Valid(s.t)
        /\ ~s.new => known /\ SameVias(s.t, t0)
        /\ (~s.new /\ ~s.upd) => s.t = t0}

LEMMA LifeFacts == Life \in 0..Life /\ Life # 0  BY RplAssumption
LEMMA SeqsFacts == \A q \in Seqs : q \in 0..(SeqTop - 1)  BY RplAssumption

LEMMA FreshTarget ==
    ASSUME NEW q \in Seqs
    PROVE  Valid([seq |-> q, life |-> Life, transits |-> <<>>])
<1> DEFINE t == [seq |-> q, life |-> Life, transits |-> <<>>]
<1>1. <<>> \in Seq(Transit)  BY EmptyFacts
<1>2. t \in Target  BY <1>1, LifeFacts, SeqsFacts DEF Target
<1>3. OnePerVia(t)  BY DEF OnePerVia
<1>4. t.seq = q /\ t.life # 0  BY LifeFacts
<1> QED  BY <1>2, <1>3, <1>4 DEF Valid

LEMMA TransitForFacts ==
    ASSUME NEW t, Valid(t), NEW q \in Seqs, NEW ext, NEW e \in Parent
    PROVE  LET u == TransitFor(t, q, ext, e)
           IN  /\ Valid(u)
               /\ ~Accepted(q, ext, t) => u = t
               /\ (Accepted(q, ext, t) /\ OnlyUpdated(t, q, e)) => SameVias(u, t)
<1> DEFINE r == Refreshed(t, q, ext)
           c == Cleared(r, q)
           u == TransitFor(t, q, ext, e)
<1>1. CASE ~Accepted(q, ext, t)
  <2>1. u = t  BY <1>1 DEF TransitFor
  <2> HIDE DEF u
  <2> QED  BY <1>1, <2>1 DEF u
<1>2. CASE Accepted(q, ext, t)
  <2>1. u = AddTransit(c, e)  BY <1>2 DEF TransitFor
  <2>2. r \in Target /\ r.transits = t.transits /\ r.seq = t.seq /\ r.life # 0
    <3>1. CASE Flexible(q, ext)
      <4>1. r = [t EXCEPT !.life = Life]  BY <3>1 DEF Refreshed
      <4> QED  BY <4>1, LifeFacts DEF Valid, Target
    <3>2. CASE ~Flexible(q, ext)  BY <3>2 DEF Refreshed, Valid
    <3> QED  BY <3>1, <3>2
  <2>3. OnePerVia(r)  BY <2>2 DEF OnePerVia, Valid
  <2> HIDE DEF r
  <2>4. CASE SeqCompare(q, r.seq) = "equal"
    <3>1. c = r  BY <2>4 DEF Cleared
    <3>2. c \in Target /\ OnePerVia(c) /\ c.life # 0 /\ c.seq \in Seqs  BY <2>2, <2>3, <3>1 DEF Valid
    <3> HIDE DEF c, u
    <3>3. /\ u \in Target /\ OnePerVia(u) /\ u.seq = c.seq /\ u.life = c.life
          /\ \A v : HasTransit(u, v) <=> v = e.via \/ HasTransit(c, v)
      BY <2>1, <3>2, AddTransitFacts
    <3>4. Valid(u)  BY <3>2, <3>3 DEF Valid
    <3>5. \A v : HasTransit(c, v) <=> HasTransit(t, v)  BY <2>2, <3>1 DEF HasTransit
    <3>6. OnlyUpdated(t, q, e) => SameVias(u, t)  BY <3>3, <3>5 DEF OnlyUpdated, SameVias
    <3> QED  BY <1>2, <3>4, <3>6 DEF u
  <2>5. CASE SeqCompare(q, r.seq) # "equal"
    <3>1. c = [seq |-> q, life |-> Life, transits |-> <<>>]  BY <2>5 DEF Cleared
    <3>2. c \in Target
      <4>1. <<>> \in Seq(Transit)  BY EmptyFacts
      <4> QED  BY <3>1, <4>1, LifeFacts, SeqsFacts DEF Target
    <3>3. OnePerVia(c)  BY <3>1 DEF OnePerVia
    <3>4. c.seq = q /\ c.life # 0  BY <3>1, LifeFacts
    <3> HIDE DEF c, u
    <3>5. u \in Target /\ OnePerVia(u) /\ u.seq = c.seq /\ u.life = c.life
      BY <2>1, <3>2, <3>3, AddTransitFacts
    <3>6. Valid(u)  BY <3>4, <3>5 DEF Valid
    <3>7. ~OnlyUpdated(t, q, e)  BY <2>2, <2>5 DEF OnlyUpdated
    <3> QED  BY <1>2, <3>6, <3>7 DEF u
  <2> QED  BY <2>4, <2>5
<1> QED  BY <1>1, <1>2

LEMMA TransitReceivedFacts ==
    ASSUME NEW t0, NEW known \in BOOLEAN, NEW s \in Got(t0, known), NEW q \in Seqs, NEW ext, NEW e \in Parent
    PROVE  TransitReceived(s, q, ext, e) \in Got(t0, known)
<1> DEFINE u == TransitFor(s.t, q, ext, e)
           a == Accepted(q, ext, s.t)
           o == OnlyUpdated(s.t, q, e)
           r == TransitReceived(s, q, ext, e)
<1>1. Valid(s.t) /\ s.new \in BOOLEAN /\ s.upd \in BOOLEAN  BY DEF Got
<1>2. Valid(u) /\ (~a => u = s.t) /\ (a /\ o => SameVias(u, s.t))  BY <1>1, TransitForFacts
<1>3. a \in BOOLEAN /\ o \in BOOLEAN  BY DEF Accepted, OnlyUpdated
<1>4. r = [t |-> u, new |-> s.new \/ (a /\ ~o), upd |-> s.upd \/ (a /\ o)]
  BY DEF TransitReceived
<1> HIDE DEF u, a, o, r
<1>5. r.t = u /\ r.new = (s.new \/ (a /\ ~o)) /\ r.upd = (s.upd \/ (a /\ o))  BY <1>4
<1>6. r \in [t : Target, new : BOOLEAN, upd : BOOLEAN]
  <2>1. u \in Target  BY <1>2 DEF Valid
  <2> QED  BY <1>1, <1>3, <1>4, <2>1
<1>7. ~r.new => known /\ SameVias(r.t, t0)
  <2> SUFFICES ASSUME ~s.new, ~(a /\ ~o) PROVE known /\ SameVias(u, t0)  BY <1>3, <1>5
  <2>1. known /\ SameVias(s.t, t0)  BY DEF Got
  <2>2. SameVias(u, s.t)  BY <1>2, <1>3 DEF SameVias
  <2> QED  BY <2>1, <2>2 DEF SameVias
<1>8. (~r.new /\ ~r.upd) => r.t = t0
  <2> SUFFICES ASSUME ~s.new, ~s.upd, ~(a /\ ~o), ~(a /\ o) PROVE u = t0  BY <1>3, <1>5
  <2>1. ~a  BY <1>3
  <2>2. s.t = t0  BY DEF Got
  <2> QED  BY <1>2, <2>1, <2>2
<1>9. r \in Got(t0, known)  BY <1>2, <1>5, <1>6, <1>7, <1>8 DEF Got
<1> QED  BY <1>9 DEF r

LEMMA ReceivedFacts ==
    ASSUME NEW x \in Node, NEW q \in Seqs, NEW ext, NEW l \in Seq(Parent), x \in Known => Valid(target[x])
    PROVE  Received(x, q, ext, l) \in Got(target[x], x \in Known)
<1> DEFINE N == Len(l)
           start == IF x \in Known THEN target[x] ELSE [seq |-> q, life |-> Life, transits |-> <<>>]
           base == [t |-> start, new |-> x \notin Known, upd |-> FALSE]
           Op(t, k) == TransitReceived(t, q, ext, l[k])
           I == [k \in 0..N |-> Got(target[x], x \in Known)]
           step == [k \in 1..N |-> [t \in I[k - 1] |-> Op(t, k)]]
           Eq(f) == f = [k \in 0..N |-> IF k = 0 THEN base ELSE Op(f[k - 1], k)]
           loop == CHOOSE f : Eq(f)
<1>1. N \in Nat  OBVIOUS
<1>2. base \in I[0]
  <2>1. 0 \in 0..N  BY <1>1
  <2>2. Valid(start)
    <3>1. CASE x \in Known  BY <3>1
    <3>2. CASE x \notin Known
      <4>1. start = [seq |-> q, life |-> Life, transits |-> <<>>]  BY <3>2
      <4> QED  BY <4>1, FreshTarget
    <3> QED  BY <3>1, <3>2
  <2>3. x \in Known => start = target[x]  OBVIOUS
  <2> HIDE DEF start
  <2>4. base.t = start /\ base.new = (x \notin Known) /\ base.upd = FALSE  OBVIOUS
  <2>5. base \in [t : Target, new : BOOLEAN, upd : BOOLEAN]  BY <2>2 DEF Valid
  <2> HIDE DEF base
  <2>6. ~base.new => x \in Known /\ SameVias(base.t, target[x])  BY <2>3, <2>4 DEF SameVias
  <2>7. (~base.new /\ ~base.upd) => base.t = target[x]  BY <2>3, <2>4
  <2>8. base \in Got(target[x], x \in Known)  BY <2>2, <2>4, <2>5, <2>6, <2>7 DEF Got
  <2> QED  BY <2>1, <2>8
<1>3. ASSUME NEW k \in 1..N, NEW t \in I[k - 1] PROVE Op(t, k) \in I[k]
  <2>1. k \in 0..N /\ k - 1 \in 0..N /\ l[k] \in Parent  BY <1>1
  <2>2. t \in Got(target[x], x \in Known)  BY <2>1
  <2>3. (x \in Known) \in BOOLEAN  OBVIOUS
  <2>4. TransitReceived(t, q, ext, l[k]) \in Got(target[x], x \in Known)  BY <2>1, <2>2, <2>3, TransitReceivedFacts
  <2> QED  BY <2>1, <2>4
<1>4. Rounds(step, I, N)
  <2> HIDE DEF I, Op, N
  <2> QED  BY <1>3 DEF Rounds
<1>5. PICK g : LoopRun(g, N, base, step, I)
  <2> HIDE DEF I, step, N, base, Op
  <2> QED  BY <1>1, <1>2, <1>4, LoopInvariant
<1>6. Eq(g)
  <2> HIDE DEF I, N, base, Op
  <2>1. /\ g = [k \in 0..N |-> g[k]] /\ g[0] = base /\ \A k \in 0..N : g[k] \in I[k]
        /\ \A k \in 1..N : g[k] = step[k][g[k - 1]]
    <3> HIDE DEF step
    <3> QED  BY <1>5 DEF LoopRun
  <2>2. ASSUME NEW k \in 1..N PROVE g[k] = Op(g[k - 1], k)
    <3>1. k - 1 \in 0..N  BY <1>1
    <3>2. g[k - 1] \in I[k - 1]  BY <2>1, <3>1
    <3> QED  BY <2>1, <3>2
  <2> DEFINE h == [k \in 0..N |-> IF k = 0 THEN base ELSE Op(g[k - 1], k)]
  <2> HIDE DEF step
  <2>3. ASSUME NEW k \in 0..N PROVE g[k] = h[k]
    <3>1. CASE k = 0  BY <2>1, <3>1
    <3>2. CASE k # 0
      <4>1. k \in 1..N  BY <1>1, <3>2
      <4> QED  BY <2>2, <3>2, <4>1
    <3> QED  BY <3>1, <3>2
  <2>4. [k \in 0..N |-> g[k]] = h  BY <2>3
  <2> QED  BY <2>1, <2>4
<1>7. Eq(loop)
  <2> HIDE DEF Eq
  <2> QED  BY <1>6
<1> HIDE DEF loop
<1>8. loop[0] = base /\ \A k \in 1..N : loop[k] = Op(loop[k - 1], k)
  <2> HIDE DEF N, base, Op
  <2> QED  BY <1>1, <1>7
<1>9. \A k \in 1..N : loop[k - 1] \in I[k - 1] => loop[k] \in I[k]
  <2> HIDE DEF I, N, Op, Eq, step, base
  <2> QED  BY <1>3, <1>8
<1>10. loop[N] \in I[N]
  <2> HIDE DEF Op, Eq, step
  <2>1. loop[0] \in I[0]  BY <1>2, <1>8
  <2> HIDE DEF I, N, base
  <2> QED  BY <1>1, <1>9, <2>1, LoopEnd
<1>11. Received(x, q, ext, l) = loop[N]  BY DEF Received, loop
<1> QED
  <2>1. N \in 0..N  BY <1>1
  <2> HIDE DEF N
  <2> QED  BY <1>10, <1>11, <2>1

-----------------------------------------------------------------------------
(***************************************************************************)
(* Kahn's algorithm: the counters.  W are the edges that still count, pairs *)
(* of parent and child; L is the set of all targets.                        *)
(***************************************************************************)
Graphs == [graph : Seq(Node), top : Seq(Node), sorted : Seq(Node), kids : [Nodes -> Seq(Node)],
           in : [Node -> Nat], connected : SUBSET Node]

Unsortd(g) == Range(g.graph) \cup Range(g.top)
Parents(W, x) == {p \in Node : <<p, x>> \in W}

\* Every target is in one list, once.
Split(L, g) ==
    /\ IsInjective(g.graph) /\ IsInjective(g.top) /\ IsInjective(g.sorted)
    /\ Range(g.graph) \cap Range(g.top) = {} /\ Unsortd(g) \cap Range(g.sorted) = {}
    /\ L = Unsortd(g) \cup Range(g.sorted)

\* The graph are the targets with edges that count.
Counted(L, g, W) ==
    /\ W \in SUBSET (Node \X L)
    /\ \A x \in Node : g.in[x] = Cardinality(Parents(W, x))
    /\ \A x \in L : x \in Range(g.graph) <=> g.in[x] # 0

LEMMA GraphFields ==
    ASSUME NEW g \in Graphs
    PROVE  /\ g.graph \in Seq(Node) /\ g.top \in Seq(Node) /\ g.sorted \in Seq(Node)
           /\ g.kids \in [Nodes -> Seq(Node)] /\ g.in \in [Node -> Nat] /\ g.connected \in SUBSET Node
  BY DEF Graphs

LEMMA ParentsFinite ==
    ASSUME NEW W, NEW x
    PROVE  /\ IsFiniteSet(Parents(W, x)) /\ Cardinality(Parents(W, x)) \in Nat
           /\ Cardinality(Parents(W, x)) = 0 <=> Parents(W, x) = {}
<1>1. Parents(W, x) \in SUBSET Node /\ IsFiniteSet(Node)  BY RplAssumption DEF Parents
<1>2. IsFiniteSet(Parents(W, x))  BY <1>1, FS_Subset
<1> QED  BY <1>2, FS_CardinalityType, FS_EmptySet

LEMMA ParentRemoved ==
    ASSUME NEW W, NEW p \in Node, NEW x \in Node, <<p, x>> \in W
    PROVE  LET V == W \ {<<p, x>>}
           IN  /\ Cardinality(Parents(W, x)) > 0
               /\ Cardinality(Parents(V, x)) = Cardinality(Parents(W, x)) - 1
               /\ \A y \in Node \ {x} : Parents(V, y) = Parents(W, y)
<1> DEFINE V == W \ {<<p, x>>}
<1>1. p \in Parents(W, x) /\ Parents(V, x) = Parents(W, x) \ {p}  BY DEF Parents
<1>2. \A y \in Node \ {x} : Parents(V, y) = Parents(W, y)  BY DEF Parents
<1>3. Cardinality(Parents(V, x)) = Cardinality(Parents(W, x)) - 1
  BY <1>1, ParentsFinite, FS_RemoveElement
<1>4. Cardinality(Parents(W, x)) \in Nat /\ Cardinality(Parents(W, x)) # 0  BY <1>1, ParentsFinite
<1> QED  BY <1>2, <1>3, <1>4

\* The edge from p to x no longer counts, and h is the graph then.
Removed(L, g, W, p, x, h) ==
    /\ h \in Graphs /\ Split(L, h) /\ Counted(L, h, W \ {<<p, x>>})
    /\ h.kids = g.kids /\ h.sorted = g.sorted /\ h.connected = g.connected
    /\ Unsortd(h) = Unsortd(g) /\ Range(h.graph) \subseteq Range(g.graph)

\* The counter of a child is never too low: "topo sort count error" is not
\* reached.
LEMMA EdgeRemovedFacts ==
    ASSUME NEW L \in SUBSET Node, NEW g \in Graphs, NEW W, Split(L, g), Counted(L, g, W),
           NEW p \in Node, NEW x \in Node, <<p, x>> \in W
    PROVE  Removed(L, g, W, p, x, EdgeRemoved(g, x)) /\ g.in[x] > 0
<1> DEFINE h == EdgeRemoved(g, x)
           V == W \ {<<p, x>>}
           n == g.in[x]
           gr == Only(g.graph, Node \ {x})
           tp == Append(g.top, x)
<1>1. /\ n = Cardinality(Parents(W, x)) /\ n \in Nat /\ n > 0
      /\ Cardinality(Parents(V, x)) = n - 1
      /\ \A y \in Node \ {x} : Parents(V, y) = Parents(W, y)
  <2>1. n = Cardinality(Parents(W, x))  BY DEF Counted
  <2>2. /\ Cardinality(Parents(W, x)) > 0 /\ Cardinality(Parents(V, x)) = Cardinality(Parents(W, x)) - 1
        /\ \A y \in Node \ {x} : Parents(V, y) = Parents(W, y)
    BY ParentRemoved
  <2> HIDE DEF n, V
  <2> QED  BY <2>1, <2>2, ParentsFinite
<1>2. x \in L /\ x \in Range(g.graph) /\ V \in SUBSET (Node \X L)  BY <1>1 DEF Counted
<1>3. /\ gr \in Seq(Node) /\ IsInjective(gr) /\ Range(gr) = Range(g.graph) \ {x}
  <2>1. g.graph \in Seq(Node) /\ IsInjective(g.graph)  BY GraphFields DEF Split
  <2>2. /\ gr \in Seq(Node) /\ IsInjective(gr) /\ Range(gr) = Range(g.graph) \cap (Node \ {x})
    BY <2>1, OnlyFacts
  <2>3. Range(g.graph) \subseteq Node  BY <2>1, RangeFacts
  <2> QED  BY <2>2, <2>3
<1>4. /\ tp \in Seq(Node) /\ IsInjective(tp) /\ Range(tp) = Range(g.top) \cup {x}
  <2>1. g.top \in Seq(Node) /\ IsInjective(g.top) /\ x \notin Range(g.top)
    BY <1>2, GraphFields DEF Split
  <2> QED  BY <2>1, AppendFacts
<1> HIDE DEF gr, tp, n
<1>5. h.in = [g.in EXCEPT ![x] = n - 1] /\ h.in \in [Node -> Nat]
  <2>1. h.in = [g.in EXCEPT ![x] = n - 1]
    BY <1>1, GraphFields DEF EdgeRemoved, n, Graphs
  <2>2. n - 1 \in Nat  BY <1>1
  <2> HIDE DEF h
  <2> QED  BY <2>1, <2>2, GraphFields
<1>6. \A y \in Node : h.in[y] = Cardinality(Parents(V, y))
  <2>1. \A y \in Node \ {x} : h.in[y] = g.in[y]  BY <1>5, GraphFields
  <2>2. h.in[x] = n - 1  BY <1>5, GraphFields
  <2> HIDE DEF h, V
  <2> QED  BY <1>1, <2>1, <2>2 DEF Counted
<1>7. CASE n = 1
  <2>1. h = [g EXCEPT !.in[x] = 0, !.graph = gr, !.top = tp]
    BY <1>1, <1>7, GraphFields DEF EdgeRemoved, gr, tp, n
  <2>2. /\ h.graph = gr /\ h.top = tp /\ h.kids = g.kids /\ h.sorted = g.sorted
        /\ h.connected = g.connected
    BY <2>1 DEF Graphs
  <2>3. h \in Graphs
    <3>1. h = [g EXCEPT !.in = h.in, !.graph = gr, !.top = tp]  BY <2>1 DEF Graphs
    <3> HIDE DEF h
    <3> QED  BY <1>3, <1>4, <1>5, <3>1 DEF Graphs
  <2>4. Unsortd(h) = Unsortd(g)  BY <1>2, <1>3, <1>4, <2>2 DEF Unsortd
  <2>5. Split(L, h)
    <3>1. Range(h.graph) \cap Range(h.top) = {}  BY <1>3, <1>4, <2>2 DEF Split
    <3> HIDE DEF h
    <3> QED  BY <1>3, <1>4, <2>2, <2>4, <3>1 DEF Split
  <2>6. h.in[x] = 0 /\ \A y \in Node \ {x} : h.in[y] = g.in[y]  BY <1>1, <1>5, <1>7, GraphFields
  <2>7. \A y \in L : y \in Range(h.graph) <=> h.in[y] # 0
    <3> HIDE DEF h
    <3> QED  BY <1>3, <2>2, <2>6 DEF Counted
  <2> HIDE DEF h, V
  <2>8. Counted(L, h, V)  BY <1>2, <1>6, <2>7 DEF Counted
  <2>9. Range(h.graph) \subseteq Range(g.graph)  BY <1>3, <2>2
  <2> QED  BY <1>1, <2>2, <2>3, <2>4, <2>5, <2>8, <2>9 DEF h, V, n, Removed
<1>8. CASE n # 1
  <2>1. h = [g EXCEPT !.in[x] = n - 1]  BY <1>1, <1>8, GraphFields DEF EdgeRemoved, n
  <2>2. /\ h.graph = g.graph /\ h.top = g.top /\ h.kids = g.kids /\ h.sorted = g.sorted
        /\ h.connected = g.connected
    BY <2>1 DEF Graphs
  <2>3. h \in Graphs
    <3>1. h = [g EXCEPT !.in = h.in]  BY <2>1 DEF Graphs
    <3> HIDE DEF h
    <3> QED  BY <1>5, <3>1 DEF Graphs
  <2>4. h.in[x] # 0 /\ \A y \in Node \ {x} : h.in[y] = g.in[y]  BY <1>1, <1>5, <1>8, GraphFields
  <2> HIDE DEF h, V
  <2>5. Unsortd(h) = Unsortd(g) /\ Split(L, h)  BY <2>2 DEF Unsortd, Split
  <2>6. \A y \in L : y \in Range(h.graph) <=> h.in[y] # 0  BY <1>2, <2>2, <2>4 DEF Counted
  <2>7. Counted(L, h, V)  BY <1>2, <1>6, <2>6 DEF Counted
  <2> QED  BY <1>1, <2>2, <2>3, <2>5, <2>7 DEF h, V, n, Removed
<1> QED  BY <1>7, <1>8

-----------------------------------------------------------------------------
(***************************************************************************)
(* Kahn's algorithm: between two steps.                                     *)
(***************************************************************************)
\* The edges that count are those from targets that are not sorted.
Counting(g) == {e \in Unsortd(g) \X Node : e[2] \in Range(g.kids[e[1]])}

\* Whoever holds the children of the root, and the children of its own sorted
\* targets, holds the connected ones; and these are closed under sorted parents.
Least(g) ==
    \A C \in SUBSET Node :
        (Range(g.kids[Root]) \subseteq C /\ \A p \in C : p \in Range(g.sorted) => Range(g.kids[p]) \subseteq C)
            => g.connected \subseteq C
Spread(g) ==
    /\ Range(g.kids[Root]) \subseteq g.connected
    /\ \A p \in g.connected : p \in Range(g.sorted) => Range(g.kids[p]) \subseteq g.connected

\* Among sorted targets, edges lead forward.
Ahead(g) ==
    \A p \in Range(g.sorted) : \A x \in Range(g.kids[p]) :
        x \in Range(g.sorted) => Before(g.sorted, p, x)

Kahn(L, tg, g) ==
    /\ g \in Graphs /\ Split(L, g) /\ Counted(L, g, Counting(g))
    /\ Children(L, tg, g.kids)
    /\ Ahead(g)
    /\ g.connected \subseteq L /\ Least(g) /\ Spread(g)
    /\ Spans(L, tg, g.kids)

LEMMA BeforeAppend ==
    ASSUME NEW S, NEW s \in Seq(S), NEW z \in S
    PROVE  /\ \A x, y : Before(s, x, y) => Before(Append(s, z), x, y)
           /\ \A x \in Range(s) : Before(Append(s, z), x, z)
<1> DEFINE r == Append(s, z)
           n == Len(s)
<1>1. n \in Nat /\ DOMAIN s = 1..n  BY RangeFacts
<1>2. r \in Seq(S) /\ Len(r) = n + 1 /\ (\A i \in 1..n : r[i] = s[i]) /\ r[n + 1] = z
  BY AppendFacts
<1>3. DOMAIN r = 1..(n + 1)  BY <1>2
<1> HIDE DEF r, n
<1>4. n + 1 \in 1..(n + 1) /\ \A i \in 1..n : i \in 1..(n + 1) /\ i < n + 1  BY <1>1
<1>5. ASSUME NEW x, NEW y, Before(s, x, y) PROVE Before(r, x, y)
  <2>1. PICK i \in 1..n, j \in 1..n : i < j /\ s[i] = x /\ s[j] = y  BY <1>1, <1>5 DEF Before
  <2>2. i \in DOMAIN r /\ j \in DOMAIN r /\ r[i] = x /\ r[j] = y  BY <1>2, <1>3, <1>4, <2>1
  <2> QED  BY <2>1, <2>2 DEF Before
<1>6. ASSUME NEW x \in Range(s) PROVE Before(r, x, z)
  <2>1. PICK i \in 1..n : s[i] = x  BY <1>1 DEF Range
  <2>2. i \in DOMAIN r /\ n + 1 \in DOMAIN r /\ i < n + 1 /\ r[i] = x /\ r[n + 1] = z
    BY <1>2, <1>3, <1>4, <2>1
  <2> QED  BY <2>2 DEF Before
<1> QED  BY <1>5, <1>6 DEF r

\* Where k of the children of p have been told that p is sorted.  G is the graph
\* before.
Taking(L, G, p, k) ==
    {h \in Graphs :
        /\ Split(L, h) /\ Counted(L, h, Counting(G) \ {<<p, G.kids[p][j]>> : j \in 1..k})
        /\ h.kids = G.kids /\ h.sorted = Append(G.sorted, p) /\ Unsortd(h) = Unsortd(G) \ {p}
        /\ G.connected \subseteq h.connected /\ h.connected \subseteq L
        /\ p \in h.connected <=> p \in G.connected
        /\ p \in G.connected => \A j \in 1..k : G.kids[p][j] \in h.connected
        /\ Least(h)}

LEMMA TakingStep ==
    ASSUME NEW L \in SUBSET Node, NEW tg, NEW G, Kahn(L, tg, G), G.top # <<>>, NEW p, p = Head(G.top),
           NEW k \in 1..Len(G.kids[p]), NEW h \in Taking(L, G, p, k - 1)
    PROVE  ParentSorted(h, p, G.kids[p][k]) \in Taking(L, G, p, k)
<1> DEFINE kids == G.kids[p]
           x == kids[k]
           W == Counting(G)
           V == W \ {<<p, kids[j]>> : j \in 1..(k - 1)}
           U == W \ {<<p, kids[j]>> : j \in 1..k}
           e == EdgeRemoved(h, x)
           f == ParentSorted(h, p, x)
<1>1. /\ G \in Graphs /\ Split(L, G) /\ Counted(L, G, W) /\ Children(L, tg, G.kids)
  BY DEF Kahn
<1>2. p \in Node /\ p \in Range(G.top) /\ p \in Unsortd(G) /\ p \in L
  <2>1. G.top \in Seq(Node)  BY <1>1, GraphFields
  <2> QED  BY <1>1, <2>1, TailFacts DEF Unsortd, Split
<1>3. /\ p \in Nodes /\ kids \in Seq(Node) /\ IsInjective(kids) /\ k \in 1..Len(kids) /\ Len(kids) \in Nat
      /\ DOMAIN kids = 1..Len(kids) /\ x \in Range(kids) /\ x \in Node /\ x \in L
  <2>1. p \in Nodes /\ kids \in Seq(Node)  BY <1>1, <1>2, GraphFields DEF Nodes
  <2>2. IsInjective(kids)  BY <1>1, <2>1 DEF Children
  <2> HIDE DEF kids
  <2>3. Len(kids) \in Nat /\ DOMAIN kids = 1..Len(kids) /\ x \in Range(kids) /\ x \in Node
    BY <2>1, RangeFacts DEF kids
  <2>4. x \in L  BY <1>1, <2>1, <2>3 DEF Children, kids
  <2> QED  BY <2>1, <2>2, <2>3, <2>4 DEF kids
<1>4. x # p
  <2>1. <<p, x>> \in W  BY <1>2, <1>3 DEF Counting
  <2>2. p \in Parents(W, x)  BY <1>2, <2>1 DEF Parents
  <2>3. G.in[x] # 0  BY <1>1, <1>3, <2>2, ParentsFinite DEF Counted
  <2>4. x \in Range(G.graph)  BY <1>1, <1>3, <2>3 DEF Counted
  <2> QED  BY <1>1, <1>2, <2>4 DEF Split
<1>5. <<p, x>> \in V
  <2>1. <<p, x>> \in W  BY <1>2, <1>3 DEF Counting
  <2>2. \A j \in 1..(k - 1) : kids[j] # x
    <3> SUFFICES ASSUME NEW j \in 1..(k - 1) PROVE kids[j] # kids[k]  OBVIOUS
    <3>1. j \in 1..Len(kids) /\ j # k  BY <1>3
    <3> HIDE DEF kids
    <3> QED  BY <1>3, <3>1 DEF IsInjective
  <2> HIDE DEF W, x, kids
  <2> QED  BY <2>1, <2>2
<1>6. U = V \ {<<p, x>>}
  <2>1. \A j \in 1..k : j \in 1..(k - 1) \/ j = k  BY <1>3
  <2>2. k \in 1..k /\ \A j \in 1..(k - 1) : j \in 1..k  BY <1>3
  <2> HIDE DEF W, kids
  <2> QED  BY <2>1, <2>2
<1>7. /\ h \in Graphs /\ Split(L, h) /\ Counted(L, h, V) /\ h.kids = G.kids
      /\ h.sorted = Append(G.sorted, p) /\ Unsortd(h) = Unsortd(G) \ {p}
      /\ G.connected \subseteq h.connected /\ h.connected \subseteq L
      /\ p \in h.connected <=> p \in G.connected
      /\ p \in G.connected => \A j \in 1..(k - 1) : kids[j] \in h.connected
      /\ Least(h)
  BY DEF Taking
<1> HIDE DEF kids, x, W, V, U
<1>8. /\ e \in Graphs /\ Split(L, e) /\ Counted(L, e, U)
      /\ e.kids = h.kids /\ e.sorted = h.sorted /\ e.connected = h.connected
      /\ Unsortd(e) = Unsortd(h)
  <2>1. /\ e \in Graphs /\ Split(L, e) /\ Counted(L, e, V \ {<<p, x>>})
        /\ e.kids = h.kids /\ e.sorted = h.sorted /\ e.connected = h.connected
        /\ Unsortd(e) = Unsortd(h)
    <3>1. h \in Graphs /\ Split(L, h) /\ Counted(L, h, V)  BY <1>7
    <3>2. Removed(L, h, V, p, x, e)
      <4>1. p \in Node /\ x \in Node /\ <<p, x>> \in V  BY <1>2, <1>3, <1>5
      <4> QED  BY <3>1, <4>1, EdgeRemovedFacts
    <3> HIDE DEF e
    <3> QED  BY <3>2 DEF Removed
  <2> HIDE DEF e
  <2> QED  BY <1>6, <2>1
<1>9. CASE p \notin h.connected
  <2>1. f = e  BY <1>9 DEF ParentSorted
  <2> HIDE DEF e, f
  <2>2. Least(f)  BY <1>7, <1>8, <2>1 DEF Least
  <2>3. f \in Taking(L, G, p, k)
    BY <1>7, <1>8, <1>9, <2>1, <2>2 DEF Taking, U, W, kids
  <2> QED  BY <2>3 DEF f, x, kids
<1>10. CASE p \in h.connected
  <2>1. f = [e EXCEPT !.connected = @ \cup {x}]  BY <1>10 DEF ParentSorted
  <2> HIDE DEF e, f
  <2>2. /\ f \in Graphs /\ f.graph = e.graph /\ f.top = e.top /\ f.sorted = e.sorted /\ f.kids = e.kids
        /\ f.in = e.in /\ f.connected = e.connected \cup {x}
    BY <1>3, <1>8, <2>1 DEF Graphs
  <2>3. Split(L, f) /\ Counted(L, f, U) /\ Unsortd(f) = Unsortd(e)
    BY <1>8, <2>2 DEF Split, Counted, Unsortd
  <2>4. Least(f)
    <3> SUFFICES ASSUME NEW C \in SUBSET Node, Range(f.kids[Root]) \subseteq C,
                        \A q \in C : q \in Range(f.sorted) => Range(f.kids[q]) \subseteq C
                 PROVE  f.connected \subseteq C
      BY DEF Least
    <3>1. h.connected \subseteq C  BY <1>7, <1>8, <2>2 DEF Least
    <3>2. p \in Range(f.sorted)
      <4>1. G.sorted \in Seq(Node)  BY <1>1, GraphFields
      <4>2. p \in Range(Append(G.sorted, p))  BY <1>2, <4>1, AppendFacts
      <4> QED  BY <1>7, <1>8, <2>2, <4>2
    <3>3. x \in C
      <4>1. p \in C  BY <1>10, <3>1
      <4>2. Range(f.kids[p]) \subseteq C  BY <3>2, <4>1
      <4>3. f.kids[p] = kids  BY <1>7, <1>8, <2>2 DEF kids
      <4> QED  BY <1>3, <4>2, <4>3
    <3> QED  BY <1>8, <2>2, <3>1, <3>3
  <2>5. \A j \in 1..k : kids[j] \in f.connected
    <3>1. \A j \in 1..k : j \in 1..(k - 1) \/ j = k  BY <1>3
    <3>2. kids[k] = x  BY DEF x
    <3> QED  BY <1>7, <1>8, <1>10, <2>2, <3>1, <3>2
  <2>6. f.connected \subseteq L /\ (p \in f.connected <=> p \in G.connected) /\ G.connected \subseteq f.connected
    BY <1>3, <1>4, <1>7, <1>8, <2>2
  <2>7. f \in Taking(L, G, p, k)
    BY <1>7, <1>8, <2>2, <2>3, <2>4, <2>5, <2>6 DEF Taking, U, W, kids
  <2> QED  BY <2>7 DEF f, x, kids
<1> QED  BY <1>9, <1>10

LEMMA TakingBase ==
    ASSUME NEW L \in SUBSET Node, NEW tg, NEW G, Kahn(L, tg, G), G.top # <<>>, NEW p, p = Head(G.top)
    PROVE  [G EXCEPT !.top = Tail(@), !.sorted = Append(@, p)] \in Taking(L, G, p, 0)
<1> DEFINE h == [G EXCEPT !.top = Tail(@), !.sorted = Append(@, p)]
<1>1. G \in Graphs /\ Split(L, G) /\ Counted(L, G, Counting(G)) /\ Least(G) /\ G.connected \subseteq L
  BY DEF Kahn
<1>2. /\ p \in Node /\ p \in Range(G.top) /\ Tail(G.top) \in Seq(Node) /\ IsInjective(Tail(G.top))
      /\ p \notin Range(Tail(G.top)) /\ Range(G.top) = Range(Tail(G.top)) \cup {p}
  <2>1. G.top \in Seq(Node) /\ IsInjective(G.top)  BY <1>1, GraphFields DEF Split
  <2> QED  BY <2>1, TailFacts
<1>3. p \notin Range(G.sorted) /\ p \notin Range(G.graph)  BY <1>1, <1>2 DEF Split, Unsortd
<1>4. /\ Append(G.sorted, p) \in Seq(Node) /\ IsInjective(Append(G.sorted, p))
      /\ Range(Append(G.sorted, p)) = Range(G.sorted) \cup {p}
  <2>1. G.sorted \in Seq(Node) /\ IsInjective(G.sorted)  BY <1>1, GraphFields DEF Split
  <2> QED  BY <1>2, <1>3, <2>1, AppendFacts
<1>5. /\ h \in Graphs /\ h.graph = G.graph /\ h.top = Tail(G.top) /\ h.sorted = Append(G.sorted, p)
      /\ h.kids = G.kids /\ h.in = G.in /\ h.connected = G.connected
  BY <1>1, <1>2, <1>4 DEF Graphs
<1> HIDE DEF h
<1>6. Unsortd(h) = Unsortd(G) \ {p}  BY <1>2, <1>3, <1>5 DEF Unsortd
<1>7. Split(L, h)
  <2>1. IsInjective(h.graph) /\ IsInjective(h.top) /\ IsInjective(h.sorted)  BY <1>1, <1>2, <1>4, <1>5 DEF Split
  <2>2. Range(h.graph) \cap Range(h.top) = {}  BY <1>1, <1>2, <1>5 DEF Split
  <2>3. Unsortd(h) \cap Range(h.sorted) = {}  BY <1>1, <1>4, <1>5, <1>6 DEF Split
  <2>4. L = Unsortd(h) \cup Range(h.sorted)
    <3>1. p \in Unsortd(G)  BY <1>2 DEF Unsortd
    <3> QED  BY <1>1, <1>4, <1>5, <1>6, <3>1 DEF Split
  <2> QED  BY <2>1, <2>2, <2>3, <2>4 DEF Split
<1>8. Counting(G) \ {<<p, G.kids[p][j]>> : j \in 1..0} = Counting(G)
  <2>1. {<<p, G.kids[p][j]>> : j \in 1..0} = {}  OBVIOUS
  <2> QED  BY <2>1
<1>9. Counted(L, h, Counting(G))  BY <1>1, <1>5 DEF Counted
<1>10. Least(h)
  <2> SUFFICES ASSUME NEW C \in SUBSET Node, Range(h.kids[Root]) \subseteq C,
                      \A q \in C : q \in Range(h.sorted) => Range(h.kids[q]) \subseteq C
               PROVE  h.connected \subseteq C
    BY DEF Least
  <2>1. \A q \in C : q \in Range(G.sorted) => Range(G.kids[q]) \subseteq C  BY <1>4, <1>5
  <2> QED  BY <1>1, <1>5, <2>1 DEF Least
<1>11. \A j \in 1..0 : G.kids[p][j] \in h.connected  OBVIOUS
<1> QED  BY <1>1, <1>5, <1>6, <1>7, <1>8, <1>9, <1>10, <1>11 DEF Taking, h

\* The first of the top nodes is sorted: one step less to go.
LEMMA TakeTopFacts ==
    ASSUME NEW L \in SUBSET Node, NEW tg, NEW G, Kahn(L, tg, G), G.top # <<>>
    PROVE  LET h == TakeTop(G)
           IN  /\ Kahn(L, tg, h) /\ h.kids = G.kids
               /\ \E p \in Unsortd(G) : Unsortd(h) = Unsortd(G) \ {p}
<1> DEFINE p == Head(G.top)
           kids == G.kids[p]
           N == Len(kids)
           base == [G EXCEPT !.top = Tail(@), !.sorted = Append(@, p)]
           Op(t, k) == ParentSorted(t, p, kids[k])
           I == [k \in 0..N |-> Taking(L, G, p, k)]
           step == [k \in 1..N |-> [t \in I[k - 1] |-> Op(t, k)]]
           Eq(f) == f = [k \in 0..N |-> IF k = 0 THEN base ELSE Op(f[k - 1], k)]
           loop == CHOOSE f : Eq(f)
<1>0. /\ G \in Graphs /\ Split(L, G) /\ Counted(L, G, Counting(G)) /\ Children(L, tg, G.kids)
      /\ Ahead(G) /\ Spread(G) /\ Spans(L, tg, G.kids)
      /\ p \in Node /\ p \in Nodes /\ p \in Range(G.top) /\ p \in Unsortd(G) /\ kids \in Seq(Node)
  <2>1. /\ G \in Graphs /\ Split(L, G) /\ Counted(L, G, Counting(G)) /\ Children(L, tg, G.kids)
        /\ Ahead(G) /\ Spread(G) /\ Spans(L, tg, G.kids)
    BY DEF Kahn
  <2>2. p \in Node /\ p \in Range(G.top)
    <3>1. G.top \in Seq(Node)  BY <2>1, GraphFields
    <3> QED  BY <3>1, TailFacts
  <2> HIDE DEF p
  <2>3. p \in Nodes /\ p \in Unsortd(G)  BY <2>2 DEF Nodes, Unsortd
  <2>4. kids \in Seq(Node)  BY <2>1, <2>3, GraphFields
  <2> QED  BY <2>1, <2>2, <2>3, <2>4
<1>1. N \in Nat  BY <1>0
<1>2. base \in I[0]
  <2>1. 0 \in 0..N  BY <1>1
  <2>2. base \in Taking(L, G, p, 0)
    <3> HIDE DEF p
    <3> QED  BY TakingBase DEF p
  <2> QED  BY <2>1, <2>2
<1>3. ASSUME NEW k \in 1..N, NEW t \in I[k - 1] PROVE Op(t, k) \in I[k]
  <2>1. k \in 0..N /\ k - 1 \in 0..N  BY <1>1
  <2>2. t \in Taking(L, G, p, k - 1)  BY <2>1
  <2>3. Op(t, k) \in Taking(L, G, p, k)
    <3>1. k \in 1..Len(G.kids[p])  OBVIOUS
    <3> HIDE DEF p
    <3> QED  BY <2>2, <3>1, TakingStep DEF p
  <2> QED  BY <2>1, <2>3
<1>4. Rounds(step, I, N)
  <2> HIDE DEF I, Op, N
  <2> QED  BY <1>3 DEF Rounds
<1>5. PICK g : LoopRun(g, N, base, step, I)
  <2> HIDE DEF I, step, N, base, Op
  <2> QED  BY <1>1, <1>2, <1>4, LoopInvariant
<1>6. Eq(g)
  <2> HIDE DEF I, N, base, Op
  <2>1. /\ g = [k \in 0..N |-> g[k]] /\ g[0] = base /\ \A k \in 0..N : g[k] \in I[k]
        /\ \A k \in 1..N : g[k] = step[k][g[k - 1]]
    <3> HIDE DEF step
    <3> QED  BY <1>5 DEF LoopRun
  <2>2. ASSUME NEW k \in 1..N PROVE g[k] = Op(g[k - 1], k)
    <3>1. k - 1 \in 0..N  BY <1>1
    <3>2. g[k - 1] \in I[k - 1]  BY <2>1, <3>1
    <3> QED  BY <2>1, <3>2
  <2> DEFINE h == [k \in 0..N |-> IF k = 0 THEN base ELSE Op(g[k - 1], k)]
  <2> HIDE DEF step
  <2>3. ASSUME NEW k \in 0..N PROVE g[k] = h[k]
    <3>1. CASE k = 0  BY <2>1, <3>1
    <3>2. CASE k # 0
      <4>1. k \in 1..N  BY <1>1, <3>2
      <4> QED  BY <2>2, <3>2, <4>1
    <3> QED  BY <3>1, <3>2
  <2>4. [k \in 0..N |-> g[k]] = h  BY <2>3
  <2> QED  BY <2>1, <2>4
<1>7. Eq(loop)
  <2> HIDE DEF Eq
  <2> QED  BY <1>6
<1> HIDE DEF loop
<1>8. loop[0] = base /\ \A k \in 1..N : loop[k] = Op(loop[k - 1], k)
  <2> HIDE DEF N, base, Op
  <2> QED  BY <1>1, <1>7
<1>9. \A k \in 1..N : loop[k - 1] \in I[k - 1] => loop[k] \in I[k]
  <2> HIDE DEF I, N, Op, Eq, step, base
  <2> QED  BY <1>3, <1>8
<1>10. loop[N] \in I[N]
  <2> HIDE DEF Op, Eq, step
  <2>1. loop[0] \in I[0]  BY <1>2, <1>8
  <2> HIDE DEF I, N, base
  <2> QED  BY <1>1, <1>9, <2>1, LoopEnd
<1>11. TakeTop(G) = loop[N]  BY DEF TakeTop, loop
<1> DEFINE h == TakeTop(G)
<1>12. h \in Taking(L, G, p, N)
  <2>1. N \in 0..N  BY <1>1
  <2> HIDE DEF N, p
  <2> QED  BY <1>10, <1>11, <2>1
<1> HIDE DEF h, p, loop, I, step, Eq
<1>13. /\ h \in Graphs /\ Split(L, h) /\ Counted(L, h, Counting(G) \ {<<p, kids[j]>> : j \in 1..N})
       /\ h.kids = G.kids /\ h.sorted = Append(G.sorted, p) /\ Unsortd(h) = Unsortd(G) \ {p}
       /\ G.connected \subseteq h.connected /\ h.connected \subseteq L
       /\ p \in h.connected <=> p \in G.connected
       /\ p \in G.connected => \A j \in 1..N : kids[j] \in h.connected
       /\ Least(h)
  BY <1>12 DEF Taking
<1>14. \A x \in Range(kids) : \E j \in 1..N : kids[j] = x  BY <1>0, RangeFacts
<1>15. \A j \in 1..N : kids[j] \in Range(kids)  BY <1>0, RangeFacts
<1>16. Range(h.sorted) = Range(G.sorted) \cup {p}
  <2>1. G.sorted \in Seq(Node)  BY <1>0, GraphFields
  <2> QED  BY <1>0, <1>13, <2>1, AppendFacts
<1>17. Counting(G) \ {<<p, kids[j]>> : j \in 1..N} = Counting(h)
  <2>1. ASSUME NEW e \in Counting(G), e \notin {<<p, kids[j]>> : j \in 1..N} PROVE e \in Counting(h)
    <3>1. e[1] \in Unsortd(G) /\ e[2] \in Node /\ e = <<e[1], e[2]>> /\ e[2] \in Range(G.kids[e[1]])
      BY DEF Counting
    <3>2. e[1] # p
      <4> SUFFICES ASSUME e[1] = p PROVE FALSE  OBVIOUS
      <4>1. \E j \in 1..N : kids[j] = e[2]  BY <1>14, <3>1
      <4> QED  BY <2>1, <3>1, <4>1
    <3> QED  BY <1>13, <3>1, <3>2 DEF Counting
  <2>2. ASSUME NEW e \in Counting(h) PROVE e \in Counting(G) /\ e \notin {<<p, kids[j]>> : j \in 1..N}
    <3>1. e[1] \in Unsortd(G) \ {p} /\ e[2] \in Node /\ e = <<e[1], e[2]>> /\ e[2] \in Range(G.kids[e[1]])
      BY <1>13 DEF Counting
    <3> QED  BY <3>1 DEF Counting
  <2> QED  BY <2>1, <2>2
<1>18. Counted(L, h, Counting(h))  BY <1>13, <1>17
<1>19. Ahead(h)
  <2> SUFFICES ASSUME NEW q \in Range(h.sorted), NEW x \in Range(h.kids[q]), x \in Range(h.sorted)
               PROVE  Before(h.sorted, q, x)
    BY DEF Ahead
  <2>1. G.sorted \in Seq(Node)  BY <1>0, GraphFields
  <2>2. CASE q = p
    <3>1. x \in Range(kids) /\ x \in Node
      <4>1. x \in Range(kids)  BY <1>13, <2>2
      <4>2. Range(kids) \subseteq Node  BY <1>0, RangeFacts
      <4> QED  BY <4>1, <4>2
    <3>2. x \in L  BY <1>0, <3>1 DEF Children
    <3>3. <<p, x>> \in Counting(G)  BY <1>0, <3>1 DEF Counting
    <3>4. p \in Parents(Counting(G), x)  BY <1>0, <3>3 DEF Parents
    <3>5. G.in[x] # 0  BY <1>0, <3>1, <3>4, ParentsFinite DEF Counted
    <3>6. x \in Range(G.graph)  BY <1>0, <3>2, <3>5 DEF Counted
    <3>7. x \in Unsortd(G) /\ x # p  BY <1>0, <3>6 DEF Unsortd, Split
    <3>8. x \in Range(G.sorted)  BY <1>16, <3>7
    <3> QED  BY <1>0, <3>7, <3>8 DEF Split
  <2>3. CASE q # p /\ x = p
    <3>1. q \in Range(G.sorted)  BY <1>16, <2>3
    <3> QED  BY <1>0, <1>13, <2>1, <2>3, <3>1, BeforeAppend
  <2>4. CASE q # p /\ x # p
    <3>1. q \in Range(G.sorted) /\ x \in Range(G.sorted) /\ x \in Range(G.kids[q])  BY <1>13, <1>16, <2>4
    <3>2. Before(G.sorted, q, x)  BY <1>0, <3>1 DEF Ahead
    <3> QED  BY <1>0, <1>13, <2>1, <3>2, BeforeAppend
  <2> QED  BY <2>2, <2>3, <2>4
<1>20. Spread(h)
  <2>1. Range(h.kids[Root]) \subseteq h.connected  BY <1>0, <1>13 DEF Spread
  <2>2. ASSUME NEW q \in h.connected, q \in Range(h.sorted) PROVE Range(h.kids[q]) \subseteq h.connected
    <3>1. CASE q = p
      <4>1. \A j \in 1..N : kids[j] \in h.connected  BY <1>13, <2>2, <3>1
      <4>2. Range(kids) \subseteq h.connected  BY <1>14, <4>1
      <4> QED  BY <1>13, <3>1, <4>2
    <3>2. CASE q # p
      <4>1. q \in Range(G.sorted)  BY <1>16, <2>2, <3>2
      <4>2. q \in G.connected
        <5>1. G.connected \in SUBSET Node  BY <1>0, GraphFields
        <5> DEFINE D == G.connected \cup (Node \ Range(G.sorted))
        <5>4. D \in SUBSET Node  BY <5>1
        <5>5. Range(h.kids[Root]) \subseteq D  BY <1>0, <1>13 DEF Spread
        <5>6. ASSUME NEW r \in D, r \in Range(h.sorted) PROVE Range(h.kids[r]) \subseteq D
          <6>1. CASE r \in Range(G.sorted)
            <7>1. r \in G.connected  BY <6>1
            <7> QED  BY <1>0, <1>13, <6>1, <7>1 DEF Spread
          <6>2. CASE r \notin Range(G.sorted)
            <7>1. r = p  BY <1>16, <5>6, <6>2
            <7>2. ASSUME NEW x \in Range(kids) PROVE x \in Node /\ x \notin Range(G.sorted)
              <8>1. x \in Node
                <9>1. Range(kids) \subseteq Node  BY <1>0, RangeFacts
                <9> QED  BY <9>1
              <8>2. x \in L  BY <1>0, <7>2 DEF Children
              <8>3. <<p, x>> \in Counting(G)  BY <1>0, <7>2, <8>1 DEF Counting
              <8>4. p \in Parents(Counting(G), x)  BY <1>0, <8>3 DEF Parents
              <8>5. G.in[x] # 0  BY <1>0, <8>1, <8>4, ParentsFinite DEF Counted
              <8>6. x \in Range(G.graph)  BY <1>0, <8>2, <8>5 DEF Counted
              <8> QED  BY <1>0, <8>1, <8>6 DEF Unsortd, Split
            <7> QED  BY <1>13, <7>1, <7>2
          <6> QED  BY <6>1, <6>2
        <5>7. h.connected \subseteq D  BY <1>13, <5>4, <5>5, <5>6 DEF Least
        <5> QED  BY <2>2, <4>1, <5>7
      <4>3. Range(G.kids[q]) \subseteq G.connected  BY <1>0, <4>1, <4>2 DEF Spread
      <4> QED  BY <1>13, <4>3
    <3> QED  BY <3>1, <3>2
  <2> QED  BY <2>1, <2>2 DEF Spread
<1>21. Kahn(L, tg, h)  BY <1>0, <1>13, <1>18, <1>19, <1>20 DEF Kahn
<1> QED  BY <1>0, <1>13, <1>21 DEF h

-----------------------------------------------------------------------------
(***************************************************************************)
(* Kahn's algorithm: a loop is broken.                                      *)
(***************************************************************************)
LEMMA GreatestNat ==
    ASSUME NEW b \in Nat, NEW S, S \subseteq 0..b, S # {}
    PROVE  \E x \in S : \A y \in S : x >= y
<1> DEFINE T == {b - x : x \in S}
<1>1. T \subseteq Nat /\ T # {}
  <2>1. \A x \in S : x \in 0..b  OBVIOUS
  <2>2. \A x \in 0..b : b - x \in Nat  OBVIOUS
  <2>3. PICK x \in S : TRUE  OBVIOUS
  <2>4. b - x \in T  OBVIOUS
  <2> QED  BY <2>1, <2>2, <2>4
<1> HIDE DEF T
<1>2. PICK z \in T : \A y \in T : z <= y  BY <1>1, LeastNat
<1>3. PICK x \in S : z = b - x  BY DEF T
<1>4. ASSUME NEW y \in S PROVE x >= y
  <2>1. b - y \in T  BY DEF T
  <2>2. b - x <= b - y  BY <1>2, <1>3, <2>1
  <2>3. x \in 0..b /\ y \in 0..b  OBVIOUS
  <2> QED  BY <2>2, <2>3
<1> QED  BY <1>4

LEMMA MaxFacts ==
    ASSUME NEW b \in Nat, NEW S, S \subseteq 0..b, S # {}
    PROVE  Max(S) \in S
<1>1. \E x \in S : \A y \in S : x >= y  BY GreatestNat
<1> QED  BY <1>1 DEF Max

\* Of the members of a list some member is the last.
LEMMA LastOf ==
    ASSUME NEW A, NEW s \in Seq(A), NEW M, M # {}, M \subseteq Range(s)
    PROVE  \E x \in M : \A y \in M : y # x => Before(s, y, x)
<1> DEFINE J == {i \in 1..Len(s) : s[i] \in M}
<1>1. Len(s) \in Nat /\ DOMAIN s = 1..Len(s) /\ \A x \in Range(s) : \E i \in 1..Len(s) : s[i] = x
  BY RangeFacts
<1>2. J # {} /\ J \subseteq 0..Len(s)  BY <1>1
<1>3. PICK i \in J : \A j \in J : i >= j
  <2> HIDE DEF J
  <2> QED  BY <1>1, <1>2, GreatestNat
<1>4. ASSUME NEW y \in M, y # s[i] PROVE Before(s, y, s[i])
  <2>1. PICK j \in 1..Len(s) : s[j] = y  BY <1>1
  <2>2. j \in J  BY <2>1
  <2>3. j < i  BY <1>3, <1>4, <2>1, <2>2
  <2> QED  BY <1>1, <2>1, <2>3 DEF Before
<1> QED  BY <1>4

\* Whatever edges are the dearest, one of them is the last.
LEMMA KillFacts ==
    ASSUME NEW L \in SUBSET Node, NEW tg, NEW G, Kahn(L, tg, G), \A x \in L : tg[x].transits \in Seq(Transit),
           LoopEdges(G) # {}
    PROVE  Kill(G, tg) \in Spare(G, LoopEdges(G))
<1> DEFINE E == Spare(G, LoopEdges(G))
           cost(e) == CostVia(tg, e[2], e[1])
           best == Dearest(tg, E)
<1>1. E \subseteq LoopEdges(G) /\ E # {}  BY DEF Spare
<1>2. G \in Graphs /\ Split(L, G) /\ Children(L, tg, G.kids)  BY DEF Kahn
<1>3. ASSUME NEW e \in LoopEdges(G)
      PROVE  /\ e = <<e[1], e[2]>> /\ e[1] \in Range(G.graph) /\ e[1] \in Node /\ e[2] \in Node
             /\ e[2] \in Range(G.kids[e[1]]) /\ cost(e) \in 1..(CostMod - 1)
  <2>1. e = <<e[1], e[2]>> /\ e[1] \in Range(G.graph) /\ e[2] \in Node /\ e[2] \in Range(G.kids[e[1]])
    BY DEF LoopEdges
  <2>2. e[1] \in Node
    <3>1. G.graph \in Seq(Node)  BY <1>2, GraphFields
    <3> QED  BY <2>1, <3>1, RangeFacts
  <2>3. e[2] \in L /\ HasTransit(tg[e[2]], e[1])  BY <1>2, <2>1, <2>2 DEF Children, Nodes
  <2>4. cost(e) \in 1..(CostMod - 1)  BY <2>3, CostViaFacts
  <2> QED  BY <2>1, <2>2, <2>4
<1> HIDE DEF E, cost
<1>4. best # {} /\ best \subseteq E
  <2> DEFINE S == {cost(e) : e \in E}
  <2>1. S # {} /\ S \subseteq 0..CostMod
    <3>1. \A e \in E : cost(e) \in 1..(CostMod - 1)  BY <1>1, <1>3
    <3>2. \A n \in 1..(CostMod - 1) : n \in 0..CostMod  BY CostAssumption
    <3> QED  BY <1>1, <3>1, <3>2
  <2>2. Max(S) \in S
    <3> HIDE DEF S
    <3> QED  BY <2>1, MaxFacts, CostAssumption
  <2>3. PICK e \in E : cost(e) = Max(S)  BY <2>2
  <2>4. best = {o \in E : cost(o) = Max(S)}  BY DEF Dearest, cost
  <2> QED  BY <2>3, <2>4
<1> HIDE DEF best
<1>5. \E e \in best : \A o \in best \ {e} : Later(G, o, e)
  <2> DEFINE P == {e[1] : e \in best}
  <2>1. P # {} /\ P \subseteq Range(G.graph)  BY <1>1, <1>3, <1>4
  <2>2. PICK p \in P : \A q \in P : q # p => Before(G.graph, q, p)
    <3>1. G.graph \in Seq(Node)  BY <1>2, GraphFields
    <3> HIDE DEF P
    <3> QED  BY <2>1, <3>1, LastOf
  <2> DEFINE K == {e[2] : e \in {o \in best : o[1] = p}}
  <2>3. p \in Node  BY <1>1, <1>3, <1>4
  <2>4. K # {} /\ K \subseteq Range(G.kids[p])  BY <1>1, <1>3, <1>4
  <2>5. PICK x \in K : \A y \in K : y # x => Before(G.kids[p], y, x)
    <3>1. G.kids[p] \in Seq(Node)  BY <1>2, <2>3, GraphFields DEF Nodes
    <3> HIDE DEF K
    <3> QED  BY <2>4, <3>1, LastOf
  <2>6. PICK e \in best : e[1] = p /\ e[2] = x  OBVIOUS
  <2>7. ASSUME NEW o \in best \ {e} PROVE Later(G, o, e)
    <3>1. o = <<o[1], o[2]>> /\ e = <<e[1], e[2]>>  BY <1>1, <1>3, <1>4
    <3>2. CASE o[1] # p
      <4>1. Before(G.graph, o[1], e[1])  BY <2>2, <2>6, <3>2
      <4> QED  BY <4>1 DEF Later
    <3>3. CASE o[1] = p
      <4>1. o[2] # x  BY <2>6, <2>7, <3>1, <3>3
      <4>2. o[2] \in K  BY <3>3
      <4>3. Before(G.kids[e[1]], o[2], e[2])  BY <2>5, <2>6, <4>1, <4>2
      <4> QED  BY <2>6, <3>3, <4>3 DEF Later
    <3> QED  BY <3>2, <3>3
  <2> QED  BY <2>7
<1>6. Kill(G, tg) \in best  BY <1>5 DEF Kill, best, E
<1> QED  BY <1>4, <1>6 DEF E


\* The edges from one target to another.
Pairs(L, g) == {e \in L \X Node : e[2] \in Range(g.kids[e[1]])}

\* Every target that is left has a parent among those that are left.
LEMMA LoopExists ==
    ASSUME NEW L \in SUBSET Node, NEW tg, NEW G, Kahn(L, tg, G), G.top = <<>>
    PROVE  \A x \in Range(G.graph) : \E e \in LoopEdges(G) : e[2] = x
<1>1. G \in Graphs /\ Split(L, G) /\ Counted(L, G, Counting(G))  BY DEF Kahn
<1>2. Unsortd(G) = Range(G.graph)
  <2>1. Range(G.top) = {}  BY EmptyFacts
  <2> QED  BY <2>1 DEF Unsortd
<1>3. ASSUME NEW x \in Range(G.graph) PROVE \E e \in LoopEdges(G) : e[2] = x
  <2>1. x \in L /\ x \in Node  BY <1>1, <1>2 DEF Split
  <2>2. G.in[x] # 0  BY <1>1, <2>1 DEF Counted
  <2>3. Parents(Counting(G), x) # {}  BY <1>1, <2>1, <2>2, ParentsFinite DEF Counted
  <2>4. PICK p \in Node : <<p, x>> \in Counting(G)  BY <2>3 DEF Parents
  <2>5. p \in Range(G.graph) /\ x \in Range(G.kids[p])  BY <1>2, <2>4 DEF Counting
  <2>6. <<p, x>> \in LoopEdges(G)  BY <2>1, <2>5 DEF LoopEdges
  <2> QED  BY <2>6
<1> QED  BY <1>3

\* A loop is broken only if there is one.
LEMMA LoopIsLoop ==
    ASSUME NEW L \in SUBSET Node, NEW tg, NEW G, Kahn(L, tg, G), G.top = <<>>, G.graph # <<>>
    PROVE  ~Acyclic(L, tg)
<1> DEFINE S == Range(G.graph)
<1>1. G \in Graphs /\ Split(L, G) /\ Children(L, tg, G.kids)  BY DEF Kahn
<1>2. S \in SUBSET L /\ S # {}
  <2>1. G.graph \in Seq(Node)  BY <1>1, GraphFields
  <2>2. S # {}  BY <2>1, RangeFacts
  <2>3. S \subseteq L  BY <1>1 DEF Split, Unsortd
  <2> QED  BY <2>2, <2>3
<1>3. ASSUME NEW x \in S PROVE \E p \in S : HasTransit(tg[x], p)
  <2>1. PICK e \in LoopEdges(G) : e[2] = x  BY LoopExists
  <2>2. e[1] \in S /\ x \in Range(G.kids[e[1]])  BY <2>1 DEF LoopEdges
  <2>3. e[1] \in Nodes  BY <1>2, <2>2 DEF Nodes
  <2>4. HasTransit(tg[x], e[1])  BY <1>1, <2>2, <2>3 DEF Children
  <2> QED  BY <2>2, <2>4
<1> HIDE DEF S
<1> QED  BY <1>2, <1>3 DEF Acyclic

LEMMA BreakLoopFacts ==
    ASSUME NEW L \in SUBSET Node, NEW tg, NEW G, Kahn(L, tg, G), \A x \in L : tg[x].transits \in Seq(Transit),
           G.top = <<>>, G.graph # <<>>
    PROVE  LET h == BreakLoop(G, tg)
           IN  /\ Kahn(L, tg, h) /\ Unsortd(h) = Unsortd(G)
               /\ \E k \in Pairs(L, G) : Pairs(L, h) = Pairs(L, G) \ {k}
<1> DEFINE k == Kill(G, tg)
           p == k[1]
           x == k[2]
           E == LoopEdges(G)
           d == [G EXCEPT !.kids[p] = Only(@, Node \ {x})]
           h == BreakLoop(G, tg)
<1>1. /\ G \in Graphs /\ Split(L, G) /\ Counted(L, G, Counting(G)) /\ Children(L, tg, G.kids)
      /\ Ahead(G) /\ G.connected \subseteq L /\ Least(G) /\ Spread(G) /\ Spans(L, tg, G.kids)
  BY DEF Kahn
<1>2. \A y \in Range(G.graph) : \E e \in E : e[2] = y  BY LoopExists
<1>3. k \in Spare(G, E) /\ k \in E
  <2>1. Range(G.graph) # {}
    <3>1. G.graph \in Seq(Node)  BY <1>1, GraphFields
    <3> QED  BY <3>1, RangeFacts
  <2>2. E # {}  BY <1>2, <2>1
  <2>3. k \in Spare(G, E)  BY <2>2, KillFacts
  <2> QED  BY <2>3 DEF Spare
<1>4. /\ k = <<p, x>> /\ p \in Range(G.graph) /\ p \in Node /\ p \in Nodes /\ p # Root /\ p \in L
      /\ x \in Node /\ x \in Range(G.kids[p]) /\ p \notin Range(G.sorted)
  <2> HIDE DEF k
  <2>1. k = <<p, x>> /\ p \in Range(G.graph) /\ x \in Node /\ x \in Range(G.kids[p])
    BY <1>3 DEF LoopEdges
  <2>2. p \in L /\ p \notin Range(G.sorted)  BY <1>1, <2>1 DEF Split, Unsortd
  <2> QED  BY <2>1, <2>2, RplAssumption DEF Nodes
<1> HIDE DEF k
<1>5. /\ Only(G.kids[p], Node \ {x}) \in Seq(Node)
      /\ Range(Only(G.kids[p], Node \ {x})) = Range(G.kids[p]) \ {x}
      /\ IsInjective(Only(G.kids[p], Node \ {x}))
  <2>1. G.kids[p] \in Seq(Node) /\ IsInjective(G.kids[p])  BY <1>1, <1>4, GraphFields DEF Children
  <2>2. Range(G.kids[p]) \subseteq Node  BY <2>1, RangeFacts
  <2>3. Range(Only(G.kids[p], Node \ {x})) = Range(G.kids[p]) \cap (Node \ {x})
    BY <2>1, OnlyFacts
  <2> QED  BY <2>1, <2>2, <2>3, OnlyFacts
<1>6. /\ d \in Graphs /\ d.graph = G.graph /\ d.top = G.top /\ d.sorted = G.sorted /\ d.in = G.in
      /\ d.connected = G.connected /\ d.kids = [G.kids EXCEPT ![p] = Only(@, Node \ {x})]
  <2> HIDE DEF p, x
  <2>1. [G.kids EXCEPT ![p] = Only(@, Node \ {x})] \in [Nodes -> Seq(Node)]
    BY <1>1, <1>4, <1>5, GraphFields
  <2>2. d = [G EXCEPT !.kids = [G.kids EXCEPT ![p] = Only(@, Node \ {x})]]  BY <1>1 DEF Graphs
  <2> DEFINE nk == [G.kids EXCEPT ![p] = Only(@, Node \ {x})]
  <2> HIDE DEF nk, d
  <2>3. nk \in [Nodes -> Seq(Node)] /\ d = [G EXCEPT !.kids = nk]  BY <2>1, <2>2 DEF nk
  <2>4. /\ d \in Graphs /\ d.graph = G.graph /\ d.top = G.top /\ d.sorted = G.sorted /\ d.in = G.in
        /\ d.connected = G.connected /\ d.kids = nk
    BY <1>1, <2>3 DEF Graphs
  <2> QED  BY <2>4 DEF nk
<1>7. /\ Range(d.kids[p]) = Range(G.kids[p]) \ {x} /\ IsInjective(d.kids[p])
      /\ \A q \in Nodes \ {p} : d.kids[q] = G.kids[q]
  <2> HIDE DEF p, x, d
  <2>1. G.kids \in [Nodes -> Seq(Node)]  BY <1>1, GraphFields
  <2> QED  BY <1>4, <1>5, <1>6, <2>1
<1>8. h = EdgeRemoved(d, x)  BY DEF BreakLoop, k
<1> HIDE DEF p, x, d, h, E
<1>9. <<p, x>> \in Counting(G)  BY <1>4 DEF Counting, Unsortd
<1>10. Removed(L, d, Counting(G), p, x, h)
  <2>1. Split(L, d)  BY <1>1, <1>6 DEF Split, Unsortd
  <2>2. Counted(L, d, Counting(G))  BY <1>1, <1>6 DEF Counted
  <2>3. d \in Graphs /\ p \in Node /\ x \in Node  BY <1>4, <1>6
  <2> QED  BY <1>8, <1>9, <2>1, <2>2, <2>3, EdgeRemovedFacts
<1>11. /\ h \in Graphs /\ Split(L, h) /\ Counted(L, h, Counting(G) \ {<<p, x>>})
       /\ h.kids = d.kids /\ h.sorted = G.sorted /\ h.connected = G.connected
       /\ Unsortd(h) = Unsortd(G)
  BY <1>6, <1>10 DEF Removed, Unsortd
<1>12. ASSUME NEW e, e[1] \in Node, e = <<e[1], e[2]>>
       PROVE  e[2] \in Range(h.kids[e[1]]) <=> e[2] \in Range(G.kids[e[1]]) /\ e # <<p, x>>
  <2>1. CASE e[1] = p  BY <1>7, <1>11, <1>12, <2>1
  <2>2. CASE e[1] # p
    <3>1. e[1] \in Nodes \ {p}  BY <1>12, <2>2 DEF Nodes
    <3>2. h.kids[e[1]] = G.kids[e[1]]  BY <1>7, <1>11, <3>1
    <3> QED  BY <1>12, <2>2, <3>2
  <2> QED  BY <2>1, <2>2
<1>13. Counting(h) = Counting(G) \ {<<p, x>>}
  <2>1. Unsortd(G) \subseteq Node  BY <1>1 DEF Split
  <2>2. \A e \in Unsortd(G) \X Node : e[1] \in Node /\ e = <<e[1], e[2]>>  BY <2>1
  <2> QED  BY <1>11, <1>12, <2>2 DEF Counting
<1>14. Pairs(L, h) = Pairs(L, G) \ {<<p, x>>} /\ <<p, x>> \in Pairs(L, G)
  <2>1. \A e \in L \X Node : e[1] \in Node /\ e = <<e[1], e[2]>>  OBVIOUS
  <2> QED  BY <1>4, <1>12, <2>1 DEF Pairs
<1>15. \A q \in Nodes : q # p => h.kids[q] = G.kids[q]  BY <1>7, <1>11
<1>16. h.kids[Root] = G.kids[Root]  BY <1>4, <1>15 DEF Nodes
<1>17. \A q \in Range(G.sorted) : q \in Node /\ h.kids[q] = G.kids[q]
  <2>1. Range(G.sorted) \subseteq Node  BY <1>1 DEF Split
  <2> QED  BY <1>4, <1>15, <2>1 DEF Nodes
<1>18. Children(L, tg, h.kids)
  <2>1. \A q \in Nodes : Range(h.kids[q]) \subseteq Range(G.kids[q]) /\ IsInjective(h.kids[q])
    BY <1>1, <1>7, <1>11 DEF Children
  <2>2. \A q \in Node : q \notin L => h.kids[q] = <<>>  BY <1>1, <1>4, <1>15 DEF Children, Nodes
  <2>3. \A y \in L : HasTransit(tg[y], Root) => y \in Range(h.kids[Root])  BY <1>1, <1>16 DEF Children
  <2>4. \A q \in Nodes : \A y \in Range(h.kids[q]) : y \in L /\ HasTransit(tg[y], q)
    BY <1>1, <2>1 DEF Children
  <2> QED  BY <2>1, <2>2, <2>3, <2>4 DEF Children
<1>19. Ahead(h)  BY <1>1, <1>11, <1>17 DEF Ahead
<1>20. Least(h) /\ Spread(h)
  <2>1. Spread(h)
    <3>1. Range(h.kids[Root]) \subseteq h.connected  BY <1>1, <1>11, <1>16 DEF Spread
    <3>2. \A q \in h.connected : q \in Range(h.sorted) => Range(h.kids[q]) \subseteq h.connected
      BY <1>1, <1>11, <1>17 DEF Spread
    <3> QED  BY <3>1, <3>2 DEF Spread
  <2>2. Least(h)
    <3> SUFFICES ASSUME NEW C \in SUBSET Node, Range(h.kids[Root]) \subseteq C,
                        \A q \in C : q \in Range(h.sorted) => Range(h.kids[q]) \subseteq C
                 PROVE  h.connected \subseteq C
      BY DEF Least
    <3>1. Range(G.kids[Root]) \subseteq C  BY <1>16
    <3>2. \A q \in C : q \in Range(G.sorted) => Range(G.kids[q]) \subseteq C  BY <1>11, <1>17
    <3> QED  BY <1>1, <1>11, <3>1, <3>2 DEF Least
  <2> QED  BY <2>1, <2>2
<1>21. Spans(L, tg, h.kids)
  <2> SUFFICES ASSUME NEW C \in SUBSET Node, Closed(C, h.kids)
               PROVE  \E D \in SUBSET C : DbClosed(D, L, tg)
    BY DEF Spans
  <2>1. G.connected \subseteq C
    <3>1. Range(G.kids[Root]) \subseteq C  BY <1>16 DEF Closed
    <3>2. \A q \in C : q \in Range(G.sorted) => Range(G.kids[q]) \subseteq C  BY <1>17 DEF Closed
    <3> QED  BY <1>1, <3>1, <3>2 DEF Least
  <2>2. CASE x \in G.connected
    <3>1. Closed(C, G.kids)
      <4>1. Range(G.kids[Root]) \subseteq C  BY <1>16 DEF Closed
      <4>2. ASSUME NEW q \in C PROVE Range(G.kids[q]) \subseteq C
        <5>1. CASE q = p
          <6>1. Range(h.kids[p]) \subseteq C  BY <4>2, <5>1 DEF Closed
          <6> QED  BY <1>7, <1>11, <2>1, <2>2, <5>1, <6>1
        <5>2. CASE q # p
          <6>1. h.kids[q] = G.kids[q]  BY <1>15, <5>2 DEF Nodes
          <6> QED  BY <4>2, <6>1 DEF Closed
        <5> QED  BY <5>1, <5>2
      <4> QED  BY <4>1, <4>2 DEF Closed
    <3> QED  BY <1>1, <3>1 DEF Spans
  <2>3. CASE x \notin G.connected
    <3>1. \A e \in E : e[2] \notin G.connected
      <4>1. k[2] \notin G.connected  BY <2>3 DEF x
      <4> QED  BY <1>3, <4>1 DEF Spare
    <3>2. ASSUME NEW q \in G.connected PROVE q \in Range(G.sorted)
      <4>1. q \notin Range(G.graph)  BY <1>2, <3>1
      <4>2. Range(G.top) = {}  BY EmptyFacts
      <4>3. q \in L  BY <1>1
      <4> QED  BY <1>1, <4>1, <4>2, <4>3 DEF Split, Unsortd
    <3>3. Closed(G.connected, G.kids)  BY <1>1, <3>2 DEF Spread, Closed
    <3>4. G.connected \in SUBSET Node  BY <1>1
    <3>5. PICK D \in SUBSET G.connected : DbClosed(D, L, tg)  BY <1>1, <3>3, <3>4 DEF Spans
    <3>6. D \in SUBSET C  BY <2>1
    <3> QED  BY <3>5, <3>6
  <2> QED  BY <2>2, <2>3
<1>22. Kahn(L, tg, h)
  <2>1. Counted(L, h, Counting(h))  BY <1>11, <1>13
  <2>2. h.connected \subseteq L  BY <1>1, <1>11
  <2> QED  BY <1>11, <1>18, <1>19, <1>20, <1>21, <2>1, <2>2 DEF Kahn
<1> QED  BY <1>11, <1>14, <1>22 DEF h

-----------------------------------------------------------------------------
(***************************************************************************)
(* Kahn's algorithm: the whole sort.                                        *)
(***************************************************************************)
Typed(L, tg) == \A x \in L : tg[x].transits \in Seq(Transit)

LEMMA LinkedFacts ==
    ASSUME NEW lst \in Seq(Node), IsInjective(lst), NEW tg
    PROVE  /\ Kahn(Range(lst), tg, Linked(lst, tg)) /\ Unsortd(Linked(lst, tg)) = Range(lst)
           /\ Full(Range(lst), tg, Linked(lst, tg).kids)
<1> DEFINE L == Range(lst)
           kids == Kids(lst, tg)
           g == Linked(lst, tg)
           W == {e \in L \X Node : e[2] \in Range(kids[e[1]])}
           in == [x \in Node |-> Cardinality({p \in L : x \in Range(kids[p])})]
           A == {x \in Node : in[x] # 0}
           B == {x \in Node : in[x] = 0}
<1>1. L \in SUBSET Node  BY RangeFacts
<1>2. /\ kids \in [Nodes -> Seq(Node)]
      /\ \A p \in L \cup {Root} : IsInjective(kids[p]) /\ Range(kids[p]) = {x \in L : HasTransit(tg[x], p)}
      /\ \A p \in Node : p \notin L => kids[p] = <<>>
  <2> DEFINE K(p) == {x \in Node : HasTransit(tg[x], p)}
  <2>1. kids = [p \in Nodes |-> IF p = Root \/ p \in L THEN Only(lst, K(p)) ELSE <<>>]
    BY DEF Kids, Nodes
  <2> HIDE DEF K, kids, L
  <2>2. \A p \in Nodes : /\ Only(lst, K(p)) \in Seq(Node) /\ IsInjective(Only(lst, K(p)))
                         /\ Range(Only(lst, K(p))) = L \cap K(p)
    BY OnlyFacts DEF L
  <2>3. kids \in [Nodes -> Seq(Node)]  BY <2>1, <2>2, EmptyFacts
  <2>4. \A p \in L \cup {Root} : p \in Nodes /\ kids[p] = Only(lst, K(p))  BY <1>1, <2>1 DEF Nodes
  <2>5. \A p \in Node : p \notin L => kids[p] = <<>>  BY <2>1, RplAssumption DEF Nodes
  <2>6. \A p : L \cap K(p) = {x \in L : HasTransit(tg[x], p)}  BY <1>1 DEF K
  <2> QED  BY <2>2, <2>3, <2>4, <2>5, <2>6
<1>3. /\ g.graph = Only(lst, A) /\ g.top = Only(lst, B) /\ g.sorted = <<>> /\ g.kids = kids /\ g.in = in
      /\ g.connected = Range(kids[Root])
      /\ g = [graph |-> Only(lst, A), top |-> Only(lst, B), sorted |-> <<>>, kids |-> kids, in |-> in,
              connected |-> Range(kids[Root])]
  BY DEF Linked
<1> HIDE DEF g, kids, L
<1>4. \A x \in Node : {p \in L : x \in Range(kids[p])} = Parents(W, x)  BY <1>1 DEF Parents
<1>5. in \in [Node -> Nat] /\ \A x \in Node : in[x] = Cardinality(Parents(W, x))
  <2> HIDE DEF W
  <2> QED  BY <1>4, ParentsFinite
<1> HIDE DEF in
<1>6. /\ Only(lst, A) \in Seq(Node) /\ IsInjective(Only(lst, A)) /\ Range(Only(lst, A)) = L \cap A
      /\ Only(lst, B) \in Seq(Node) /\ IsInjective(Only(lst, B)) /\ Range(Only(lst, B)) = L \cap B
  <2> HIDE DEF A, B
  <2> QED  BY OnlyFacts DEF L
<1>7. (L \cap A) \cap (L \cap B) = {} /\ (L \cap A) \cup (L \cap B) = L  BY <1>1
<1>8. Range(kids[Root]) \subseteq L  BY <1>2
<1>9. g \in Graphs
  <2>1. Range(kids[Root]) \in SUBSET Node  BY <1>1, <1>8
  <2> HIDE DEF A, B
  <2> QED  BY <1>2, <1>3, <1>5, <1>6, <2>1, EmptyFacts DEF Graphs
<1>10. Unsortd(g) = L  BY <1>3, <1>6, <1>7 DEF Unsortd
<1>11. Split(L, g)
  <2> HIDE DEF A, B
  <2> QED  BY <1>3, <1>6, <1>7, <1>10, EmptyFacts DEF Split
<1>12. Counting(g) = W  BY <1>3, <1>10 DEF Counting
<1>13. Counted(L, g, W)
  <2>1. W \in SUBSET (Node \X L)  BY <1>1, <1>2
  <2>2. \A x \in L : x \in Range(g.graph) <=> g.in[x] # 0  BY <1>1, <1>3, <1>6
  <2> HIDE DEF W
  <2> QED  BY <1>3, <1>5, <2>1, <2>2 DEF Counted
<1>14. Children(L, tg, kids)
  <2>1. ASSUME NEW p \in Nodes
        PROVE  IsInjective(kids[p]) /\ \A x \in Range(kids[p]) : x \in L /\ HasTransit(tg[x], p)
    <3>1. CASE p \in L \cup {Root}  BY <1>2, <3>1
    <3>2. CASE p \notin L \cup {Root}
      <4>1. kids[p] = <<>>  BY <1>2, <3>2 DEF Nodes
      <4> QED  BY <4>1, EmptyFacts
    <3> QED  BY <3>1, <3>2
  <2>2. \A x \in L : HasTransit(tg[x], Root) => x \in Range(kids[Root])  BY <1>2
  <2> QED  BY <1>2, <2>1, <2>2 DEF Children
<1>15. Ahead(g)  BY <1>3, EmptyFacts DEF Ahead
<1>16. Least(g) /\ Spread(g)  BY <1>3, EmptyFacts DEF Least, Spread
<1>17. Spans(L, tg, kids)
  <2> SUFFICES ASSUME NEW C \in SUBSET Node, Closed(C, kids)
               PROVE  \E D \in SUBSET C : DbClosed(D, L, tg)
    BY DEF Spans
  <2> DEFINE D == C \cap L
  <2>1. ASSUME NEW x \in L, NEW p \in D \cup {Root}, HasTransit(tg[x], p) PROVE x \in D
    <3>1. x \in Range(kids[p])  BY <1>2, <2>1
    <3>2. Range(kids[p]) \subseteq C  BY <2>1 DEF Closed
    <3> QED  BY <3>1, <3>2
  <2>2. DbClosed(D, L, tg)  BY <2>1 DEF DbClosed
  <2> QED  BY <2>2
<1>18. Kahn(L, tg, g)
  <2> HIDE DEF W
  <2> QED  BY <1>3, <1>8, <1>9, <1>11, <1>12, <1>13, <1>14, <1>15, <1>16, <1>17 DEF Kahn
<1>19. Full(L, tg, g.kids)  BY <1>2, <1>3 DEF Full
<1> QED  BY <1>10, <1>18, <1>19 DEF g, L

\* What the sort has to do still.
Weight(L, g) == Cardinality(Unsortd(g)) + Cardinality(Pairs(L, g))
Done(g) == g.top = <<>> /\ g.graph = <<>>

LEMMA WeightFacts ==
    ASSUME NEW L \in SUBSET Node, NEW g, Split(L, g)
    PROVE  /\ IsFiniteSet(Unsortd(g)) /\ IsFiniteSet(Pairs(L, g))
           /\ Cardinality(Unsortd(g)) \in Nat /\ Cardinality(Pairs(L, g)) \in Nat
           /\ Cardinality(Unsortd(g)) = 0 <=> Unsortd(g) = {}
<1>1. Unsortd(g) \in SUBSET Node  BY DEF Split
<1>2. IsFiniteSet(Node) /\ IsFiniteSet(L)  BY RplAssumption, FS_Subset
<1>3. IsFiniteSet(Unsortd(g))  BY <1>1, <1>2, FS_Subset
<1>4. IsFiniteSet(L \X Node)  BY <1>2, FS_Product
<1>5. Pairs(L, g) \in SUBSET (L \X Node)  BY DEF Pairs
<1>6. IsFiniteSet(Pairs(L, g))  BY <1>4, <1>5, FS_Subset
<1> QED  BY <1>3, <1>6, FS_CardinalityType, FS_EmptySet

\* A step takes one target or one edge away.
LEMMA SortStepFacts ==
    ASSUME NEW L \in SUBSET Node, NEW tg, NEW g, Kahn(L, tg, g), Typed(L, tg)
    PROVE  LET h == SortStep(g, tg)
           IN  /\ Kahn(L, tg, h) /\ IF Done(g) THEN h = g ELSE Weight(L, h) = Weight(L, g) - 1
               /\ Acyclic(L, tg) => h.kids = g.kids
<1> DEFINE h == SortStep(g, tg)
<1>1. Split(L, g)  BY DEF Kahn
<1>2. /\ IsFiniteSet(Unsortd(g)) /\ IsFiniteSet(Pairs(L, g))
      /\ Cardinality(Unsortd(g)) \in Nat /\ Cardinality(Pairs(L, g)) \in Nat
  BY <1>1, WeightFacts
<1>3. CASE g.top # <<>>
  <2>1. h = TakeTop(g)  BY <1>3 DEF SortStep
  <2>2. Kahn(L, tg, h) /\ h.kids = g.kids /\ \E p \in Unsortd(g) : Unsortd(h) = Unsortd(g) \ {p}
    BY <1>3, <2>1, TakeTopFacts
  <2> HIDE DEF h
  <2>3. Cardinality(Unsortd(h)) = Cardinality(Unsortd(g)) - 1  BY <1>2, <2>2, FS_RemoveElement
  <2>4. Pairs(L, h) = Pairs(L, g)  BY <2>2 DEF Pairs
  <2>5. Weight(L, h) = Weight(L, g) - 1  BY <1>2, <2>3, <2>4 DEF Weight
  <2>6. ~Done(g)  BY <1>3 DEF Done
  <2> QED  BY <2>2, <2>5, <2>6 DEF h
<1>4. CASE g.top = <<>> /\ g.graph # <<>>
  <2>1. h = BreakLoop(g, tg)  BY <1>4 DEF SortStep
  <2>2. Kahn(L, tg, h) /\ Unsortd(h) = Unsortd(g) /\ \E k \in Pairs(L, g) : Pairs(L, h) = Pairs(L, g) \ {k}
    BY <1>4, <2>1, BreakLoopFacts DEF Typed
  <2> HIDE DEF h
  <2>3. Cardinality(Pairs(L, h)) = Cardinality(Pairs(L, g)) - 1
    <3>1. PICK k \in Pairs(L, g) : Pairs(L, h) = Pairs(L, g) \ {k}  BY <2>2
    <3> QED  BY <1>2, <3>1, FS_RemoveElement
  <2>4. Weight(L, h) = Weight(L, g) - 1  BY <1>2, <2>2, <2>3 DEF Weight
  <2>5. ~Done(g)  BY <1>4 DEF Done
  <2>6. ~Acyclic(L, tg)  BY <1>4, LoopIsLoop
  <2> QED  BY <2>2, <2>4, <2>5, <2>6 DEF h
<1>5. CASE Done(g)
  <2>1. h = g  BY <1>5 DEF SortStep, Done
  <2> QED  BY <1>5, <2>1
<1> QED  BY <1>3, <1>4, <1>5 DEF Done

\* The sort ends: it loses no target and doubles none, no edge that it keeps
\* leads backward, and it disconnects nobody.
LEMMA SortedFacts ==
    ASSUME NEW lst \in Seq(Node), IsInjective(lst), NEW tg, Typed(Range(lst), tg)
    PROVE  LET g == Sorted(lst, tg)
           IN  /\ g.sorted \in Seq(Node) /\ IsInjective(g.sorted) /\ Range(g.sorted) = Range(lst)
               /\ g.kids \in [Nodes -> Seq(Node)]
               /\ TopoOK(g.sorted, tg, g.kids)
               /\ Acyclic(Range(lst), tg) => Full(Range(lst), tg, g.kids)
<1> DEFINE L == Range(lst)
           base == Linked(lst, tg)
           N == Cardinality(L) + Cardinality({e \in L \X Node : e[2] \in Range(base.kids[e[1]])})
           Op(t, k) == SortStep(t, tg)
           Uncut(g) == Acyclic(L, tg) => g.kids = base.kids
           I == [k \in 0..N |->
                    {g \in Graphs : Kahn(L, tg, g) /\ Uncut(g) /\ (Done(g) \/ Weight(L, g) <= N - k)}]
           step == [k \in 1..N |-> [t \in I[k - 1] |-> Op(t, k)]]
           Eq(f) == f = [k \in 0..N |-> IF k = 0 THEN base ELSE Op(f[k - 1], k)]
           loop == CHOOSE f : Eq(f)
<1>0. /\ L \in SUBSET Node /\ Kahn(L, tg, base) /\ Unsortd(base) = L /\ Split(L, base) /\ base \in Graphs
      /\ Full(L, tg, base.kids)
  <2>1. L \in SUBSET Node  BY RangeFacts
  <2>2. Kahn(L, tg, base) /\ Unsortd(base) = L /\ Full(L, tg, base.kids)  BY LinkedFacts
  <2> QED  BY <2>1, <2>2 DEF Kahn
<1> HIDE DEF L, base
<1>1. N \in Nat
  <2>1. Cardinality(Unsortd(base)) \in Nat /\ Cardinality(Pairs(L, base)) \in Nat  BY <1>0, WeightFacts
  <2> QED  BY <1>0, <2>1 DEF Pairs
<1>2. base \in I[0]
  <2>1. Weight(L, base) = N  BY <1>0 DEF Weight, Pairs
  <2> HIDE DEF N
  <2>2. 0 \in 0..N /\ N <= N - 0  BY <1>1
  <2> QED  BY <1>0, <2>1, <2>2
<1>3. ASSUME NEW k \in 1..N, NEW t \in I[k - 1] PROVE Op(t, k) \in I[k]
  <2> HIDE DEF N
  <2>1. k \in 0..N /\ k - 1 \in 0..N  BY <1>1
  <2>2. t \in Graphs /\ Kahn(L, tg, t) /\ Uncut(t) /\ (Done(t) \/ Weight(L, t) <= N - (k - 1))  BY <2>1
  <2> DEFINE h == SortStep(t, tg)
  <2>3. /\ Kahn(L, tg, h) /\ IF Done(t) THEN h = t ELSE Weight(L, h) = Weight(L, t) - 1
        /\ Uncut(h)
    <3>1. /\ Kahn(L, tg, h) /\ IF Done(t) THEN h = t ELSE Weight(L, h) = Weight(L, t) - 1
          /\ Acyclic(L, tg) => h.kids = t.kids
      BY <1>0, <2>2, SortStepFacts DEF L
    <3> QED  BY <2>2, <3>1
  <2> HIDE DEF h
  <2>4. h \in Graphs  BY <2>3 DEF Kahn
  <2>5. Done(h) \/ Weight(L, h) <= N - k
    <3>1. CASE Done(t)  BY <2>3, <3>1
    <3>2. CASE ~Done(t)
      <4>1. Split(L, t)  BY <2>2 DEF Kahn
      <4>2. Weight(L, t) \in Nat
        <5>1. Cardinality(Unsortd(t)) \in Nat /\ Cardinality(Pairs(L, t)) \in Nat  BY <1>0, <4>1, WeightFacts
        <5> QED  BY <5>1 DEF Weight
      <4>3. Weight(L, h) = Weight(L, t) - 1 /\ Weight(L, t) <= N - (k - 1)  BY <2>2, <2>3, <3>2
      <4> QED  BY <1>1, <4>2, <4>3
    <3> QED  BY <3>1, <3>2
  <2> HIDE DEF Uncut
  <2>6. h \in {g \in Graphs : Kahn(L, tg, g) /\ Uncut(g) /\ (Done(g) \/ Weight(L, g) <= N - k)}
    BY <2>3, <2>4, <2>5
  <2>7. h \in I[k]  BY <2>1, <2>6
  <2> QED  BY <2>7 DEF h
<1>4. Rounds(step, I, N)
  <2> HIDE DEF I, Op, N
  <2> QED  BY <1>3 DEF Rounds
<1>5. PICK run : LoopRun(run, N, base, step, I)
  <2> HIDE DEF I, step, N, base, Op
  <2> QED  BY <1>1, <1>2, <1>4, LoopInvariant
<1>6. Eq(run)
  <2> HIDE DEF I, N, base, Op
  <2>1. /\ run = [k \in 0..N |-> run[k]] /\ run[0] = base /\ \A k \in 0..N : run[k] \in I[k]
        /\ \A k \in 1..N : run[k] = step[k][run[k - 1]]
    <3> HIDE DEF step
    <3> QED  BY <1>5 DEF LoopRun
  <2>2. ASSUME NEW k \in 1..N PROVE run[k] = Op(run[k - 1], k)
    <3>1. k - 1 \in 0..N  BY <1>1
    <3>2. run[k - 1] \in I[k - 1]  BY <2>1, <3>1
    <3> QED  BY <2>1, <3>2
  <2> DEFINE h == [k \in 0..N |-> IF k = 0 THEN base ELSE Op(run[k - 1], k)]
  <2> HIDE DEF step
  <2>3. ASSUME NEW k \in 0..N PROVE run[k] = h[k]
    <3>1. CASE k = 0  BY <2>1, <3>1
    <3>2. CASE k # 0
      <4>1. k \in 1..N  BY <1>1, <3>2
      <4> QED  BY <2>2, <3>2, <4>1
    <3> QED  BY <3>1, <3>2
  <2>4. [k \in 0..N |-> run[k]] = h  BY <2>3
  <2> QED  BY <2>1, <2>4
<1>7. Eq(loop)
  <2> HIDE DEF Eq
  <2> QED  BY <1>6
<1> HIDE DEF loop
<1>8. loop[0] = base /\ \A k \in 1..N : loop[k] = Op(loop[k - 1], k)
  <2> HIDE DEF N, base, Op
  <2> QED  BY <1>1, <1>7
<1>9. \A k \in 1..N : loop[k - 1] \in I[k - 1] => loop[k] \in I[k]
  <2> HIDE DEF I, N, Op, Eq, step, base
  <2> QED  BY <1>3, <1>8
<1>10. loop[N] \in I[N]
  <2> HIDE DEF Op, Eq, step
  <2>1. loop[0] \in I[0]  BY <1>2, <1>8
  <2> HIDE DEF I, N, base
  <2> QED  BY <1>1, <1>9, <2>1, LoopEnd
<1>11. Sorted(lst, tg) = loop[N]  BY DEF Sorted, loop, L, base
<1> DEFINE g == Sorted(lst, tg)
<1> HIDE DEF loop, g, Op, step, Eq
<1>12. g \in Graphs /\ Kahn(L, tg, g) /\ (Done(g) \/ Weight(L, g) <= 0) /\ Uncut(g)
  <2> HIDE DEF N
  <2>1. N \in 0..N /\ N - N = 0  BY <1>1
  <2>2. g = loop[N]  BY <1>11 DEF g
  <2> QED  BY <1>10, <2>1, <2>2
<1>13. /\ Split(L, g) /\ Children(L, tg, g.kids) /\ Ahead(g) /\ Spans(L, tg, g.kids)
  BY <1>12 DEF Kahn
<1>14. Unsortd(g) = {}
  <2>1. CASE Done(g)  BY <2>1, EmptyFacts DEF Done, Unsortd
  <2>2. CASE Weight(L, g) <= 0
    <3>1. /\ Cardinality(Unsortd(g)) \in Nat /\ Cardinality(Pairs(L, g)) \in Nat
          /\ Cardinality(Unsortd(g)) = 0 <=> Unsortd(g) = {}
      BY <1>0, <1>13, WeightFacts
    <3>2. Cardinality(Unsortd(g)) = 0  BY <2>2, <3>1 DEF Weight
    <3> QED  BY <3>1, <3>2
  <2> QED  BY <1>12, <2>1, <2>2
<1>15. Range(g.sorted) = L /\ IsInjective(g.sorted)  BY <1>13, <1>14 DEF Split
<1>16. g.sorted \in Seq(Node) /\ g.kids \in [Nodes -> Seq(Node)]  BY <1>12, GraphFields
<1>17. Forward(g.sorted, g.kids)
  <2> SUFFICES ASSUME NEW p \in Node, NEW x \in Range(g.kids[p]) PROVE Before(g.sorted, p, x)
    BY DEF Forward
  <2>1. x \in L  BY <1>13 DEF Children, Nodes
  <2>2. p \in L
    <3> SUFFICES ASSUME p \notin L PROVE FALSE  OBVIOUS
    <3>1. g.kids[p] = <<>>  BY <1>13 DEF Children
    <3> QED  BY <3>1, EmptyFacts
  <2> QED  BY <1>13, <1>15, <2>1, <2>2 DEF Ahead
<1>18. TopoOK(g.sorted, tg, g.kids)  BY <1>13, <1>15, <1>17 DEF TopoOK
<1>19. Acyclic(L, tg) => Full(L, tg, g.kids)  BY <1>0, <1>12
<1> QED  BY <1>15, <1>16, <1>18, <1>19 DEF g, L

-----------------------------------------------------------------------------
(***************************************************************************)
(* The path costs.                                                          *)
(***************************************************************************)
Fin(s) == {x \in Node : s.cost[x] # Infinite}
\* What links may add to the costs of the root's neighbours.
Weights == [Node -> Nat]

\* The same transits, perhaps in another order.
Reordered(t, u) == u.seq = t.seq /\ u.life = t.life /\ Range(u.transits) = Range(t.transits)
WellFormed(tg) == tg \in [Node -> Target] /\ \A x \in Node : OnePerVia(tg[x])

CostStates(lst, tg) ==
    {s \in [target : [Node -> Target], cost : [Node -> Nat]] :
        /\ WellFormed(s.target) /\ \A x \in Node : Reordered(tg[x], s.target[x])
        /\ Rooted(lst, s.target, Fin(s))}

\* What the children S of p are told in state s, and t is the state then: who has
\* no better cost takes the one over p.
Offer(et, tg, y, p, parent) == parent + TransitCost(et, tg, y, p, parent)
Told(et, tg, s, t, S, p, parent) ==
    \A y \in Node :
        IF y \in S /\ s.cost[y] > Offer(et, tg, y, p, parent)
        THEN t.cost[y] = Offer(et, tg, y, p, parent) /\ Head(t.target[y].transits).via = p
        ELSE t.cost[y] = s.cost[y] /\ t.target[y] = s.target[y]

LEMMA ToldAgain ==
    ASSUME NEW et, NEW tg, NEW s, NEW t, NEW r, NEW S, NEW x \in Node, NEW p, NEW parent,
           Offer(et, tg, x, p, parent) \in Nat, Told(et, tg, s, t, S, p, parent), Told(et, tg, t, r, {x}, p, parent)
    PROVE  Told(et, tg, s, r, S \cup {x}, p, parent)
<1> SUFFICES ASSUME NEW y \in Node
             PROVE  IF y \in S \cup {x} /\ s.cost[y] > Offer(et, tg, y, p, parent)
                    THEN r.cost[y] = Offer(et, tg, y, p, parent) /\ Head(r.target[y].transits).via = p
                    ELSE r.cost[y] = s.cost[y] /\ r.target[y] = s.target[y]
  BY DEF Told
<1>1. /\ IF y \in S /\ s.cost[y] > Offer(et, tg, y, p, parent)
         THEN t.cost[y] = Offer(et, tg, y, p, parent) /\ Head(t.target[y].transits).via = p
         ELSE t.cost[y] = s.cost[y] /\ t.target[y] = s.target[y]
      /\ IF y \in {x} /\ t.cost[y] > Offer(et, tg, y, p, parent)
         THEN r.cost[y] = Offer(et, tg, y, p, parent) /\ Head(r.target[y].transits).via = p
         ELSE r.cost[y] = t.cost[y] /\ r.target[y] = t.target[y]
  BY DEF Told
<1>2. y = x => ~(Offer(et, tg, y, p, parent) > Offer(et, tg, y, p, parent))  OBVIOUS
<1> QED  BY <1>1, <1>2

LEMMA CostFacts ==
    /\ Infinite \in Nat /\ CostMod \in Nat /\ CostMod > 0
    /\ \A a, b \in 0..(CostMod - 1) : a + b \in Nat /\ a + b < Infinite
    /\ \A n \in Nat : n % CostMod \in 0..(CostMod - 1)
<1>1. Infinite \in Nat  BY DEF Infinite
<1>2. CostMod \in Nat /\ CostMod > 0 /\ 2 * CostMod < Infinite  BY CostAssumption
<1>3. \A n \in Nat : n % CostMod \in 0..(CostMod - 1)  BY <1>2
<1>4. \A a, b \in 0..(CostMod - 1) : a + b \in Nat /\ a + b < Infinite  BY <1>1, <1>2
<1> QED  BY <1>1, <1>2, <1>3, <1>4

LEMMA RelaxedFacts ==
    ASSUME NEW et \in Weights,
           NEW lst, NEW tg, NEW s \in CostStates(lst, tg), NEW x \in Node, x \in Range(lst), NEW p,
           HasTransit(tg[x], p), p = Root \/ (p \in Fin(s) /\ Before(lst, p, x)),
           NEW parent \in 0..(CostMod - 1)
    PROVE  LET r == Relaxed(et, s, x, p, parent)
           IN  /\ r \in CostStates(lst, tg) /\ Fin(r) = Fin(s) \cup {x}
               /\ Told(et, tg, s, r, {x}, p, parent) /\ Offer(et, tg, x, p, parent) \in Nat
<1> DEFINE l == s.target[x].transits
           tc == TransitCost(et, s.target, x, p, parent)
           cost == parent + tc
           r == Relaxed(et, s, x, p, parent)
<1>1. /\ s.target \in [Node -> Target] /\ s.cost \in [Node -> Nat]
      /\ s = [target |-> s.target, cost |-> s.cost]
      /\ \A y \in Node : OnePerVia(s.target[y]) /\ Reordered(tg[y], s.target[y])
      /\ Rooted(lst, s.target, Fin(s))
  BY DEF CostStates, WellFormed
<1>2. /\ s.target[x] \in Target /\ l \in Seq(Transit) /\ Uniq(l)
      /\ s.target[x] = [seq |-> s.target[x].seq, life |-> s.target[x].life, transits |-> l]
  <2>1. s.target[x] \in Target  BY <1>1
  <2> QED  BY <1>1, <2>1, TargetFields, UniqIs
<1>3. HasTransit(s.target[x], p) /\ \E e \in Range(l) : e.via = p
  BY <1>1 DEF HasTransit, Reordered
<1>4. tc \in 0..(CostMod - 1)
  <2>1. CostVia(s.target, x, p) \in 1..(CostMod - 1)  BY <1>2, <1>3, CostViaFacts
  <2>2. et[x] \in Nat  BY DEF Weights
  <2> DEFINE c == CostVia(s.target, x, p)
  <2> HIDE DEF c
  <2>3. c \in 1..(CostMod - 1) /\ c \in 0..(CostMod - 1) /\ c + et[x] \in Nat  BY <2>1, <2>2, CostFacts DEF c
  <2>4. (c + et[x]) % CostMod \in 0..(CostMod - 1)  BY <2>3, CostFacts
  <2>5. tc = IF parent = 0 THEN (c + et[x]) % CostMod ELSE c  BY DEF TransitCost, c
  <2> QED  BY <2>3, <2>4, <2>5
<1>0. cost = Offer(et, tg, x, p, parent)
  <2>1. Range(tg[x].transits) = Range(s.target[x].transits)  BY <1>1 DEF Reordered
  <2>2. CostVia(s.target, x, p) = CostVia(tg, x, p)  BY <2>1 DEF CostVia
  <2> QED  BY <2>2 DEF Offer, TransitCost
<1> HIDE DEF tc
<1>5. cost \in Nat /\ cost < Infinite /\ Infinite \in Nat  BY <1>4, CostFacts
<1>6. r = IF s.cost[x] > cost THEN [s EXCEPT !.cost[x] = cost, !.target[x].transits = First(@, p)] ELSE s
  BY DEF Relaxed, Better, tc
<1> HIDE DEF cost
<1>7. CASE ~(s.cost[x] > cost)
  <2>1. r = s  BY <1>6, <1>7
  <2>2. s.cost[x] \in Nat  BY <1>1
  <2>3. s.cost[x] # Infinite  BY <1>5, <1>7, <2>2
  <2>4. x \in Fin(s)  BY <2>3 DEF Fin
  <2> HIDE DEF r
  <2>5. Told(et, tg, s, r, {x}, p, parent)  BY <1>0, <1>7, <2>1 DEF Told
  <2> QED  BY <1>0, <1>5, <2>1, <2>4, <2>5 DEF r
<1>8. CASE s.cost[x] > cost
  <2> DEFINE f == First(l, p)
             u == [seq |-> s.target[x].seq, life |-> s.target[x].life, transits |-> f]
             nc == [s.cost EXCEPT ![x] = cost]
             nt == [s.target EXCEPT ![x] = u]
  <2>1. r = [target |-> nt, cost |-> nc]
    <3>1. r = [s EXCEPT !.cost[x] = cost, !.target[x].transits = First(@, p)]  BY <1>6, <1>8
    <3>2. [s.target EXCEPT ![x].transits = First(@, p)] = nt
      <4>1. [s.target[x] EXCEPT !.transits = First(@, p)] = u  BY <1>2 DEF Target
      <4> QED  BY <4>1
    <3> HIDE DEF r, nt, nc
    <3> QED  BY <1>1, <3>1, <3>2 DEF nc
  <2>2. /\ f \in Seq(Transit) /\ Uniq(f) /\ Range(f) = Range(l) /\ f # <<>> /\ Head(f).via = p
    BY <1>2, <1>3, FirstFacts
  <2> HIDE DEF f, r, l
  <2>3. u \in Target  BY <1>2, <2>2, TargetFields DEF Target
  <2>4. OnePerVia(u) /\ u.seq = s.target[x].seq /\ u.life = s.target[x].life /\ u.transits = f
    BY <2>2, UniqIs
  <2> HIDE DEF u
  <2>5. nt \in [Node -> Target] /\ nt[x] = u /\ \A y \in Node : y # x => nt[y] = s.target[y]
    BY <1>1, <2>3
  <2>6. nc \in [Node -> Nat] /\ nc[x] = cost /\ \A y \in Node : y # x => nc[y] = s.cost[y]
    BY <1>1, <1>5
  <2> HIDE DEF nt, nc
  <2>7. r.target = nt /\ r.cost = nc /\ r \in [target : [Node -> Target], cost : [Node -> Nat]]
    BY <2>1, <2>5, <2>6
  <2>8. Fin(r) = Fin(s) \cup {x}  BY <1>5, <2>6, <2>7 DEF Fin
  <2>9. WellFormed(nt)
    <3>1. \A y \in Node : OnePerVia(nt[y])  BY <1>1, <2>4, <2>5
    <3> QED  BY <2>5, <3>1 DEF WellFormed
  <2>10. \A y \in Node : Reordered(tg[y], nt[y])
    <3>1. Reordered(tg[x], u)  BY <1>1, <2>2, <2>4 DEF Reordered, l
    <3> QED  BY <1>1, <2>5, <3>1
  <2>11. Rooted(lst, nt, Fin(r))
    <3> SUFFICES ASSUME NEW y \in Fin(r)
                 PROVE  /\ y \in Range(lst) /\ nt[y].transits # <<>>
                        /\ LET q == Head(nt[y].transits).via
                           IN  q = Root \/ (q \in Fin(r) /\ Before(lst, q, y))
      BY DEF Rooted
    <3>1. CASE y = x
      <4>1. nt[y].transits = f  BY <2>4, <2>5, <3>1
      <4> QED  BY <2>2, <2>8, <3>1, <4>1
    <3>2. CASE y # x
      <4>1. y \in Node /\ y \in Fin(s) /\ nt[y] = s.target[y]  BY <2>5, <2>8, <3>2 DEF Fin
      <4> QED  BY <1>1, <2>8, <4>1 DEF Rooted
    <3> QED  BY <3>1, <3>2
  <2>12. r \in CostStates(lst, tg)  BY <2>7, <2>9, <2>10, <2>11 DEF CostStates
  <2>13. Told(et, tg, s, r, {x}, p, parent)
    <3>1. Head(nt[x].transits).via = p  BY <2>2, <2>4, <2>5
    <3> QED  BY <1>0, <1>8, <2>5, <2>6, <2>7, <3>1 DEF Told
  <2> QED  BY <1>0, <1>5, <2>8, <2>12, <2>13 DEF r
<1> QED  BY <1>7, <1>8

\* The children of p, in kids, got a cost in state s, and r is the state then.
AllRelaxed(lst, tg, s, kids, r) == r \in CostStates(lst, tg) /\ Fin(r) = Fin(s) \cup Range(kids)
Relaxable(lst, tg, kids, p) ==
    \A x \in Range(kids) : x \in Range(lst) /\ HasTransit(tg[x], p) /\ (p = Root \/ Before(lst, p, x))

LEMMA RelaxFacts ==
    ASSUME NEW et \in Weights,
           NEW lst, NEW tg, NEW s \in CostStates(lst, tg), NEW kids \in Seq(Node), NEW p, NEW from \in Nat,
           p = Root \/ p \in Fin(s), Relaxable(lst, tg, kids, p)
    PROVE  /\ AllRelaxed(lst, tg, s, kids, Relax(et, s, kids, p, from))
           /\ Told(et, tg, s, Relax(et, s, kids, p, from), Range(kids), p, from % CostMod)
<1> DEFINE N == Len(kids)
           base == s
           Op(t, k) == Relaxed(et, t, kids[k], p, from % CostMod)
           K(k) == {kids[j] : j \in 1..k}
           I == [k \in 0..N |-> {t \in CostStates(lst, tg) :
                    Fin(t) = Fin(s) \cup K(k) /\ Told(et, tg, s, t, K(k), p, from % CostMod)}]
           step == [k \in 1..N |-> [t \in I[k - 1] |-> Op(t, k)]]
           Eq(f) == f = [k \in 0..N |-> IF k = 0 THEN base ELSE Op(f[k - 1], k)]
           loop == CHOOSE f : Eq(f)
<1>0. \A i \in 1..N : kids[i] \in Range(kids) /\ kids[i] \in Node
  <2>1. Range(kids) \subseteq Node /\ \A i \in 1..N : kids[i] \in Range(kids)  BY RangeFacts
  <2> QED  BY <2>1
<1>1. N \in Nat  OBVIOUS
<1>2. base \in I[0]
  <2>1. K(0) = {}  OBVIOUS
  <2>2. 0 \in 0..N  BY <1>1
  <2> HIDE DEF K
  <2>3. Told(et, tg, s, s, K(0), p, from % CostMod)  BY <2>1 DEF Told
  <2> QED  BY <2>1, <2>2, <2>3
<1>3. ASSUME NEW k \in 1..N, NEW t \in I[k - 1] PROVE Op(t, k) \in I[k]
  <2> HIDE DEF N, K
  <2>1. k \in 0..N /\ k - 1 \in 0..N  BY <1>1
  <2>2. /\ t \in CostStates(lst, tg) /\ Fin(t) = Fin(s) \cup K(k - 1)
        /\ Told(et, tg, s, t, K(k - 1), p, from % CostMod)
    BY <2>1
  <2> DEFINE x == kids[k]
             from0 == from % CostMod
             r == Relaxed(et, t, x, p, from0)
  <2>3. from0 \in 0..(CostMod - 1)  BY CostFacts
  <2>4. /\ x \in Node /\ x \in Range(lst) /\ HasTransit(tg[x], p)
        /\ p = Root \/ (p \in Fin(t) /\ Before(lst, p, x))
    BY <1>0, <2>2 DEF Relaxable
  <2> HIDE DEF from0, x
  <2>5. /\ r \in CostStates(lst, tg) /\ Fin(r) = Fin(t) \cup {x}
        /\ Told(et, tg, t, r, {x}, p, from0) /\ Offer(et, tg, x, p, from0) \in Nat
    BY <2>2, <2>3, <2>4, RelaxedFacts
  <2> HIDE DEF r
  <2>6. K(k) = K(k - 1) \cup {x}
    <3>1. \A j \in 1..k : j \in 1..(k - 1) \/ j = k  BY <1>1
    <3>2. k \in 1..k /\ \A j \in 1..(k - 1) : j \in 1..k  BY <1>1
    <3> QED  BY <3>1, <3>2 DEF x, K
  <2>8. Told(et, tg, s, r, K(k), p, from % CostMod)
    <3>1. Told(et, tg, s, t, K(k - 1), p, from0)  BY <2>2 DEF from0
    <3>2. Told(et, tg, s, r, K(k - 1) \cup {x}, p, from0)  BY <2>4, <2>5, <3>1, ToldAgain
    <3> QED  BY <2>6, <3>2 DEF from0
  <2>7. r \in I[k]  BY <2>1, <2>2, <2>5, <2>6, <2>8
  <2> QED  BY <2>7 DEF r, x, from0
<1>4. Rounds(step, I, N)
  <2> HIDE DEF I, Op, N
  <2> QED  BY <1>3 DEF Rounds
<1>5. PICK g : LoopRun(g, N, base, step, I)
  <2> HIDE DEF I, step, N, base, Op
  <2> QED  BY <1>1, <1>2, <1>4, LoopInvariant
<1>6. Eq(g)
  <2> HIDE DEF I, N, base, Op
  <2>1. /\ g = [k \in 0..N |-> g[k]] /\ g[0] = base /\ \A k \in 0..N : g[k] \in I[k]
        /\ \A k \in 1..N : g[k] = step[k][g[k - 1]]
    <3> HIDE DEF step
    <3> QED  BY <1>5 DEF LoopRun
  <2>2. ASSUME NEW k \in 1..N PROVE g[k] = Op(g[k - 1], k)
    <3>1. k - 1 \in 0..N  BY <1>1
    <3>2. g[k - 1] \in I[k - 1]  BY <2>1, <3>1
    <3> QED  BY <2>1, <3>2
  <2> DEFINE h == [k \in 0..N |-> IF k = 0 THEN base ELSE Op(g[k - 1], k)]
  <2> HIDE DEF step
  <2>3. ASSUME NEW k \in 0..N PROVE g[k] = h[k]
    <3>1. CASE k = 0  BY <2>1, <3>1
    <3>2. CASE k # 0
      <4>1. k \in 1..N  BY <1>1, <3>2
      <4> QED  BY <2>2, <3>2, <4>1
    <3> QED  BY <3>1, <3>2
  <2>4. [k \in 0..N |-> g[k]] = h  BY <2>3
  <2> QED  BY <2>1, <2>4
<1>7. Eq(loop)
  <2> HIDE DEF Eq
  <2> QED  BY <1>6
<1> HIDE DEF loop
<1>8. loop[0] = base /\ \A k \in 1..N : loop[k] = Op(loop[k - 1], k)
  <2> HIDE DEF N, base, Op
  <2> QED  BY <1>1, <1>7
<1>9. \A k \in 1..N : loop[k - 1] \in I[k - 1] => loop[k] \in I[k]
  <2> HIDE DEF I, N, Op, Eq, step, base
  <2> QED  BY <1>3, <1>8
<1>10. loop[N] \in I[N]
  <2> HIDE DEF Op, Eq, step
  <2>1. loop[0] \in I[0]  BY <1>2, <1>8
  <2> HIDE DEF I, N, base
  <2> QED  BY <1>1, <1>9, <2>1, LoopEnd
<1>11. Relax(et, s, kids, p, from) = loop[N]  BY DEF Relax, loop
<1> DEFINE r == Relax(et, s, kids, p, from)
<1> HIDE DEF r, loop
<1>12. /\ r \in CostStates(lst, tg) /\ Fin(r) = Fin(s) \cup K(N)
       /\ Told(et, tg, s, r, K(N), p, from % CostMod)
  <2>1. N \in 0..N  BY <1>1
  <2>2. r = loop[N]  BY <1>11 DEF r
  <2> HIDE DEF N, K
  <2> QED  BY <1>10, <2>1, <2>2
<1>13. K(N) = Range(kids)  BY RangeFacts
<1> QED  BY <1>12, <1>13 DEF r, AllRelaxed


LEMMA BeforeIndex ==
    ASSUME NEW s \in Seq(Node), IsInjective(s), NEW k \in 1..Len(s), NEW j \in 1..Len(s), Before(s, s[k], s[j])
    PROVE  k < j
<1>1. DOMAIN s = 1..Len(s)  BY RangeFacts
<1>2. PICK a \in 1..Len(s), b \in 1..Len(s) : a < b /\ s[a] = s[k] /\ s[b] = s[j]  BY <1>1 DEF Before
<1>3. a = k /\ b = j  BY <1>1, <1>2 DEF IsInjective
<1> QED  BY <1>2, <1>3

\* Where the first k of the list have been visited.
Visited(lst, tg, kids, k) ==
    {s \in CostStates(lst, tg) :
        /\ Range(kids[Root]) \subseteq Fin(s)
        /\ \A j \in 1..k : lst[j] \in Fin(s) => Range(kids[lst[j]]) \subseteq Fin(s)}

\* A list without repetition is no longer than there are nodes.
LEMMA ListLength ==
    ASSUME NEW s \in Seq(Node), IsInjective(s)
    PROVE  Len(s) <= Cardinality(Node)
<1> DEFINE n == Len(s)
           m == Cardinality(Node)
           T == 1..n
<1>1. n \in Nat /\ s \in [T -> Node] /\ DOMAIN s = T  OBVIOUS
<1>2. m \in Nat /\ IsFiniteSet(Node)  BY RplAssumption, FS_CardinalityType
<1> HIDE DEF n, m
<1> SUFFICES ASSUME m < n PROVE FALSE  BY <1>1, <1>2 DEF n, m
<1>3. ~(1 > n) /\ n - 1 + 1 = n /\ n \in Int  BY <1>1, <1>2
<1>4. IsFiniteSet(T) /\ Cardinality(T) = n  BY <1>3, FS_Interval
<1>5. Cardinality(Node) < Cardinality(T)  BY <1>4 DEF m
<1> HIDE DEF T
<1>6. \E i, j \in T : i # j /\ s[i] = s[j]  BY <1>1, <1>2, <1>4, <1>5, FS_PigeonHole
<1> QED  BY <1>1, <1>6 DEF IsInjective

\* No sum of costs wraps: the dearest transit, once per node, and any ETX fit.
Fits(et, lst, tg, most) ==
    \A x \in Range(lst) :
        /\ et[x] + Cardinality(Node) * most < CostMod
        /\ \A e \in Range(tg[x].transits) : e.cost <= most

\* Where the first k of the list have been visited and no sum wraps: a cost is that
\* of the first transit plus the parent's, which is final; no parent visited
\* offers less; and it leaves room for one transit per place behind in the list.
Direct(et, tg, x) == CostVia(tg, x, Root) + et[x]
Exact(et, lst, tg, ug, s, k) ==
    \A x \in Fin(s) :
        LET p == Head(ug[x].transits).via
        IN  /\ p = Root => s.cost[x] = Direct(et, tg, x)
            /\ p # Root => s.cost[x] = s.cost[p] + CostVia(tg, x, p) /\ \E j \in 1..k : lst[j] = p
Lowest(et, lst, tg, kids, s, k) ==
    /\ \A x \in Range(kids[Root]) : s.cost[x] <= Direct(et, tg, x)
    /\ \A j \in 1..k : lst[j] \in Fin(s) =>
        \A x \in Range(kids[lst[j]]) : s.cost[x] <= s.cost[lst[j]] + CostVia(tg, x, lst[j])
Roomy(lst, s, most) ==
    \A i \in 1..Len(lst) : lst[i] \in Fin(s) =>
        1 <= s.cost[lst[i]] /\ s.cost[lst[i]] + (Cardinality(Node) - i) * most < CostMod
Capped(s) == \A x \in Node : s.cost[x] <= Infinite
Priced(et, lst, tg, kids, s, most, k) ==
    /\ Capped(s) /\ Exact(et, lst, tg, s.target, s, k) /\ Lowest(et, lst, tg, kids, s, k) /\ Roomy(lst, s, most)

LEMMA TimesMost ==
    ASSUME NEW a \in Nat, NEW b \in Nat, NEW m \in Nat, a < b
    PROVE  a * m \in Nat /\ b * m \in Nat /\ a * m + m <= b * m
<1> DEFINE d == b - (a + 1)
<1>1. d \in Nat /\ b = (a + 1) + d  OBVIOUS
<1>2. a * m \in Nat /\ d * m \in Nat /\ b * m \in Nat  BY <1>1
<1>3. b * m = (a * m + m) + d * m
  <2>1. b * m = ((a + 1) + d) * m  BY <1>1
  <2> HIDE DEF d
  <2>2. ((a + 1) + d) * m = (a + 1) * m + d * m  BY <1>1
  <2>3. (a + 1) * m = a * m + m  OBVIOUS
  <2> QED  BY <2>1, <2>2, <2>3
<1> HIDE DEF d
<1> QED  BY <1>2, <1>3

\* The cost of a transit in the database.
LEMMA FitCost ==
    ASSUME NEW et, NEW lst, NEW tg, NEW most, Fits(et, lst, tg, most), NEW x \in Range(lst), NEW p,
           tg[x].transits \in Seq(Transit), HasTransit(tg[x], p)
    PROVE  CostVia(tg, x, p) \in Nat /\ 1 <= CostVia(tg, x, p) /\ CostVia(tg, x, p) <= most
<1>1. CostVia(tg, x, p) \in 1..(CostMod - 1)  BY CostViaFacts
<1>2. \E e \in Range(tg[x].transits) : e.via = p  BY DEF HasTransit
<1>3. (CHOOSE e \in Range(tg[x].transits) : e.via = p) \in Range(tg[x].transits)  BY <1>2
<1>4. CostVia(tg, x, p) <= most  BY <1>3 DEF CostVia, Fits
<1> QED  BY <1>1, <1>4, CostFacts

LEMMA SmallMod ==
    ASSUME NEW a \in Nat, NEW m \in Nat, a < m
    PROVE  a % m = a
  OBVIOUS

LEMMA CostLimits == CostMod \in Nat /\ 4 < CostMod /\ CostMod < Infinite /\ Infinite \in Nat
<1>1. Infinite \in Nat  BY CostFacts
<1> HIDE DEF Infinite
<1> QED  BY <1>1, CostAssumption

\* What a child of the root is offered, at place i of the list.
LEMMA OfferRoot ==
    ASSUME NEW et \in Weights,
           NEW lst \in Seq(Node), IsInjective(lst), NEW tg, NEW most \in Nat, Fits(et, lst, tg, most),
           NEW i \in 1..Len(lst), tg[lst[i]].transits \in Seq(Transit), HasTransit(tg[lst[i]], Root)
    PROVE  LET x == lst[i]
           IN  /\ Direct(et, tg, x) \in Nat /\ 1 <= Direct(et, tg, x) /\ Direct(et, tg, x) < CostMod
               /\ Direct(et, tg, x) + (Cardinality(Node) - i) * most < CostMod
               /\ Offer(et, tg, x, Root, 0) = Direct(et, tg, x)
<1> DEFINE x == lst[i]
           n == Cardinality(Node)
           c == CostVia(tg, x, Root)
<1>1. x \in Range(lst) /\ x \in Node /\ Len(lst) \in Nat  BY RangeFacts
<1>2. c \in Nat /\ 1 <= c /\ c <= most  BY <1>1, FitCost
<1>3. n \in Nat /\ i \in Nat /\ 1 <= i /\ i <= n
  <2>1. n \in Nat  BY RplAssumption, FS_CardinalityType
  <2>2. Len(lst) <= n  BY ListLength
  <2> QED  BY <1>1, <2>1, <2>2
<1>4. et[x] \in Nat /\ et[x] + n * most < CostMod /\ CostMod \in Nat
  BY <1>1, CostFacts DEF Fits, Weights
<1>5. (n - i) \in Nat /\ n - i < n  BY <1>3
<1>6. (n - i) * most \in Nat /\ n * most \in Nat /\ (n - i) * most + most <= n * most  BY <1>3, <1>5, TimesMost
<1>7. Direct(et, tg, x) = c + et[x]  BY DEF Direct
<1>8. Offer(et, tg, x, Root, 0) = 0 + ((c + et[x]) % CostMod)
  <2> HIDE DEF x
  <2>1. TransitCost(et, tg, x, Root, 0) = (c + et[x]) % CostMod  BY DEF TransitCost
  <2> HIDE DEF c
  <2> QED  BY <2>1 DEF Offer
<1> HIDE DEF c, n, x
<1> DEFINE a == (n - i) * most
           b == n * most
<1>9. a \in Nat /\ b \in Nat /\ a + most <= b /\ et[x] + b < CostMod  BY <1>4, <1>6
<1> HIDE DEF a, b
<1>10. (c + et[x]) + a < CostMod /\ c + et[x] < CostMod /\ c + et[x] \in Nat /\ 1 <= c + et[x]
  BY <1>2, <1>4, <1>9
<1>11. (c + et[x]) % CostMod = c + et[x]
  <2> DEFINE d == c + et[x]
  <2>1. d \in Nat /\ d < CostMod /\ CostMod \in Nat  BY <1>4, <1>10
  <2> HIDE DEF d
  <2>2. d % CostMod = d  BY <2>1, SmallMod
  <2> QED  BY <2>2 DEF d
<1>12. 0 + (c + et[x]) = c + et[x]  BY <1>10
<1> QED  BY <1>7, <1>8, <1>10, <1>11, <1>12 DEF a, n, x

\* The children of the root have been told.
LEMMA RootPriced ==
    ASSUME NEW et \in Weights,
           NEW lst \in Seq(Node), IsInjective(lst), NEW tg, Typed(Range(lst), tg), NEW most \in Nat, Fits(et, lst, tg, most),
           NEW kids, \A x \in Range(kids[Root]) : x \in Range(lst) /\ HasTransit(tg[x], Root),
           NEW s, \A x \in Node : s.cost[x] = Infinite,
           NEW r \in CostStates(lst, tg), Told(et, tg, s, r, Range(kids[Root]), Root, 0)
    PROVE  Priced(et, lst, tg, kids, r, most, 0)
<1> DEFINE K == Range(kids[Root])
<1>1. Range(lst) \subseteq Node /\ Len(lst) \in Nat /\ \A x \in Range(lst) : \E i \in 1..Len(lst) : lst[i] = x
  BY RangeFacts
<1>2. ASSUME NEW i \in 1..Len(lst), lst[i] \in K
      PROVE  /\ Direct(et, tg, lst[i]) \in Nat /\ 1 <= Direct(et, tg, lst[i]) /\ Direct(et, tg, lst[i]) < CostMod
             /\ Direct(et, tg, lst[i]) + (Cardinality(Node) - i) * most < CostMod
             /\ Offer(et, tg, lst[i], Root, 0) = Direct(et, tg, lst[i])
  <2>1. lst[i] \in Range(lst) /\ HasTransit(tg[lst[i]], Root)  BY <1>2
  <2>2. tg[lst[i]].transits \in Seq(Transit)  BY <2>1 DEF Typed
  <2> QED  BY <2>1, <2>2, OfferRoot
<1>3. ASSUME NEW x \in K
      PROVE  /\ Direct(et, tg, x) \in Nat /\ Direct(et, tg, x) < Infinite /\ Infinite > Direct(et, tg, x)
             /\ Offer(et, tg, x, Root, 0) = Direct(et, tg, x) /\ x \in Node
  <2>1. x \in Range(lst)  OBVIOUS
  <2>2. PICK i \in 1..Len(lst) : lst[i] = x  BY <1>1, <2>1
  <2>3. Direct(et, tg, x) \in Nat /\ Direct(et, tg, x) < CostMod /\ Offer(et, tg, x, Root, 0) = Direct(et, tg, x)  BY <1>2, <2>2
  <2>4. CostMod \in Nat /\ CostMod < Infinite /\ Infinite \in Nat  BY CostLimits
  <2>5. Direct(et, tg, x) < Infinite /\ Infinite > Direct(et, tg, x)  BY <2>3, <2>4
  <2> QED  BY <1>1, <2>1, <2>3, <2>5
<1> HIDE DEF K
<1>4. \A x \in Node : IF x \in K THEN r.cost[x] = Direct(et, tg, x) /\ Head(r.target[x].transits).via = Root
                       ELSE r.cost[x] = Infinite
  BY <1>3 DEF Told, K
<1>5. Fin(r) = K
  <2>1. \A x \in K : Direct(et, tg, x) # Infinite  BY <1>3, CostFacts
  <2> QED  BY <1>3, <1>4, <2>1 DEF Fin
<1>6. Capped(r)  BY <1>3, <1>4, CostFacts DEF Capped
<1>7. Exact(et, lst, tg, r.target, r, 0)  BY <1>3, <1>4, <1>5 DEF Exact
<1>8. Lowest(et, lst, tg, kids, r, 0)
  <2>1. \A x \in K : r.cost[x] <= Direct(et, tg, x)  BY <1>3, <1>4
  <2>2. \A j \in 1..0 : FALSE  OBVIOUS
  <2> QED  BY <2>1, <2>2 DEF Lowest, K
<1>9. Roomy(lst, r, most)
  <2> SUFFICES ASSUME NEW i \in 1..Len(lst), lst[i] \in Fin(r)
               PROVE  1 <= r.cost[lst[i]] /\ r.cost[lst[i]] + (Cardinality(Node) - i) * most < CostMod
    BY DEF Roomy
  <2>1. lst[i] \in K /\ lst[i] \in Node  BY <1>3, <1>5
  <2>2. r.cost[lst[i]] = Direct(et, tg, lst[i])  BY <1>4, <2>1
  <2> QED  BY <1>2, <2>1, <2>2
<1> QED  BY <1>6, <1>7, <1>8, <1>9 DEF Priced

\* The children of the k-th of the list have been told.
LEMMA VisitPriced ==
    ASSUME NEW et \in Weights,
           NEW lst \in Seq(Node), IsInjective(lst), NEW tg, Typed(Range(lst), tg), NEW most \in Nat, Fits(et, lst, tg, most),
           NEW kids \in [Nodes -> Seq(Node)], TopoOK(lst, tg, kids), NEW k \in 1..Len(lst),
           NEW s \in CostStates(lst, tg), Priced(et, lst, tg, kids, s, most, k - 1), lst[k] \in Fin(s),
           NEW r \in CostStates(lst, tg), Told(et, tg, s, r, Range(kids[lst[k]]), lst[k], s.cost[lst[k]] % CostMod)
    PROVE  Priced(et, lst, tg, kids, r, most, k)
<1> DEFINE p == lst[k]
           from == s.cost[p]
           K == Range(kids[p])
           n == Cardinality(Node)
<1>1. /\ Range(lst) \subseteq Node /\ Len(lst) \in Nat
      /\ \A x \in Range(lst) : \E i \in 1..Len(lst) : lst[i] = x
      /\ \A i \in 1..Len(lst) : lst[i] \in Range(lst) /\ lst[i] \in Node
  BY RangeFacts
<1>2. s.cost \in [Node -> Nat] /\ r.cost \in [Node -> Nat]  BY DEF CostStates
<1>3. Capped(s) /\ Exact(et, lst, tg, s.target, s, k - 1) /\ Lowest(et, lst, tg, kids, s, k - 1) /\ Roomy(lst, s, most)  BY DEF Priced
<1>4. n \in Nat /\ Len(lst) <= n /\ CostMod \in Nat /\ Infinite \in Nat
  BY RplAssumption, FS_CardinalityType, ListLength, CostFacts
<1>5. k \in Nat /\ p \in Node /\ p \in Range(lst) /\ p # Root /\ p \in Nodes  BY <1>1, RplAssumption DEF Nodes
<1>6. /\ from \in Nat /\ 1 <= from /\ from + (n - k) * most < CostMod /\ from < CostMod /\ from % CostMod = from
  <2>1. from \in Nat /\ 1 <= from /\ from + (n - k) * most < CostMod  BY <1>2, <1>3, <1>5 DEF Roomy
  <2> DEFINE a == (n - k) * most
  <2>2. a \in Nat
    <3>1. n - k \in Nat  BY <1>1, <1>4
    <3> QED  BY <3>1
  <2> HIDE DEF a, from
  <2>3. from < CostMod  BY <1>4, <2>1, <2>2 DEF a
  <2>4. from % CostMod = from  BY <1>4, <2>1, <2>3, SmallMod
  <2> QED  BY <2>1, <2>3, <2>4
<1>7. ASSUME NEW y \in K
      PROVE  /\ y \in Range(lst) /\ y \in Node /\ HasTransit(tg[y], p) /\ Before(lst, p, y)
             /\ CostVia(tg, y, p) \in Nat /\ 1 <= CostVia(tg, y, p) /\ CostVia(tg, y, p) <= most
             /\ Offer(et, tg, y, p, from % CostMod) = from + CostVia(tg, y, p)
  <2> HIDE DEF p
  <2>1. y \in Range(lst) /\ HasTransit(tg[y], p) /\ Before(lst, p, y)
    BY <1>5 DEF TopoOK, Children, Forward
  <2>2. tg[y].transits \in Seq(Transit)  BY <2>1 DEF Typed
  <2>3. CostVia(tg, y, p) \in Nat /\ 1 <= CostVia(tg, y, p) /\ CostVia(tg, y, p) <= most  BY <2>1, <2>2, FitCost
  <2> HIDE DEF from
  <2>4. from # 0  BY <1>6
  <2>5. Offer(et, tg, y, p, from) = from + CostVia(tg, y, p)  BY <2>4 DEF Offer, TransitCost
  <2> QED  BY <1>1, <1>6, <2>1, <2>3, <2>5
<1>8. \A i \in 1..Len(lst) : lst[i] \in K => k < i
  BY <1>7, BeforeIndex
<1>9. \A y \in Node :
        IF y \in K /\ s.cost[y] > from + CostVia(tg, y, p)
        THEN r.cost[y] = from + CostVia(tg, y, p) /\ Head(r.target[y].transits).via = p
        ELSE r.cost[y] = s.cost[y] /\ r.target[y] = s.target[y]
  BY <1>7 DEF Told
<1>10. \A y \in Node : r.cost[y] \in Nat /\ s.cost[y] \in Nat /\ r.cost[y] <= s.cost[y]
  <2>1. \A y \in Node : r.cost[y] \in Nat /\ s.cost[y] \in Nat  BY <1>2
  <2> HIDE DEF K, p, from
  <2> QED  BY <1>6, <1>7, <1>9, <2>1
<1>11. \A i \in 1..k : i \in 1..Len(lst) /\ lst[i] \in Node /\ lst[i] \notin K /\ r.cost[lst[i]] = s.cost[lst[i]]
  <2>1. \A i \in 1..k : i \in 1..Len(lst) /\ ~(k < i)  BY <1>1
  <2> HIDE DEF K, p, from
  <2> QED  BY <1>1, <1>8, <1>9, <2>1
<1>12. \A i \in 1..k : lst[i] \in Fin(r) <=> lst[i] \in Fin(s)  BY <1>11 DEF Fin
<1>13. r.cost[p] = from /\ k \in 1..k /\ \A j \in 1..(k - 1) : j \in 1..k
  <2>1. k \in 1..k /\ \A j \in 1..(k - 1) : j \in 1..k  BY <1>5
  <2> QED  BY <1>11, <2>1
<1> HIDE DEF K, n, p, from
<1>14. Capped(r)
  <2> SUFFICES ASSUME NEW y \in Node PROVE r.cost[y] <= Infinite  BY DEF Capped
  <2>1. s.cost[y] <= Infinite  BY <1>3 DEF Capped
  <2> QED  BY <1>4, <1>10, <2>1
<1>15. Exact(et, lst, tg, r.target, r, k)
  <2> SUFFICES ASSUME NEW y \in Fin(r)
               PROVE  LET q == Head(r.target[y].transits).via
                      IN  /\ q = Root => r.cost[y] = Direct(et, tg, y)
                          /\ q # Root => r.cost[y] = r.cost[q] + CostVia(tg, y, q) /\ \E j \in 1..k : lst[j] = q
    BY DEF Exact
  <2>1. y \in Node /\ r.cost[y] # Infinite  BY DEF Fin
  <2>2. CASE y \in K /\ s.cost[y] > from + CostVia(tg, y, p)
    <3>1. r.cost[y] = from + CostVia(tg, y, p) /\ Head(r.target[y].transits).via = p  BY <1>9, <2>1, <2>2
    <3>2. \E j \in 1..k : lst[j] = p  BY <1>13 DEF p
    <3> QED  BY <1>5, <1>13, <3>1, <3>2
  <2>3. CASE ~(y \in K /\ s.cost[y] > from + CostVia(tg, y, p))
    <3>1. r.cost[y] = s.cost[y] /\ r.target[y] = s.target[y]  BY <1>9, <2>1, <2>3
    <3>2. y \in Fin(s)  BY <2>1, <3>1 DEF Fin
    <3> DEFINE q == Head(s.target[y].transits).via
    <3>3. /\ q = Root => s.cost[y] = Direct(et, tg, y)
          /\ q # Root => s.cost[y] = s.cost[q] + CostVia(tg, y, q) /\ \E j \in 1..(k - 1) : lst[j] = q
      BY <1>3, <3>2 DEF Exact
    <3>4. q = Head(r.target[y].transits).via  BY <3>1
    <3> HIDE DEF q
    <3>5. q # Root => r.cost[q] = s.cost[q] /\ \E j \in 1..k : lst[j] = q  BY <1>11, <1>13, <3>3
    <3> QED  BY <3>1, <3>3, <3>4, <3>5
  <2> QED  BY <2>2, <2>3
<1>16. Lowest(et, lst, tg, kids, r, k)
  <2>1. ASSUME NEW x \in Range(kids[Root]) PROVE r.cost[x] <= Direct(et, tg, x)
    <3>1. x \in Range(lst) /\ HasTransit(tg[x], Root)  BY DEF TopoOK, Children, Nodes
    <3>2. PICK i \in 1..Len(lst) : lst[i] = x  BY <1>1, <3>1
    <3>3. tg[x].transits \in Seq(Transit)  BY <3>1 DEF Typed
    <3>4. Direct(et, tg, x) \in Nat  BY <3>1, <3>2, <3>3, OfferRoot
    <3>5. s.cost[x] <= Direct(et, tg, x)  BY <1>3 DEF Lowest
    <3>6. x \in Node  BY <1>1, <3>1
    <3> QED  BY <1>10, <3>4, <3>5, <3>6
  <2>2. ASSUME NEW j \in 1..k, lst[j] \in Fin(r), NEW x \in Range(kids[lst[j]])
        PROVE  r.cost[x] <= r.cost[lst[j]] + CostVia(tg, x, lst[j])
    <3>1. CASE j = k
      <4>1. x \in K  BY <2>2, <3>1 DEF K, p
      <4>2. x \in Node /\ CostVia(tg, x, p) \in Nat  BY <1>7, <4>1
      <4>3. r.cost[x] <= from + CostVia(tg, x, p)
        <5> DEFINE c == CostVia(tg, x, p)
        <5>1. IF s.cost[x] > from + c THEN r.cost[x] = from + c ELSE r.cost[x] = s.cost[x]  BY <1>9, <4>1, <4>2
        <5>2. c \in Nat /\ from \in Nat /\ s.cost[x] \in Nat  BY <1>6, <1>10, <4>2
        <5> HIDE DEF c
        <5> QED  BY <5>1, <5>2 DEF c
      <4> QED  BY <1>13, <3>1, <4>3 DEF p
    <3>2. CASE j \in 1..(k - 1)
      <4>1. lst[j] \in Fin(s) /\ lst[j] \in Node /\ r.cost[lst[j]] = s.cost[lst[j]]  BY <1>11, <1>12, <2>2
      <4>2. s.cost[x] <= s.cost[lst[j]] + CostVia(tg, x, lst[j])  BY <1>3, <2>2, <3>2, <4>1 DEF Lowest
      <4>3. x \in Range(lst) /\ HasTransit(tg[x], lst[j])  BY <2>2, <4>1 DEF TopoOK, Children, Nodes
      <4>4. tg[x].transits \in Seq(Transit)  BY <4>3 DEF Typed
      <4>5. CostVia(tg, x, lst[j]) \in Nat  BY <4>3, <4>4, FitCost
      <4>6. x \in Node  BY <1>1, <4>3
      <4> QED  BY <1>10, <4>1, <4>2, <4>5, <4>6
    <3>3. j = k \/ j \in 1..(k - 1)  BY <1>5
    <3> QED  BY <3>1, <3>2, <3>3
  <2> QED  BY <2>1, <2>2 DEF Lowest
<1>17. Roomy(lst, r, most)
  <2> SUFFICES ASSUME NEW i \in 1..Len(lst), lst[i] \in Fin(r)
               PROVE  1 <= r.cost[lst[i]] /\ r.cost[lst[i]] + (Cardinality(Node) - i) * most < CostMod
    BY DEF Roomy
  <2> DEFINE y == lst[i]
  <2>1. y \in Node  BY <1>1
  <2>2. CASE y \in K /\ s.cost[y] > from + CostVia(tg, y, p)
    <3>1. r.cost[y] = from + CostVia(tg, y, p)  BY <1>9, <2>1, <2>2
    <3>2. k < i  BY <1>8, <2>2
    <3> DEFINE c == CostVia(tg, y, p)
               a == (n - i) * most
               b == (n - k) * most
    <3>3. c \in Nat /\ c <= most  BY <1>7, <2>2
    <3>4. a \in Nat /\ b \in Nat /\ a + most <= b
      <4>1. n \in Nat /\ k \in Nat /\ i \in Nat /\ i <= n  BY <1>1, <1>4, <1>5
      <4>2. n - i \in Nat /\ n - k \in Nat /\ n - i < n - k  BY <3>2, <4>1
      <4> HIDE DEF y
      <4> QED  BY <4>2, TimesMost
    <3>5. from + b < CostMod  BY <1>6
    <3> HIDE DEF a, b, c, y
    <3>6. 1 <= from + c /\ (from + c) + a < CostMod  BY <1>4, <1>6, <3>3, <3>4, <3>5
    <3> QED  BY <3>1, <3>6 DEF a, c, n, y
  <2>3. CASE ~(y \in K /\ s.cost[y] > from + CostVia(tg, y, p))
    <3>1. r.cost[y] = s.cost[y]  BY <1>9, <2>1, <2>3
    <3>2. y \in Fin(s)  BY <2>1, <3>1 DEF Fin
    <3> QED  BY <1>3, <3>1, <3>2 DEF Roomy
  <2> QED  BY <2>2, <2>3
<1> QED  BY <1>14, <1>15, <1>16, <1>17 DEF Priced

\* The k-th of the list has no cost.
LEMMA PassedPriced ==
    ASSUME NEW et \in Weights, NEW lst, NEW tg, NEW kids, NEW s, NEW most, NEW k \in Nat, 1 <= k, lst[k] \notin Fin(s),
           Priced(et, lst, tg, kids, s, most, k - 1)
    PROVE  Priced(et, lst, tg, kids, s, most, k)
<1>1. (\A j \in 1..(k - 1) : j \in 1..k) /\ \A j \in 1..k : j = k \/ j \in 1..(k - 1)  OBVIOUS
<1>2. Capped(s) /\ Exact(et, lst, tg, s.target, s, k - 1) /\ Lowest(et, lst, tg, kids, s, k - 1) /\ Roomy(lst, s, most)  BY DEF Priced
<1>3. Exact(et, lst, tg, s.target, s, k)  BY <1>1, <1>2 DEF Exact
<1>4. Lowest(et, lst, tg, kids, s, k)  BY <1>1, <1>2 DEF Lowest
<1> QED  BY <1>2, <1>3, <1>4 DEF Priced

LEMMA VisitFacts ==
    ASSUME NEW et \in Weights,
           NEW lst \in Seq(Node), IsInjective(lst), NEW tg, NEW kids \in [Nodes -> Seq(Node)], Typed(Range(lst), tg),
           TopoOK(lst, tg, kids), NEW k \in 1..Len(lst), NEW s \in Visited(lst, tg, kids, k - 1)
    PROVE  LET r == Visit(et, s, kids, lst[k])
           IN  /\ r \in Visited(lst, tg, kids, k)
               /\ \A most \in Nat : Fits(et, lst, tg, most) /\ Priced(et, lst, tg, kids, s, most, k - 1)
                                    => Priced(et, lst, tg, kids, r, most, k)
<1> DEFINE x == lst[k]
           r == Visit(et, s, kids, x)
<1>1. /\ s \in CostStates(lst, tg) /\ Range(kids[Root]) \subseteq Fin(s)
      /\ \A j \in 1..(k - 1) : lst[j] \in Fin(s) => Range(kids[lst[j]]) \subseteq Fin(s)
  BY DEF Visited
<1>2. Len(lst) \in Nat /\ x \in Node /\ x \in Nodes  BY DEF Nodes
<1>3. \A j \in 1..k : j \in 1..(k - 1) \/ j = k  BY <1>2
<1> HIDE DEF x
<1>4. CASE s.cost[x] = Infinite
  <2>1. r = s  BY <1>4 DEF Visit
  <2>2. x \notin Fin(s)  BY <1>4 DEF Fin
  <2>3. \A j \in 1..k : lst[j] \in Fin(s) => Range(kids[lst[j]]) \subseteq Fin(s)
    BY <1>1, <1>3, <2>2 DEF x
  <2> HIDE DEF r
  <2>4. r \in Visited(lst, tg, kids, k)  BY <1>1, <2>1, <2>3 DEF Visited
  <2>5. k \in Nat /\ 1 <= k /\ lst[k] \notin Fin(s)  BY <1>2, <2>2 DEF x
  <2>6. \A most : Priced(et, lst, tg, kids, s, most, k - 1) => Priced(et, lst, tg, kids, r, most, k)
    BY <2>1, <2>5, PassedPriced
  <2> QED  BY <2>4, <2>6 DEF r, x
<1>5. CASE s.cost[x] # Infinite
  <2>1. r = Relax(et, s, kids[x], x, s.cost[x])  BY <1>5 DEF Visit
  <2>2. x \in Fin(s)  BY <1>2, <1>5 DEF Fin
  <2>3. kids[x] \in Seq(Node) /\ s.cost[x] \in Nat  BY <1>1, <1>2 DEF CostStates
  <2>4. \A y \in Range(kids[x]) : y \in Range(lst) /\ HasTransit(tg[y], x) /\ Before(lst, x, y)
    BY <1>2 DEF TopoOK, Children, Forward
  <2> HIDE DEF r
  <2>5. /\ r \in CostStates(lst, tg) /\ Fin(r) = Fin(s) \cup Range(kids[x])
        /\ Told(et, tg, s, r, Range(kids[x]), x, s.cost[x] % CostMod)
    <3>1. Relaxable(lst, tg, kids[x], x)  BY <2>4 DEF Relaxable
    <3>2. /\ AllRelaxed(lst, tg, s, kids[x], r)
          /\ Told(et, tg, s, r, Range(kids[x]), x, s.cost[x] % CostMod)
      BY <1>1, <2>1, <2>2, <2>3, <3>1, RelaxFacts
    <3> QED  BY <3>2 DEF AllRelaxed
  <2>6. ASSUME NEW j \in 1..k, lst[j] \in Fin(r) PROVE Range(kids[lst[j]]) \subseteq Fin(r)
    <3>1. CASE j = k  BY <2>5, <3>1 DEF x
    <3>2. CASE j \in 1..(k - 1)
      <4>1. lst[j] \in Fin(s)
        <5> SUFFICES ASSUME lst[j] \notin Fin(s) PROVE FALSE  OBVIOUS
        <5>1. lst[j] \in Range(kids[x])  BY <2>5, <2>6
        <5>2. Before(lst, lst[k], lst[j])  BY <2>4, <5>1 DEF x
        <5>3. j \in 1..Len(lst) /\ j < k  BY <1>2, <3>2
        <5>4. k < j  BY <5>2, <5>3, BeforeIndex
        <5> QED  BY <5>3, <5>4
      <4> QED  BY <1>1, <2>5, <3>2, <4>1
    <3> QED  BY <1>3, <3>1, <3>2
  <2>7. r \in Visited(lst, tg, kids, k)  BY <1>1, <2>5, <2>6 DEF Visited
  <2>8. \A most \in Nat : Fits(et, lst, tg, most) /\ Priced(et, lst, tg, kids, s, most, k - 1)
                         => Priced(et, lst, tg, kids, r, most, k)
    <3>1. Told(et, tg, s, r, Range(kids[lst[k]]), lst[k], s.cost[lst[k]] % CostMod) /\ lst[k] \in Fin(s)
      BY <2>2, <2>5 DEF x
    <3> QED  BY <1>1, <2>5, <3>1, VisitPriced
  <2> QED  BY <2>7, <2>8 DEF r, x
<1> QED  BY <1>4, <1>5

Costed(et, lst, tg, kids, c, conn) ==
    /\ c.cost \in [Node -> Nat]
    /\ WellFormed(c.target) /\ \A x \in Node : Reordered(tg[x], c.target[x])
    /\ conn \in SUBSET Node /\ Rooted(lst, c.target, conn) /\ Closed(conn, kids) /\ conn = Fin(c)
    /\ \A most \in Nat : Fits(et, lst, tg, most) => Priced(et, lst, tg, kids, c, most, Len(lst))

\* The path costs rearrange transits and do nothing else to the database; who
\* gets a cost is rooted, and all that the child lists reach gets one.
LEMMA CostsFacts ==
    ASSUME NEW et \in Weights,
           NEW lst \in Seq(Node), IsInjective(lst), NEW tg, WellFormed(tg), NEW kids \in [Nodes -> Seq(Node)],
           TopoOK(lst, tg, kids)
    PROVE  LET c == Costs(et, lst, tg, kids)
               conn == {x \in Range(lst) : c.cost[x] # Infinite}
           IN  Costed(et, lst, tg, kids, c, conn)
<1> DEFINE none == [target |-> tg, cost |-> [x \in Node |-> Infinite]]
           N == Len(lst)
           base == Relax(et, none, kids[Root], Root, 0)
           Op(t, k) == Visit(et, t, kids, lst[k])
           V(k) == {t \in Visited(lst, tg, kids, k) :
                        \A most \in Nat : Fits(et, lst, tg, most) => Priced(et, lst, tg, kids, t, most, k)}
           I == [k \in 0..N |-> V(k)]
           step == [k \in 1..N |-> [t \in I[k - 1] |-> Op(t, k)]]
           Eq(f) == f = [k \in 0..N |-> IF k = 0 THEN base ELSE Op(f[k - 1], k)]
           loop == CHOOSE f : Eq(f)
<1>1. N \in Nat  OBVIOUS
<1>0. Typed(Range(lst), tg)
  <2>1. Range(lst) \subseteq Node  BY RangeFacts
  <2> QED  BY <2>1, TargetFields DEF Typed, WellFormed
<1>2. base \in I[0]
  <2>1. none \in CostStates(lst, tg) /\ Fin(none) = {}
    <3>1. none.target = tg /\ none.cost = [x \in Node |-> Infinite]  OBVIOUS
    <3>2. none \in [target : [Node -> Target], cost : [Node -> Nat]]  BY CostFacts DEF WellFormed
    <3> HIDE DEF none
    <3>3. Fin(none) = {}  BY <3>1 DEF Fin
    <3>4. \A x \in Node : Reordered(tg[x], tg[x])  BY DEF Reordered
    <3>5. Rooted(lst, tg, {})  BY DEF Rooted
    <3> QED  BY <3>1, <3>2, <3>3, <3>4, <3>5 DEF CostStates
  <2> HIDE DEF none
  <2> DEFINE kr == kids[Root]
  <2>2. kr \in Seq(Node) /\ 0 \in Nat  BY DEF Nodes
  <2>3. \A x \in Range(kr) : x \in Range(lst) /\ HasTransit(tg[x], Root)
    BY DEF TopoOK, Children, Nodes
  <2>4. /\ base \in CostStates(lst, tg) /\ Fin(base) = Fin(none) \cup Range(kr)
        /\ Told(et, tg, none, base, Range(kr), Root, 0)
    <3> HIDE DEF kr
    <3>1. Relaxable(lst, tg, kr, Root)  BY <2>3 DEF Relaxable
    <3>2. /\ AllRelaxed(lst, tg, none, kr, Relax(et, none, kr, Root, 0))
          /\ Told(et, tg, none, Relax(et, none, kr, Root, 0), Range(kr), Root, 0 % CostMod)
      BY <2>1, <2>2, <3>1, RelaxFacts
    <3>4. 0 % CostMod = 0  BY CostFacts, SmallMod
    <3>3. base = Relax(et, none, kr, Root, 0)  BY DEF kr
    <3> HIDE DEF base
    <3> QED  BY <3>2, <3>3, <3>4 DEF AllRelaxed
  <2>8. \A x \in Node : none.cost[x] = Infinite  BY DEF none
  <2> HIDE DEF base
  <2>5. \A j \in 1..0 : FALSE  OBVIOUS
  <2>6. base \in Visited(lst, tg, kids, 0)  BY <2>4, <2>5 DEF Visited
  <2>7. 0 \in 0..N  BY <1>1
  <2>9. \A most \in Nat : Fits(et, lst, tg, most) => Priced(et, lst, tg, kids, base, most, 0)
    BY <1>0, <2>3, <2>4, <2>8, RootPriced
  <2>10. base \in V(0)  BY <2>6, <2>9
  <2> HIDE DEF V
  <2> QED  BY <2>7, <2>10
<1> HIDE DEF none
<1>3. ASSUME NEW k \in 1..N, NEW t \in I[k - 1] PROVE Op(t, k) \in I[k]
  <2>1. k \in 0..N /\ k - 1 \in 0..N  BY <1>1
  <2>2. t \in V(k - 1)
    <3> HIDE DEF V
    <3> QED  BY <2>1
  <2>3. t \in Visited(lst, tg, kids, k - 1) /\ \A most \in Nat : Fits(et, lst, tg, most) => Priced(et, lst, tg, kids, t, most, k - 1)
    BY <2>2
  <2>4. /\ Op(t, k) \in Visited(lst, tg, kids, k)
        /\ \A most \in Nat : Fits(et, lst, tg, most) /\ Priced(et, lst, tg, kids, t, most, k - 1)
                               => Priced(et, lst, tg, kids, Op(t, k), most, k)
    BY <1>0, <2>3, VisitFacts
  <2> HIDE DEF Op
  <2>5. Op(t, k) \in V(k)  BY <2>3, <2>4
  <2> HIDE DEF V
  <2> QED  BY <2>1, <2>5
<1>4. Rounds(step, I, N)
  <2> HIDE DEF I, Op, N
  <2> QED  BY <1>3 DEF Rounds
<1>5. PICK g : LoopRun(g, N, base, step, I)
  <2> HIDE DEF I, step, N, base, Op
  <2> QED  BY <1>1, <1>2, <1>4, LoopInvariant
<1>6. Eq(g)
  <2> HIDE DEF I, N, base, Op
  <2>1. /\ g = [k \in 0..N |-> g[k]] /\ g[0] = base /\ \A k \in 0..N : g[k] \in I[k]
        /\ \A k \in 1..N : g[k] = step[k][g[k - 1]]
    <3> HIDE DEF step
    <3> QED  BY <1>5 DEF LoopRun
  <2>2. ASSUME NEW k \in 1..N PROVE g[k] = Op(g[k - 1], k)
    <3>1. k - 1 \in 0..N  BY <1>1
    <3>2. g[k - 1] \in I[k - 1]  BY <2>1, <3>1
    <3> QED  BY <2>1, <3>2
  <2> DEFINE h == [k \in 0..N |-> IF k = 0 THEN base ELSE Op(g[k - 1], k)]
  <2> HIDE DEF step
  <2>3. ASSUME NEW k \in 0..N PROVE g[k] = h[k]
    <3>1. CASE k = 0  BY <2>1, <3>1
    <3>2. CASE k # 0
      <4>1. k \in 1..N  BY <1>1, <3>2
      <4> QED  BY <2>2, <3>2, <4>1
    <3> QED  BY <3>1, <3>2
  <2>4. [k \in 0..N |-> g[k]] = h  BY <2>3
  <2> QED  BY <2>1, <2>4
<1>7. Eq(loop)
  <2> HIDE DEF Eq
  <2> QED  BY <1>6
<1> HIDE DEF loop
<1>8. loop[0] = base /\ \A k \in 1..N : loop[k] = Op(loop[k - 1], k)
  <2> HIDE DEF N, base, Op
  <2> QED  BY <1>1, <1>7
<1>9. \A k \in 1..N : loop[k - 1] \in I[k - 1] => loop[k] \in I[k]
  <2> HIDE DEF I, N, Op, Eq, step, base
  <2> QED  BY <1>3, <1>8
<1>10. loop[N] \in I[N]
  <2> HIDE DEF Op, Eq, step
  <2>1. loop[0] \in I[0]  BY <1>2, <1>8
  <2> HIDE DEF I, N, base
  <2> QED  BY <1>1, <1>9, <2>1, LoopEnd
<1>11. Costs(et, lst, tg, kids) = loop[N]  BY DEF Costs, loop, none
<1> DEFINE c == Costs(et, lst, tg, kids)
           conn == {x \in Range(lst) : c.cost[x] # Infinite}
<1> HIDE DEF c, loop
<1>12. c \in V(N)
  <2>1. N \in 0..N  BY <1>1
  <2>2. c = loop[N]  BY <1>11 DEF c
  <2> HIDE DEF N, V
  <2> QED  BY <1>10, <2>1, <2>2
<1>18. \A most \in Nat : Fits(et, lst, tg, most) => Priced(et, lst, tg, kids, c, most, Len(lst))  BY <1>12
<1>13. /\ c \in CostStates(lst, tg) /\ Range(kids[Root]) \subseteq Fin(c)
       /\ \A j \in 1..N : lst[j] \in Fin(c) => Range(kids[lst[j]]) \subseteq Fin(c)
  BY <1>12 DEF Visited
<1>14. /\ c.cost \in [Node -> Nat] /\ WellFormed(c.target)
       /\ (\A x \in Node : Reordered(tg[x], c.target[x])) /\ Rooted(lst, c.target, Fin(c))
  BY <1>13 DEF CostStates
<1>15. conn = Fin(c)
  <2>1. Range(lst) \subseteq Node  BY RangeFacts
  <2>2. Fin(c) \subseteq Range(lst)  BY <1>14 DEF Rooted
  <2> QED  BY <2>1, <2>2 DEF Fin
<1>16. Closed(Fin(c), kids)
  <2>1. ASSUME NEW p \in Fin(c) PROVE Range(kids[p]) \subseteq Fin(c)
    <3>1. p \in Range(lst)  BY <1>14 DEF Rooted
    <3>2. PICK j \in 1..N : lst[j] = p  BY <3>1, RangeFacts
    <3> QED  BY <1>13, <3>2
  <2> QED  BY <1>13, <2>1 DEF Closed
<1>17. Fin(c) \in SUBSET Node  BY DEF Fin
<1> HIDE DEF conn
<1>19. Costed(et, lst, tg, kids, c, conn)  BY <1>14, <1>15, <1>16, <1>17, <1>18 DEF Costed
<1> QED  BY <1>19 DEF c, conn

-----------------------------------------------------------------------------
(***************************************************************************)
(* The walk over first transits.                                            *)
(***************************************************************************)
LEMMA BeforeOrder ==
    ASSUME NEW s \in Seq(Node), IsInjective(s)
    PROVE  /\ \A a, b : Before(s, a, b) => a # b
           /\ \A a, b, c : Before(s, a, b) /\ Before(s, b, c) => Before(s, a, c)
<1>1. DOMAIN s = 1..Len(s) /\ Len(s) \in Nat  BY RangeFacts
<1>2. ASSUME NEW a, NEW b, Before(s, a, b) PROVE a # b
  <2>1. PICK i \in 1..Len(s), j \in 1..Len(s) : i < j /\ s[i] = a /\ s[j] = b  BY <1>1, <1>2 DEF Before
  <2>2. i # j  BY <2>1
  <2> QED  BY <1>1, <2>1, <2>2 DEF IsInjective
<1>3. ASSUME NEW a, NEW b, NEW c, Before(s, a, b), Before(s, b, c) PROVE Before(s, a, c)
  <2>1. PICK i \in 1..Len(s), j \in 1..Len(s) : i < j /\ s[i] = a /\ s[j] = b  BY <1>1, <1>3 DEF Before
  <2>2. PICK k \in 1..Len(s), l \in 1..Len(s) : k < l /\ s[k] = b /\ s[l] = c  BY <1>1, <1>3 DEF Before
  <2>3. j = k  BY <1>1, <2>1, <2>2 DEF IsInjective
  <2>4. i < l  BY <2>1, <2>2, <2>3
  <2> QED  BY <1>1, <2>1, <2>2, <2>4 DEF Before
<1> QED  BY <1>2, <1>3

\* Where the walk was after i hops.
Hop(w, i) == IF i = 0 THEN w.dest ELSE w.hops[i]

\* The first transit of a leads to b.
Leads(tg, a, b) == HasTransit(tg[a], b) /\ Head(tg[a].transits).via = b

WalkStates(c, x, k) ==
    {w \in [dest : Node, at : Node, hops : Seq(Node), end : {"", "root"}, last : Nodes] :
        /\ w.dest = x /\ w.at = Hop(w, Len(w.hops)) /\ w.at \in c.paths.connected
        /\ \A i \in 0..Len(w.hops) : Hop(w, i) \in c.paths.connected
        /\ \A i, j \in 0..Len(w.hops) : i < j => Before(c.list, Hop(w, j), Hop(w, i))
        /\ \A i \in 0..(Len(w.hops) - 1) : Leads(c.target, Hop(w, i), Hop(w, i + 1))
        /\ w.end = "root" => w.last = Root /\ Leads(c.target, w.at, Root)
        /\ w.end = "" => Len(w.hops) = k}

Routed(c) ==
    /\ c.list \in Seq(Node) /\ IsInjective(c.list)
    /\ c.target \in [Node -> Target] /\ c.paths.connected \in SUBSET Node
    /\ Rooted(c.list, c.target, c.paths.connected)

LEMMA WalkStepFacts ==
    ASSUME NEW c, Routed(c), NEW x \in c.paths.connected, NEW k \in Nat \ {0}, NEW w \in WalkStates(c, x, k - 1)
    PROVE  WalkStep(c, w) \in WalkStates(c, x, k)
<1> DEFINE n == Len(w.hops)
           at == w.at
           p == Via(c, at)
           r == WalkStep(c, w)
<1>1. /\ w \in [dest : Node, at : Node, hops : Seq(Node), end : {"", "root"}, last : Nodes]
      /\ w.dest = x /\ at = Hop(w, n) /\ at \in c.paths.connected
      /\ \A i \in 0..n : Hop(w, i) \in c.paths.connected
      /\ \A i, j \in 0..n : i < j => Before(c.list, Hop(w, j), Hop(w, i))
      /\ \A i \in 0..(n - 1) : Leads(c.target, Hop(w, i), Hop(w, i + 1))
      /\ w.end = "root" => w.last = Root /\ Leads(c.target, at, Root)
      /\ w.end = "" => n = k - 1
  BY DEF WalkStates
<1>2. n \in Nat /\ w.hops \in Seq(Node)
  <2>1. w.hops \in Seq(Node)  BY <1>1
  <2> QED  BY <2>1
<1>3. /\ at \in Range(c.list) /\ Leads(c.target, at, p)
      /\ p = Root \/ (p \in c.paths.connected /\ Before(c.list, p, at))
  <2> HIDE DEF at
  <2>1. /\ at \in Range(c.list) /\ c.target[at].transits # <<>>
        /\ p = Root \/ (p \in c.paths.connected /\ Before(c.list, p, at))
    BY <1>1 DEF Routed, Rooted, Via
  <2>2. c.target[at].transits \in Seq(Transit)
    <3>1. c.target[at] \in Target  BY <1>1 DEF Routed
    <3> QED  BY <3>1, TargetFields
  <2>3. Head(c.target[at].transits) \in Range(c.target[at].transits)  BY <2>1, <2>2, TailFacts
  <2>4. Leads(c.target, at, p)  BY <2>3 DEF HasTransit, Via, Leads
  <2> QED  BY <2>1, <2>4
<1>4. CASE w.end # ""
  <2>1. r = w  BY <1>4 DEF WalkStep
  <2>2. w \in WalkStates(c, x, k)  BY <1>1, <1>4 DEF WalkStates
  <2> HIDE DEF r
  <2> QED  BY <2>1, <2>2 DEF r
<1> HIDE DEF p
<1>5. CASE w.end = "" /\ p = Root
  <2>1. p \notin Range(c.list)
    <3>1. Range(c.list) \subseteq Node  BY RangeFacts DEF Routed
    <3> QED  BY <1>5, <3>1, RplAssumption
  <2>2. r = [w EXCEPT !.end = "root", !.last = p]  BY <1>5, <2>1 DEF WalkStep, p
  <2> HIDE DEF r
  <2>3. /\ r \in [dest : Node, at : Node, hops : Seq(Node), end : {"", "root"}, last : Nodes]
        /\ r.dest = w.dest /\ r.at = at /\ r.hops = w.hops /\ r.end = "root" /\ r.last = Root
    BY <1>1, <1>5, <2>2 DEF Nodes
  <2>4. \A i : Hop(r, i) = Hop(w, i)  BY <2>3 DEF Hop
  <2>5. Leads(c.target, at, Root)  BY <1>3, <1>5
  <2>6. r \in WalkStates(c, x, k)  BY <1>1, <2>3, <2>4, <2>5 DEF WalkStates
  <2> QED  BY <2>6 DEF r
<1>6. CASE w.end = "" /\ p # Root
  <2>1. /\ p \in c.paths.connected /\ Before(c.list, p, at) /\ p \in Node /\ p \in Range(c.list)
    BY <1>3, <1>6 DEF Routed, Rooted
  <2>2. /\ \A a, b : Before(c.list, a, b) => a # b
        /\ \A a, b, d : Before(c.list, a, b) /\ Before(c.list, b, d) => Before(c.list, a, d)
    BY BeforeOrder DEF Routed
  <2>3. ASSUME NEW i \in 0..n PROVE Before(c.list, p, Hop(w, i))
    <3> HIDE DEF n
    <3>1. CASE i = n  BY <1>1, <2>1, <3>1
    <3>2. CASE i # n
      <4>1. i < n /\ n \in 0..n  BY <1>2, <3>2
      <4>2. Before(c.list, at, Hop(w, i))  BY <1>1, <4>1
      <4> QED  BY <2>1, <2>2, <4>2
    <3> QED  BY <3>1, <3>2
  <2>4. p # w.dest
    <3>1. 0 \in 0..n /\ Hop(w, 0) = w.dest  BY <1>2 DEF Hop
    <3> QED  BY <2>2, <2>3, <3>1
  <2>5. p \notin Range(w.hops)
    <3> SUFFICES ASSUME p \in Range(w.hops) PROVE FALSE  OBVIOUS
    <3>1. PICK i \in 1..n : w.hops[i] = p  BY <1>2, RangeFacts
    <3>2. i \in 0..n /\ Hop(w, i) = p  BY <1>2, <3>1 DEF Hop
    <3> QED  BY <2>2, <2>3, <3>2
  <2>6. r = [w EXCEPT !.hops = Append(@, p), !.at = p]  BY <1>6, <2>1, <2>4, <2>5 DEF WalkStep, p
  <2> HIDE DEF r
  <2>7. /\ Append(w.hops, p) \in Seq(Node) /\ Len(Append(w.hops, p)) = n + 1
        /\ \A i \in 1..n : Append(w.hops, p)[i] = w.hops[i]
        /\ Append(w.hops, p)[n + 1] = p
    BY <1>2, <2>1, AppendFacts
  <2>8. /\ r \in [dest : Node, at : Node, hops : Seq(Node), end : {"", "root"}, last : Nodes]
        /\ r.dest = w.dest /\ r.at = p /\ r.hops = Append(w.hops, p) /\ r.end = "" /\ r.last = w.last
    BY <1>1, <1>6, <2>1, <2>6, <2>7
  <2>9. Len(r.hops) = n + 1 /\ (\A i \in 0..n : Hop(r, i) = Hop(w, i)) /\ Hop(r, n + 1) = p
    <3>1. Len(r.hops) = n + 1  BY <2>7, <2>8
    <3>2. Hop(r, n + 1) = p
      <4>1. n + 1 # 0  BY <1>2
      <4>2. r.hops[n + 1] = p  BY <2>7, <2>8
      <4> HIDE DEF n
      <4> QED  BY <4>1, <4>2 DEF Hop
    <3>3. ASSUME NEW i \in 0..n PROVE Hop(r, i) = Hop(w, i)
      <4>1. CASE i = 0  BY <2>8, <4>1 DEF Hop
      <4>2. CASE i # 0
        <5>1. i \in 1..n  BY <1>2, <4>2
        <5> QED  BY <2>7, <2>8, <4>2, <5>1 DEF Hop
      <4> QED  BY <4>1, <4>2
    <3> QED  BY <3>1, <3>2, <3>3
  <2> HIDE DEF n
  <2>10. \A i \in 0..(n + 1) : i \in 0..n \/ i = n + 1  BY <1>2
  <2>11. \A i \in 0..(n + 1) : Hop(r, i) \in c.paths.connected  BY <1>1, <2>1, <2>9, <2>10
  <2>12. ASSUME NEW i \in 0..(n + 1), NEW j \in 0..(n + 1), i < j
         PROVE  Before(c.list, Hop(r, j), Hop(r, i))
    <3>1. i \in 0..n  BY <1>2, <2>12
    <3>2. CASE j = n + 1  BY <2>3, <2>9, <3>1, <3>2
    <3>3. CASE j \in 0..n  BY <1>1, <2>9, <2>12, <3>1, <3>3
    <3> QED  BY <2>10, <3>2, <3>3
  <2>13. ASSUME NEW i \in 0..n PROVE Leads(c.target, Hop(r, i), Hop(r, i + 1))
    <3>1. CASE i = n
      <4>1. Hop(r, i) = at  BY <1>1, <2>9, <3>1
      <4> QED  BY <1>3, <2>9, <3>1, <4>1
    <3>2. CASE i # n
      <4>1. i \in 0..(n - 1) /\ i + 1 \in 0..n  BY <1>2, <3>2
      <4> QED  BY <1>1, <2>9, <4>1
    <3> QED  BY <3>1, <3>2
  <2> DEFINE m == Len(r.hops)
  <2>14. m = n + 1 /\ m - 1 = n /\ m = k
    <3>1. n = k - 1  BY <1>1, <1>6
    <3> QED  BY <1>2, <2>9, <3>1
  <2> HIDE DEF m
  <2>15. /\ r.dest = x /\ r.at = Hop(r, m) /\ r.at \in c.paths.connected
         /\ r.end # "root" /\ r.end = "" => m = k
    BY <1>1, <2>1, <2>8, <2>9, <2>14
  <2>16. /\ \A i \in 0..m : Hop(r, i) \in c.paths.connected
         /\ \A i, j \in 0..m : i < j => Before(c.list, Hop(r, j), Hop(r, i))
         /\ \A i \in 0..(m - 1) : Leads(c.target, Hop(r, i), Hop(r, i + 1))
    BY <2>11, <2>12, <2>13, <2>14
  <2>17. r \in WalkStates(c, x, k)  BY <2>8, <2>15, <2>16 DEF WalkStates, m
  <2> QED  BY <2>17 DEF r
<1> QED  BY <1>4, <1>5, <1>6


\* A path from x over hops to the root, by transits of the database.
IsRoute(lst, tg, x, hops) ==
    LET chain == <<x>> \o hops \o <<Root>>
    IN  /\ IsInjective(chain)
        /\ \A i \in 1..(Len(chain) - 1) : chain[i] \in Range(lst) /\ HasTransit(tg[chain[i]], chain[i + 1])
\* And over connected targets, by the first transit of each.
FirstHops(conn, tg, x, hops) ==
    LET chain == <<x>> \o hops \o <<Root>>
    IN  \A i \in 1..(Len(chain) - 1) : chain[i] \in conn /\ Head(tg[chain[i]].transits).via = chain[i + 1]

LEMMA ChainFacts ==
    ASSUME NEW x \in Node, NEW hops \in Seq(Node)
    PROVE  LET chain == <<x>> \o hops \o <<Root>>
           IN  /\ chain \in Seq(Nodes) /\ Len(chain) = Len(hops) + 2
               /\ chain[1] = x /\ chain[Len(hops) + 2] = Root
               /\ \A i \in 1..Len(hops) : chain[i + 1] = hops[i]
<1> DEFINE a == <<x>>
           z == <<Root>>
           b == a \o hops
           n == Len(hops)
           chain == <<x>> \o hops \o <<Root>>
<1>1. /\ a \in Seq(Nodes) /\ Len(a) = 1 /\ a[1] = x /\ z \in Seq(Nodes) /\ Len(z) = 1 /\ z[1] = Root
      /\ hops \in Seq(Nodes) /\ n \in Nat
  BY DEF Nodes
<1> HIDE DEF a, z, n
<1>2. /\ b \in Seq(Nodes) /\ Len(b) = 1 + n /\ b[1] = x /\ \A i \in 1..n : b[1 + i] = hops[i]
  <2>1. a \in Seq(Nodes) /\ hops \in Seq(Nodes) /\ Len(a) = 1  BY <1>1
  <2>2. /\ b \in Seq(Nodes) /\ Len(b) = Len(a) + Len(hops)
        /\ \A i \in 1..(Len(a) + Len(hops)) : b[i] = IF i <= Len(a) THEN a[i] ELSE hops[i - Len(a)]
    BY <2>1, ConcatProperties
  <2> HIDE DEF b
  <2>3. Len(b) = 1 + n /\ \A i \in 1..(1 + n) : b[i] = IF i <= 1 THEN a[i] ELSE hops[i - 1]
    BY <2>1, <2>2 DEF n
  <2>4. b[1] = x
    <3>1. 1 \in 1..(1 + n)  BY <1>1
    <3> QED  BY <1>1, <2>3, <3>1
  <2>5. ASSUME NEW i \in 1..n PROVE b[1 + i] = hops[i]
    <3>1. 1 + i \in 1..(1 + n) /\ ~(1 + i <= 1) /\ (1 + i) - 1 = i  BY <1>1
    <3> QED  BY <2>3, <3>1
  <2> QED  BY <2>2, <2>3, <2>4, <2>5
<1> HIDE DEF b
<1>3. /\ b \o z \in Seq(Nodes) /\ Len(b \o z) = 2 + n
      /\ \A i \in 1..(1 + n) : (b \o z)[i] = b[i]
      /\ (b \o z)[1 + n + 1] = Root
  <2> DEFINE y == b \o z
  <2>1. b \in Seq(Nodes) /\ z \in Seq(Nodes) /\ Len(b) = 1 + n /\ Len(z) = 1  BY <1>1, <1>2
  <2>2. /\ y \in Seq(Nodes) /\ Len(y) = Len(b) + Len(z)
        /\ \A i \in 1..(Len(b) + Len(z)) : y[i] = IF i <= Len(b) THEN b[i] ELSE z[i - Len(b)]
    BY <2>1, ConcatProperties
  <2> HIDE DEF y
  <2>3. Len(y) = 2 + n /\ \A i \in 1..(2 + n) : y[i] = IF i <= 1 + n THEN b[i] ELSE z[i - (1 + n)]
    <3>1. (1 + n) + 1 = 2 + n  BY <1>1
    <3> QED  BY <2>1, <2>2, <3>1
  <2>4. y[1 + n + 1] = Root
    <3>1. 1 + n + 1 \in 1..(2 + n) /\ ~(1 + n + 1 <= 1 + n) /\ (1 + n + 1) - (1 + n) = 1  BY <1>1
    <3> QED  BY <1>1, <2>3, <3>1
  <2>5. ASSUME NEW i \in 1..(1 + n) PROVE y[i] = b[i]
    <3>1. i \in 1..(2 + n) /\ i <= 1 + n  BY <1>1
    <3> QED  BY <2>3, <3>1
  <2> QED  BY <2>2, <2>3, <2>4, <2>5 DEF y
<1>4. chain = b \o z  BY DEF a, b, z
<1> HIDE DEF chain
<1>5. n + 2 = 1 + n + 1 /\ 1 \in 1..(1 + n) /\ \A i \in 1..n : i + 1 = 1 + i /\ 1 + i \in 1..(1 + n)  BY <1>1
<1>6. /\ chain \in Seq(Nodes) /\ Len(chain) = n + 2 /\ chain[1] = x /\ chain[n + 2] = Root
      /\ \A i \in 1..n : chain[i + 1] = hops[i]
  <2>1. /\ chain \in Seq(Nodes) /\ Len(chain) = 2 + n /\ chain[1 + n + 1] = Root
        /\ \A i \in 1..(1 + n) : chain[i] = b[i]
    BY <1>3, <1>4
  <2>2. chain[1] = x  BY <1>2, <1>5, <2>1
  <2>3. \A i \in 1..n : chain[i + 1] = hops[i]  BY <1>2, <1>5, <2>1
  <2>4. Len(chain) = n + 2 /\ chain[n + 2] = Root  BY <1>1, <1>5, <2>1
  <2> QED  BY <2>1, <2>2, <2>3, <2>4
<1> QED  BY <1>6 DEF chain, n

\* Once the paths are computed, the walk from a connected target ends at the
\* root, and its hops are a path of the database.
LEMMA WalkFacts ==
    ASSUME NEW c, Routed(c), NEW x \in c.paths.connected
    PROVE  LET w == Walk(c, x)
           IN  /\ w.end = "root" /\ w.last = Root /\ w.hops \in Seq(Node)
               /\ IsRoute(c.list, c.target, x, w.hops) /\ FirstHops(c.paths.connected, c.target, x, w.hops)
<1> DEFINE N == Cardinality(Node) + 1
           base == [dest |-> x, at |-> x, hops |-> <<>>, end |-> "", last |-> x]
           Op(t, k) == WalkStep(c, t)
           I == [k \in 0..N |-> WalkStates(c, x, k)]
           step == [k \in 1..N |-> [t \in I[k - 1] |-> Op(t, k)]]
           Eq(f) == f = [k \in 0..N |-> IF k = 0 THEN base ELSE Op(f[k - 1], k)]
           loop == CHOOSE f : Eq(f)
<1>0. x \in Node /\ x \in Range(c.list)  BY DEF Routed, Rooted
<1>1. N \in Nat  BY RplAssumption, FS_CardinalityType
<1>2. base \in I[0]
  <2>1. base \in [dest : Node, at : Node, hops : Seq(Node), end : {"", "root"}, last : Nodes]
    BY <1>0, EmptyFacts DEF Nodes
  <2>2. /\ base.dest = x /\ base.at = x /\ base.hops = <<>> /\ base.end = "" /\ Len(base.hops) = 0
    OBVIOUS
  <2> HIDE DEF base
  <2>3. Hop(base, 0) = x  BY <2>2 DEF Hop
  <2>4. \A i \in 0..0 : i = 0  OBVIOUS
  <2>5. 0 - 1 = -1 /\ \A i \in 0..(-1) : FALSE  OBVIOUS
  <2>6. base \in WalkStates(c, x, 0)
    <3>1. \A i \in 0..0 : Hop(base, i) \in c.paths.connected  BY <1>0, <2>3, <2>4
    <3>2. \A i, j \in 0..0 : i < j => Before(c.list, Hop(base, j), Hop(base, i))  BY <2>4
    <3>3. \A i \in 0..(0 - 1) : Leads(c.target, Hop(base, i), Hop(base, i + 1))  BY <2>5
    <3> QED  BY <2>1, <2>2, <2>3, <3>1, <3>2, <3>3 DEF WalkStates
  <2>7. 0 \in 0..N  BY <1>1
  <2> QED  BY <2>6, <2>7
<1>3. ASSUME NEW k \in 1..N, NEW t \in I[k - 1] PROVE Op(t, k) \in I[k]
  <2> HIDE DEF N
  <2>1. k \in 0..N /\ k - 1 \in 0..N /\ k \in Nat \ {0}  BY <1>1
  <2>2. t \in WalkStates(c, x, k - 1)  BY <2>1
  <2>3. Op(t, k) \in WalkStates(c, x, k)  BY <2>1, <2>2, WalkStepFacts
  <2> QED  BY <2>1, <2>3
<1>4. Rounds(step, I, N)
  <2> HIDE DEF I, Op, N
  <2> QED  BY <1>3 DEF Rounds
<1>5. PICK g : LoopRun(g, N, base, step, I)
  <2> HIDE DEF I, step, N, base, Op
  <2> QED  BY <1>1, <1>2, <1>4, LoopInvariant
<1>6. Eq(g)
  <2> HIDE DEF I, N, base, Op
  <2>1. /\ g = [k \in 0..N |-> g[k]] /\ g[0] = base /\ \A k \in 0..N : g[k] \in I[k]
        /\ \A k \in 1..N : g[k] = step[k][g[k - 1]]
    <3> HIDE DEF step
    <3> QED  BY <1>5 DEF LoopRun
  <2>2. ASSUME NEW k \in 1..N PROVE g[k] = Op(g[k - 1], k)
    <3>1. k - 1 \in 0..N  BY <1>1
    <3>2. g[k - 1] \in I[k - 1]  BY <2>1, <3>1
    <3> QED  BY <2>1, <3>2
  <2> DEFINE h == [k \in 0..N |-> IF k = 0 THEN base ELSE Op(g[k - 1], k)]
  <2> HIDE DEF step
  <2>3. ASSUME NEW k \in 0..N PROVE g[k] = h[k]
    <3>1. CASE k = 0  BY <2>1, <3>1
    <3>2. CASE k # 0
      <4>1. k \in 1..N  BY <1>1, <3>2
      <4> QED  BY <2>2, <3>2, <4>1
    <3> QED  BY <3>1, <3>2
  <2>4. [k \in 0..N |-> g[k]] = h  BY <2>3
  <2> QED  BY <2>1, <2>4
<1>7. Eq(loop)
  <2> HIDE DEF Eq
  <2> QED  BY <1>6
<1> HIDE DEF loop
<1>8. loop[0] = base /\ \A k \in 1..N : loop[k] = Op(loop[k - 1], k)
  <2> HIDE DEF N, base, Op
  <2> QED  BY <1>1, <1>7
<1>9. \A k \in 1..N : loop[k - 1] \in I[k - 1] => loop[k] \in I[k]
  <2> HIDE DEF I, N, Op, Eq, step, base
  <2> QED  BY <1>3, <1>8
<1>10. loop[N] \in I[N]
  <2> HIDE DEF Op, Eq, step
  <2>1. loop[0] \in I[0]  BY <1>2, <1>8
  <2> HIDE DEF I, N, base
  <2> QED  BY <1>1, <1>9, <2>1, LoopEnd
<1>11. Walk(c, x) = loop[N]  BY DEF Walk, loop
<1> DEFINE w == Walk(c, x)
           n == Len(w.hops)
<1> HIDE DEF w, loop
<1>12. w \in WalkStates(c, x, N)
  <2>1. N \in 0..N  BY <1>1
  <2>2. w = loop[N]  BY <1>11 DEF w
  <2> HIDE DEF N
  <2> QED  BY <1>10, <2>1, <2>2
<1>13. /\ w.hops \in Seq(Node) /\ w.end \in {"", "root"}
       /\ w.dest = x /\ w.at = Hop(w, n)
       /\ \A i \in 0..n : Hop(w, i) \in c.paths.connected
       /\ \A i, j \in 0..n : i < j => Before(c.list, Hop(w, j), Hop(w, i))
       /\ \A i \in 0..(n - 1) : Leads(c.target, Hop(w, i), Hop(w, i + 1))
       /\ w.end = "root" => w.last = Root /\ Leads(c.target, w.at, Root)
       /\ w.end = "" => n = N
  BY <1>12 DEF WalkStates
<1>14. n \in Nat /\ DOMAIN w.hops = 1..n /\ w.hops \in [1..n -> Node]
  <2>1. w.hops \in Seq(Node)  BY <1>13
  <2> QED  BY <2>1
<1>15. ASSUME NEW i \in 0..n, NEW j \in 0..n, Hop(w, i) = Hop(w, j) PROVE i = j
  <2>1. \A a, b : Before(c.list, a, b) => a # b  BY BeforeOrder DEF Routed
  <2> HIDE DEF n
  <2>2. ~(i < j) /\ ~(j < i)  BY <1>13, <1>15, <2>1
  <2> QED  BY <1>14, <2>2
<1>16. n # N
  <2> SUFFICES ASSUME n = N PROVE FALSE  OBVIOUS
  <2>1. n \in Nat /\ w.hops \in [1..n -> Node]  BY <1>14
  <2> DEFINE m == Cardinality(Node)
             T == 1..n
             f == w.hops
  <2>2. m \in Nat /\ IsFiniteSet(Node) /\ n = m + 1  BY RplAssumption, FS_CardinalityType
  <2>3. \A i \in T : i \in 0..n /\ i # 0  BY <2>1
  <2>4. \A i \in T : Hop(w, i) = f[i]  BY <2>3 DEF Hop
  <2> HIDE DEF n, m, f
  <2>5. ~(1 > n) /\ n - 1 + 1 = n /\ n \in Int /\ m < n  BY <2>1, <2>2
  <2>6. IsFiniteSet(T) /\ Cardinality(T) = n  BY <2>5, FS_Interval
  <2>7. f \in [T -> Node] /\ Cardinality(Node) < Cardinality(T)  BY <2>1, <2>5, <2>6 DEF m, f
  <2> HIDE DEF T
  <2>8. \E i, j \in T : i # j /\ f[i] = f[j]  BY <2>2, <2>6, <2>7, FS_PigeonHole
  <2> QED  BY <1>15, <2>3, <2>4, <2>8
<1>18. w.end = "root"  BY <1>13, <1>16
<1> HIDE DEF N, I
<1>17. IsRoute(c.list, c.target, x, w.hops) /\ FirstHops(c.paths.connected, c.target, x, w.hops)
  <2> DEFINE chain == <<x>> \o w.hops \o <<Root>>
  <2>1. /\ chain \in Seq(Nodes) /\ Len(chain) = n + 2 /\ chain[1] = x /\ chain[n + 2] = Root
        /\ \A i \in 1..n : chain[i + 1] = w.hops[i]
    BY <1>0, <1>13, ChainFacts
  <2> HIDE DEF chain, n
  <2>2. DOMAIN chain = 1..(n + 2)  BY <1>14, <2>1
  <2>3. ASSUME NEW i \in 1..(n + 1) PROVE i - 1 \in 0..n /\ chain[i] = Hop(w, i - 1)
    <3>1. CASE i = 1
      <4>1. i - 1 = 0 /\ 0 \in 0..n  BY <1>14, <3>1
      <4> QED  BY <1>13, <2>1, <3>1, <4>1 DEF Hop
    <3>2. CASE i # 1
      <4>1. i - 1 \in 1..n /\ i - 1 \in 0..n /\ i = (i - 1) + 1 /\ i - 1 # 0  BY <1>14, <3>2
      <4>2. chain[(i - 1) + 1] = w.hops[i - 1]  BY <2>1, <4>1
      <4> QED  BY <4>1, <4>2 DEF Hop
    <3> QED  BY <3>1, <3>2
  <2>4. \A i \in 1..(n + 2) : i \in 1..(n + 1) \/ i = n + 2  BY <1>14
  <2>5. \A i \in 1..(n + 1) : chain[i] \in c.paths.connected /\ chain[i] \in Range(c.list) /\ chain[i] # Root
    <3>1. Range(c.list) \subseteq Node  BY RangeFacts DEF Routed
    <3>2. c.paths.connected \subseteq Range(c.list)  BY DEF Routed, Rooted
    <3> QED  BY <1>13, <2>3, <3>1, <3>2, RplAssumption
  <2>6. ASSUME NEW i \in 1..(n + 2), NEW j \in 1..(n + 2), chain[i] = chain[j] PROVE i = j
    <3>1. CASE i = n + 2  BY <2>1, <2>4, <2>5, <2>6, <3>1
    <3>2. CASE j = n + 2  BY <2>1, <2>4, <2>5, <2>6, <3>2
    <3>3. CASE i \in 1..(n + 1) /\ j \in 1..(n + 1)
      <4>1. i - 1 = j - 1  BY <1>15, <2>3, <2>6, <3>3
      <4> QED  BY <3>3, <4>1
    <3> QED  BY <2>4, <3>1, <3>2, <3>3
  <2>7. IsInjective(chain)  BY <2>2, <2>6 DEF IsInjective
  <2>8. ASSUME NEW i \in 1..(n + 1) PROVE Leads(c.target, chain[i], chain[i + 1])
    <3>1. CASE i = n + 1
      <4>1. i + 1 = n + 2 /\ i - 1 = n  BY <1>14, <3>1
      <4>2. chain[i] = w.at /\ chain[i + 1] = Root  BY <1>13, <2>1, <2>3, <4>1
      <4> QED  BY <1>13, <1>18, <4>2
    <3>2. CASE i # n + 1
      <4>1. i - 1 \in 0..(n - 1) /\ i + 1 \in 1..(n + 1) /\ (i - 1) + 1 = i /\ (i + 1) - 1 = i  BY <1>14, <3>2
      <4>2. chain[i] = Hop(w, i - 1) /\ chain[i + 1] = Hop(w, i)  BY <2>3, <4>1
      <4>3. Leads(c.target, Hop(w, i - 1), Hop(w, (i - 1) + 1))  BY <1>13, <4>1
      <4> QED  BY <4>1, <4>2, <4>3
    <3> QED  BY <3>1, <3>2
  <2>9. Len(chain) - 1 = n + 1  BY <1>14, <2>1
  <2>10. \A i \in 1..(Len(chain) - 1) : chain[i] \in Range(c.list) /\ HasTransit(c.target[chain[i]], chain[i + 1])
    BY <2>5, <2>8, <2>9 DEF Leads
  <2>11. \A i \in 1..(Len(chain) - 1) : chain[i] \in c.paths.connected /\ Head(c.target[chain[i]].transits).via = chain[i + 1]
    BY <2>5, <2>8, <2>9 DEF Leads
  <2> QED  BY <2>7, <2>10, <2>11 DEF IsRoute, FirstHops, chain
<1> QED  BY <1>13, <1>17, <1>18 DEF w

-----------------------------------------------------------------------------
(***************************************************************************)
(* The inductive invariant.                                                 *)
(***************************************************************************)
DbOK(lst, tg) ==
    /\ lst \in Seq(Node) /\ IsInjective(lst)
    /\ tg \in [Node -> Target] /\ \A x \in Node \ Range(lst) : tg[x] = NoTarget
    /\ \A x \in Range(lst) : tg[x].seq \in Seqs /\ tg[x].life # 0 /\ OnePerVia(tg[x])
\* A sort that is valid is that of the transits as they are.
SortOK(lst, tg, to) ==
    /\ to \in [valid : BOOLEAN, kids : [Nodes -> Seq(Node)]]
    /\ to.valid => /\ TopoOK(lst, tg, to.kids)
                   /\ Acyclic(Range(lst), tg) => Full(Range(lst), tg, to.kids)
\* Costs that are valid are those of the transits as they are, and of the links if
\* none has changed without a report.
Prices(et, lst, tg, kids, pa) ==
    /\ pa.connected = Fin(pa)
    /\ ~pa.quiet => \A most \in Nat : Fits(et, lst, tg, most) =>
        Capped(pa) /\ Exact(et, lst, tg, tg, pa, Len(lst)) /\ Lowest(et, lst, tg, kids, pa, Len(lst))
CostOK(et, lst, tg, to, pa) ==
    /\ pa \in [valid : BOOLEAN, cost : [Node -> Nat], connected : SUBSET Node, quiet : BOOLEAN]
    /\ pa.valid => /\ to.valid /\ Rooted(lst, tg, pa.connected) /\ Closed(pa.connected, to.kids)
                   /\ Prices(et, lst, tg, to.kids, pa)
\* A route that is kept is one of the paths as they are.
RouteOK(lst, tg, pa, r) ==
    /\ r \in [target : Nodes, hops : Seq(Node)]
    /\ r.target # Root => /\ pa.valid /\ IsRoute(lst, tg, r.target, r.hops)
                          /\ FirstHops(pa.connected, tg, r.target, r.hops)
Counts ==
    /\ srh \in Nat /\ dtsn \in 0..(SeqTop - 1) /\ link \in [Node -> Links]
    /\ daos \in 0..MaxDaos /\ errors \in 0..MaxErrors /\ shifts \in 0..MaxShifts

IInv ==
    /\ DbOK(list, target) /\ SortOK(list, target, topo) /\ CostOK(Added, list, target, topo, paths)
    /\ RouteOK(list, target, paths, sr) /\ Counts

LEMMA AddedNat == Added \in Weights
<1>1. \A x \in Node : LinkCost(link[x]) \in Nat  BY DEF LinkCost
<1> QED  BY <1>1 DEF Added, Weights

LEMMA NoTargetFacts == NoTarget \in Target /\ OnePerVia(NoTarget) /\ NoTarget.transits = <<>>
<1>1. 0 \in 0..(SeqTop - 1) /\ 0 \in 0..Life  BY RplAssumption
<1>2. NoTarget = [seq |-> 0, life |-> 0, transits |-> <<>>]  BY DEF NoTarget
<1>3. NoTarget.transits = <<>>  BY <1>2
<1>4. DOMAIN NoTarget.transits = {}  BY <1>3
<1> QED  BY <1>1, <1>2, <1>3, <1>4, EmptyFacts DEF Target, OnePerVia

LEMMA DbFacts ==
    ASSUME NEW lst, NEW tg, DbOK(lst, tg)
    PROVE  /\ Range(lst) \subseteq Node /\ WellFormed(tg) /\ Typed(Range(lst), tg)
           /\ \A x \in Range(lst) : Valid(tg[x])
<1>1. lst \in Seq(Node) /\ tg \in [Node -> Target]  BY DEF DbOK
<1>2. Range(lst) \subseteq Node  BY <1>1, RangeFacts
<1>3. WellFormed(tg)
  <2>1. ASSUME NEW x \in Node PROVE OnePerVia(tg[x])
    <3>1. CASE x \in Range(lst)  BY <3>1 DEF DbOK
    <3>2. CASE x \notin Range(lst)
      <4>1. tg[x] = NoTarget  BY <3>2 DEF DbOK
      <4> QED  BY <4>1, NoTargetFacts
    <3> QED  BY <3>1, <3>2
  <2> QED  BY <1>1, <2>1 DEF WellFormed
<1>4. \A x \in Range(lst) : tg[x] \in Target  BY <1>1, <1>2
<1>5. Typed(Range(lst), tg)  BY <1>4, TargetFields DEF Typed
<1>6. \A x \in Range(lst) : Valid(tg[x])  BY <1>4 DEF DbOK, Valid
<1> QED  BY <1>2, <1>3, <1>5, <1>6

LEMMA Invalidated ==
    /\ \A lst, tg : SortOK(lst, tg, Unsorted)
    /\ \A et, lst, tg, to : CostOK(et, lst, tg, to, NoPaths)
    /\ \A lst, tg, pa : RouteOK(lst, tg, pa, NoRoute)
<1>1. Unsorted \in [valid : BOOLEAN, kids : [Nodes -> Seq(Node)]] /\ Unsorted.valid = FALSE
  BY EmptyFacts DEF Unsorted, Nodes
<1>2. /\ NoPaths \in [valid : BOOLEAN, cost : [Node -> Nat], connected : SUBSET Node, quiet : BOOLEAN]
      /\ NoPaths.valid = FALSE
  BY CostFacts DEF NoPaths
<1>3. NoRoute \in [target : Nodes, hops : Seq(Node)] /\ NoRoute.target = Root
  BY EmptyFacts DEF NoRoute, Nodes
<1>4. ASSUME NEW lst, NEW tg PROVE SortOK(lst, tg, Unsorted)  BY <1>1 DEF SortOK
<1>5. ASSUME NEW et, NEW lst, NEW tg, NEW to PROVE CostOK(et, lst, tg, to, NoPaths)  BY <1>2 DEF CostOK
<1>6. ASSUME NEW lst, NEW tg, NEW pa PROVE RouteOK(lst, tg, pa, NoRoute)  BY <1>3 DEF RouteOK
<1> QED  BY <1>4, <1>5, <1>6

\* Costs, sequences, lifetimes and the order of transits do not matter to the sort
\* and to the path of a route.
Alike(S, tg, ug) == \A x \in S : SameVias(tg[x], ug[x])

LEMMA SortSame ==
    ASSUME NEW lst, NEW tg, NEW ug, NEW to, SortOK(lst, tg, to), Alike(Range(lst), tg, ug)
    PROVE  SortOK(lst, ug, to)
<1>1. to \in [valid : BOOLEAN, kids : [Nodes -> Seq(Node)]]  BY DEF SortOK
<1>2. ASSUME to.valid
      PROVE  TopoOK(lst, ug, to.kids) /\ (Acyclic(Range(lst), ug) => Full(Range(lst), ug, to.kids))
  <2> DEFINE L == Range(lst)
             kids == to.kids
  <2>1. /\ Children(L, tg, kids) /\ Forward(lst, kids) /\ Spans(L, tg, kids)
        /\ Acyclic(L, tg) => Full(L, tg, kids)
    BY <1>2 DEF SortOK, TopoOK
  <2>2. \A x \in L : \A p : HasTransit(tg[x], p) <=> HasTransit(ug[x], p)  BY DEF Alike, SameVias
  <2> HIDE DEF L, kids
  <2>3. Children(L, ug, kids)  BY <2>1, <2>2 DEF Children
  <2>4. \A D : DbClosed(D, L, tg) => DbClosed(D, L, ug)  BY <2>2 DEF DbClosed
  <2>5. Spans(L, ug, kids)  BY <2>1, <2>4 DEF Spans
  <2>6. Acyclic(L, ug) => Acyclic(L, tg)
    <3> SUFFICES ASSUME Acyclic(L, ug), NEW S \in SUBSET L, S # {} PROVE \E x \in S : \A p \in S : ~HasTransit(tg[x], p)
      BY DEF Acyclic
    <3>1. PICK x \in S : \A p \in S : ~HasTransit(ug[x], p)  BY DEF Acyclic
    <3> QED  BY <2>2, <3>1
  <2>7. Full(L, tg, kids) => Full(L, ug, kids)  BY <2>2 DEF Full
  <2> QED  BY <2>1, <2>3, <2>5, <2>6, <2>7 DEF TopoOK, L, kids
<1> QED  BY <1>1, <1>2 DEF SortOK

LEMMA RouteSame ==
    ASSUME NEW lst, NEW tg, NEW ug, NEW pa, NEW r, RouteOK(lst, tg, pa, r),
           \A x \in Range(lst) : ug[x].transits = tg[x].transits
    PROVE  RouteOK(lst, ug, pa, r)
<1>1. r \in [target : Nodes, hops : Seq(Node)]  BY DEF RouteOK
<1>2. ASSUME r.target # Root
      PROVE  pa.valid /\ IsRoute(lst, ug, r.target, r.hops) /\ FirstHops(pa.connected, ug, r.target, r.hops)
  <2>1. pa.valid /\ IsRoute(lst, tg, r.target, r.hops) /\ FirstHops(pa.connected, tg, r.target, r.hops)
    BY <1>2 DEF RouteOK
  <2> DEFINE chain == <<r.target>> \o r.hops \o <<Root>>
  <2>2. /\ IsInjective(chain)
        /\ \A i \in 1..(Len(chain) - 1) : chain[i] \in Range(lst) /\ HasTransit(tg[chain[i]], chain[i + 1])
        /\ \A i \in 1..(Len(chain) - 1) :
              chain[i] \in pa.connected /\ Head(tg[chain[i]].transits).via = chain[i + 1]
    BY <2>1 DEF IsRoute, FirstHops
  <2> HIDE DEF chain
  <2>3. \A i \in 1..(Len(chain) - 1) : HasTransit(ug[chain[i]], chain[i + 1])
    BY <2>2 DEF HasTransit
  <2>4. \A i \in 1..(Len(chain) - 1) : Head(ug[chain[i]].transits).via = chain[i + 1]
    BY <2>2
  <2> QED  BY <2>1, <2>2, <2>3, <2>4 DEF IsRoute, FirstHops, chain
<1> QED  BY <1>1, <1>2 DEF RouteOK

\* The order of transits does not matter to the costs, but for which is the first.
SamePrices(et, lst, tg, ug, hg, zg, kids, s, t, k) ==
    /\ \A x \in Range(lst) : Range(ug[x].transits) = Range(tg[x].transits)
    /\ \A x \in Range(lst) : zg[x].transits = hg[x].transits
    /\ \A p \in Nodes : Range(kids[p]) \subseteq Range(lst)
    /\ t.cost = s.cost /\ Fin(s) \subseteq Range(lst)
    /\ Capped(s) /\ Exact(et, lst, tg, hg, s, k) /\ Lowest(et, lst, tg, kids, s, k)

LEMMA Repriced ==
    ASSUME NEW et, NEW lst \in Seq(Node), NEW tg, NEW ug, NEW hg, NEW zg, NEW kids, NEW s, NEW t, NEW k \in Nat,
           k <= Len(lst), SamePrices(et, lst, tg, ug, hg, zg, kids, s, t, k)
    PROVE  Capped(t) /\ Exact(et, lst, ug, zg, t, k) /\ Lowest(et, lst, ug, kids, t, k)
<1> USE DEF SamePrices
<1>1. Fin(t) = Fin(s) /\ Capped(t)  BY DEF Fin, Capped
<1>2. \A x \in Range(lst) : \A p : CostVia(ug, x, p) = CostVia(tg, x, p)  BY DEF CostVia
<1>3. \A x \in Range(lst) : Direct(et, ug, x) = Direct(et, tg, x)  BY <1>2 DEF Direct
<1>4. Exact(et, lst, ug, zg, t, k)
  <2> SUFFICES ASSUME NEW x \in Fin(t)
               PROVE  LET p == Head(zg[x].transits).via
                      IN  /\ p = Root => t.cost[x] = Direct(et, ug, x)
                          /\ p # Root => t.cost[x] = t.cost[p] + CostVia(ug, x, p) /\ \E j \in 1..k : lst[j] = p
    BY DEF Exact
  <2> DEFINE p == Head(zg[x].transits).via
  <2>1. x \in Range(lst) /\ x \in Fin(s) /\ p = Head(hg[x].transits).via  BY <1>1
  <2> HIDE DEF p
  <2>2. /\ p = Root => s.cost[x] = Direct(et, tg, x)
        /\ p # Root => s.cost[x] = s.cost[p] + CostVia(tg, x, p) /\ \E j \in 1..k : lst[j] = p
    BY <2>1 DEF Exact
  <2> QED  BY <1>2, <1>3, <2>1, <2>2 DEF p
<1>5. Lowest(et, lst, ug, kids, t, k)
  <2>1. Root \in Nodes /\ Len(lst) \in Nat /\ \A j \in 1..Len(lst) : lst[j] \in Nodes  BY DEF Nodes
  <2>2. \A j \in 1..k : lst[j] \in Nodes  BY <2>1
  <2>3. ASSUME NEW x \in Range(kids[Root]) PROVE t.cost[x] <= Direct(et, ug, x)
    <3>1. x \in Range(lst)  BY <2>1
    <3>2. s.cost[x] <= Direct(et, tg, x)  BY DEF Lowest
    <3> QED  BY <1>3, <3>1, <3>2
  <2>4. ASSUME NEW j \in 1..k, lst[j] \in Fin(t), NEW x \in Range(kids[lst[j]])
        PROVE  t.cost[x] <= t.cost[lst[j]] + CostVia(ug, x, lst[j])
    <3>1. x \in Range(lst) /\ lst[j] \in Fin(s)  BY <1>1, <2>2, <2>4
    <3>2. s.cost[x] <= s.cost[lst[j]] + CostVia(tg, x, lst[j])  BY <3>1, <2>4 DEF Lowest
    <3> QED  BY <1>2, <3>1, <3>2
  <2> QED  BY <2>3, <2>4 DEF Lowest
<1> QED  BY <1>1, <1>4, <1>5

LEMMA FitsSame ==
    ASSUME NEW et, NEW lst, NEW tg, NEW ug, NEW most, Fits(et, lst, ug, most),
           \A x \in Range(lst) : Range(ug[x].transits) = Range(tg[x].transits)
    PROVE  Fits(et, lst, tg, most)
  BY DEF Fits

LEMMA ReorderedFacts ==
    ASSUME NEW lst, NEW tg, DbOK(lst, tg), NEW lst2 \in Seq(Node), IsInjective(lst2), Range(lst2) = Range(lst),
           NEW ug, WellFormed(ug), \A x \in Node : Reordered(tg[x], ug[x])
    PROVE  DbOK(lst2, ug) /\ Alike(Range(lst), tg, ug)
<1>1. Range(lst) \subseteq Node  BY DbFacts
<1>2. ug \in [Node -> Target] /\ tg \in [Node -> Target]  BY DEF WellFormed, DbOK
<1>3. ASSUME NEW x \in Node \ Range(lst) PROVE ug[x] = NoTarget
  <2>1. tg[x] = NoTarget  BY DEF DbOK
  <2>2. Reordered(NoTarget, ug[x])  BY <2>1
  <2>3. ug[x] \in Target  BY <1>2
  <2>4. ug[x].transits \in Seq(Transit) /\ ug[x] = [seq |-> ug[x].seq, life |-> ug[x].life, transits |-> ug[x].transits]
    BY <2>3, TargetFields
  <2>5. Range(ug[x].transits) = {}  BY <2>2, NoTargetFacts, EmptyFacts DEF Reordered
  <2>6. ug[x].transits = <<>>  BY <2>4, <2>5, RangeFacts
  <2>7. ug[x].seq = 0 /\ ug[x].life = 0  BY <2>2 DEF Reordered, NoTarget
  <2> QED  BY <2>4, <2>6, <2>7 DEF NoTarget
<1>4. \A x \in Range(lst2) : ug[x].seq \in Seqs /\ ug[x].life # 0 /\ OnePerVia(ug[x])
  BY <1>1 DEF DbOK, WellFormed, Reordered
<1>5. DbOK(lst2, ug)  BY <1>2, <1>3, <1>4 DEF DbOK
<1>6. Alike(Range(lst), tg, ug)  BY <1>1 DEF Alike, SameVias, HasTransit, Reordered
<1> QED  BY <1>5, <1>6

-----------------------------------------------------------------------------
(* The actions.                                                            *)

LEMMA ComputedFacts ==
    ASSUME IInv
    PROVE  LET c == Computed
           IN  /\ DbOK(c.list, c.target) /\ SortOK(c.list, c.target, c.topo)
               /\ CostOK(Added, c.list, c.target, c.topo, c.paths) /\ c.paths.valid
               /\ RouteOK(c.list, c.target, c.paths, sr)
<1> DEFINE c == Computed
           g == IF topo.valid THEN [sorted |-> list, kids |-> topo.kids] ELSE Sorted(list, target)
           k == Costs(Added, g.sorted, target, g.kids)
           conn == {x \in Range(g.sorted) : k.cost[x] # Infinite}
           nt == [valid |-> TRUE, kids |-> g.kids]
           np == [valid |-> TRUE, cost |-> k.cost, connected |-> conn, quiet |-> FALSE]
<1>1. /\ DbOK(list, target) /\ SortOK(list, target, topo) /\ CostOK(Added, list, target, topo, paths)
      /\ RouteOK(list, target, paths, sr)
  BY DEF IInv
<1>2. CASE paths.valid
  <2>1. c = [list |-> list, target |-> target, topo |-> topo, paths |-> paths]  BY <1>2 DEF Computed
  <2> HIDE DEF c
  <2>2. c.list = list /\ c.target = target /\ c.topo = topo /\ c.paths = paths  BY <2>1
  <2> QED  BY <1>1, <1>2, <2>2 DEF c
<1>3. CASE ~paths.valid
  <2>1. c = [list |-> g.sorted, target |-> k.target, topo |-> nt, paths |-> np]  BY <1>3 DEF Computed
  <2>2. /\ g.sorted \in Seq(Node) /\ IsInjective(g.sorted) /\ Range(g.sorted) = Range(list)
        /\ g.kids \in [Nodes -> Seq(Node)] /\ TopoOK(g.sorted, target, g.kids)
        /\ Acyclic(Range(list), target) => Full(Range(list), target, g.kids)
    <3>1. list \in Seq(Node) /\ IsInjective(list) /\ topo.kids \in [Nodes -> Seq(Node)]
      BY <1>1 DEF DbOK, SortOK
    <3>2. CASE topo.valid
      <4>1. g.sorted = list /\ g.kids = topo.kids  BY <3>2
      <4>2. /\ TopoOK(list, target, topo.kids)
            /\ Acyclic(Range(list), target) => Full(Range(list), target, topo.kids)
        BY <1>1, <3>2 DEF SortOK
      <4> HIDE DEF g
      <4> QED  BY <3>1, <4>1, <4>2
    <3>3. CASE ~topo.valid
      <4>1. g = Sorted(list, target)  BY <3>3
      <4>2. Typed(Range(list), target)  BY <1>1, DbFacts
      <4> HIDE DEF g
      <4> QED  BY <3>1, <4>1, <4>2, SortedFacts
    <3> QED  BY <3>2, <3>3
  <2> HIDE DEF g
  <2>3. WellFormed(target)  BY <1>1, DbFacts
  <2>4. /\ k.cost \in [Node -> Nat] /\ WellFormed(k.target)
        /\ \A x \in Node : Reordered(target[x], k.target[x])
        /\ conn \in SUBSET Node /\ Rooted(g.sorted, k.target, conn) /\ Closed(conn, g.kids)
        /\ \A most \in Nat : Fits(Added, g.sorted, target, most) => Priced(Added, g.sorted, target, g.kids, k, most, Len(g.sorted))
        /\ conn = Fin(k) /\ conn \subseteq Range(g.sorted)
    <3> DEFINE ls == g.sorted
               ks == g.kids
    <3>1. ls \in Seq(Node) /\ IsInjective(ls) /\ ks \in [Nodes -> Seq(Node)] /\ TopoOK(ls, target, ks)
      BY <2>2
    <3>2. k = Costs(Added, ls, target, ks) /\ conn = {x \in Range(ls) : k.cost[x] # Infinite}  OBVIOUS
    <3> HIDE DEF ls, ks, k, conn
    <3>3. Costed(Added, ls, target, ks, k, conn)  BY <2>3, <3>1, <3>2, AddedNat, CostsFacts
    <3>4. conn \subseteq Range(ls)  BY <3>2
    <3> QED  BY <3>3, <3>4 DEF Costed, ls, ks
  <2> HIDE DEF k, conn
  <2>5. DbOK(g.sorted, k.target) /\ Alike(Range(list), target, k.target)
    BY <1>1, <2>2, <2>4, ReorderedFacts
  <2>6. nt \in [valid : BOOLEAN, kids : [Nodes -> Seq(Node)]] /\ nt.valid /\ nt.kids = g.kids
    BY <2>2
  <2>7. /\ np \in [valid : BOOLEAN, cost : [Node -> Nat], connected : SUBSET Node, quiet : BOOLEAN]
        /\ np.valid /\ np.connected = conn /\ np.cost = k.cost
    BY <2>4
  <2>8. c.list = g.sorted /\ c.target = k.target /\ c.topo = nt /\ c.paths = np
    <3> HIDE DEF c, nt, np
    <3> QED  BY <2>1
  <2> HIDE DEF c, nt, np
  <2>9. SortOK(g.sorted, k.target, nt)
    <3>1. SortOK(g.sorted, target, nt)  BY <2>2, <2>6 DEF SortOK
    <3>2. Alike(Range(g.sorted), target, k.target)  BY <2>2, <2>5
    <3> QED  BY <3>1, <3>2, SortSame
  <2>12. Prices(Added, g.sorted, k.target, g.kids, np)
    <3> DEFINE ls == g.sorted
               ks == g.kids
    <3>1. ls \in Seq(Node) /\ Len(ls) \in Nat /\ Len(ls) <= Len(ls) /\ Range(ls) \subseteq Node
      <4>1. ls \in Seq(Node)  BY <2>2
      <4>2. Len(ls) \in Nat  BY <4>1
      <4> QED  BY <4>1, <4>2, RangeFacts
    <3>2. \A x \in Range(ls) : Range(k.target[x].transits) = Range(target[x].transits)
      BY <2>4, <3>1 DEF Reordered
    <3>3. \A p \in Nodes : Range(ks[p]) \subseteq Range(ls)  BY <2>2 DEF TopoOK, Children
    <3>4. ASSUME NEW most \in Nat, Fits(Added, ls, k.target, most) PROVE Priced(Added, ls, target, ks, k, most, Len(ls))
      <4>1. Fits(Added, ls, target, most)  BY <3>2, <3>4, FitsSame
      <4> QED  BY <2>4, <4>1
    <3>5. ASSUME NEW x \in Fin(k) PROVE x \in Range(ls)
      <4> QED  BY <2>4, <3>5 DEF ls
    <3>6. np.connected = Fin(np)
      <4>1. Fin(np) = Fin(k)  BY <2>7 DEF Fin
      <4> QED  BY <2>4, <2>7, <4>1
    <3> HIDE DEF ls, ks
    <3>7. ASSUME NEW most \in Nat, Fits(Added, ls, k.target, most)
          PROVE  Capped(np) /\ Exact(Added, ls, k.target, k.target, np, Len(ls)) /\ Lowest(Added, ls, k.target, ks, np, Len(ls))
      <4>1. Capped(k) /\ Exact(Added, ls, target, k.target, k, Len(ls)) /\ Lowest(Added, ls, target, ks, k, Len(ls))
        BY <3>4, <3>7 DEF Priced
      <4>2. np.cost = k.cost /\ Fin(k) \subseteq Range(ls)  BY <2>7, <3>5
      <4>3. SamePrices(Added, ls, target, k.target, k.target, k.target, ks, k, np, Len(ls))
        BY <3>2, <3>3, <4>1, <4>2 DEF SamePrices
      <4> QED  BY <3>1, <4>3, Repriced
    <3> QED  BY <3>6, <3>7 DEF Prices, ls, ks
  <2>10. CostOK(Added, g.sorted, k.target, nt, np)  BY <2>4, <2>6, <2>7, <2>12 DEF CostOK
  <2>11. RouteOK(g.sorted, k.target, np, sr)  BY <1>1, <1>3 DEF RouteOK
  <2> QED  BY <2>5, <2>7, <2>8, <2>9, <2>10, <2>11 DEF c
<1> QED  BY <1>2, <1>3

LEMMA RouteStep ==
    ASSUME IInv, NEW x \in Node, Route(x)
    PROVE  IInv'
<1> DEFINE c == Computed
           w == Walk(c, x)
<1>1. /\ DbOK(c.list, c.target) /\ SortOK(c.list, c.target, c.topo)
      /\ CostOK(Added, c.list, c.target, c.topo, c.paths) /\ c.paths.valid
      /\ RouteOK(c.list, c.target, c.paths, sr)
  BY ComputedFacts
<1>2. /\ list' = c.list /\ target' = c.target /\ topo' = c.topo /\ paths' = c.paths
      /\ sr' = IF x \notin c.paths.connected THEN sr
               ELSE IF w.end = "root" THEN [target |-> x, hops |-> w.hops] ELSE NoRoute
      /\ UNCHANGED <<srh, dtsn, link, daos, errors, shifts>>
  BY DEF Route, Applied
<1> HIDE DEF c
<1>3. RouteOK(c.list, c.target, c.paths, sr')
  <2>1. CASE x \notin c.paths.connected  BY <1>1, <1>2, <2>1
  <2>2. CASE x \in c.paths.connected
    <3>1. Routed(c)  BY <1>1 DEF Routed, DbOK, CostOK
    <3>2. /\ w.end = "root" /\ w.hops \in Seq(Node) /\ IsRoute(c.list, c.target, x, w.hops)
          /\ FirstHops(c.paths.connected, c.target, x, w.hops)
      BY <2>2, <3>1, WalkFacts
    <3> HIDE DEF w
    <3>3. sr' = [target |-> x, hops |-> w.hops]  BY <1>2, <2>2, <3>2
    <3>4. sr' \in [target : Nodes, hops : Seq(Node)] /\ sr'.target = x /\ sr'.hops = w.hops
      BY <3>2, <3>3 DEF Nodes
    <3> QED  BY <1>1, <3>2, <3>4 DEF RouteOK
  <2> QED  BY <2>1, <2>2
<1>4. Counts'  BY <1>2 DEF Counts, IInv
<1> HIDE DEF w
<1>6. Added' = Added  BY <1>2 DEF Added
<1>5. /\ DbOK(list', target') /\ SortOK(list', target', topo') /\ CostOK(Added, list', target', topo', paths')
      /\ RouteOK(list', target', paths', sr')
  BY <1>1, <1>2, <1>3
<1> QED  BY <1>4, <1>5, <1>6 DEF IInv, DbOK, SortOK, CostOK, RouteOK

LEMMA RouteTableStep ==
    ASSUME IInv, RouteTable
    PROVE  IInv'
<1> DEFINE c == Computed
<1>1. /\ DbOK(c.list, c.target) /\ SortOK(c.list, c.target, c.topo)
      /\ CostOK(Added, c.list, c.target, c.topo, c.paths) /\ c.paths.valid
      /\ RouteOK(c.list, c.target, c.paths, sr)
  BY ComputedFacts
<1>2. /\ list' = c.list /\ target' = c.target /\ topo' = c.topo /\ paths' = c.paths
      /\ UNCHANGED <<sr, srh, dtsn, link, daos, errors, shifts>>
  BY DEF RouteTable, Applied
<1> HIDE DEF c
<1>3. Counts'  BY <1>2 DEF Counts, IInv
<1>5. Added' = Added  BY <1>2 DEF Added
<1>4. /\ DbOK(list', target') /\ SortOK(list', target', topo') /\ CostOK(Added, list', target', topo', paths')
      /\ RouteOK(list', target', paths', sr')
  BY <1>1, <1>2
<1> QED  BY <1>3, <1>4, <1>5 DEF IInv, DbOK, SortOK, CostOK, RouteOK


\* A step that leaves nothing of the sort behind.
LEMMA TopoInvalidated ==
    ASSUME DbOK(list', target'), InvalidateTopo, Counts'
    PROVE  IInv'
<1>1. topo' = Unsorted /\ paths' = NoPaths /\ sr' = NoRoute  BY DEF InvalidateTopo
<1>2. SortOK(list', target', Unsorted) /\ CostOK(Added', list', target', topo', NoPaths) /\ RouteOK(list', target', paths', NoRoute)
  BY Invalidated
<1>3. SortOK(list', target', topo') /\ CostOK(Added', list', target', topo', paths') /\ RouteOK(list', target', paths', sr')
  BY <1>1, <1>2
<1> QED  BY <1>3 DEF IInv, DbOK, SortOK, CostOK, RouteOK

\* A step that leaves nothing of the paths behind, and changes no transit's parent.
LEMMA PathsInvalidated ==
    ASSUME IInv, list' = list, DbOK(list, target'), Alike(Known, target, target'), InvalidatePaths, Counts'
    PROVE  IInv'
<1>1. topo' = topo /\ paths' = NoPaths /\ sr' = NoRoute  BY DEF InvalidatePaths
<1>2. CostOK(Added', list', target', topo', NoPaths) /\ RouteOK(list', target', paths', NoRoute)  BY Invalidated
<1>3. SortOK(list, target', topo)
  <2>1. SortOK(list, target, topo) /\ Alike(Range(list), target, target')  BY DEF IInv, Known
  <2> QED  BY <2>1, SortSame
<1>4. DbOK(list', target') /\ SortOK(list', target', topo') /\ CostOK(Added', list', target', topo', paths') /\ RouteOK(list', target', paths', sr')
  BY <1>1, <1>2, <1>3
<1> QED  BY <1>4 DEF IInv, DbOK, SortOK, CostOK, RouteOK

LEMMA DaoStep ==
    ASSUME IInv, NEW x \in Node, NEW q \in Seqs, NEW ext \in Externals, NEW l \in Transits[x], Dao(x, q, ext, l)
    PROVE  IInv'
<1> DEFINE s == Received(x, q, ext, l)
           t0 == target[x]
<1>1. /\ daos < MaxDaos /\ daos' = daos + 1 /\ target' = [target EXCEPT ![x] = s.t]
      /\ list' = IF x \in Known THEN list ELSE Append(list, x)
      /\ Invalidate(s.new, s.upd) /\ UNCHANGED <<srh, dtsn, link, errors, shifts>>
  BY DEF Dao, OneDao
<1>2. DbOK(list, target) /\ Counts  BY DEF IInv
<1>3. s \in Got(t0, x \in Known)
  <2>1. x \in Known => Valid(target[x])  BY <1>2, DbFacts DEF Known
  <2>2. l \in Seq(Parent)
    <3> DEFINE A == [via : (Node \cup {Root}) \ {x}, cost : 1..4]
    <3>1. l \in Seq(A)  BY RplAssumption
    <3>2. A \subseteq Parent  BY DEF Parent, Nodes
    <3> HIDE DEF A
    <3>3. l = [i \in 1..Len(l) |-> l[i]] /\ Len(l) \in Nat /\ \A i \in 1..Len(l) : l[i] \in A  BY <3>1
    <3>4. \A i \in 1..Len(l) : l[i] \in Parent  BY <3>2, <3>3
    <3> QED  BY <3>3, <3>4
  <2> QED  BY <2>1, <2>2, ReceivedFacts
<1> HIDE DEF s
<1>4. /\ Valid(s.t) /\ s.new \in BOOLEAN /\ s.upd \in BOOLEAN
      /\ ~s.new => x \in Known /\ SameVias(s.t, t0)
      /\ (~s.new /\ ~s.upd) => s.t = t0
  BY <1>3 DEF Got
<1>5. Counts'
  <2>1. daos + 1 \in 0..MaxDaos  BY <1>1, <1>2, BoundAssumption DEF Counts
  <2> QED  BY <1>1, <1>2, <2>1 DEF Counts
<1>6. /\ list' \in Seq(Node) /\ IsInjective(list') /\ Range(list') = Known \cup {x}
  <2>1. list \in Seq(Node) /\ IsInjective(list)  BY <1>2 DEF DbOK
  <2>2. CASE x \in Known  BY <1>1, <2>1, <2>2 DEF Known
  <2>3. CASE x \notin Known
    <3>1. list' = Append(list, x)  BY <1>1, <2>3
    <3> QED  BY <2>1, <2>3, <3>1, AppendFacts DEF Known
  <2> QED  BY <2>2, <2>3
<1>7. /\ target' \in [Node -> Target] /\ target'[x] = s.t /\ \A y \in Node : y # x => target'[y] = target[y]
  <2>1. s.t \in Target  BY <1>4 DEF Valid
  <2>2. target \in [Node -> Target]  BY <1>2 DEF DbOK
  <2> QED  BY <1>1, <2>1, <2>2
<1>8. DbOK(list', target')
  <2>1. \A y \in Node \ Range(list') : target'[y] = NoTarget  BY <1>2, <1>6, <1>7 DEF DbOK, Known
  <2>2. \A y \in Range(list') : target'[y].seq \in Seqs /\ target'[y].life # 0 /\ OnePerVia(target'[y])
    <3>1. Known \subseteq Node  BY <1>2, DbFacts DEF Known
    <3>2. ASSUME NEW y \in Range(list')
          PROVE  target'[y].seq \in Seqs /\ target'[y].life # 0 /\ OnePerVia(target'[y])
      <4>1. CASE y = x  BY <1>4, <1>7, <4>1 DEF Valid
      <4>2. CASE y # x
        <5>1. y \in Range(list) /\ target'[y] = target[y]  BY <1>6, <1>7, <3>1, <4>2 DEF Known
        <5> QED  BY <1>2, <5>1 DEF DbOK
      <4> QED  BY <4>1, <4>2
    <3> QED  BY <3>2
  <2> QED  BY <1>6, <1>7, <2>1, <2>2 DEF DbOK
<1>9. CASE s.new
  <2>1. InvalidateTopo  BY <1>1, <1>9 DEF Invalidate
  <2> QED  BY <1>5, <1>8, <2>1, TopoInvalidated
<1>10. CASE ~s.new /\ s.upd
  <2>1. InvalidatePaths /\ list' = list  BY <1>1, <1>4, <1>10 DEF Invalidate
  <2>2. Alike(Known, target, target')
    <3>1. Known \subseteq Node  BY <1>2, DbFacts DEF Known
    <3>2. SameVias(target[x], target'[x])  BY <1>4, <1>7, <1>10 DEF SameVias
    <3>3. \A y \in Known : y # x => SameVias(target[y], target'[y])  BY <1>7, <3>1 DEF SameVias
    <3> QED  BY <3>2, <3>3 DEF Alike
  <2>3. DbOK(list, target')  BY <1>8, <2>1
  <2> QED  BY <1>5, <2>1, <2>2, <2>3, PathsInvalidated
<1>11. CASE ~s.new /\ ~s.upd
  <2>1. UNCHANGED <<topo, paths, sr>> /\ list' = list  BY <1>1, <1>4, <1>11 DEF Invalidate
  <2>2. target' = target
    <3>1. s.t = target[x]  BY <1>4, <1>11
    <3>2. target \in [Node -> Target]  BY <1>2 DEF DbOK
    <3> QED  BY <1>1, <3>1, <3>2
  <2>3. Added' = Added  BY <1>1 DEF Added
  <2> QED  BY <1>5, <2>1, <2>2, <2>3 DEF IInv, DbOK, SortOK, CostOK, RouteOK
<1> QED  BY <1>4, <1>9, <1>10, <1>11

LEMMA NoPathStep ==
    ASSUME IInv, NEW x \in Node, NEW via, NoPath(x, via)
    PROVE  IInv'
<1> DEFINE left == WithoutVia(target[x].transits, via)
           u == [target[x] EXCEPT !.transits = left]
<1>1. /\ daos < MaxDaos /\ daos' = daos + 1 /\ x \in Known
      /\ list' = IF left = <<>> THEN Only(list, Node \ {x}) ELSE list
      /\ target' = [target EXCEPT ![x] = IF left = <<>> THEN NoTarget ELSE u]
      /\ InvalidateTopo /\ UNCHANGED <<srh, dtsn, link, errors, shifts>>
  BY DEF NoPath, OneDao, TransitDeleted
<1>2. DbOK(list, target) /\ Counts  BY DEF IInv
<1>3. Counts'
  <2>1. daos + 1 \in 0..MaxDaos  BY <1>1, <1>2, BoundAssumption DEF Counts
  <2> QED  BY <1>1, <1>2, <2>1 DEF Counts
<1>4. /\ target \in [Node -> Target] /\ target[x] \in Target /\ Valid(target[x])
      /\ list \in Seq(Node) /\ IsInjective(list) /\ Range(list) \subseteq Node
  BY <1>1, <1>2, DbFacts DEF DbOK, Known
<1>5. Valid(u)
  <2>1. target[x].transits \in Seq(Transit) /\ Uniq(target[x].transits)
    BY <1>4, TargetFields, UniqIs DEF Valid
  <2>2. left \in Seq(Transit) /\ Uniq(left)  BY <2>1, WithoutViaFacts
  <2> HIDE DEF left
  <2>3. /\ u \in Target /\ u.transits = left /\ u.seq = target[x].seq /\ u.life = target[x].life
    BY <1>4, <2>2 DEF Target
  <2> HIDE DEF u
  <2>4. OnePerVia(u)  BY <2>2, <2>3, UniqIs
  <2> QED  BY <1>4, <2>3, <2>4 DEF Valid
<1> HIDE DEF left, u
<1>6. CASE left = <<>>
  <2>1. /\ list' \in Seq(Node) /\ IsInjective(list') /\ Range(list') = Range(list) \cap (Node \ {x})
    BY <1>1, <1>4, <1>6, OnlyFacts
  <2>2. target' = [target EXCEPT ![x] = NoTarget]  BY <1>1, <1>6
  <2>3. /\ target' \in [Node -> Target] /\ target'[x] = NoTarget /\ \A y \in Node : y # x => target'[y] = target[y]
    BY <1>4, <2>2, NoTargetFacts
  <2>4. \A y \in Node \ Range(list') : target'[y] = NoTarget  BY <1>2, <2>1, <2>3 DEF DbOK
  <2>5. \A y \in Range(list') : target'[y].seq \in Seqs /\ target'[y].life # 0 /\ OnePerVia(target'[y])
    <3>1. \A y \in Range(list') : y \in Range(list) /\ y \in Node /\ y # x  BY <2>1
    <3> QED  BY <1>2, <2>3, <3>1 DEF DbOK
  <2>6. DbOK(list', target')  BY <2>1, <2>3, <2>4, <2>5 DEF DbOK
  <2> QED  BY <1>1, <1>3, <2>6, TopoInvalidated
<1>7. CASE left # <<>>
  <2>1. list' = list /\ target' = [target EXCEPT ![x] = u]  BY <1>1, <1>7
  <2>2. /\ target' \in [Node -> Target] /\ target'[x] = u /\ \A y \in Node : y # x => target'[y] = target[y]
    <3>1. u \in Target  BY <1>5 DEF Valid
    <3> QED  BY <1>4, <2>1, <3>1
  <2>3. \A y \in Node \ Range(list) : target'[y] = NoTarget  BY <1>1, <1>2, <2>2 DEF DbOK, Known
  <2>4. \A y \in Range(list) : target'[y].seq \in Seqs /\ target'[y].life # 0 /\ OnePerVia(target'[y])
    <3>1. ASSUME NEW y \in Range(list)
          PROVE  target'[y].seq \in Seqs /\ target'[y].life # 0 /\ OnePerVia(target'[y])
      <4>1. CASE y = x  BY <1>5, <2>2, <4>1 DEF Valid
      <4>2. CASE y # x
        <5>1. target'[y] = target[y]  BY <1>4, <2>2, <4>2
        <5> QED  BY <1>2, <5>1 DEF DbOK
      <4> QED  BY <4>1, <4>2
    <3> QED  BY <3>1
  <2>5. DbOK(list', target')  BY <1>4, <2>1, <2>2, <2>3, <2>4 DEF DbOK
  <2> QED  BY <1>1, <1>3, <2>5, TopoInvalidated
<1> QED  BY <1>6, <1>7


LEMMA DearerFacts ==
    ASSUME NEW c \in 1..(CostMod - 1)
    PROVE  Dearer(c) \in 1..(CostMod - 1)
  BY CostAssumption DEF Dearer

LEMMA SeqIncFacts ==
    ASSUME NEW a \in 0..(SeqTop - 1)
    PROVE  SeqInc(a) \in 0..(SeqTop - 1)
<1>1. SeqTop \in Nat /\ SeqTop > 0 /\ a + 1 \in Nat  BY RplAssumption
<1>2. (a + 1) % SeqTop \in 0..(SeqTop - 1)  BY <1>1
<1>3. 0 \in 0..(SeqTop - 1)  BY <1>1
<1> QED  BY <1>2, <1>3 DEF SeqInc

LEMMA TransitErrorStep ==
    ASSUME IInv, NEW x \in Node, NEW via, TransitError(x, via)
    PROVE  IInv'
<1> DEFINE l == target[x].transits
           worse(e) == IF e.via = via THEN [e EXCEPT !.cost = Dearer(@)] ELSE e
           m == [i \in DOMAIN l |-> worse(l[i])]
           u == [target[x] EXCEPT !.transits = m]
<1>1. /\ errors < MaxErrors /\ errors' = errors + 1 /\ x \in Known
      /\ target' = [target EXCEPT ![x].transits = [i \in DOMAIN @ |-> worse(@[i])]]
      /\ InvalidatePaths
      /\ srh' = (IF Ask(srh + 1) THEN 0 ELSE srh + 1)
      /\ dtsn' = (IF Ask(srh + 1) THEN SeqInc(dtsn) ELSE dtsn)
      /\ UNCHANGED <<list, link, daos, shifts>>
  BY DEF TransitError
<1>2. DbOK(list, target) /\ Counts  BY DEF IInv
<1>3. Counts'
  <2>1. errors + 1 \in 0..MaxErrors /\ srh + 1 \in Nat /\ 0 \in Nat  BY <1>1, <1>2, BoundAssumption DEF Counts
  <2>2. dtsn \in 0..(SeqTop - 1)  BY <1>2 DEF Counts
  <2>3. SeqInc(dtsn) \in 0..(SeqTop - 1)  BY <2>2, SeqIncFacts
  <2>4. srh' \in Nat /\ dtsn' \in 0..(SeqTop - 1)  BY <1>1, <2>1, <2>2, <2>3
  <2>5. errors' \in 0..MaxErrors /\ daos' \in 0..MaxDaos /\ link' \in [Node -> Links] /\ shifts' \in 0..MaxShifts
    BY <1>1, <1>2, <2>1 DEF Counts
  <2> QED  BY <2>4, <2>5 DEF Counts
<1>4. /\ target \in [Node -> Target] /\ target[x] \in Target /\ Valid(target[x])
      /\ list \in Seq(Node) /\ IsInjective(list) /\ Range(list) \subseteq Node
  BY <1>1, <1>2, DbFacts DEF DbOK, Known
<1>5. target' = [target EXCEPT ![x] = u]  BY <1>1, <1>4
<1>6. l \in Seq(Transit) /\ OnePerVia(target[x])  BY <1>4, TargetFields DEF Valid
<1>7. ASSUME NEW e \in Transit PROVE worse(e) \in Transit /\ worse(e).via = e.via
  <2>1. e.cost \in 1..(CostMod - 1)  BY DEF Transit
  <2>2. Dearer(e.cost) \in 1..(CostMod - 1)  BY <2>1, DearerFacts
  <2>3. CASE e.via = via
    <3>1. worse(e) = [e EXCEPT !.cost = Dearer(e.cost)]  BY <2>3
    <3> HIDE DEF worse
    <3> QED  BY <2>2, <3>1 DEF Transit
  <2>4. CASE e.via # via  BY <2>4
  <2> QED  BY <2>3, <2>4
<1> HIDE DEF worse
<1>8. /\ m \in Seq(Transit) /\ DOMAIN m = DOMAIN l /\ \A i \in DOMAIN l : m[i].via = l[i].via
  <2> HIDE DEF l
  <2>1. DOMAIN l = 1..Len(l) /\ Len(l) \in Nat /\ \A i \in 1..Len(l) : l[i] \in Transit  BY <1>6
  <2>2. \A i \in 1..Len(l) : worse(l[i]) \in Transit /\ worse(l[i]).via = l[i].via  BY <1>7, <2>1
  <2>3. m = [i \in 1..Len(l) |-> worse(l[i])]  BY <2>1
  <2>4. m \in Seq(Transit)  BY <2>1, <2>2, <2>3
  <2> QED  BY <2>1, <2>2, <2>3, <2>4
<1> HIDE DEF m
<1>9. u \in Target /\ u.transits = m /\ u.seq = target[x].seq /\ u.life = target[x].life
  BY <1>4, <1>8 DEF Target
<1> HIDE DEF u
<1>10. Valid(u)
  <2>1. OnePerVia(u)  BY <1>6, <1>8, <1>9 DEF OnePerVia
  <2> QED  BY <1>4, <1>9, <2>1 DEF Valid
<1>11. SameVias(target[x], u)
  <2> SUFFICES ASSUME NEW v PROVE HasTransit(target[x], v) <=> HasTransit(u, v)  BY DEF SameVias
  <2>1. HasTransit(target[x], v) <=> \E i \in DOMAIN l : l[i].via = v  BY DEF HasTransit, Range
  <2>2. HasTransit(u, v) <=> \E i \in DOMAIN m : m[i].via = v  BY <1>9 DEF HasTransit, Range
  <2> HIDE DEF l
  <2> QED  BY <1>8, <2>1, <2>2
<1>12. /\ target' \in [Node -> Target] /\ target'[x] = u /\ \A y \in Node : y # x => target'[y] = target[y]
  BY <1>4, <1>5, <1>9
<1>13. DbOK(list, target')
  <2>1. \A y \in Node \ Range(list) : target'[y] = NoTarget  BY <1>1, <1>2, <1>12 DEF DbOK, Known
  <2>2. ASSUME NEW y \in Range(list)
        PROVE  target'[y].seq \in Seqs /\ target'[y].life # 0 /\ OnePerVia(target'[y])
    <3>1. CASE y = x  BY <1>10, <1>12, <3>1 DEF Valid
    <3>2. CASE y # x
      <4>1. target'[y] = target[y]  BY <1>4, <1>12, <3>2
      <4> QED  BY <1>2, <4>1 DEF DbOK
    <3> QED  BY <3>1, <3>2
  <2> QED  BY <1>4, <1>12, <2>1, <2>2 DEF DbOK
<1>14. Alike(Known, target, target')
  <2>1. ASSUME NEW y \in Known PROVE SameVias(target[y], target'[y])
    <3>1. CASE y = x  BY <1>11, <1>12, <3>1
    <3>2. CASE y # x
      <4>1. target'[y] = target[y]  BY <1>4, <1>12, <3>2 DEF Known
      <4> QED  BY <4>1 DEF SameVias
    <3> QED  BY <3>1, <3>2
  <2> QED  BY <2>1 DEF Alike
<1> QED  BY <1>1, <1>3, <1>13, <1>14, PathsInvalidated

LEMMA OnlyAll ==
    ASSUME NEW A, NEW s \in Seq(A), NEW S, Range(s) \subseteq S
    PROVE  Only(s, S) = s
<1> DEFINE N == Len(s)
           base == <<>>
           Op(t, k) == IF s[k] \in S THEN Append(t, s[k]) ELSE t
           I == [k \in 0..N |-> {t \in Seq(A) : Len(t) = k /\ \A j \in 1..k : t[j] = s[j]}]
           step == [k \in 1..N |-> [t \in I[k - 1] |-> Op(t, k)]]
           Eq(f) == f = [k \in 0..N |-> IF k = 0 THEN base ELSE Op(f[k - 1], k)]
           loop == CHOOSE f : Eq(f)
<1>1. N \in Nat  OBVIOUS
<1>2. base \in I[0]
  <2>1. 0 \in 0..N /\ Len(base) = 0 /\ \A j \in 1..0 : base[j] = s[j]  BY <1>1
  <2> QED  BY <2>1, EmptyFacts
<1>3. ASSUME NEW k \in 1..N, NEW t \in I[k - 1] PROVE Op(t, k) \in I[k]
  <2>1. k \in 0..N /\ k - 1 \in 0..N  BY <1>1
  <2>2. t \in Seq(A) /\ Len(t) = k - 1 /\ \A j \in 1..(k - 1) : t[j] = s[j]  BY <2>1
  <2>3. s[k] \in A /\ s[k] \in S
    <3>1. s[k] \in Range(s)  BY RangeFacts
    <3> QED  BY <3>1
  <2> DEFINE r == Append(t, s[k])
  <2>4. Op(t, k) = r  BY <2>3
  <2>5. r \in Seq(A) /\ Len(r) = Len(t) + 1 /\ (\A j \in 1..Len(t) : r[j] = t[j]) /\ r[Len(t) + 1] = s[k]
    BY <2>2, <2>3, AppendFacts
  <2> HIDE DEF r
  <2>6. Len(t) + 1 = k  BY <1>1, <2>2
  <2>7. ASSUME NEW j \in 1..k PROVE r[j] = s[j]
    <3>1. CASE j = k  BY <2>5, <2>6, <3>1
    <3>2. CASE j # k
      <4>1. j \in 1..(k - 1)  BY <1>1, <3>2
      <4> QED  BY <2>2, <2>5, <4>1
    <3> QED  BY <3>1, <3>2
  <2>8. Len(r) = k  BY <2>5, <2>6
  <2> HIDE DEF N
  <2>9. r \in I[k]  BY <2>1, <2>5, <2>7, <2>8
  <2> QED  BY <2>4, <2>9
<1>4. Rounds(step, I, N)
  <2> HIDE DEF I, Op, N
  <2> QED  BY <1>3 DEF Rounds
<1>5. PICK g : LoopRun(g, N, base, step, I)
  <2> HIDE DEF I, step, N, base, Op
  <2> QED  BY <1>1, <1>2, <1>4, LoopInvariant
<1>6. Eq(g)
  <2> HIDE DEF I, N, base, Op
  <2>1. /\ g = [k \in 0..N |-> g[k]] /\ g[0] = base /\ \A k \in 0..N : g[k] \in I[k]
        /\ \A k \in 1..N : g[k] = step[k][g[k - 1]]
    <3> HIDE DEF step
    <3> QED  BY <1>5 DEF LoopRun
  <2>2. ASSUME NEW k \in 1..N PROVE g[k] = Op(g[k - 1], k)
    <3>1. k - 1 \in 0..N  BY <1>1
    <3>2. g[k - 1] \in I[k - 1]  BY <2>1, <3>1
    <3> QED  BY <2>1, <3>2
  <2> DEFINE h == [k \in 0..N |-> IF k = 0 THEN base ELSE Op(g[k - 1], k)]
  <2> HIDE DEF step
  <2>3. ASSUME NEW k \in 0..N PROVE g[k] = h[k]
    <3>1. CASE k = 0  BY <2>1, <3>1
    <3>2. CASE k # 0
      <4>1. k \in 1..N  BY <1>1, <3>2
      <4> QED  BY <2>2, <3>2, <4>1
    <3> QED  BY <3>1, <3>2
  <2>4. [k \in 0..N |-> g[k]] = h  BY <2>3
  <2> QED  BY <2>1, <2>4
<1>7. Eq(loop)
  <2> HIDE DEF Eq
  <2> QED  BY <1>6
<1> HIDE DEF loop
<1>8. loop[0] = base /\ \A k \in 1..N : loop[k] = Op(loop[k - 1], k)
  <2> HIDE DEF N, base, Op
  <2> QED  BY <1>1, <1>7
<1>9. \A k \in 1..N : loop[k - 1] \in I[k - 1] => loop[k] \in I[k]
  <2> HIDE DEF I, N, Op, Eq, step, base
  <2> QED  BY <1>3, <1>8
<1>10. loop[N] \in I[N]
  <2> HIDE DEF Op, Eq, step
  <2>1. loop[0] \in I[0]  BY <1>2, <1>8
  <2> HIDE DEF I, N, base
  <2> QED  BY <1>1, <1>9, <2>1, LoopEnd
<1>11. Only(s, S) = loop[N]  BY DEF Only, loop
<1> DEFINE r == Only(s, S)
<1> HIDE DEF r, loop
<1>12. r \in Seq(A) /\ Len(r) = N /\ \A j \in 1..N : r[j] = s[j]
  <2>1. N \in 0..N  BY <1>1
  <2>2. r = loop[N]  BY <1>11 DEF r
  <2> HIDE DEF N
  <2> QED  BY <1>10, <2>1, <2>2
<1>13. r = s  BY <1>12
<1> QED  BY <1>13 DEF r


LEMMA SlowTimerStep ==
    ASSUME IInv, SlowTimer
    PROVE  IInv'
<1> DEFINE gone == {x \in Known : target[x].life <= 1}
           older(x) == [target[x] EXCEPT !.life = @ - 1]
<1>1. /\ list' = Only(list, Node \ gone)
      /\ target' = [x \in Node |-> IF x \in gone THEN NoTarget ELSE IF x \in Known THEN older(x) ELSE target[x]]
      /\ Invalidate(gone # {}, FALSE) /\ UNCHANGED <<srh, dtsn, link, daos, errors, shifts>>
  BY DEF SlowTimer
<1>2. DbOK(list, target) /\ Counts  BY DEF IInv
<1>3. Counts'  BY <1>1, <1>2 DEF Counts
<1>4. /\ target \in [Node -> Target] /\ list \in Seq(Node) /\ IsInjective(list) /\ Known \subseteq Node
      /\ \A x \in Known : Valid(target[x])
  BY <1>2, DbFacts DEF DbOK, Known
<1>5. ASSUME NEW x \in Known, x \notin gone
      PROVE  Valid(older(x)) /\ older(x).transits = target[x].transits
  <2> DEFINE t == target[x]
  <2>1. t \in Target /\ Valid(t) /\ t.life \in 0..Life /\ ~(t.life <= 1)  BY <1>4, <1>5, TargetFields DEF Valid
  <2>2. t.life - 1 \in 0..Life /\ t.life - 1 # 0  BY <2>1, RplAssumption
  <2> HIDE DEF t
  <2>3. [t EXCEPT !.life = @ - 1] = [t EXCEPT !.life = t.life - 1]  OBVIOUS
  <2> DEFINE n == t.life - 1
             u == [t EXCEPT !.life = n]
  <2>4. n \in 0..Life /\ n # 0  BY <2>2
  <2> HIDE DEF n
  <2>5. u \in Target /\ u.life = n /\ u.seq = t.seq /\ u.transits = t.transits
    BY <2>1, <2>4 DEF Target
  <2>6. older(x) = u  BY <2>3 DEF t, n
  <2> HIDE DEF u
  <2>7. Valid(u)
    <3>1. OnePerVia(u)  BY <2>1, <2>5 DEF Valid, OnePerVia
    <3> QED  BY <2>1, <2>4, <2>5, <3>1 DEF Valid
  <2> HIDE DEF older
  <2> QED  BY <2>5, <2>6, <2>7 DEF t
<1> HIDE DEF older
<1>6. /\ list' \in Seq(Node) /\ IsInjective(list') /\ Range(list') = Known \ gone
  <2>1. /\ list' \in Seq(Node) /\ IsInjective(list') /\ Range(list') = Range(list) \cap (Node \ gone)
    <3> HIDE DEF gone
    <3> QED  BY <1>1, <1>4, OnlyFacts
  <2> QED  BY <1>4, <2>1 DEF Known
<1>7. \A x \in Node : /\ x \in gone => target'[x] = NoTarget
                      /\ (x \in Known /\ x \notin gone) => target'[x] = older(x)
                      /\ x \notin Known => target'[x] = target[x]
  <2>1. gone \subseteq Known  OBVIOUS
  <2> HIDE DEF gone
  <2> QED  BY <1>1, <2>1
<1>8. gone \subseteq Known  OBVIOUS
<1> HIDE DEF gone
<1>9. target' \in [Node -> Target]
  <2>1. ASSUME NEW x \in Node PROVE target'[x] \in Target
    <3>1. CASE x \in gone  BY <1>7, <3>1, NoTargetFacts
    <3>2. CASE x \in Known /\ x \notin gone  BY <1>5, <1>7, <3>2 DEF Valid
    <3>3. CASE x \notin Known  BY <1>4, <1>7, <3>3
    <3> QED  BY <3>1, <3>2, <3>3
  <2>2. target' = [x \in Node |-> target'[x]]  BY <1>1
  <2> QED  BY <2>1, <2>2
<1>10. DbOK(list', target')
  <2>1. ASSUME NEW x \in Node \ Range(list') PROVE target'[x] = NoTarget
    <3>1. CASE x \in gone  BY <1>7, <3>1
    <3>2. CASE x \notin gone
      <4>1. x \notin Known  BY <1>6, <3>2
      <4>2. target[x] = NoTarget  BY <1>2, <4>1 DEF DbOK, Known
      <4> QED  BY <1>7, <4>1, <4>2
    <3> QED  BY <3>1, <3>2
  <2>2. ASSUME NEW x \in Range(list')
        PROVE  target'[x].seq \in Seqs /\ target'[x].life # 0 /\ OnePerVia(target'[x])
    <3>1. x \in Known /\ x \notin gone /\ x \in Node  BY <1>4, <1>6
    <3>2. Valid(target'[x])  BY <1>5, <1>7, <3>1
    <3> QED  BY <3>2 DEF Valid
  <2> QED  BY <1>6, <1>9, <2>1, <2>2 DEF DbOK
<1>11. CASE gone # {}
  <2>1. InvalidateTopo  BY <1>1, <1>11 DEF Invalidate
  <2> QED  BY <1>3, <1>10, <2>1, TopoInvalidated
<1>12. CASE gone = {}
  <2>1. UNCHANGED <<topo, paths, sr>>  BY <1>1, <1>12 DEF Invalidate
  <2>2. list' = list
    <3>1. Range(list) \subseteq Node \ gone  BY <1>4, <1>12 DEF Known
    <3> QED  BY <1>1, <1>4, <3>1, OnlyAll
  <2>3. \A x \in Node : target'[x].transits = target[x].transits  BY <1>5, <1>7, <1>12
  <2>4. Alike(Range(list), target, target')
    BY <1>4, <2>3 DEF Alike, SameVias, HasTransit, Known
  <2>5. SortOK(list, target', topo)
    <3>1. SortOK(list, target, topo)  BY DEF IInv
    <3> QED  BY <2>4, <3>1, SortSame
  <2>9. \A x \in Range(list) : target'[x].transits = target[x].transits  BY <1>4, <2>3 DEF Known
  <2>6. RouteOK(list, target', paths, sr)
    <3>1. RouteOK(list, target, paths, sr)  BY DEF IInv
    <3> QED  BY <2>9, <3>1, RouteSame
  <2>7. CostOK(Added, list, target', topo, paths)
    <3>1. CostOK(Added, list, target, topo, paths)  BY DEF IInv
    <3>2. paths.connected \subseteq Node  BY <3>1 DEF CostOK
    <3>3. Rooted(list, target, paths.connected) => Rooted(list, target', paths.connected)
      BY <2>3, <3>2 DEF Rooted
    <3>4. ASSUME paths.valid PROVE Prices(Added, list, target', topo.kids, paths)
      <4>1. Prices(Added, list, target, topo.kids, paths) /\ topo.valid /\ Rooted(list, target, paths.connected)
        BY <3>1, <3>4 DEF CostOK
      <4>2. \A p \in Nodes : Range(topo.kids[p]) \subseteq Range(list)
        BY <4>1 DEF IInv, SortOK, TopoOK, Children
      <4>3. paths.connected = Fin(paths) /\ Fin(paths) \subseteq Range(list)  BY <4>1 DEF Prices, Rooted
      <4>4. list \in Seq(Node) /\ Len(list) \in Nat /\ Len(list) <= Len(list)
        <5>1. Len(list) \in Nat  BY <1>4
        <5> QED  BY <1>4, <5>1
      <4>5. ASSUME ~paths.quiet, NEW most \in Nat, Fits(Added, list, target', most)
            PROVE  /\ Capped(paths) /\ Exact(Added, list, target', target', paths, Len(list))
                   /\ Lowest(Added, list, target', topo.kids, paths, Len(list))
        <5>1. Fits(Added, list, target, most)  BY <2>9, <4>5, FitsSame
        <5>2. /\ Capped(paths) /\ Exact(Added, list, target, target, paths, Len(list))
              /\ Lowest(Added, list, target, topo.kids, paths, Len(list))
          BY <4>1, <4>5, <5>1 DEF Prices
        <5>3. \A x \in Range(list) : Range(target'[x].transits) = Range(target[x].transits)  BY <2>9
        <5> DEFINE ug == target'
                   n == Len(list)
                   kids == topo.kids
        <5>4. SamePrices(Added, list, target, ug, target, ug, kids, paths, paths, n)
          BY <2>9, <4>2, <4>3, <5>2, <5>3 DEF SamePrices
        <5>6. n \in Nat /\ n <= Len(list)  BY <4>4
        <5> HIDE DEF ug, n, kids
        <5>5. Capped(paths) /\ Exact(Added, list, ug, ug, paths, n) /\ Lowest(Added, list, ug, kids, paths, n)
          BY <4>4, <5>4, <5>6, Repriced
        <5> QED  BY <5>5 DEF ug, n, kids
      <4> QED  BY <4>3, <4>5 DEF Prices
    <3> QED  BY <3>1, <3>3, <3>4 DEF CostOK
  <2>8. DbOK(list', target') /\ SortOK(list', target', topo') /\ CostOK(Added, list', target', topo', paths') /\ RouteOK(list', target', paths', sr')
    BY <1>10, <2>1, <2>2, <2>5, <2>6, <2>7
  <2>10. Added' = Added  BY <1>1 DEF Added
  <2> QED  BY <1>3, <2>8, <2>10 DEF IInv, DbOK, SortOK, CostOK, RouteOK
<1> QED  BY <1>11, <1>12

\* What a change of a link leaves alone.
LEMMA ShiftFacts ==
    ASSUME IInv, NEW x \in Node, NEW l \in Links, Shift(x, l)
    PROVE  Counts' /\ UNCHANGED <<list, target>> /\ DbOK(list, target) /\ Alike(Known, target, target')
<1>1. /\ shifts < MaxShifts /\ shifts' = shifts + 1 /\ link' = [link EXCEPT ![x] = l]
      /\ UNCHANGED <<list, target, srh, dtsn, daos, errors>>
  BY DEF Shift
<1>2. DbOK(list, target) /\ Counts  BY DEF IInv
<1>3. shifts + 1 \in 0..MaxShifts  BY <1>1, <1>2, BoundAssumption DEF Counts
<1>4. link' \in [Node -> Links]  BY <1>1, <1>2 DEF Counts
<1>5. Counts'  BY <1>1, <1>2, <1>3, <1>4 DEF Counts
<1>6. Alike(Known, target, target')  BY <1>1 DEF Alike, SameVias
<1> QED  BY <1>1, <1>2, <1>5, <1>6

LEMMA EtxReportedStep ==
    ASSUME IInv, NEW x \in Node, NEW l \in Links, EtxReported(x, l)
    PROVE  IInv'
<1>1. Shift(x, l) /\ InvalidatePaths  BY DEF EtxReported
<1>2. Counts' /\ UNCHANGED <<list, target>> /\ DbOK(list, target) /\ Alike(Known, target, target')
  BY <1>1, ShiftFacts
<1>3. DbOK(list, target')  BY <1>2
<1> QED  BY <1>1, <1>2, <1>3, PathsInvalidated

\* Nothing but the costs depends on the links, and those are not claimed then.
LEMMA LinkQuietStep ==
    ASSUME IInv, NEW x \in Node, NEW l \in Links, LinkQuiet(x, l)
    PROVE  IInv'
<1> DEFINE np == [paths EXCEPT !.quiet = paths.valid]
<1>1. Shift(x, l) /\ paths' = np /\ UNCHANGED <<topo, sr>>  BY DEF LinkQuiet
<1>2. Counts' /\ UNCHANGED <<list, target>>  BY <1>1, ShiftFacts
<1>3. /\ DbOK(list, target) /\ SortOK(list, target, topo) /\ CostOK(Added, list, target, topo, paths)
      /\ RouteOK(list, target, paths, sr)
  BY DEF IInv
<1>4. paths \in [valid : BOOLEAN, cost : [Node -> Nat], connected : SUBSET Node, quiet : BOOLEAN]
  BY <1>3 DEF CostOK
<1>5. /\ np \in [valid : BOOLEAN, cost : [Node -> Nat], connected : SUBSET Node, quiet : BOOLEAN]
      /\ np.valid = paths.valid /\ np.cost = paths.cost /\ np.connected = paths.connected
      /\ np.quiet = paths.valid
  BY <1>4
<1> HIDE DEF np
<1>6. ASSUME NEW et PROVE CostOK(et, list, target, topo, np)
  <2>1. ASSUME np.valid
        PROVE  /\ topo.valid /\ Rooted(list, target, np.connected) /\ Closed(np.connected, topo.kids)
               /\ Prices(et, list, target, topo.kids, np)
    <3>1. /\ topo.valid /\ Rooted(list, target, paths.connected) /\ Closed(paths.connected, topo.kids)
          /\ paths.connected = Fin(paths)
      BY <1>3, <1>5, <2>1 DEF CostOK, Prices
    <3>2. Fin(np) = Fin(paths)  BY <1>5 DEF Fin
    <3>3. Prices(et, list, target, topo.kids, np)  BY <1>5, <2>1, <3>1, <3>2 DEF Prices
    <3> QED  BY <1>5, <3>1, <3>3
  <2> QED  BY <1>5, <2>1 DEF CostOK
<1>7. RouteOK(list, target, np, sr)  BY <1>3, <1>5 DEF RouteOK
<1>8. CostOK(Added', list, target, topo, np)  BY <1>6
<1>9. /\ DbOK(list', target') /\ SortOK(list', target', topo') /\ CostOK(Added', list', target', topo', paths')
      /\ RouteOK(list', target', paths', sr')
  BY <1>1, <1>2, <1>3, <1>7, <1>8
<1> QED  BY <1>2, <1>9 DEF IInv, DbOK, SortOK, CostOK, RouteOK

LEMMA InitIInv == Init => IInv
<1> SUFFICES ASSUME Init PROVE IInv  OBVIOUS
<1>1. /\ list = <<>> /\ target = [x \in Node |-> NoTarget] /\ topo = Unsorted /\ paths = NoPaths /\ sr = NoRoute
      /\ srh = 0 /\ dtsn = SeqTop - SeqWindow /\ link = [x \in Node |-> NoLink]
      /\ daos = 0 /\ errors = 0 /\ shifts = 0
  BY DEF Init
<1>2. DbOK(list, target)
  <2>1. list \in Seq(Node) /\ IsInjective(list) /\ Range(list) = {}  BY <1>1, EmptyFacts
  <2>2. target \in [Node -> Target] /\ \A x \in Node : target[x] = NoTarget  BY <1>1, NoTargetFacts
  <2> QED  BY <2>1, <2>2 DEF DbOK
<1>3. SortOK(list, target, topo) /\ CostOK(Added, list, target, topo, paths) /\ RouteOK(list, target, paths, sr)
  BY <1>1, Invalidated
<1>4. Counts
  <2>1. SeqTop - SeqWindow \in 0..(SeqTop - 1)  BY RplAssumption
  <2>2. link \in [Node -> Links]  BY <1>1, RplAssumption
  <2> QED  BY <1>1, <2>1, <2>2, BoundAssumption DEF Counts
<1> QED  BY <1>2, <1>3, <1>4 DEF IInv

LEMMA NextIInv == IInv /\ [Next]_vars => IInv'
<1> SUFFICES ASSUME IInv, [Next]_vars PROVE IInv'  OBVIOUS
<1>1. ASSUME NEW x \in Node, NEW q \in Seqs, NEW ext \in Externals, NEW l \in Transits[x], Dao(x, q, ext, l) PROVE IInv'
  BY <1>1, DaoStep
<1>2. ASSUME NEW x \in Node, NEW via \in Node \cup {Root}, NoPath(x, via) PROVE IInv'
  BY <1>2, NoPathStep
<1>3. ASSUME NEW x \in Node, NEW via \in Node \cup {Root}, TransitError(x, via) PROVE IInv'
  BY <1>3, TransitErrorStep
<1>4. ASSUME NEW x \in Node, Route(x) PROVE IInv'  BY <1>4, RouteStep
<1>5. CASE RouteTable  BY <1>5, RouteTableStep
<1>6. CASE SlowTimer  BY <1>6, SlowTimerStep
<1>7. CASE UNCHANGED vars
  <2>1. Added' = Added  BY <1>7 DEF vars, Added
  <2> QED  BY <1>7, <2>1 DEF vars, IInv, DbOK, SortOK, CostOK, RouteOK, Counts
<1>8. ASSUME NEW x \in Node, NEW l \in Links, EtxReported(x, l) PROVE IInv'  BY <1>8, EtxReportedStep
<1>9. ASSUME NEW x \in Node, NEW l \in Links, LinkQuiet(x, l) PROVE IInv'  BY <1>9, LinkQuietStep
<1> QED  BY <1>1, <1>2, <1>3, <1>4, <1>5, <1>6, <1>7, <1>8, <1>9 DEF Next

LEMMA Invariance == Spec => []IInv
  BY InitIInv, NextIInv, PTL DEF Spec

-----------------------------------------------------------------------------
(***************************************************************************)
(* The theorems.                                                            *)
(***************************************************************************)
\* The list of the targets and the child lists stay well formed: sorting loses no
\* target and doubles none, and no child list holds a transit that is gone.
THEOREM TypeInvariant == Spec => []TypeOK
<1>1. IInv => TypeOK
  <2> SUFFICES ASSUME IInv PROVE TypeOK  OBVIOUS
  <2>1. /\ list \in Seq(Node) /\ IsInjective(list)
        /\ target \in [Node -> Target] /\ \A x \in Node \ Known : target[x] = NoTarget
        /\ \A x \in Known : target[x].seq \in Seqs /\ target[x].life # 0 /\ OnePerVia(target[x])
    BY DEF IInv, DbOK, Known
  <2>2. topo \in [valid : BOOLEAN, kids : [Node \cup {Root} -> Seq(Node)]]  BY DEF IInv, SortOK, Nodes
  <2>3. topo.valid => \A p \in Node \cup {Root} : \A x \in Range(topo.kids[p]) :
            x \in Known /\ HasTransit(target[x], p)
    BY DEF IInv, SortOK, TopoOK, Children, Nodes, Known
  <2>4. paths.valid \in BOOLEAN /\ paths.quiet \in BOOLEAN /\ sr.target \in Node \cup {Root}  BY DEF IInv, CostOK, RouteOK, Nodes
  <2>5. /\ srh \in Nat /\ dtsn \in 0..(SeqTop - 1) /\ link \in [Node -> Links]
        /\ daos \in 0..MaxDaos /\ errors \in 0..MaxErrors /\ shifts \in 0..MaxShifts
    BY DEF IInv, Counts
  <2> QED  BY <2>1, <2>2, <2>3, <2>4, <2>5 DEF TypeOK
<1> QED  BY <1>1, Invariance, PTL

\* Whatever loops the transits form, the walk of rpl_data_compute_source_route()
\* from a connected target ends at the root: the branch that "Should not be
\* possible", a hop that is in the table already, is not taken.
THEOREM WalksEnd == Spec => []WalkEnds
<1>1. IInv => WalkEnds
  <2> SUFFICES ASSUME IInv, paths.valid, NEW x \in paths.connected
               PROVE  LET w == Walk(Computed, x) IN w.end = "root" /\ w.last = Root
    BY DEF WalkEnds
  <2> DEFINE c == Computed
  <2>1. c = [list |-> list, target |-> target, topo |-> topo, paths |-> paths]  BY DEF Computed
  <2> HIDE DEF c
  <2>2. c.list = list /\ c.target = target /\ c.paths = paths  BY <2>1
  <2>3. Routed(c)  BY <2>2 DEF Routed, IInv, DbOK, CostOK
  <2>4. x \in c.paths.connected  BY <2>2
  <2> QED  BY <2>3, <2>4, WalkFacts DEF c
<1> QED  BY <1>1, Invariance, PTL

LEMMA KeptPath == IInv => RouteIsPath
<1> SUFFICES ASSUME IInv, sr.target # Root
             PROVE  /\ IsInjective(Chain)
                    /\ \A i \in 1..(Len(Chain) - 1) : Chain[i] \in Known /\ HasTransit(target[Chain[i]], Chain[i + 1])
  BY DEF RouteIsPath
<1>1. IsRoute(list, target, sr.target, sr.hops)  BY DEF IInv, RouteOK
<1> QED  BY <1>1 DEF IsRoute, Chain, Known

\* Whatever changes the database, the route that is kept for the next packet is a
\* path of the database as it is: from its target to the root, without a loop,
\* every hop a transit of the one before.
THEOREM RoutesArePaths == Spec => []RouteIsPath
  BY KeptPath, Invariance, PTL

\* After k rounds the reference has all connected targets among the first k of the
\* list, and none that is not in D.
Round(D, k) ==
    {s \in SUBSET Nodes :
        /\ Root \in s /\ s \subseteq D \cup {Root}
        /\ \A j \in 1..Len(list) : (j <= k /\ list[j] \in paths.connected) => list[j] \in s}

LEMMA GrownFacts ==
    ASSUME IInv, paths.valid, NEW D \in SUBSET Node, DbClosed(D, Known, target),
           NEW k \in Nat \ {0}, NEW s \in Round(D, k - 1)
    PROVE  Grown(s) \in Round(D, k)
<1> DEFINE r == Grown(s)
<1>1. /\ s \in SUBSET Nodes /\ Root \in s /\ s \subseteq D \cup {Root}
      /\ \A j \in 1..Len(list) : (j <= k - 1 /\ list[j] \in paths.connected) => list[j] \in s
  BY DEF Round
<1>2. /\ list \in Seq(Node) /\ IsInjective(list) /\ Known \subseteq Node
      /\ target \in [Node -> Target] /\ Rooted(list, target, paths.connected)
  BY DbFacts DEF IInv, DbOK, CostOK, Known
<1>3. r = s \cup {x \in Known : \E p \in s : HasTransit(target[x], p)}  BY DEF Grown
<1> HIDE DEF r
<1>4. r \in SUBSET Nodes /\ Root \in r  BY <1>1, <1>2, <1>3 DEF Nodes
<1>5. r \subseteq D \cup {Root}
  <2>1. ASSUME NEW x \in Known, NEW p \in s, HasTransit(target[x], p) PROVE x \in D
    BY <1>1, <2>1 DEF DbClosed
  <2> QED  BY <1>1, <1>3, <2>1
<1>6. ASSUME NEW j \in 1..Len(list), j <= k, list[j] \in paths.connected PROVE list[j] \in r
  <2>1. CASE j <= k - 1  BY <1>1, <1>3, <1>6, <2>1
  <2>2. CASE j = k
    <3> DEFINE x == list[j]
               p == Head(target[x].transits).via
    <3>1. /\ x \in Range(list) /\ target[x].transits # <<>>
          /\ p = Root \/ (p \in paths.connected /\ Before(list, p, x))
      BY <1>2, <1>6 DEF Rooted
    <3>2. x \in Known /\ HasTransit(target[x], p)
      <4> HIDE DEF x
      <4>1. x \in Known /\ target[x] \in Target  BY <1>2, <3>1 DEF Known
      <4>2. target[x].transits \in Seq(Transit)  BY <4>1, TargetFields
      <4>3. Head(target[x].transits) \in Range(target[x].transits)  BY <3>1, <4>2, TailFacts
      <4> QED  BY <4>1, <4>3 DEF HasTransit
    <3> HIDE DEF p
    <3>3. p \in s
      <4>1. CASE p = Root  BY <1>1, <4>1
      <4>2. CASE p \in paths.connected /\ Before(list, p, x)
        <5>1. p \in Range(list)  BY <1>2, <4>2 DEF Rooted
        <5>2. PICK i \in 1..Len(list) : list[i] = p  BY <1>2, <5>1, RangeFacts
        <5>3. Before(list, list[i], list[j])  BY <4>2, <5>2
        <5>4. i < j  BY <1>2, <5>3, BeforeIndex
        <5>5. i <= k - 1  BY <2>2, <5>4
        <5> QED  BY <1>1, <4>2, <5>2, <5>5
      <4> QED  BY <3>1, <4>1, <4>2
    <3>4. x \in r  BY <1>3, <3>2, <3>3
    <3> QED  BY <3>4
  <2>3. Len(list) \in Nat  BY <1>2
  <2>4. j \in Nat  BY <2>3
  <2> QED  BY <1>6, <2>1, <2>2, <2>4
<1> QED  BY <1>4, <1>5, <1>6 DEF Round, r

\* Where the reference gets after its last round.
ReachedFrom(D) ==
    /\ Reached \subseteq D
    /\ \A j \in 1..Len(list) :
        (j <= Cardinality(Node) /\ list[j] \in paths.connected /\ list[j] # Root) => list[j] \in Reached

LEMMA ReachedFacts ==
    ASSUME IInv, paths.valid, NEW D \in SUBSET Node, DbClosed(D, Known, target)
    PROVE  ReachedFrom(D)
<1> DEFINE N == Cardinality(Node)
           base == {Root}
           Op(t, k) == Grown(t)
           I == [k \in 0..N |-> Round(D, k)]
           step == [k \in 1..N |-> [t \in I[k - 1] |-> Op(t, k)]]
           Eq(f) == f = [k \in 0..N |-> IF k = 0 THEN base ELSE Op(f[k - 1], k)]
           loop == CHOOSE f : Eq(f)
<1>1. N \in Nat  BY RplAssumption, FS_CardinalityType
<1>2. base \in I[0]
  <2>1. base \in SUBSET Nodes /\ Root \in base /\ base \subseteq D \cup {Root}  BY DEF Nodes
  <2>2. \A j \in 1..Len(list) : ~(j <= 0)
    <3>1. list \in Seq(Node)  BY DEF IInv, DbOK
    <3>2. Len(list) \in Nat  BY <3>1
    <3> QED  BY <3>2
  <2>3. base \in Round(D, 0)  BY <2>1, <2>2 DEF Round
  <2>4. 0 \in 0..N  BY <1>1
  <2> QED  BY <2>3, <2>4
<1>3. ASSUME NEW k \in 1..N, NEW t \in I[k - 1] PROVE Op(t, k) \in I[k]
  <2> HIDE DEF N
  <2>1. k \in 0..N /\ k - 1 \in 0..N /\ k \in Nat \ {0}  BY <1>1
  <2>2. t \in Round(D, k - 1)  BY <2>1
  <2>3. Op(t, k) \in Round(D, k)  BY <2>1, <2>2, GrownFacts
  <2> QED  BY <2>1, <2>3
<1>4. Rounds(step, I, N)
  <2> HIDE DEF I, Op, N
  <2> QED  BY <1>3 DEF Rounds
<1>5. PICK g : LoopRun(g, N, base, step, I)
  <2> HIDE DEF I, step, N, base, Op
  <2> QED  BY <1>1, <1>2, <1>4, LoopInvariant
<1>6. Eq(g)
  <2> HIDE DEF I, N, base, Op
  <2>1. /\ g = [k \in 0..N |-> g[k]] /\ g[0] = base /\ \A k \in 0..N : g[k] \in I[k]
        /\ \A k \in 1..N : g[k] = step[k][g[k - 1]]
    <3> HIDE DEF step
    <3> QED  BY <1>5 DEF LoopRun
  <2>2. ASSUME NEW k \in 1..N PROVE g[k] = Op(g[k - 1], k)
    <3>1. k - 1 \in 0..N  BY <1>1
    <3>2. g[k - 1] \in I[k - 1]  BY <2>1, <3>1
    <3> QED  BY <2>1, <3>2
  <2> DEFINE h == [k \in 0..N |-> IF k = 0 THEN base ELSE Op(g[k - 1], k)]
  <2> HIDE DEF step
  <2>3. ASSUME NEW k \in 0..N PROVE g[k] = h[k]
    <3>1. CASE k = 0  BY <2>1, <3>1
    <3>2. CASE k # 0
      <4>1. k \in 1..N  BY <1>1, <3>2
      <4> QED  BY <2>2, <3>2, <4>1
    <3> QED  BY <3>1, <3>2
  <2>4. [k \in 0..N |-> g[k]] = h  BY <2>3
  <2> QED  BY <2>1, <2>4
<1>7. Eq(loop)
  <2> HIDE DEF Eq
  <2> QED  BY <1>6
<1> HIDE DEF loop
<1>8. loop[0] = base /\ \A k \in 1..N : loop[k] = Op(loop[k - 1], k)
  <2> HIDE DEF N, base, Op
  <2> QED  BY <1>1, <1>7
<1>9. \A k \in 1..N : loop[k - 1] \in I[k - 1] => loop[k] \in I[k]
  <2> HIDE DEF I, N, Op, Eq, step, base
  <2> QED  BY <1>3, <1>8
<1>10. loop[N] \in I[N]
  <2> HIDE DEF Op, Eq, step
  <2>1. loop[0] \in I[0]  BY <1>2, <1>8
  <2> HIDE DEF I, N, base
  <2> QED  BY <1>1, <1>9, <2>1, LoopEnd
<1>11. Reached = loop[N] \ {Root}  BY DEF Reached, loop
<1> HIDE DEF loop
<1>12. loop[N] \in Round(D, N)
  <2>1. N \in 0..N  BY <1>1
  <2> HIDE DEF N
  <2> QED  BY <1>10, <2>1
<1> HIDE DEF N, I
<1>13. /\ loop[N] \subseteq D \cup {Root}
       /\ \A j \in 1..Len(list) : (j <= N /\ list[j] \in paths.connected) => list[j] \in loop[N]
  BY <1>12 DEF Round
<1> QED  BY <1>11, <1>13 DEF ReachedFrom, N

\* Breaking loops disconnects nobody: who has a path cost is who the root can
\* reach over the transits of the database.
THEOREM NobodyDisconnected == Spec => []AllConnected
<1>1. ASSUME IInv, paths.valid PROVE paths.connected = Reached
  <2> DEFINE conn == paths.connected
  <2>1. /\ DbOK(list, target) /\ list \in Seq(Node) /\ IsInjective(list) /\ conn \in SUBSET Node
        /\ TopoOK(list, target, topo.kids) /\ Rooted(list, target, conn) /\ Closed(conn, topo.kids)
    BY <1>1 DEF IInv, DbOK, SortOK, CostOK
  <2>2. PICK D \in SUBSET conn : DbClosed(D, Known, target)
    BY <2>1 DEF TopoOK, Spans, Known
  <2>3. ReachedFrom(D)
    BY <1>1, <2>1, <2>2, ReachedFacts
  <2>4. Len(list) <= Cardinality(Node)  BY <2>1, ListLength
  <2>5. Reached \subseteq conn  BY <2>2, <2>3 DEF ReachedFrom
  <2>6. ASSUME NEW x \in conn PROVE x \in Reached
    <3>1. x \in Range(list) /\ x # Root  BY <2>1, RplAssumption DEF Rooted
    <3>2. PICK j \in 1..Len(list) : list[j] = x  BY <2>1, <3>1, RangeFacts
    <3>3. Len(list) \in Nat /\ Cardinality(Node) \in Nat  BY <2>1, RplAssumption, FS_CardinalityType
    <3>4. j <= Cardinality(Node)  BY <2>4, <3>2, <3>3
    <3> QED  BY <2>3, <3>1, <3>2, <3>4 DEF ReachedFrom
  <2> QED  BY <2>5, <2>6
<1>2. IInv => AllConnected  BY <1>1 DEF AllConnected
<1> QED  BY <1>2, Invariance, PTL

-----------------------------------------------------------------------------
(* Where no target is its own ancestor, the transits form no loop.         *)

Up(x) == {p \in Known : HasTransit(target[x], p)}
\* C holds the ancestors of x and no one else.
IsLine(x, C) ==
    /\ C \in SUBSET Node /\ Up(x) \subseteq C /\ Ancestors(C) \subseteq C
    /\ \A D \in SUBSET Node : Up(x) \subseteq D /\ Ancestors(D) \subseteq D => C \subseteq D
\* After k rounds: all ancestors have been found, or k of them.
Climbed(x, k) ==
    {s \in SUBSET Node :
        /\ Up(x) \subseteq s /\ (Ancestors(s) \subseteq s \/ k <= Cardinality(s))
        /\ \A D \in SUBSET Node : Up(x) \subseteq D /\ Ancestors(D) \subseteq D => s \subseteq D}

LEMMA AncestorsFacts ==
    ASSUME Known \subseteq Node
    PROVE  /\ \A s \in SUBSET Node : Ancestors(s) \in SUBSET Node /\ s \subseteq Ancestors(s)
           /\ \A s, D \in SUBSET Node : s \subseteq D => Ancestors(s) \subseteq Ancestors(D)
  BY DEF Ancestors

LEMMA ClimbStep ==
    ASSUME Known \subseteq Node, NEW x \in Node, NEW k \in Nat \ {0}, NEW s \in Climbed(x, k - 1)
    PROVE  Ancestors(s) \in Climbed(x, k)
<1> DEFINE r == Ancestors(s)
<1>1. /\ s \in SUBSET Node /\ Up(x) \subseteq s /\ (Ancestors(s) \subseteq s \/ k - 1 <= Cardinality(s))
      /\ \A D \in SUBSET Node : Up(x) \subseteq D /\ Ancestors(D) \subseteq D => s \subseteq D
  BY DEF Climbed
<1>2. r \in SUBSET Node /\ s \subseteq r  BY <1>1, AncestorsFacts
<1>3. ASSUME NEW D \in SUBSET Node, Up(x) \subseteq D, Ancestors(D) \subseteq D PROVE r \subseteq D
  <2>1. s \subseteq D  BY <1>1, <1>3
  <2>2. r \subseteq Ancestors(D)  BY <1>1, <2>1, AncestorsFacts
  <2> QED  BY <1>3, <2>2
<1> HIDE DEF r
<1>4. Ancestors(r) \subseteq r \/ k <= Cardinality(r)
  <2>1. CASE r = s
    <3>1. CASE Ancestors(s) \subseteq s  BY <2>1, <3>1
    <3>2. CASE ~(Ancestors(s) \subseteq s)  BY <1>2, <2>1, <3>2 DEF r
    <3> QED  BY <3>1, <3>2
  <2>2. CASE r # s
    <3>1. k - 1 <= Cardinality(s)  BY <1>1, <1>2, <2>2 DEF r
    <3>2. IsFiniteSet(r) /\ IsFiniteSet(s)  BY <1>1, <1>2, RplAssumption, FS_Subset
    <3>3. Cardinality(s) <= Cardinality(r) /\ Cardinality(s) # Cardinality(r)  BY <1>2, <2>2, <3>2, FS_Subset
    <3>4. Cardinality(s) \in Nat /\ Cardinality(r) \in Nat  BY <3>2, FS_CardinalityType
    <3> QED  BY <3>1, <3>3, <3>4
  <2> QED  BY <2>1, <2>2
<1>5. r \in Climbed(x, k)  BY <1>1, <1>2, <1>3, <1>4 DEF Climbed
<1> QED  BY <1>5 DEF r

LEMMA LoopFacts ==
    ASSUME Known \subseteq Node, NEW x \in Node
    PROVE  \E C : IsLine(x, C) /\ (Loop(x) <=> x \in C)
<1> DEFINE N == Cardinality(Node)
           base == Up(x)
           Op(t, k) == Ancestors(t)
           I == [k \in 0..N |-> Climbed(x, k)]
           step == [k \in 1..N |-> [t \in I[k - 1] |-> Op(t, k)]]
           Eq(f) == f = [k \in 0..N |-> IF k = 0 THEN base ELSE Op(f[k - 1], k)]
           loop == CHOOSE f : Eq(f)
<1>1. N \in Nat  BY RplAssumption, FS_CardinalityType
<1>2. base \in I[0]
  <2>1. base \in SUBSET Node  BY DEF Up
  <2>2. IsFiniteSet(base)  BY <2>1, RplAssumption, FS_Subset
  <2>3. 0 <= Cardinality(base)  BY <2>2, FS_CardinalityType
  <2> HIDE DEF base
  <2>4. base \in Climbed(x, 0)  BY <2>1, <2>3 DEF Climbed, base
  <2>5. 0 \in 0..N  BY <1>1
  <2> QED  BY <2>4, <2>5
<1>3. ASSUME NEW k \in 1..N, NEW t \in I[k - 1] PROVE Op(t, k) \in I[k]
  <2> HIDE DEF N
  <2>1. k \in 0..N /\ k - 1 \in 0..N /\ k \in Nat \ {0}  BY <1>1
  <2>2. t \in Climbed(x, k - 1)  BY <2>1
  <2>3. Op(t, k) \in Climbed(x, k)  BY <2>1, <2>2, ClimbStep
  <2> QED  BY <2>1, <2>3
<1>4. Rounds(step, I, N)
  <2> HIDE DEF I, Op, N
  <2> QED  BY <1>3 DEF Rounds
<1>5. PICK g : LoopRun(g, N, base, step, I)
  <2> HIDE DEF I, step, N, base, Op
  <2> QED  BY <1>1, <1>2, <1>4, LoopInvariant
<1>6. Eq(g)
  <2> HIDE DEF I, N, base, Op
  <2>1. /\ g = [k \in 0..N |-> g[k]] /\ g[0] = base /\ \A k \in 0..N : g[k] \in I[k]
        /\ \A k \in 1..N : g[k] = step[k][g[k - 1]]
    <3> HIDE DEF step
    <3> QED  BY <1>5 DEF LoopRun
  <2>2. ASSUME NEW k \in 1..N PROVE g[k] = Op(g[k - 1], k)
    <3>1. k - 1 \in 0..N  BY <1>1
    <3>2. g[k - 1] \in I[k - 1]  BY <2>1, <3>1
    <3> QED  BY <2>1, <3>2
  <2> DEFINE h == [k \in 0..N |-> IF k = 0 THEN base ELSE Op(g[k - 1], k)]
  <2> HIDE DEF step
  <2>3. ASSUME NEW k \in 0..N PROVE g[k] = h[k]
    <3>1. CASE k = 0  BY <2>1, <3>1
    <3>2. CASE k # 0
      <4>1. k \in 1..N  BY <1>1, <3>2
      <4> QED  BY <2>2, <3>2, <4>1
    <3> QED  BY <3>1, <3>2
  <2>4. [k \in 0..N |-> g[k]] = h  BY <2>3
  <2> QED  BY <2>1, <2>4
<1>7. Eq(loop)
  <2> HIDE DEF Eq
  <2> QED  BY <1>6
<1> HIDE DEF loop
<1>8. loop[0] = base /\ \A k \in 1..N : loop[k] = Op(loop[k - 1], k)
  <2> HIDE DEF N, base, Op
  <2> QED  BY <1>1, <1>7
<1>9. \A k \in 1..N : loop[k - 1] \in I[k - 1] => loop[k] \in I[k]
  <2> HIDE DEF I, N, Op, Eq, step, base
  <2> QED  BY <1>3, <1>8
<1>10. loop[N] \in I[N]
  <2> HIDE DEF Op, Eq, step
  <2>1. loop[0] \in I[0]  BY <1>2, <1>8
  <2> HIDE DEF I, N, base
  <2> QED  BY <1>1, <1>9, <2>1, LoopEnd
<1>11. Loop(x) <=> x \in loop[N]  BY DEF Loop, loop, Up
<1> HIDE DEF loop
<1> DEFINE C == loop[N]
<1>12. C \in Climbed(x, N)
  <2>1. N \in 0..N  BY <1>1
  <2> HIDE DEF N
  <2> QED  BY <1>10, <2>1
<1> HIDE DEF C
<1>13. /\ C \in SUBSET Node /\ Up(x) \subseteq C /\ (Ancestors(C) \subseteq C \/ N <= Cardinality(C))
       /\ \A D \in SUBSET Node : Up(x) \subseteq D /\ Ancestors(D) \subseteq D => C \subseteq D
  BY <1>12 DEF Climbed
<1>14. Ancestors(C) \subseteq C
  <2> SUFFICES ASSUME N <= Cardinality(C) PROVE Ancestors(C) \subseteq C  BY <1>13
  <2>1. IsFiniteSet(Node) /\ Cardinality(C) <= N /\ (N = Cardinality(C) => Node = C)
    BY <1>13, RplAssumption, FS_Subset
  <2>2. Cardinality(C) \in Nat  BY <1>13, <2>1, FS_Subset, FS_CardinalityType
  <2>3. N = Cardinality(C)  BY <1>1, <2>1, <2>2
  <2>4. Node = C  BY <2>1, <2>3
  <2> QED  BY <1>13, <2>4, AncestorsFacts
<1>15. IsLine(x, C)  BY <1>13, <1>14 DEF IsLine
<1> QED  BY <1>11, <1>15 DEF C

LEMMA NoLoops ==
    ASSUME Known \subseteq Node, \A x \in Known : ~Loop(x)
    PROVE  Acyclic(Known, target)
<1> SUFFICES ASSUME NEW S \in SUBSET Known, S # {}, \A x \in S : \E p \in S : HasTransit(target[x], p)
             PROVE  FALSE
  BY DEF Acyclic
<1> DEFINE Is(x, C) == IsLine(x, C) /\ (Loop(x) <=> x \in C)
           line == [x \in S |-> CHOOSE C : Is(x, C)]
           T == {Cardinality(line[x]) : x \in S}
<1>1. ASSUME NEW x \in S PROVE IsLine(x, line[x]) /\ x \notin line[x]
  <2>1. \E C : Is(x, C)  BY LoopFacts
  <2>2. line[x] = CHOOSE C : Is(x, C)  OBVIOUS
  <2> HIDE DEF Is, line
  <2>3. Is(x, line[x])  BY <2>1, <2>2
  <2> QED  BY <2>3 DEF Is
<1> HIDE DEF line
<1>2. \A x \in S : IsFiniteSet(line[x]) /\ Cardinality(line[x]) \in Nat
  <2>1. \A x \in S : line[x] \in SUBSET Node  BY <1>1 DEF IsLine
  <2> QED  BY <2>1, RplAssumption, FS_Subset, FS_CardinalityType
<1>3. T \subseteq Nat /\ T # {}  BY <1>2
<1>4. PICK n \in T : \A m \in T : n <= m  BY <1>3, LeastNat
<1>5. PICK x \in S : n = Cardinality(line[x])  OBVIOUS
<1>6. PICK p \in S : HasTransit(target[x], p)  OBVIOUS
<1>7. Cardinality(line[x]) <= Cardinality(line[p])  BY <1>4, <1>5
<1>8. /\ line[x] \in SUBSET Node /\ Up(x) \subseteq line[x] /\ Ancestors(line[x]) \subseteq line[x]
      /\ \A D \in SUBSET Node : Up(p) \subseteq D /\ Ancestors(D) \subseteq D => line[p] \subseteq D
  BY <1>1 DEF IsLine
<1>9. p \in line[x]  BY <1>6, <1>8 DEF Up
<1>10. Up(p) \subseteq line[x]  BY <1>8, <1>9 DEF Up, Ancestors
<1>11. line[p] \subseteq line[x]  BY <1>8, <1>10
<1>12. Cardinality(line[p]) <= Cardinality(line[x]) /\ (Cardinality(line[x]) = Cardinality(line[p]) => line[x] = line[p])
  BY <1>2, <1>11, FS_Subset
<1>13. line[x] = line[p]  BY <1>2, <1>7, <1>12
<1> QED  BY <1>1, <1>9, <1>13

-----------------------------------------------------------------------------
(* The costs are those of the cheapest paths.                              *)

\* No sum of costs reaches 2^16, where the code would wrap it.
CostsFit == \E most \in Nat : Fits(Added, list, target, most)

\* The costs as rpl_downward_compute_paths() left them, all transits told of.
Settled ==
    /\ list \in Seq(Node) /\ IsInjective(list) /\ Known \subseteq Node
    /\ target \in [Node -> Target] /\ (\A x \in Known : OnePerVia(target[x]))
    /\ paths.cost \in [Node -> Nat] /\ Capped(paths) /\ Rooted(list, target, Fin(paths))
    /\ Exact(Added, list, target, target, paths, Len(list)) /\ Lowest(Added, list, target, topo.kids, paths, Len(list))
    /\ Full(Known, target, topo.kids)

LEMMA ViaCost ==
    ASSUME NEW tg, NEW x, tg[x].transits \in Seq(Transit), OnePerVia(tg[x]), NEW e \in Range(tg[x].transits)
    PROVE  /\ CostVia(tg, x, e.via) = e.cost /\ HasTransit(tg[x], e.via)
           /\ e.cost \in Nat /\ e.via \in Nodes
<1>1. Uniq(tg[x].transits)  BY UniqIs
<1>2. \A f \in Range(tg[x].transits) : f.via = e.via => f = e  BY <1>1 DEF Uniq
<1> DEFINE f == CHOOSE f \in Range(tg[x].transits) : f.via = e.via
<1>3. f \in Range(tg[x].transits) /\ f.via = e.via  OBVIOUS
<1>4. f = e  BY <1>2, <1>3
<1>5. CostVia(tg, x, e.via) = e.cost  BY <1>4 DEF CostVia
<1>6. HasTransit(tg[x], e.via)  BY DEF HasTransit
<1>7. e \in Transit  BY RangeFacts
<1>8. e.cost \in Nat /\ e.via \in Nodes
  <2>1. e.cost \in 1..(CostMod - 1) /\ e.via \in Node \cup {Root}  BY <1>7 DEF Transit
  <2> QED  BY <2>1, CostFacts DEF Nodes
<1> QED  BY <1>5, <1>6, <1>8

\* After k rounds the reference is nowhere below the costs, and down at them for
\* the first k of the list.
Level(k) ==
    {d \in [Node -> Nat] :
        /\ \A x \in Node : d[x] <= Infinite
        /\ \A x \in Known : paths.cost[x] <= d[x]
        /\ \A j \in 1..Len(list) : j <= k => d[list[j]] <= paths.cost[list[j]]}

\* No transit is cheaper than the cost.
LEMMA OverFacts ==
    ASSUME Settled, NEW k, NEW d \in Level(k), NEW x \in Known, NEW e \in Range(target[x].transits)
    PROVE  CostOver(d, x, e) \in Nat /\ paths.cost[x] <= CostOver(d, x, e)
<1>1. /\ d \in [Node -> Nat] /\ (\A y \in Node : d[y] <= Infinite)
      /\ \A y \in Known : paths.cost[y] <= d[y]
  BY DEF Level
<1>2. x \in Node /\ paths.cost[x] \in Nat /\ paths.cost[x] <= Infinite /\ Infinite \in Nat /\ Added[x] \in Nat
  BY AddedNat, CostFacts DEF Settled, Capped, Weights
<1>3. CostVia(target, x, e.via) = e.cost /\ HasTransit(target[x], e.via) /\ e.cost \in Nat /\ e.via \in Nodes
  <2>1. target[x].transits \in Seq(Transit) /\ OnePerVia(target[x])  BY <1>2, TargetFields DEF Settled
  <2> QED  BY <2>1, ViaCost
<1>4. CASE e.via = Root
  <2>1. CostOver(d, x, e) = e.cost + Added[x]  BY <1>4 DEF CostOver
  <2>2. x \in Range(topo.kids[Root])  BY <1>3, <1>4 DEF Settled, Full
  <2>3. paths.cost[x] <= Direct(Added, target, x)  BY <2>2 DEF Settled, Lowest
  <2>4. Direct(Added, target, x) = e.cost + Added[x]  BY <1>3, <1>4 DEF Direct
  <2> QED  BY <1>2, <1>3, <2>1, <2>3, <2>4
<1>5. CASE e.via # Root /\ e.via \in Known /\ d[e.via] # Infinite
  <2> DEFINE q == e.via
  <2>1. CostOver(d, x, e) = d[q] + e.cost  BY <1>5 DEF CostOver
  <2>2. q \in Node /\ q \in Known  BY <1>5 DEF Settled
  <2>3. d[q] \in Nat /\ d[q] <= Infinite /\ paths.cost[q] <= d[q] /\ paths.cost[q] \in Nat
    BY <1>1, <2>2 DEF Settled
  <2>4. q \in Fin(paths)
    <3>1. paths.cost[q] # Infinite  BY <1>2, <1>5, <2>3
    <3> QED  BY <2>2, <3>1 DEF Fin
  <2>5. PICK j \in 1..Len(list) : list[j] = q  BY <2>2, RangeFacts DEF Settled, Known
  <2>6. x \in Range(topo.kids[q])  BY <1>3, <2>2 DEF Settled, Full
  <2>7. paths.cost[x] <= paths.cost[q] + CostVia(target, x, q)  BY <2>4, <2>5, <2>6 DEF Settled, Lowest
  <2>8. paths.cost[x] <= paths.cost[q] + e.cost  BY <1>3, <2>7
  <2> HIDE DEF q
  <2> QED  BY <1>2, <1>3, <2>1, <2>3, <2>8
<1>6. CASE e.via # Root /\ ~(e.via \in Known /\ d[e.via] # Infinite)
  <2>1. CostOver(d, x, e) = Infinite  BY <1>6 DEF CostOver
  <2> QED  BY <1>2, <2>1
<1> QED  BY <1>4, <1>5, <1>6

LEMMA CheaperFacts ==
    ASSUME Settled, NEW k \in Nat \ {0}, NEW d \in Level(k - 1)
    PROVE  Cheaper(d) \in Level(k)
<1> DEFINE S(x) == {d[x]} \cup {CostOver(d, x, e) : e \in Range(target[x].transits)}
           r == Cheaper(d)
<1>1. /\ d \in [Node -> Nat] /\ (\A y \in Node : d[y] <= Infinite)
      /\ \A y \in Known : paths.cost[y] <= d[y]
      /\ \A j \in 1..Len(list) : j <= k - 1 => d[list[j]] <= paths.cost[list[j]]
  BY DEF Level
<1>2. /\ list \in Seq(Node) /\ IsInjective(list) /\ Known \subseteq Node /\ target \in [Node -> Target]
      /\ paths.cost \in [Node -> Nat] /\ Len(list) \in Nat /\ Infinite \in Nat
  BY CostFacts DEF Settled
<1>3. r = [x \in Node |-> Min(S(x))]  BY DEF Cheaper
<1>4. ASSUME NEW x \in Node PROVE S(x) \subseteq Nat /\ S(x) # {} /\ d[x] \in S(x)
  <2>1. d[x] \in S(x) /\ d[x] \in Nat  BY <1>1
  <2>2. ASSUME NEW e \in Range(target[x].transits) PROVE CostOver(d, x, e) \in Nat
    <3>1. target[x].transits \in Seq(Transit)  BY <1>2, TargetFields
    <3>2. e \in Transit  BY <3>1, RangeFacts
    <3>3. e.cost \in Nat
      <4>1. e.cost \in 1..(CostMod - 1)  BY <3>2 DEF Transit
      <4> QED  BY <4>1, CostFacts
    <3>4. Added[x] \in Nat  BY AddedNat DEF Weights
    <3>5. e.via \in Known => d[e.via] \in Nat  BY <1>1, <1>2
    <3> QED  BY <1>2, <3>3, <3>4, <3>5 DEF CostOver
  <2> QED  BY <2>1, <2>2
<1>5. ASSUME NEW x \in Node PROVE r[x] \in S(x) /\ r[x] \in Nat /\ \A v \in S(x) : r[x] <= v
  <2>1. r[x] = Min(S(x))
    <3> HIDE DEF r, S
    <3> QED  BY <1>3
  <2> HIDE DEF r, S
  <2>2. Min(S(x)) \in S(x) /\ \A v \in S(x) : Min(S(x)) <= v  BY <1>4, MinFacts
  <2> QED  BY <1>4, <2>1, <2>2
<1>6. r \in [Node -> Nat]
  <2> HIDE DEF S
  <2>1. r = [x \in Node |-> r[x]]  BY <1>3
  <2> HIDE DEF r
  <2> QED  BY <1>5, <2>1
<1> HIDE DEF r
<1>7. \A x \in Node : r[x] <= Infinite
  <2> SUFFICES ASSUME NEW x \in Node PROVE r[x] <= Infinite  OBVIOUS
  <2>1. r[x] <= d[x] /\ r[x] \in Nat /\ d[x] \in Nat /\ d[x] <= Infinite  BY <1>1, <1>4, <1>5
  <2> QED  BY <1>2, <2>1
<1>8. ASSUME NEW x \in Known PROVE paths.cost[x] <= r[x]
  <2>1. r[x] \in S(x)  BY <1>2, <1>5
  <2>2. \A e \in Range(target[x].transits) : paths.cost[x] <= CostOver(d, x, e)  BY OverFacts
  <2> QED  BY <1>1, <2>1, <2>2
<1>9. ASSUME NEW j \in 1..Len(list), j <= k PROVE r[list[j]] <= paths.cost[list[j]]
  <2> DEFINE x == list[j]
  <2>1. x \in Node /\ x \in Known  BY <1>2, RangeFacts DEF Known
  <2>2. r[x] \in Nat /\ paths.cost[x] \in Nat  BY <1>2, <1>5, <2>1
  <2>3. CASE x \notin Fin(paths)
    <3>1. paths.cost[x] = Infinite  BY <2>1, <2>3 DEF Fin
    <3> QED  BY <1>7, <2>1, <3>1
  <2>4. CASE x \in Fin(paths)
    <3> DEFINE e == Head(target[x].transits)
               q == e.via
    <3>1. target[x].transits # <<>> /\ (q = Root \/ (q \in Fin(paths) /\ Before(list, q, x)))
      BY <2>4 DEF Settled, Rooted
    <3>2. target[x].transits \in Seq(Transit) /\ OnePerVia(target[x])  BY <1>2, <2>1, TargetFields DEF Settled
    <3>3. e \in Range(target[x].transits)
      <4> HIDE DEF x
      <4> QED  BY <3>1, <3>2, TailFacts
    <3>4. CostVia(target, x, q) = e.cost /\ e.cost \in Nat
      <4> HIDE DEF x, e
      <4> QED  BY <3>2, <3>3, ViaCost
    <3>5. /\ q = Root => paths.cost[x] = Direct(Added, target, x)
          /\ q # Root => paths.cost[x] = paths.cost[q] + CostVia(target, x, q)
      BY <2>4 DEF Settled, Exact
    <3>6. r[x] <= CostOver(d, x, e)
      <4>1. CostOver(d, x, e) \in S(x)  BY <3>3
      <4> HIDE DEF x, e, S
      <4> QED  BY <1>5, <2>1, <4>1
    <3> HIDE DEF e
    <3>7. CostOver(d, x, e) = paths.cost[x]
      <4>1. CASE q = Root
        <5>1. CostOver(d, x, e) = e.cost + Added[x]  BY <4>1 DEF CostOver
        <5>2. Direct(Added, target, x) = e.cost + Added[x]  BY <3>4, <4>1 DEF Direct
        <5> QED  BY <3>5, <4>1, <5>1, <5>2
      <4>2. CASE q # Root
        <5>1. q \in Fin(paths) /\ Before(list, q, x)  BY <3>1, <4>2
        <5>2. q \in Known /\ q \in Node /\ paths.cost[q] # Infinite  BY <5>1 DEF Settled, Rooted, Known, Fin
        <5>3. PICK i \in 1..Len(list) : list[i] = q  BY <1>2, <5>2, RangeFacts DEF Known
        <5>4. i < j  BY <1>2, <5>1, <5>3, BeforeIndex
        <5>5. i <= k - 1  BY <1>2, <1>9, <5>4
        <5>6. d[q] <= paths.cost[q] /\ paths.cost[q] <= d[q]  BY <1>1, <5>2, <5>3, <5>5
        <5>7. d[q] \in Nat /\ paths.cost[q] \in Nat  BY <1>1, <1>2, <5>2
        <5>8. d[q] = paths.cost[q]  BY <5>6, <5>7
        <5>9. CostOver(d, x, e) = d[q] + e.cost  BY <4>2, <5>2, <5>8 DEF CostOver
        <5> QED  BY <3>4, <3>5, <4>2, <5>8, <5>9
      <4> QED  BY <4>1, <4>2
    <3> QED  BY <3>6, <3>7
  <2> QED  BY <2>3, <2>4
<1>10. r \in Level(k)  BY <1>6, <1>7, <1>8, <1>9 DEF Level
<1> QED  BY <1>10 DEF r

LEMMA BestCostFacts ==
    ASSUME Settled
    PROVE  \A x \in Known : paths.cost[x] = BestCost[x]
<1> DEFINE N == Cardinality(Node)
           base == [x \in Node |-> Infinite]
           Op(t, k) == Cheaper(t)
           I == [k \in 0..N |-> Level(k)]
           step == [k \in 1..N |-> [t \in I[k - 1] |-> Op(t, k)]]
           Eq(f) == f = [k \in 0..N |-> IF k = 0 THEN base ELSE Op(f[k - 1], k)]
           loop == CHOOSE f : Eq(f)
<1>1. N \in Nat  BY RplAssumption, FS_CardinalityType
<1>2. base \in I[0]
  <2>1. Infinite \in Nat /\ Known \subseteq Node /\ list \in Seq(Node)  BY CostFacts DEF Settled
  <2>2. Len(list) \in Nat  BY <2>1
  <2>3. base \in [Node -> Nat] /\ \A x \in Node : base[x] = Infinite  BY <2>1
  <2>4. \A x \in Node : paths.cost[x] <= Infinite  BY DEF Settled, Capped
  <2>5. \A j \in 1..Len(list) : ~(j <= 0)  BY <2>2
  <2>6. Infinite <= Infinite  BY <2>1
  <2> HIDE DEF base
  <2>7. base \in Level(0)  BY <2>1, <2>3, <2>4, <2>5, <2>6 DEF Level
  <2>8. 0 \in 0..N  BY <1>1
  <2> QED  BY <2>7, <2>8
<1>3. ASSUME NEW k \in 1..N, NEW t \in I[k - 1] PROVE Op(t, k) \in I[k]
  <2> HIDE DEF N
  <2>1. k \in 0..N /\ k - 1 \in 0..N /\ k \in Nat \ {0}  BY <1>1
  <2>2. t \in Level(k - 1)  BY <2>1
  <2>3. Op(t, k) \in Level(k)  BY <2>1, <2>2, CheaperFacts
  <2> QED  BY <2>1, <2>3
<1>4. Rounds(step, I, N)
  <2> HIDE DEF I, Op, N
  <2> QED  BY <1>3 DEF Rounds
<1>5. PICK g : LoopRun(g, N, base, step, I)
  <2> HIDE DEF I, step, N, base, Op
  <2> QED  BY <1>1, <1>2, <1>4, LoopInvariant
<1>6. Eq(g)
  <2> HIDE DEF I, N, base, Op
  <2>1. /\ g = [k \in 0..N |-> g[k]] /\ g[0] = base /\ \A k \in 0..N : g[k] \in I[k]
        /\ \A k \in 1..N : g[k] = step[k][g[k - 1]]
    <3> HIDE DEF step
    <3> QED  BY <1>5 DEF LoopRun
  <2>2. ASSUME NEW k \in 1..N PROVE g[k] = Op(g[k - 1], k)
    <3>1. k - 1 \in 0..N  BY <1>1
    <3>2. g[k - 1] \in I[k - 1]  BY <2>1, <3>1
    <3> QED  BY <2>1, <3>2
  <2> DEFINE h == [k \in 0..N |-> IF k = 0 THEN base ELSE Op(g[k - 1], k)]
  <2> HIDE DEF step
  <2>3. ASSUME NEW k \in 0..N PROVE g[k] = h[k]
    <3>1. CASE k = 0  BY <2>1, <3>1
    <3>2. CASE k # 0
      <4>1. k \in 1..N  BY <1>1, <3>2
      <4> QED  BY <2>2, <3>2, <4>1
    <3> QED  BY <3>1, <3>2
  <2>4. [k \in 0..N |-> g[k]] = h  BY <2>3
  <2> QED  BY <2>1, <2>4
<1>7. Eq(loop)
  <2> HIDE DEF Eq
  <2> QED  BY <1>6
<1> HIDE DEF loop
<1>8. loop[0] = base /\ \A k \in 1..N : loop[k] = Op(loop[k - 1], k)
  <2> HIDE DEF N, base, Op
  <2> QED  BY <1>1, <1>7
<1>9. \A k \in 1..N : loop[k - 1] \in I[k - 1] => loop[k] \in I[k]
  <2> HIDE DEF I, N, Op, Eq, step, base
  <2> QED  BY <1>3, <1>8
<1>10. loop[N] \in I[N]
  <2> HIDE DEF Op, Eq, step
  <2>1. loop[0] \in I[0]  BY <1>2, <1>8
  <2> HIDE DEF I, N, base
  <2> QED  BY <1>1, <1>9, <2>1, LoopEnd
<1>11. BestCost = loop[N]  BY DEF BestCost, loop
<1> HIDE DEF loop
<1> DEFINE d == BestCost
<1>12. d \in Level(N)
  <2>1. N \in 0..N  BY <1>1
  <2> HIDE DEF N
  <2> QED  BY <1>10, <1>11, <2>1
<1> HIDE DEF d
<1>13. /\ d \in [Node -> Nat] /\ (\A x \in Known : paths.cost[x] <= d[x])
       /\ \A j \in 1..Len(list) : j <= N => d[list[j]] <= paths.cost[list[j]]
  BY <1>12 DEF Level
<1>14. ASSUME NEW x \in Known PROVE paths.cost[x] = d[x]
  <2>1. list \in Seq(Node) /\ IsInjective(list) /\ x \in Node /\ paths.cost[x] \in Nat  BY DEF Settled
  <2>2. Len(list) \in Nat /\ Len(list) <= N  BY <2>1, ListLength
  <2>3. PICK j \in 1..Len(list) : list[j] = x  BY <2>1, RangeFacts DEF Known
  <2>4. j <= N  BY <1>1, <2>2
  <2>5. d[x] <= paths.cost[x] /\ paths.cost[x] <= d[x] /\ d[x] \in Nat  BY <1>13, <2>1, <2>3, <2>4
  <2> QED  BY <2>1, <2>5
<1> QED  BY <1>14 DEF d

LEMMA SettledFacts ==
    ASSUME IInv, CostsFit, paths.valid, ~paths.quiet, \A x \in Known : ~Loop(x)
    PROVE  Settled
<1>1. /\ list \in Seq(Node) /\ IsInjective(list) /\ target \in [Node -> Target] /\ Known \subseteq Node
      /\ \A x \in Known : OnePerVia(target[x])
  BY DbFacts DEF IInv, DbOK, Known
<1>2. /\ paths.cost \in [Node -> Nat] /\ topo.valid /\ Rooted(list, target, paths.connected)
      /\ Prices(Added, list, target, topo.kids, paths)
  BY DEF IInv, CostOK
<1>3. PICK most \in Nat : Fits(Added, list, target, most)  BY DEF CostsFit
<1>4. /\ paths.connected = Fin(paths) /\ Capped(paths) /\ Exact(Added, list, target, target, paths, Len(list))
      /\ Lowest(Added, list, target, topo.kids, paths, Len(list))
  BY <1>2, <1>3 DEF Prices
<1>5. Acyclic(Known, target)  BY <1>1, NoLoops
<1>6. Full(Known, target, topo.kids)  BY <1>2, <1>5 DEF IInv, SortOK, Known
<1>7. Rooted(list, target, Fin(paths))  BY <1>2, <1>4
<1> QED  BY <1>1, <1>2, <1>4, <1>6, <1>7 DEF Settled

\* Where the transits form no loop and no sum of costs wraps, the costs that the
\* root computes are those of the cheapest paths over the database, with the links
\* as they are unless one has changed since without a report: each target is
\* visited once, in the order of the sort, and that is enough.
THEOREM CheapestPaths == Spec => [](CostsFit => Cheapest)
<1>1. ASSUME IInv, CostsFit, paths.valid, ~paths.quiet, \A x \in Known : ~Loop(x)
      PROVE  \A x \in Known : paths.cost[x] = BestCost[x]
  BY <1>1, SettledFacts, BestCostFacts
<1>2. IInv => (CostsFit => Cheapest)  BY <1>1 DEF Cheapest
<1> QED  BY <1>2, Invariance, PTL

\* Summed up from the root, first transit by first transit, the cost of the route
\* is that of its target.
LEMMA ChainCostFacts ==
    ASSUME IInv, CostsFit, sr.target # Root, ~paths.quiet
    PROVE  ChainCost = paths.cost[sr.target] /\ sr.target \in Known /\ paths.valid
<1> DEFINE n == Len(Chain) - 1
           cost == paths.cost
           N == n
           base == Added[Chain[n]]
           Op(t, k) == t + CostVia(target, Chain[n + 1 - k], Chain[n + 2 - k])
           I == [k \in 0..N |-> {t \in Nat : IF k = 0 THEN t = base ELSE t = cost[Chain[n + 1 - k]]}]
           step == [k \in 1..N |-> [t \in I[k - 1] |-> Op(t, k)]]
           Eq(f) == f = [k \in 0..N |-> IF k = 0 THEN base ELSE Op(f[k - 1], k)]
           loop == CHOOSE f : Eq(f)
<1>20. /\ sr.target \in Node /\ sr.hops \in Seq(Node) /\ paths.valid
       /\ IsRoute(list, target, sr.target, sr.hops) /\ FirstHops(paths.connected, target, sr.target, sr.hops)
  BY DEF IInv, RouteOK, Nodes
<1>21. /\ cost \in [Node -> Nat] /\ Rooted(list, target, paths.connected)
       /\ Prices(Added, list, target, topo.kids, paths)
  BY <1>20 DEF IInv, CostOK
<1>22. Known \subseteq Node /\ Typed(Known, target)  BY DbFacts DEF IInv, Known
<1>23. paths.connected = Fin(paths) /\ Exact(Added, list, target, target, paths, Len(list))
  <2>1. PICK most \in Nat : Fits(Added, list, target, most)  BY DEF CostsFit
  <2> QED  BY <1>21, <2>1 DEF Prices
<1>24. /\ n \in Nat /\ n >= 1 /\ Len(Chain) = n + 1 /\ DOMAIN Chain = 1..(n + 1)
       /\ Chain[1] = sr.target /\ Chain[n + 1] = Root
  <2>1. /\ Chain \in Seq(Nodes) /\ Len(Chain) = Len(sr.hops) + 2
        /\ Chain[1] = sr.target /\ Chain[Len(sr.hops) + 2] = Root
    BY <1>20, ChainFacts DEF Chain
  <2>2. Len(sr.hops) \in Nat  BY <1>20
  <2>3. n = Len(sr.hops) + 1 /\ n + 1 = Len(sr.hops) + 2  BY <2>1, <2>2
  <2>4. DOMAIN Chain = 1..Len(Chain)  BY <2>1
  <2> HIDE DEF n
  <2> QED  BY <2>1, <2>2, <2>3, <2>4
<1>25. /\ IsInjective(Chain)
       /\ \A i \in 1..n : /\ Chain[i] \in Known /\ HasTransit(target[Chain[i]], Chain[i + 1])
                          /\ Chain[i] \in paths.connected /\ Head(target[Chain[i]].transits).via = Chain[i + 1]
  BY <1>20 DEF IsRoute, FirstHops, Chain, Known
<1> HIDE DEF n
<1>1. N \in Nat  BY <1>24
<1>26. base \in Nat
  <2>1. n \in 1..n  BY <1>24
  <2>2. Chain[n] \in Node  BY <1>22, <1>25, <2>1
  <2> QED  BY <2>2, AddedNat DEF Weights
<1>2. base \in I[0]
  <2>1. 0 \in 0..N  BY <1>1
  <2> HIDE DEF base, N
  <2> QED  BY <1>26, <2>1
<1>3. ASSUME NEW k \in 1..N, NEW t \in I[k - 1] PROVE Op(t, k) \in I[k]
  <2>1. k \in 0..N /\ k - 1 \in 0..N /\ k # 0 /\ n + 1 - k \in 1..n /\ n + 2 - k = (n + 1 - k) + 1
    BY <1>1, <1>24
  <2>2. t \in Nat /\ IF k - 1 = 0 THEN t = base ELSE t = cost[Chain[n + 1 - (k - 1)]]
    <3> HIDE DEF base, N
    <3> QED  BY <2>1
  <2> DEFINE x == Chain[n + 1 - k]
             q == Chain[n + 2 - k]
             u == Op(t, k)
  <2>3. /\ x \in Known /\ x \in Node /\ x \in Fin(paths) /\ HasTransit(target[x], q)
        /\ Head(target[x].transits).via = q
    BY <1>22, <1>23, <1>25, <2>1
  <2>4. /\ q = Root => cost[x] = Direct(Added, target, x)
        /\ q # Root => cost[x] = cost[q] + CostVia(target, x, q)
    <3> HIDE DEF x, q
    <3> QED  BY <1>23, <2>3 DEF Exact
  <2>5. CostVia(target, x, q) \in Nat
    <3> HIDE DEF x, q
    <3>1. target[x].transits \in Seq(Transit)  BY <1>22, <2>3 DEF Typed
    <3>2. CostVia(target, x, q) \in 1..(CostMod - 1)  BY <2>3, <3>1, CostViaFacts
    <3> QED  BY <3>2, CostFacts
  <2>6. u = t + CostVia(target, x, q)  OBVIOUS
  <2>7. u = cost[x]
    <3>1. CASE k = 1
      <4>1. n + 1 - k = n /\ n + 2 - k = n + 1 /\ k - 1 = 0  BY <1>24, <3>1
      <4>2. q = Root /\ x = Chain[n]  BY <1>24, <4>1
      <4>3. t = Added[x]  BY <2>2, <4>1, <4>2
      <4>4. cost[x] = CostVia(target, x, q) + Added[x]  BY <2>4, <4>2 DEF Direct
      <4> HIDE DEF u, x, q
      <4> QED  BY <2>2, <2>5, <2>6, <4>3, <4>4
    <3>2. CASE k # 1
      <4>1. k - 1 # 0 /\ n + 1 - (k - 1) = n + 2 - k /\ n + 2 - k \in 1..n /\ n + 2 - k # n + 1
        BY <1>1, <1>24, <3>2
      <4>2. q \in Node /\ q # Root  BY <1>22, <1>25, <4>1, RplAssumption
      <4>3. t = cost[q]
        <5> HIDE DEF cost, base
        <5> QED  BY <2>2, <4>1
      <4> HIDE DEF u, x, q
      <4> QED  BY <2>4, <2>6, <4>2, <4>3
    <3> QED  BY <3>1, <3>2
  <2>8. u \in Nat
    <3> HIDE DEF u, x, q
    <3> QED  BY <2>2, <2>5, <2>6
  <2>9. u = cost[Chain[n + 1 - k]] /\ u \in Nat  BY <2>7, <2>8
  <2> HIDE DEF u, base, cost, N, x, q
  <2>10. u \in I[k]  BY <2>1, <2>9
  <2> QED  BY <2>10 DEF u
<1>4. Rounds(step, I, N)
  <2> HIDE DEF I, Op, N
  <2> QED  BY <1>3 DEF Rounds
<1>5. PICK g : LoopRun(g, N, base, step, I)
  <2> HIDE DEF I, step, N, base, Op
  <2> QED  BY <1>1, <1>2, <1>4, LoopInvariant
<1>6. Eq(g)
  <2> HIDE DEF I, N, base, Op
  <2>1. /\ g = [k \in 0..N |-> g[k]] /\ g[0] = base /\ \A k \in 0..N : g[k] \in I[k]
        /\ \A k \in 1..N : g[k] = step[k][g[k - 1]]
    <3> HIDE DEF step
    <3> QED  BY <1>5 DEF LoopRun
  <2>2. ASSUME NEW k \in 1..N PROVE g[k] = Op(g[k - 1], k)
    <3>1. k - 1 \in 0..N  BY <1>1
    <3>2. g[k - 1] \in I[k - 1]  BY <2>1, <3>1
    <3> QED  BY <2>1, <3>2
  <2> DEFINE h == [k \in 0..N |-> IF k = 0 THEN base ELSE Op(g[k - 1], k)]
  <2> HIDE DEF step
  <2>3. ASSUME NEW k \in 0..N PROVE g[k] = h[k]
    <3>1. CASE k = 0  BY <2>1, <3>1
    <3>2. CASE k # 0
      <4>1. k \in 1..N  BY <1>1, <3>2
      <4> QED  BY <2>2, <3>2, <4>1
    <3> QED  BY <3>1, <3>2
  <2>4. [k \in 0..N |-> g[k]] = h  BY <2>3
  <2> QED  BY <2>1, <2>4
<1>7. Eq(loop)
  <2> HIDE DEF Eq
  <2> QED  BY <1>6
<1> HIDE DEF loop
<1>8. loop[0] = base /\ \A k \in 1..N : loop[k] = Op(loop[k - 1], k)
  <2> HIDE DEF N, base, Op
  <2> QED  BY <1>1, <1>7
<1>9. \A k \in 1..N : loop[k - 1] \in I[k - 1] => loop[k] \in I[k]
  <2> HIDE DEF I, N, Op, Eq, step, base
  <2> QED  BY <1>3, <1>8
<1>10. loop[N] \in I[N]
  <2> HIDE DEF Op, Eq, step
  <2>1. loop[0] \in I[0]  BY <1>2, <1>8
  <2> HIDE DEF I, N, base
  <2> QED  BY <1>1, <1>9, <2>1, LoopEnd
<1>11. ChainCost = loop[N]  BY DEF ChainCost, loop, n
<1> HIDE DEF loop
<1>12. loop[N] = cost[Chain[n + 1 - n]]
  <2>1. N \in 0..N /\ N # 0 /\ N = n  BY <1>24
  <2> HIDE DEF N, base, cost
  <2>2. loop[N] = cost[Chain[n + 1 - N]]  BY <1>10, <2>1
  <2> QED  BY <2>1, <2>2
<1>13. n + 1 - n = 1 /\ 1 \in 1..n  BY <1>24
<1> QED  BY <1>11, <1>12, <1>13, <1>20, <1>24, <1>25

\* Whatever DAOs, No-Paths, errors and changes of links do, the route that is kept
\* for the next packet is a path of the database as it is; and where the transits
\* form no loop and no sum of costs wraps none is cheaper now, unless a link has
\* changed without a report since the paths were computed.
THEOREM RoutesAreCurrent == Spec => [](CostsFit => RouteCurrent)
<1>1. ASSUME IInv, CostsFit, sr.target # Root, ~paths.quiet, \A x \in Known : ~Loop(x)
      PROVE  ChainCost = BestCost[sr.target]
  <2>1. ChainCost = paths.cost[sr.target] /\ sr.target \in Known /\ paths.valid  BY <1>1, ChainCostFacts
  <2>2. \A x \in Known : paths.cost[x] = BestCost[x]  BY <1>1, <2>1, SettledFacts, BestCostFacts
  <2> QED  BY <2>1, <2>2
<1>2. IInv => (CostsFit => RouteCurrent)  BY <1>1, KeptPath DEF RouteCurrent
<1> QED  BY <1>2, Invariance, PTL
=============================================================================
