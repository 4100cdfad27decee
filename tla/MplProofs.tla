------------------------------ MODULE MplProofs ------------------------------
(***************************************************************************)
(* Proofs about the MPL seed set, for any number of seeds, any width of the *)
(* sequence numbers, any buffer size and any Trickle parameters: messages   *)
(* are held in order (Ordered), one is taken at most once (AtMostOnce), the *)
(* buffer total is right and within its limit (Accounted), and the fast     *)
(* timer is armed while it is needed (TimerArmed).                          *)
(*                                                                         *)
(* The proofs go call by call.  A handler threads the seeds and the total   *)
(* through its calls (st in Mpl), and Good says what such a record is       *)
(* between them.                                                            *)
(***************************************************************************)
EXTENDS Mpl, NatInductionLemmas, FiniteSetTheorems, SequenceTheorems

-----------------------------------------------------------------------------
(***************************************************************************)
(* Sequence numbers.  What is about spans less than half of them, so that   *)
(* serial_number_cmp8() orders it.                                          *)
(***************************************************************************)
Windows == {SeqNo(n) : n \in 1..(MaxSent + 1)}
Numbers == {SeqNo(n) : n \in 1..MaxSent}

LEMMA HalfFacts ==
    /\ Mod \in Nat /\ Mod > 0 /\ Half \in Nat /\ Mod = 2 * Half
    /\ MaxSent \in Nat /\ MaxSent >= 1 /\ MaxSent + 1 <= Half /\ First \in 0..(Mod - 1)
  BY MplAssumption DEF Half

LEMMA ModOnce ==
    ASSUME NEW x \in 0..(2 * Mod - 1)
    PROVE  x % Mod = IF x < Mod THEN x ELSE x - Mod
<1>1. CASE x < Mod  BY <1>1, HalfFacts
<1>2. CASE x >= Mod  BY <1>2, HalfFacts
<1> QED  BY <1>1, <1>2, HalfFacts

\* The number of message n, without the remainder.
Wrapped(n) == IF First + n < Mod THEN First + n ELSE First + n - Mod

LEMMA SeqNoWrapped ==
    \A n \in 1..(MaxSent + 1) : SeqNo(n) = Wrapped(n) /\ Wrapped(n) \in Seqs
<1> SUFFICES ASSUME NEW n \in 1..(MaxSent + 1)
             PROVE  SeqNo(n) = Wrapped(n) /\ Wrapped(n) \in Seqs
  OBVIOUS
<1> DEFINE x == First + n
<1>1. x \in 0..(2 * Mod - 1)  BY HalfFacts
<1>2. x % Mod = IF x < Mod THEN x ELSE x - Mod
  <2> HIDE DEF x
  <2> QED  BY <1>1, ModOnce
<1>3. SeqNo(n) = Wrapped(n)  BY <1>2, HalfFacts DEF SeqNo, Wrapped
<1> QED  BY <1>1, <1>3, HalfFacts DEF Wrapped, Seqs

LEMMA AfterIsGreater ==
    \A a, b \in 1..(MaxSent + 1) : /\ After(SeqNo(a), SeqNo(b)) <=> a > b
                                   /\ SeqNo(a) = SeqNo(b) <=> a = b
<1> SUFFICES ASSUME NEW a \in 1..(MaxSent + 1), NEW b \in 1..(MaxSent + 1)
             PROVE  /\ After(SeqNo(a), SeqNo(b)) <=> a > b
                    /\ SeqNo(a) = SeqNo(b) <=> a = b
  OBVIOUS
<1>1. SeqNo(a) = Wrapped(a) /\ SeqNo(b) = Wrapped(b)  BY SeqNoWrapped
<1>2. After(Wrapped(a), Wrapped(b)) <=> a > b  BY HalfFacts DEF After, Wrapped
<1>3. Wrapped(a) = Wrapped(b) <=> a = b  BY HalfFacts DEF Wrapped
<1> QED  BY <1>1, <1>2, <1>3

LEMMA NextSeqNo == \A n \in 1..MaxSent : NextSeq(SeqNo(n)) = SeqNo(n + 1)
<1> SUFFICES ASSUME NEW n \in 1..MaxSent PROVE NextSeq(SeqNo(n)) = SeqNo(n + 1)
  OBVIOUS
<1>1. n \in 1..(MaxSent + 1) /\ n + 1 \in 1..(MaxSent + 1)  BY HalfFacts
<1>2. SeqNo(n) = Wrapped(n) /\ SeqNo(n + 1) = Wrapped(n + 1) /\ Wrapped(n) \in Seqs
  BY <1>1, SeqNoWrapped
<1> DEFINE x == Wrapped(n) + 1
<1>3. x \in 0..(2 * Mod - 1)  BY <1>2, HalfFacts DEF Seqs
<1>4. x % Mod = IF x < Mod THEN x ELSE x - Mod
  <2> HIDE DEF x
  <2> QED  BY <1>3, ModOnce
<1>5. x % Mod = Wrapped(n + 1)  BY <1>4, HalfFacts DEF Wrapped
<1> QED  BY <1>2, <1>5, HalfFacts DEF NextSeq, Seqs

\* After is a strict order of the numbers that are about.
LEMMA SeqOrder ==
    /\ Numbers \subseteq Windows /\ Windows \subseteq Seqs
    /\ \A a, b \in Windows : /\ ~(After(a, b) /\ After(b, a))
                             /\ a # b <=> After(a, b) \/ After(b, a)
    /\ \A a, b, c \in Windows : After(a, b) /\ After(b, c) => After(a, c)
    /\ \A q \in Numbers : /\ NextSeq(q) \in Windows
                          /\ \A x \in Windows : After(NextSeq(q), x) <=> x = q \/ After(q, x)
<1>1. Numbers \subseteq Windows  BY HalfFacts DEF Numbers, Windows
<1>2. Windows \subseteq Seqs  BY SeqNoWrapped DEF Windows
<1>3. ASSUME NEW a \in Windows, NEW b \in Windows
      PROVE  /\ ~(After(a, b) /\ After(b, a))
             /\ a # b <=> After(a, b) \/ After(b, a)
             /\ \A c \in Windows : After(a, b) /\ After(b, c) => After(a, c)
  <2>1. PICK i \in 1..(MaxSent + 1) : a = SeqNo(i)  BY DEF Windows
  <2>2. PICK j \in 1..(MaxSent + 1) : b = SeqNo(j)  BY DEF Windows
  <2>3. /\ After(a, b) <=> i > j
        /\ After(b, a) <=> j > i
        /\ a = b <=> i = j
    BY <2>1, <2>2, AfterIsGreater
  <2>4. ASSUME NEW c \in Windows, After(a, b), After(b, c) PROVE After(a, c)
    <3>1. PICK k \in 1..(MaxSent + 1) : c = SeqNo(k)  BY DEF Windows
    <3>2. (After(b, c) <=> j > k) /\ (After(a, c) <=> i > k)
      BY <2>1, <2>2, <3>1, AfterIsGreater
    <3> QED  BY <2>3, <2>4, <3>2, HalfFacts
  <2> QED  BY <2>3, <2>4, HalfFacts
<1>4. ASSUME NEW q \in Numbers
      PROVE  /\ NextSeq(q) \in Windows
             /\ \A x \in Windows : After(NextSeq(q), x) <=> x = q \/ After(q, x)
  <2>1. PICK n \in 1..MaxSent : q = SeqNo(n)  BY DEF Numbers
  <2>2. NextSeq(q) = SeqNo(n + 1)  BY <2>1, NextSeqNo
  <2>3. n + 1 \in 1..(MaxSent + 1) /\ n \in 1..(MaxSent + 1)  BY HalfFacts
  <2>4. NextSeq(q) \in Windows  BY <2>2, <2>3 DEF Windows
  <2>5. ASSUME NEW x \in Windows PROVE After(NextSeq(q), x) <=> x = q \/ After(q, x)
    <3>1. PICK k \in 1..(MaxSent + 1) : x = SeqNo(k)  BY DEF Windows
    <3>2. /\ After(NextSeq(q), x) <=> n + 1 > k
          /\ After(q, x) <=> n > k
          /\ x = q <=> k = n
      BY <2>1, <2>2, <2>3, <3>1, AfterIsGreater
    <3> QED  BY <3>2, HalfFacts
  <2> QED  BY <2>4, <2>5
<1> QED  BY <1>1, <1>2, <1>3, <1>4

-----------------------------------------------------------------------------
(***************************************************************************)
(* Lists.                                                                   *)
(***************************************************************************)
LEMMA RangeIs ==
    ASSUME NEW S, NEW q \in Seq(S)
    PROVE  /\ DOMAIN q = 1..Len(q) /\ Len(q) \in Nat /\ \A i \in 1..Len(q) : q[i] \in S
           /\ Range(q) = {q[i] : i \in 1..Len(q)}
  BY DEF Range

\* A part of a list.
LEMMA PartFacts ==
    ASSUME NEW S, NEW q \in Seq(S), NEW lo \in 1..(Len(q) + 1), NEW hi \in 0..Len(q), lo <= hi + 1
    PROVE  /\ SubSeq(q, lo, hi) \in Seq(S) /\ Len(SubSeq(q, lo, hi)) = hi + 1 - lo
           /\ \A j \in 1..(hi + 1 - lo) : SubSeq(q, lo, hi)[j] = q[lo + j - 1]
<1>1. \A i \in lo..hi : q[i] \in S  OBVIOUS
<1>2. lo \in Int /\ hi \in Int  OBVIOUS
<1>3. /\ SubSeq(q, lo, hi) \in Seq(S)
      /\ Len(SubSeq(q, lo, hi)) = IF lo <= hi THEN hi - lo + 1 ELSE 0
      /\ \A j \in 1..(hi - lo + 1) : SubSeq(q, lo, hi)[j] = q[lo + j - 1]
  BY <1>1, <1>2, SubSeqProperties
<1>4. hi - lo + 1 = hi + 1 - lo /\ (lo > hi => hi + 1 - lo = 0)  OBVIOUS
<1> QED  BY <1>2, <1>3, <1>4

LEMMA RemoveAtFacts ==
    ASSUME NEW S, NEW q \in Seq(S), NEW i \in 1..Len(q)
    PROVE  /\ RemoveAt(q, i) \in Seq(S) /\ Len(RemoveAt(q, i)) = Len(q) - 1
           /\ \A j \in 1..(Len(q) - 1) : RemoveAt(q, i)[j] = IF j < i THEN q[j] ELSE q[j + 1]
<1> DEFINE n == Len(q)
           a == SubSeq(q, 1, i - 1)
           b == SubSeq(q, i + 1, n)
<1>1. n \in Nat /\ i \in 1..n  OBVIOUS
<1>2. /\ 1 \in 1..(n + 1) /\ i - 1 \in 0..n /\ 1 <= (i - 1) + 1 /\ i - 1 + 1 - 1 = i - 1
      /\ i + 1 \in 1..(n + 1) /\ n \in 0..n /\ i + 1 <= n + 1 /\ n + 1 - (i + 1) = n - i
  BY <1>1
<1>3. a \in Seq(S) /\ Len(a) = i - 1 /\ \A j \in 1..(i - 1) : a[j] = q[1 + j - 1]
  BY <1>2, PartFacts
<1>4. b \in Seq(S) /\ Len(b) = n - i /\ \A j \in 1..(n - i) : b[j] = q[i + 1 + j - 1]
  BY <1>2, PartFacts
<1>5. RemoveAt(q, i) = a \o b  BY DEF RemoveAt
<1> HIDE DEF a, b, n
<1>6. /\ a \o b \in Seq(S) /\ Len(a \o b) = Len(a) + Len(b)
      /\ \A j \in 1..(Len(a) + Len(b)) : (a \o b)[j] = IF j <= Len(a) THEN a[j] ELSE b[j - Len(a)]
  BY <1>3, <1>4, ConcatProperties
<1> DEFINE c == a \o b
<1>7. Len(a) + Len(b) = n - 1  BY <1>1, <1>3, <1>4
<1>8. \A j \in 1..(n - 1) : c[j] = IF j <= i - 1 THEN a[j] ELSE b[j - (i - 1)]
  BY <1>3, <1>6, <1>7
<1> HIDE DEF c
<1>9. ASSUME NEW j \in 1..(n - 1)
      PROVE  c[j] = IF j < i THEN q[j] ELSE q[j + 1]
  <2>1. CASE j < i
    <3>1. c[j] = a[j] /\ j \in 1..(i - 1) /\ 1 + j - 1 = j  BY <1>1, <1>8, <2>1
    <3> QED  BY <1>3, <2>1, <3>1
  <2>2. CASE j >= i
    <3> DEFINE k == j - (i - 1)
    <3>1. c[j] = b[k] /\ k \in 1..(n - i) /\ i + 1 + k - 1 = j + 1 /\ ~(j < i)
      BY <1>1, <1>8, <2>2
    <3> HIDE DEF k
    <3> QED  BY <1>4, <3>1
  <2> QED  BY <1>1, <2>1, <2>2
<1> QED  BY <1>5, <1>6, <1>7, <1>9 DEF c, n

LEMMA InsertAtFacts ==
    ASSUME NEW S, NEW q \in Seq(S), NEW i \in 1..(Len(q) + 1), NEW m \in S
    PROVE  /\ InsertAt(q, i, m) \in Seq(S) /\ Len(InsertAt(q, i, m)) = Len(q) + 1
           /\ \A j \in 1..(Len(q) + 1) :
                 InsertAt(q, i, m)[j] = IF j < i THEN q[j] ELSE IF j = i THEN m ELSE q[j - 1]
<1> DEFINE n == Len(q)
           a == SubSeq(q, 1, i - 1)
           c == <<m>>
           b == SubSeq(q, i, n)
           d == a \o c
<1>1. n \in Nat /\ i \in 1..(n + 1)  OBVIOUS
<1>2. /\ 1 \in 1..(n + 1) /\ i - 1 \in 0..n /\ 1 <= (i - 1) + 1 /\ i - 1 + 1 - 1 = i - 1
      /\ n \in 0..n /\ i <= n + 1
  BY <1>1
<1>3. a \in Seq(S) /\ Len(a) = i - 1 /\ \A j \in 1..(i - 1) : a[j] = q[1 + j - 1]
  BY <1>2, PartFacts
<1>4. b \in Seq(S) /\ Len(b) = n + 1 - i /\ \A j \in 1..(n + 1 - i) : b[j] = q[i + j - 1]
  BY <1>1, <1>2, PartFacts
<1>5. c \in Seq(S) /\ Len(c) = 1 /\ c[1] = m  OBVIOUS
<1>6. InsertAt(q, i, m) = d \o b  BY DEF InsertAt
<1> HIDE DEF a, b, c, n
<1>7. /\ d \in Seq(S) /\ Len(d) = Len(a) + Len(c)
      /\ \A j \in 1..(Len(a) + Len(c)) : d[j] = IF j <= Len(a) THEN a[j] ELSE c[j - Len(a)]
  BY <1>3, <1>5, ConcatProperties
<1>8. Len(d) = i /\ \A j \in 1..i : d[j] = IF j <= i - 1 THEN a[j] ELSE c[j - (i - 1)]
  <2>1. Len(a) + Len(c) = i  BY <1>1, <1>3, <1>5
  <2> HIDE DEF d
  <2> QED  BY <1>3, <1>7, <2>1
<1> HIDE DEF d
<1> DEFINE e == d \o b
<1>9. /\ e \in Seq(S) /\ Len(e) = Len(d) + Len(b)
      /\ \A j \in 1..(Len(d) + Len(b)) : e[j] = IF j <= Len(d) THEN d[j] ELSE b[j - Len(d)]
  <2>1. d \in Seq(S) /\ b \in Seq(S)  BY <1>4, <1>7
  <2> QED  BY <2>1, ConcatProperties
<1>10. Len(e) = n + 1 /\ \A j \in 1..(n + 1) : e[j] = IF j <= i THEN d[j] ELSE b[j - i]
  BY <1>1, <1>4, <1>8, <1>9
<1> HIDE DEF e
<1>11. ASSUME NEW j \in 1..(n + 1)
       PROVE  e[j] = IF j < i THEN q[j] ELSE IF j = i THEN m ELSE q[j - 1]
  <2>1. CASE j < i
    <3>1. e[j] = a[j] /\ j \in 1..(i - 1) /\ 1 + j - 1 = j  BY <1>1, <1>8, <1>10, <2>1
    <3> QED  BY <1>3, <2>1, <3>1
  <2>2. CASE j = i
    <3>1. e[j] = d[i] /\ i \in 1..i /\ ~(i <= i - 1) /\ i - (i - 1) = 1  BY <1>1, <1>10, <2>2
    <3>2. d[i] = c[1]  BY <1>8, <3>1
    <3> QED  BY <1>1, <1>5, <2>2, <3>1, <3>2
  <2>3. CASE j > i
    <3> DEFINE k == j - i
    <3>1. e[j] = b[k] /\ k \in 1..(n + 1 - i) /\ i + k - 1 = j - 1 /\ ~(j < i) /\ j # i
      BY <1>1, <1>10, <2>3
    <3> HIDE DEF k
    <3> QED  BY <1>4, <3>1
  <2> QED  BY <1>1, <2>1, <2>2, <2>3
<1> QED  BY <1>6, <1>9, <1>10, <1>11 DEF n, e

-----------------------------------------------------------------------------
(***************************************************************************)
(* What is held.                                                            *)
(***************************************************************************)
\* An entry, but for the messages' place in the window.
Listed(e) ==
    /\ e \in Entry
    /\ ~e.alive => e = NoSeed
    /\ e.alive => e.min \in Windows
    /\ \A i \in 1..Len(e.msgs) : e.msgs[i].seq \in Numbers
    /\ \A i, j \in 1..Len(e.msgs) : j < i => After(e.msgs[i].seq, e.msgs[j].seq)
Windowed(e) == \A i \in 1..Len(e.msgs) : ~After(e.min, e.msgs[i].seq)

States == [seed : [Seeds -> Entry], total : Int]
Sound(st) ==
    /\ st \in States
    /\ \A s \in Seeds : Listed(st.seed[s])
    /\ st.total = Cardinality(Bytes(st.seed))
Good(st) == Sound(st) /\ \A s \in Seeds : Windowed(st.seed[s])

LEMMA BytesFinite == \A f : IsFiniteSet(Bytes(f)) /\ Cardinality(Bytes(f)) \in Nat
<1> SUFFICES ASSUME NEW f PROVE IsFiniteSet(Bytes(f)) /\ Cardinality(Bytes(f)) \in Nat
  OBVIOUS
<1> DEFINE P == Seeds \X Seqs
           U == 1..MaxBuffered
           All == Seeds \X Seqs \X U
           g == [b \in P \X U |-> <<b[1][1], b[1][2], b[2]>>]
<1>1. IsFiniteSet(Seeds) /\ IsFiniteSet(Seqs) /\ IsFiniteSet(U)
  <2>1. 0 \in Int /\ Mod - 1 \in Int /\ 1 \in Int /\ MaxBuffered \in Int  BY MplAssumption
  <2> QED  BY <2>1, FS_Interval, MplAssumption DEF Seqs
<1>2. IsFiniteSet(P \X U)
  <2>1. IsFiniteSet(P)  BY <1>1, FS_Product
  <2> HIDE DEF P, U
  <2> QED  BY <1>1, <2>1, FS_Product DEF U
<1>3. g \in Surjection(P \X U, All)
  <2>1. g \in [P \X U -> All]  OBVIOUS
  <2>2. ASSUME NEW t \in All PROVE \E b \in P \X U : g[b] = t
    <3>1. <<<<t[1], t[2]>>, t[3]>> \in P \X U  OBVIOUS
    <3>2. g[<<<<t[1], t[2]>>, t[3]>>] = t  BY <3>1
    <3> QED  BY <3>1, <3>2
  <2> QED  BY <2>1, <2>2 DEF Surjection
<1>4. IsFiniteSet(All)
  <2> HIDE DEF P, U, All, g
  <2> QED  BY <1>2, <1>3, FS_Surjection
<1>5. Bytes(f) \in SUBSET All  BY DEF Bytes
<1>6. IsFiniteSet(Bytes(f))
  <2> HIDE DEF All
  <2> QED  BY <1>4, <1>5, FS_Subset
<1> QED  BY <1>6, FS_CardinalityType

\* The bytes of one message.
BytesOf(s, m) == {<<s, m.seq, u>> : u \in 1..m.len}

LEMMA BytesOfSize ==
    ASSUME NEW s, NEW m \in Message
    PROVE  IsFiniteSet(BytesOf(s, m)) /\ Cardinality(BytesOf(s, m)) = m.len
<1> DEFINE U == 1..m.len
           B == BytesOf(s, m)
           g == [u \in U |-> <<s, m.seq, u>>]
<1>1. m.len \in Nat /\ m.len >= 1  BY MplAssumption DEF Message
<1>2. IsFiniteSet(U) /\ Cardinality(U) = m.len
  <2>1. 1 \in Int /\ m.len \in Int  BY <1>1
  <2>2. IsFiniteSet(U) /\ Cardinality(U) = IF 1 > m.len THEN 0 ELSE m.len - 1 + 1
    BY <2>1, FS_Interval
  <2> QED  BY <1>1, <2>2
<1>3. g \in Bijection(U, B)
  <2>1. g \in [U -> B] /\ \A t \in B : \E u \in U : g[u] = t  BY DEF BytesOf
  <2>2. IsInjective(g)
    <3>1. \A u, v \in U : g[u] = g[v] => u = v  OBVIOUS
    <3> QED  BY <3>1 DEF IsInjective
  <2> QED  BY <2>1, <2>2 DEF Bijection, Injection, Surjection
<1>4. ExistsBijection(U, B)  BY <1>3 DEF ExistsBijection
<1> HIDE DEF U, B
<1>5. IsFiniteSet(B) /\ Cardinality(B) = Cardinality(U)  BY <1>2, <1>4, FS_Bijection
<1> QED  BY <1>2, <1>5 DEF B

\* f holds message m of seed s more than g.
OneMore(f, g, s, m) ==
    /\ \A x \in Seeds \ {s} : f[x].msgs = g[x].msgs
    /\ Range(f[s].msgs) = Range(g[s].msgs) \cup {m}
    /\ \A o \in Range(g[s].msgs) : o.seq # m.seq

LEMMA BytesOneMore ==
    ASSUME NEW f, NEW g, NEW s \in Seeds, NEW m \in Message, OneMore(f, g, s, m)
    PROVE  Cardinality(Bytes(f)) = Cardinality(Bytes(g)) + m.len
<1> DEFINE B == BytesOf(s, m)
<1>1. m.seq \in Seqs /\ m.len \in 1..MaxBuffered /\ MaxBuffered \in Nat  BY MplAssumption DEF Message
<1>2. B \subseteq Seeds \X Seqs \X (1..MaxBuffered)  BY <1>1 DEF BytesOf
<1>3. ASSUME NEW b \in Seeds \X Seqs \X (1..MaxBuffered)
      PROVE  b \in B <=> b[1] = s /\ b[2] = m.seq /\ b[3] <= m.len
  BY <1>1 DEF BytesOf
<1>4. ASSUME NEW b \in Seeds \X Seqs \X (1..MaxBuffered)
      PROVE  /\ b \in Bytes(f) <=> b \in Bytes(g) \/ b \in B
             /\ ~(b \in Bytes(g) /\ b \in B)
  <2> HIDE DEF B
  <2>0. b[1] \in Seeds  OBVIOUS
  <2>1. b \in Bytes(f) <=> \E o \in Range(f[b[1]].msgs) : o.seq = b[2] /\ b[3] <= o.len  BY DEF Bytes
  <2>2. b \in Bytes(g) <=> \E o \in Range(g[b[1]].msgs) : o.seq = b[2] /\ b[3] <= o.len  BY DEF Bytes
  <2>3. CASE b[1] # s  BY <1>3, <2>0, <2>1, <2>2, <2>3 DEF OneMore
  <2>4. CASE b[1] = s  BY <1>3, <2>1, <2>2, <2>4 DEF OneMore
  <2> QED  BY <2>3, <2>4
<1>5. Bytes(f) = Bytes(g) \cup B /\ Bytes(g) \cap B = {}
  <2>1. /\ Bytes(f) \subseteq Seeds \X Seqs \X (1..MaxBuffered)
        /\ Bytes(g) \subseteq Seeds \X Seqs \X (1..MaxBuffered)
    BY DEF Bytes
  <2> HIDE DEF B
  <2> QED  BY <1>2, <1>4, <2>1
<1>6. IsFiniteSet(B) /\ Cardinality(B) = m.len  BY BytesOfSize
<1> HIDE DEF B
<1>7. Cardinality(Bytes(g) \cup B) = Cardinality(Bytes(g)) + Cardinality(B) - Cardinality(Bytes(g) \cap B)
  BY <1>6, BytesFinite, FS_Union
<1>8. Cardinality(Bytes(g) \cap B) = 0  BY <1>5, FS_EmptySet
<1> QED  BY <1>1, <1>5, <1>6, <1>7, <1>8, BytesFinite

\* Lists that differ only in ages and Trickle timers.
Alike(p, q) ==
    /\ Len(p) = Len(q)
    /\ \A i \in 1..Len(p) : p[i].seq = q[i].seq /\ p[i].len = q[i].len

LEMMA BytesAlike ==
    ASSUME NEW f, NEW g,
           \A s \in Seeds : /\ f[s].msgs \in Seq(Message) /\ g[s].msgs \in Seq(Message)
                            /\ Alike(f[s].msgs, g[s].msgs)
    PROVE  Bytes(f) = Bytes(g)
<1>1. ASSUME NEW b \in Seeds \X Seqs \X (1..MaxBuffered) PROVE b \in Bytes(f) <=> b \in Bytes(g)
  <2> DEFINE p == f[b[1]].msgs
             q == g[b[1]].msgs
  <2>1. p \in Seq(Message) /\ q \in Seq(Message) /\ Alike(p, q)  OBVIOUS
  <2>2. Range(p) = {p[i] : i \in 1..Len(p)} /\ Range(q) = {q[i] : i \in 1..Len(q)}
    <3> HIDE DEF p, q
    <3> QED  BY <2>1, RangeIs
  <2>3. b \in Bytes(f) <=> \E o \in Range(p) : o.seq = b[2] /\ b[3] <= o.len  BY DEF Bytes
  <2>4. b \in Bytes(g) <=> \E o \in Range(q) : o.seq = b[2] /\ b[3] <= o.len  BY DEF Bytes
  <2> HIDE DEF p, q
  <2>5. b \in Bytes(f) <=> \E i \in 1..Len(p) : p[i].seq = b[2] /\ b[3] <= p[i].len  BY <2>2, <2>3
  <2>6. b \in Bytes(g) <=> \E i \in 1..Len(q) : q[i].seq = b[2] /\ b[3] <= q[i].len  BY <2>2, <2>4
  <2>7. Len(p) = Len(q) /\ \A i \in 1..Len(p) : p[i].seq = q[i].seq /\ p[i].len = q[i].len
    BY <2>1 DEF Alike
  <2> QED  BY <2>5, <2>6, <2>7
<1> QED  BY <1>1 DEF Bytes

-----------------------------------------------------------------------------
(***************************************************************************)
(* Deleting messages.                                                       *)
(***************************************************************************)
LEMMA EntryFields ==
    ASSUME NEW e \in Entry
    PROVE  /\ e.alive \in BOOLEAN /\ e.life \in 0..Lifetime /\ e.min \in Seqs /\ e.msgs \in Seq(Message)
           /\ \A l \in Seq(Message) :
                 /\ [e EXCEPT !.msgs = l] \in Entry /\ [e EXCEPT !.msgs = l].msgs = l
                 /\ [e EXCEPT !.msgs = l].alive = e.alive /\ [e EXCEPT !.msgs = l].min = e.min
                 /\ [e EXCEPT !.msgs = l].life = e.life
  BY DEF Entry

LEMMA StateFields ==
    ASSUME NEW st \in States
    PROVE  /\ st.seed \in [Seeds -> Entry] /\ st.total \in Int
           /\ st = [seed |-> st.seed, total |-> st.total]
           /\ \A s \in Seeds : st.seed[s] \in Entry /\ st.seed[s].msgs \in Seq(Message)
<1>1. st.seed \in [Seeds -> Entry] /\ st.total \in Int /\ st = [seed |-> st.seed, total |-> st.total]
  BY DEF States
<1> QED  BY <1>1, EntryFields

LEMMA MessageFields ==
    \A m \in Message : /\ m.seq \in Seqs /\ m.len \in 1..MaxBuffered /\ m.len \in Nat /\ m.len > 0
                       /\ m.age \in 0..AgeLimit /\ m.tr \in T!Timers(Data)
  BY MplAssumption DEF Message

\* Seed s gets another list, and there is another total.
Relist(st, s, l, k) == [st EXCEPT !.seed[s].msgs = l, !.total = k]

LEMMA RelistFacts ==
    ASSUME NEW st \in States, NEW s \in Seeds, NEW l \in Seq(Message), NEW k \in Int
    PROVE  /\ Relist(st, s, l, k) \in States /\ Relist(st, s, l, k).total = k
           /\ Relist(st, s, l, k).seed[s] = [st.seed[s] EXCEPT !.msgs = l]
           /\ \A x \in Seeds \ {s} : Relist(st, s, l, k).seed[x] = st.seed[x]
<1> DEFINE e == [st.seed[s] EXCEPT !.msgs = l]
           f == [st.seed EXCEPT ![s] = e]
           t == [st EXCEPT !.seed = f, !.total = k]
<1>1. st.seed \in [Seeds -> Entry] /\ st.total \in Int  BY StateFields
<1>2. e \in Entry  BY <1>1, EntryFields
<1>3. f \in [Seeds -> Entry] /\ f[s] = e /\ \A x \in Seeds \ {s} : f[x] = st.seed[x]
  <2> HIDE DEF e
  <2> QED  BY <1>1, <1>2
<1> HIDE DEF f
<1>4. t \in States /\ t.seed = f /\ t.total = k  BY <1>1, <1>3 DEF States
<1>5. t = Relist(st, s, l, k)  BY DEF f, e, Relist
<1> HIDE DEF t
<1> QED  BY <1>3, <1>4, <1>5

LEMMA DistinctSeqs ==
    ASSUME NEW e, Listed(e), NEW i \in 1..Len(e.msgs), NEW j \in 1..Len(e.msgs), i # j
    PROVE  e.msgs[i].seq # e.msgs[j].seq
<1>1. e.msgs \in Seq(Message)  BY EntryFields DEF Listed
<1>2. i < j \/ j < i  BY <1>1
<1>3. e.msgs[i].seq \in Windows /\ e.msgs[j].seq \in Windows  BY SeqOrder DEF Listed
<1>4. After(e.msgs[i].seq, e.msgs[j].seq) \/ After(e.msgs[j].seq, e.msgs[i].seq)
  BY <1>2 DEF Listed
<1> QED  BY <1>3, <1>4, SeqOrder

\* A list without the message at place i.
LEMMA RemovedListed ==
    ASSUME NEW e, Listed(e), NEW i \in 1..Len(e.msgs)
    PROVE  LET l == RemoveAt(e.msgs, i)
           IN  /\ l \in Seq(Message) /\ Len(l) = Len(e.msgs) - 1
               /\ \A j \in 1..(i - 1) : l[j] = e.msgs[j]
               /\ Listed([e EXCEPT !.msgs = l])
               /\ Range(l) = {e.msgs[j] : j \in (1..Len(e.msgs)) \ {i}}
<1> DEFINE q == e.msgs
           n == Len(q)
           l == RemoveAt(q, i)
           d == [e EXCEPT !.msgs = l]
<1>1. e \in Entry /\ q \in Seq(Message) /\ n \in Nat /\ i \in 1..n  BY EntryFields DEF Listed
<1>2. /\ l \in Seq(Message) /\ Len(l) = n - 1
      /\ \A j \in 1..(n - 1) : l[j] = IF j < i THEN q[j] ELSE q[j + 1]
  <2> HIDE DEF q
  <2> QED  BY <1>1, RemoveAtFacts
<1>3. /\ \A j \in 1..n : q[j].seq \in Numbers
      /\ \A j, k \in 1..n : k < j => After(q[j].seq, q[k].seq)
  BY DEF Listed
<1>4. d \in Entry /\ d.msgs = l /\ d.alive = e.alive /\ d.min = e.min
  BY <1>1, <1>2, EntryFields
<1>5. e.alive
  <2>1. e # NoSeed  BY <1>1 DEF NoSeed
  <2> QED  BY <2>1 DEF Listed
<1> HIDE DEF q, n, l, d
<1>6. ASSUME NEW j \in 1..(n - 1) PROVE \E k \in 1..n : l[j] = q[k] /\ k # i
  <2>1. CASE j < i  BY <1>1, <1>2, <2>1
  <2>2. CASE j >= i
    <3>1. j + 1 \in 1..n /\ j + 1 # i /\ l[j] = q[j + 1]  BY <1>1, <1>2, <2>2
    <3> QED  BY <3>1
  <2> QED  BY <1>1, <2>1, <2>2
<1>7. ASSUME NEW j \in 1..(n - 1), NEW k \in 1..(n - 1), k < j PROVE After(l[j].seq, l[k].seq)
  <2> DEFINE a == IF j < i THEN j ELSE j + 1
             b == IF k < i THEN k ELSE k + 1
  <2>1. a \in 1..n /\ b \in 1..n /\ b < a /\ l[j] = q[a] /\ l[k] = q[b]  BY <1>1, <1>2, <1>7
  <2> HIDE DEF a, b
  <2> QED  BY <1>3, <2>1
<1>8. Listed(d)
  <2>1. d.alive /\ d.min \in Windows  BY <1>4, <1>5 DEF Listed
  <2>2. \A j \in 1..Len(d.msgs) : d.msgs[j].seq \in Numbers  BY <1>2, <1>3, <1>4, <1>6
  <2> QED  BY <1>2, <1>4, <1>7, <2>1, <2>2 DEF Listed
<1>9. Range(l) = {q[j] : j \in (1..n) \ {i}}
  <2>1. Range(l) = {l[j] : j \in 1..(n - 1)}  BY <1>2, RangeIs
  <2>2. ASSUME NEW k \in (1..n) \ {i} PROVE \E j \in 1..(n - 1) : q[k] = l[j]
    <3>1. CASE k < i  BY <1>1, <1>2, <3>1
    <3>2. CASE k > i
      <4>1. k - 1 \in 1..(n - 1) /\ ~(k - 1 < i) /\ (k - 1) + 1 = k  BY <1>1, <3>2
      <4> QED  BY <1>2, <4>1
    <3> QED  BY <1>1, <3>1, <3>2
  <2> QED  BY <1>6, <2>1, <2>2
<1>10. \A j \in 1..(i - 1) : l[j] = q[j]  BY <1>1, <1>2
<1> QED  BY <1>2, <1>8, <1>9, <1>10 DEF q, n, l, d

\* t is st but for the list of seed s.
OnlyList(st, t, s) ==
    /\ \A x \in Seeds \ {s} : t.seed[x] = st.seed[x]
    /\ t.seed[s] = [st.seed[s] EXCEPT !.msgs = t.seed[s].msgs]

LEMMA DeletedFacts ==
    ASSUME NEW st, Sound(st), NEW s \in Seeds, NEW i \in 1..Len(st.seed[s].msgs)
    PROVE  LET t == Deleted(st, s, i)
           IN  /\ Sound(t) /\ OnlyList(st, t, s)
               /\ t.seed[s].msgs = RemoveAt(st.seed[s].msgs, i)
               /\ t.total = st.total - st.seed[s].msgs[i].len /\ t.total < st.total
<1> DEFINE t == Deleted(st, s, i)
           e == st.seed[s]
           q == e.msgs
           l == RemoveAt(q, i)
           d == [e EXCEPT !.msgs = l]
<1>1. /\ st \in States /\ st.seed \in [Seeds -> Entry] /\ st.total \in Int
      /\ e \in Entry /\ q \in Seq(Message) /\ Listed(e) /\ i \in 1..Len(q)
  BY StateFields DEF Sound
<1>2. /\ l \in Seq(Message) /\ Listed(d) /\ Range(l) = {q[j] : j \in (1..Len(q)) \ {i}}
  <2> HIDE DEF e
  <2> QED  BY <1>1, RemovedListed
<1>3. d \in Entry /\ d.msgs = l /\ q[i] \in Message /\ q[i].len \in Nat /\ q[i].len > 0
  <2>1. q[i] \in Message  BY <1>1
  <2>2. q[i].len \in Nat /\ q[i].len > 0
    <3> HIDE DEF q
    <3> QED  BY <2>1, MessageFields
  <2> QED  BY <1>1, <1>2, <2>1, <2>2, EntryFields
<1>4. /\ t \in States /\ t.total = st.total - q[i].len /\ t.seed[s] = d
      /\ \A x \in Seeds \ {s} : t.seed[x] = st.seed[x]
  <2> DEFINE k == st.total - q[i].len
  <2>1. t = Relist(st, s, l, k)  BY DEF Deleted, Relist
  <2>2. k \in Int  BY <1>1, <1>3
  <2>3. st \in States /\ l \in Seq(Message)  BY <1>1, <1>2
  <2> HIDE DEF e, q, d, l, k, t
  <2>4. /\ t \in States /\ t.total = k /\ t.seed[s] = [st.seed[s] EXCEPT !.msgs = l]
        /\ \A x \in Seeds \ {s} : t.seed[x] = st.seed[x]
    BY <2>1, <2>2, <2>3, RelistFacts
  <2> QED  BY <2>4 DEF k, d, e
<1>5. ASSUME NEW j \in 1..Len(q), j # i PROVE q[j].seq # q[i].seq
  <2> HIDE DEF e
  <2> QED  BY <1>1, <1>5, DistinctSeqs
<1>6. Range(q) = {q[j] : j \in 1..Len(q)}
  <2> HIDE DEF q
  <2> QED  BY <1>1, RangeIs
<1> HIDE DEF e, q, l, d
<1>7. t.seed[s] = d /\ (\A x \in Seeds \ {s} : t.seed[x] = st.seed[x])  BY <1>4
<1>8. t.total = st.total - q[i].len /\ t \in States  BY <1>4
<1> HIDE DEF t
<1>9. OneMore(st.seed, t.seed, s, q[i])
  <2>2. Range(q) = Range(l) \cup {q[i]}  BY <1>1, <1>2, <1>6
  <2>3. \A o \in Range(l) : o.seq # q[i].seq  BY <1>2, <1>5
  <2>4. st.seed[s].msgs = q /\ t.seed[s].msgs = l  BY <1>3, <1>7 DEF q, e
  <2> QED  BY <1>7, <2>2, <2>3, <2>4 DEF OneMore
<1>10. Cardinality(Bytes(st.seed)) = Cardinality(Bytes(t.seed)) + q[i].len
  BY <1>3, <1>9, BytesOneMore
<1>11. t.total = Cardinality(Bytes(t.seed))  BY <1>1, <1>3, <1>8, <1>10, BytesFinite DEF Sound
<1>12. Sound(t)  BY <1>2, <1>7, <1>8, <1>11 DEF Sound
<1>13. OnlyList(st, t, s)  BY <1>3, <1>7 DEF OnlyList, d, e
<1>14. t.total < st.total  BY <1>1, <1>3, <1>8
<1> QED  BY <1>3, <1>7, <1>8, <1>12, <1>13, <1>14 DEF t, e, q, l

(***************************************************************************)
(* Purged(): after k rounds the messages from place n + 1 - k on have been  *)
(* looked at, and the ones before are where they were.                      *)
(***************************************************************************)
\* What is left of the list of s once the places in gone are deleted.
Left(st, s, gone) == {st.seed[s].msgs[j] : j \in (1..Len(st.seed[s].msgs)) \ gone}

PurgeLoop(st, s, places, t, k) ==
    LET n == Len(st.seed[s].msgs)
    IN  /\ Sound(t) /\ OnlyList(st, t, s) /\ t.total <= st.total
        /\ Len(t.seed[s].msgs) >= n - k
        /\ \A j \in 1..(n - k) : t.seed[s].msgs[j] = st.seed[s].msgs[j]
        /\ Range(t.seed[s].msgs) = Left(st, s, places \cap ((n + 1 - k)..n))

\* What Purged does.
Rest(st, t, s, places) ==
    /\ Sound(t) /\ OnlyList(st, t, s) /\ t.total <= st.total
    /\ Range(t.seed[s].msgs) = Left(st, s, places)

PurgeStep(t, s, places, at) == IF at \in places THEN Deleted(t, s, at) ELSE t

LEMMA PurgeStepFacts ==
    ASSUME NEW st, Sound(st), NEW s \in Seeds, NEW places,
           NEW k \in 1..Len(st.seed[s].msgs), NEW t, PurgeLoop(st, s, places, t, k - 1)
    PROVE  PurgeLoop(st, s, places, PurgeStep(t, s, places, Len(st.seed[s].msgs) + 1 - k), k)
<1> DEFINE q == st.seed[s].msgs
           n == Len(q)
           p == n + 1 - k
           l == t.seed[s].msgs
           u == PurgeStep(t, s, places, p)
<1>1. q \in Seq(Message) /\ n \in Nat /\ k \in 1..n /\ Listed(st.seed[s]) /\ st \in States
  BY StateFields DEF Sound
<1>2. t \in States /\ l \in Seq(Message) /\ Listed(t.seed[s]) /\ Sound(t) /\ OnlyList(st, t, s)
  BY StateFields DEF Sound, PurgeLoop
<1>3. /\ Len(l) >= n - (k - 1) /\ \A j \in 1..(n - (k - 1)) : l[j] = q[j]
      /\ Range(l) = Left(st, s, places \cap ((n + 1 - (k - 1))..n))
      /\ t.total <= st.total
  BY DEF PurgeLoop
<1>4. /\ p \in 1..n /\ n - (k - 1) = p /\ n + 1 - (k - 1) = p + 1 /\ n - k = p - 1 /\ n + 1 - k = p
      /\ Len(l) \in Nat
  BY <1>1, <1>2
<1>5. p \in 1..Len(l) /\ l[p] = q[p] /\ \A j \in 1..(p - 1) : l[j] = q[j]
  <2>1. Len(l) >= p /\ \A j \in 1..p : l[j] = q[j]  BY <1>3, <1>4
  <2> HIDE DEF l, q, n, p
  <2> QED  BY <1>4, <2>1
<1>6. Range(l) = {q[j] : j \in (1..n) \ (places \cap ((p + 1)..n))}  BY <1>3, <1>4 DEF Left
<1>7. CASE p \notin places
  <2>1. u = t  BY <1>7 DEF PurgeStep
  <2>2. places \cap (p..n) = places \cap ((p + 1)..n)
    <3>1. n \in Nat /\ p \in Nat  BY <1>1, <1>4
    <3>2. CASE p \notin places
      <4> HIDE DEF l, q, n, p, u
      <4>1. \A x : x \in p..n /\ x # p => x \in (p + 1)..n  BY <3>1
      <4>2. \A x : x \in (p + 1)..n => x \in p..n  BY <3>1
      <4> QED  BY <3>2, <4>1, <4>2
    <3> QED  BY <1>7, <3>2
  <2>3. Range(u.seed[s].msgs) = Left(st, s, places \cap ((n + 1 - k)..n))
    BY <1>3, <1>4, <2>1, <2>2
  <2>4. Len(l) >= n - k /\ \A j \in 1..(n - k) : l[j] = q[j]
    <3>1. Len(l) >= p - 1 /\ \A j \in 1..(p - 1) : l[j] = q[j]
      <4> HIDE DEF l, q, n, p
      <4> QED  BY <1>4, <1>5
    <3> QED  BY <1>4, <3>1
  <2> QED  BY <1>2, <1>3, <2>1, <2>3, <2>4 DEF PurgeLoop
<1>8. CASE p \in places
  <2> DEFINE v == Deleted(t, s, p)
             r == RemoveAt(l, p)
  <2>1. u = v  BY <1>8 DEF PurgeStep
  <2>2. Sound(v) /\ OnlyList(t, v, s) /\ v.seed[s].msgs = r /\ v.total < t.total
    <3> HIDE DEF p
    <3> QED  BY <1>2, <1>5, DeletedFacts
  <2>3. /\ Len(r) = Len(l) - 1 /\ \A j \in 1..(p - 1) : r[j] = l[j]
        /\ Range(r) = {l[j] : j \in (1..Len(l)) \ {p}}
    <3> DEFINE e == t.seed[s]
    <3>1. Listed(e) /\ p \in 1..Len(e.msgs)  BY <1>2, <1>5
    <3>2. LET x == RemoveAt(e.msgs, p)
          IN  /\ Len(x) = Len(e.msgs) - 1 /\ \A j \in 1..(p - 1) : x[j] = e.msgs[j]
              /\ Range(x) = {e.msgs[j] : j \in (1..Len(e.msgs)) \ {p}}
      <4> HIDE DEF e, p
      <4> QED  BY <3>1, RemovedListed
    <3> QED  BY <3>2
  <2>4. ASSUME NEW j \in 1..n, j # p PROVE q[j] # q[p]
    <3> DEFINE e == st.seed[s]
    <3>1. Listed(e) /\ j \in 1..Len(e.msgs) /\ p \in 1..Len(e.msgs)  BY <1>1, <1>4
    <3>2. e.msgs[j].seq # e.msgs[p].seq
      <4> HIDE DEF e, p
      <4> QED  BY <2>4, <3>1, DistinctSeqs
    <3> QED  BY <3>2
  <2>5. ASSUME NEW j \in 1..Len(l), j # p PROVE l[j] # l[p]
    <3> DEFINE e == t.seed[s]
    <3>1. Listed(e) /\ j \in 1..Len(e.msgs) /\ p \in 1..Len(e.msgs)  BY <1>2, <1>5
    <3>2. e.msgs[j].seq # e.msgs[p].seq
      <4> HIDE DEF e, p
      <4> QED  BY <2>5, <3>1, DistinctSeqs
    <3> QED  BY <3>2
  <2>6. Range(l) = {l[j] : j \in 1..Len(l)}
    <3> HIDE DEF l
    <3> QED  BY <1>2, RangeIs
  <2> HIDE DEF v, r, l, p, n, q, u
  <2>7. Range(r) = Range(l) \ {q[p]}  BY <1>5, <2>3, <2>5, <2>6
  <2>8. Range(r) = {q[j] : j \in (1..n) \ (places \cap (p..n))}
    <3>1. \A j \in 1..n : j \in places \cap (p..n) <=> j = p \/ j \in places \cap ((p + 1)..n)
      BY <1>1, <1>4, <1>8
    <3>2. \A j \in (1..n) \ (places \cap ((p + 1)..n)) : q[j] # q[p] <=> j # p  BY <2>4
    <3>3. Range(l) \ {q[p]} = {q[j] : j \in (1..n) \ (places \cap (p..n))}
      BY <1>6, <3>1, <3>2
    <3> QED  BY <2>7, <3>3
  <2>9. Range(r) = Left(st, s, places \cap (p..n))  BY <2>8 DEF Left, q, n
  <2>10. Len(r) >= p - 1 /\ \A j \in 1..(p - 1) : r[j] = q[j]  BY <1>1, <1>4, <1>5, <2>3
  <2>11. OnlyList(st, v, s)
    <3>1. \A x \in Seeds \ {s} : v.seed[x] = st.seed[x]  BY <1>2, <2>2 DEF OnlyList
    <3>2. v.seed[s] = [t.seed[s] EXCEPT !.msgs = r] /\ t.seed[s] = [st.seed[s] EXCEPT !.msgs = l]
      BY <1>2, <2>2 DEF OnlyList, l
    <3>3. v.seed[s] = [st.seed[s] EXCEPT !.msgs = r]  BY <3>2
    <3> QED  BY <2>2, <3>1, <3>3 DEF OnlyList
  <2>12. v.total <= st.total
    <3>1. v.total \in Int /\ t.total \in Int /\ st.total \in Int
      BY <1>1, <1>2, <2>2, StateFields DEF Sound
    <3> QED  BY <1>3, <2>2, <3>1
  <2>13. PurgeLoop(st, s, places, v, k)
    BY <1>4, <2>2, <2>9, <2>10, <2>11, <2>12 DEF PurgeLoop, q, n
  <2> QED  BY <2>1, <2>13 DEF u, p, n, q
<1> QED  BY <1>7, <1>8

LEMMA PurgedFacts ==
    ASSUME NEW st, Sound(st), NEW s \in Seeds, NEW places
    PROVE  Rest(st, Purged(st, s, places), s, places)
<1> DEFINE n == Len(st.seed[s].msgs)
           I == [k \in 0..n |-> {t \in States : PurgeLoop(st, s, places, t, k)}]
           step == [k \in 1..n |-> [t \in I[k - 1] |-> PurgeStep(t, s, places, n + 1 - k)]]
           Eq(f) == f = [k \in 0..n |-> IF k = 0 THEN st ELSE PurgeStep(f[k - 1], s, places, n + 1 - k)]
           walk == CHOOSE f : Eq(f)
<1>1. n \in Nat /\ st \in States /\ st.seed[s].msgs \in Seq(Message) /\ st.total \in Int
  BY StateFields DEF Sound
<1>2. st \in I[0]
  <2>1. OnlyList(st, st, s)
    <3>1. st.seed[s] \in Entry  BY <1>1, StateFields
    <3>2. st.seed[s] = [st.seed[s] EXCEPT !.msgs = st.seed[s].msgs]  BY <3>1 DEF Entry
    <3> QED  BY <3>2 DEF OnlyList
  <2>2. Range(st.seed[s].msgs) = Left(st, s, {})  BY <1>1, RangeIs DEF Left
  <2>3. places \cap ((n + 1 - 0)..n) = {} /\ n - 0 = n  BY <1>1
  <2>6. Range(st.seed[s].msgs) = Left(st, s, places \cap ((n + 1 - 0)..n))  BY <2>2, <2>3
  <2>7. Len(st.seed[s].msgs) >= n - 0 /\ st.total <= st.total  BY <1>1
  <2>4. PurgeLoop(st, s, places, st, 0)  BY <2>1, <2>6, <2>7 DEF PurgeLoop
  <2>5. 0 \in 0..n  BY <1>1
  <2> QED  BY <1>1, <2>4, <2>5
<1>3. ASSUME NEW k \in 1..n, NEW t \in I[k - 1]
      PROVE  PurgeStep(t, s, places, n + 1 - k) \in I[k]
  <2>1. k - 1 \in 0..n /\ k \in 0..n  BY <1>1
  <2>2. PurgeLoop(st, s, places, t, k - 1)  BY <2>1
  <2> DEFINE u == PurgeStep(t, s, places, n + 1 - k)
  <2>3. PurgeLoop(st, s, places, u, k)  BY <2>2, PurgeStepFacts
  <2>4. u \in States  BY <2>3 DEF PurgeLoop, Sound
  <2> HIDE DEF u, n
  <2>5. u \in I[k]  BY <2>1, <2>3, <2>4
  <2> QED  BY <2>5 DEF u
<1>4. Rounds(step, I, n)
  <2> HIDE DEF I
  <2> QED  BY <1>3 DEF Rounds
<1>5. PICK g : LoopRun(g, n, st, step, I)
  <2> HIDE DEF I, step, n
  <2> QED  BY <1>1, <1>2, <1>4, LoopInvariant
<1>6. Eq(g)
  <2>1. /\ g = [k \in 0..n |-> g[k]] /\ g[0] = st /\ \A k \in 0..n : g[k] \in I[k]
        /\ \A k \in 1..n : g[k] = step[k][g[k - 1]]
    <3> HIDE DEF I, step, n
    <3> QED  BY <1>5 DEF LoopRun
  <2>2. ASSUME NEW k \in 1..n PROVE g[k] = PurgeStep(g[k - 1], s, places, n + 1 - k)
    <3>1. k - 1 \in 0..n  BY <1>1
    <3> HIDE DEF I
    <3>2. g[k - 1] \in I[k - 1]  BY <2>1, <3>1
    <3> QED  BY <2>1, <3>2
  <2> DEFINE h == [k \in 0..n |-> IF k = 0 THEN st ELSE PurgeStep(g[k - 1], s, places, n + 1 - k)]
  <2> HIDE DEF I, step, n
  <2>3. ASSUME NEW k \in 0..n PROVE g[k] = h[k]
    <3>1. CASE k = 0  BY <2>1, <3>1
    <3>2. CASE k # 0
      <4>1. k \in 1..n  BY <1>1, <3>2
      <4> QED  BY <2>2, <3>2, <4>1
    <3> QED  BY <3>1, <3>2
  <2>4. [k \in 0..n |-> g[k]] = h  BY <2>3
  <2> QED  BY <2>1, <2>4
<1>7. Eq(walk)
  <2> HIDE DEF Eq
  <2> QED  BY <1>6
<1> HIDE DEF walk
<1>8. walk[0] = st /\ \A k \in 1..n : walk[k] = PurgeStep(walk[k - 1], s, places, n + 1 - k)
  <2> HIDE DEF n
  <2> QED  BY <1>1, <1>7
<1> HIDE DEF Eq, step
<1>9. \A k \in 1..n : walk[k - 1] \in I[k - 1] => walk[k] \in I[k]
  <2> HIDE DEF I, n
  <2> QED  BY <1>3, <1>8
<1>10. walk[n] \in I[n]
  <2>1. walk[0] \in I[0]  BY <1>2, <1>8
  <2> HIDE DEF I, n
  <2> QED  BY <1>1, <1>9, <2>1, LoopEnd
<1>11. PurgeLoop(st, s, places, walk[n], n)
  <2>1. n \in 0..n  BY <1>1
  <2> HIDE DEF n
  <2> QED  BY <1>10, <2>1
<1>12. Purged(st, s, places) = walk[n]  BY DEF Purged, walk, Eq, PurgeStep
<1>13. Left(st, s, places \cap ((n + 1 - n)..n)) = Left(st, s, places)
  <2>1. n + 1 - n = 1  BY <1>1
  <2>2. (1..n) \ (places \cap (1..n)) = (1..n) \ places  OBVIOUS
  <2> QED  BY <2>1, <2>2 DEF Left
<1> QED  BY <1>11, <1>12, <1>13 DEF PurgeLoop, Rest

-----------------------------------------------------------------------------
(***************************************************************************)
(* Moving the window.                                                       *)
(***************************************************************************)
\* The number is known: the window is past it, or its message is held.
HoldsSeq(e, q) == \E m \in Range(e.msgs) : m.seq = q
Passes(e, q) == e.alive /\ (After(e.min, q) \/ HoldsSeq(e, q))

\* t holds no more than st, and knows every number that st knows.
Shrunk(st, t) ==
    /\ \A s \in Seeds : /\ Range(t.seed[s].msgs) \subseteq Range(st.seed[s].msgs)
                        /\ t.seed[s].alive <=> st.seed[s].alive
                        /\ \A q \in Numbers : Passes(st.seed[s], q) => Passes(t.seed[s], q)
    /\ t.total <= st.total

LEMMA ShrunkTransitive ==
    ASSUME NEW st \in States, NEW t \in States, NEW u \in States, Shrunk(st, t), Shrunk(t, u)
    PROVE  Shrunk(st, u)
<1>1. st.total \in Int /\ t.total \in Int /\ u.total \in Int  BY StateFields
<1>2. u.total <= st.total  BY <1>1 DEF Shrunk
<1>3. ASSUME NEW s \in Seeds
      PROVE  /\ Range(u.seed[s].msgs) \subseteq Range(st.seed[s].msgs)
             /\ u.seed[s].alive <=> st.seed[s].alive
             /\ \A q \in Numbers : Passes(st.seed[s], q) => Passes(u.seed[s], q)
  BY DEF Shrunk
<1> QED  BY <1>2, <1>3 DEF Shrunk

\* Another start of the window, or another life, for seed s.
Reentry(st, s, e) == [st EXCEPT !.seed[s] = e]

LEMMA ReentryFacts ==
    ASSUME NEW st \in States, NEW s \in Seeds, NEW e \in Entry
    PROVE  /\ Reentry(st, s, e) \in States /\ Reentry(st, s, e).total = st.total
           /\ Reentry(st, s, e).seed[s] = e
           /\ \A x \in Seeds \ {s} : Reentry(st, s, e).seed[x] = st.seed[x]
<1> DEFINE f == [st.seed EXCEPT ![s] = e]
           t == [st EXCEPT !.seed = f]
<1>1. st.seed \in [Seeds -> Entry] /\ st.total \in Int  BY StateFields
<1>2. f \in [Seeds -> Entry] /\ f[s] = e /\ \A x \in Seeds \ {s} : f[x] = st.seed[x]  BY <1>1
<1> HIDE DEF f
<1>3. t \in States /\ t.seed = f /\ t.total = st.total  BY <1>1, <1>2 DEF States
<1>4. t = Reentry(st, s, e)  BY DEF f, Reentry
<1> HIDE DEF t
<1> QED  BY <1>2, <1>3, <1>4

\* An entry with the messages of the one it replaces.
LEMMA ReentrySound ==
    ASSUME NEW st, Sound(st), NEW s \in Seeds, NEW e, Listed(e), e.msgs = st.seed[s].msgs
    PROVE  Sound(Reentry(st, s, e))
<1> DEFINE t == Reentry(st, s, e)
<1>1. st \in States /\ e \in Entry  BY DEF Sound, Listed
<1>2. t \in States /\ t.total = st.total /\ t.seed[s] = e /\ \A x \in Seeds \ {s} : t.seed[x] = st.seed[x]
  BY <1>1, ReentryFacts
<1> HIDE DEF t
<1>3. \A x \in Seeds : t.seed[x].msgs = st.seed[x].msgs  BY <1>2
<1>4. Bytes(t.seed) = Bytes(st.seed)  BY <1>3 DEF Bytes
<1>5. \A x \in Seeds : Listed(t.seed[x])  BY <1>2 DEF Sound
<1>6. Sound(t)  BY <1>2, <1>4, <1>5 DEF Sound
<1> QED  BY <1>6 DEF t

\* Entry e with its window at w and the life l.
Moved(e, w, l) == [e EXCEPT !.min = w, !.life = l]

LEMMA MovedFacts ==
    ASSUME NEW e, Listed(e), e.alive, NEW w \in Windows, NEW l \in 0..Lifetime
    PROVE  /\ Listed(Moved(e, w, l)) /\ Moved(e, w, l).msgs = e.msgs
           /\ Moved(e, w, l).min = w /\ Moved(e, w, l).alive
<1> DEFINE d == Moved(e, w, l)
<1>1. e \in Entry /\ w \in Seqs  BY SeqOrder DEF Listed
<1>2. d \in Entry /\ d.msgs = e.msgs /\ d.min = w /\ d.alive = e.alive  BY <1>1 DEF Moved, Entry
<1> HIDE DEF d
<1>3. Listed(d)  BY <1>2 DEF Listed
<1> QED  BY <1>2, <1>3 DEF d

\* The window of s goes past number q, and the messages before it go.
LEMMA WindowMoved ==
    ASSUME NEW st, Good(st), NEW s \in Seeds, st.seed[s].alive,
           NEW q \in Numbers, ~After(st.seed[s].min, q), NEW l \in 0..Lifetime, NEW places,
           \A i \in 1..Len(st.seed[s].msgs) :
               i \in places <=> After(NextSeq(q), st.seed[s].msgs[i].seq),
           NEW t, Rest(Reentry(st, s, Moved(st.seed[s], NextSeq(q), l)), t, s, places)
    PROVE  Good(t) /\ Shrunk(st, t) /\ Passes(t.seed[s], q)
<1> DEFINE e == st.seed[s]
           w == NextSeq(q)
           d == Moved(e, w, l)
           a == Reentry(st, s, d)
           f == t.seed[s]
           g == e.msgs
<1>1. /\ Sound(st) /\ Listed(e) /\ e \in Entry /\ st \in States /\ g \in Seq(Message) /\ Windowed(e)
      /\ st.total \in Int
  BY StateFields DEF Good, Sound
<1>2. w \in Windows /\ q \in Windows /\ \A x \in Windows : After(w, x) <=> x = q \/ After(q, x)
  BY SeqOrder
<1>3. Listed(d) /\ d.msgs = e.msgs /\ d.min = w /\ d.alive
  <2> HIDE DEF e, w
  <2>1. e.alive  BY DEF e
  <2> QED  BY <1>1, <1>2, <2>1, MovedFacts
<1>4. /\ d \in Entry /\ a.seed[s] = d /\ a.total = st.total
      /\ \A x \in Seeds \ {s} : a.seed[x] = st.seed[x]
  <2>1. d \in Entry  BY <1>3 DEF Listed
  <2> HIDE DEF d
  <2> QED  BY <1>1, <2>1, ReentryFacts
<1>5. /\ Sound(t) /\ OnlyList(a, t, s) /\ t.total <= a.total
      /\ Range(f.msgs) = {a.seed[s].msgs[j] : j \in (1..Len(a.seed[s].msgs)) \ places}
  BY DEF Rest, Left
<1>6. Range(f.msgs) = {g[j] : j \in (1..Len(g)) \ places}  BY <1>3, <1>4, <1>5
<1>7. \A j \in 1..Len(g) : j \in places <=> After(w, g[j].seq)  OBVIOUS
<1>8. ~After(e.min, q) /\ e.alive  OBVIOUS
<1>9. /\ f = [a.seed[s] EXCEPT !.msgs = f.msgs] /\ \A x \in Seeds \ {s} : t.seed[x] = a.seed[x]
      /\ f.msgs \in Seq(Message) /\ Listed(f)
  BY <1>5, StateFields DEF OnlyList, Sound
<1>10. f.min = w /\ f.alive
  <2> HIDE DEF f, d
  <2>1. f = [d EXCEPT !.msgs = f.msgs]  BY <1>4, <1>9
  <2>2. [d EXCEPT !.msgs = f.msgs].alive = d.alive /\ [d EXCEPT !.msgs = f.msgs].min = d.min
    BY <1>4, <1>9, EntryFields
  <2> QED  BY <1>3, <2>1, <2>2
<1>11. Range(g) = {g[j] : j \in 1..Len(g)} /\ Range(f.msgs) = {f.msgs[j] : j \in 1..Len(f.msgs)}
  <2> HIDE DEF g, f
  <2> QED  BY <1>1, <1>9, RangeIs
<1>12. /\ \A x \in Seeds \ {s} : t.seed[x] = st.seed[x]
       /\ t.total <= st.total
  BY <1>4, <1>5, <1>9
<1>13. e.min \in Windows /\ \A j \in 1..Len(g) : g[j].seq \in Numbers /\ g[j].seq \in Windows
  BY <1>1, <1>8, SeqOrder DEF Listed
<1> HIDE DEF g, f, a, d, w
<1>14. Windowed(f)
  <2> SUFFICES ASSUME NEW i \in 1..Len(f.msgs) PROVE ~After(w, f.msgs[i].seq)
    BY <1>10 DEF Windowed
  <2>1. PICK j \in (1..Len(g)) \ places : f.msgs[i] = g[j]  BY <1>6, <1>11
  <2> QED  BY <1>7, <2>1
<1>15. ASSUME NEW x \in Numbers, Passes(e, x) PROVE Passes(f, x)
  <2>0. x \in Windows  BY SeqOrder
  <2>1. CASE After(e.min, x)
    <3>1. q = e.min \/ After(q, e.min)  BY <1>2, <1>8, <1>13, SeqOrder
    <3>2. After(q, x)  BY <1>2, <1>13, <2>0, <2>1, <3>1, SeqOrder
    <3> QED  BY <1>2, <1>10, <2>0, <3>2 DEF Passes
  <2>2. CASE HoldsSeq(e, x)
    <3>1. PICK j \in 1..Len(g) : g[j].seq = x  BY <1>11, <2>2 DEF HoldsSeq, g
    <3>2. CASE j \in places  BY <1>7, <1>10, <3>1, <3>2 DEF Passes
    <3>3. CASE j \notin places
      <4>1. g[j] \in Range(f.msgs)  BY <1>6, <3>3
      <4> QED  BY <1>10, <3>1, <4>1 DEF Passes, HoldsSeq
    <3> QED  BY <3>2, <3>3
  <2> QED  BY <1>15, <2>1, <2>2 DEF Passes
<1>16. Range(f.msgs) \subseteq Range(g)  BY <1>6, <1>11
<1>17. ASSUME NEW x \in Seeds
       PROVE  /\ Range(t.seed[x].msgs) \subseteq Range(st.seed[x].msgs)
              /\ t.seed[x].alive <=> st.seed[x].alive
              /\ \A y \in Numbers : Passes(st.seed[x], y) => Passes(t.seed[x], y)
              /\ Windowed(t.seed[x])
  <2>1. CASE x = s  BY <1>8, <1>10, <1>14, <1>15, <1>16, <2>1 DEF f, g
  <2>2. CASE x # s  BY <1>12, <2>2 DEF Good
  <2> QED  BY <2>1, <2>2
<1>18. Good(t)  BY <1>5, <1>17 DEF Good
<1>19. Shrunk(st, t)  BY <1>12, <1>17 DEF Shrunk
<1>20. Passes(f, q)  BY <1>2, <1>10 DEF Passes
<1> QED  BY <1>18, <1>19, <1>20 DEF f

LEMMA SameLife ==
    ASSUME NEW st \in States, NEW s \in Seeds, NEW w
    PROVE  [st EXCEPT !.seed[s].min = w] = Reentry(st, s, Moved(st.seed[s], w, st.seed[s].life))
<1> DEFINE e == st.seed[s]
<1>1. e \in Entry  BY StateFields
<1>2. [e EXCEPT !.min = w] = Moved(e, w, e.life)  BY <1>1 DEF Moved, Entry
<1>3. [st EXCEPT !.seed[s].min = w] = Reentry(st, s, [e EXCEPT !.min = w])  BY DEF Reentry
<1> QED  BY <1>2, <1>3

LEMMA MinAdvancedFacts ==
    ASSUME NEW st, Good(st), NEW s \in Seeds, st.seed[s].alive,
           NEW q \in Numbers, ~After(st.seed[s].min, q)
    PROVE  LET t == MinAdvanced(st, s, NextSeq(q))
           IN  Good(t) /\ Shrunk(st, t) /\ Passes(t.seed[s], q)
<1> DEFINE e == st.seed[s]
           w == NextSeq(q)
           a == Reentry(st, s, Moved(e, w, e.life))
           places == {i \in DOMAIN e.msgs : After(w, e.msgs[i].seq)}
           t == MinAdvanced(st, s, w)
<1>1. /\ st \in States /\ Sound(st) /\ e \in Entry /\ Listed(e) /\ e.msgs \in Seq(Message)
      /\ e.life \in 0..Lifetime
  BY StateFields, EntryFields DEF Good, Sound
<1>2. t = Purged(a, s, places)  BY <1>1, SameLife DEF MinAdvanced
<1>3. w \in Windows  BY SeqOrder
<1>4. Sound(a)
  <2> DEFINE d == Moved(e, w, e.life)
  <2>1. Listed(d) /\ d.msgs = e.msgs
    <3> HIDE DEF e, w
    <3>1. e.alive  BY DEF e
    <3> QED  BY <1>1, <1>3, <3>1, MovedFacts
  <2> HIDE DEF d
  <2>2. Sound(Reentry(st, s, d))  BY <1>1, <2>1, ReentrySound
  <2> QED  BY <2>2 DEF d
<1>5. Rest(a, t, s, places)
  <2> HIDE DEF a, places
  <2> QED  BY <1>2, <1>4, PurgedFacts
<1>6. \A i \in 1..Len(e.msgs) : i \in places <=> After(w, e.msgs[i].seq)
  BY <1>1, RangeIs
<1> HIDE DEF t, places
<1>7. Good(t) /\ Shrunk(st, t) /\ Passes(t.seed[s], q)
  <2> DEFINE l == e.life
  <2>1. l \in 0..Lifetime  BY <1>1
  <2>2. \A i \in 1..Len(st.seed[s].msgs) : i \in places <=> After(NextSeq(q), st.seed[s].msgs[i].seq)
    BY <1>6
  <2>3. Rest(Reentry(st, s, Moved(st.seed[s], NextSeq(q), l)), t, s, places)  BY <1>5
  <2> HIDE DEF l, a, w, e
  <2> QED  BY <2>1, <2>2, <2>3, WindowMoved
<1> QED  BY <1>7 DEF t

-----------------------------------------------------------------------------
(***************************************************************************)
(* Making room.                                                             *)
(***************************************************************************)
LEMMA HolderAlive ==
    ASSUME NEW st, Sound(st), NEW s \in Seeds, st.seed[s].msgs # <<>>
    PROVE  st.seed[s].alive /\ 1 \in 1..Len(st.seed[s].msgs) /\ Head(st.seed[s].msgs) = st.seed[s].msgs[1]
<1> DEFINE e == st.seed[s]
<1>1. Listed(e) /\ e \in Entry /\ e.msgs \in Seq(Message)  BY StateFields DEF Sound
<1>2. e # NoSeed  BY DEF NoSeed
<1>3. e.alive  BY <1>1, <1>2 DEF Listed
<1> QED  BY <1>1, <1>3

LEMMA FreeSpaceFacts ==
    ASSUME NEW st, Good(st), NEW t \in FreeSpace(st)
    PROVE  Good(t) /\ Shrunk(st, t) /\ t.total < st.total
<1>1. PICK s \in Oldest(st) :
        t = Deleted([st EXCEPT !.seed[s].min = NextSeq(Head(st.seed[s].msgs).seq)], s, 1)
  BY DEF FreeSpace
<1>2. s \in Seeds /\ st.seed[s].msgs # <<>>  BY DEF Oldest
<1> DEFINE e == st.seed[s]
           g == e.msgs
           q == g[1].seq
           w == NextSeq(q)
           d == Moved(e, w, e.life)
           a == Reentry(st, s, d)
<1>3. /\ st \in States /\ Sound(st) /\ e \in Entry /\ Listed(e) /\ g \in Seq(Message) /\ Windowed(e)
      /\ e.life \in 0..Lifetime /\ st.total \in Int
  BY <1>2, StateFields, EntryFields DEF Good, Sound
<1>4. e.alive /\ 1 \in 1..Len(g) /\ Head(g) = g[1]  BY <1>2, <1>3, HolderAlive
<1>5. q \in Numbers /\ ~After(e.min, q)  BY <1>3, <1>4 DEF Listed, Windowed
<1>6. t = Deleted(a, s, 1)
  <2>1. [st EXCEPT !.seed[s].min = w] = a  BY <1>2, <1>3, SameLife
  <2> QED  BY <1>1, <1>4, <2>1
<1>7. w \in Windows /\ q \in Windows /\ \A x \in Windows : After(w, x) <=> x = q \/ After(q, x)
  BY <1>5, SeqOrder
<1>8. Listed(d) /\ d.msgs = g
  <2> HIDE DEF w
  <2>1. Listed(d) /\ d.msgs = e.msgs
    <3> HIDE DEF e
    <3> QED  BY <1>3, <1>4, <1>7, MovedFacts
  <2> QED  BY <2>1
<1>9. Sound(a) /\ a.seed[s] = d /\ a.total = st.total
  <2>1. d \in Entry  BY <1>8 DEF Listed
  <2> HIDE DEF d
  <2> QED  BY <1>2, <1>3, <1>8, <2>1, ReentrySound, ReentryFacts
<1>10. \A i \in 1..Len(g) : i \in {1} <=> After(w, g[i].seq)
  <2> SUFFICES ASSUME NEW i \in 1..Len(g) PROVE i = 1 <=> After(w, g[i].seq)
    OBVIOUS
  <2>1. g[i].seq \in Windows  BY <1>3, SeqOrder DEF Listed
  <2>2. CASE i = 1  BY <1>7, <2>1, <2>2
  <2>3. CASE i # 1
    <3>1. 1 < i  BY <1>3, <2>3
    <3>2. After(g[i].seq, q)  BY <1>3, <1>4, <3>1 DEF Listed
    <3>3. ~After(q, g[i].seq) /\ g[i].seq # q  BY <1>7, <2>1, <3>2, SeqOrder
    <3> QED  BY <1>7, <2>1, <2>3, <3>3
  <2> QED  BY <2>2, <2>3
<1>11. Rest(a, t, s, {1}) /\ t.total < st.total
  <2>1. 1 \in 1..Len(a.seed[s].msgs)  BY <1>4, <1>8, <1>9
  <2> HIDE DEF a
  <2>2. /\ Sound(t) /\ OnlyList(a, t, s) /\ t.seed[s].msgs = RemoveAt(a.seed[s].msgs, 1)
        /\ t.total < a.total
    BY <1>2, <1>6, <1>9, <2>1, DeletedFacts
  <2>3. t.total <= a.total
    <3>1. t.total \in Int /\ a.total \in Int  BY <1>3, <1>9, <2>2, StateFields DEF Sound
    <3> QED  BY <2>2, <3>1
  <2>4. Range(t.seed[s].msgs) = Left(a, s, {1})
    <3> DEFINE b == a.seed[s]
    <3>1. Listed(b) /\ 1 \in 1..Len(b.msgs)  BY <1>2, <1>9, <2>1 DEF Sound
    <3>2. Range(RemoveAt(b.msgs, 1)) = {b.msgs[j] : j \in (1..Len(b.msgs)) \ {1}}
      <4> HIDE DEF b
      <4> QED  BY <3>1, RemovedListed
    <3> QED  BY <2>2, <3>2 DEF Left
  <2> QED  BY <1>9, <2>2, <2>3, <2>4 DEF Rest
<1>12. Good(t) /\ Shrunk(st, t)
  <2>1. Rest(Reentry(st, s, Moved(st.seed[s], NextSeq(q), e.life)), t, s, {1})  BY <1>11
  <2>2. \A i \in 1..Len(st.seed[s].msgs) : i \in {1} <=> After(NextSeq(q), st.seed[s].msgs[i].seq)
    BY <1>10
  <2>3. st.seed[s].alive /\ ~After(st.seed[s].min, q)  BY <1>4, <1>5
  <2> DEFINE l == e.life
  <2>4. l \in 0..Lifetime  BY <1>3
  <2> HIDE DEF q, l
  <2>5. Rest(Reentry(st, s, Moved(st.seed[s], NextSeq(q), l)), t, s, {1})  BY <2>1 DEF l
  <2> HIDE DEF a, d, w, g, e
  <2> QED  BY <1>2, <1>5, <2>2, <2>3, <2>4, <2>5, WindowMoved
<1> QED  BY <1>11, <1>12

\* The states the loop may be in after k rounds.
Freeing(st, len, k) ==
    {t \in States : /\ Good(t) /\ Shrunk(st, t)
                    /\ t.total + len <= MaxBuffered \/ t.total <= st.total - k}
FreedStep(F, len) ==
    UNION {IF t.total + len > MaxBuffered THEN FreeSpace(t) ELSE {t} : t \in F}

LEMMA FreedStepFacts ==
    ASSUME NEW st, Good(st), NEW len \in Nat, NEW k \in Nat,
           NEW F \in SUBSET Freeing(st, len, k)
    PROVE  FreedStep(F, len) \in SUBSET Freeing(st, len, k + 1)
<1> SUFFICES ASSUME NEW u \in FreedStep(F, len) PROVE u \in Freeing(st, len, k + 1)
  OBVIOUS
<1>1. PICK t \in F : u \in (IF t.total + len > MaxBuffered THEN FreeSpace(t) ELSE {t})
  BY DEF FreedStep
<1>2. /\ t \in States /\ Good(t) /\ Shrunk(st, t)
      /\ t.total + len <= MaxBuffered \/ t.total <= st.total - k
  BY DEF Freeing
<1>3. st \in States /\ st.total \in Int /\ t.total \in Int /\ MaxBuffered \in Nat
  BY <1>2, StateFields, MplAssumption DEF Good, Sound
<1>4. CASE t.total + len > MaxBuffered
  <2>1. Good(u) /\ Shrunk(t, u) /\ u.total < t.total  BY <1>1, <1>2, <1>4, FreeSpaceFacts
  <2>2. u \in States /\ u.total \in Int  BY <2>1, StateFields DEF Good, Sound
  <2>3. Shrunk(st, u)  BY <1>2, <1>3, <2>1, <2>2, ShrunkTransitive
  <2>4. u.total <= st.total - (k + 1)  BY <1>2, <1>3, <1>4, <2>1, <2>2
  <2> QED  BY <2>1, <2>2, <2>3, <2>4 DEF Freeing
<1>5. CASE ~(t.total + len > MaxBuffered)
  <2>1. u = t /\ t.total + len <= MaxBuffered  BY <1>1, <1>3, <1>5
  <2> QED  BY <1>2, <2>1 DEF Freeing
<1> QED  BY <1>4, <1>5

LEMMA ShrunkSame == \A st \in States : Shrunk(st, st)
  BY StateFields DEF Shrunk

LEMMA FreedFacts ==
    ASSUME NEW st, Good(st), st.total <= MaxBuffered, NEW len \in 1..MaxBuffered, NEW u \in Freed(st, len)
    PROVE  Good(u) /\ Shrunk(st, u) /\ u.total + len <= MaxBuffered
<1> DEFINE N == MaxBuffered
           I == [k \in 0..N |-> SUBSET Freeing(st, len, k)]
           step == [k \in 1..N |-> [F \in I[k - 1] |-> FreedStep(F, len)]]
           Eq(f) == f = [k \in 0..N |-> IF k = 0 THEN {st} ELSE FreedStep(f[k - 1], len)]
           loop == CHOOSE f : Eq(f)
<1>1. N \in Nat /\ len \in Nat /\ st \in States /\ st.total \in Int
  <2>1. MaxBuffered \in Nat  BY MplAssumption
  <2>2. st \in States  BY DEF Good, Sound
  <2>3. st.total \in Int  BY <2>2, StateFields
  <2>4. len \in Nat  BY <2>1
  <2> QED  BY <2>1, <2>2, <2>3, <2>4
<1>2. {st} \in I[0]
  <2>1. 0 \in 0..N /\ st.total <= st.total - 0  BY <1>1
  <2>2. st \in Freeing(st, len, 0)  BY <1>1, <2>1, ShrunkSame DEF Freeing
  <2> QED  BY <2>1, <2>2
<1>3. ASSUME NEW k \in 1..N, NEW F \in I[k - 1] PROVE FreedStep(F, len) \in I[k]
  <2> DEFINE j == k - 1
  <2>1. j \in Nat /\ j \in 0..N /\ k \in 0..N /\ j + 1 = k  BY <1>1
  <2>2. F \in SUBSET Freeing(st, len, j)  BY <2>1
  <2> HIDE DEF j
  <2>3. FreedStep(F, len) \in SUBSET Freeing(st, len, j + 1)  BY <1>1, <2>1, <2>2, FreedStepFacts
  <2> QED  BY <2>1, <2>3
<1>4. Rounds(step, I, N)
  <2> HIDE DEF I
  <2> QED  BY <1>3 DEF Rounds
<1>5. PICK g : LoopRun(g, N, {st}, step, I)
  <2> HIDE DEF I, step, N
  <2> QED  BY <1>1, <1>2, <1>4, LoopInvariant
<1>6. Eq(g)
  <2>1. /\ g = [k \in 0..N |-> g[k]] /\ g[0] = {st} /\ \A k \in 0..N : g[k] \in I[k]
        /\ \A k \in 1..N : g[k] = step[k][g[k - 1]]
    <3> HIDE DEF I, step, N
    <3> QED  BY <1>5 DEF LoopRun
  <2>2. ASSUME NEW k \in 1..N PROVE g[k] = FreedStep(g[k - 1], len)
    <3>1. k - 1 \in 0..N  BY <1>1
    <3> HIDE DEF I
    <3>2. g[k - 1] \in I[k - 1]  BY <2>1, <3>1
    <3> QED  BY <2>1, <3>2
  <2> DEFINE h == [k \in 0..N |-> IF k = 0 THEN {st} ELSE FreedStep(g[k - 1], len)]
  <2> HIDE DEF I, step, N
  <2>3. ASSUME NEW k \in 0..N PROVE g[k] = h[k]
    <3>1. CASE k = 0  BY <2>1, <3>1
    <3>2. CASE k # 0
      <4>1. k \in 1..N  BY <1>1, <3>2
      <4> QED  BY <2>2, <3>2, <4>1
    <3> QED  BY <3>1, <3>2
  <2>4. [k \in 0..N |-> g[k]] = h  BY <2>3
  <2> QED  BY <2>1, <2>4
<1>7. Eq(loop)
  <2> HIDE DEF Eq
  <2> QED  BY <1>6
<1> HIDE DEF loop
<1>8. loop[0] = {st} /\ \A k \in 1..N : loop[k] = FreedStep(loop[k - 1], len)
  <2> DEFINE base == {st}
  <2> HIDE DEF N, base
  <2>1. loop = [k \in 0..N |-> IF k = 0 THEN base ELSE FreedStep(loop[k - 1], len)]  BY <1>7 DEF base
  <2>2. loop[0] = base /\ \A k \in 1..N : loop[k] = FreedStep(loop[k - 1], len)  BY <1>1, <2>1
  <2> QED  BY <2>2 DEF base
<1> HIDE DEF Eq, step
<1>9. \A k \in 1..N : loop[k - 1] \in I[k - 1] => loop[k] \in I[k]
  <2> HIDE DEF I, N
  <2> QED  BY <1>3, <1>8
<1>10. loop[N] \in I[N]
  <2>1. loop[0] \in I[0]  BY <1>2, <1>8
  <2> HIDE DEF I, N
  <2> QED  BY <1>1, <1>9, <2>1, LoopEnd
<1>11. Freed(st, len) = loop[N]  BY DEF Freed, loop, Eq, FreedStep
<1>12. u \in Freeing(st, len, N)
  <2>1. N \in 0..N  BY <1>1
  <2> QED  BY <1>10, <1>11, <2>1
<1>13. Good(u) /\ Shrunk(st, u) /\ (u.total + len <= MaxBuffered \/ u.total <= st.total - MaxBuffered)
  BY <1>12 DEF Freeing
<1>14. u.total \in Nat  BY <1>13, BytesFinite DEF Good, Sound
<1>15. u.total + len <= MaxBuffered  BY <1>1, <1>13, <1>14
<1> QED  BY <1>13, <1>15

-----------------------------------------------------------------------------
(***************************************************************************)
(* Trickle timers.                                                          *)
(***************************************************************************)
LEMMA TrickleData ==
    /\ Data.Imin \in Nat /\ Data.Imin >= 1 /\ Data.Imax \in Nat /\ Data.Imin <= Data.Imax
    /\ Data.Expirations \in 0..Infinite /\ Infinite \in Nat /\ TimeMax \in Nat
  BY MplAssumption

LEMMA TimerFields ==
    /\ \A tr \in T!Timers(Data) :
          /\ tr.e \in 0..Infinite /\ tr.I \in Data.Imin..Data.Imax /\ tr.t \in 1..Data.Imax
          /\ tr.now \in 0..Data.Imax /\ tr.c \in 0..255
          /\ tr = [e |-> tr.e, I |-> tr.I, t |-> tr.t, now |-> tr.now, c |-> tr.c]
    /\ \A e \in 0..Infinite, I \in Data.Imin..Data.Imax, t \in 1..Data.Imax, now \in 0..Data.Imax, c \in 0..255 :
          [e |-> e, I |-> I, t |-> t, now |-> now, c |-> c] \in T!Timers(Data)
  BY DEF T!Timers, T!CounterMax

LEMMA IntervalBegun ==
    ASSUME NEW tr \in T!Timers(Data), NEW x \in T!BeginInterval(tr)
    PROVE  x \in T!Timers(Data)
<1>1. PICK y \in T!FireTimes(tr.I) : x = [tr EXCEPT !.c = 0, !.t = y, !.now = 0]
  BY DEF T!BeginInterval
<1>2. tr.I \in Data.Imin..Data.Imax  BY DEF T!Timers
<1>3. y \in 1..Data.Imax  BY <1>2, TrickleData DEF T!FireTimes
<1>4. x = [e |-> tr.e, I |-> tr.I, t |-> y, now |-> 0, c |-> 0]  BY <1>1 DEF T!Timers
<1>5. 0 \in 0..Data.Imax /\ 0 \in 0..255  BY TrickleData
<1> QED  BY <1>3, <1>4, <1>5, TimerFields

LEMMA Started == \A tr \in T!Start(Data) : tr \in T!Timers(Data)
<1> SUFFICES ASSUME NEW tr \in T!Start(Data) PROVE tr \in T!Timers(Data)
  OBVIOUS
<1>1. PICK I \in Data.Imin..Data.Imax :
        tr \in T!BeginInterval([e |-> 0, I |-> I, t |-> 1, now |-> 0, c |-> 0])
  BY DEF T!Start
<1> DEFINE b == [e |-> 0, I |-> I, t |-> 1, now |-> 0, c |-> 0]
<1>2. b \in T!Timers(Data)  BY TrickleData DEF T!Timers, T!CounterMax
<1> HIDE DEF b
<1>3. tr \in T!BeginInterval(b)  BY <1>1 DEF b
<1> QED  BY <1>2, <1>3, IntervalBegun

LEMMA TricklesTyped == Trickles \subseteq T!Timers(Data)
<1> SUFFICES ASSUME NEW tr \in Trickles PROVE tr \in T!Timers(Data)
  OBVIOUS
<1>1. CASE Proactive  BY <1>1, Started DEF Trickles
<1>2. CASE ~Proactive
  <2>1. PICK x \in T!Start(Data) : tr = T!Stop(x)  BY <1>2 DEF Trickles
  <2>2. x \in T!Timers(Data)  BY Started
  <2> QED  BY <2>1, <2>2, TrickleData DEF T!Stop, T!Timers
<1> QED  BY <1>1, <1>2

LEMMA InconsistentTyped ==
    ASSUME NEW tr \in T!Timers(Data), NEW x \in T!InconsistentHeard(tr, Data)
    PROVE  x \in T!Timers(Data)
<1> DEFINE b == [tr EXCEPT !.e = 0, !.I = Data.Imin]
<1>1. b \in T!Timers(Data)
  <2> DEFINE low == Data.Imin
             none == 0
  <2>1. none \in 0..Infinite /\ low \in Data.Imin..Data.Imax  BY TrickleData
  <2> HIDE DEF low, none
  <2>2. [tr EXCEPT !.e = none, !.I = low] \in T!Timers(Data)  BY <2>1 DEF T!Timers
  <2> QED  BY <2>2 DEF low, none
<1>2. x = tr \/ x \in T!BeginInterval(b)  BY DEF T!InconsistentHeard, T!ResetTimer
<1> HIDE DEF b
<1> QED  BY <1>1, <1>2, IntervalBegun

LEMMA ConsistentTyped ==
    ASSUME NEW tr \in T!Timers(Data)
    PROVE  /\ T!ConsistentHeard(tr) \in T!Timers(Data)
           /\ T!Running(T!ConsistentHeard(tr), Data) <=> T!Running(tr, Data)
  BY DEF T!ConsistentHeard, T!Timers, T!Running, T!CounterMax

LEMMA TickedTyped ==
    ASSUME NEW tr \in T!Timers(Data), NEW x \in T!Ticked(tr, Data)
    PROVE  x \in T!Timers(Data)
<1> DEFINE now == IF tr.now = TimeMax THEN TimeMax ELSE tr.now + 1
           I == T!Doubled(tr.I, Data)
           e == IF tr.e < Infinite - 1 THEN tr.e + 1 ELSE tr.e
           b == [tr EXCEPT !.I = I, !.e = e]
<1>1. /\ tr.e \in 0..Infinite /\ tr.I \in Data.Imin..Data.Imax /\ tr.now \in 0..Data.Imax
  BY DEF T!Timers
<1>2. I \in Data.Imin..Data.Imax
  <2> DEFINE twice == IF tr.I <= TimeMax \div 2 THEN 2 * tr.I ELSE TimeMax
  <2>1. I = IF twice > Data.Imax THEN Data.Imax ELSE twice  BY DEF T!Doubled
  <2>2. Data.Imax < TimeMax  BY MplAssumption
  <2>3. twice \in Nat /\ twice >= Data.Imin  BY <1>1, <2>2, TrickleData
  <2> HIDE DEF I, twice
  <2> QED  BY <2>1, <2>3, TrickleData
<1>3. e \in 0..Infinite  BY <1>1, TrickleData
<1>4. b \in T!Timers(Data)
  <2> HIDE DEF I, e
  <2> QED  BY <1>2, <1>3 DEF T!Timers
<1>5. x = tr \/ (now < tr.I /\ x = [tr EXCEPT !.now = now]) \/ x \in T!BeginInterval(b)
  BY DEF T!Ticked
<1>6. now < tr.I => now \in 0..Data.Imax  BY <1>1, TrickleData
<1> HIDE DEF now, b
<1>7. CASE now < tr.I /\ x = [tr EXCEPT !.now = now]  BY <1>6, <1>7 DEF T!Timers
<1>8. CASE x \in T!BeginInterval(b)  BY <1>4, <1>8, IntervalBegun
<1> QED  BY <1>5, <1>7, <1>8

-----------------------------------------------------------------------------
(***************************************************************************)
(* Taking a message in.                                                     *)
(***************************************************************************)
LEMMA Greatest ==
    ASSUME NEW n \in Nat, NEW S, S \subseteq 1..n, S # {}
    PROVE  Max(S) \in S /\ \A y \in S : Max(S) >= y
<1> DEFINE D == {n - x : x \in S}
<1>1. D \subseteq Nat /\ D # {}
  <2>1. ASSUME NEW x \in S PROVE n - x \in Nat  OBVIOUS
  <2>2. D \subseteq Nat  BY <2>1
  <2>3. PICK z \in S : TRUE  OBVIOUS
  <2>4. n - z \in D  OBVIOUS
  <2> HIDE DEF D
  <2> QED  BY <2>2, <2>4
<1>2. PICK d \in D : \A y \in D : d <= y
  <2> HIDE DEF D
  <2> QED  BY <1>1, LeastNat
<1>3. PICK x \in S : d = n - x  OBVIOUS
<1>4. ASSUME NEW y \in S PROVE x >= y
  <2>1. n - y \in D  OBVIOUS
  <2> QED  BY <1>2, <1>3, <2>1
<1>5. \E z \in S : \A y \in S : z >= y  BY <1>4
<1> QED  BY <1>5 DEF Max

LEMMA InsertFacts ==
    ASSUME NEW e, Listed(e), e.alive, NEW m \in Message, m.seq \in Numbers, ~HoldsSeq(e, m.seq)
    PROVE  LET l == Insert(e.msgs, m)
           IN  /\ l \in Seq(Message) /\ Listed([e EXCEPT !.msgs = l])
               /\ Range(l) = Range(e.msgs) \cup {m}
<1> DEFINE q == e.msgs
           n == Len(q)
           before == {i \in DOMAIN q : After(m.seq, q[i].seq)}
           p == IF before = {} THEN 1 ELSE Max(before) + 1
           l == Insert(q, m)
           d == [e EXCEPT !.msgs = l]
<1>1. e \in Entry /\ q \in Seq(Message) /\ n \in Nat /\ DOMAIN q = 1..n  BY EntryFields DEF Listed
<1>2. Range(q) = {q[i] : i \in 1..n}
  <2> HIDE DEF q
  <2> QED  BY <1>1, RangeIs
<1>3. /\ \A i \in 1..n : q[i].seq \in Windows /\ q[i].seq # m.seq
      /\ m.seq \in Windows
  BY <1>2, SeqOrder DEF Listed, HoldsSeq
<1>4. l = InsertAt(q, p, m)  BY DEF Insert
<1>5. \A i, j \in 1..n : j < i => After(q[i].seq, q[j].seq)  BY DEF Listed
<1>6. \A i \in 1..n : q[i].seq \in Numbers  BY DEF Listed
<1> HIDE DEF q, n
<1>7. /\ p \in 1..(n + 1) /\ \A i \in 1..n : i < p => After(m.seq, q[i].seq)
      /\ \A i \in 1..n : i >= p => After(q[i].seq, m.seq)
  <2>1. CASE before = {}
    <3>1. p = 1 /\ \A i \in 1..n : ~(i < 1)  BY <1>1, <2>1
    <3>2. \A i \in 1..n : ~After(m.seq, q[i].seq)  BY <1>1, <2>1
    <3>3. \A i \in 1..n : After(q[i].seq, m.seq)  BY <1>3, <3>2, SeqOrder
    <3> HIDE DEF p, before
    <3>4. 1 \in 1..(n + 1)  BY <1>1
    <3> QED  BY <3>1, <3>3, <3>4
  <2>2. CASE before # {}
    <3> DEFINE b == Max(before)
    <3>1. b \in before /\ \A y \in before : b >= y
      <4>1. before \subseteq 1..n  BY <1>1
      <4> HIDE DEF before
      <4> QED  BY <1>1, <2>2, <4>1, Greatest
    <3>2. p = b + 1 /\ b \in 1..n /\ After(m.seq, q[b].seq)  BY <1>1, <2>2, <3>1
    <3>6. \A i \in 1..n : i \in before <=> After(m.seq, q[i].seq)  BY <1>1
    <3> HIDE DEF b, p, before
    <3>3. \A i \in 1..n : i > b => ~After(m.seq, q[i].seq)  BY <1>1, <3>1, <3>2, <3>6
    <3>4. ASSUME NEW i \in 1..n, i < p PROVE After(m.seq, q[i].seq)
      <4>1. i = b \/ i < b  BY <1>1, <3>2, <3>4
      <4>2. CASE i < b
        <5>1. After(q[b].seq, q[i].seq)  BY <1>5, <3>2, <4>2
        <5> QED  BY <1>3, <3>2, <5>1, SeqOrder
      <4> QED  BY <3>2, <4>1, <4>2
    <3>5. ASSUME NEW i \in 1..n, i >= p PROVE After(q[i].seq, m.seq)
      <4>1. i > b  BY <1>1, <3>2, <3>5
      <4> QED  BY <1>3, <3>3, <4>1, SeqOrder
    <3> QED  BY <1>1, <3>2, <3>4, <3>5
  <2> QED  BY <2>1, <2>2
<1> HIDE DEF p, before
<1>8. /\ l \in Seq(Message) /\ Len(l) = n + 1
      /\ \A j \in 1..(n + 1) : l[j] = IF j < p THEN q[j] ELSE IF j = p THEN m ELSE q[j - 1]
  <2>1. p \in 1..(Len(q) + 1)  BY <1>7 DEF n
  <2> DEFINE a == InsertAt(q, p, m)
  <2>2. /\ a \in Seq(Message) /\ Len(a) = Len(q) + 1
        /\ \A j \in 1..(Len(q) + 1) : a[j] = IF j < p THEN q[j] ELSE IF j = p THEN m ELSE q[j - 1]
    BY <1>1, <2>1, InsertAtFacts
  <2> HIDE DEF a
  <2> QED  BY <1>4, <2>2 DEF n, a
<1>9. d \in Entry /\ d.msgs = l /\ d.alive = e.alive /\ d.min = e.min
  <2> HIDE DEF l
  <2> QED  BY <1>1, <1>8, EntryFields
<1> HIDE DEF l, d
<1>10. ASSUME NEW j \in 1..(n + 1)
       PROVE  l[j] = m \/ \E i \in 1..n : l[j] = q[i]
  <2>1. CASE j < p  BY <1>1, <1>7, <1>8, <2>1
  <2>2. CASE j = p  BY <1>7, <1>8, <2>2
  <2>3. CASE j > p
    <3>1. j - 1 \in 1..n /\ ~(j < p) /\ j # p  BY <1>1, <1>7, <2>3
    <3> QED  BY <1>8, <3>1
  <2> QED  BY <1>1, <1>7, <2>1, <2>2, <2>3
<1>11. ASSUME NEW j \in 1..(n + 1), NEW k \in 1..(n + 1), k < j PROVE After(l[j].seq, l[k].seq)
  <2>1. CASE j < p
    <3>1. l[j] = q[j] /\ l[k] = q[k] /\ j \in 1..n /\ k \in 1..n  BY <1>1, <1>7, <1>8, <1>11, <2>1
    <3> QED  BY <1>5, <1>11, <3>1
  <2>2. CASE j = p
    <3>1. l[j] = m /\ l[k] = q[k] /\ k \in 1..n /\ k < p  BY <1>1, <1>7, <1>8, <1>11, <2>2
    <3> QED  BY <1>7, <3>1
  <2>3. CASE j > p /\ k < p
    <3> DEFINE a == j - 1
    <3>1. l[j] = q[a] /\ a \in 1..n /\ k \in 1..n /\ l[k] = q[k] /\ k < a
      BY <1>1, <1>7, <1>8, <1>11, <2>3
    <3> HIDE DEF a
    <3> QED  BY <1>5, <3>1
  <2>4. CASE j > p /\ k = p
    <3> DEFINE a == j - 1
    <3>1. l[j] = q[a] /\ a \in 1..n /\ l[k] = m /\ a >= p
      BY <1>1, <1>7, <1>8, <1>11, <2>4
    <3> HIDE DEF a
    <3> QED  BY <1>7, <3>1
  <2>5. CASE j > p /\ k > p
    <3> DEFINE a == j - 1
               b == k - 1
    <3>1. l[j] = q[a] /\ a \in 1..n /\ l[k] = q[b] /\ b \in 1..n /\ b < a
      BY <1>1, <1>7, <1>8, <1>11, <2>5
    <3> HIDE DEF a, b
    <3> QED  BY <1>5, <3>1
  <2> QED  BY <1>1, <1>7, <2>1, <2>2, <2>3, <2>4, <2>5
<1>12. Listed(d)
  <2>1. d.alive /\ d.min \in Windows  BY <1>9 DEF Listed
  <2>2. \A j \in 1..Len(d.msgs) : d.msgs[j].seq \in Numbers  BY <1>6, <1>8, <1>9, <1>10
  <2> QED  BY <1>8, <1>9, <1>11, <2>1, <2>2 DEF Listed
<1>13. Range(l) = Range(q) \cup {m}
  <2>1. Range(l) = {l[j] : j \in 1..(n + 1)}  BY <1>8, RangeIs
  <2>2. l[p] = m  BY <1>7, <1>8
  <2>3. ASSUME NEW i \in 1..n PROVE \E j \in 1..(n + 1) : l[j] = q[i]
    <3>1. CASE i < p
      <4>1. i \in 1..(n + 1) /\ l[i] = q[i]  BY <1>1, <1>7, <1>8, <3>1
      <4> QED  BY <4>1
    <3>2. CASE i >= p
      <4>1. i + 1 \in 1..(n + 1) /\ ~(i + 1 < p) /\ i + 1 # p /\ i + 1 - 1 = i  BY <1>1, <1>7, <3>2
      <4>2. l[i + 1] = q[i]  BY <1>8, <4>1
      <4> QED  BY <4>1, <4>2
    <3> QED  BY <1>1, <1>7, <3>1, <3>2
  <2> QED  BY <1>2, <1>7, <1>10, <2>1, <2>2, <2>3
<1> QED  BY <1>8, <1>12, <1>13 DEF l, d, q

LEMMA BufferedFacts ==
    ASSUME NEW st, Good(st), st.total <= MaxBuffered, NEW s \in Seeds, st.seed[s].alive,
           NEW q \in Numbers, ~HoldsSeq(st.seed[s], q), NEW len \in 1..MaxBuffered,
           NEW u \in Buffered(st, s, q, len)
    PROVE  /\ Good(u) /\ u.total <= MaxBuffered
           /\ \A x \in Seeds : /\ u.seed[x].alive <=> st.seed[x].alive
                               /\ \A y \in Numbers : Passes(st.seed[x], y) => Passes(u.seed[x], y)
           /\ Passes(u.seed[s], q)
           /\ HoldsSeq(u.seed[s], q) \/ Shrunk(st, u)
<1>1. PICK t \in Freed(st, len) :
        u \in (IF PassedBy(t, s, q) THEN {t}
               ELSE {[t EXCEPT !.seed[s].msgs = Insert(@, [seq |-> q, len |-> len, age |-> 0, tr |-> tr]),
                               !.total = @ + len] : tr \in Trickles})
  BY DEF Buffered
<1>2. Good(t) /\ Shrunk(st, t) /\ t.total + len <= MaxBuffered  BY FreedFacts
<1>3. /\ t \in States /\ t.total \in Int /\ Sound(t) /\ Listed(t.seed[s]) /\ Windowed(t.seed[s])
      /\ len \in Nat /\ MaxBuffered \in Nat
  <2>1. MaxBuffered \in Nat  BY MplAssumption
  <2>2. Sound(t) /\ Windowed(t.seed[s])  BY <1>2 DEF Good
  <2>3. t \in States /\ Listed(t.seed[s])  BY <2>2 DEF Sound
  <2>4. t.total \in Int  BY <2>3, StateFields
  <2>5. len \in Nat  BY <2>1
  <2> QED  BY <2>1, <2>2, <2>3, <2>4, <2>5
<1>4. t.seed[s].alive  BY <1>2 DEF Shrunk
<1>5. CASE PassedBy(t, s, q)
  <2>1. u = t /\ After(t.seed[s].min, q)  BY <1>1, <1>5 DEF PassedBy, TooOld
  <2>2. Passes(u.seed[s], q)  BY <1>4, <2>1 DEF Passes
  <2>3. u.total <= MaxBuffered  BY <1>2, <1>3, <2>1
  <2> QED  BY <1>2, <2>1, <2>2, <2>3 DEF Shrunk
<1>6. CASE ~PassedBy(t, s, q)
  <2>1. PICK tr \in Trickles :
          u = [t EXCEPT !.seed[s].msgs = Insert(@, [seq |-> q, len |-> len, age |-> 0, tr |-> tr]),
                        !.total = @ + len]
    BY <1>1, <1>6
  <2> DEFINE m == [seq |-> q, len |-> len, age |-> 0, tr |-> tr]
             e == t.seed[s]
             l == Insert(e.msgs, m)
             d == [e EXCEPT !.msgs = l]
             k == t.total + len
  <2>2. u = Relist(t, s, l, k)  BY <2>1 DEF Relist
  <2>3. m \in Message /\ m.seq = q /\ m.len = len
    <3>1. q \in Seqs /\ tr \in T!Timers(Data)  BY SeqOrder, TricklesTyped
    <3>2. 0 \in 0..AgeLimit  BY MplAssumption
    <3> QED  BY <3>1, <3>2 DEF Message
  <2>4. ~HoldsSeq(e, q)  BY <1>2 DEF Shrunk, HoldsSeq
  <2>5. ~After(e.min, q) /\ e.alive /\ Listed(e) /\ Windowed(e) /\ e \in Entry
    BY <1>3, <1>4, <1>6 DEF PassedBy, TooOld, Listed
  <2> HIDE DEF m
  <2>6. l \in Seq(Message) /\ Listed(d) /\ Range(l) = Range(e.msgs) \cup {m}
    <3> HIDE DEF e
    <3> QED  BY <2>3, <2>4, <2>5, InsertFacts
  <2>7. d.msgs = l /\ d.alive = e.alive /\ d.min = e.min
    <3> HIDE DEF e, l
    <3> QED  BY <2>5, <2>6, EntryFields
  <2>8. u \in States /\ u.total = k /\ u.seed[s] = d /\ \A x \in Seeds \ {s} : u.seed[x] = t.seed[x]
    <3>1. k \in Int  BY <1>3
    <3> DEFINE a == Relist(t, s, l, k)
    <3> HIDE DEF k, l
    <3>2. /\ a \in States /\ a.total = k /\ a.seed[s] = [t.seed[s] EXCEPT !.msgs = l]
          /\ \A x \in Seeds \ {s} : a.seed[x] = t.seed[x]
      BY <1>3, <2>6, <3>1, RelistFacts
    <3> HIDE DEF a
    <3>3. u = a  BY <2>2 DEF a
    <3> QED  BY <3>2, <3>3
  <2>9. t.seed[s].msgs = e.msgs /\ t.seed[s] = e  OBVIOUS
  <2> HIDE DEF e, l, d, k
  <2>10. OneMore(u.seed, t.seed, s, m)
    <3>1. \A o \in Range(e.msgs) : o.seq # m.seq  BY <2>3, <2>4 DEF HoldsSeq
    <3> QED  BY <2>6, <2>7, <2>8, <2>9, <3>1 DEF OneMore
  <2>11. u.total = Cardinality(Bytes(u.seed))
    <3>1. Cardinality(Bytes(u.seed)) = Cardinality(Bytes(t.seed)) + len
      BY <2>3, <2>10, BytesOneMore
    <3> QED  BY <1>3, <2>8, <3>1 DEF Sound, k
  <2>12. Sound(u)  BY <1>3, <2>6, <2>8, <2>11 DEF Sound
  <2>13. Windowed(d)
    <3> SUFFICES ASSUME NEW i \in 1..Len(l) PROVE ~After(e.min, l[i].seq)
      BY <2>7 DEF Windowed
    <3>1. l[i] \in Range(l)  BY <2>6, RangeIs
    <3>2. CASE l[i] = m  BY <2>3, <2>5, <3>2
    <3>3. CASE l[i] \in Range(e.msgs)
      <4>1. e.msgs \in Seq(Message)  BY <2>5, EntryFields
      <4>2. PICK j \in 1..Len(e.msgs) : l[i] = e.msgs[j]  BY <3>3, <4>1, RangeIs
      <4> QED  BY <2>5, <4>2 DEF Windowed
    <3> QED  BY <2>6, <3>1, <3>2, <3>3
  <2>14. Good(u)  BY <1>2, <2>8, <2>12, <2>13 DEF Good
  <2>15. HoldsSeq(u.seed[s], q)  BY <2>3, <2>6, <2>7, <2>8 DEF HoldsSeq
  <2>16. \A x \in Seeds : /\ u.seed[x].alive <=> t.seed[x].alive
                          /\ \A y \in Numbers : Passes(t.seed[x], y) => Passes(u.seed[x], y)
    <3> SUFFICES ASSUME NEW x \in Seeds
                 PROVE  /\ u.seed[x].alive <=> t.seed[x].alive
                        /\ \A y \in Numbers : Passes(t.seed[x], y) => Passes(u.seed[x], y)
      OBVIOUS
    <3>1. CASE x = s
      <4>1. \A y \in Numbers : HoldsSeq(e, y) => HoldsSeq(d, y)  BY <2>6, <2>7 DEF HoldsSeq
      <4>2. \A y \in Numbers : Passes(e, y) => Passes(d, y)  BY <2>7, <4>1 DEF Passes
      <4> QED  BY <2>7, <2>8, <2>9, <3>1, <4>2
    <3>2. CASE x # s  BY <2>8, <3>2
    <3> QED  BY <3>1, <3>2
  <2>17. \A x \in Seeds : /\ u.seed[x].alive <=> st.seed[x].alive
                          /\ \A y \in Numbers : Passes(st.seed[x], y) => Passes(u.seed[x], y)
    BY <1>2, <2>16 DEF Shrunk
  <2>18. Passes(u.seed[s], q)  BY <1>4, <2>15, <2>16 DEF Passes
  <2>19. u.total <= MaxBuffered  BY <1>2, <2>8 DEF k
  <2> QED  BY <2>14, <2>15, <2>17, <2>18, <2>19
<1> QED  BY <1>5, <1>6

LEMMA SeedCreatedFacts ==
    ASSUME NEW st, Good(st), NEW s \in Seeds, NEW q \in Numbers
    PROVE  LET t == SeedCreated(st, s, q)
           IN  /\ Good(t) /\ t.total = st.total /\ t.seed[s].alive
               /\ \A x \in Seeds : t.seed[x] = st.seed[x] \/ (x = s /\ ~st.seed[x].alive)
               /\ \A x \in Seeds : t.seed[x].msgs = st.seed[x].msgs
<1> DEFINE t == SeedCreated(st, s, q)
           e == [alive |-> TRUE, life |-> Lifetime, min |-> q, msgs |-> <<>>]
<1>1. CASE st.seed[s].alive  BY <1>1 DEF SeedCreated
<1>2. CASE ~st.seed[s].alive
  <2>1. t = Reentry(st, s, e)  BY <1>2 DEF SeedCreated, Reentry
  <2>2. st \in States /\ st.seed[s] = NoSeed  BY <1>2 DEF Good, Sound, Listed
  <2>3. e.msgs = <<>> /\ e.alive /\ e.min = q /\ Len(e.msgs) = 0 /\ st.seed[s].msgs = <<>>
    BY <2>2 DEF NoSeed
  <2>4. e \in Entry
    <3>1. q \in Seqs /\ Lifetime \in 0..Lifetime  BY SeqOrder, MplAssumption
    <3> QED  BY <3>1 DEF Entry
  <2> HIDE DEF e, t
  <2>5. \A i \in 1..Len(e.msgs) : FALSE  BY <2>3
  <2>6. Listed(e)  BY <2>3, <2>4, <2>5, SeqOrder DEF Listed
  <2>7. Windowed(e)  BY <2>5 DEF Windowed
  <2>8. /\ t.total = st.total /\ t.seed[s] = e
        /\ \A x \in Seeds \ {s} : t.seed[x] = st.seed[x]
    BY <2>1, <2>2, <2>4, ReentryFacts
  <2>9. Sound(t)  BY <2>1, <2>3, <2>6, ReentrySound DEF Good
  <2>10. Good(t)  BY <2>7, <2>8, <2>9 DEF Good
  <2>11. t.seed[s].alive  BY <2>3, <2>8
  <2>12. \A x \in Seeds : t.seed[x].msgs = st.seed[x].msgs  BY <2>3, <2>8
  <2> QED  BY <1>2, <2>8, <2>10, <2>11, <2>12 DEF t
<1> QED  BY <1>1, <1>2

-----------------------------------------------------------------------------
(***************************************************************************)
(* Other ages and Trickle timers for what is held.                          *)
(***************************************************************************)
Refreshed(st, t) ==
    /\ t \in States /\ t.total = st.total
    /\ \A s \in Seeds : /\ t.seed[s] = [st.seed[s] EXCEPT !.msgs = t.seed[s].msgs]
                        /\ Alike(t.seed[s].msgs, st.seed[s].msgs)

\* t knows the numbers that st knows.
SameNumbers(st, t) ==
    \A s \in Seeds : /\ t.seed[s].alive = st.seed[s].alive /\ t.seed[s].min = st.seed[s].min
                     /\ \A q \in Numbers : HoldsSeq(t.seed[s], q) <=> HoldsSeq(st.seed[s], q)

LEMMA RefreshedFacts ==
    ASSUME NEW st, Good(st), NEW t, Refreshed(st, t)
    PROVE  Good(t) /\ t.total = st.total /\ SameNumbers(st, t)
<1>1. st \in States /\ t \in States /\ t.total = st.total /\ Sound(st)
  BY DEF Good, Sound, Refreshed
<1>2. ASSUME NEW s \in Seeds
      PROVE  /\ Listed(t.seed[s]) /\ Windowed(t.seed[s])
             /\ t.seed[s].alive = st.seed[s].alive /\ t.seed[s].min = st.seed[s].min
             /\ \A q \in Numbers : HoldsSeq(t.seed[s], q) <=> HoldsSeq(st.seed[s], q)
  <2> DEFINE e == st.seed[s]
             d == t.seed[s]
             p == d.msgs
             q == e.msgs
  <2>1. /\ e \in Entry /\ d \in Entry /\ q \in Seq(Message) /\ p \in Seq(Message)
        /\ Listed(e) /\ Windowed(e)
    BY <1>1, StateFields DEF Good, Sound
  <2>2. d = [e EXCEPT !.msgs = p] /\ Alike(p, q)  BY DEF Refreshed
  <2>3. d.alive = e.alive /\ d.min = e.min
    <3> HIDE DEF e, d
    <3>1. [e EXCEPT !.msgs = p].alive = e.alive /\ [e EXCEPT !.msgs = p].min = e.min
      BY <2>1, EntryFields
    <3> QED  BY <2>2, <3>1
  <2>4. Range(p) = {p[i] : i \in 1..Len(p)} /\ Range(q) = {q[i] : i \in 1..Len(q)}
    <3> HIDE DEF p, q
    <3> QED  BY <2>1, RangeIs
  <2>5. /\ \A i \in 1..Len(q) : q[i].seq \in Numbers /\ ~After(e.min, q[i].seq)
        /\ \A i, j \in 1..Len(q) : j < i => After(q[i].seq, q[j].seq)
        /\ e.alive => e.min \in Windows
    BY <2>1 DEF Listed, Windowed
  <2>6. ~e.alive => d = NoSeed
    <3> SUFFICES ASSUME ~e.alive PROVE d = NoSeed
      OBVIOUS
    <3>1. e = NoSeed  BY <2>1 DEF Listed
    <3>2. Len(q) = 0  BY <3>1 DEF NoSeed
    <3> HIDE DEF e, d
    <3>3. Len(p) = 0  BY <2>2, <3>2 DEF Alike
    <3>4. p = <<>>  BY <2>1, <3>3
    <3>5. d = [NoSeed EXCEPT !.msgs = <<>>]  BY <2>2, <3>1, <3>4
    <3> QED  BY <3>5 DEF NoSeed
  <2> HIDE DEF p, q, e, d
  <2>7. Len(p) = Len(q) /\ \A i \in 1..Len(p) : p[i].seq = q[i].seq  BY <2>2 DEF Alike
  <2>8. d.msgs = p /\ e.msgs = q  BY DEF p, q
  <2>9. Listed(d)  BY <2>1, <2>3, <2>5, <2>6, <2>7, <2>8 DEF Listed
  <2>10. Windowed(d)  BY <2>3, <2>5, <2>7, <2>8 DEF Windowed
  <2>11. \A y : HoldsSeq(d, y) <=> HoldsSeq(e, y)  BY <2>4, <2>7, <2>8 DEF HoldsSeq
  <2> QED  BY <2>3, <2>9, <2>10, <2>11 DEF d, e
<1>3. Bytes(t.seed) = Bytes(st.seed)
  <2> DEFINE f == t.seed
             g == st.seed
  <2>1. \A s \in Seeds : /\ f[s].msgs \in Seq(Message) /\ g[s].msgs \in Seq(Message)
                         /\ Alike(f[s].msgs, g[s].msgs)
    BY <1>1, StateFields DEF Refreshed
  <2> HIDE DEF f, g
  <2>2. Bytes(f) = Bytes(g)  BY <2>1, BytesAlike
  <2> QED  BY <2>2 DEF f, g
<1>4. Sound(t)  BY <1>1, <1>2, <1>3 DEF Sound
<1>5. Good(t)  BY <1>2, <1>4 DEF Good
<1>6. SameNumbers(st, t)  BY <1>2 DEF SameNumbers
<1> QED  BY <1>1, <1>5, <1>6

\* A message that may take the place of another one.
Stands(x, m) == x \in Message /\ x.seq = m.seq /\ x.len = m.len

LEMMA OutcomeFacts ==
    ASSUME NEW q \in Seq(Message), NEW choice, DOMAIN choice = 1..Len(q),
           \A i \in 1..Len(q) : \A x \in choice[i] : Stands(x, q[i]),
           NEW l \in Outcomes(choice)
    PROVE  l \in Seq(Message) /\ Alike(l, q) /\ Len(l) = Len(q) /\ \A i \in 1..Len(q) : l[i] \in choice[i]
<1>1. l \in [1..Len(q) -> UNION Range(choice)] /\ \A i \in 1..Len(q) : l[i] \in choice[i]
  BY DEF Outcomes
<1>2. \A i \in 1..Len(q) : Stands(l[i], q[i])  BY <1>1
<1>3. l \in [1..Len(q) -> Message]  BY <1>1, <1>2 DEF Stands
<1>4. Len(q) \in Nat  OBVIOUS
<1>5. l \in Seq(Message) /\ Len(l) = Len(q)  BY <1>3, <1>4
<1> QED  BY <1>1, <1>2, <1>5 DEF Alike, Stands

LEMMA InconsistentFacts ==
    ASSUME NEW m \in Message, NEW differs, NEW x \in Inconsistent(m, differs)
    PROVE  Stands(x, m) /\ (~differs => x = m)
<1>1. CASE ~differs
  <2>1. x = m  BY <1>1 DEF Inconsistent
  <2> QED  BY <2>1 DEF Stands
<1>2. CASE differs
  <2>1. PICK tr \in T!InconsistentHeard(m.tr, Data) : x = [m EXCEPT !.tr = tr]  BY <1>2 DEF Inconsistent
  <2>2. m.tr \in T!Timers(Data)  BY MessageFields
  <2>3. tr \in T!Timers(Data)  BY <2>2, InconsistentTyped
  <2> QED  BY <1>2, <2>1, <2>3 DEF Stands, Message
<1> QED  BY <1>1, <1>2

LEMMA RelistSame ==
    ASSUME NEW st \in States, NEW s \in Seeds, NEW l
    PROVE  [st EXCEPT !.seed[s].msgs = l] = Relist(st, s, l, st.total)
<1> DEFINE f == [st.seed EXCEPT ![s].msgs = l]
<1>1. [st EXCEPT !.seed = f] = [st EXCEPT !.seed = f, !.total = st.total]
  <2> HIDE DEF f
  <2> QED  BY DEF States
<1>2. [st EXCEPT !.seed[s].msgs = l] = [st EXCEPT !.seed = f]  OBVIOUS
<1>3. Relist(st, s, l, st.total) = [st EXCEPT !.seed = f, !.total = st.total]  BY DEF Relist
<1> QED  BY <1>1, <1>2, <1>3

LEMMA RelistRefreshed ==
    ASSUME NEW st, Good(st), NEW s \in Seeds, NEW l \in Seq(Message), Alike(l, st.seed[s].msgs)
    PROVE  LET t == [st EXCEPT !.seed[s].msgs = l]
           IN  /\ Refreshed(st, t) /\ t.seed[s].msgs = l
               /\ \A x \in Seeds \ {s} : t.seed[x] = st.seed[x]
<1> DEFINE t == [st EXCEPT !.seed[s].msgs = l]
           k == st.total
<1>1. st \in States /\ k \in Int /\ \A x \in Seeds : st.seed[x] \in Entry
  BY StateFields DEF Good, Sound
<1>2. t = Relist(st, s, l, k)  BY <1>1, RelistSame
<1> HIDE DEF k, t
<1>3. /\ t \in States /\ t.total = k /\ t.seed[s] = [st.seed[s] EXCEPT !.msgs = l]
      /\ \A x \in Seeds \ {s} : t.seed[x] = st.seed[x]
  BY <1>1, <1>2, RelistFacts
<1>4. t.seed[s].msgs = l  BY <1>1, <1>3, EntryFields
<1>5. ASSUME NEW x \in Seeds
      PROVE  t.seed[x] = [st.seed[x] EXCEPT !.msgs = t.seed[x].msgs] /\ Alike(t.seed[x].msgs, st.seed[x].msgs)
  <2>1. CASE x = s  BY <1>3, <1>4, <2>1
  <2>2. CASE x # s
    <3> DEFINE e == st.seed[x]
    <3>1. t.seed[x] = e /\ e \in Entry  BY <1>1, <1>3, <2>2
    <3>2. e = [e EXCEPT !.msgs = e.msgs]
      <4> HIDE DEF e
      <4> QED  BY <3>1 DEF Entry
    <3>3. Alike(e.msgs, e.msgs)  BY DEF Alike
    <3> HIDE DEF e
    <3>4. st.seed[x] = e  BY DEF e
    <3> QED  BY <3>1, <3>2, <3>3, <3>4
  <2> QED  BY <2>1, <2>2
<1>6. Refreshed(st, t)  BY <1>3, <1>5 DEF Refreshed, k
<1> QED  BY <1>3, <1>4, <1>6 DEF t

LEMMA MarkedFacts ==
    ASSUME NEW st, Good(st), NEW s \in Seeds, NEW q, NEW newest, NEW t \in MarkedStates(st, s, q, newest)
    PROVE  /\ Refreshed(st, t)
           /\ ~Marks(st, s, q, newest) => \A x \in Seeds : t.seed[x].msgs = st.seed[x].msgs
<1> DEFINE msgs == st.seed[s].msgs
           marked == [i \in DOMAIN msgs |-> Inconsistent(msgs[i], newest /\ After(msgs[i].seq, q))]
<1>1. PICK l \in Outcomes(marked) : t = [st EXCEPT !.seed[s].msgs = l]  BY DEF MarkedStates
<1>2. msgs \in Seq(Message) /\ DOMAIN msgs = 1..Len(msgs)  BY StateFields DEF Good, Sound
<1>3. ASSUME NEW i \in 1..Len(msgs), NEW x \in marked[i]
      PROVE  Stands(x, msgs[i]) /\ (~(newest /\ After(msgs[i].seq, q)) => x = msgs[i])
  <2> DEFINE m == msgs[i]
             differs == newest /\ After(m.seq, q)
  <2>1. m \in Message /\ x \in Inconsistent(m, differs)  BY <1>2
  <2> HIDE DEF m, differs
  <2>2. Stands(x, m) /\ (~differs => x = m)  BY <2>1, InconsistentFacts
  <2> QED  BY <2>2 DEF m, differs
<1>4. DOMAIN marked = 1..Len(msgs)  BY <1>2
<1>5. /\ l \in Seq(Message) /\ Alike(l, msgs) /\ Len(l) = Len(msgs)
      /\ \A i \in 1..Len(msgs) : l[i] \in marked[i]
  <2> HIDE DEF msgs, marked
  <2> QED  BY <1>2, <1>3, <1>4, OutcomeFacts
<1>6. Refreshed(st, t) /\ t.seed[s].msgs = l /\ \A x \in Seeds \ {s} : t.seed[x] = st.seed[x]
  BY <1>1, <1>5, RelistRefreshed
<1>7. ASSUME ~Marks(st, s, q, newest) PROVE l = msgs
  <2>1. Range(msgs) = {msgs[i] : i \in 1..Len(msgs)}
    <3> HIDE DEF msgs
    <3> QED  BY <1>2, RangeIs
  <2>2. \A i \in 1..Len(msgs) : ~(newest /\ After(msgs[i].seq, q))  BY <1>7, <2>1 DEF Marks
  <2>3. \A i \in 1..Len(msgs) : l[i] = msgs[i]
    <3> HIDE DEF msgs, marked
    <3> QED  BY <1>3, <1>5, <2>2
  <2> HIDE DEF msgs
  <2> QED  BY <1>2, <1>5, <2>3
<1> QED  BY <1>6, <1>7

LEMMA HeardAgainFacts ==
    ASSUME NEW st, Good(st), NEW s \in Seeds, NEW q
    PROVE  LET t == HeardAgain(st, s, q)
           IN  Refreshed(st, t) /\ (AnyRunning(t.seed) => AnyRunning(st.seed))
<1> DEFINE msgs == st.seed[s].msgs
           l == [i \in DOMAIN msgs |->
                   IF msgs[i].seq = q THEN [msgs[i] EXCEPT !.tr = T!ConsistentHeard(@)] ELSE msgs[i]]
           t == HeardAgain(st, s, q)
<1>1. msgs \in Seq(Message) /\ DOMAIN msgs = 1..Len(msgs) /\ Len(msgs) \in Nat
      /\ st \in States
  BY StateFields DEF Good, Sound
<1>2. t = [st EXCEPT !.seed[s].msgs = l]  BY DEF HeardAgain
<1>3. ASSUME NEW i \in 1..Len(msgs)
      PROVE  Stands(l[i], msgs[i]) /\ (T!Running(l[i].tr, Data) <=> T!Running(msgs[i].tr, Data))
  <2> DEFINE m == msgs[i]
             n == [m EXCEPT !.tr = T!ConsistentHeard(m.tr)]
  <2>1. m \in Message /\ m.tr \in T!Timers(Data)  BY <1>1, MessageFields
  <2>2. l[i] = IF m.seq = q THEN n ELSE m  BY <1>1
  <2> HIDE DEF m, l
  <2>3. /\ T!ConsistentHeard(m.tr) \in T!Timers(Data)
        /\ T!Running(T!ConsistentHeard(m.tr), Data) <=> T!Running(m.tr, Data)
    BY <2>1, ConsistentTyped
  <2>4. n \in Message /\ n.seq = m.seq /\ n.len = m.len /\ n.tr = T!ConsistentHeard(m.tr)
    BY <2>1, <2>3 DEF Message
  <2> HIDE DEF n
  <2>5. Stands(l[i], m) /\ (T!Running(l[i].tr, Data) <=> T!Running(m.tr, Data))
    BY <2>1, <2>2, <2>3, <2>4 DEF Stands
  <2> QED  BY <2>5 DEF m
<1>4. l \in Seq(Message) /\ Len(l) = Len(msgs)
  <2>1. l = [i \in 1..Len(msgs) |-> l[i]]  BY <1>1
  <2>2. \A i \in 1..Len(msgs) : l[i] \in Message  BY <1>3 DEF Stands
  <2> HIDE DEF l, msgs
  <2>3. l \in [1..Len(msgs) -> Message]  BY <2>1, <2>2
  <2> QED  BY <1>1, <2>3
<1>5. Alike(l, msgs)
  <2> HIDE DEF l, msgs
  <2> QED  BY <1>3, <1>4 DEF Alike, Stands
<1> HIDE DEF l
<1>6. Refreshed(st, t) /\ t.seed[s].msgs = l /\ \A x \in Seeds \ {s} : t.seed[x] = st.seed[x]
  <2> HIDE DEF t
  <2> QED  BY <1>2, <1>4, <1>5, RelistRefreshed
<1> HIDE DEF t
<1>7. ASSUME AnyRunning(t.seed) PROVE AnyRunning(st.seed)
  <2>1. PICK x \in Seeds : \E m \in Range(t.seed[x].msgs) : T!Running(m.tr, Data)
    BY <1>7 DEF AnyRunning
  <2>2. CASE x # s  BY <1>6, <2>1, <2>2 DEF AnyRunning
  <2>3. CASE x = s
    <3>1. PICK m \in Range(l) : T!Running(m.tr, Data)  BY <1>6, <2>1, <2>3
    <3>2. PICK i \in 1..Len(msgs) : m = l[i]  BY <1>4, RangeIs
    <3>3. T!Running(msgs[i].tr, Data)  BY <1>3, <3>1, <3>2
    <3>4. msgs[i] \in Range(msgs)
      <4> HIDE DEF msgs
      <4> QED  BY <1>1, RangeIs
    <3> QED  BY <3>3, <3>4 DEF AnyRunning
  <2> QED  BY <2>2, <2>3
<1> QED  BY <1>6, <1>7 DEF t

-----------------------------------------------------------------------------
(***************************************************************************)
(* mpl_forwarder_process_message().                                         *)
(***************************************************************************)
LEMMA ShrunkRunning ==
    ASSUME NEW st, NEW t, Shrunk(st, t), AnyRunning(t.seed)
    PROVE  AnyRunning(st.seed)
  BY DEF Shrunk, AnyRunning

\* The life of seed s begins anew.
Renewed(st, s) == [st EXCEPT !.seed[s].life = Lifetime]

LEMMA RenewedFacts ==
    ASSUME NEW st, Good(st), NEW s \in Seeds, st.seed[s].alive
    PROVE  /\ Good(Renewed(st, s)) /\ Renewed(st, s).total = st.total
           /\ Renewed(st, s).seed[s].alive /\ Renewed(st, s).seed[s].min = st.seed[s].min
           /\ \A x \in Seeds : /\ Renewed(st, s).seed[x].msgs = st.seed[x].msgs
                               /\ Renewed(st, s).seed[x].min = st.seed[x].min
                               /\ Renewed(st, s).seed[x].alive <=> st.seed[x].alive
<1> DEFINE e == st.seed[s]
           d == Moved(e, e.min, Lifetime)
           t == Renewed(st, s)
           w == e.min
<1>1. st \in States /\ e \in Entry /\ Listed(e) /\ Windowed(e) /\ Sound(st)
  BY StateFields DEF Good, Sound
<1>2. t = Reentry(st, s, d)
  <2>1. [e EXCEPT !.life = Lifetime] = d  BY <1>1 DEF Moved, Entry
  <2>2. t = Reentry(st, s, [e EXCEPT !.life = Lifetime])  BY DEF Renewed, Reentry
  <2> QED  BY <2>1, <2>2
<1>3. w \in Windows /\ Lifetime \in 0..Lifetime /\ e.alive  BY <1>1, MplAssumption DEF Listed
<1>4. Listed(d) /\ d.msgs = e.msgs /\ d.min = w /\ d.alive
  <2> HIDE DEF e
  <2> QED  BY <1>1, <1>3, MovedFacts
<1>5. d \in Entry  BY <1>4 DEF Listed
<1> HIDE DEF d, t
<1>6. t.total = st.total /\ t.seed[s] = d /\ \A x \in Seeds \ {s} : t.seed[x] = st.seed[x]
  BY <1>1, <1>2, <1>5, ReentryFacts
<1>7. Sound(t)  BY <1>1, <1>2, <1>4, ReentrySound
<1>8. Windowed(d)  BY <1>1, <1>4 DEF Windowed
<1>9. Good(t)  BY <1>6, <1>7, <1>8 DEF Good
<1>10. ASSUME NEW x \in Seeds
       PROVE  /\ t.seed[x].msgs = st.seed[x].msgs /\ t.seed[x].min = st.seed[x].min
              /\ t.seed[x].alive <=> st.seed[x].alive
  BY <1>3, <1>4, <1>6
<1> QED  BY <1>4, <1>6, <1>9, <1>10 DEF t

\* What a message makes of the seeds: u knows what st knows, and number q.
Taken(st, u, s, q) ==
    /\ Good(u) /\ u.total <= MaxBuffered
    /\ \A x \in Seeds : /\ u.seed[x].alive <=> st.seed[x].alive
                        /\ \A y \in Numbers : Passes(st.seed[x], y) => Passes(u.seed[x], y)
    /\ Passes(u.seed[s], q)
    /\ AnyRunning(u.seed) => AnyRunning(st.seed) \/ (IsNew(st, s, q) /\ Holds(u, s, q))

LEMMA ProcessedFacts ==
    ASSUME NEW st, Good(st), st.total <= MaxBuffered, NEW s \in Seeds, st.seed[s].alive,
           NEW q \in Numbers, NEW len \in 1..MaxBuffered, NEW lasthop,
           NEW u \in Processed(st, s, q, len, lasthop)
    PROVE  Taken(st, u, s, q)
<1> DEFINE r == Renewed(st, s)
<1>1. /\ TooOld(st, s, q) <=> After(st.seed[s].min, q)
      /\ Holds(st, s, q) <=> HoldsSeq(st.seed[s], q)
      /\ Holds(u, s, q) <=> HoldsSeq(u.seed[s], q)
  BY DEF TooOld, Holds, HoldsSeq
<1>2. CASE TooOld(st, s, q)
  <2>1. u = st  BY <1>2 DEF Processed
  <2>2. Passes(u.seed[s], q)  BY <1>1, <1>2, <2>1 DEF Passes
  <2> QED  BY <2>1, <2>2 DEF Taken
<1>3. CASE ~TooOld(st, s, q) /\ Holds(st, s, q)
  <2>1. u = HeardAgain(st, s, q)  BY <1>3 DEF Processed
  <2>2. Refreshed(st, u) /\ (AnyRunning(u.seed) => AnyRunning(st.seed))  BY <2>1, HeardAgainFacts
  <2>3. Good(u) /\ u.total = st.total /\ SameNumbers(st, u)  BY <2>2, RefreshedFacts
  <2>4. \A x \in Seeds : /\ u.seed[x].alive <=> st.seed[x].alive
                         /\ \A y \in Numbers : Passes(st.seed[x], y) => Passes(u.seed[x], y)
    BY <2>3 DEF SameNumbers, Passes
  <2>5. Passes(st.seed[s], q)  BY <1>1, <1>3 DEF Passes
  <2> QED  BY <2>2, <2>3, <2>4, <2>5 DEF Taken
<1>4. CASE ~TooOld(st, s, q) /\ ~Holds(st, s, q)
  <2>1. u = MinAdvanced(r, s, NextSeq(q)) \/ u \in Buffered(r, s, q, len)
    BY <1>4 DEF Processed, Renewed
  <2>2. /\ Good(r) /\ r.total = st.total /\ r.seed[s].alive /\ r.seed[s].min = st.seed[s].min
        /\ \A x \in Seeds : /\ r.seed[x].msgs = st.seed[x].msgs /\ r.seed[x].min = st.seed[x].min
                            /\ r.seed[x].alive <=> st.seed[x].alive
    BY RenewedFacts
  <2> HIDE DEF r
  <2>3. ~After(r.seed[s].min, q) /\ ~HoldsSeq(r.seed[s], q)  BY <1>1, <1>4, <2>2 DEF HoldsSeq
  <2>4. AnyRunning(r.seed) => AnyRunning(st.seed)  BY <2>2 DEF AnyRunning
  <2>5. \A x \in Seeds : \A y \in Numbers : Passes(st.seed[x], y) => Passes(r.seed[x], y)
    BY <2>2 DEF Passes, HoldsSeq
  <2>6. r.total <= MaxBuffered /\ r.total \in Int /\ MaxBuffered \in Nat
    BY <2>2, MplAssumption, StateFields DEF Good, Sound
  <2>7. IsNew(st, s, q)  BY <1>4 DEF IsNew
  <2>8. CASE u = MinAdvanced(r, s, NextSeq(q))
    <3>1. Good(u) /\ Shrunk(r, u) /\ Passes(u.seed[s], q)  BY <2>2, <2>3, <2>8, MinAdvancedFacts
    <3>2. u.total <= MaxBuffered
      <4>1. u.total \in Int  BY <3>1, StateFields DEF Good, Sound
      <4> QED  BY <2>6, <3>1, <4>1 DEF Shrunk
    <3>3. AnyRunning(u.seed) => AnyRunning(st.seed)  BY <2>4, <3>1, ShrunkRunning
    <3>4. \A x \in Seeds : /\ u.seed[x].alive <=> st.seed[x].alive
                           /\ \A y \in Numbers : Passes(st.seed[x], y) => Passes(u.seed[x], y)
      BY <2>2, <2>5, <3>1 DEF Shrunk
    <3> QED  BY <3>1, <3>2, <3>3, <3>4 DEF Taken
  <2>9. CASE u \in Buffered(r, s, q, len)
    <3>1. /\ Good(u) /\ u.total <= MaxBuffered
          /\ \A x \in Seeds : /\ u.seed[x].alive <=> r.seed[x].alive
                              /\ \A y \in Numbers : Passes(r.seed[x], y) => Passes(u.seed[x], y)
          /\ Passes(u.seed[s], q)
          /\ HoldsSeq(u.seed[s], q) \/ Shrunk(r, u)
      BY <2>2, <2>3, <2>6, <2>9, BufferedFacts
    <3>2. \A x \in Seeds : /\ u.seed[x].alive <=> st.seed[x].alive
                           /\ \A y \in Numbers : Passes(st.seed[x], y) => Passes(u.seed[x], y)
      BY <2>2, <2>5, <3>1
    <3>3. AnyRunning(u.seed) => AnyRunning(st.seed) \/ Holds(u, s, q)
      BY <1>1, <2>4, <3>1, ShrunkRunning
    <3> QED  BY <2>7, <3>1, <3>2, <3>3 DEF Taken
  <2> QED  BY <2>1, <2>8, <2>9
<1> QED  BY <1>2, <1>3, <1>4

-----------------------------------------------------------------------------
(***************************************************************************)
(* The invariant.  A message that was taken is one the seed's entry knows:  *)
(* the window is past it, or it is held.  That is what keeps it from being  *)
(* taken again.                                                             *)
(***************************************************************************)
Counted == \A s \in Seeds, n \in 1..MaxSent : taken[s][n] = 1 => Passes(seed[s], SeqNo(n))
Plain ==
    /\ timer \in BOOLEAN /\ own \in 0..MaxSent /\ heard \in 0..MaxHeard
    /\ taken \in [Seeds -> [1..MaxSent -> {0, 1}]]
Inv == Plain /\ Good(Here) /\ total <= MaxBuffered /\ Counted /\ TimerArmed

LEMMA HereFields == Here.seed = seed /\ Here.total = total  BY DEF Here

LEMMA BecomeHere ==
    ASSUME NEW st \in States, Become(st)
    PROVE  Here' = st
<1>1. st = [seed |-> st.seed, total |-> st.total]  BY StateFields
<1> QED  BY <1>1 DEF Become, Here

LEMMA ProcessMessageInv ==
    ASSUME Inv, NEW s \in Seeds, NEW n \in 1..MaxSent, NEW newest, NEW lasthop,
           ProcessMessage(s, n, newest, lasthop)
    PROVE  /\ Good(Here)' /\ total' <= MaxBuffered /\ Counted' /\ TimerArmed'
           /\ timer' \in BOOLEAN /\ taken' \in [Seeds -> [1..MaxSent -> {0, 1}]]
<1> DEFINE q == SeqNo(n)
           st == SeedCreated(Here, s, q)
<1>1. PICK st1 \in MarkedStates(st, s, q, newest) :
        /\ \E st2 \in Processed(st1, s, q, Size[n], lasthop) :
              /\ Become(st2)
              /\ timer' = \/ timer \/ Marks(st, s, q, newest)
                          \/ (IsNew(st1, s, q) /\ Holds(st2, s, q))
        /\ taken' = [taken EXCEPT ![s][n] = IF IsNew(st1, s, q) THEN @ + 1 ELSE @]
  BY DEF ProcessMessage
<1>2. PICK st2 \in Processed(st1, s, q, Size[n], lasthop) :
        /\ Become(st2)
        /\ timer' = \/ timer \/ Marks(st, s, q, newest)
                    \/ (IsNew(st1, s, q) /\ Holds(st2, s, q))
  BY <1>1
<1>3. q \in Numbers /\ Size[n] \in 1..MaxBuffered  BY MplAssumption DEF Numbers
<1>4. /\ Good(Here) /\ total <= MaxBuffered /\ taken \in [Seeds -> [1..MaxSent -> {0, 1}]]
      /\ Counted /\ TimerArmed /\ timer \in BOOLEAN
  BY DEF Inv, Plain
<1> HIDE DEF q
<1>5. /\ Good(st) /\ st.total = total /\ st.seed[s].alive
      /\ \A x \in Seeds : st.seed[x] = seed[x] \/ (x = s /\ ~seed[x].alive)
      /\ \A x \in Seeds : st.seed[x].msgs = seed[x].msgs
  BY <1>3, <1>4, SeedCreatedFacts, HereFields
<1> HIDE DEF st
<1>6. /\ Refreshed(st, st1)
      /\ ~Marks(st, s, q, newest) => \A x \in Seeds : st1.seed[x].msgs = st.seed[x].msgs
  BY <1>5, MarkedFacts
<1>7. Good(st1) /\ st1.total = st.total /\ SameNumbers(st, st1)  BY <1>5, <1>6, RefreshedFacts
<1>8. st1.seed[s].alive /\ st1.total <= MaxBuffered  BY <1>4, <1>5, <1>7 DEF SameNumbers
<1>9. Taken(st1, st2, s, q)  BY <1>3, <1>7, <1>8, ProcessedFacts
<1>10. Here' = st2 /\ seed' = st2.seed /\ total' = st2.total
  <2>1. st2 \in States  BY <1>9 DEF Taken, Good, Sound
  <2> QED  BY <1>2, <2>1, BecomeHere DEF Become
<1>11. Good(Here)'
  <2>1. Good(Here') BY <1>9, <1>10 DEF Taken
  <2> QED  BY <2>1
<1>12. total' <= MaxBuffered  BY <1>9, <1>10 DEF Taken
<1>13. timer' \in BOOLEAN  BY <1>2, <1>4 DEF Marks, IsNew
<1>14. TimerArmed'
  <2> SUFFICES ASSUME AnyRunning(seed') PROVE timer'
    BY DEF TimerArmed
  <2>1. AnyRunning(st2.seed)  BY <1>10
  <2>2. AnyRunning(st1.seed) \/ (IsNew(st1, s, q) /\ Holds(st2, s, q))  BY <1>9, <2>1 DEF Taken
  <2>3. CASE IsNew(st1, s, q) /\ Holds(st2, s, q)  BY <1>2, <2>3
  <2>4. CASE Marks(st, s, q, newest)  BY <1>2, <2>4
  <2>5. CASE AnyRunning(st1.seed) /\ ~Marks(st, s, q, newest)
    <3>1. AnyRunning(seed)  BY <1>5, <1>6, <2>5 DEF AnyRunning
    <3> QED  BY <1>2, <1>4, <3>1 DEF TimerArmed
  <2> QED  BY <2>2, <2>3, <2>4, <2>5
<1>15. ASSUME NEW x \in Seeds, NEW y \in Numbers, Passes(seed[x], y) PROVE Passes(st2.seed[x], y)
  <2>1. st.seed[x] = seed[x]  BY <1>5, <1>15 DEF Passes
  <2>2. Passes(st1.seed[x], y)  BY <1>7, <1>15, <2>1 DEF SameNumbers, Passes
  <2> QED  BY <1>9, <2>2 DEF Taken
<1>16. IsNew(st1, s, q) => taken[s][n] = 0
  <2> SUFFICES ASSUME IsNew(st1, s, q), taken[s][n] = 1 PROVE FALSE
    BY <1>4
  <2>1. Passes(seed[s], q)  BY <1>4 DEF Counted, q
  <2>2. st.seed[s] = seed[s]  BY <1>5, <2>1 DEF Passes
  <2>3. Passes(st1.seed[s], q)  BY <1>3, <1>7, <2>1, <2>2 DEF SameNumbers, Passes
  <2>4. HoldsSeq(st1.seed[s], q) <=> Holds(st1, s, q)  BY DEF HoldsSeq, Holds
  <2>5. After(st1.seed[s].min, q) <=> TooOld(st1, s, q)  BY DEF TooOld
  <2> QED  BY <2>3, <2>4, <2>5 DEF Passes, IsNew
<1> DEFINE v == IF IsNew(st1, s, q) THEN taken[s][n] + 1 ELSE taken[s][n]
<1>17. v \in {0, 1}
  <2>1. taken[s][n] \in {0, 1}  BY <1>4
  <2> QED  BY <1>16, <2>1
<1>18. taken' = [taken EXCEPT ![s][n] = v]  BY <1>1
<1> HIDE DEF v
<1>19. taken' \in [Seeds -> [1..MaxSent -> {0, 1}]]  BY <1>4, <1>17, <1>18
<1>20. Counted'
  <2> SUFFICES ASSUME NEW x \in Seeds, NEW k \in 1..MaxSent, taken'[x][k] = 1
               PROVE  Passes(seed'[x], SeqNo(k))
    BY DEF Counted
  <2>1. SeqNo(k) \in Numbers  BY DEF Numbers
  <2>2. CASE x = s /\ k = n
    <3>1. Passes(st2.seed[s], q)  BY <1>9 DEF Taken
    <3> QED  BY <1>10, <2>2, <3>1 DEF q
  <2>3. CASE ~(x = s /\ k = n)
    <3>1. taken'[x][k] = taken[x][k]  BY <1>4, <1>18, <2>3
    <3>2. Passes(seed[x], SeqNo(k))  BY <1>4, <3>1 DEF Counted
    <3> QED  BY <1>10, <1>15, <2>1, <3>2
  <2> QED  BY <2>2, <2>3
<1> QED  BY <1>11, <1>12, <1>13, <1>14, <1>19, <1>20

-----------------------------------------------------------------------------
(***************************************************************************)
(* mpl_control_handler() and mpl_fast_timer().                              *)
(***************************************************************************)
\* Every seed gets another list.
Relisted(lists) == [seed |-> [s \in Seeds |-> [seed[s] EXCEPT !.msgs = lists[s]]], total |-> total]

LEMMA RelistedFacts ==
    ASSUME Good(Here), NEW lists,
           \A s \in Seeds : lists[s] \in Seq(Message) /\ Alike(lists[s], seed[s].msgs)
    PROVE  /\ Refreshed(Here, Relisted(lists)) /\ Relisted(lists).total = total
           /\ \A s \in Seeds : Relisted(lists).seed[s].msgs = lists[s]
<1> DEFINE t == Relisted(lists)
           f == [s \in Seeds |-> [seed[s] EXCEPT !.msgs = lists[s]]]
<1>1. Here \in States /\ seed \in [Seeds -> Entry] /\ total \in Int
  <2>1. Here \in States  BY DEF Good, Sound
  <2>2. Here.seed \in [Seeds -> Entry] /\ Here.total \in Int  BY <2>1, StateFields
  <2> QED  BY <2>1, <2>2, HereFields
<1>2. t = [seed |-> f, total |-> total]  BY DEF Relisted
<1>3. ASSUME NEW s \in Seeds PROVE f[s] \in Entry /\ f[s].msgs = lists[s] /\ f[s] = [seed[s] EXCEPT !.msgs = lists[s]]
  <2> DEFINE e == seed[s]
             l == lists[s]
  <2>1. e \in Entry /\ l \in Seq(Message) /\ f[s] = [e EXCEPT !.msgs = l]  BY <1>1
  <2> HIDE DEF e, l
  <2>2. [e EXCEPT !.msgs = l] \in Entry /\ [e EXCEPT !.msgs = l].msgs = l  BY <2>1, EntryFields
  <2>3. f[s] = [e EXCEPT !.msgs = l]  BY <2>1
  <2> HIDE DEF f
  <2>4. f[s] \in Entry /\ f[s].msgs = l /\ f[s] = [e EXCEPT !.msgs = l]  BY <2>2, <2>3
  <2> QED  BY <2>4 DEF e, l
<1>4. f = [s \in Seeds |-> f[s]]  OBVIOUS
<1> HIDE DEF f
<1>5. f \in [Seeds -> Entry]  BY <1>3, <1>4
<1>6. t \in States /\ t.seed = f /\ t.total = total  BY <1>1, <1>2, <1>5 DEF States
<1> HIDE DEF t
<1>7. Refreshed(Here, t)  BY <1>3, <1>6, HereFields DEF Refreshed
<1> QED  BY <1>3, <1>6, <1>7 DEF t

\* A step that only gives every seed another list.
LEMMA RelistedInv ==
    ASSUME Inv, NEW lists,
           \A s \in Seeds : lists[s] \in Seq(Message) /\ Alike(lists[s], seed[s].msgs),
           seed' = [s \in Seeds |-> [seed[s] EXCEPT !.msgs = lists[s]]],
           UNCHANGED <<total, taken>>
    PROVE  /\ Good(Here)' /\ total' <= MaxBuffered /\ Counted'
           /\ \A s \in Seeds : seed'[s].msgs = lists[s]
<1> DEFINE t == Relisted(lists)
<1>1. Good(Here) /\ total <= MaxBuffered /\ Counted  BY DEF Inv
<1>2. Refreshed(Here, t) /\ \A s \in Seeds : t.seed[s].msgs = lists[s]  BY <1>1, RelistedFacts
<1>3. Here' = t /\ seed' = t.seed
  <2>1. Here' = [seed |-> seed', total |-> total']  BY DEF Here
  <2> QED  BY <2>1 DEF Relisted
<1> HIDE DEF t
<1>4. Good(t) /\ SameNumbers(Here, t)  BY <1>1, <1>2, RefreshedFacts
<1>5. Good(Here)'
  <2>1. Good(Here')  BY <1>3, <1>4
  <2> QED  BY <2>1
<1>6. \A s \in Seeds : \A q \in Numbers : Passes(seed[s], q) => Passes(seed'[s], q)
  BY <1>3, <1>4, HereFields DEF SameNumbers, Passes
<1>7. \A n \in 1..MaxSent : SeqNo(n) \in Numbers  BY DEF Numbers
<1>8. Counted'  BY <1>1, <1>6, <1>7 DEF Counted
<1> QED  BY <1>1, <1>2, <1>3, <1>5, <1>8

LEMMA HereSeeds ==
    ASSUME Good(Here), NEW s \in Seeds
    PROVE  /\ seed[s] \in Entry /\ seed[s].msgs \in Seq(Message) /\ Listed(seed[s])
           /\ DOMAIN seed[s].msgs = 1..Len(seed[s].msgs) /\ Len(seed[s].msgs) \in Nat
           /\ ~seed[s].alive => seed[s].msgs = <<>>
<1>1. /\ Here.seed[s] \in Entry /\ Here.seed[s].msgs \in Seq(Message) /\ Listed(Here.seed[s])
  BY StateFields DEF Good, Sound
<1>2. seed[s] \in Entry /\ seed[s].msgs \in Seq(Message) /\ Listed(seed[s])  BY <1>1, HereFields
<1>3. ~seed[s].alive => seed[s].msgs = <<>>  BY <1>2 DEF Listed, NoSeed
<1> QED  BY <1>2, <1>3

LEMMA ReportedFacts ==
    ASSUME Good(Here), NEW s \in Seeds, NEW said, NEW l \in Reported(s, said)
    PROVE  /\ l \in Seq(Message) /\ Alike(l, seed[s].msgs)
           /\ (\A m \in Range(seed[s].msgs) : ~Unmentioned(s, m, said)) => l = seed[s].msgs
<1> DEFINE msgs == seed[s].msgs
           choice == [i \in DOMAIN msgs |-> Inconsistent(msgs[i], Unmentioned(s, msgs[i], said))]
<1>1. msgs \in Seq(Message) /\ DOMAIN msgs = 1..Len(msgs)  BY HereSeeds
<1>2. l \in Outcomes(choice)  BY DEF Reported
<1>3. ASSUME NEW i \in 1..Len(msgs), NEW x \in choice[i]
      PROVE  Stands(x, msgs[i]) /\ (~Unmentioned(s, msgs[i], said) => x = msgs[i])
  <2> DEFINE m == msgs[i]
             differs == Unmentioned(s, m, said)
  <2>1. m \in Message /\ x \in Inconsistent(m, differs)  BY <1>1
  <2> HIDE DEF m, differs
  <2>2. Stands(x, m) /\ (~differs => x = m)  BY <2>1, InconsistentFacts
  <2> QED  BY <2>2 DEF m, differs
<1>4. DOMAIN choice = 1..Len(msgs)  BY <1>1
<1> HIDE DEF choice
<1>5. Range(msgs) = {msgs[i] : i \in 1..Len(msgs)}
  <2> HIDE DEF msgs
  <2> QED  BY <1>1, RangeIs
<1>6. /\ l \in Seq(Message) /\ Alike(l, msgs) /\ Len(l) = Len(msgs)
      /\ \A i \in 1..Len(msgs) : l[i] \in choice[i]
  <2> HIDE DEF msgs
  <2> QED  BY <1>1, <1>2, <1>3, <1>4, OutcomeFacts
<1>7. ASSUME \A m \in Range(msgs) : ~Unmentioned(s, m, said) PROVE l = msgs
  <2>1. \A i \in 1..Len(msgs) : l[i] = msgs[i]
    <3> HIDE DEF msgs
    <3> QED  BY <1>3, <1>5, <1>6, <1>7
  <2> HIDE DEF msgs
  <2> QED  BY <1>1, <1>6, <2>1
<1> QED  BY <1>6, <1>7

LEMMA TickedFacts ==
    ASSUME Good(Here), NEW s \in Seeds, NEW l \in TickedLists(s)
    PROVE  l \in Seq(Message) /\ Alike(l, seed[s].msgs)
<1> DEFINE msgs == seed[s].msgs
           choice == [i \in DOMAIN msgs |-> TickedMessage(msgs[i])]
<1>1. msgs \in Seq(Message) /\ DOMAIN msgs = 1..Len(msgs)  BY HereSeeds
<1>2. l \in Outcomes(choice)  BY DEF TickedLists
<1>3. ASSUME NEW i \in 1..Len(msgs), NEW x \in choice[i] PROVE Stands(x, msgs[i])
  <2> DEFINE m == msgs[i]
  <2>1. m \in Message /\ x \in TickedMessage(m)  BY <1>1
  <2> HIDE DEF m
  <2>2. PICK tr \in T!Ticked(m.tr, Data) : x = [m EXCEPT !.tr = tr]  BY <2>1 DEF TickedMessage
  <2>3. m.tr \in T!Timers(Data)  BY <2>1, MessageFields
  <2>4. tr \in T!Timers(Data)  BY <2>3, TickedTyped
  <2>5. Stands(x, m)  BY <2>1, <2>2, <2>4 DEF Stands, Message
  <2> QED  BY <2>5 DEF m
<1>4. DOMAIN choice = 1..Len(msgs)  BY <1>1
<1> HIDE DEF msgs, choice
<1>5. l \in Seq(Message) /\ Alike(l, msgs)  BY <1>1, <1>2, <1>3, <1>4, OutcomeFacts
<1> QED  BY <1>5 DEF msgs

LEMMA ControlHandlerInv ==
    ASSUME Inv, NEW said, ControlHandler(said)
    PROVE  Inv'
<1>1. PICK lists \in [Seeds -> UNION {Reported(s, said) : s \in Seeds}] :
         /\ \A s \in Seeds : lists[s] \in Reported(s, said)
         /\ seed' = [s \in Seeds |-> [seed[s] EXCEPT !.msgs = lists[s]]]
  BY DEF ControlHandler
<1>2. /\ Good(Here) /\ heard < MaxHeard /\ heard' = heard + 1 /\ UNCHANGED <<total, own, taken>>
      /\ timer' = (timer \/ TheyHaveNew(said) \/ WeHaveNew(said))
      /\ TimerArmed /\ Plain
  BY DEF ControlHandler, Inv
<1>3. \A s \in Seeds : /\ lists[s] \in Seq(Message) /\ Alike(lists[s], seed[s].msgs)
                       /\ (\A m \in Range(seed[s].msgs) : ~Unmentioned(s, m, said)) => lists[s] = seed[s].msgs
  BY <1>1, <1>2, ReportedFacts
<1>4. Good(Here)' /\ total' <= MaxBuffered /\ Counted' /\ \A s \in Seeds : seed'[s].msgs = lists[s]
  BY <1>1, <1>2, <1>3, RelistedInv
<1>5. Plain'
  <2>1. timer' \in BOOLEAN  BY <1>2 DEF TheyHaveNew, WeHaveNew, Plain
  <2>2. heard' \in 0..MaxHeard  BY <1>2, MplAssumption DEF Plain
  <2> QED  BY <1>2, <2>1, <2>2 DEF Plain
<1>6. TimerArmed'
  <2> SUFFICES ASSUME AnyRunning(seed'), ~WeHaveNew(said) PROVE timer'
    BY <1>2 DEF TimerArmed
  <2>1. PICK s \in Seeds : \E m \in Range(lists[s]) : T!Running(m.tr, Data)
    BY <1>4 DEF AnyRunning
  <2>2. lists[s] = seed[s].msgs
    <3>1. CASE seed[s].alive
      <4>1. \A m \in Range(seed[s].msgs) : ~Unmentioned(s, m, said)  BY <3>1 DEF WeHaveNew
      <4> QED  BY <1>3, <4>1
    <3>2. CASE ~seed[s].alive
      <4>1. seed[s].msgs = <<>>  BY <1>2, <3>2, HereSeeds
      <4>2. \A m \in Range(seed[s].msgs) : FALSE  BY <4>1 DEF Range
      <4> QED  BY <1>3, <4>2
    <3> QED  BY <3>1, <3>2
  <2>3. AnyRunning(seed)  BY <2>1, <2>2 DEF AnyRunning
  <2> QED  BY <1>2, <2>3 DEF TimerArmed
<1> QED  BY <1>4, <1>5, <1>6 DEF Inv

LEMMA FastTimerInv ==
    ASSUME Inv, FastTimer
    PROVE  Inv'
<1>1. PICK lists \in [Seeds -> UNION {TickedLists(s) : s \in Seeds}] :
         /\ \A s \in Seeds : lists[s] \in TickedLists(s)
         /\ seed' = [s \in Seeds |-> [seed[s] EXCEPT !.msgs = lists[s]]]
  BY DEF FastTimer
<1>2. /\ Good(Here) /\ UNCHANGED <<total, own, heard, taken>> /\ timer' = AnyRunning(seed') /\ Plain
  BY DEF FastTimer, TimerNeeded, Inv
<1>3. \A s \in Seeds : lists[s] \in Seq(Message) /\ Alike(lists[s], seed[s].msgs)
  BY <1>1, <1>2, TickedFacts
<1>4. Good(Here)' /\ total' <= MaxBuffered /\ Counted'
  BY <1>1, <1>2, <1>3, RelistedInv
<1>5. timer' \in BOOLEAN  BY <1>2 DEF AnyRunning
<1>6. Plain'  BY <1>2, <1>5 DEF Plain
<1>7. TimerArmed'  BY <1>2 DEF TimerArmed
<1> QED  BY <1>4, <1>6, <1>7 DEF Inv

-----------------------------------------------------------------------------
(***************************************************************************)
(* mpl_slow_timer() and mpl_clear_realm_scope_seeds().                      *)
(***************************************************************************)
\* t holds no more than st, has no other seeds, and knows of the ones it has
\* every number that st knows.
Slowed(st, t) ==
    /\ \A s \in Seeds : /\ Range(t.seed[s].msgs) \subseteq Range(st.seed[s].msgs)
                        /\ t.seed[s].alive =>
                              /\ st.seed[s].alive
                              /\ \A q \in Numbers : Passes(st.seed[s], q) => Passes(t.seed[s], q)
    /\ t.total <= st.total

LEMMA ShrunkSlowed ==
    ASSUME NEW st, NEW t, Shrunk(st, t)
    PROVE  Slowed(st, t)
  BY DEF Shrunk, Slowed

LEMMA SlowedTransitive ==
    ASSUME NEW st \in States, NEW t \in States, NEW u \in States, Slowed(st, t), Slowed(t, u)
    PROVE  Slowed(st, u)
<1>1. st.total \in Int /\ t.total \in Int /\ u.total \in Int  BY StateFields
<1>2. u.total <= st.total  BY <1>1 DEF Slowed
<1>3. ASSUME NEW s \in Seeds
      PROVE  /\ Range(u.seed[s].msgs) \subseteq Range(st.seed[s].msgs)
             /\ u.seed[s].alive =>
                   /\ st.seed[s].alive
                   /\ \A q \in Numbers : Passes(st.seed[s], q) => Passes(u.seed[s], q)
  BY DEF Slowed
<1> QED  BY <1>2, <1>3 DEF Slowed

LEMMA NoSeedListed ==
    /\ NoSeed \in Entry /\ Listed(NoSeed) /\ Windowed(NoSeed) /\ ~NoSeed.alive
    /\ NoSeed.msgs = <<>> /\ Range(NoSeed.msgs) = {}
<1>1. NoSeed.msgs = <<>> /\ ~NoSeed.alive /\ Len(NoSeed.msgs) = 0  BY DEF NoSeed
<1>2. NoSeed \in Entry
  <2>1. 0 \in 0..Lifetime /\ 0 \in Seqs  BY MplAssumption, HalfFacts DEF Seqs
  <2> QED  BY <2>1 DEF NoSeed, Entry
<1>3. \A i \in 1..Len(NoSeed.msgs) : FALSE  BY <1>1
<1>4. Range(NoSeed.msgs) = {}  BY <1>1 DEF Range
<1> QED  BY <1>1, <1>2, <1>3, <1>4 DEF Listed, Windowed

LEMMA SeedDeletedFacts ==
    ASSUME NEW st, Good(st), NEW s \in Seeds
    PROVE  Good(SeedDeleted(st, s)) /\ Slowed(st, SeedDeleted(st, s))
<1> DEFINE places == DOMAIN st.seed[s].msgs
           p == Purged(st, s, places)
           t == SeedDeleted(st, s)
<1>1. Sound(st) /\ st \in States /\ st.seed[s].msgs \in Seq(Message) /\ places = 1..Len(st.seed[s].msgs)
  BY StateFields DEF Good, Sound
<1>2. Sound(p) /\ OnlyList(st, p, s) /\ p.total <= st.total /\ Range(p.seed[s].msgs) = Left(st, s, places)
  <2>1. Rest(st, p, s, places)
    <3> HIDE DEF places
    <3> QED  BY <1>1, PurgedFacts
  <2> QED  BY <2>1 DEF Rest
<1>3. t = Reentry(p, s, NoSeed)  BY DEF SeedDeleted, Reentry
<1>4. p.seed[s].msgs = <<>>
  <2> DEFINE l == p.seed[s].msgs
  <2>1. l \in Seq(Message)  BY <1>2, StateFields DEF Sound
  <2>2. Range(l) = {}  BY <1>1, <1>2 DEF Left
  <2> HIDE DEF l
  <2>6. Range(l) = {l[i] : i \in 1..Len(l)}  BY <2>1, RangeIs
  <2>3. \A i \in 1..Len(l) : FALSE  BY <2>2, <2>6
  <2>4. Len(l) = 0
    <3>1. Len(l) \in Nat  BY <2>1
    <3> QED  BY <2>3, <3>1
  <2>5. l = <<>>  BY <2>1, <2>4
  <2> QED  BY <2>5 DEF l
<1> HIDE DEF p, t, places
<1>5. Sound(t)  BY <1>2, <1>3, <1>4, NoSeedListed, ReentrySound
<1>6. t.total = p.total /\ t.seed[s] = NoSeed /\ \A x \in Seeds \ {s} : t.seed[x] = p.seed[x]
  <2>1. p \in States  BY <1>2 DEF Sound
  <2> QED  BY <1>3, <2>1, NoSeedListed, ReentryFacts
<1>7. \A x \in Seeds \ {s} : t.seed[x] = st.seed[x]  BY <1>2, <1>6 DEF OnlyList
<1>8. Good(t)  BY <1>5, <1>6, <1>7, NoSeedListed DEF Good
<1>9. Slowed(st, t)
  <2>1. ASSUME NEW x \in Seeds
        PROVE  /\ Range(t.seed[x].msgs) \subseteq Range(st.seed[x].msgs)
               /\ t.seed[x].alive =>
                     /\ st.seed[x].alive
                     /\ \A q \in Numbers : Passes(st.seed[x], q) => Passes(t.seed[x], q)
    <3>1. CASE x = s  BY <1>6, <3>1, NoSeedListed
    <3>2. CASE x # s  BY <1>7, <3>2
    <3> QED  BY <3>1, <3>2
  <2> QED  BY <1>2, <1>6, <2>1 DEF Slowed
<1> QED  BY <1>8, <1>9 DEF t

\* The messages that go are the first ones, up to the last of them.
LEMMA ExpiredFirst ==
    ASSUME NEW e, Listed(e), Expired(e.msgs) # {}
    PROVE  LET g == Max(Expired(e.msgs))
           IN  /\ g \in 1..Len(e.msgs)
               /\ \A i \in 1..Len(e.msgs) :
                     i \in Expired(e.msgs) <=> After(NextSeq(e.msgs[g].seq), e.msgs[i].seq)
<1> DEFINE q == e.msgs
           n == Len(q)
           gone == Expired(q)
           g == Max(gone)
<1>1. q \in Seq(Message) /\ n \in Nat /\ DOMAIN q = 1..n  BY EntryFields DEF Listed
<1>2. \A i \in 1..n : i \in gone <=> \A j \in 1..i : Done(q[j])  BY <1>1 DEF Expired
<1>3. gone \subseteq 1..n  BY <1>1 DEF Expired
<1>4. gone # {}  OBVIOUS
<1>5. \A i \in 1..n : q[i].seq \in Numbers /\ q[i].seq \in Windows  BY SeqOrder DEF Listed
<1>6. \A i, j \in 1..n : j < i => After(q[i].seq, q[j].seq)  BY DEF Listed
<1> HIDE DEF gone, n, q
<1>7. g \in gone /\ \A y \in gone : g >= y  BY <1>1, <1>3, <1>4, Greatest
<1> HIDE DEF g
<1>8. g \in 1..n  BY <1>3, <1>7
<1>9. ASSUME NEW i \in 1..n PROVE i \in gone <=> i <= g
  <2>1. ASSUME i <= g PROVE i \in gone
    <3>1. \A j \in 1..i : j \in 1..g  BY <1>1, <1>8, <2>1
    <3> QED  BY <1>2, <1>7, <1>8, <3>1
  <2>2. ASSUME i \in gone PROVE i <= g  BY <1>1, <1>7, <1>8, <2>2
  <2> QED  BY <2>1, <2>2
<1>10. ASSUME NEW i \in 1..n PROVE i \in gone <=> After(NextSeq(q[g].seq), q[i].seq)
  <2> DEFINE a == q[g].seq
             b == q[i].seq
  <2>1. a \in Numbers /\ a \in Windows /\ b \in Windows  BY <1>5, <1>8
  <2>2. i < g => After(a, b)  BY <1>6, <1>8
  <2>3. i > g => After(b, a)  BY <1>6, <1>8
  <2>4. i = g => a = b  OBVIOUS
  <2> HIDE DEF a, b
  <2>5. After(NextSeq(a), b) <=> b = a \/ After(a, b)  BY <2>1, SeqOrder
  <2>6. i < g \/ i > g \/ i = g  BY <1>1, <1>8
  <2>7. i <= g <=> b = a \/ After(a, b)
    <3>1. CASE i < g  BY <1>1, <1>8, <2>2, <3>1
    <3>2. CASE i = g  BY <1>1, <1>8, <2>4, <3>2
    <3>3. CASE i > g  BY <1>1, <1>8, <2>1, <2>3, <3>3, SeqOrder
    <3> QED  BY <2>6, <3>1, <3>2, <3>3
  <2> QED  BY <1>9, <2>5, <2>7 DEF a, b
<1> QED  BY <1>8, <1>10 DEF g, gone, n, q

LEMMA SlowSeedFacts ==
    ASSUME NEW st, Good(st), NEW s \in Seeds
    PROVE  Good(SlowSeed(st, s)) /\ Slowed(st, SlowSeed(st, s))
<1> DEFINE e == st.seed[s]
           gone == Expired(e.msgs)
           l == e.life - 1
           t == SlowSeed(st, s)
<1>1. /\ st \in States /\ Sound(st) /\ e \in Entry /\ Listed(e) /\ Windowed(e) /\ e.life \in 0..Lifetime
      /\ Lifetime \in Nat /\ e.msgs \in Seq(Message)
  BY StateFields, EntryFields, MplAssumption DEF Good, Sound
<1>2. CASE ~e.alive
  <2>1. t = st  BY <1>2 DEF SlowSeed
  <2>2. Slowed(st, st)  BY <1>1, ShrunkSame, ShrunkSlowed
  <2> QED  BY <2>1, <2>2
<1>3. CASE e.alive /\ e.life <= 1
  <2>1. t = SeedDeleted(st, s)  BY <1>3 DEF SlowSeed
  <2> QED  BY <2>1, SeedDeletedFacts
<1>4. CASE e.alive /\ ~(e.life <= 1)
  <2>1. l \in 0..Lifetime  BY <1>1, <1>4
  <2>2. e.alive /\ st.seed[s].alive /\ e = st.seed[s]  BY <1>4
  <2>3. CASE gone = {}
    <3> DEFINE w == e.min
               d == Moved(e, w, l)
    <3>1. [e EXCEPT !.life = l] = d  BY <1>1 DEF Moved, Entry
    <3>2. t = [st EXCEPT !.seed[s].life = @ - 1]  BY <1>4, <2>3 DEF SlowSeed
    <3>3. t = Reentry(st, s, d)
      <4>1. t = Reentry(st, s, [e EXCEPT !.life = l])  BY <3>2 DEF Reentry
      <4> QED  BY <3>1, <4>1
    <3>4. w \in Windows  BY <1>1, <2>2 DEF Listed
    <3> HIDE DEF e, w, l
    <3>5. Listed(d) /\ d.msgs = e.msgs /\ d.min = w /\ d.alive
      BY <1>1, <2>1, <2>2, <3>4, MovedFacts
    <3>6. d \in Entry  BY <3>5 DEF Listed
    <3> HIDE DEF d, t
    <3>7. t.total = st.total /\ t.seed[s] = d /\ \A x \in Seeds \ {s} : t.seed[x] = st.seed[x]
      BY <1>1, <3>3, <3>6, ReentryFacts
    <3>8. Sound(t)  BY <1>1, <2>2, <3>3, <3>5, ReentrySound
    <3>9. Windowed(d)  BY <1>1, <3>5 DEF Windowed, w
    <3>10. Good(t)  BY <3>7, <3>8, <3>9 DEF Good
    <3>11. ASSUME NEW x \in Seeds
           PROVE  /\ Range(t.seed[x].msgs) \subseteq Range(st.seed[x].msgs)
                  /\ t.seed[x].alive =>
                        /\ st.seed[x].alive
                        /\ \A q \in Numbers : Passes(st.seed[x], q) => Passes(t.seed[x], q)
      <4>1. CASE x = s
        <5>1. t.seed[x].msgs = st.seed[x].msgs /\ t.seed[x].min = st.seed[x].min
              /\ t.seed[x].alive /\ st.seed[x].alive
          BY <2>2, <3>5, <3>7, <4>1 DEF w
        <5> QED  BY <5>1 DEF Passes, HoldsSeq
      <4>2. CASE x # s  BY <3>7, <4>2
      <4> QED  BY <4>1, <4>2
    <3>12. t.total <= st.total  BY <1>1, <3>7, StateFields
    <3>13. Slowed(st, t)  BY <3>11, <3>12 DEF Slowed
    <3> QED  BY <3>10, <3>13 DEF t
  <2>4. CASE gone # {}
    <3> DEFINE g == Max(gone)
               q == e.msgs[g].seq
               w == NextSeq(q)
               d == Moved(e, w, l)
               a == Reentry(st, s, d)
    <3>1. g \in 1..Len(e.msgs) /\ \A i \in 1..Len(e.msgs) : i \in gone <=> After(w, e.msgs[i].seq)
      <4> HIDE DEF e
      <4> QED  BY <1>1, <2>4, ExpiredFirst
    <3>2. q \in Numbers /\ ~After(e.min, q)  BY <1>1, <3>1 DEF Listed, Windowed
    <3>3. w \in Windows  BY <3>2, SeqOrder
    <3>4. t = Purged(a, s, gone)
      <4>1. t = Purged([st EXCEPT !.seed[s].life = @ - 1, !.seed[s].min = w], s, gone)
        BY <1>4, <2>4 DEF SlowSeed
      <4>2. [st EXCEPT !.seed[s].life = @ - 1, !.seed[s].min = w]
              = Reentry(st, s, [e EXCEPT !.life = l, !.min = w])
        <5> DEFINE u == [st EXCEPT !.seed[s].life = l]
                   c == [e EXCEPT !.life = l]
        <5>1. c \in Entry  BY <1>1, <2>1 DEF Entry
        <5>2. u = Reentry(st, s, c)  BY DEF Reentry
        <5> HIDE DEF w, c, u
        <5>3. u \in States /\ u.seed[s] = c  BY <1>1, <5>1, <5>2, ReentryFacts
        <5>4. [u EXCEPT !.seed[s].min = w] = Reentry(u, s, [c EXCEPT !.min = w])
          BY <5>3 DEF Reentry
        <5>5. Reentry(u, s, [c EXCEPT !.min = w]) = Reentry(st, s, [c EXCEPT !.min = w])
          <6> DEFINE x == [c EXCEPT !.min = w]
          <6> HIDE DEF x
          <6>1. st.seed \in [Seeds -> Entry]  BY <1>1, StateFields
          <6> QED  BY <1>1, <5>2, <6>1 DEF Reentry, States
        <5> QED  BY <5>4, <5>5 DEF u, c
      <4>3. [e EXCEPT !.life = l, !.min = w] = d  BY <1>1 DEF Moved, Entry
      <4> QED  BY <4>1, <4>2, <4>3
    <3> HIDE DEF e, w, l, q, gone
    <3>5. Listed(d) /\ d.msgs = e.msgs  BY <1>1, <2>1, <2>2, <3>3, MovedFacts
    <3>6. Sound(a)
      <4> HIDE DEF d
      <4> QED  BY <1>1, <2>2, <3>5, ReentrySound
    <3>7. Rest(a, t, s, gone)
      <4> HIDE DEF a, t
      <4> QED  BY <3>4, <3>6, PurgedFacts
    <3> HIDE DEF t
    <3>8. Rest(Reentry(st, s, Moved(st.seed[s], NextSeq(q), l)), t, s, gone)  BY <2>2, <3>7 DEF w
    <3>9. \A i \in 1..Len(st.seed[s].msgs) : i \in gone <=> After(NextSeq(q), st.seed[s].msgs[i].seq)
      BY <2>2, <3>1 DEF w
    <3>10. ~After(st.seed[s].min, q)  BY <2>2, <3>2
    <3> HIDE DEF a, d
    <3>11. Good(t) /\ Shrunk(st, t)
      BY <2>1, <2>2, <3>2, <3>8, <3>9, <3>10, WindowMoved
    <3> QED  BY <3>11, ShrunkSlowed DEF t
  <2> QED  BY <2>3, <2>4
<1> QED  BY <1>2, <1>3, <1>4

LEMMA SeedListFacts == Len(SeedList) \in Nat /\ \A i \in 1..Len(SeedList) : SeedList[i] \in Seeds
<1> DEFINE n == Cardinality(Seeds)
<1>1. n \in Nat /\ ExistsBijection(1..n, Seeds)  BY MplAssumption, FS_CardinalityType
<1>2. PICK f \in Bijection(1..n, Seeds) : TRUE  BY <1>1 DEF ExistsBijection
<1>3. f \in [1..n -> Seeds] /\ IsInjective(f)  BY DEF Bijection, Injection, Surjection
<1>4. SeedList \in [1..n -> Seeds]  BY <1>3 DEF SeedList, SetToSeq
<1> HIDE DEF n
<1> QED  BY <1>1, <1>4

\* Where a walk of the seeds may be.
Walking(st) == {t \in States : Good(t) /\ Slowed(st, t)}

LEMMA SlowWalkFacts ==
    ASSUME NEW st, Good(st)
    PROVE  Good(SlowWalk(st)) /\ Slowed(st, SlowWalk(st))
<1> DEFINE N == Len(SeedList)
           W == Walking(st)
           I == [k \in 0..N |-> W]
           step == [k \in 1..N |-> [t \in W |-> SlowSeed(t, SeedList[k])]]
           Eq(f) == f = [k \in 0..N |-> IF k = 0 THEN st ELSE SlowSeed(f[k - 1], SeedList[k])]
           walk == CHOOSE f : Eq(f)
<1>1. N \in Nat /\ \A k \in 1..N : SeedList[k] \in Seeds  BY SeedListFacts
<1>2. st \in W
  <2>1. st \in States  BY DEF Good, Sound
  <2>2. Slowed(st, st)  BY <2>1, ShrunkSame, ShrunkSlowed
  <2> QED  BY <2>1, <2>2 DEF Walking
<1>3. ASSUME NEW k \in 1..N, NEW t \in W PROVE SlowSeed(t, SeedList[k]) \in W
  <2> DEFINE u == SlowSeed(t, SeedList[k])
  <2>1. t \in States /\ Good(t) /\ Slowed(st, t) /\ st \in States  BY <1>2 DEF Walking
  <2>2. Good(u) /\ Slowed(t, u)  BY <1>1, <2>1, SlowSeedFacts
  <2> HIDE DEF u
  <2>3. u \in States  BY <2>2 DEF Good, Sound
  <2>4. Slowed(st, u)  BY <2>1, <2>2, <2>3, SlowedTransitive
  <2>5. u \in W  BY <2>2, <2>3, <2>4 DEF Walking
  <2> QED  BY <2>5 DEF u
<1> HIDE DEF W
<1>4. Rounds(step, I, N)
  <2>1. ASSUME NEW k \in 1..N PROVE step[k] \in [I[k - 1] -> I[k]]
    <3>1. k - 1 \in 0..N /\ k \in 0..N  BY <1>1
    <3>2. I[k - 1] = W /\ I[k] = W  BY <3>1
    <3> HIDE DEF I
    <3> QED  BY <1>3, <3>2
  <2> QED  BY <2>1 DEF Rounds
<1>5. st \in I[0]  BY <1>1, <1>2
<1>6. PICK g : LoopRun(g, N, st, step, I)
  <2> HIDE DEF I, step, N
  <2> QED  BY <1>1, <1>4, <1>5, LoopInvariant
<1>7. Eq(g)
  <2>1. /\ g = [k \in 0..N |-> g[k]] /\ g[0] = st /\ \A k \in 0..N : g[k] \in I[k]
        /\ \A k \in 1..N : g[k] = step[k][g[k - 1]]
    <3> HIDE DEF I, step, N
    <3> QED  BY <1>6 DEF LoopRun
  <2>2. ASSUME NEW k \in 1..N PROVE g[k] = SlowSeed(g[k - 1], SeedList[k])
    <3>1. k - 1 \in 0..N  BY <1>1
    <3>2. g[k - 1] \in W  BY <2>1, <3>1
    <3> QED  BY <2>1, <3>2
  <2> DEFINE h == [k \in 0..N |-> IF k = 0 THEN st ELSE SlowSeed(g[k - 1], SeedList[k])]
  <2> HIDE DEF I, step, N
  <2>3. ASSUME NEW k \in 0..N PROVE g[k] = h[k]
    <3>1. CASE k = 0  BY <2>1, <3>1
    <3>2. CASE k # 0
      <4>1. k \in 1..N  BY <1>1, <3>2
      <4> QED  BY <2>2, <3>2, <4>1
    <3> QED  BY <3>1, <3>2
  <2>4. [k \in 0..N |-> g[k]] = h  BY <2>3
  <2> QED  BY <2>1, <2>4
<1>8. Eq(walk)
  <2> HIDE DEF Eq
  <2> QED  BY <1>7
<1> HIDE DEF walk
<1>9. walk[0] = st /\ \A k \in 1..N : walk[k] = SlowSeed(walk[k - 1], SeedList[k])
  <2> HIDE DEF N
  <2> QED  BY <1>1, <1>8
<1> HIDE DEF Eq, step
<1>10. \A k \in 1..N : walk[k - 1] \in I[k - 1] => walk[k] \in I[k]
  <2> SUFFICES ASSUME NEW k \in 1..N, walk[k - 1] \in W PROVE walk[k] \in W
    <3>1. \A k \in 1..N : I[k] = W /\ I[k - 1] = W  BY <1>1
    <3> HIDE DEF I, N
    <3> QED  BY <3>1
  <2> QED  BY <1>3, <1>9
<1>11. walk[N] \in I[N]
  <2>1. walk[0] \in I[0]  BY <1>5, <1>9
  <2> HIDE DEF I, N
  <2> QED  BY <1>1, <1>10, <2>1, LoopEnd
<1>12. walk[N] \in W  BY <1>1, <1>11
<1>13. SlowWalk(st) = walk[N]  BY DEF SlowWalk, walk, Eq
<1> QED  BY <1>12, <1>13 DEF W, Walking

LEMMA ClearWalkFacts ==
    ASSUME NEW st, Good(st)
    PROVE  Good(ClearWalk(st)) /\ Slowed(st, ClearWalk(st))
<1> DEFINE N == Len(SeedList)
           W == Walking(st)
           I == [k \in 0..N |-> W]
           step == [k \in 1..N |-> [t \in W |-> SeedDeleted(t, SeedList[k])]]
           Eq(f) == f = [k \in 0..N |-> IF k = 0 THEN st ELSE SeedDeleted(f[k - 1], SeedList[k])]
           walk == CHOOSE f : Eq(f)
<1>1. N \in Nat /\ \A k \in 1..N : SeedList[k] \in Seeds  BY SeedListFacts
<1>2. st \in W
  <2>1. st \in States  BY DEF Good, Sound
  <2>2. Slowed(st, st)  BY <2>1, ShrunkSame, ShrunkSlowed
  <2> QED  BY <2>1, <2>2 DEF Walking
<1>3. ASSUME NEW k \in 1..N, NEW t \in W PROVE SeedDeleted(t, SeedList[k]) \in W
  <2> DEFINE u == SeedDeleted(t, SeedList[k])
  <2>1. t \in States /\ Good(t) /\ Slowed(st, t) /\ st \in States  BY <1>2 DEF Walking
  <2>2. Good(u) /\ Slowed(t, u)  BY <1>1, <2>1, SeedDeletedFacts
  <2> HIDE DEF u
  <2>3. u \in States  BY <2>2 DEF Good, Sound
  <2>4. Slowed(st, u)  BY <2>1, <2>2, <2>3, SlowedTransitive
  <2>5. u \in W  BY <2>2, <2>3, <2>4 DEF Walking
  <2> QED  BY <2>5 DEF u
<1> HIDE DEF W
<1>4. Rounds(step, I, N)
  <2>1. ASSUME NEW k \in 1..N PROVE step[k] \in [I[k - 1] -> I[k]]
    <3>1. k - 1 \in 0..N /\ k \in 0..N  BY <1>1
    <3>2. I[k - 1] = W /\ I[k] = W  BY <3>1
    <3> HIDE DEF I
    <3> QED  BY <1>3, <3>2
  <2> QED  BY <2>1 DEF Rounds
<1>5. st \in I[0]  BY <1>1, <1>2
<1>6. PICK g : LoopRun(g, N, st, step, I)
  <2> HIDE DEF I, step, N
  <2> QED  BY <1>1, <1>4, <1>5, LoopInvariant
<1>7. Eq(g)
  <2>1. /\ g = [k \in 0..N |-> g[k]] /\ g[0] = st /\ \A k \in 0..N : g[k] \in I[k]
        /\ \A k \in 1..N : g[k] = step[k][g[k - 1]]
    <3> HIDE DEF I, step, N
    <3> QED  BY <1>6 DEF LoopRun
  <2>2. ASSUME NEW k \in 1..N PROVE g[k] = SeedDeleted(g[k - 1], SeedList[k])
    <3>1. k - 1 \in 0..N  BY <1>1
    <3>2. g[k - 1] \in W  BY <2>1, <3>1
    <3> QED  BY <2>1, <3>2
  <2> DEFINE h == [k \in 0..N |-> IF k = 0 THEN st ELSE SeedDeleted(g[k - 1], SeedList[k])]
  <2> HIDE DEF I, step, N
  <2>3. ASSUME NEW k \in 0..N PROVE g[k] = h[k]
    <3>1. CASE k = 0  BY <2>1, <3>1
    <3>2. CASE k # 0
      <4>1. k \in 1..N  BY <1>1, <3>2
      <4> QED  BY <2>2, <3>2, <4>1
    <3> QED  BY <3>1, <3>2
  <2>4. [k \in 0..N |-> g[k]] = h  BY <2>3
  <2> QED  BY <2>1, <2>4
<1>8. Eq(walk)
  <2> HIDE DEF Eq
  <2> QED  BY <1>7
<1> HIDE DEF walk
<1>9. walk[0] = st /\ \A k \in 1..N : walk[k] = SeedDeleted(walk[k - 1], SeedList[k])
  <2> HIDE DEF N
  <2> QED  BY <1>1, <1>8
<1> HIDE DEF Eq, step
<1>10. \A k \in 1..N : walk[k - 1] \in I[k - 1] => walk[k] \in I[k]
  <2> SUFFICES ASSUME NEW k \in 1..N, walk[k - 1] \in W PROVE walk[k] \in W
    <3>1. \A k \in 1..N : I[k] = W /\ I[k - 1] = W  BY <1>1
    <3> HIDE DEF I, N
    <3> QED  BY <3>1
  <2> QED  BY <1>3, <1>9
<1>11. walk[N] \in I[N]
  <2>1. walk[0] \in I[0]  BY <1>5, <1>9
  <2> HIDE DEF I, N
  <2> QED  BY <1>1, <1>10, <2>1, LoopEnd
<1>12. walk[N] \in W  BY <1>1, <1>11
<1>13. ClearWalk(st) = walk[N]  BY DEF ClearWalk, walk, Eq
<1> QED  BY <1>12, <1>13 DEF W, Walking

-----------------------------------------------------------------------------
(***************************************************************************)
(* The invariant of the two timers, and of the whole.                       *)
(***************************************************************************)
LEMMA AgedFacts ==
    ASSUME NEW e \in Entry
    PROVE  /\ Aged(e) = [e EXCEPT !.msgs = Aged(e).msgs]
           /\ Aged(e).msgs \in Seq(Message) /\ Alike(Aged(e).msgs, e.msgs)
           /\ \A i \in 1..Len(e.msgs) : Aged(e).msgs[i].tr = e.msgs[i].tr
<1> DEFINE q == e.msgs
           l == [i \in DOMAIN q |-> Older(q[i])]
<1>1. q \in Seq(Message) /\ DOMAIN q = 1..Len(q) /\ Len(q) \in Nat  BY EntryFields
<1>2. Aged(e) = [e EXCEPT !.msgs = l]  BY DEF Aged
<1>3. ASSUME NEW i \in 1..Len(q) PROVE Stands(l[i], q[i]) /\ l[i].tr = q[i].tr
  <2> DEFINE m == q[i]
             a == IF m.age < AgeLimit THEN m.age + 1 ELSE m.age
  <2>1. m \in Message /\ l[i] = [m EXCEPT !.age = a]  BY <1>1 DEF Older
  <2>2. a \in 0..AgeLimit
    <3>1. m.age \in 0..AgeLimit /\ AgeLimit \in Nat  BY <2>1, MessageFields, MplAssumption
    <3> QED  BY <3>1
  <2> HIDE DEF m, a, l
  <2>3. Stands(l[i], m) /\ l[i].tr = m.tr  BY <2>1, <2>2 DEF Stands, Message
  <2> QED  BY <2>3 DEF m
<1>4. l = [i \in 1..Len(q) |-> l[i]]  BY <1>1
<1> HIDE DEF l
<1>5. Aged(e).msgs = l  BY <1>2, EntryFields DEF Entry
<1> HIDE DEF q
<1>6. l \in [1..Len(q) -> Message]  BY <1>3, <1>4 DEF Stands
<1>7. l \in Seq(Message) /\ Len(l) = Len(q)  BY <1>1, <1>6
<1>8. Alike(l, q)  BY <1>3, <1>7 DEF Alike, Stands
<1> QED  BY <1>2, <1>3, <1>5, <1>7, <1>8 DEF q

\* A step that leaves the seeds as t, which is no more than st was.
LEMMA WalkedInv ==
    ASSUME Inv, NEW st, Good(st), NEW t, Good(t), Slowed(st, t), st.total = total,
           AnyRunning(st.seed) => AnyRunning(seed),
           \A s \in Seeds : \A q \in Numbers : Passes(seed[s], q) => Passes(st.seed[s], q),
           Become(t), UNCHANGED <<timer, own, heard>>,
           \A s \in Seeds : taken'[s] = (IF t.seed[s].alive THEN taken[s] ELSE [n \in 1..MaxSent |-> 0])
                            \/ taken'[s] = [n \in 1..MaxSent |-> 0],
           taken' = [s \in Seeds |-> taken'[s]]
    PROVE  Inv'
<1>1. t \in States /\ t.total \in Int /\ st.total \in Int  BY StateFields DEF Good, Sound
<1>2. Here' = t /\ seed' = t.seed /\ total' = t.total  BY <1>1, BecomeHere DEF Become
<1>3. Good(Here)'
  <2>1. Good(Here')  BY <1>2
  <2> QED  BY <2>1
<1>4. total' <= MaxBuffered
  <2>1. t.total <= total /\ total <= MaxBuffered /\ MaxBuffered \in Nat
    BY MplAssumption DEF Slowed, Inv
  <2> QED  BY <1>1, <1>2, <2>1
<1>5. Plain'
  <2>1. taken \in [Seeds -> [1..MaxSent -> {0, 1}]]  BY DEF Inv, Plain
  <2>2. \A s \in Seeds : taken'[s] \in [1..MaxSent -> {0, 1}]  BY <2>1
  <2>3. taken' \in [Seeds -> [1..MaxSent -> {0, 1}]]  BY <2>2
  <2> QED  BY <2>3 DEF Inv, Plain
<1>6. TimerArmed'
  <2> SUFFICES ASSUME AnyRunning(t.seed) PROVE timer
    BY <1>2 DEF TimerArmed
  <2>1. AnyRunning(st.seed)  BY DEF AnyRunning, Slowed
  <2> QED  BY <2>1 DEF Inv, TimerArmed
<1>7. Counted'
  <2> SUFFICES ASSUME NEW s \in Seeds, NEW n \in 1..MaxSent, taken'[s][n] = 1
               PROVE  Passes(t.seed[s], SeqNo(n))
    BY <1>2 DEF Counted
  <2>1. t.seed[s].alive /\ taken[s][n] = 1
    <3>1. taken'[s] # [k \in 1..MaxSent |-> 0]
      <4> DEFINE z == [k \in 1..MaxSent |-> 0]
      <4>1. z[n] = 0  OBVIOUS
      <4> HIDE DEF z
      <4>2. taken'[s] # z  BY <4>1
      <4> QED  BY <4>2 DEF z
    <3> QED  BY <3>1
  <2>2. SeqNo(n) \in Numbers  BY DEF Numbers
  <2>3. Passes(seed[s], SeqNo(n))  BY <2>1 DEF Inv, Counted
  <2>4. Passes(st.seed[s], SeqNo(n))  BY <2>2, <2>3
  <2> QED  BY <2>1, <2>2, <2>4 DEF Slowed
<1> QED  BY <1>3, <1>4, <1>5, <1>6, <1>7 DEF Inv

LEMMA SlowTimerInv ==
    ASSUME Inv, SlowTimer
    PROVE  Inv'
<1> DEFINE lists == [s \in Seeds |-> Aged(seed[s]).msgs]
           st == Relisted(lists)
           t == SlowWalk(st)
<1>1. Good(Here)  BY DEF Inv
<1>2. \A s \in Seeds : seed[s] \in Entry /\ seed[s].msgs \in Seq(Message)  BY <1>1, HereSeeds
<1>3. ASSUME NEW s \in Seeds
      PROVE  /\ Aged(seed[s]) = [seed[s] EXCEPT !.msgs = lists[s]]
             /\ lists[s] \in Seq(Message) /\ Alike(lists[s], seed[s].msgs)
             /\ \A i \in 1..Len(seed[s].msgs) : lists[s][i].tr = seed[s].msgs[i].tr
  <2> DEFINE e == seed[s]
  <2>1. e \in Entry  BY <1>2
  <2> HIDE DEF e
  <2>2. /\ Aged(e) = [e EXCEPT !.msgs = Aged(e).msgs]
        /\ Aged(e).msgs \in Seq(Message) /\ Alike(Aged(e).msgs, e.msgs)
        /\ \A i \in 1..Len(e.msgs) : Aged(e).msgs[i].tr = e.msgs[i].tr
    BY <2>1, AgedFacts
  <2>3. lists[s] = Aged(e).msgs  BY DEF e
  <2> HIDE DEF lists
  <2> QED  BY <2>2, <2>3 DEF e
<1>4. [Here EXCEPT !.seed = [s \in Seeds |-> Aged(@[s])]] = st
  <2> DEFINE f == [s \in Seeds |-> Aged(seed[s])]
             g == [s \in Seeds |-> [seed[s] EXCEPT !.msgs = lists[s]]]
  <2>1. f = g
    <3> HIDE DEF lists
    <3> QED  BY <1>3
  <2>2. [Here EXCEPT !.seed = [s \in Seeds |-> Aged(@[s])]] = [seed |-> f, total |-> total]  BY DEF Here
  <2>3. st = [seed |-> g, total |-> total]  BY DEF Relisted
  <2> HIDE DEF f, g
  <2> QED  BY <2>1, <2>2, <2>3
<1>5. /\ Become(t) /\ UNCHANGED <<timer, own, heard>>
      /\ taken' = [s \in Seeds |-> IF t.seed[s].alive THEN taken[s] ELSE [n \in 1..MaxSent |-> 0]]
  <2> HIDE DEF st
  <2> QED  BY <1>4 DEF SlowTimer
<1> HIDE DEF lists
<1>6. Refreshed(Here, st) /\ st.total = total /\ \A s \in Seeds : st.seed[s].msgs = lists[s]
  BY <1>1, <1>3, RelistedFacts
<1> HIDE DEF st
<1>7. Good(st) /\ SameNumbers(Here, st)  BY <1>1, <1>6, RefreshedFacts
<1>8. Good(t) /\ Slowed(st, t)  BY <1>7, SlowWalkFacts
<1> HIDE DEF t
<1>9. ASSUME AnyRunning(st.seed) PROVE AnyRunning(seed)
  <2>1. PICK s \in Seeds : \E m \in Range(lists[s]) : T!Running(m.tr, Data)
    BY <1>6, <1>9 DEF AnyRunning
  <2>2. PICK m \in Range(lists[s]) : T!Running(m.tr, Data)  BY <2>1
  <2>3. PICK i \in 1..Len(lists[s]) : m = lists[s][i]
    <3>1. lists[s] \in Seq(Message)  BY <1>3
    <3> QED  BY <3>1, RangeIs
  <2>4. Len(lists[s]) = Len(seed[s].msgs)  BY <1>3 DEF Alike
  <2> DEFINE o == seed[s].msgs[i]
  <2>5. o.tr = m.tr  BY <1>3, <2>3, <2>4
  <2>6. o \in Range(seed[s].msgs)
    <3> DEFINE q == seed[s].msgs
    <3>1. q \in Seq(Message) /\ i \in 1..Len(q)  BY <1>2, <2>3, <2>4
    <3> HIDE DEF q
    <3>2. q[i] \in Range(q)  BY <3>1, RangeIs
    <3> QED  BY <3>2 DEF q
  <2> HIDE DEF o
  <2> QED  BY <2>2, <2>5, <2>6 DEF AnyRunning
<1>10. \A s \in Seeds : \A q \in Numbers : Passes(seed[s], q) => Passes(st.seed[s], q)
  BY <1>7, HereFields DEF SameNumbers, Passes
<1>11. /\ \A s \in Seeds : taken'[s] = (IF t.seed[s].alive THEN taken[s] ELSE [n \in 1..MaxSent |-> 0])
                           \/ taken'[s] = [n \in 1..MaxSent |-> 0]
       /\ taken' = [s \in Seeds |-> taken'[s]]
  BY <1>5
<1> QED  BY <1>5, <1>6, <1>7, <1>8, <1>9, <1>10, <1>11, WalkedInv

LEMMA ClearSeedsInv ==
    ASSUME Inv, ClearSeeds
    PROVE  Inv'
<1> DEFINE t == ClearWalk(Here)
<1>1. Good(Here)  BY DEF Inv
<1>2. Good(t) /\ Slowed(Here, t)  BY <1>1, ClearWalkFacts
<1>3. /\ Become(t) /\ UNCHANGED <<timer, own, heard>>
      /\ taken' = [s \in Seeds |-> [n \in 1..MaxSent |-> 0]]
  BY DEF ClearSeeds
<1> HIDE DEF t
<1>4. /\ \A s \in Seeds : taken'[s] = (IF t.seed[s].alive THEN taken[s] ELSE [n \in 1..MaxSent |-> 0])
                           \/ taken'[s] = [n \in 1..MaxSent |-> 0]
      /\ taken' = [s \in Seeds |-> taken'[s]]
  BY <1>3
<1>5. /\ Here.total = total /\ (AnyRunning(Here.seed) => AnyRunning(seed))
      /\ \A s \in Seeds : \A q \in Numbers : Passes(seed[s], q) => Passes(Here.seed[s], q)
  BY HereFields
<1> QED  BY <1>1, <1>2, <1>3, <1>4, <1>5, WalkedInv

LEMMA InitInv == Init => Inv
<1> SUFFICES ASSUME Init PROVE Inv
  OBVIOUS
<1>1. /\ seed = [s \in Seeds |-> NoSeed] /\ total = 0 /\ timer = FALSE /\ own = 0 /\ heard = 0
      /\ taken = [s \in Seeds |-> [n \in 1..MaxSent |-> 0]]
  BY DEF Init
<1>2. Plain
  <2>1. 0 \in 0..MaxSent /\ 0 \in 0..MaxHeard  BY MplAssumption, HalfFacts
  <2> QED  BY <1>1, <2>1 DEF Plain
<1>3. \A s \in Seeds : seed[s] = NoSeed /\ Range(seed[s].msgs) = {}  BY <1>1, NoSeedListed
<1>4. Bytes(seed) = {}  BY <1>3 DEF Bytes
<1>5. Good(Here)
  <2>1. Here = [seed |-> seed, total |-> 0]  BY <1>1 DEF Here
  <2>2. Here \in States  BY <1>1, <2>1, NoSeedListed DEF States
  <2>3. Here.total = Cardinality(Bytes(Here.seed))  BY <1>1, <1>4, HereFields, FS_EmptySet
  <2> QED  BY <1>3, <2>2, <2>3, HereFields, NoSeedListed DEF Good, Sound
<1>6. total <= MaxBuffered  BY <1>1, MplAssumption
<1>7. Counted  BY <1>1 DEF Counted
<1>8. TimerArmed  BY <1>3 DEF TimerArmed, AnyRunning
<1> QED  BY <1>2, <1>5, <1>6, <1>7, <1>8 DEF Inv

LEMMA NextInv == Inv /\ [Next]_vars => Inv'
<1> SUFFICES ASSUME Inv, [Next]_vars PROVE Inv'
  OBVIOUS
<1>1. ASSUME NEW s \in Seeds, NEW n \in 1..MaxSent, NEW newest \in BOOLEAN, NEW lasthop \in BOOLEAN,
             Receive(s, n, newest, lasthop)
      PROVE  Inv'
  <2>1. /\ Good(Here)' /\ total' <= MaxBuffered /\ Counted' /\ TimerArmed'
        /\ timer' \in BOOLEAN /\ taken' \in [Seeds -> [1..MaxSent -> {0, 1}]]
    BY <1>1, ProcessMessageInv DEF Receive
  <2>2. heard' \in 0..MaxHeard /\ own' \in 0..MaxSent
    BY <1>1, MplAssumption DEF Receive, Inv, Plain
  <2> QED  BY <2>1, <2>2 DEF Inv, Plain
<1>2. ASSUME SeedMessage PROVE Inv'
  <2>1. own \in 0..MaxSent /\ own < MaxSent /\ own' = own + 1 /\ heard' = heard /\ heard \in 0..MaxHeard
    BY <1>2 DEF SeedMessage, Inv, Plain
  <2> DEFINE n == own + 1
  <2>2. n \in 1..MaxSent /\ own' \in 0..MaxSent  BY <2>1, HalfFacts
  <2>3. ProcessMessage(Own, n, FALSE, FALSE)  BY <1>2 DEF SeedMessage
  <2>4. Own \in Seeds  BY MplAssumption
  <2> HIDE DEF n
  <2>5. /\ Good(Here)' /\ total' <= MaxBuffered /\ Counted' /\ TimerArmed'
        /\ timer' \in BOOLEAN /\ taken' \in [Seeds -> [1..MaxSent -> {0, 1}]]
    BY <2>2, <2>3, <2>4, ProcessMessageInv
  <2> QED  BY <2>1, <2>2, <2>5 DEF Inv, Plain
<1>3. ASSUME NEW said, ControlHandler(said) PROVE Inv'  BY <1>3, ControlHandlerInv
<1>4. ASSUME FastTimer PROVE Inv'  BY <1>4, FastTimerInv
<1>5. ASSUME SlowTimer PROVE Inv'  BY <1>5, SlowTimerInv
<1>6. ASSUME ClearSeeds PROVE Inv'  BY <1>6, ClearSeedsInv
<1>7. ASSUME UNCHANGED vars PROVE Inv'
  <2>1. Here' = Here  BY <1>7 DEF vars, Here
  <2>2. Good(Here)'
    <3>1. Good(Here')  BY <2>1 DEF Inv
    <3> QED  BY <3>1
  <2>3. Counted' /\ TimerArmed' /\ Plain' /\ total' <= MaxBuffered
    BY <1>7 DEF vars, Inv, Counted, TimerArmed, Plain
  <2> QED  BY <2>2, <2>3 DEF Inv
<1> QED  BY <1>1, <1>2, <1>3, <1>4, <1>5, <1>6, <1>7 DEF Next

LEMMA Invariance == Spec => []Inv
  BY InitInv, NextInv, PTL DEF Spec

-----------------------------------------------------------------------------
\* Entries, their windows and lists, and every Trickle timer are well formed,
\* and a seed that mpl_seed_delete() took leaves nothing behind.
THEOREM SeedSetTypes == Spec => []TypeOK
<1>1. Inv => TypeOK
  <2> SUFFICES ASSUME Inv PROVE TypeOK
    OBVIOUS
  <2>1. Good(Here) /\ Plain  BY DEF Inv
  <2>2. Here \in States  BY <2>1 DEF Good, Sound
  <2>3. seed \in [Seeds -> Entry]  BY <2>2, StateFields, HereFields
  <2>4. \A s \in Seeds : seed[s].alive \/ seed[s] = NoSeed  BY <2>1, HereSeeds DEF Listed
  <2> QED  BY <2>1, <2>3, <2>4 DEF TypeOK, Plain
<1> QED  BY <1>1, Invariance, PTL

\* mpl_buffer_create() keeps a seed's list in order, across the wrap of the
\* sequence numbers, and mpl_free_space(), mpl_seed_advance_min_sequence() and
\* mpl_slow_timer() never leave a message before the window they move.
THEOREM ListsOrdered == Spec => []Ordered
<1>1. Inv => Ordered
  <2> SUFFICES ASSUME Inv, NEW s \in Seeds, NEW i \in DOMAIN seed[s].msgs
               PROVE  /\ ~After(seed[s].min, seed[s].msgs[i].seq)
                      /\ \A j \in 1..(i - 1) : After(seed[s].msgs[i].seq, seed[s].msgs[j].seq)
    BY DEF Ordered
  <2>1. Good(Here)  BY DEF Inv
  <2>2. Listed(seed[s]) /\ i \in 1..Len(seed[s].msgs) /\ Len(seed[s].msgs) \in Nat  BY <2>1, HereSeeds
  <2>3. Windowed(seed[s])  BY <2>1, HereFields DEF Good
  <2>4. \A j \in 1..(i - 1) : j \in 1..Len(seed[s].msgs) /\ j < i  BY <2>2
  <2> QED  BY <2>2, <2>3, <2>4 DEF Listed, Windowed
<1> QED  BY <1>1, Invariance, PTL

\* mpl_forwarder_process_message() hands a message on at most once in the life
\* of its seed's entry, whatever copies come and whatever space is freed.
THEOREM TakenOnce == Spec => []AtMostOnce
<1>1. Inv => AtMostOnce
  <2> SUFFICES ASSUME Inv, NEW s \in Seeds, NEW n \in 1..MaxSent PROVE taken[s][n] <= 1
    BY DEF AtMostOnce
  <2>1. taken[s][n] \in {0, 1}  BY DEF Inv, Plain
  <2> QED  BY <2>1
<1> QED  BY <1>1, Invariance, PTL

\* mpl_total_buffered is the size of what mpl_buffer_create() put in and
\* mpl_buffer_delete() has not taken out, and never over its limit.
THEOREM BufferAccounted == Spec => []Accounted
<1>1. Inv => Accounted
  <2> SUFFICES ASSUME Inv PROVE Accounted
    OBVIOUS
  <2>1. Good(Here) /\ total <= MaxBuffered  BY DEF Inv
  <2>2. total = Cardinality(Bytes(seed))  BY <2>1, HereFields DEF Good, Sound
  <2> QED  BY <2>1, <2>2 DEF Accounted
<1> QED  BY <1>1, Invariance, PTL

\* No call that starts a Trickle timer leaves the fast timer unarmed, and
\* mpl_fast_timer() arms itself again while one of them runs.
THEOREM FastTimerArmed == Spec => []TimerArmed
<1>1. Inv => TimerArmed  BY DEF Inv
<1> QED  BY <1>1, Invariance, PTL
=============================================================================
